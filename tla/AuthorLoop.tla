----------------------------- MODULE AuthorLoop -----------------------------
(* The author loop of lab/agent/author_loop.py: a model proposes parameters, *)
(* and in freeform mode source, each proposal is backtested, and the next    *)
(* builds on the last one that ran. A code is the number of the iteration    *)
(* that wrote it, 0 the seed; parameters are one knob. Scores choose the     *)
(* best of the lineage at the end and steer nothing: they are left out.      *)
EXTENDS Integers, ModelCall

CONSTANTS
    Backend,          \* LAB_AGENT_PROVIDER
    Freeform,         \* grid_or_freeform = "freeform"
    Iterations, LoopBudget,
    Knobs             \* values of the parameter, 0 the seed's

LoopAssumption ==
    /\ Backend \in Backends /\ Freeform \in BOOLEAN
    /\ Iterations \in Nat \ {0} /\ LoopBudget \in Nat \ {0} /\ 0 \in Knobs

VARIABLES
    at,       \* where the loop is
    n,        \* the iteration
    spend,
    misses,   \* consecutive_failures: calls that failed, not proposals refused
    prev,     \* what the next proposal builds on: code, params, run
    lineage,  \* the iterations, with the baseline first
    book,     \* registry: what each run of this loop ran, and its parent
    offer     \* the proposal in hand

vars == <<at, n, spend, misses, prev, lineage, book, offer>>

NoRun == 0
NoParams == -1
Offers == [params : Knobs \cup {NoParams}, source : BOOLEAN, stop : BOOLEAN]

Init ==
    /\ at = "off" /\ n = 0 /\ spend = 0 /\ misses = 0 /\ lineage = <<>> /\ book = <<>>
    /\ prev = [code |-> 0, params |-> 0, run |-> NoRun] /\ offer = Nothing

(* The command, with the kill switch released: a backend or no loop.         *)
Begin ==
    /\ at = "off" /\ \E usable \in SUBSET Backends : Resolve(Backend, usable) # NoBackend
    /\ at' = "baseline"
    /\ UNCHANGED <<n, spend, misses, prev, lineage, book, offer>>

(* _evaluate: a run, registered with its parent, or a variation that raised. *)
(* What runs is ran; the diff on record goes from prev to code and params.   *)
Evaluate(ran, code, params, parent, ok) ==
    /\ book' = IF ok THEN Append(book, [code |-> ran, params |-> params, parent |-> parent]) ELSE book
    /\ lineage' = Append(lineage, [run |-> IF ok THEN Len(book) + 1 ELSE NoRun, base |-> prev,
                                   code |-> code, params |-> params])

(* The seed is scored first; the chain starts at it even when it fails.      *)
Baseline ==
    /\ at = "baseline"
    /\ \E ok \in BOOLEAN :
        /\ Evaluate(0, 0, 0, NoRun, ok)
        /\ prev' = [prev EXCEPT !.run = IF ok THEN Len(book) + 1 ELSE NoRun]
    /\ at' = "top" /\ UNCHANGED <<n, spend, misses, offer>>

Affords == spend < LoopBudget
LoopTop ==
    /\ at = "top"
    /\ IF n < Iterations /\ Affords THEN n' = n + 1 /\ at' = "ask"
       ELSE at' = "done" /\ UNCHANGED n
    /\ UNCHANGED <<spend, misses, prev, lineage, book, offer>>

Blank == [run |-> NoRun, base |-> prev, code |-> prev.code, params |-> prev.params]

(* call_tool, and validate_proposal on what it returned: an invalid proposal *)
(* is dropped and asked again, a failed call twice in a row ends the loop.   *)
Propose ==
    /\ at = "ask"
    /\ \E c \in Calls(Backend, Offers) :
        /\ spend' = spend + c.cost
        /\ IF ~c.ok
           THEN /\ misses' = misses + 1 /\ lineage' = Append(lineage, Blank)
                /\ at' = IF misses + 1 >= 2 THEN "done" ELSE "top"
                /\ UNCHANGED offer
           ELSE /\ misses' = 0
                /\ IF c.input = Nothing
                   THEN lineage' = Append(lineage, Blank) /\ at' = "top" /\ UNCHANGED offer
                   ELSE offer' = c.input /\ at' = "try" /\ UNCHANGED lineage
    /\ UNCHANGED <<n, prev, book>>

(* The file this iteration runs: what it wrote, else the chain's last one.   *)
StrategyPathMutant(o) == IF o.source /\ Freeform THEN n ELSE 0
StrategyPath(o) == IF o.source /\ Freeform THEN n ELSE prev.code
NewSource(o) == IF o.source /\ Freeform THEN n ELSE prev.code
Merged(o) == IF o.params = NoParams THEN prev.params ELSE o.params

(* Only an iteration that ran moves the chain.                               *)
MovesMutant(ok) == TRUE
Moves(ok) == ok
Try ==
    /\ at = "try"
    /\ \E ok \in BOOLEAN :
        /\ Evaluate(StrategyPath(offer), NewSource(offer), Merged(offer), prev.run, ok)
        /\ prev' = IF Moves(ok) THEN [code |-> NewSource(offer), params |-> Merged(offer),
                                      run |-> IF ok THEN Len(book) + 1 ELSE prev.run]
                   ELSE prev
    /\ at' = IF offer.stop THEN "done" ELSE "top"
    /\ offer' = Nothing
    /\ UNCHANGED <<n, spend, misses>>

Next == Begin \/ Baseline \/ LoopTop \/ Propose \/ Try
Spec == Init /\ [][Next]_vars

-----------------------------------------------------------------------------
(* The run and its audit trail agree about what ran: the registry has for    *)
(* each iteration the code and parameters its diff leads to, and for its     *)
(* parent the code and parameters its diff starts from. A chain that goes    *)
(* back to the seed when only parameters are proposed would break it.        *)
LineageIsWhatRan ==
    \A i \in DOMAIN lineage :
        LET it == lineage[i] IN it.run # NoRun =>
            /\ book[it.run].code = it.code /\ book[it.run].params = it.params
            /\ book[it.run].parent = it.base.run
            /\ it.base.run # NoRun => /\ book[it.base.run].code = it.base.code
                                      /\ book[it.base.run].params = it.base.params
=============================================================================
