------------------------------- MODULE InLoop -------------------------------
(* AgentStrategy of lab/agent/in_loop_strategy.py: a strategy that asks a    *)
(* model once a session, under a budget and a latency limit, and the wall of *)
(* lab/agent/schemas.py its targets pass. Weights are whole tenths.          *)
EXTENDS ModelCall

CONSTANTS
    Universe, MaxPositions, MaxPct,
    Backend, AgentBudget,
    Sessions,      \* bound: trading sessions
    MaxRestarts    \* bound

AgentAssumption ==
    /\ Backend \in Backends /\ AgentBudget \in Nat \ {0}
    /\ MaxPositions \in Nat /\ MaxPct \in Nat
    /\ Sessions \in Nat \ {0} /\ MaxRestarts \in Nat

VARIABLES
    day, last,     \* the session, and the one the model was last asked in
    spend,         \* _spend_usd
    off,           \* _disabled
    bill,          \* agent_calls of the run: number and cost
    asked,         \* per session: how often the model was asked
    heard,         \* the payload of this answer, <<>> when there is none
    intents,       \* what this bar gave the context
    restarts

vars == <<day, last, spend, off, bill, asked, heard, intents, restarts>>

-----------------------------------------------------------------------------
(* validate_targets_verbose. An entry is a ticker, known or not, and a       *)
(* weight; one that is out of bounds goes alone, a ticker named twice goes   *)
(* with all its entries, and too many positions refuse the whole payload.    *)
Entry(t, p) == [ticker |-> t, pct |-> p]
Parsed(e) == e.ticker \in Universe /\ e.pct <= MaxPct
Staged(es) == {i \in DOMAIN es : Parsed(es[i])}
TwiceMutant(es, i) == \E j \in Staged(es) : j < i /\ es[j].ticker = es[i].ticker
Twice(es, i) == \E j \in Staged(es) : j # i /\ es[j].ticker = es[i].ticker
Kept(es) == {i \in Staged(es) : ~Twice(es, i)}
OpensMutant(es) == Kept(es)
Opens(es) == {i \in Kept(es) : es[i].pct > 0}
TooManyMutant(es) == Cardinality(Opens(es)) > MaxPositions + 1
TooMany(es) == Cardinality(Opens(es)) > MaxPositions
Validated(es) ==
    IF TooMany(es) THEN {} ELSE {es[i] : i \in Kept(es)}

Stranger == "stranger"
Entries == {Entry(t, p) : t \in Universe \cup {Stranger}, p \in {0, MaxPct, MaxPct + 1}}
Targets == UNION {[1..k -> Entries] : k \in 0..2}

-----------------------------------------------------------------------------
Init ==
    /\ day = 1 /\ last = 0 /\ spend = 0 /\ off = FALSE /\ restarts = 0
    /\ bill = [calls |-> 0, spend |-> 0] /\ asked = [d \in 1..Sessions |-> 0]
    /\ heard = <<>> /\ intents = {}

(* on_bar, for a bar of today: nothing once disabled or asked; the session   *)
(* is taken before the call, so that a failed one is not repeated; a slow    *)
(* answer is used and is the last.                                           *)
ExhaustedMutant == spend > AgentBudget
Exhausted == spend >= AgentBudget
DueMutant == TRUE
Due == day # last
OnBar ==
    /\ ~off /\ Due
    /\ IF Exhausted
       THEN /\ off' = TRUE /\ heard' = <<>> /\ intents' = {} /\ UNCHANGED <<last, spend, bill, asked>>
       ELSE /\ last' = day /\ asked' = [asked EXCEPT ![day] = asked[day] + 1]
            /\ \E c \in Calls(Backend, Targets), slow \in BOOLEAN :
                /\ bill' = [calls |-> bill.calls + 1, spend |-> bill.spend + c.cost]
                /\ spend' = spend + c.cost
                /\ off' = slow
                /\ heard' = IF ~c.ok \/ c.input = Nothing THEN <<>> ELSE c.input
                /\ intents' = Validated(heard')
    /\ UNCHANGED <<day, restarts>>

(* _client_or_disable: no backend is configured, and none will be looked for *)
(* again. A client once found is kept.                                       *)
NoClient ==
    /\ ~off /\ Due /\ spend < AgentBudget /\ last = 0
    /\ off' = TRUE /\ heard' = <<>> /\ intents' = {}
    /\ UNCHANGED <<day, last, spend, bill, asked, restarts>>

NextSession ==
    /\ day < Sessions /\ day' = day + 1 /\ heard' = <<>> /\ intents' = {}
    /\ UNCHANGED <<last, spend, off, bill, asked, restarts>>

(* The runner starts again with a new AgentStrategy.                         *)
Restart ==
    /\ restarts < MaxRestarts /\ restarts' = restarts + 1
    /\ last' = 0 /\ spend' = 0 /\ off' = FALSE /\ heard' = <<>> /\ intents' = {}
    /\ UNCHANGED <<day, bill, asked>>

Next == OnBar \/ NoClient \/ NextSession \/ Restart
Spec == Init /\ [][Next]_vars

-----------------------------------------------------------------------------
(* What reaches the context is a book: at most max_positions names held, one *)
(* weight a name, none above its bound, whatever the model sends.            *)
WallHolds ==
    /\ Cardinality({e \in intents : e.pct > 0}) <= MaxPositions
    /\ \A e \in intents : e.ticker \in Universe /\ e.pct <= MaxPct
    /\ \A e, f \in intents : e.ticker = f.ticker => e = f

(* The order a model lists its targets in changes nothing: no entry wins     *)
(* over another of the same name, and none is cut for coming late.           *)
OrderDoesNotMatter ==
    LET n == Len(heard) IN intents = Validated([i \in 1..n |-> heard[n + 1 - i]])

(* An exit is never refused for capacity: where the holdings of a payload    *)
(* fit, every exit it names once is taken.                                   *)
ExitsAreFree ==
    LET opens == {i \in DOMAIN heard : heard[i].pct > 0}
    IN Cardinality(opens) <= MaxPositions =>
        \A i \in DOMAIN heard :
            heard[i].pct = 0 /\ heard[i].ticker \in Universe
                /\ (\A j \in DOMAIN heard : j # i => heard[j].ticker # heard[i].ticker)
            => heard[i] \in intents

(* The model is asked once a session by each process of the runner, and the  *)
(* budget bounds each process, not the run: a restart asks and spends again. *)
OncePerSession ==
    /\ \A d \in 1..Sessions : asked[d] <= 1 + restarts
    /\ bill.calls <= Sessions + restarts
AgentSpendBounded ==
    \A p \in Prices : (\A q \in Prices : q <= p) => bill.spend < (AgentBudget + p) * (1 + restarts)
=============================================================================
