-------------------------------- MODULE Rerun ---------------------------------
(* `lab runs rerun` (cli.py): a stored run is run again from its recorded    *)
(* config as a new run, one by name or every stale one in a sweep, while     *)
(* strategy files change and go and rows are deleted. A run is stale when    *)
(* its ledger was never reconciled and it ended with positions.              *)
EXTENDS Integers, Sequences, FiniteSets

CONSTANTS
    Stock,       \* the runs there are: run -> path and stale
    Paths,       \* strategy files
    MaxNew,      \* bound: runs made
    MaxWrites    \* bound: rewrites of files

RerunAssumption ==
    /\ MaxNew \in Nat /\ MaxWrites \in Nat
    /\ Stock \in Seq([path : Paths, stale : BOOLEAN])

VARIABLES
    shelf,     \* run -> path, stale, of (the run it repeats), code; rows that are left
    code,      \* path -> version of its file, 0 when it is gone
    writes,    \* versions written so far
    queue,      \* the sweep: runs still to do
    listed,    \* what it set out to do
    doing,     \* the run it is running, 0 when between two
    report,    \* run -> what became of it, as the sweep tells at its end
    made       \* runs made so far

-----------------------------------------------------------------------------
Init ==
    /\ shelf = [r \in DOMAIN Stock |-> [path |-> Stock[r].path, stale |-> Stock[r].stale, of |-> 0, code |-> 1]]
    /\ code = [p \in Paths |-> 1] /\ writes = 1
    /\ queue = <<>> /\ listed = {} /\ doing = 0 /\ report = <<>> /\ made = 0

sweeping == <<queue, listed, doing, report>>

(* _stale_runs, newest first.                                                *)
StaleRuns == {r \in DOMAIN shelf : shelf[r].stale}
NewerThan(r, S) == Cardinality({x \in S : x > r})
NewestFirst(S) == [i \in 1..Cardinality(S) |-> CHOOSE r \in S : NewerThan(r, S) = i - 1]

Tell(r, what) == report' = Append(report, <<r, what>>)

Write(p) ==
    /\ writes < MaxWrites /\ writes' = writes + 1 /\ code' = [code EXCEPT ![p] = writes + 1]
    /\ UNCHANGED <<shelf, sweeping, made>>
Unlink(p) ==
    /\ code[p] # 0 /\ code' = [code EXCEPT ![p] = 0]
    /\ UNCHANGED <<shelf, writes, sweeping, made>>
Delete(r) ==
    /\ shelf' = [x \in DOMAIN shelf \ {r} |-> shelf[x]]
    /\ UNCHANGED <<code, writes, sweeping, made>>

(* Mutant: the numbers go to the run they correct.                           *)
InPlace(r) == [shelf EXCEPT ![r].stale = FALSE, ![r].code = code[shelf[r].path]]
(* run_backtest registers a run of its own; the engine reconciles its ledger.*)
NewId == Len(Stock) + made + 1
NewRun(r) ==
    [x \in DOMAIN shelf \cup {NewId} |->
        IF x = NewId THEN [path |-> shelf[r].path, stale |-> FALSE, of |-> r, code |-> code[shelf[r].path]]
        ELSE shelf[x]]

Runnable(r) == r \in DOMAIN shelf /\ code[shelf[r].path] # 0

(* One run by name: an unknown run and a file that is gone are refused.      *)
RerunOne(r) ==
    /\ made < MaxNew
    /\ Runnable(r)
    /\ shelf' = NewRun(r) /\ made' = made + 1
    /\ UNCHANGED <<code, writes, sweeping>>

SweepStale ==
    /\ listed = {} /\ StaleRuns # {}
    /\ listed' = StaleRuns /\ queue' = NewestFirst(StaleRuns)
    /\ UNCHANGED <<shelf, code, writes, doing, report, made>>

(* The next of the sweep: skipped without its row or its file.               *)
SkipRun ==
    /\ queue # <<>> /\ doing = 0
    /\ ~Runnable(Head(queue))
    /\ Tell(Head(queue), "skipped") /\ queue' = Tail(queue)
    /\ UNCHANGED <<shelf, code, writes, listed, doing, made>>
StartRun ==
    /\ queue # <<>> /\ doing = 0 /\ made < MaxNew
    /\ Runnable(Head(queue))
    /\ shelf' = NewRun(Head(queue)) /\ made' = made + 1
    /\ doing' = Head(queue) /\ queue' = Tail(queue)
    /\ UNCHANGED <<code, writes, listed, report>>

RunEnds ==
    /\ doing # 0 /\ Tell(doing, "rerun") /\ doing' = 0
    /\ UNCHANGED <<shelf, code, writes, queue, listed, made>>
(* Mutant: one bad run stops the sweep.                                      *)
RunFailsAll ==
    /\ doing # 0 /\ Tell(doing, "failed") /\ doing' = 0 /\ queue' = <<>>
    /\ UNCHANGED <<shelf, code, writes, listed, made>>
RunFails ==
    /\ doing # 0 /\ Tell(doing, "failed") /\ doing' = 0
    /\ UNCHANGED <<shelf, code, writes, queue, listed, made>>

Next ==
    \/ \E p \in Paths : Write(p) \/ Unlink(p)
    \/ \E r \in DOMAIN shelf : RerunOne(r) \/ (shelf[r].of = 0 /\ Delete(r))
    \/ SweepStale \/ SkipRun \/ StartRun \/ RunEnds \/ RunFails

-----------------------------------------------------------------------------
(* Artifacts are immutable: whatever is run again, a run that is there stays *)
(* what it was when it was computed, or is deleted, and never changes.       *)
OldRunsStay ==
    [][\A r \in DOMAIN shelf : r \in DOMAIN shelf' => shelf'[r] = shelf[r]]_<<shelf, code, writes, sweeping, made>>

(* A sweep that is over tells what became of every run it set out to repeat, *)
(* once each: runs that fail, rows deleted and files removed while it was    *)
(* under way stop none of those after them.                                  *)
SweepTellsOfAll ==
    (listed # {} /\ queue = <<>> /\ doing = 0) =>
        /\ {report[i][1] : i \in DOMAIN report} = listed
        /\ Len(report) = Cardinality(listed)
=============================================================================
