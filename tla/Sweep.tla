------------------------------- MODULE Sweep ---------------------------------
(* A parameter sweep (backtest/sweep.py): grid points are chosen, submitted  *)
(* to a pool of processes that run and register one backtest each, collected *)
(* as they complete, run serially where the pool gave no answer, and ranked; *)
(* with walk-forward windows every window picks its in-sample winner. Scores *)
(* and how to rank them are drawn then: nothing before depends on them.      *)
EXTENDS Integers, Sequences, FiniteSets, FiniteSetsExt

CONSTANTS
    Points,      \* grid points, 1 to N in grid order
    MaxRuns,     \* values of max_runs
    Scores,      \* in- and out-of-sample scores a run may have
    None         \* no score: nothing held out, too few bars, not a number

SweepAssumption ==
    IsFiniteSet(Points) /\ Points \subseteq Nat /\ MaxRuns \subseteq Nat /\ Scores \subseteq Nat /\ None \notin Nat

VARIABLES
    cfg,         \* a pool (workers above one), max_runs
    ranking,     \* metric ("is", or "oos": also a bare one), lower is better, windows
    step,        \* "select", "submit", "collect", "serial", "rank", "ranked"
    chosen,      \* the points to run, in order
    future,      \* point -> "none", "waiting", "running", "ok", "error" or "broken"
    results,     \* point -> "none", "ok" or "error"
    registered,  \* point -> runs of it in the registry
    broken,      \* the pool lost a worker
    early,       \* it did while points were still being submitted: auxiliary
    rows,        \* the ranked rows
    pick         \* the window's entry in the walk-forward table

sweepVars == <<cfg, ranking, step, chosen, future, results, registered, broken, early, rows, pick>>

NoPick == [is |-> None, oos |-> None, best |-> None, rank |-> None, point |-> None]
Plain == [metric |-> "oos", lower |-> FALSE, windows |-> FALSE]
All == [p \in Points |-> "none"]

Init ==
    /\ cfg \in [pool: BOOLEAN, max: MaxRuns] /\ ranking = Plain
    /\ step = "select" /\ chosen = <<>> /\ future = All /\ results = All
    /\ registered = [p \in Points |-> 0] /\ broken = FALSE /\ early = FALSE
    /\ rows = <<>> /\ pick = NoPick

(* Grid order; when the grid is cut to max_runs, also the order of the coarse *)
(* screen, whatever that is.                                                 *)
Grid(order) == \A i, j \in DOMAIN order : i < j => order[i] < order[j]
Orders == {o \in Bijection(1..Cardinality(Points), Points) : cfg.max < Cardinality(Points) \/ Grid(o)}
Select ==
    /\ step = "select"
    /\ \E order \in Orders :
          chosen' = SubSeq(order, 1, IF cfg.max < Len(order) THEN cfg.max ELSE Len(order))
    /\ step' = IF cfg.pool THEN "submit" ELSE "serial"
    /\ UNCHANGED <<cfg, ranking, future, results, registered, broken, early, rows, pick>>

Wanted == {chosen[i] : i \in DOMAIN chosen}
(* The point that comes first of those at the places I.                      *)
Foremost(I) == chosen[Min(I)]

(* submit: the next point goes to the pool; a pool that lost a worker raises *)
(* instead, and what it had not answered is left to the serial loop.         *)
Submit ==
    /\ step = "submit"
    /\ LET rest == {i \in DOMAIN chosen : future[chosen[i]] = "none"}
       IN IF rest = {} THEN step' = "collect" /\ UNCHANGED <<future, early>>
          ELSE IF broken THEN step' = "serial" /\ early' = TRUE /\ UNCHANGED future
          ELSE future' = [future EXCEPT ![Foremost(rest)] = "waiting"] /\ UNCHANGED <<step, early>>
    /\ UNCHANGED <<cfg, ranking, chosen, results, registered, broken, rows, pick>>

(* A worker takes a point and registers its run, and comes to an end with it.*)
Take(p) ==
    /\ future[p] = "waiting" /\ ~broken
    /\ future' = [future EXCEPT ![p] = "running"]
    /\ registered' = [registered EXCEPT ![p] = @ + 1]
    /\ UNCHANGED <<cfg, ranking, step, chosen, results, broken, early, rows, pick>>
Ends(p, end) ==
    /\ future[p] = "running" /\ future' = [future EXCEPT ![p] = end]
    /\ UNCHANGED <<cfg, ranking, step, chosen, results, registered, broken, early, rows, pick>>

(* A worker dies: no point still in the pool will be answered.               *)
Break ==
    /\ ~broken /\ \E p \in Points : future[p] = "running"
    /\ broken' = TRUE
    /\ future' = [p \in Points |-> IF future[p] \in {"waiting", "running"} THEN "broken" ELSE future[p]]
    /\ UNCHANGED <<cfg, ranking, step, chosen, results, registered, early, rows, pick>>

(* as_completed: a result, or an error row for one that raised.              *)
Collect(p) ==
    /\ step = "collect" /\ p \in Wanted /\ results[p] = "none"
    /\ future[p] \in {"ok", "error", "broken"}
    /\ results' = [results EXCEPT ![p] = IF future[p] = "ok" THEN "ok" ELSE "error"]
    /\ UNCHANGED <<cfg, ranking, step, chosen, future, registered, broken, early, rows, pick>>
Collected ==
    /\ step = "collect" /\ \A p \in Wanted : results[p] # "none"
    /\ step' = "serial" /\ UNCHANGED <<cfg, ranking, chosen, future, results, registered, broken, early, rows, pick>>

(* Mutant: the points that failed are run again.                             *)
NotOk == {i \in DOMAIN chosen : results[chosen[i]] # "ok"}
(* Mutant: what the pool had taken on is not run again.                      *)
NotTaken == {i \in DOMAIN chosen : results[chosen[i]] = "none" /\ future[chosen[i]] = "none"}
Remaining == {i \in DOMAIN chosen : results[chosen[i]] = "none"}

(* The serial loop; a point either fails before it is registered or after.   *)
RunSerial ==
    /\ step = "serial" /\ Remaining # {}
    /\ \E end \in {"ok", "error"}, run \in {0, 1} :
          /\ end = "ok" => run = 1
          /\ results' = [results EXCEPT ![Foremost(Remaining)] = end]
          /\ registered' = [registered EXCEPT ![Foremost(Remaining)] = @ + run]
    /\ UNCHANGED <<cfg, ranking, step, chosen, future, broken, early, rows, pick>>
(* _execute returns: the pool and its futures were its own.                  *)
SerialDone ==
    /\ step = "serial" /\ Remaining = {} /\ step' = "rank"
    /\ ranking' \in [metric: {"is", "oos"}, lower: BOOLEAN, windows: BOOLEAN]
    /\ future' = All /\ broken' = FALSE
    /\ UNCHANGED <<cfg, chosen, results, registered, early, rows, pick>>

-----------------------------------------------------------------------------
(* _ranking: out of sample if asked for or nothing was said, and held out.   *)
RankedOut == ranking.windows /\ ranking.metric # "is"

(* Mutant: a row without a held-out score keeps its in-sample one.           *)
ScoreOrIs(m) == IF RankedOut /\ m.oos # None THEN m.oos ELSE m.is
Score(m) == IF RankedOut THEN m.oos ELSE m.is

Better(a, b) == IF ranking.lower THEN a < b ELSE a > b

(* The measures of the rows: none for an error, nothing held out without     *)
(* windows.                                                                  *)
Measures ==
    {m \in [Wanted -> [is: Scores \cup {None}, oos: Scores \cup {None}]] :
        \A p \in Wanted : /\ results[p] = "error" => m[p] = [is |-> None, oos |-> None]
                          /\ ~ranking.windows => m[p].oos = None}

(* _rank_rows: a stable sort, the rows without a score last and unranked.    *)
Before(m, i, j) ==
    LET a == Score(m[chosen[i]])
        b == Score(m[chosen[j]])
    IN \/ a # None /\ b = None
       \/ a # None /\ b # None /\ Better(a, b)
       \/ a = b /\ i < j
Place(m, i) == 1 + Cardinality({j \in DOMAIN chosen : j # i /\ Before(m, j, i)})
Ranked(m) ==
    [k \in DOMAIN chosen |->
        LET i == CHOOSE i \in DOMAIN chosen : Place(m, i) = k
            p == chosen[i]
        IN [point |-> p, status |-> results[p], is |-> m[p].is, oos |-> m[p].oos,
            score |-> Score(m[p]), rank |-> IF Score(m[p]) = None THEN None ELSE k]]

(* Mutant: the window picks what did best on the bars held out.              *)
PickKeyOos(r) == IF r.oos # None THEN r.oos ELSE r.is
PickKey(r) == r.is

(* _walk_forward_table for one window: the first row with the best in-sample *)
(* score, in the order of the ranked rows, and where it came held out.       *)
Usable(rs) == {i \in DOMAIN rs : rs[i].status = "ok" /\ rs[i].is # None}
Picked(rs) ==
    LET u == Usable(rs)
        held == {i \in u : rs[i].oos # None}
        ahead(i, j) == Better(rs[i].oos, rs[j].oos) \/ (rs[i].oos = rs[j].oos /\ i < j)
        w == CHOOSE i \in u :
                \A j \in u : /\ ~Better(PickKey(rs[j]), PickKey(rs[i]))
                             /\ PickKey(rs[j]) = PickKey(rs[i]) => i <= j
    IN IF u = {} \/ ~ranking.windows THEN NoPick
       ELSE [is |-> rs[w].is, oos |-> rs[w].oos, point |-> rs[w].point,
             best |-> IF held = {} THEN None
                      ELSE rs[CHOOSE i \in held : \A j \in held \ {i} : ahead(i, j)].oos,
             rank |-> IF w \notin held THEN None
                      ELSE 1 + Cardinality({j \in held : ahead(j, w)})]

Rank ==
    /\ step = "rank" /\ step' = "ranked"
    /\ \E m \in Measures : rows' = Ranked(m) /\ pick' = Picked(rows')
    /\ UNCHANGED <<cfg, ranking, chosen, future, results, registered, broken, early>>

Next ==
    \/ Select \/ Submit \/ Break \/ Collected \/ RunSerial \/ SerialDone \/ Rank
    \/ \E p \in Points : Take(p) \/ Collect(p) \/ Ends(p, "ok") \/ Ends(p, "error")

-----------------------------------------------------------------------------
(* Every grid point that was chosen has exactly one row in the answer, also  *)
(* when its run raised, or the pool broke before, while or after it ran.     *)
EveryPointAnswered ==
    step = "ranked" =>
        /\ Len(rows) = Len(chosen)
        /\ {rows[i].point : i \in DOMAIN rows} = Wanted
        /\ Wanted = {p \in Points : results[p] # "none"}

(* What the registry counts is what ran: a point with numbers is in it, and  *)
(* none is in it twice, unless the pool broke while points were submitted    *)
(* and the serial loop ran again what a worker had already registered.       *)
LooksAreRuns ==
    \A p \in Points :
        /\ results[p] = "ok" => registered[p] >= 1
        /\ registered[p] > 1 => early

(* The ranking is by one measure: out of sample only when something was held *)
(* out, a row without that measure has no rank, and no ranked row is behind  *)
(* a worse one.                                                              *)
RankedByOneMeasure ==
    \A i \in DOMAIN rows :
        /\ rows[i].rank # None => (IF RankedOut THEN rows[i].oos ELSE rows[i].is) # None
        /\ \A j \in DOMAIN rows :
              (i < j /\ rows[i].rank # None /\ rows[j].rank # None) =>
                  IF RankedOut THEN ~Better(rows[j].oos, rows[i].oos)
                  ELSE ~Better(rows[j].is, rows[i].is)

(* A window's winner is chosen blind: no run that ended well did better on   *)
(* the bars it was chosen on. Its rank held out is 1 exactly when nothing    *)
(* did better there.                                                         *)
PickedInSample ==
    pick.point # None =>
        /\ \A i \in DOMAIN rows :
              (rows[i].status = "ok" /\ rows[i].is # None) => ~Better(rows[i].is, pick.is)
        /\ pick.rank = 1 => pick.oos = pick.best
        /\ pick.rank # None => ~Better(pick.oos, pick.best)
=============================================================================
