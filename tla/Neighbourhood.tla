--------------------------- MODULE Neighbourhood ---------------------------
(* lab/analysis/neighbourhood.py and the loop that runs it: the winner's     *)
(* parameters are moved a tenth either way, one at a time, each move is      *)
(* backtested, and a report says whether the pick stands and how much of the *)
(* neighbourhood was seen. Scores and returns are whole hundredths; a run    *)
(* that raised, or has no score, is not ok.                                  *)
EXTENDS Integers, Sequences, FiniteSets

CONSTANTS
    ParamSets,   \* what a winner may have: sequences of [kind, value]
    RunBudgets,  \* neighbourhood_runs
    Scores,      \* what a run may score
    Base,        \* the winner's own score
    Returns,     \* what a run may return over the full period
    BaseReturn,  \* the winner's own return
    Shares       \* of its intents the gate may have clipped or blocked

(* A whole number that is 0 or 1 is a switch; a fraction is counted in units *)
(* of which a tenth of it is a whole number.                                 *)
NeighbourAssumption ==
    /\ ParamSets \subseteq Seq([kind : {"flag", "int", "float", "text"}, value : Int])
    /\ \A ps \in ParamSets : \A k \in DOMAIN ps :
          /\ ps[k].kind = "flag" => ps[k].value \in {0, 1}
          /\ ps[k].kind = "int" => ps[k].value \notin {0, 1}
          /\ ps[k].kind = "float" => ps[k].value % 10 = 0
    /\ RunBudgets \subseteq Nat /\ Scores \subseteq Int /\ Base \in Int
    /\ Returns \subseteq Int /\ BaseReturn \in Int /\ Shares \subseteq 0..100

VARIABLES
    params, budget,
    tried,   \* per run so far: param, value, score, full return, ok
    clipped  \* share_clipped_or_blocked of the winner; nothing read is 0

vars == <<params, budget, tried, clipped>>

Retention == 60    \* NEIGHBOUR_RETENTION, in hundredths
Cost == 35         \* SENSITIVE_PARAM_COST
Confounds == 50    \* CLIPPING_CONFOUNDS

IsFlag(p) == p.kind = "flag"
Perturbable(ps) == {k \in DOMAIN ps : IsFlag(ps[k]) \/ (ps[k].kind # "text" /\ ps[k].value # 0)}
Flip(v) == 1 - v

(* A tenth, half a one to the even side, and one at least for a whole number. *)
Tenth(v) ==
    LET a == IF v < 0 THEN 0 - v ELSE v
    IN a \div 10 + (IF a % 10 > 5 \/ (a % 10 = 5 /\ (a \div 10) % 2 = 1) THEN 1 ELSE 0)
Step(p) == IF p.kind = "int" /\ Tenth(p.value) < 1 THEN 1 ELSE Tenth(p.value)
Moved(p, dir) ==
    IF IsFlag(p) THEN Flip(p.value)
    ELSE IF p.kind = "int" THEN p.value + dir * Step(p) ELSE (p.value * (10 + dir)) \div 10
MovesMutant(ps, dir) ==
    {k \in Perturbable(ps) : IsFlag(ps[k]) \/ Moved(ps[k], dir) > 0}
Moves(ps, dir) ==
    {k \in Perturbable(ps) : IF IsFlag(ps[k]) THEN dir = -1 ELSE Moved(ps[k], dir) > 0}

(* One pass down over all parameters, then one up, cut off at the budget.    *)
Pass(ps, dir) ==
    LET at(i) == CHOOSE k \in Moves(ps, dir) : Cardinality({j \in Moves(ps, dir) : j <= k}) = i
    IN [i \in 1..Cardinality(Moves(ps, dir)) |-> <<at(i), Moved(ps[at(i)], dir)>>]
PerturbationsMutant(ps, b) ==
    LET all == Pass(ps, 1) \o Pass(ps, 1)
    IN SubSeq(all, 1, IF b < Len(all) THEN b ELSE Len(all))
Perturbations(ps, b) ==
    LET all == Pass(ps, -1) \o Pass(ps, 1)
    IN SubSeq(all, 1, IF b < Len(all) THEN b ELSE Len(all))

Init == params \in ParamSets /\ budget \in RunBudgets /\ tried = <<>> /\ clipped \in Shares

(* _neighbourhood: the next of the plan is run, and may fail or score.       *)
Plan == Perturbations(params, budget)
Tried(move, score, full, ok) ==
    [param |-> move[1], value |-> move[2], score |-> score, full |-> full, ok |-> ok]
TryNext ==
    /\ Len(tried) < Len(Plan)
    /\ LET move == Plan[Len(tried) + 1] IN
       \/ tried' = Append(tried, Tried(move, 0, 0, FALSE))
       \/ \E score \in Scores, full \in Returns : tried' = Append(tried, Tried(move, score, full, TRUE))
    /\ UNCHANGED <<params, budget, clipped>>
Next == TryNext
Spec == Init /\ [][Next]_vars

-----------------------------------------------------------------------------
(* neighbourhood_report, over the runs tried.                                *)
Directions(k) ==
    {IF tried[i].value < params[k].value THEN "down" ELSE "up" :
        i \in {j \in DOMAIN tried : tried[j].param = k}}
OneDirection == {k \in Perturbable(params) : ~IsFlag(params[k]) /\ Cardinality(Directions(k)) = 1}
NotTested == {k \in Perturbable(params) : Directions(k) = {}}
Complete == OneDirection = {} /\ NotTested = {}
NeededMutant == 2 * Cardinality(Perturbable(params)) - 1
Needed ==
    LET flags == {k \in Perturbable(params) : IsFlag(params[k])}
    IN 2 * Cardinality(Perturbable(params)) - Cardinality(flags)

Scored == {i \in DOMAIN tried : tried[i].ok}
Nth(of, n) ==
    CHOOSE x \in {of[i] : i \in Scored} :
        /\ Cardinality({i \in Scored : of[i] < x}) < n
        /\ Cardinality({i \in Scored : of[i] <= x}) >= n
ScoresOf == [i \in DOMAIN tried |-> tried[i].score]
FullsOf == [i \in DOMAIN tried |-> tried[i].full]
TwiceMedian(of) ==
    LET n == Cardinality(Scored) IN Nth(of, (n + 1) \div 2) + Nth(of, n \div 2 + 1)
FragileMutant == Scored # {} /\ Base > 0 /\ 100 * Nth(ScoresOf, 1) < Retention * Base
Fragile == Scored # {} /\ Base > 0 /\ 50 * TwiceMedian(ScoresOf) < Retention * Base

(* The first of the worst, and the first of the best.                        *)
MostSensitiveMutant ==
    CHOOSE i \in Scored : \A j \in Scored : i <= j
MostSensitive ==
    CHOOSE i \in Scored : \A j \in Scored :
        tried[i].score < tried[j].score \/ (tried[i].score = tried[j].score /\ i <= j)
BetterNearby == \E i \in Scored : tried[i].score > Base
Costs(i) == 100 * (Base - tried[i].score)
ScoreOnly ==
    /\ BaseReturn > 0
    /\ 50 * TwiceMedian(FullsOf) > 85 * BaseReturn
    /\ 50 * TwiceMedian(ScoresOf) < 85 * Base

(* What the verdict says; without a score that can be kept it weighs nothing.*)
Weighed ==
    {IF Fragile THEN "fragile" ELSE "holds"}
    \cup {x \in {"sensitive"} : Costs(MostSensitive) >= Cost * Base}
    \cup {x \in {"better"} : BetterNearby} \cup {x \in {"score only"} : ScoreOnly}
Says ==
    IF tried = <<>> THEN {"nothing to perturb"}
    ELSE IF Scored = {} THEN {"nothing to conclude"}
    ELSE (IF Base > 0 THEN Weighed ELSE {})
         \cup {x \in {"confounded"} : clipped >= Confounds} \cup {x \in {"partial"} : ~Complete}

-----------------------------------------------------------------------------
Positive == \A k \in Perturbable(params) : params[k].value >= 0
Finished == Len(tried) = Len(Plan)

(* The plan and the report agree about what everything is: with the number   *)
(* of runs the report asks for, it reports complete coverage, and a budget   *)
(* of one run a parameter leaves none untouched. For values below zero       *)
(* neither holds: the report counts parameters that the plan never moves.    *)
PlanMeetsReport ==
    Finished /\ Positive =>
        /\ budget >= Needed => Complete
        /\ budget >= Cardinality(Perturbable(params)) => NotTested = {}

(* Complete coverage is not claimed before it is there: every run it needs   *)
(* was made, and no two of them were the same.                               *)
CompleteIsEarned ==
    /\ Complete => Len(tried) >= Needed
    /\ \A i, j \in DOMAIN tried : i # j => <<tried[i].param, tried[i].value>> # <<tried[j].param, tried[j].value>>

(* Fragile is a verdict of the majority: more than half of the neighbours    *)
(* that ran below the line make it so, and fewer than half never do.         *)
FragileIsMajority ==
    LET low == Cardinality({i \in Scored : 100 * tried[i].score < Retention * Base})
    IN Base > 0 =>
        /\ 2 * low > Cardinality(Scored) => Fragile
        /\ Fragile => 2 * low >= Cardinality(Scored)

(* No cliff hides behind the median: where a neighbour loses a good part of  *)
(* the score, however well the others do, the report names one, and the one  *)
(* it names is the deepest. A report that only says that the pick holds, of a   *)
(* strategy the gate let trade, has seen no such neighbour.                  *)
CliffIsNamed ==
    Scored # {} /\ Base > 0 =>
        /\ \A i \in Scored : Costs(i) <= Costs(MostSensitive)
        /\ Says = {"holds"} =>
            /\ clipped < Confounds
            /\ \A i \in Scored : Costs(i) < Cost * Base /\ tried[i].score <= Base
=============================================================================
