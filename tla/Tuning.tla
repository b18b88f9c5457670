------------------------------- MODULE Tuning -------------------------------
(* How hard a research session has tuned against the held-out window:        *)
(* _tuning_pressure, _catalog and _situation of lab/agent/research.py, three *)
(* readings of one list of experiments that the prompt shows side by side.   *)
(* Scores, returns and errors are whole hundredths; of an experiment a       *)
(* reading takes the strategy, the score with its error, and two returns.    *)
EXTENDS Integers, Sequences, FiniteSets, FiniteSetsExt, Sums

CONSTANTS
    Variants,    \* what a backtest of the session may come to
    Alert,       \* TUNING_CHAIN_ALERT
    MaxVariants  \* bound: experiments of the session

TuningAssumption ==
    /\ Alert \in Nat \ {0} /\ MaxVariants \in Nat
    /\ \A v \in Variants :
        /\ v.ok \in BOOLEAN /\ v.has \in BOOLEAN /\ (v.has => v.ok)
        /\ {v.score, v.oos, v.full} \subseteq Int /\ v.sigma \in Nat

VARIABLE tests    \* session.experiments

vars == <<tests>>

Init == tests = <<>>

(* _run_experiment: one that ran has its returns, and its score unless the   *)
(* window had no such measure; one that raised has nothing.                  *)
Try == Len(tests) < MaxVariants /\ \E v \in Variants : tests' = Append(tests, v)
Next == Try
Spec == Init /\ [][Next]_vars

-----------------------------------------------------------------------------
(* _situation: every backtest that ran was a look at the holdout.            *)
HoldoutEvaluations == Cardinality({i \in DOMAIN tests : tests[i].ok})

(* The scored runs of a strategy, in the order they were tried. Without a    *)
(* score in the condition, one that has none would count as a draw.          *)
ChainMutant(s) == {i \in DOMAIN tests : tests[i].strategy = s}
Chain(s) == {i \in DOMAIN tests : tests[i].ok /\ tests[i].has /\ tests[i].strategy = s}
Strategies == {tests[i].strategy : i \in DOMAIN tests}
Pressed == {s \in Strategies : Cardinality(Chain(s)) >= Alert}

First(s) == Min(Chain(s))
Best(s) ==
    CHOOSE i \in Chain(s) : \A j \in Chain(s) :
        tests[j].score < tests[i].score \/ (tests[j].score = tests[i].score /\ i <= j)

Gain(s, kind) == tests[Best(s)][kind] - tests[First(s)][kind]
Magnitude(s, kind) == Total([i \in Chain(s) |-> IF tests[i][kind] < 0 THEN 0 - tests[i][kind] ELSE tests[i][kind]])
SpreadFromBest(s, kind) == tests[Best(s)][kind] - tests[First(s)][kind]
Spread(s, kind) ==
    LET values == {tests[i][kind] : i \in Chain(s)} IN Max(values) - Min(values)

(* Out-of-sample return that the full period does not show; a measure that   *)
(* swings more than what it ranks, where a mean of nothing swings without    *)
(* end; and differences no larger than the measure's own error.              *)
Moved(s) == Gain(s, "oos") > 2 /\ 2 * Gain(s, "full") < Gain(s, "oos")
Noisy(s) ==
    LET magnitude == Magnitude(s, "full") IN
    /\ magnitude > 0 /\ Spread(s, "full") > 0
    /\ \/ Magnitude(s, "score") = 0
       \/ Spread(s, "score") * magnitude > 2 * Spread(s, "full") * Magnitude(s, "score")
Same(s) == LET sigma == tests[Best(s)].sigma IN sigma > 0 /\ Spread(s, "score") <= sigma
Warned(s) ==
    {x \in {"moved"} : Moved(s)} \cup {x \in {"noisy"} : Noisy(s)} \cup {x \in {"same"} : Same(s)}

Row(s) == [strategy |-> s, variants |-> Cardinality(Chain(s)), best |-> Best(s), warnings |-> Warned(s)]
TuningPressure == {Row(s) : s \in Pressed}

(* _catalog: your_best_score, kept while the list is read once.              *)
YourBest(s) ==
    LET scores == [i \in Chain(s) |-> tests[i].score] IN Max({scores[i] : i \in Chain(s)})

-----------------------------------------------------------------------------
(* What the prompt shows of one session agrees: the variants of all rows are *)
(* among the looks at the holdout that the session has on its books, and the *)
(* run a row stands for has the best score the catalogue tells of.           *)
ReadingsAgree ==
    /\ Total([r \in TuningPressure |-> r.variants]) <= HoldoutEvaluations
    /\ \A r \in TuningPressure : tests[r.best].score = YourBest(r.strategy)

(* Where the session is told that its variants cannot be told apart, no two  *)
(* of them are further from each other than the error, the ones tried        *)
(* between the first and the best included; and a gain it is warned of is of *)
(* a later run over the first.                                               *)
NoOrderInNoise ==
    \A r \in TuningPressure :
        /\ "same" \in r.warnings =>
            \A i, j \in Chain(r.strategy) : tests[i].score - tests[j].score <= tests[r.best].sigma
        /\ "moved" \in r.warnings => First(r.strategy) < r.best
=============================================================================
