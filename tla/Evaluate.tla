------------------------------ MODULE Evaluate -------------------------------
(* What a finished run is measured over (analysis/windows.py) and how the    *)
(* tools that compare runs (mcp/_common.py, tools_experiment.py) call it:    *)
(* the holdout is fixed, a backtest runs, its windows, its benchmark and its *)
(* periods are cut from it, and a row is added to the answer. A bar is its   *)
(* time; a series is the set of its bars; a score is left out.               *)
EXTENDS Integers, Sequences, FiniteSets, FiniteSetsExt

CONSTANTS
    Tables,      \* the cases a caller may ask for: sequences of <<first bar, last bar>>
    Ratios,      \* oos_split specs, <<in-sample part, out-of-sample part>>
    Warmups,     \* warm-up bars of the config
    Benches,     \* bars the store has of the benchmark
    NPeriods     \* sub-periods asked for

EvaluateAssumption ==
    /\ \A t \in Tables : t \in Seq(Nat \X Nat) /\ t # <<>>
    /\ Ratios \subseteq Nat \X Nat /\ Warmups \subseteq Nat /\ NPeriods \subseteq Nat
    /\ \A b \in Benches : b \subseteq Nat

Tools == {"backtest", "ablate", "costs", "universes", "regimes"}
(* ablate and cost_sensitivity vary what is traded, never when: the holdout  *)
(* is fixed before the first case. The others fix one for each case.         *)
OneSplit == {"ablate", "costs"}
NoResult == [bars |-> {}, trades |-> {}]

VARIABLES
    ask,         \* what was asked for: tool, cases, ratio, warmup, bench, unreadable, n
    at,          \* "split", "run", "measure", "done" or "raised"
    split,       \* first tradeable bar and first bar held out, 0 before
    result,      \* the run: bars of its equity curve, trades <<entry, exit>>
    answered,    \* cases answered so far
    row          \* the last row of the answer

Case == ask.cases[answered + 1]
NoRow == [error |-> TRUE, first |-> 0, oos |-> 0, full |-> NoResult, ins |-> NoResult,
          out |-> NoResult, market |-> {}, periods |-> <<>>]

(* The config names dates, a warm-up and a benchmark; only the store knows   *)
(* which bars there are.                                                     *)
Init ==
    /\ ask \in [tool: Tools, cases: Tables, ratio: Ratios, warmup: Warmups, bench: Benches,
                unreadable: BOOLEAN, n: NPeriods]
    /\ ask.tool \in {"backtest"} \cup OneSplit => \A i \in DOMAIN ask.cases : ask.cases[i] = ask.cases[1]
    /\ ask.tool = "backtest" => Len(ask.cases) = 1
    /\ at = "split" /\ split = [first |-> 0, oos |-> 0] /\ result = NoResult
    /\ answered = 0 /\ row = NoRow

(* tradeable_timestamps: the warm-up is dropped, but never the whole list.   *)
Dropped == IF ask.warmup < Case[2] - Case[1] + 1 THEN ask.warmup ELSE 0
First == Case[1] + Dropped
Stamps == First..Case[2]

(* Mutant: the cut as the ratio gives it, which may leave a side empty.      *)
CutAsGiven(n, r) == (n * r[1]) \div (r[1] + r[2])
(* split_point: at least one bar on either side.                             *)
Cut(n, r) == Min({Max({(n * r[1]) \div (r[1] + r[2]), 1}), n - 1})

(* Bad ratios and fewer than four tradeable bars raise; only the tool that   *)
(* runs several dates answers with an error in that case's row.              *)
SplitFails == Cardinality(Stamps) < 4 \/ ask.ratio[1] = 0 \/ ask.ratio[2] = 0

After(n) == IF n = Len(ask.cases) THEN "done"
            ELSE IF ask.tool \in OneSplit THEN "run" ELSE "split"

SplitPoint ==
    /\ at = "split" /\ ~SplitFails
    /\ split' = [first |-> First, oos |-> First + Cut(Cardinality(Stamps), ask.ratio)]
    /\ at' = "run" /\ UNCHANGED <<ask, result, answered, row>>

SplitRaises ==
    /\ at = "split" /\ SplitFails
    /\ IF ask.tool = "regimes"
       THEN answered' = answered + 1 /\ row' = NoRow /\ at' = After(answered')
       ELSE at' = "raised" /\ UNCHANGED <<answered, row>>
    /\ UNCHANGED <<ask, split, result>>

(* run_backtest: equity from the end of the warm-up on; a trade may span the *)
(* cut, or still be open at the end. A warm-up that eats all bars raises.    *)
Run ==
    /\ at = "run"
    /\ IF ask.warmup > Case[2] - Case[1]
       THEN at' = "raised" /\ UNCHANGED result
       ELSE LET bars == (Case[1] + ask.warmup)..Case[2]
            IN /\ at' = "measure"
               /\ \E entry \in bars, exit \in bars \cup {0} :
                     /\ exit = 0 \/ exit >= entry
                     /\ result' = [bars |-> bars, trades |-> {<<entry, exit>>}]
    /\ row' = NoRow /\ UNCHANGED <<ask, split, answered>>

-----------------------------------------------------------------------------
When(t) == IF t[2] # 0 THEN t[2] ELSE t[1]

(* window_metrics: bars, trades and fills from lo up to hi, hi in or out.    *)
WindowMetrics(lo, hi, inclusive) ==
    LET in(t) == t >= lo /\ (IF inclusive THEN t <= hi ELSE t < hi)
    IN [bars |-> {b \in result.bars : in(b)}, trades |-> {t \in result.trades : in(When(t))}]
Late == Max(result.bars)
(* Mutant: the bar of the cut counts on both sides.                          *)
InSampleBoth == WindowMetrics(0, split.oos, TRUE)
InSample == WindowMetrics(0, split.oos, FALSE)
OutOfSample == WindowMetrics(split.oos, Late, TRUE)

(* Mutant: from the first bar of data.                                       *)
FromData == {b \in ask.bench : Case[1] <= b /\ b <= Case[2]}
(* market_reference: the benchmark's bars within the config's dates, from    *)
(* the first tradeable one on; fewer than two give no reference.             *)
MarketBars == {b \in ask.bench : split.first <= b /\ b <= Case[2]}
Market == IF Cardinality(MarketBars) < 2 THEN {} ELSE MarketBars

(* round() takes a half to the even neighbour.                               *)
Round(x, y) == LET d == x \div y
               IN IF 2 * (x % y) > y \/ (2 * (x % y) = y /\ d % 2 = 1) THEN d + 1 ELSE d
(* Mutant: blocks of equal length, and the rest of the run in none.          *)
EdgeEqual(i, len, n) == i * (len \div n)
PeriodEdge(i, len, n) == Round(i * len, n)

(* period_breakdown: none for fewer than two bars a period.                  *)
Periods ==
    LET len == Cardinality(result.bars)
        low == Min(result.bars)
    IN IF ask.n < 2 \/ len < 2 * ask.n THEN <<>>
       ELSE [i \in 1..ask.n |->
                <<low + PeriodEdge(i - 1, len, ask.n), low + PeriodEdge(i, len, ask.n) - 1>>]

(* A benchmark that cannot be read: the handler logs with a logger this      *)
(* module never defines, and raises there.                                   *)
Measure ==
    /\ at = "measure"
    /\ IF ask.unreadable
       THEN at' = "raised" /\ UNCHANGED <<answered, row>>
       ELSE /\ answered' = answered + 1 /\ at' = After(answered')
            /\ row' = [error |-> FALSE, first |-> split.first, oos |-> split.oos, full |-> result,
                       ins |-> InSample, out |-> OutOfSample, market |-> Market,
                       periods |-> Periods]
    /\ result' = NoResult /\ UNCHANGED <<ask, split>>

Next == SplitPoint \/ SplitRaises \/ Run \/ Measure

-----------------------------------------------------------------------------
(* The two halves of a run share its bars out between them, none twice and   *)
(* none left out, and each of its trades falls into exactly one of them, the *)
(* one that spans the cut too. Neither half is empty, however lopsided the   *)
(* ratio.                                                                    *)
HalvesPartition ==
    ~row.error =>
        /\ row.ins.bars \cup row.out.bars = row.full.bars /\ row.ins.bars \cap row.out.bars = {}
        /\ row.ins.trades \cup row.out.trades = row.full.trades
        /\ row.ins.trades \cap row.out.trades = {}
        /\ row.ins.bars # {} /\ row.out.bars # {}

(* The benchmark is measured over the bars of the strategy: it never starts  *)
(* before the first bar the strategy could trade, whatever the warm-up and   *)
(* whichever case of a table the row is for.                                 *)
MarketSameBars ==
    \A b \in row.market : Min(row.full.bars) <= b /\ b <= Max(row.full.bars)

(* The periods cover the run from its first bar to its last, each starting   *)
(* right after the one before it and none shorter than two bars.             *)
PeriodsTile ==
    LET p == row.periods
    IN p # <<>> =>
        /\ p[1][1] = Min(row.full.bars) /\ p[Len(p)][2] = Max(row.full.bars)
        /\ \A k \in DOMAIN p : p[k][2] > p[k][1]
        /\ \A k \in 1..(Len(p) - 1) : p[k + 1][1] = p[k][2] + 1
=============================================================================
