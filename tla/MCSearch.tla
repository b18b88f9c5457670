------------------------------ MODULE MCSearch -------------------------------
(* What looks for strategies and what judges them. Which one runs is chosen  *)
(* once, the others stay at their start: a research session, the author loop *)
(* or a strategy that asks a model, over one call path; the check of a       *)
(* winner's neighbourhood; a sweep; walk-forward windows; the measures of a  *)
(* run; the tests for luck; the digest of a run; paper trading beside its    *)
(* own backtest; how hard a session has tuned.                               *)
EXTENDS Integers, Sequences, FiniteSets

CONSTANTS
    Prices, Nothing, Asked, MaxCalls, Budget, MaxMinutes, MaxExperiments, FailureLimit,
    CheckNeighbours, Writes, MaxCrashes,
    Backend, Freeform, Iterations, LoopBudget, Knobs,
    Universe, MaxPositions, MaxPct, AgentBudget, Sessions, MaxRestarts,
    RunBudgets, Scores, Base, Returns, BaseReturn, Shares,
    MaxUnits, Requests, MinBlockUnits, DefaultWindows,
    Points, MaxSweep, None,
    Warmups, NPeriods, MaxSamples,
    Levels, Gaps, MaxCurve, Names, MaxTrades, MaxLines, WorstDrawdowns, TopTickers, WorstTickers,
    LastDay, MaxPaper, MaxSteps, MaxResets, Lookback, MinSteps,
    Alert, MaxVariants,
    Library, ParamSets, Specs, Tables, Ratios, Benches, SweepScores, Tests, Pnls, Stores, Variants

(* Knobs a strategy may have: a number and a switch, two numbers, a small     *)
(* fraction, a name, a value below zero.                                     *)
Num(v) == [kind |-> "int", value |-> v]
Frac(v) == [kind |-> "float", value |-> v]
Flag(v) == [kind |-> "flag", value |-> v]
SomeParams == {
    <<Num(20), Flag(1)>>, <<Flag(0), Frac(50), [kind |-> "text", value |-> 0]>>,
    <<Num(2), Frac(100)>>, <<Num(3), Num(0 - 10)>>, <<>>}
OneStrategy == [f \in {"momo"} |-> "plain"]

(* Walk-forward specs; one run, two of the same dates, two dates, a table of  *)
(* dates the shortest of which is too short; a benchmark the store has not,   *)
(* has whole, has from later on and with a hole, or one bar of.               *)
SomeSpecs == {<<1>>, <<2>>, <<2, 1>>, <<1, 2>>, <<0, 1>>}
SomeTables == {<<<<1, 9>>>>, <<<<1, 9>>, <<1, 9>>>>, <<<<1, 9>>, <<4, 9>>>>, <<<<3, 7>>, <<6, 8>>, <<1, 6>>>>}
SomeRatios == {<<4, 1>>, <<1, 9>>, <<0, 1>>}
SomeBenches == {{}, 1..9, (3..9) \ {5}, {4}}
TwoScores == {1, 2}
(* Returns in blocks that do not fit, alone and beside a benchmark; histories *)
(* of three names, one of them listed late; one too short.                    *)
NoneListed == [x \in {"AAPL"} |-> 0]
OneLate == [x \in {"AAPL", "MSFT", "NEWCO"} |-> IF x = "NEWCO" THEN 2 ELSE 0]
Test(kind, length, block, listed) == [kind |-> kind, length |-> length, block |-> block, listed |-> listed]
SomeTests == {Test("bootstrap", 8, 2, NoneListed), Test("bootstrap", 3, 0, NoneListed),
          Test("paired", 9, 2, NoneListed), Test("paired", 7, 2, NoneListed),
          Test("permutation", 9, 2, OneLate), Test("permutation", 5, 1, OneLate), Test("permutation", 3, 1, OneLate)}

(* What a trade makes; bars around the days of paper trading, without one,   *)
(* and nearly none.                                                          *)
SomePnls == {0 - 2, 0, 3}
SomeStores == {(0 - 3)..6, ((0 - 3)..6) \ {2}, {0, 1}}

(* Variants of two strategies: better on both windows, better on the later    *)
(* one at the cost of the whole, within the error, without a score, raised.  *)
Variant(strategy, score, oos, full, sigma) ==
    [strategy |-> strategy, ok |-> TRUE, has |-> TRUE, score |-> score, oos |-> oos, full |-> full, sigma |-> sigma]
SomeVariants ==
    {Variant("momo", 0, 0, 0, 0), Variant("momo", 50, 10, 40, 30), Variant("momo", 70, 14, 50, 30),
     Variant("momo", 90, 20, 30, 30), Variant("breakout", 50, 5, 10, 0), Variant("breakout", 0 - 20, 0 - 4, 0 - 8, 0),
     [Variant("momo", 0, 10, 20, 0) EXCEPT !.has = FALSE],
     [Variant("momo", 0, 0, 0, 0) EXCEPT !.ok = FALSE, !.has = FALSE]}

VARIABLES
    loop,
    pc, s, disk, client, failures, minutes, room, call, made, ws, stop, ledger, runs, crashes,
    at, n, spend, misses, prev, lineage, book, offer,
    day, last, cost, off, bill, asked, heard, intents, restarts,
    params, budget, tried, clipped,
    units, windows, bars, trade,
    ask, phase, split, result, answered, row,
    test, stage, drawn, left, beaten, scored, pvalue,
    cfg, ranking, step, chosen, future, results, registered, broken, early, rows, pick,
    about, curve, since, high, longest, episodes, trades, lines,
    clock, paper, journal, flat, resets, audit, tests

session == <<pc, s, disk, client, failures, minutes, room, call, made, ws, stop, ledger, runs, crashes>>
authoring == <<at, n, spend, misses, prev, lineage, book, offer>>
trading == <<day, last, cost, off, bill, asked, heard, intents, restarts>>
probing == <<params, budget, tried, clipped>>
agents == <<session, authoring, trading, probing>>
walk == <<units, windows, bars, trade>>
measures == <<ask, phase, split, result, answered, row>>
luck == <<test, stage, drawn, left, beaten, scored, pvalue>>
sweep == <<cfg, ranking, step, chosen, future, results, registered, broken, early, rows, pick>>
judging == <<walk, measures, luck, sweep>>
digest == <<about, curve, since, high, longest, episodes, trades, lines>>
auditing == <<clock, paper, journal, flat, resets, audit>>
afterwards == <<digest, auditing, tests>>

R == INSTANCE Research
A == INSTANCE AuthorLoop
L == INSTANCE InLoop WITH spend <- cost
N == INSTANCE Neighbourhood
W == INSTANCE WalkForward
E == INSTANCE Evaluate WITH at <- phase
B == INSTANCE Resampling WITH p <- pvalue
S == INSTANCE Sweep WITH Scores <- SweepScores, MaxRuns <- MaxSweep
D == INSTANCE Digest
P == INSTANCE PaperAudit
T == INSTANCE Tuning

ASSUME SearchAssumption ==
    /\ R!PricesAssumption /\ R!LimitsAssumption /\ A!LoopAssumption /\ L!AgentAssumption
    /\ N!NeighbourAssumption /\ W!WalkForwardAssumption /\ E!EvaluateAssumption /\ B!ResamplingAssumption
    /\ S!SweepAssumption /\ D!DigestAssumption /\ P!AuditAssumption /\ T!TuningAssumption

(* Where the systems that were not chosen stay.                              *)
NoWalk == units = 1 /\ windows = <<>> /\ bars = {} /\ trade = W!NoTrade
NoMeasures ==
    /\ ask = [tool |-> "backtest", cases |-> <<<<1, 9>>>>, ratio |-> <<4, 1>>, warmup |-> 0,
              bench |-> {}, unreadable |-> FALSE, n |-> 1]
    /\ phase = "split" /\ split = [first |-> 0, oos |-> 0] /\ result = E!NoResult
    /\ answered = 0 /\ row = E!NoRow
NoLuck ==
    /\ test = Test("bootstrap", 8, 2, NoneListed) /\ stage = "ready" /\ drawn = <<>> /\ pvalue = <<>>
    /\ left = 1 /\ beaten = 0 /\ scored = 0
NoSweep ==
    /\ cfg = [pool |-> FALSE, max |-> 0] /\ ranking = S!Plain
    /\ step = "select" /\ chosen = <<>> /\ future = S!All /\ results = S!All
    /\ registered = [p \in Points |-> 0] /\ broken = FALSE /\ early = FALSE
    /\ rows = <<>> /\ pick = S!NoPick

Init ==
    /\ loop \in {"research", "author", "strategy", "neighbourhood", "walk", "measures", "luck", "sweep",
                 "digest", "audit", "tuning"}
    /\ R!Init /\ A!Init /\ L!Init
    /\ IF loop = "neighbourhood" THEN N!Init ELSE params = <<>> /\ budget = 0 /\ tried = <<>> /\ clipped = 0
    /\ IF loop = "walk" THEN W!Init ELSE NoWalk
    /\ IF loop = "measures" THEN E!Init ELSE NoMeasures
    /\ IF loop = "luck" THEN B!Init ELSE NoLuck
    /\ IF loop = "sweep" THEN S!Init ELSE NoSweep
    /\ D!Init /\ (loop # "digest" => about = "gate")
    /\ P!Init /\ T!Init
Agents ==
    \/ loop = "research" /\ R!Next /\ UNCHANGED <<authoring, trading, probing>>
    \/ loop = "author" /\ A!Next /\ UNCHANGED <<session, trading, probing>>
    \/ loop = "strategy" /\ L!Next /\ UNCHANGED <<session, authoring, probing>>
    \/ loop = "neighbourhood" /\ N!Next /\ UNCHANGED <<session, authoring, trading>>
Judges ==
    \/ loop = "walk" /\ W!Next /\ UNCHANGED <<measures, luck, sweep>>
    \/ loop = "measures" /\ E!Next /\ UNCHANGED <<walk, luck, sweep>>
    \/ loop = "luck" /\ B!Next /\ UNCHANGED <<walk, measures, sweep>>
    \/ loop = "sweep" /\ S!Next /\ UNCHANGED <<walk, measures, luck>>
Reads ==
    \/ loop = "digest" /\ D!Next /\ UNCHANGED <<auditing, tests>>
    \/ loop = "audit" /\ P!Next /\ UNCHANGED <<digest, tests>>
    \/ loop = "tuning" /\ T!Next /\ UNCHANGED <<digest, auditing>>
Next ==
    /\ UNCHANGED loop
    /\ \/ Agents /\ UNCHANGED <<judging, afterwards>>
       \/ Judges /\ UNCHANGED <<agents, afterwards>>
       \/ Reads /\ UNCHANGED <<agents, judging>>
Spec == Init /\ [][Next]_<<loop, agents, judging, afterwards>>

(* What a session asks, spends and sees stays near what it knows of, over its *)
(* sittings. Without a crash: no more calls than its limit, a budget passed   *)
(* by less than one call, and every run of it in the registry a look it       *)
(* counts. Each crash between a step and its save may cost it LostPerCrash    *)
(* calls, their price, and one forgotten run, and no more. What is on disk    *)
(* only grows, and sending a fragile pick back leaves the call an answer      *)
(* needs.                                                                     *)
SessionIsKept ==
    /\ [](R!TypeOK /\ R!CallsBounded /\ R!SpendBounded /\ R!LooksCounted)
    /\ R!SessionGrows /\ R!RefusalLeavesCalls

(* The author loop's lineage says of every iteration the code and parameters  *)
(* that ran: a proposal of parameters alone runs the code it builds on.       *)
LineageIsWhatRan == A!LineageIsWhatRan

(* A model in the trading loop decides within the universe, the number of     *)
(* positions and the size it was given, whatever it answers and in whatever   *)
(* order; exits need none of its room; it is asked once a session and paid    *)
(* within its budget, restarts aside.                                         *)
ModelIsWalledIn ==
    /\ L!WallHolds /\ L!OrderDoesNotMatter /\ L!ExitsAreFree
    /\ L!OncePerSession /\ L!AgentSpendBounded

(* What the report on a winner's neighbourhood claims, its plan has tried: it *)
(* is complete only when every move was made, fragile only when most of the   *)
(* neighbours fell, and it names the worst neighbour.                         *)
ReportIsEarned ==
    /\ N!PlanMeetsReport /\ N!CompleteIsEarned /\ N!FragileIsMajority /\ N!CliffIsNamed

(* No bar, trade or benchmark return is tested twice, or is tested where it   *)
(* was trained on: test windows tile the history, a window's benchmark and    *)
(* pool are its own, the halves of a run and its periods partition its bars   *)
(* and are compared with the market over the same ones.                       *)
WindowsAreApart ==
    /\ W!WindowsTile /\ W!BlocksKeepFloor /\ W!PoolIsItsWindows /\ W!OosStaysOut
    /\ W!TradeTestedOnce /\ W!BenchmarkPerWindow
    /\ E!HalvesPartition /\ E!MarketSameBars /\ E!PeriodsTile

(* A test for luck draws histories as long as the run, the names together,    *)
(* and its p-value counts the run itself among the shuffles that scored; the  *)
(* ones that failed are left out of it.                                       *)
LuckIsTested == B!DrawFillsTheRun /\ B!DrawnTogether /\ B!PValueIsHonest

(* A sweep answers every point it chose, once, though its pool dies at any    *)
(* moment; each run it started is one look; rows are ranked on one measure    *)
(* and the winner is picked without the holdout.                              *)
SweepIsWhole ==
    /\ S!EveryPointAnswered /\ S!LooksAreRuns /\ S!RankedByOneMeasure /\ S!PickedInSample

(* What is told of a run and of a session is what the bars, trades and        *)
(* variants say: the longest and the deepest drawdown are in the list, means  *)
(* and attributions come from all trades, a gate section is whole or absent,  *)
(* and no gain within the noise of a score is told as one.                    *)
DigestIsTrue ==
    /\ D!DurationIsLongest /\ D!EpisodesExplainDrawdown /\ D!ExpectancyIsMean
    /\ D!AttributionAddsUp /\ D!GateIsWholeOrNothing
    /\ T!ReadingsAgree /\ T!NoOrderInNoise

(* Paper trading is compared with its backtest from the same flat start, the  *)
(* returns over the same sessions and on the last decision of a date; and it  *)
(* is not said to track it over a session whose last decision was the first   *)
(* of a fresh book, where the newest run names the cash that book began with. *)
AuditIsOfOneBook ==
    /\ P!FlatFromFirstSession /\ P!LastDecisionCounts
    /\ P!ReturnsSpanTheSame /\ P!TracksOneBook
=============================================================================
