---------------------------- MODULE WalkForward ----------------------------
(* Walk-forward validation of one run (backtest/walkforward.py): the range   *)
(* is cut into blocks, windows roll over them, and the run's equity and      *)
(* trades are scored in and out of sample. A unit is a slot of the calendar  *)
(* (a trading day, or an intraday slot of the 24 hours); a bar is the equity *)
(* of a slot that has one. What a curve earned is the set of bars whose move *)
(* it kept, so two curves can be compared move by move.                      *)
EXTENDS Integers, Sequences, FiniteSets

CONSTANTS
    MaxUnits,        \* bound: slots in the range
    Specs,           \* walk-forward specs: <<train>> or <<train, test>>
    Requests,        \* n_windows a caller may name; 0 is none
    MinBlockUnits,   \* MIN_BLOCK_UNITS
    DefaultWindows   \* DEFAULT_WINDOWS

WalkForwardAssumption ==
    /\ MaxUnits \in Nat /\ Requests \subseteq Nat
    /\ MinBlockUnits \in Nat \ {0} /\ DefaultWindows \in Nat \ {0}
    /\ \A s \in Specs : s \in Seq(Nat) /\ Len(s) \in {1, 2}

VARIABLES
    units,     \* slots of the range
    windows,   \* windows made, or <<>>: none yet, or refused
    bars,      \* slots that have a bar of the run's equity curve
    trade      \* a round trip: entered and closed in these slots, close 0 while open


-----------------------------------------------------------------------------
(* parse_spec: a bare number trains that many blocks against one. *)
ParseSpec(spec) == IF Len(spec) = 2 THEN spec ELSE <<spec[1], 1>>
Usable(spec) == ParseSpec(spec)[1] >= 1 /\ ParseSpec(spec)[2] >= 1

Least(x, y) == IF x < y THEN x ELSE y
Most(x, y) == IF x > y THEN x ELSE y

(* Mutant: any count of windows that has slots to fill.                      *)
KMaxUnfloored(n, train, test) == Most(1, (n - train) \div test)
(* Mutant: blocks of one rounded length.                                     *)
EdgeEqual(n, blocks, j) == j * (n \div blocks)

(* The most windows whose blocks keep the floor, for n slots. *)
KMax(n, train, test) ==
    Most(1, (Most(train + test, n \div MinBlockUnits) - train) \div test)

(* Where a block ends: within one slot of each other, the last one at n.     *)
Edge(n, blocks, j) == (j * n) \div blocks

(* make_windows: the spans of each window as first and last slot, counted    *)
(* from 1; <<>> where the code raises.                                       *)
MakeWindows(n, spec, asked) ==
    LET train == ParseSpec(spec)[1]
        test == ParseSpec(spec)[2]
        k == IF asked > 0 THEN asked ELSE Most(1, Least(DefaultWindows, KMax(n, train, test)))
        E(j) == Edge(n, train + test * k, j)
    IN IF ~Usable(spec) \/ n < train + test \/ (asked > 0 /\ asked > KMax(n, train, test))
       THEN <<>>
       ELSE [i \in 1..k |->
               [is |-> <<E((i-1) * test) + 1, E((i-1) * test + train)>>,
                oos |-> <<E((i-1) * test + train) + 1, E((i-1) * test + train + test)>>]]

(* Mutant: a slot ends where the next one starts.                            *)
InTouching(b, span) == span[1] - 1 <= b /\ b <= span[2]
(* A slot ends one microsecond before the next one starts.                   *)
In(b, span) == span[1] <= b /\ b <= span[2]

(* Mutant: in or out, without which span.                                    *)
LabelBoolean(b, spans) == IF \E k \in DOMAIN spans : In(b, spans[k]) THEN 1 ELSE 0
(* spans_mask: the first span that holds the bar, 0 outside every span. *)
Label(b, spans) ==
    LET hit == {k \in DOMAIN spans : In(b, spans[k])}
    IN IF hit = {} THEN 0 ELSE CHOOSE k \in hit : \A j \in hit : k <= j

(* stitch: a bar's move is kept when the bar before it has the same label. *)
Stitch(label) ==
    {b \in bars : /\ label[b] # 0
                  /\ \E a \in bars : /\ a < b /\ label[a] = label[b]
                                     /\ ~\E c \in bars : a < c /\ c < b}
Mask(spans) == [b \in bars |-> Label(b, spans)]
IsSpans == [i \in DOMAIN windows |-> windows[i].is]
OosSpans == [i \in DOMAIN windows |-> windows[i].oos]

(* Mutant: later windows' training blocks keep their bars.                   *)
InSampleMaskKept == Mask(IsSpans)
(* split_metrics: out of sample for any window is out of sample for the run. *)
InSampleMask == [b \in bars |-> IF Label(b, OosSpans) > 0 THEN 0 ELSE Label(b, IsSpans)]

(* _trades_in: where it closed, or where it was entered while still open. *)
TradeIn(spans) ==
    LET when == IF trade.exit > 0 THEN trade.exit ELSE trade.entry
    IN \E k \in DOMAIN spans : In(when, spans[k])

PooledIn == [earned |-> Stitch(InSampleMask), trades |-> TradeIn(IsSpans)]
PooledOut == [earned |-> Stitch(Mask(OosSpans)), trades |-> TradeIn(OosSpans)]
(* window_metrics: the same scoring over one window's spans alone. *)
PerWindow(i) ==
    [is |-> [earned |-> Stitch(Mask(<<windows[i].is>>)), trades |-> TradeIn(<<windows[i].is>>)],
     oos |-> [earned |-> Stitch(Mask(<<windows[i].oos>>)), trades |-> TradeIn(<<windows[i].oos>>)]]

(* Mutant: the benchmark from the bar before the block on.                   *)
WindowBenchInto(i, closes) == {c \in closes : windows[i].oos[1] - 1 <= c /\ c <= windows[i].oos[2]}
(* The walk_forward tool: the benchmark's closes within the block a window   *)
(* is tested on; fewer than two of them give no number.                      *)
WindowBench(i, closes) == {c \in closes : In(c, windows[i].oos)}
BenchMoves(i, closes) ==
    LET seg == WindowBench(i, closes) IN {c \in seg : \E a \in seg : a < c}

-----------------------------------------------------------------------------
NoTrade == [entry |-> 0, exit |-> 0]
Init == units \in 1..MaxUnits /\ windows = <<>> /\ bars = {} /\ trade = NoTrade

CutWindows ==
    /\ windows = <<>> /\ bars = {}
    /\ \E spec \in Specs, asked \in Requests : windows' = MakeWindows(units, spec, asked)
    /\ UNCHANGED <<units, bars, trade>>

(* The run: inert through its warm-up; an intraday calendar has slots without *)
(* a bar; one of its trades.                                                  *)
Score ==
    /\ windows # <<>> /\ bars = {}
    /\ \E warm \in 0..(units - 1), gap \in 1..2 :
          bars' = {b \in (warm + 1)..units : (b - warm) % gap = 0}
    /\ bars' # {}
    /\ \E a \in bars', b \in bars' \cup {0} :
          /\ b = 0 \/ a < b
          /\ trade' = [entry |-> a, exit |-> b]
    /\ UNCHANGED <<units, windows>>

Next == CutWindows \/ Score

-----------------------------------------------------------------------------
(* The windows tile: each tests right after the block it trained on, the     *)
(* next one tests right after that, and the last test block ends the range,  *)
(* so no slot is out of sample twice and none at the end is left untested.   *)
WindowsTile ==
    \A i \in DOMAIN windows :
        LET w == windows[i]
        IN /\ w.is[1] <= w.is[2] /\ w.oos[1] = w.is[2] + 1 /\ w.oos[1] <= w.oos[2]
           /\ i = 1 => w.is[1] = 1
           /\ i < Len(windows) => windows[i+1].oos[1] = w.oos[2] + 1
           /\ i = Len(windows) => w.oos[2] = units

(* Whether the caller named the count or not, more than one window is made   *)
(* only when every test block keeps the floor.                               *)
BlocksKeepFloor ==
    Len(windows) > 1 =>
        \A i \in DOMAIN windows : windows[i].oos[2] - windows[i].oos[1] + 1 >= MinBlockUnits

(* The pooled out-of-sample curve earns what its windows earn one by one and *)
(* no more: never the move across the seam of two test blocks, although they *)
(* lie side by side.                                                         *)
PoolIsItsWindows ==
    PooledOut.earned = UNION {PerWindow(i).oos.earned : i \in DOMAIN windows}

(* No move the pooled in-sample curve earns starts or ends on a bar that is  *)
(* out of sample for any window, however many later windows trained on it.   *)
OosStaysOut ==
    \A b \in PooledIn.earned :
        /\ Label(b, OosSpans) = 0
        /\ \A a \in bars : (a < b /\ ~\E c \in bars : a < c /\ c < b) => Label(a, OosSpans) = 0

(* A trade is counted out of sample by the pool exactly when one window      *)
(* counts it, and by one window only.                                        *)
TradeTestedOnce ==
    /\ PooledOut.trades <=> \E i \in DOMAIN windows : PerWindow(i).oos.trades
    /\ \A i, j \in DOMAIN windows :
          (PerWindow(i).oos.trades /\ PerWindow(j).oos.trades) => i = j

(* Every window is compared to the benchmark like for like: where the        *)
(* benchmark has the run's bars, its number is made of exactly the moves the *)
(* window's own curve kept; whatever bars it has, no move of it counts for   *)
(* two windows.                                                              *)
BenchmarkPerWindow ==
    \A i \in DOMAIN windows :
        /\ BenchMoves(i, bars) = PerWindow(i).oos.earned
        /\ \A j \in DOMAIN windows : i # j => BenchMoves(i, 1..units) \cap BenchMoves(j, 1..units) = {}
=============================================================================
