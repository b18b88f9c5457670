----------------------------- MODULE Resampling ------------------------------
(* Is it luck? (mcp/tools_validate.py): a run's returns are drawn again in   *)
(* blocks, alone or paired with the benchmark's, or price histories are put  *)
(* together from blocks and the strategy is run on them. A return is named   *)
(* by the row it comes from; which blocks come up is a free choice.          *)
EXTENDS Integers, Sequences, FiniteSets

CONSTANTS
    Tests,       \* what may be asked: [kind, length, block, listed]
    MaxSamples   \* bound: shuffles asked for

ResamplingAssumption ==
    /\ MaxSamples \in Nat \ {0}
    /\ \A t \in Tests : /\ t.length \in Nat /\ t.block \in Int
                        /\ t.kind = "permutation" => t.block \in Nat \ {0}

VARIABLES
    test,        \* the kind of test, bars of the history, block length, and per
                 \* ticker how many bars later than the first it was listed
    stage,       \* "ready", "drawn", "refused", "answered" or "raised"
    drawn,       \* column -> the rows its resampled returns come from
    left,        \* shuffles still to come
    beaten,      \* shuffles that matched or beat the real run
    scored,      \* shuffles that came to a score
    p            \* the p-value, <<numerator, denominator>>

Shuffling == test.kind = "permutation"
Columns == IF Shuffling THEN DOMAIN test.listed
           ELSE IF test.kind = "paired" THEN {"strategy", "benchmark"} ELSE {"strategy"}
Block == IF test.block > 1 THEN test.block ELSE 1
(* A price history of n bars has n - 1 rows of returns.                      *)
Rows == IF Shuffling THEN test.length - 1 ELSE test.length

Init ==
    /\ test \in Tests /\ stage = "ready" /\ drawn = <<>> /\ p = <<>>
    /\ left \in IF Shuffling THEN 1..MaxSamples ELSE {1}
    /\ beaten = 0 /\ scored = 0

TooFew == test.length < test.block * 4

(* Mutant: only the blocks that fit as a whole.                              *)
WholeBlocks == Rows \div Block
(* ceil(rows / block)                                                        *)
DrawnBlocks == (Rows + Block - 1) \div Block

(* The first row of a block: up to the last whole one of a run; a shuffle    *)
(* stops one short of it, so that the last return never comes up.            *)
Starts == IF Shuffling
          THEN 0..(IF test.length - 1 - Block > 1 THEN test.length - 2 - Block ELSE 0)
          ELSE 0..(Rows - Block)

(* The blocks one after another, cut to the length of the run.               *)
Concat(starts) ==
    [k \in 1..(IF Len(starts) * Block < Rows THEN Len(starts) * Block ELSE Rows) |->
        starts[((k - 1) \div Block) + 1] + ((k - 1) % Block)]

(* Mutant: a second column draws blocks of its own.                          *)
OrderApart(c, starts) ==
    IF c \in {"benchmark", "MSFT"} THEN Concat([i \in DOMAIN starts |-> starts[Len(starts) + 1 - i]]) ELSE Concat(starts)
(* One order of the blocks for every column.                                 *)
Order(c, starts) == Concat(starts)

(* A ticker listed after the first bar keeps its own history.                *)
Kept(c) == Shuffling /\ test.listed[c] > 0

Refuse ==
    /\ stage = "ready" /\ TooFew
    /\ IF Shuffling
       THEN left' = left - 1 /\ stage' = IF left = 1 THEN "raised" ELSE "ready"
       ELSE stage' = "refused" /\ UNCHANGED left
    /\ UNCHANGED <<test, drawn, beaten, scored, p>>

Resample ==
    /\ stage = "ready" /\ ~TooFew
    /\ \E starts \in [1..DrawnBlocks -> Starts] :
          drawn' = [c \in Columns |->
                       IF Kept(c) THEN [k \in 1..Rows |-> k - 1] ELSE Order(c, starts)]
    /\ stage' = "drawn" /\ UNCHANGED <<test, left, beaten, scored, p>>

(* Mutant: the observed run is not one of the draws.                         *)
PValueRaw(b, n) == <<b, n>>
PValue(b, n) == <<b + 1, n + 1>>

(* The strategy ran on the shuffled history. A pool passes over a shuffle    *)
(* that raised, a serial test raises with it; one without a score is left    *)
(* out, and with none at all there is no answer. A bootstrap just answers.   *)
Answer(b, n) ==
    /\ stage' = IF left > 1 THEN "ready" ELSE IF Shuffling /\ n = 0 THEN "raised" ELSE "answered"
    /\ beaten' = b /\ scored' = n /\ left' = left - 1
    /\ p' = IF left = 1 /\ n > 0 THEN PValue(b, n) ELSE <<>>
    /\ drawn' = <<>> /\ UNCHANGED test

Score ==
    /\ stage = "drawn"
    /\ \/ ~Shuffling /\ Answer(beaten, scored)
       \/ Shuffling /\ Answer(beaten, scored)
       \/ Shuffling /\ \E beats \in {0, 1} : Answer(beaten + beats, scored + 1)

SerialRaise ==
    /\ stage = "drawn" /\ Shuffling /\ stage' = "raised" /\ drawn' = <<>>
    /\ UNCHANGED <<test, left, beaten, scored, p>>

Next == Refuse \/ Resample \/ Score \/ SerialRaise

-----------------------------------------------------------------------------
(* A resampled history is as long as the one it stands for, and every return *)
(* in it is one that happened: no block runs past the end.                   *)
DrawFillsTheRun ==
    stage = "drawn" =>
        \A c \in Columns :
            /\ Len(drawn[c]) = Rows
            /\ \A k \in DOMAIN drawn[c] : drawn[c][k] \in 0..(Rows - 1)

(* Names crash together in the null as they did in the history: at each bar  *)
(* every column has the return of one and the same past bar, but for tickers *)
(* listed late. The same holds a run and its benchmark together in a paired  *)
(* draw.                                                                     *)
DrawnTogether ==
    stage = "drawn" =>
        \A c, d \in {x \in Columns : ~Kept(x)} : drawn[c] = drawn[d]

(* A p-value is a claim the draws can support: above zero, at most one, and  *)
(* one more than the shuffles that came to a score.                          *)
PValueIsHonest ==
    p # <<>> => /\ 0 < p[1] /\ p[1] <= p[2] /\ p[2] = scored + 1
=============================================================================
