---------------------------- MODULE PointInTime -----------------------------
(* What a strategy may read at a moment: bars, indicators over them and       *)
(* signals, each row with the time of the fact and the time it was known. The *)
(* bars come from a vendor, stamped with the moment they start.               *)
EXTENDS Integers, Sequences, FiniteSets, FiniteSetsExt

CONSTANTS
    Open, Close,   \* the regular session
    BarStep,          \* the length of an intraday bar
    LastTime,      \* bound: the last moment
    MaxBars,       \* bound: bars of a frame
    Closes,        \* closing prices
    NaN            \* the missing value

SessionAssumption ==
    /\ Open \in Nat /\ Close \in Nat /\ Open < Close /\ BarStep \in Nat \ {0}
    /\ LastTime \in Nat /\ MaxBars \in Nat

VARIABLES
    vendor,   \* the stamps the vendor has bars for, or {} for a restated frame
    frame,    \* the ticker's bars in the order of their stamps
    sigs,     \* its signals: time known and score, in the order they were stored
    now,
    full,     \* indicator -> its values over the whole frame, <<>> before it is asked for
    raised    \* LookAheadError stopped the run

view == <<vendor, frame, sigs, now, full, raised>>

Indicators == {"mean", "peek"}
Lesser(a, b) == IF a < b THEN a ELSE b
(* The k-th smallest of a set.                                                *)
Nth(S, k) == CHOOSE i \in S : Cardinality({j \in S : j < i}) = k - 1

---------------------------------------------------------------------------
(* A vendor's intraday bar: known when it ends, and no later than the close   *)
(* of the session, unless it starts after that.                               *)
KnownAt(stamp) ==
    LET end == Lesser(stamp + BarStep, Close) IN IF end < stamp THEN stamp + BarStep ELSE end
Bar(stamp, close) == [stamp |-> stamp, know |-> KnownAt(stamp), close |-> close]
(* regular_hours_only takes the stamp for the bar's end.                      *)
Regular(stamp) == Open < stamp /\ stamp <= Close
VendorFrame(S) == LET open == {s \in S : Regular(s)}
                  IN  [i \in 1..Cardinality(open) |-> Bar(Nth(open, i), 1)]

KnownIn(i) == frame[i].know <= now
Sorted == \A i \in 1..(Len(frame) - 1) : frame[i].know <= frame[i + 1].know
(* Mutant: the known rows counted.                                            *)
VisibleCount == Cardinality({i \in 1..Len(frame) : KnownIn(i)})

(* The knowable prefix: it ends before the first row not known.               *)
VisibleLen ==
    IF Sorted THEN Cardinality({i \in 1..Len(frame) : KnownIn(i)})
    ELSE LET hidden == {i \in 1..Len(frame) : ~KnownIn(i)}
         IN  IF hidden = {} THEN Len(frame) ELSE Min(hidden) - 1
(* history(), bars(), price(): every known row, past a gap too.               *)
Visible == LET rows == {i \in 1..Len(frame) : KnownIn(i)}
           IN  [k \in 1..Cardinality(rows) |-> frame[Nth(rows, k)]]

(* An indicator over a frame: the mean of two bars looks back, peek looks one *)
(* bar ahead.                                                                 *)
Value(name, f, i) ==
    IF name = "mean" THEN IF i = 1 THEN NaN ELSE f[i - 1].close + f[i].close
    ELSE IF i = Len(f) THEN NaN ELSE f[i + 1].close
Compute(name, f) == [i \in 1..Len(f) |-> Value(name, f, i)]
(* Computed once over the whole frame, checked once on the rows visible then. *)
Checkable(k) == k >= 2 /\ k < Len(frame)
Causal(name, k) == Compute(name, frame)[k] = Value(name, SubSeq(frame, 1, k), k)
(* Mutant: served whole.                                                      *)
ServedWhole(name) == full[name]

Served(name) == SubSeq(full[name], 1, Lesser(VisibleLen, Len(full[name])))

---------------------------------------------------------------------------
(* Signals in the order of the times they were known; of two known at once    *)
(* either may come first.                                                     *)
Known == {i \in 1..Len(sigs) : sigs[i].know <= now}
Newest(S) == {i \in S : \A j \in S : sigs[j].know <= sigs[i].know}
(* ctx.signals(limit=1): a newest one of those known.                         *)
LastSignals == {sigs[i].score : i \in Newest(Known)}

(* align(): an event lands on the first bar at or after the time it was       *)
(* known, the last of a bar's events counts, and later bars carry it on for   *)
(* at most a number of bars.                                                  *)
(* Mutant: on the bar before.                                                 *)
LandsBefore(i) ==
    LET bars == {b \in 1..Len(frame) : frame[b].stamp <= sigs[i].know}
    IN  IF bars = {} THEN 0 ELSE Max(bars)

LandsOn(i) ==
    LET bars == {b \in 1..Len(frame) : frame[b].stamp >= sigs[i].know}
    IN  IF bars = {} THEN 0 ELSE Min(bars)
Landed(b) == {i \in 1..Len(sigs) : LandsOn(i) = b}
LastOf(S) == CHOOSE i \in Newest(S) : \A j \in Newest(S) : j <= i
Aligned(b, limit) ==
    LET from == {c \in 1..b : Landed(c) # {} /\ b - c <= limit}
    IN  IF from = {} THEN NaN ELSE sigs[LastOf(Landed(Max(from)))].score

---------------------------------------------------------------------------
Frames == UNION {[1..n -> [lag : 0..2, close : Closes]] : n \in 0..MaxBars}
(* A frame whose rows became known with some delay: restated bars.            *)
Restated(f) == [i \in 1..Len(f) |-> [stamp |-> i, know |-> i + f[i].lag, close |-> f[i].close]]
(* A frame with times between its bars, for the signals to fall into.         *)
Sparse == [i \in 1..MaxBars |-> [stamp |-> 2 * i - 1, know |-> 2 * i - 1, close |-> 1]]
SigLists == UNION {[1..n -> [know : 1..LastTime, score : 1..2]] : n \in 0..2}

Init ==
    /\ \/ vendor \in SUBSET (1..LastTime) \ {{}} /\ frame = VendorFrame(vendor) /\ sigs = <<>>
       \/ vendor = {} /\ \E f \in Frames : frame = Restated(f) /\ sigs = <<>>
       \/ vendor = {} /\ frame = Sparse /\ sigs \in SigLists
    /\ now = 0 /\ full = [n \in Indicators |-> <<>>] /\ raised = FALSE

(* The run steps to its next moment.                                          *)
SetNow == now < LastTime /\ ~raised /\ now' = now + 1 /\ UNCHANGED <<vendor, frame, sigs, full, raised>>

(* ctx.indicator, the first time.                                             *)
Ask(name) ==
    /\ ~raised /\ full[name] = <<>> /\ frame # <<>>
    /\ full' = [full EXCEPT ![name] = Compute(name, frame)]
    /\ raised' = (Checkable(VisibleLen) /\ ~Causal(name, VisibleLen))
    /\ UNCHANGED <<vendor, frame, sigs, now>>

Next == SetNow \/ \E n \in Indicators : Ask(n)

---------------------------------------------------------------------------
TypeOK ==
    /\ now \in 0..LastTime /\ raised \in BOOLEAN /\ VisibleLen \in 0..Len(frame)
    /\ \A n \in Indicators : Len(full[n]) \in {0, Len(frame)}

(* No row inside an indicator's window is one the strategy could not know,    *)
(* also when a restated bar makes the times of knowing run out of order, and  *)
(* every read by history() covers the window.                                 *)
WindowIsKnowable ==
    /\ \A i \in 1..VisibleLen : KnownIn(i)
    /\ VisibleLen <= Len(Visible) /\ SubSeq(Visible, 1, VisibleLen) = SubSeq(frame, 1, VisibleLen)

(* The shortcut of computing once over the whole frame shows: what a causal   *)
(* indicator serves is what computing it over the window gives.               *)
SliceIsRecompute == full["mean"] # <<>> => Served("mean") = Compute("mean", SubSeq(frame, 1, VisibleLen))

(* Two ways to read a score agree: at a bar, the aligned series holds the     *)
(* score of a newest signal known by then, and nothing before the first.      *)
AlignedIsNewest ==
    \A b \in 1..Len(frame) : frame[b].stamp = now =>
        IF Known = {} THEN Aligned(b, MaxBars) = NaN ELSE Aligned(b, MaxBars) \in LastSignals
=============================================================================
