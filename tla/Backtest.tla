------------------------------ MODULE Backtest -------------------------------
(* The loop of lab/backtest/runner.py, with SimBroker and its fill model and *)
(* the portfolio: bar by bar, fill what is pending, mark, let the strategy   *)
(* decide, submit.                                                           *)
(*                                                                           *)
(* What the strategy asks, the gate leaves and the sizing makes of it is any *)
(* order for each ticker with a price.  An order's id is its place in        *)
(* `orders`, and the pending queue is in the order of ids.  Bars have a      *)
(* price per fill and one to mark at; cutting an order to a share of the     *)
(* volume, or a limit that is not reached, is a choice.                      *)
EXTENDS Portfolio, Sequences, Sums

CONSTANTS
    Modes,           \* values of FillModel.mode
    Warmup,          \* BacktestConfig.warmup, in bars
    LimitOrders,     \* whether intents carry a limit price
    VolumeCap,       \* whether partial_fill_volume_pct is set
    Halts,           \* whether a ticker may have no bar
    Bars,            \* number of bars
    BarsPerSession,
    Prices,          \* prices of fills and marks
    MaxQty,          \* largest order
    MaxOrders        \* bound: orders of a run

ASSUME BacktestAssumption ==
    /\ Modes \subseteq {"next_open", "next_close", "same_close"}
    /\ Warmup \in Nat /\ Bars \in Nat /\ BarsPerSession \in Nat \ {0}
    /\ LimitOrders \in BOOLEAN /\ VolumeCap \in BOOLEAN /\ Halts \in BOOLEAN
    /\ Prices \subseteq Nat \ {0} /\ MaxQty \in Nat \ {0} /\ MaxOrders \in Nat

Session(bar) == ((bar - 1) \div BarsPerSession) + 1

Keys == [s: Nat, t: Tickers, buy: BOOLEAN]
Orders == [key: Keys, asked: Nat, left: Nat, limit: BOOLEAN, bar: Nat]
Intended == [t: Tickers, buy: BOOLEAN, qty: 1..MaxQty, limit: {FALSE} \cup {LimitOrders}]

\* What a decision can come to: at most one order for each ticker.
Batches == {b \in SUBSET Intended : \A o, p \in b : o.t = p.t => o = p}

VARIABLES
    mode,               \* FillModel.mode of the run
    pc, now, quoted,    \* the loop; the bar; the tickers bars_at(now) has
    orders,             \* _all_orders, in the order of submission
    pending, todo,      \* _pending, and what process has still to look at
    batch, sent,        \* _build_orders: still to submit; how many there were
    charged,            \* orders_today of the gate
    accepted,           \* history: orders the broker took in this session
    held                \* history: orders the volume has kept from filling

loopVars == <<pc, now, quoted>>
brokerVars == <<orders, pending, todo>>
decisionVars == <<batch, sent, charged, accepted>>
vars == <<bookVars, mode, loopVars, brokerVars, decisionVars, held>>

(* The one type invariant. *)
TypeOK ==
    /\ BookType /\ mode \in Modes
    /\ pc \in {"bar", "process", "decide", "submit", "late"}
    /\ now \in 0..Bars /\ quoted \subseteq Tickers
    /\ orders \in Seq(Orders)
    /\ pending \subseteq DOMAIN orders /\ todo \subseteq pending
    /\ batch \in Batches
    /\ sent \in Nat /\ charged \in Nat /\ accepted \in Nat
    /\ held \subseteq DOMAIN orders

Init ==
    /\ EmptyBook /\ mode \in Modes
    /\ pc = "bar" /\ now = 0 /\ quoted = {}
    /\ orders = <<>> /\ pending = {} /\ todo = {}
    /\ batch = {} /\ sent = 0 /\ charged = 0 /\ accepted = 0
    /\ held = {}

-----------------------------------------------------------------------------
(* The simulated broker *)

Signed(o, n) == IF o.key.buy THEN n ELSE -n

\* submit: a repeated idem_key is a no-op.
RepeatedMutant(k) == FALSE
Repeated(k) == \E i \in DOMAIN orders : orders[i].key = k

\* process, one order; those that do not fill stay, in their order.
First(i) == pc \in {"process", "late"} /\ i \in todo /\ \A j \in todo : i <= j

Untraded(i) == orders[i].key.t \notin quoted

\* No bar, a limit that is not reached, or a volume that leaves no share.
KeepOrder(i) ==
    /\ First(i)
    /\ todo' = todo \ {i}
    /\ \/ (Untraded(i) \/ orders[i].limit) /\ UNCHANGED held
       \/ ~Untraded(i) /\ VolumeCap /\ held' = held \cup {i}
    /\ UNCHANGED <<bookVars, mode, loopVars, orders, pending, decisionVars>>

\* What is left of an order that filled n, and whether it works on.
LeftMutant(i, n) == orders[i].left
Left(i, n) == orders[i].left - n

FillOrder(i, n, price) ==
    /\ First(i) /\ ~Untraded(i)
    /\ n \in 1..orders[i].left /\ (n < orders[i].left => VolumeCap)
    /\ todo' = todo \ {i}
    /\ orders' = [orders EXCEPT ![i].left = Left(i, n)]
    /\ IF n = orders[i].left
       THEN pending' = pending \ {i} /\ UNCHANGED held
       ELSE held' = held \cup {i} /\ UNCHANGED pending
    /\ ApplyFill(orders[i].key.t, Signed(orders[i], n), price, Commission(n))
    /\ UNCHANGED <<mode, loopVars, decisionVars>>

-----------------------------------------------------------------------------
(* The loop *)

SameBarMutant == TRUE
SameBar == mode = "same_close"

\* bars_at: every bar has some ticker, which need not be one of these.
NextBar ==
    /\ pc = "bar" /\ now < Bars
    /\ now' = now + 1
    /\ quoted' \in {Tickers} \cup {q \in SUBSET Tickers : Halts}
    /\ todo' = IF SameBar THEN {} ELSE pending
    /\ pc' = "process"
    /\ UNCHANGED <<bookVars, mode, orders, pending, decisionVars, held>>

\* roll_day: the budget starts again with the session.
NewSessionMutant == TRUE
NewSession == now = 1 \/ Session(now) # Session(now - 1)

\* process has been through the queue.
ProcessedMutant == Cardinality(todo) <= 1
Processed == todo = {}

\* Every fill of the bar is booked: mark and roll the gate.
MarkBar ==
    /\ pc = "process" /\ Processed
    /\ \E prices \in [quoted -> Prices] : Mark(prices)
    /\ charged' = (IF NewSession THEN 0 ELSE charged)
    /\ accepted' = (IF now = 1 \/ Session(now) # Session(now - 1) THEN 0 ELSE accepted)
    /\ pc' = "decide"
    /\ UNCHANGED <<mode, now, quoted, brokerVars, batch, sent, held>>

\* Where the loop goes when the decision has been made, or skipped.
EndDecision ==
    IF SameBar THEN pc' = "late" /\ todo' = pending ELSE pc' = "bar" /\ todo' = {}

\* The warm-up has no decisions.
SkipBar ==
    /\ pc = "decide" /\ now <= Warmup
    /\ EndDecision
    /\ UNCHANGED <<bookVars, mode, now, quoted, orders, pending, decisionVars, held>>

KeyOf(o) == [s |-> Session(now), t |-> o.t, buy |-> o.buy]

\* Bound: the orders a run has.
Room(b) == Len(orders) + Cardinality({o \in b : ~Repeated(KeyOf(o))}) <= MaxOrders

\* on_bar, evaluate, _build_orders.
Decide(b) ==
    /\ pc = "decide" /\ now > Warmup
    /\ \A o \in b : o.t \in quoted
    /\ Room(b)
    /\ batch' = b /\ sent' = Cardinality(b)
    /\ pc' = "submit"
    /\ UNCHANGED <<bookVars, mode, now, quoted, brokerVars, charged, accepted, held>>

Submit(o) ==
    /\ pc = "submit" /\ o \in batch
    /\ batch' = batch \ {o}
    /\ IF Repeated(KeyOf(o))
       THEN UNCHANGED <<orders, pending, accepted>>
       ELSE /\ orders' = Append(orders, [key |-> KeyOf(o), asked |-> o.qty, left |-> o.qty,
                                         limit |-> o.limit, bar |-> now])
            /\ pending' = pending \cup {Len(orders) + 1}
            /\ accepted' = accepted + 1
    /\ UNCHANGED <<bookVars, mode, loopVars, todo, sent, charged, held>>

\* note_orders on the whole list, those the broker knew already included.
NoteOrders ==
    /\ pc = "submit" /\ batch = {}
    /\ charged' = charged + sent /\ sent' = 0
    /\ EndDecision
    /\ UNCHANGED <<bookVars, mode, now, quoted, orders, pending, batch, accepted, held>>

\* same_close: the bar's orders fill after the decision, and the book is marked
\* again.
MarkLate ==
    /\ pc = "late" /\ Processed
    /\ \E prices \in [quoted -> Prices] : Mark(prices)
    /\ pc' = "bar"
    /\ UNCHANGED <<mode, now, quoted, brokerVars, decisionVars, held>>

\* The run is over.
Finished == pc = "bar" /\ now = Bars /\ UNCHANGED vars

Next ==
    \/ NextBar \/ MarkBar \/ SkipBar \/ NoteOrders \/ MarkLate \/ Finished
    \/ \E b \in Batches : Decide(b)
    \/ \E o \in batch : Submit(o)
    \/ \E i \in todo : KeepOrder(i)
    \/ \E i \in todo, n \in 1..MaxQty, price \in Prices : FillOrder(i, n, price)

Spec == Init /\ [][Next]_vars

-----------------------------------------------------------------------------
(* Properties *)

(* apply_fill, _book_exit: a lot is open exactly while a position is, on its  *)
(* side and of its size, so that every reducing fill finds the lot it books   *)
(* against, through any sequence of additions, trims, closes and reversals.   *)
LotsMatchPositions ==
    \A t \in Tickers :
        IF qty[t] = 0 THEN lot[t] = NoLot
        ELSE lot[t].qty = Size(qty[t]) /\ lot[t].long = (qty[t] > 0)

(* reconcile: what the equity gained and no trade explains is the commission  *)
(* of the fills that turned a position over, which both legs are charged, and *)
(* nothing else.                                                              *)
ResidualIsCrossings == \A t \in Tickers : Residual(t) = crossed[t]

(* The ledger and the positions say one thing: what is open is held, and what *)
(* is closed explains the equity but for the commission of reversals.         *)
BookAddsUp == LotsMatchPositions /\ ResidualIsCrossings

(* process: what a ticker holds is what its orders filled, each of them no    *)
(* more than was asked; an order that is not filled is pending ("delay a      *)
(* fill, not vanish it").                                                     *)
FilledFor(t) ==
    [i \in DOMAIN orders |-> IF orders[i].key.t = t
                             THEN Signed(orders[i], orders[i].asked - orders[i].left) ELSE 0]
PositionIsItsFills ==
    /\ \A t \in Tickers : qty[t] = Total(FilledFor(t))
    /\ pending = {i \in DOMAIN orders : orders[i].left > 0}

(* The loop: an order fills at no bar before the one after its decision, or   *)
(* with same_close at that bar, after the decision.                           *)
Fills(i) == orders'[i].left # orders[i].left
NoLookAhead ==
    [][\A i \in DOMAIN orders : Fills(i) =>
          IF mode = "same_close" THEN now >= orders[i].bar /\ pc = "late"
          ELSE now > orders[i].bar]_vars

(* "fill against this bar" before the strategy decides on it: what still      *)
(* works, for a ticker that can be traded, when targets are turned into       *)
(* orders, is a limit order or one the volume has held up.                    *)
DecidesOnSettledBook ==
    pc = "decide" => \A i \in pending : Untraded(i) \/ orders[i].limit \/ i \in held

(* roll_day, note_orders: the gate has been charged for every order the       *)
(* broker took in the session.                                                *)
EveryOrderIsCharged == pc = "bar" => accepted <= charged

\* What the broker shows of a decision.
FateOf(k) ==
    LET placed == {i \in DOMAIN orders : orders[i].key = k}
    IN  IF placed = {} THEN "none"
        ELSE IF placed \cap pending # {} THEN "working" ELSE "over"

(* The backtest implements what the live runner implements: a decision        *)
(* becomes an order at most once.                                             *)
DecisionKeys == [s: 1..Bars, t: Tickers, buy: BOOLEAN]
Fates == INSTANCE Decisions WITH Decision <- DecisionKeys,
                                 fate <- [k \in DecisionKeys |-> FateOf(k)]
DecidesOnce == Fates!Spec
=============================================================================
