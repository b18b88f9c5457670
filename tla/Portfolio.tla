------------------------------ MODULE Portfolio ------------------------------
(* The book of lab/engine/portfolio.py: what a fill does to a position, to   *)
(* cash and to the trade ledger.                                             *)
(*                                                                           *)
(* Money is kept per ticker: the cash of the code is its start plus the sum  *)
(* of `flow`, and so with the ledger.  A position has its cost where the     *)
(* code has an average price: cost = avg_price * qty.  Times, tags and       *)
(* returns in percent are left out.  An operator named ...Mutant is its      *)
(* namesake with a plausible bug.                                            *)
EXTENDS Integers, FiniteSets

CONSTANTS
    Tickers,
    PerOrder, PerShare, MinCommission   \* FillModel's commissions

ASSUME BookAssumption ==
    IsFiniteSet(Tickers) /\ PerOrder \in Nat /\ PerShare \in Nat /\ MinCommission \in Nat

VARIABLES
    qty,       \* Position.qty
    cost,      \* cost_basis
    last,      \* last_price
    flow,      \* what the fills of the ticker added to _cash
    ledger,    \* pnl of the ticker's entries in _trades, summed
    lot,       \* _open_trade
    crossed    \* history: commission of the fills that turned a position over

bookVars == <<qty, cost, last, flow, ledger, lot, crossed>>

NoLot == [qty |-> 0, long |-> FALSE, commission |-> 0]
Lots == [qty: Nat, long: BOOLEAN, commission: Int]

BookType ==
    /\ qty \in [Tickers -> Int] /\ cost \in [Tickers -> Int] /\ last \in [Tickers -> Nat]
    /\ flow \in [Tickers -> Int] /\ ledger \in [Tickers -> Int]
    /\ lot \in [Tickers -> Lots] /\ crossed \in [Tickers -> Nat]

Nothing == [t \in Tickers |-> 0]

EmptyBook ==
    /\ qty = Nothing /\ cost = Nothing /\ last = Nothing
    /\ flow = Nothing /\ ledger = Nothing /\ crossed = Nothing
    /\ lot = [t \in Tickers |-> NoLot]

Size(x) == IF x < 0 THEN -x ELSE x

\* FillModel.commission.
Commission(n) ==
    IF PerOrder + PerShare * n < MinCommission THEN MinCommission ELSE PerOrder + PerShare * n

\* A pro-rata share, to the cent: all of it when all is closed.
Share(x, part, whole) == IF part = whole THEN x ELSE (x * part) \div whole

NewLot(q, c) == [qty |-> Size(q), long |-> q > 0, commission |-> c]

Opens(t) == qty[t] = 0
Adds(t, d) == qty[t] # 0 /\ (qty[t] > 0) = (d > 0)
Reduces(t, d) == qty[t] # 0 /\ (qty[t] > 0) # (d > 0)

\* Of a reduction: the shares it closes, signed, and what they cost and were
\* charged when they were bought.
Closed(t, d) == IF Size(d) < Size(qty[t]) THEN -d ELSE qty[t]
CostOut(t, d) == Share(cost[t], Size(Closed(t, d)), Size(qty[t]))
ChargeOut(t, d) == Share(lot[t].commission, Size(Closed(t, d)), Size(qty[t]))

\* What _book_exit enters: the gain less both commissions.
BookedPnlMutant(t, d, price, c) == Closed(t, d) * price - CostOut(t, d) - c
BookedPnl(t, d, price, c) == Closed(t, d) * price - CostOut(t, d) - ChargeOut(t, d) - c

Crosses(t, d) == Reduces(t, d) /\ Size(d) > Size(qty[t])

\* The position and its lot after the fill: opened, added to, reduced, closed,
\* or closed and opened on the other side.
CostAfter(t, d, price) ==
    IF Reduces(t, d) /\ ~Crosses(t, d) THEN cost[t] - CostOut(t, d)
    ELSE IF Adds(t, d) THEN cost[t] + price * d
    ELSE price * (qty[t] + d)

\* The lot of a position that changes its size and keeps its side.
Resized(t, d, charge) == [qty |-> Size(qty[t] + d), long |-> lot[t].long, commission |-> charge]

LotAfterMutant(t, d, c) ==
    IF Opens(t) \/ Crosses(t, d) THEN NewLot(qty[t] + d, c)
    ELSE Resized(t, d, lot[t].commission)
LotAfter(t, d, c) ==
    IF Opens(t) \/ Crosses(t, d) THEN NewLot(qty[t] + d, c)
    ELSE IF Adds(t, d) THEN Resized(t, d, lot[t].commission + c)
    ELSE IF qty[t] + d = 0 THEN NoLot
    ELSE Resized(t, d, lot[t].commission - ChargeOut(t, d))

\* apply_fill.
ApplyFill(t, d, price, c) ==
    /\ flow' = [flow EXCEPT ![t] = @ - d * price - c]
    /\ last' = [last EXCEPT ![t] = price]
    /\ qty' = [qty EXCEPT ![t] = @ + d]
    /\ cost' = [cost EXCEPT ![t] = CostAfter(t, d, price)]
    /\ lot' = [lot EXCEPT ![t] = LotAfter(t, d, c)]
    /\ ledger' = [ledger EXCEPT ![t] = IF Reduces(t, d) THEN @ + BookedPnl(t, d, price, c) ELSE @]
    /\ crossed' = [crossed EXCEPT ![t] = IF Crosses(t, d) THEN @ + c ELSE @]

\* mark: the tickers with a price; the others keep theirs.  The price of a
\* ticker that was never held, which the code has not, is worth nothing.
Mark(prices) ==
    /\ last' = [t \in Tickers |-> IF t \in DOMAIN prices THEN prices[t] ELSE last[t]]
    /\ UNCHANGED <<qty, cost, flow, ledger, lot, crossed>>

\* reconcile: equity_gain - ledger - unrealized + open_commission.
Value(t) == qty[t] * last[t]
Residual(t) == flow[t] + Value(t) - ledger[t] - (Value(t) - cost[t]) + lot[t].commission
=============================================================================
