--------------------------- MODULE BacktestProofs ---------------------------
(* Theorems about Backtest and its Portfolio, for every set of tickers,      *)
(* every fill model, commissions, prices, length of run and of session.      *)
EXTENDS Backtest, CommonProofs

-----------------------------------------------------------------------------
(* Sizes, shares and commissions *)

LEMMA SizeNat ==
    ASSUME NEW x \in Int
    PROVE  Size(x) \in Nat /\ (Size(x) = 0 <=> x = 0)
BY DEF Size

LEMMA CommissionNat == ASSUME NEW n \in Nat PROVE Commission(n) \in Nat
<1>1. PICK m \in Nat : m = PerShare * n
  BY BookAssumption
<1> QED BY <1>1, BookAssumption DEF Commission

LEMMA ShareInt ==
    ASSUME NEW x \in Int, NEW part \in Nat, NEW whole \in Nat \ {0}
    PROVE  Share(x, part, whole) \in Int
<1>1. PICK y \in Int : y = x * part
  OBVIOUS
<1>2. y \div whole \in Int
  OBVIOUS
<1> QED BY <1>1, <1>2 DEF Share

LEMMA ShareAll == ASSUME NEW x, NEW n PROVE Share(x, n, n) = x
BY DEF Share

-----------------------------------------------------------------------------
(* A fill and the book.  BookInv is what every fill finds and leaves: types, *)
(* a lot for every position, no cost without a position, and the sum of      *)
(* what reconcile adds up.                                                   *)

NoCostWhenFlat == \A t \in Tickers : qty[t] = 0 => cost[t] = 0

\* reconcile without the products: what the position is worth is on both sides.
Booked(t) == flow[t] - ledger[t] + cost[t] + lot[t].commission
Explained == \A t \in Tickers : Booked(t) = crossed[t]

BookInv == BookType /\ LotsMatchPositions /\ NoCostWhenFlat /\ Explained

LEMMA ResidualIsBooked ==
    ASSUME BookType, NEW t \in Tickers
    PROVE  Residual(t) = Booked(t)
<1>1. PICK v \in Int : v = Value(t)
  BY DEF Value, BookType
<1>2. /\ flow[t] \in Int /\ ledger[t] \in Int /\ cost[t] \in Int
      /\ lot[t].commission \in Int
  BY DEF BookType, Lots
<1> QED BY <1>1, <1>2 DEF Residual, Booked

\* A fill of a sensible order.
Filling(t, d, price, c) ==
    /\ t \in Tickers /\ d \in Int \ {0} /\ price \in Nat /\ c \in Nat
    /\ ApplyFill(t, d, price, c)

LEMMA ReductionType ==
    ASSUME BookType, NEW t \in Tickers, NEW d \in Int \ {0}, Reduces(t, d)
    PROVE  /\ Closed(t, d) \in Int /\ CostOut(t, d) \in Int /\ ChargeOut(t, d) \in Int
           /\ Size(d) >= Size(qty[t]) =>
                 /\ Closed(t, d) = qty[t] /\ CostOut(t, d) = cost[t]
                 /\ ChargeOut(t, d) = lot[t].commission
           /\ qty[t] + d = 0 => Size(d) = Size(qty[t])
<1>1. qty[t] \in Int /\ cost[t] \in Int /\ lot[t].commission \in Int
  BY DEF BookType, Lots
<1>2. Closed(t, d) \in Int
  BY <1>1 DEF Closed
<1>3. Size(qty[t]) \in Nat \ {0} /\ Size(Closed(t, d)) \in Nat
  BY <1>1, <1>2, SizeNat DEF Reduces
<1>4. CostOut(t, d) \in Int /\ ChargeOut(t, d) \in Int
  BY <1>1, <1>3, ShareInt DEF CostOut, ChargeOut
<1>5. ASSUME Size(d) >= Size(qty[t])
      PROVE  /\ Closed(t, d) = qty[t] /\ CostOut(t, d) = cost[t]
             /\ ChargeOut(t, d) = lot[t].commission
  <2>1. Closed(t, d) = qty[t]
    <3>1. Size(d) \in Int /\ Size(qty[t]) \in Int
      BY <1>1, SizeNat
    <3> QED BY <1>5, <3>1 DEF Closed
  <2> QED BY <2>1, ShareAll DEF CostOut, ChargeOut
<1>6. qty[t] + d = 0 => Size(d) = Size(qty[t])
  BY <1>1 DEF Size
<1> QED BY <1>2, <1>4, <1>5, <1>6

LEMMA FillType ==
    ASSUME BookType, NEW t, NEW d, NEW price, NEW c, Filling(t, d, price, c)
    PROVE  BookType'
<1>1. /\ t \in Tickers /\ d \in Int \ {0} /\ price \in Nat /\ c \in Nat
      /\ ApplyFill(t, d, price, c)
  BY DEF Filling
<1>2. /\ qty[t] \in Int /\ cost[t] \in Int /\ flow[t] \in Int /\ ledger[t] \in Int
      /\ crossed[t] \in Nat /\ lot[t] \in Lots
  BY <1>1 DEF BookType
<1>3. PICK q \in Int : q = qty[t] + d
  BY <1>1, <1>2
<1>4. /\ d * price \in Int /\ price * d \in Int /\ price * q \in Int
  BY <1>1, <1>3
<1>5. CostAfter(t, d, price) \in Int
  <2>1. CASE Reduces(t, d)
    BY <1>1, <1>2, <1>3, <1>4, <2>1, ReductionType DEF CostAfter
  <2>2. CASE ~Reduces(t, d)
    BY <1>1, <1>2, <1>3, <1>4, <2>2 DEF CostAfter
  <2> QED BY <2>1, <2>2
<1>6. LotAfter(t, d, c) \in Lots
  <2>1. Size(q) \in Nat /\ (q > 0) \in BOOLEAN
    BY <1>3, SizeNat
  <2>2. NewLot(q, c) \in Lots
    BY <1>1, <2>1 DEF NewLot, Lots
  <2>3. Resized(t, d, lot[t].commission + c) \in Lots
    BY <1>1, <1>2, <1>3, <2>1 DEF Lots, Resized
  <2>4. NoLot \in Lots
    BY DEF NoLot, Lots
  <2>5. Reduces(t, d) => Resized(t, d, lot[t].commission - ChargeOut(t, d)) \in Lots
    BY <1>1, <1>2, <1>3, <2>1, ReductionType DEF Lots, Resized
  <2>6. Opens(t) \/ Adds(t, d) \/ Reduces(t, d)
    BY <1>1, <1>2 DEF Opens, Adds, Reduces
  <2> QED BY <1>3, <2>2, <2>3, <2>4, <2>5, <2>6 DEF LotAfter
<1>7. Reduces(t, d) => ledger[t] + BookedPnl(t, d, price, c) \in Int
  <2>1. HAVE Reduces(t, d)
  <2>2. PICK x \in Int : x = Closed(t, d) * price
    BY <1>1, <2>1, ReductionType
  <2> QED BY <1>1, <1>2, <2>1, <2>2, ReductionType DEF BookedPnl
<1>8. /\ qty' \in [Tickers -> Int] /\ cost' \in [Tickers -> Int]
      /\ last' \in [Tickers -> Nat] /\ lot' \in [Tickers -> Lots]
  BY <1>1, <1>2, <1>3, <1>5, <1>6 DEF ApplyFill, BookType
<1>9. flow' \in [Tickers -> Int]
  BY <1>1, <1>2, <1>4 DEF ApplyFill, BookType
<1>10. ledger' \in [Tickers -> Int] /\ crossed' \in [Tickers -> Nat]
  BY <1>1, <1>2, <1>7 DEF ApplyFill, BookType
<1> QED BY <1>8, <1>9, <1>10 DEF BookType

\* The lot after a fill is that of the position after it.
LEMMA FillLots ==
    ASSUME BookType, LotsMatchPositions, NEW t, NEW d, NEW price, NEW c,
           Filling(t, d, price, c)
    PROVE  LotsMatchPositions'
<1>1. /\ t \in Tickers /\ d \in Int \ {0} /\ price \in Nat /\ c \in Nat
      /\ ApplyFill(t, d, price, c) /\ qty[t] \in Int
  BY DEF Filling, BookType
<1>2. PICK q \in Int : q = qty[t] + d
  BY <1>1
<1>3. \A u \in Tickers \ {t} : qty'[u] = qty[u] /\ lot'[u] = lot[u]
  BY <1>1 DEF ApplyFill, BookType
<1>4. qty'[t] = q /\ lot'[t] = LotAfter(t, d, c)
  BY <1>1, <1>2 DEF ApplyFill, BookType
<1>5. IF q = 0 THEN LotAfter(t, d, c) = NoLot
      ELSE LotAfter(t, d, c).qty = Size(q) /\ LotAfter(t, d, c).long = (q > 0)
  <2>1. CASE Opens(t) \/ Crosses(t, d)
    <3>1. q # 0
      BY <1>1, <1>2, <2>1 DEF Opens, Crosses, Size
    <3>2. LotAfter(t, d, c) = NewLot(q, c)
      BY <1>2, <2>1, Zenon DEF LotAfter
    <3> QED BY <3>1, <3>2 DEF NewLot
  <2>2. CASE Adds(t, d)
    <3>1. q # 0 /\ (q > 0 <=> qty[t] > 0) /\ qty[t] # 0
      BY <1>1, <1>2, <2>2 DEF Adds
    <3>2. ~Opens(t) /\ ~Crosses(t, d)
      BY <2>2 DEF Adds, Opens, Crosses, Reduces
    <3>3. LotAfter(t, d, c) = Resized(t, d, lot[t].commission + c)
      BY <2>2, <3>2 DEF LotAfter
    <3>4. lot[t].long = (qty[t] > 0)
      BY <1>1, <3>1 DEF LotsMatchPositions
    <3> QED BY <1>2, <3>1, <3>3, <3>4 DEF Resized
  <2>3. CASE Reduces(t, d) /\ ~Crosses(t, d)
    <3>1. qty[t] # 0 /\ (q # 0 => (q > 0 <=> qty[t] > 0))
      BY <1>1, <1>2, <2>3 DEF Reduces, Crosses, Size
    <3>2. ~Opens(t) /\ ~Adds(t, d)
      BY <2>3 DEF Adds, Opens, Reduces
    <3>3. LotAfter(t, d, c) =
            IF q = 0 THEN NoLot ELSE Resized(t, d, lot[t].commission - ChargeOut(t, d))
      BY <1>2, <2>3, <3>2 DEF LotAfter
    <3>4. lot[t].long = (qty[t] > 0)
      BY <1>1, <3>1 DEF LotsMatchPositions
    <3> QED BY <1>2, <3>1, <3>3, <3>4 DEF Resized
  <2> QED BY <1>1, <2>1, <2>2, <2>3 DEF Opens, Adds, Reduces
<1> QED BY <1>3, <1>4, <1>5 DEF LotsMatchPositions

\* What the fill adds to flow, ledger, cost and commission adds up to nothing,
\* or to the commission of a reversal.
LEMMA FillExplained ==
    ASSUME BookInv, NEW t, NEW d, NEW price, NEW c, Filling(t, d, price, c)
    PROVE  NoCostWhenFlat' /\ Explained'
<1>1. /\ t \in Tickers /\ d \in Int \ {0} /\ price \in Nat /\ c \in Nat
      /\ ApplyFill(t, d, price, c)
  BY DEF Filling
<1>2. /\ qty[t] \in Int /\ cost[t] \in Int /\ flow[t] \in Int /\ ledger[t] \in Int
      /\ crossed[t] \in Nat /\ lot[t].commission \in Int
  BY <1>1 DEF BookInv, BookType, Lots
<1>3. \A u \in Tickers \ {t} :
        /\ qty'[u] = qty[u] /\ cost'[u] = cost[u] /\ flow'[u] = flow[u]
        /\ ledger'[u] = ledger[u] /\ crossed'[u] = crossed[u] /\ lot'[u] = lot[u]
  BY <1>1 DEF ApplyFill, BookInv, BookType
<1>4. PICK x \in Int, y \in Int :
        /\ x = d * price /\ x = price * d /\ y = qty[t] * price /\ y = price * qty[t]
        /\ price * (qty[t] + d) = y + x
  <2>1. d * price = price * d /\ qty[t] * price = price * qty[t]
    BY <1>1, <1>2
  <2>2. price * (qty[t] + d) = price * qty[t] + price * d
    BY <1>1, <1>2
  <2>3. price * d \in Int /\ price * qty[t] \in Int
    BY <1>1, <1>2
  <2> QED BY <2>1, <2>2, <2>3, Zenon
<1>5. /\ qty'[t] = qty[t] + d /\ flow'[t] = flow[t] - x - c
      /\ cost'[t] = CostAfter(t, d, price) /\ lot'[t] = LotAfter(t, d, c)
      /\ ledger'[t] = IF Reduces(t, d) THEN ledger[t] + BookedPnl(t, d, price, c) ELSE ledger[t]
      /\ crossed'[t] = IF Crosses(t, d) THEN crossed[t] + c ELSE crossed[t]
  BY <1>1, <1>4 DEF ApplyFill, BookInv, BookType
<1>6. Booked(t) = crossed[t]
  BY <1>1 DEF BookInv, Explained
<1>7. (qty'[t] = 0 => cost'[t] = 0) /\ Booked(t)' = crossed'[t]
  <2>1. CASE Opens(t)
    <3>1. qty[t] = 0 /\ cost[t] = 0 /\ lot[t].commission = 0
      BY <1>1, <2>1 DEF Opens, BookInv, NoCostWhenFlat, LotsMatchPositions, NoLot
    <3>2. cost'[t] = y + x /\ y = 0
      BY <1>1, <1>4, <1>5, <3>1 DEF CostAfter, Reduces, Adds
    <3>3. lot'[t].commission = c
      BY <1>5, <2>1 DEF LotAfter, NewLot
    <3>4. ledger'[t] = ledger[t] /\ crossed'[t] = crossed[t]
      BY <1>5, <3>1 DEF Reduces, Crosses
    <3>5. qty'[t] # 0
      BY <1>1, <1>5, <3>1
    <3> QED BY <1>1, <1>2, <1>4, <1>5, <1>6, <3>1, <3>2, <3>3, <3>4, <3>5 DEF Booked
  <2>2. CASE Adds(t, d)
    <3>1. ~Opens(t) /\ ~Reduces(t, d) /\ ~Crosses(t, d)
      BY <2>2 DEF Adds, Opens, Reduces, Crosses
    <3>2. cost'[t] = cost[t] + x
      BY <1>4, <1>5, <2>2, <3>1 DEF CostAfter
    <3>3. lot'[t].commission = lot[t].commission + c
      BY <1>5, <2>2, <3>1 DEF LotAfter, Resized
    <3>4. qty'[t] # 0
      BY <1>1, <1>2, <1>5, <2>2 DEF Adds
    <3> QED BY <1>1, <1>2, <1>4, <1>5, <1>6, <3>1, <3>2, <3>3, <3>4 DEF Booked
  <2>3. CASE Crosses(t, d)
    <3>1. Reduces(t, d) /\ ~Adds(t, d) /\ ~Opens(t) /\ Size(d) > Size(qty[t])
      BY <2>3 DEF Adds, Opens, Reduces, Crosses
    <3>2. /\ Closed(t, d) = qty[t] /\ CostOut(t, d) = cost[t]
          /\ ChargeOut(t, d) = lot[t].commission
      <4>1. Size(d) >= Size(qty[t])
        BY <1>1, <1>2, <3>1, SizeNat
      <4> QED BY <1>1, <3>1, <4>1, ReductionType DEF BookInv
    <3>3. cost'[t] = y + x
      BY <1>4, <1>5, <2>3, <3>1 DEF CostAfter
    <3>4. lot'[t].commission = c
      BY <1>5, <2>3 DEF LotAfter, NewLot
    <3>5. ledger'[t] = ledger[t] + (y - cost[t] - lot[t].commission - c)
      BY <1>4, <1>5, <3>1, <3>2 DEF BookedPnl
    <3>6. qty'[t] # 0
      BY <1>1, <1>2, <1>5, <3>1 DEF Size
    <3>7. crossed'[t] = crossed[t] + c
      BY <1>5, <2>3
    <3> QED BY <1>1, <1>2, <1>4, <1>5, <1>6, <3>3, <3>4, <3>5, <3>6, <3>7 DEF Booked
  <2>4. CASE Reduces(t, d) /\ ~Crosses(t, d)
    <3>1. ~Adds(t, d) /\ ~Opens(t)
      BY <2>4 DEF Adds, Opens, Reduces
    <3>2. PICK k \in Int, h \in Int : k = CostOut(t, d) /\ h = ChargeOut(t, d)
      BY <1>1, <2>4, ReductionType DEF BookInv
    <3>3. Closed(t, d) = -d /\ Closed(t, d) * price = -x
      <4>1. Closed(t, d) = -d
        BY <1>1, <1>2, <2>4 DEF Closed, Reduces, Crosses, Size
      <4> QED BY <1>1, <1>4, <4>1
    <3>4. cost'[t] = cost[t] - k
      BY <1>5, <2>4, <3>2 DEF CostAfter
    <3>5. qty[t] + d = 0 => k = cost[t] /\ h = lot[t].commission
      <4>1. HAVE qty[t] + d = 0
      <4>2. Size(d) >= Size(qty[t])
        BY <1>1, <1>2, <4>1 DEF Size
      <4> QED BY <1>1, <2>4, <3>2, <4>2, ReductionType DEF BookInv
    <3>6. lot'[t].commission = lot[t].commission - h
      <4>1. CASE qty[t] + d = 0
        BY <1>2, <1>5, <2>4, <3>1, <3>5, <4>1 DEF LotAfter, NoLot
      <4>2. CASE qty[t] + d # 0
        BY <1>5, <2>4, <3>1, <3>2, <4>2 DEF LotAfter, Resized
      <4> QED BY <4>1, <4>2
    <3>7. ledger'[t] = ledger[t] + (-x - k - h - c)
      BY <1>5, <2>4, <3>2, <3>3 DEF BookedPnl
    <3>8. crossed'[t] = crossed[t]
      BY <1>5, <2>4
    <3>9. qty'[t] = 0 => cost'[t] = 0
      BY <1>2, <1>5, <3>4, <3>5
    <3> QED BY <1>1, <1>2, <1>4, <1>5, <1>6, <3>4, <3>6, <3>7, <3>8, <3>9 DEF Booked
  <2> QED BY <1>1, <1>2, <2>1, <2>2, <2>3, <2>4 DEF Opens, Adds, Reduces
<1>8. \A u \in Tickers \ {t} : (qty'[u] = 0 => cost'[u] = 0) /\ Booked(u)' = crossed'[u]
  <2>1. TAKE u \in Tickers \ {t}
  <2>2. (qty[u] = 0 => cost[u] = 0) /\ Booked(u) = crossed[u]
    BY DEF BookInv, NoCostWhenFlat, Explained
  <2> QED BY <1>3, <2>2 DEF Booked
<1> QED BY <1>7, <1>8 DEF NoCostWhenFlat, Explained

LEMMA FillKeepsBook ==
    ASSUME BookInv, NEW t, NEW d, NEW price, NEW c, Filling(t, d, price, c)
    PROVE  BookInv'
BY FillType, FillLots, FillExplained DEF BookInv

-----------------------------------------------------------------------------
(* Types of the loop *)

LoopType == mode \in Modes /\ now \in 0..Bars /\ quoted \subseteq Tickers
            /\ pc \in {"bar", "process", "decide", "submit", "late"}
OrdersType == /\ orders \in Seq(Orders) /\ pending \subseteq DOMAIN orders
              /\ todo \subseteq pending /\ held \subseteq DOMAIN orders
BatchType == batch \in Batches /\ sent \in Nat /\ charged \in Nat /\ accepted \in Nat

LEMMA TypeParts == TypeOK <=> BookType /\ LoopType /\ OrdersType /\ BatchType
BY DEF TypeOK, LoopType, OrdersType, BatchType

LEMMA SessionNat ==
    ASSUME NEW b \in Nat \ {0}
    PROVE  Session(b) \in 1..b
<1>1. PICK B \in Nat \ {0} : B = BarsPerSession
  BY BacktestAssumption
<1>2. PICK x \in Nat : x = b - 1
  OBVIOUS
<1>3. x \div B \in Nat /\ x \div B <= x
  OBVIOUS
<1> QED BY <1>1, <1>2, <1>3 DEF Session

LEMMA BatchFinite == ASSUME NEW b \in Batches PROVE IsFiniteSet(b)
<1> DEFINE f == [o \in b |-> o.t]
<1>1. f \in Injection(b, Tickers)
  BY DEF Batches, Intended, Injection, IsInjective
<1> QED BY <1>1, BookAssumption, FS_Injection

\* What a submission does to the orders, unless the broker knows the key.
NewOrder(o) ==
    LET new == Len(orders) + 1
    IN  /\ orders' \in Seq(Orders) /\ new \notin DOMAIN orders
        /\ DOMAIN orders' = DOMAIN orders \cup {new} /\ pending' = pending \cup {new}
        /\ orders'[new].key = KeyOf(o) /\ orders'[new].bar = now
        /\ orders'[new].asked = orders'[new].left /\ orders'[new].left > 0
        /\ \A j \in DOMAIN orders : orders'[j] = orders[j]

LEMMA SubmitOrders ==
    ASSUME TypeOK, now # 0, NEW o \in batch, Submit(o), ~Repeated(KeyOf(o))
    PROVE  NewOrder(o) /\ KeyOf(o) \in DecisionKeys
<1>1. o \in Intended
  BY DEF TypeOK, Batches
<1>2. Session(now) \in 1..now /\ now \in 1..Bars
  BY SessionNat DEF TypeOK
<1>3. KeyOf(o) \in DecisionKeys /\ KeyOf(o) \in Keys
  BY <1>1, <1>2, BacktestAssumption DEF KeyOf, DecisionKeys, Keys, Intended
<1> DEFINE r == [key |-> KeyOf(o), asked |-> o.qty, left |-> o.qty, limit |-> o.limit, bar |-> now]
<1>4. r \in Orders
  <2>1. o.qty \in Nat /\ now \in Nat
    BY <1>1, <1>2, BacktestAssumption DEF Intended
  <2>2. o.limit \in {FALSE} \cup {LimitOrders}
    BY <1>1 DEF Intended
  <2>3. o.limit \in BOOLEAN
    BY <2>2, BacktestAssumption, Zenon
  <2> QED BY <1>3, <2>1, <2>3 DEF Orders
<1>5. orders \in Seq(Orders) /\ orders' = Append(orders, r)
  BY DEF TypeOK, Submit
<1>6. r.key = KeyOf(o) /\ r.bar = now /\ r.asked = r.left /\ r.left > 0
  BY <1>1, BacktestAssumption DEF Intended
<1>7. pending' = pending \cup {Len(orders) + 1}
  BY DEF Submit
<1> HIDE DEF r
<1>8. /\ orders' \in Seq(Orders) /\ orders'[Len(orders) + 1] = r
      /\ Len(orders) \in Nat /\ Len(orders') = Len(orders) + 1
      /\ \A j \in 1..Len(orders) : orders'[j] = orders[j]
  BY <1>4, <1>5
<1>9. DOMAIN orders = 1..Len(orders) /\ DOMAIN orders' = 1..Len(orders')
  BY <1>5, <1>8
<1> QED BY <1>3, <1>6, <1>7, <1>8, <1>9 DEF NewOrder

\* What a fill does to the orders.
Filled(i, n) ==
    /\ orders' \in Seq(Orders) /\ DOMAIN orders' = DOMAIN orders
    /\ n \in Nat \ {0} /\ orders'[i].left = orders[i].left - n
    /\ \A j \in DOMAIN orders : /\ orders'[j].key = orders[j].key /\ orders'[j].bar = orders[j].bar
                               /\ orders'[j].limit = orders[j].limit
                               /\ orders'[j].asked = orders[j].asked
    /\ \A j \in DOMAIN orders \ {i} : orders'[j] = orders[j]

LEMMA FillOrders ==
    ASSUME TypeOK, NEW i \in todo, NEW n \in 1..MaxQty, NEW price, FillOrder(i, n, price)
    PROVE  Filled(i, n)
<1>1. i \in DOMAIN orders /\ orders \in Seq(Orders) /\ orders[i] \in Orders
  BY DEF TypeOK
<1>2. n \in 1..orders[i].left /\ orders[i].left \in Nat
  BY <1>1 DEF FillOrder, Orders
<1>3. PICK m \in Nat : m = orders[i].left - n
  BY <1>2
<1>4. [orders[i] EXCEPT !.left = m] \in Orders
  BY <1>1, <1>3 DEF Orders
<1>5. orders' = [orders EXCEPT ![i].left = m]
  BY <1>3 DEF FillOrder, Left
<1>6. orders' = [orders EXCEPT ![i] = [orders[i] EXCEPT !.left = m]]
  BY <1>5
<1>7. orders' \in Seq(Orders) /\ DOMAIN orders' = DOMAIN orders
  BY <1>1, <1>4, <1>6
<1>8. orders'[i] = [orders[i] EXCEPT !.left = m]
  BY <1>1, <1>6
<1>9. \A j \in DOMAIN orders \ {i} : orders'[j] = orders[j]
  BY <1>1, <1>6
<1>10. /\ orders'[i].key = orders[i].key /\ orders'[i].bar = orders[i].bar
       /\ orders'[i].limit = orders[i].limit /\ orders'[i].left = m
       /\ orders'[i].asked = orders[i].asked
  BY <1>1, <1>8 DEF Orders
<1> QED BY <1>2, <1>3, <1>7, <1>9, <1>10 DEF Filled

-----------------------------------------------------------------------------
(* The book through a run: fills and marks are all that touches it *)

LEMMA BookStep ==
    ASSUME TypeOK, [Next]_vars
    PROVE  \/ UNCHANGED bookVars
           \/ \E t, d, price, c : Filling(t, d, price, c)
           \/ \E prices \in [quoted -> Prices] : Mark(prices)
<1>1. CASE \E i \in todo, n \in 1..MaxQty, price \in Prices : FillOrder(i, n, price)
  <2>1. PICK i \in todo, n \in 1..MaxQty, price \in Prices : FillOrder(i, n, price)
    BY <1>1
  <2>2. i \in DOMAIN orders /\ orders[i] \in Orders
    BY DEF TypeOK
  <2>3. orders[i].key.t \in Tickers /\ orders[i].key.buy \in BOOLEAN
    BY <2>2 DEF Orders, Keys
  <2>4. n \in Nat \ {0} /\ Commission(n) \in Nat /\ price \in Nat
    BY CommissionNat, BacktestAssumption
  <2>5. Signed(orders[i], n) \in Int \ {0}
    BY <2>4 DEF Signed
  <2>6. Filling(orders[i].key.t, Signed(orders[i], n), price, Commission(n))
    BY <2>1, <2>3, <2>4, <2>5 DEF Filling, FillOrder
  <2> QED BY <2>6
<1>2. CASE MarkBar \/ MarkLate
  BY <1>2 DEF MarkBar, MarkLate
<1>3. CASE UNCHANGED bookVars
  BY <1>3
<1> QED
  BY <1>1, <1>2, <1>3, Zenon DEF Next, NextBar, SkipBar, NoteOrders, Finished, Decide, Submit,
     KeepOrder, vars

LEMMA MarkKeepsBook ==
    ASSUME BookInv, TypeOK, NEW prices \in [quoted -> Prices], Mark(prices)
    PROVE  BookInv'
<1>1. /\ qty' = qty /\ cost' = cost /\ flow' = flow /\ ledger' = ledger
      /\ lot' = lot /\ crossed' = crossed
  BY DEF Mark
<1>2. last' \in [Tickers -> Nat]
  BY BacktestAssumption DEF Mark, TypeOK, BookType
<1>3. BookType'
  BY <1>1, <1>2 DEF BookInv, BookType
<1>4. LotsMatchPositions' /\ NoCostWhenFlat' /\ Explained'
  BY <1>1 DEF BookInv, LotsMatchPositions, NoCostWhenFlat, Explained, Booked
<1> QED BY <1>3, <1>4 DEF BookInv

LEMMA BookInvStep == ASSUME TypeOK, BookInv, [Next]_vars PROVE BookInv'
<1>1. CASE UNCHANGED bookVars
  BY <1>1 DEF bookVars, BookInv, BookType, LotsMatchPositions, NoCostWhenFlat, Explained, Booked
<1> QED BY <1>1, BookStep, FillKeepsBook, MarkKeepsBook

LEMMA BookInvInit == Init => BookInv
BY BookAssumption DEF Init, EmptyBook, Nothing, NoLot, BookInv, BookType, Lots, LotsMatchPositions,
   NoCostWhenFlat, Explained, Booked

-----------------------------------------------------------------------------
(* Types of a run.  No decision is made, and nothing submitted, before the   *)
(* first bar: a session has a number.                                        *)

BarBegun == pc # "bar" => now # 0
TypeInv == TypeOK /\ BarBegun

LEMMA BookTypeStep == ASSUME TypeOK, [Next]_vars PROVE BookType'
<1>1. CASE UNCHANGED bookVars
  BY <1>1 DEF bookVars, TypeOK, BookType
<1>2. ASSUME NEW t, NEW d, NEW price, NEW c, Filling(t, d, price, c) PROVE BookType'
  BY <1>2, FillType DEF TypeOK
<1>3. ASSUME NEW prices \in [quoted -> Prices], Mark(prices) PROVE BookType'
  BY <1>3, BacktestAssumption DEF Mark, TypeOK, BookType
<1> QED BY <1>1, <1>2, <1>3, BookStep

LEMMA LoopTypeStep == ASSUME TypeInv, [Next]_vars PROVE LoopType' /\ BarBegun'
<1>1. LoopType /\ BarBegun
  BY TypeParts DEF TypeInv
<1>2. CASE NextBar
  BY <1>1, <1>2, BacktestAssumption DEF NextBar, LoopType, BarBegun
<1>3. CASE MarkBar \/ MarkLate
  BY <1>1, <1>3 DEF MarkBar, MarkLate, LoopType, BarBegun
<1>4. CASE SkipBar \/ NoteOrders
  BY <1>1, <1>4 DEF SkipBar, NoteOrders, EndDecision, LoopType, BarBegun
<1>5. CASE \E b \in Batches : Decide(b)
  BY <1>1, <1>5 DEF Decide, LoopType, BarBegun
<1>6. CASE UNCHANGED <<mode, loopVars>>
  BY <1>1, <1>6 DEF loopVars, LoopType, BarBegun
<1> QED
  BY <1>2, <1>3, <1>4, <1>5, <1>6, Zenon DEF Next, Submit, KeepOrder, FillOrder, Finished, vars

LEMMA OrdersTypeStep == ASSUME TypeInv, [Next]_vars PROVE OrdersType'
<1>1. OrdersType /\ TypeOK
  BY TypeParts DEF TypeInv
<1>2. CASE \E i \in todo, n \in 1..MaxQty, price \in Prices : FillOrder(i, n, price)
  <2>1. PICK i \in todo, n \in 1..MaxQty, price \in Prices : FillOrder(i, n, price)
    BY <1>2
  <2>2. orders' \in Seq(Orders) /\ DOMAIN orders' = DOMAIN orders
    BY <1>1, <2>1, FillOrders DEF Filled
  <2> QED BY <1>1, <2>1, <2>2 DEF FillOrder, OrdersType
<1>3. CASE \E o \in batch : Submit(o) /\ ~Repeated(KeyOf(o))
  <2>1. PICK o \in batch : Submit(o) /\ ~Repeated(KeyOf(o))
    BY <1>3
  <2>2. NewOrder(o)
    BY <1>1, <2>1, SubmitOrders DEF Submit, TypeInv, BarBegun
  <2> QED BY <1>1, <2>1, <2>2 DEF Submit, NewOrder, OrdersType
<1>4. CASE \E i \in todo : KeepOrder(i)
  BY <1>1, <1>4 DEF KeepOrder, OrdersType
<1>5. CASE NextBar \/ SkipBar \/ NoteOrders
  BY <1>1, <1>5 DEF NextBar, SkipBar, NoteOrders, EndDecision, OrdersType
<1>6. CASE UNCHANGED <<orders, pending, todo, held>>
  BY <1>1, <1>6 DEF OrdersType
<1> QED
  BY <1>2, <1>3, <1>4, <1>5, <1>6, Zenon DEF Next, Submit, MarkBar, MarkLate, Decide, Finished,
     vars, brokerVars

LEMMA BatchTypeStep == ASSUME TypeInv, [Next]_vars PROVE BatchType'
<1>1. BatchType /\ TypeOK
  BY TypeParts DEF TypeInv
<1>2. CASE \E b \in Batches : Decide(b)
  <2>1. PICK b \in Batches : Decide(b)
    BY <1>2
  <2>2. Cardinality(b) \in Nat
    BY BatchFinite, FS_CardinalityType
  <2> QED BY <1>1, <2>1, <2>2 DEF Decide, BatchType
<1>3. CASE \E o \in batch : Submit(o)
  BY <1>1, <1>3 DEF Submit, BatchType, Batches
<1>4. CASE MarkBar \/ NoteOrders
  BY <1>1, <1>4 DEF MarkBar, NoteOrders, BatchType
<1>5. CASE UNCHANGED decisionVars
  BY <1>1, <1>5 DEF decisionVars, BatchType
<1> QED
  BY <1>2, <1>3, <1>4, <1>5, Zenon DEF Next, NextBar, SkipBar, MarkLate, KeepOrder, FillOrder,
     Finished, vars

LEMMA TypeInvInit == Init => TypeInv
<1> SUFFICES ASSUME Init PROVE TypeInv
  OBVIOUS
<1>1. BookType
  BY BookInvInit DEF BookInv
<1>2. LoopType /\ OrdersType /\ BarBegun
  BY BacktestAssumption DEF Init, LoopType, OrdersType, BarBegun
<1>3. BatchType
  BY DEF Init, BatchType, Batches
<1> QED BY <1>1, <1>2, <1>3, TypeParts DEF TypeInv

LEMMA TypeInvStep == ASSUME TypeInv, [Next]_vars PROVE TypeInv'
<1>1. BookType' /\ LoopType' /\ OrdersType' /\ BatchType' /\ BarBegun'
  BY BookTypeStep, LoopTypeStep, OrdersTypeStep, BatchTypeStep DEF TypeInv
<1> QED BY <1>1 DEF TypeInv, TypeOK, BookType, LoopType, OrdersType, BatchType

LEMMA TypeInvariant == Spec => []TypeInv
BY TypeInvInit, TypeInvStep, PTL DEF Spec

-----------------------------------------------------------------------------
(* Theorems about the book *)

(* Every variable of the loop, the broker and the book keeps its type: an     *)
(* order has no less than nothing left, a lot no negative size.               *)
THEOREM BacktestTypeCorrect == Spec => []TypeOK
<1>1. TypeInv => TypeOK
  BY DEF TypeInv
<1> QED BY <1>1, TypeInvariant, PTL

LEMMA BookInvariant == Spec => []BookInv
<1>1. TypeInv /\ BookInv /\ [Next]_vars => BookInv'
  BY BookInvStep DEF TypeInv
<1> QED BY <1>1, BookInvInit, TypeInvariant, PTL DEF Spec

(* A lot is open exactly while a position is, of its size and on its side:    *)
(* no reducing fill finds _open_trade empty.                                  *)
THEOREM EveryPositionHasItsLot == Spec => []LotsMatchPositions
<1>1. BookInv => LotsMatchPositions
  BY DEF BookInv
<1> QED BY <1>1, BookInvariant, PTL

(* reconcile's residual is the commission of the reversals and nothing else,  *)
(* through any fills at any prices: with no commission, or no reversal, the   *)
(* ledger explains the equity.                                                *)
THEOREM LedgerExplainsAllButReversals == Spec => []ResidualIsCrossings
<1>1. BookInv => ResidualIsCrossings
  <2>1. HAVE BookInv
  <2>2. BookType
    BY <2>1 DEF BookInv
  <2> QED BY <2>1, <2>2, ResidualIsBooked DEF ResidualIsCrossings, BookInv, Explained
<1> QED BY <1>1, BookInvariant, PTL

(* The ledger and the positions agree.                                        *)
THEOREM LedgerAgreesWithPositions == Spec => []BookAddsUp
<1>1. LotsMatchPositions /\ ResidualIsCrossings => BookAddsUp
  BY DEF BookAddsUp
<1> QED BY <1>1, EveryPositionHasItsLot, LedgerExplainsAllButReversals, PTL

LEMMA OrderType ==
    ASSUME TypeOK, NEW j \in DOMAIN orders
    PROVE  orders[j] \in Orders /\ orders[j].bar \in Nat
<1>1. orders[j] \in Orders
  BY DEF TypeOK
<1> QED BY <1>1 DEF Orders

-----------------------------------------------------------------------------
(* Look-ahead.  What process has still to look at was submitted before the   *)
(* bar, unless the model fills on the same one.                              *)

QueueIsPast ==
    /\ \A i \in DOMAIN orders : orders[i].bar <= now
    /\ pc = "late" => SameBar
    /\ pc = "process" => \A i \in todo : ~SameBar /\ orders[i].bar < now

LEMMA QueueIsPastStep == ASSUME TypeInv, QueueIsPast, [Next]_vars PROVE QueueIsPast'
<1>1. /\ TypeOK /\ now \in Nat /\ now' \in Nat /\ todo \subseteq DOMAIN orders
      /\ pending \subseteq DOMAIN orders /\ BarBegun
  BY BacktestAssumption, LoopTypeStep DEF TypeInv, TypeOK, LoopType
<1>2. \A j \in DOMAIN orders : orders[j].bar \in Nat
  BY <1>1, OrderType
<1>3. CASE \E i \in todo, n \in 1..MaxQty, price \in Prices : FillOrder(i, n, price)
  <2>1. PICK i \in todo, n \in 1..MaxQty, price \in Prices : FillOrder(i, n, price)
    BY <1>3
  <2>2. DOMAIN orders' = DOMAIN orders /\ \A j \in DOMAIN orders : orders'[j].bar = orders[j].bar
    BY <1>1, <2>1, FillOrders DEF Filled
  <2>3. /\ now' = now /\ pc' = pc /\ mode' = mode /\ todo' \subseteq todo
    BY <2>1 DEF FillOrder, loopVars
  <2> QED BY <1>1, <2>2, <2>3 DEF QueueIsPast, SameBar
<1>4. CASE \E o \in batch : Submit(o) /\ ~Repeated(KeyOf(o))
  <2>1. PICK o \in batch : Submit(o) /\ ~Repeated(KeyOf(o))
    BY <1>4
  <2>2. NewOrder(o)
    BY <1>1, <2>1, SubmitOrders DEF Submit, BarBegun
  <2>3. pc = "submit" /\ pc' = "submit" /\ now' = now
    BY <2>1 DEF Submit, loopVars
  <2> QED BY <1>1, <2>2, <2>3 DEF QueueIsPast, NewOrder
<1>5. CASE NextBar
  <2>1. /\ pc' = "process" /\ now' = now + 1 /\ orders' = orders /\ mode' = mode
        /\ todo' = IF SameBar THEN {} ELSE pending
    BY <1>5 DEF NextBar
  <2>2. \A j \in DOMAIN orders : orders[j].bar < now + 1
    BY <1>1, <1>2 DEF QueueIsPast
  <2>3. \A j \in todo' : j \in DOMAIN orders /\ ~SameBar
    BY <1>1, <2>1
  <2> QED BY <1>1, <1>2, <2>1, <2>2, <2>3 DEF QueueIsPast, SameBar
<1>6. CASE SkipBar \/ NoteOrders
  BY <1>6 DEF SkipBar, NoteOrders, EndDecision, QueueIsPast, SameBar
<1>7. CASE MarkBar \/ MarkLate \/ \E b \in Batches : Decide(b)
  BY <1>7 DEF MarkBar, MarkLate, Decide, brokerVars, QueueIsPast
<1>8. CASE \E i \in todo : KeepOrder(i)
  BY <1>8 DEF KeepOrder, loopVars, QueueIsPast, SameBar
<1>9. CASE UNCHANGED <<mode, pc, now, orders, todo>>
  BY <1>9 DEF QueueIsPast, SameBar
<1> QED
  BY <1>3, <1>4, <1>5, <1>6, <1>7, <1>8, <1>9, Zenon DEF Next, Submit, Finished, vars, loopVars,
     brokerVars

LEMMA QueueInvariant == Spec => []QueueIsPast
<1>1. Init => QueueIsPast
  BY DEF Init, QueueIsPast
<1> QED BY <1>1, QueueIsPastStep, TypeInvariant, PTL DEF Spec

(* No order fills at the bar it was decided on, or, with same_close, before   *)
(* the decision.                                                              *)
THEOREM NoFillAheadOfItsBar == Spec => NoLookAhead
<1>1. ASSUME TypeInv, QueueIsPast, [Next]_vars, NEW j \in DOMAIN orders, Fills(j)
      PROVE  IF mode = "same_close" THEN now >= orders[j].bar /\ pc = "late"
             ELSE now > orders[j].bar
  <2>1. /\ TypeOK /\ now \in Nat /\ orders[j].bar \in Nat /\ BarBegun
    BY <1>1, OrderType, BacktestAssumption DEF TypeInv, TypeOK
  <2>2. \E i \in todo, n \in 1..MaxQty, price \in Prices : FillOrder(i, n, price)
    <3>1. ASSUME NEW o \in batch, Submit(o), ~Repeated(KeyOf(o)) PROVE FALSE
      <4>1. NewOrder(o)
        BY <2>1, <3>1, SubmitOrders DEF Submit, BarBegun
      <4> QED BY <1>1, <4>1 DEF NewOrder, Fills
    <3>2. orders' # orders
      BY <1>1 DEF Fills
    <3> QED
      BY <1>1, <3>1, <3>2, Zenon DEF Next, NextBar, SkipBar, NoteOrders, MarkBar, MarkLate, Decide,
         Submit, KeepOrder, Finished, vars, brokerVars
  <2>3. PICK i \in todo, n \in 1..MaxQty, price \in Prices : FillOrder(i, n, price)
    BY <2>2
  <2>4. Filled(i, n)
    BY <2>1, <2>3, FillOrders
  <2>5. i = j
    BY <1>1, <2>4 DEF Filled, Fills
  <2>6. pc \in {"process", "late"}
    BY <2>3 DEF FillOrder, First
  <2> QED BY <1>1, <2>1, <2>5, <2>6 DEF QueueIsPast, SameBar
<1>2. TypeInv /\ QueueIsPast /\ [Next]_vars =>
        [\A i \in DOMAIN orders : Fills(i) =>
            IF mode = "same_close" THEN now >= orders[i].bar /\ pc = "late"
            ELSE now > orders[i].bar]_vars
  BY <1>1
<1> QED BY <1>2, TypeInvariant, QueueInvariant, PTL DEF Spec, NoLookAhead

-----------------------------------------------------------------------------
(* The book a decision meets.  With same_close a queue is looked at once     *)
(* more, at a bar where its tickers are quoted; otherwise at the next bar.   *)

Kept(i) == orders[i].limit \/ i \in held

QueueIsSettled ==
    /\ pc = "process" /\ ~SameBar => \A i \in pending \ todo : Untraded(i) \/ Kept(i)
    /\ pc = "decide" /\ ~SameBar => \A i \in pending : Untraded(i) \/ Kept(i)
    /\ SameBar => \A i \in pending :
         Kept(i) \/ (~Untraded(i) /\ (pc = "submit" \/ (pc = "late" /\ i \in todo)))

BatchIsQuoted == \A o \in batch : o.t \in quoted /\ pc = "submit"

LEMMA BatchIsQuotedStep == ASSUME BatchIsQuoted, [Next]_vars PROVE BatchIsQuoted'
<1>1. CASE NextBar
  BY <1>1 DEF NextBar, decisionVars, BatchIsQuoted
<1>2. CASE MarkBar \/ MarkLate \/ SkipBar
  BY <1>2 DEF MarkBar, MarkLate, SkipBar, decisionVars, BatchIsQuoted
<1>3. CASE NoteOrders
  BY <1>3 DEF NoteOrders, BatchIsQuoted
<1>4. CASE \E b \in Batches : Decide(b)
  BY <1>4 DEF Decide, BatchIsQuoted
<1>5. CASE \E o \in batch : Submit(o)
  BY <1>5 DEF Submit, loopVars, BatchIsQuoted
<1>6. CASE UNCHANGED <<batch, quoted, pc>>
  BY <1>6 DEF BatchIsQuoted
<1> QED
  BY <1>1, <1>2, <1>3, <1>4, <1>5, <1>6, Zenon DEF Next, KeepOrder, FillOrder, Finished, vars,
     loopVars, decisionVars

LEMMA QueueIsSettledStep ==
    ASSUME TypeInv, BatchIsQuoted, QueueIsSettled, [Next]_vars
    PROVE  QueueIsSettled'
<1>1. TypeOK /\ BarBegun /\ todo \subseteq pending /\ pending \subseteq DOMAIN orders
  BY DEF TypeInv, TypeOK
<1>2. CASE \E i \in todo, n \in 1..MaxQty, price \in Prices : FillOrder(i, n, price)
  <2>1. PICK i \in todo, n \in 1..MaxQty, price \in Prices : FillOrder(i, n, price)
    BY <1>2
  <2>2. \A j \in DOMAIN orders : /\ orders'[j].key = orders[j].key
                                 /\ orders'[j].limit = orders[j].limit
    BY <1>1, <2>1, FillOrders DEF Filled
  <2>3. /\ mode' = mode /\ pc' = pc /\ quoted' = quoted /\ todo' = todo \ {i}
        /\ held \subseteq held' /\ pending' \subseteq pending
        /\ i \in pending' => i \in held'
    BY <2>1 DEF FillOrder, loopVars
  <2>4. \A j \in pending' : (Untraded(j) <=> Untraded(j)') /\ (Kept(j) => Kept(j)')
    BY <1>1, <2>2, <2>3 DEF Untraded, Kept
  <2>5. i \in pending' => Kept(i)'
    BY <2>3 DEF Kept
  <2> QED BY <1>1, <2>3, <2>4, <2>5 DEF QueueIsSettled, SameBar
<1>3. CASE \E i \in todo : KeepOrder(i)
  <2>1. PICK i \in todo : KeepOrder(i)
    BY <1>3
  <2>2. /\ mode' = mode /\ pc' = pc /\ quoted' = quoted /\ todo' = todo \ {i}
        /\ held \subseteq held' /\ pending' = pending /\ orders' = orders
        /\ Untraded(i) \/ orders[i].limit \/ i \in held'
    BY <2>1 DEF KeepOrder, loopVars
  <2>3. \A j : (Untraded(j) <=> Untraded(j)') /\ (Kept(j) => Kept(j)')
    BY <2>2 DEF Untraded, Kept
  <2>4. Untraded(i) \/ Kept(i)'
    BY <2>2 DEF Kept
  <2> QED BY <1>1, <2>2, <2>3, <2>4 DEF QueueIsSettled, SameBar
<1>4. CASE \E o \in batch : Submit(o) /\ ~Repeated(KeyOf(o))
  <2>1. PICK o \in batch : Submit(o) /\ ~Repeated(KeyOf(o))
    BY <1>4
  <2>2. NewOrder(o) /\ o.t \in quoted
    BY <1>1, <2>1, SubmitOrders DEF Submit, BarBegun, BatchIsQuoted
  <2>3. /\ pc = "submit" /\ pc' = "submit" /\ mode' = mode /\ quoted' = quoted
        /\ held' = held
    BY <2>1 DEF Submit, loopVars
  <2>4. \A j \in pending : (Untraded(j) <=> Untraded(j)') /\ (Kept(j) => Kept(j)')
    BY <1>1, <2>2, <2>3 DEF NewOrder, Untraded, Kept
  <2>5. \A j \in pending' \ pending : ~Untraded(j)'
    BY <2>2, <2>3 DEF NewOrder, Untraded, KeyOf
  <2> QED BY <2>3, <2>4, <2>5 DEF QueueIsSettled, SameBar
<1>5. CASE NextBar
  <2>1. /\ pc = "bar" /\ pc' = "process" /\ orders' = orders /\ mode' = mode /\ held' = held
        /\ pending' = pending /\ (~SameBar => todo' = pending)
    BY <1>5 DEF NextBar
  <2>2. SameBar => \A i \in pending : Kept(i)
    BY <2>1 DEF QueueIsSettled
  <2> QED BY <2>1, <2>2 DEF QueueIsSettled, SameBar, Kept
<1>6. CASE MarkBar \/ MarkLate
  <2>1. /\ pc \in {"process", "late"} /\ pc' = (IF pc = "process" THEN "decide" ELSE "bar")
        /\ todo = {} /\ UNCHANGED <<quoted, brokerVars, held, mode>>
    BY <1>6, Zenon DEF MarkBar, MarkLate, Processed
  <2> QED BY <2>1 DEF QueueIsSettled, SameBar, Untraded, Kept, brokerVars
<1>7. CASE SkipBar \/ NoteOrders
  <2>1. /\ pc \in {"decide", "submit"} /\ UNCHANGED <<quoted, orders, pending, held, mode>>
        /\ IF SameBar THEN pc' = "late" /\ todo' = pending ELSE pc' = "bar" /\ todo' = {}
    BY <1>7 DEF SkipBar, NoteOrders, EndDecision
  <2> QED BY <2>1 DEF QueueIsSettled, SameBar, Untraded, Kept
<1>8. CASE \E b \in Batches : Decide(b)
  <2>1. pc = "decide" /\ pc' = "submit" /\ UNCHANGED <<quoted, brokerVars, held, mode>>
    BY <1>8 DEF Decide
  <2> QED BY <2>1 DEF QueueIsSettled, SameBar, Untraded, Kept, brokerVars
<1>9. CASE UNCHANGED <<mode, pc, quoted, brokerVars, held>>
  BY <1>9 DEF QueueIsSettled, SameBar, Untraded, Kept, brokerVars
<1> QED
  BY <1>2, <1>3, <1>4, <1>5, <1>6, <1>7, <1>8, <1>9, Zenon DEF Next, Submit, Finished, vars,
     loopVars, brokerVars

(* What still works when a decision is turned into orders, for a ticker that  *)
(* can be traded, is a limit order or one the volume has held up: no market   *)
(* order hides behind the position the gate and the sizing read.              *)
THEOREM DecisionsMeetASettledBook == Spec => []DecidesOnSettledBook
<1>1. Init => BatchIsQuoted /\ QueueIsSettled
  BY DEF Init, BatchIsQuoted, QueueIsSettled
<1>2. /\ TypeInv /\ BatchIsQuoted /\ QueueIsSettled /\ [Next]_vars
        => BatchIsQuoted' /\ QueueIsSettled'
  BY BatchIsQuotedStep, QueueIsSettledStep
<1>3. QueueIsSettled => DecidesOnSettledBook
  BY DEF QueueIsSettled, DecidesOnSettledBook, Kept
<1> QED BY <1>1, <1>2, <1>3, TypeInvariant, PTL DEF Spec

-----------------------------------------------------------------------------
(* The gate's count.  Until note_orders, what is still to submit stands for   *)
(* what is still to charge.                                                  *)

ChargeCovers == accepted + Cardinality(batch) <= charged + sent
NothingToSend == pc # "submit" => batch = {} /\ sent = 0

LEMMA ChargeStep ==
    ASSUME TypeInv, NothingToSend, ChargeCovers, [Next]_vars
    PROVE  NothingToSend' /\ ChargeCovers'
<1>1. /\ batch \in Batches /\ sent \in Nat /\ charged \in Nat /\ accepted \in Nat
      /\ IsFiniteSet(batch) /\ Cardinality(batch) \in Nat
  BY BatchFinite, FS_CardinalityType DEF TypeInv, TypeOK
<1>2. Cardinality({}) = 0
  BY FS_EmptySet
<1>3. CASE MarkBar
  <2>1. /\ pc = "process" /\ pc' = "decide" /\ batch' = batch /\ sent' = sent
        /\ \/ charged' = 0 /\ accepted' = 0
           \/ charged' = charged /\ accepted' = accepted
    BY <1>3 DEF MarkBar, NewSession
  <2>2. batch = {} /\ sent = 0
    BY <2>1 DEF NothingToSend
  <2>3. NothingToSend'
    BY <2>1, <2>2 DEF NothingToSend
  <2>4. ChargeCovers'
    BY <1>1, <1>2, <2>1, <2>2 DEF ChargeCovers
  <2> QED BY <2>3, <2>4
<1>4. CASE \E b \in Batches : Decide(b)
  <2>1. PICK b \in Batches : Decide(b)
    BY <1>4
  <2>2. /\ pc = "decide" /\ pc' = "submit" /\ batch' = b /\ sent' = Cardinality(b)
        /\ charged' = charged /\ accepted' = accepted
    BY <2>1 DEF Decide
  <2>3. Cardinality(b) \in Nat
    BY BatchFinite, FS_CardinalityType
  <2>4. accepted <= charged
    <3>1. batch = {} /\ sent = 0
      BY <2>2 DEF NothingToSend
    <3> QED BY <1>1, <1>2, <3>1 DEF ChargeCovers
  <2>5. NothingToSend'
    BY <2>2 DEF NothingToSend
  <2>6. ChargeCovers'
    BY <1>1, <2>2, <2>3, <2>4 DEF ChargeCovers
  <2> QED BY <2>5, <2>6
<1>5. CASE \E o \in batch : Submit(o)
  <2>1. PICK o \in batch : Submit(o)
    BY <1>5
  <2>2. /\ pc' = "submit" /\ batch' = batch \ {o} /\ sent' = sent /\ charged' = charged
        /\ accepted' \in {accepted, accepted + 1}
    BY <2>1 DEF Submit, loopVars
  <2>3. Cardinality(batch \ {o}) = Cardinality(batch) - 1
    BY <1>1, FS_RemoveElement
  <2>4. NothingToSend'
    BY <2>2 DEF NothingToSend
  <2>5. ChargeCovers'
    BY <1>1, <2>2, <2>3 DEF ChargeCovers
  <2> QED BY <2>4, <2>5
<1>6. CASE NoteOrders
  <2>1. /\ batch = {} /\ batch' = {} /\ charged' = charged + sent /\ sent' = 0
        /\ accepted' = accepted
    BY <1>6 DEF NoteOrders
  <2>2. NothingToSend'
    BY <2>1 DEF NothingToSend
  <2>3. ChargeCovers'
    BY <1>1, <1>2, <2>1 DEF ChargeCovers
  <2> QED BY <2>2, <2>3
<1>7. CASE NextBar \/ SkipBar \/ MarkLate
  <2>1. pc # "submit" /\ UNCHANGED decisionVars
    BY <1>7 DEF NextBar, SkipBar, MarkLate
  <2> QED BY <2>1 DEF decisionVars, NothingToSend, ChargeCovers
<1>8. CASE UNCHANGED <<pc, decisionVars>>
  BY <1>8 DEF decisionVars, NothingToSend, ChargeCovers
<1> QED
  BY <1>3, <1>4, <1>5, <1>6, <1>7, <1>8, Zenon DEF Next, KeepOrder, FillOrder, Finished, vars,
     loopVars

(* Between bars the gate has been charged for every order the broker took in  *)
(* the session, whatever it answered as a repetition.                         *)
THEOREM OrdersAreCharged == Spec => []EveryOrderIsCharged
<1>1. Init => NothingToSend /\ ChargeCovers
  BY FS_EmptySet DEF Init, NothingToSend, ChargeCovers
<1>2. TypeInv /\ NothingToSend /\ ChargeCovers => EveryOrderIsCharged
  <2>1. HAVE TypeInv /\ NothingToSend /\ ChargeCovers
  <2>2. SUFFICES ASSUME pc = "bar" PROVE accepted <= charged
    BY DEF EveryOrderIsCharged
  <2>3. batch = {} /\ sent = 0 /\ Cardinality({}) = 0
    BY <2>1, <2>2, FS_EmptySet DEF NothingToSend
  <2>4. accepted \in Nat /\ charged \in Nat
    BY <2>1 DEF TypeInv, TypeOK
  <2> QED BY <2>1, <2>3, <2>4 DEF ChargeCovers
<1>3. TypeInv /\ NothingToSend /\ ChargeCovers /\ [Next]_vars => NothingToSend' /\ ChargeCovers'
  BY ChargeStep
<1> QED BY <1>1, <1>2, <1>3, TypeInvariant, PTL DEF Spec

-----------------------------------------------------------------------------
(* The backtest implements Decisions *)

OneOrderPerKey == \A i, j \in DOMAIN orders : orders[i].key = orders[j].key => i = j

Placed(k) == {i \in DOMAIN orders : orders[i].key = k}

\* What a step does to the orders and the queue.
Placing ==
    \E o \in batch : NewOrder(o) /\ KeyOf(o) \in DecisionKeys /\ ~Repeated(KeyOf(o))
Ending ==
    \E i \in pending : /\ DOMAIN orders' = DOMAIN orders
                       /\ \A j \in DOMAIN orders : orders'[j].key = orders[j].key
                       /\ pending' = pending \ {i}
Staying == /\ DOMAIN orders' = DOMAIN orders /\ pending' = pending
           /\ \A j \in DOMAIN orders : orders'[j].key = orders[j].key

LEMMA OrdersStep == ASSUME TypeInv, [Next]_vars PROVE Placing \/ Ending \/ Staying
<1>1. TypeOK /\ BarBegun
  BY DEF TypeInv
<1>2. CASE \E i \in todo, n \in 1..MaxQty, price \in Prices : FillOrder(i, n, price)
  <2>1. PICK i \in todo, n \in 1..MaxQty, price \in Prices : FillOrder(i, n, price)
    BY <1>2
  <2>2. /\ DOMAIN orders' = DOMAIN orders /\ i \in pending
        /\ \A j \in DOMAIN orders : orders'[j].key = orders[j].key
    BY <1>1, <2>1, FillOrders DEF Filled, TypeOK
  <2>3. pending' = pending \ {i} \/ pending' = pending
    BY <2>1 DEF FillOrder
  <2> QED BY <2>2, <2>3 DEF Ending, Staying
<1>3. CASE \E o \in batch : Submit(o) /\ ~Repeated(KeyOf(o))
  <2>1. PICK o \in batch : Submit(o) /\ ~Repeated(KeyOf(o))
    BY <1>3
  <2>2. NewOrder(o) /\ KeyOf(o) \in DecisionKeys
    BY <1>1, <2>1, SubmitOrders DEF Submit, BarBegun
  <2> QED BY <2>1, <2>2 DEF Placing
<1>4. CASE UNCHANGED <<orders, pending>>
  BY <1>4 DEF Staying
<1> QED
  BY <1>2, <1>3, <1>4, Zenon DEF Next, NextBar, MarkBar, SkipBar, NoteOrders, MarkLate, Finished,
     Decide, Submit, KeepOrder, vars, brokerVars

LEMMA OneOrderStep ==
    ASSUME TypeInv, OneOrderPerKey, [Next]_vars
    PROVE  OneOrderPerKey'
<1>1. CASE Placing
  <2>1. PICK o \in batch : NewOrder(o) /\ ~Repeated(KeyOf(o))
    BY <1>1 DEF Placing
  <2>2. \A j \in DOMAIN orders : orders[j].key # KeyOf(o)
    BY <2>1 DEF Repeated
  <2> QED BY <2>1, <2>2 DEF NewOrder, OneOrderPerKey
<1>2. CASE Ending \/ Staying
  BY <1>2 DEF Ending, Staying, OneOrderPerKey
<1> QED BY <1>1, <1>2, OrdersStep

(* What submit_orders promises of the live runner the backtest keeps: one     *)
(* session, ticker and side becomes an order at most once, and an order that  *)
(* is over stays over.                                                        *)
THEOREM BacktestImplementsDecisions == Spec => DecidesOnce
<1> DEFINE fates == [k \in DecisionKeys |-> FateOf(k)]
<1>1. Init => Fates!Init /\ OneOrderPerKey
  BY DEF Init, Fates!Init, FateOf, OneOrderPerKey
<1>2. ASSUME TypeInv, OneOrderPerKey, [Next]_vars
      PROVE  Fates!Next \/ UNCHANGED fates
  <2>1. CASE Staying
    <3>1. \A k \in DecisionKeys : FateOf(k)' = FateOf(k)
      BY <2>1 DEF Staying, FateOf
    <3> QED BY <3>1
  <2>2. CASE Placing
    <3>1. PICK o \in batch : NewOrder(o) /\ KeyOf(o) \in DecisionKeys /\ ~Repeated(KeyOf(o))
      BY <2>2 DEF Placing
    <3>2. PICK d \in DecisionKeys : d = KeyOf(o)
      BY <3>1
    <3>3. PICK new \in Nat : new = Len(orders) + 1
      BY <1>2 DEF TypeInv, TypeOK
    <3>4. /\ DOMAIN orders' = DOMAIN orders \cup {new} /\ new \notin DOMAIN orders
          /\ pending' = pending \cup {new} /\ orders'[new].key = d
          /\ \A j \in DOMAIN orders : orders'[j] = orders[j]
      BY <3>1, <3>2, <3>3 DEF NewOrder
    <3>5. \A j \in DOMAIN orders : orders[j].key # d
      BY <3>1, <3>2 DEF Repeated
    <3>6. Placed(d) = {} /\ Placed(d)' = {new}
      BY <3>4, <3>5 DEF Placed
    <3>7. FateOf(d) = "none" /\ FateOf(d)' = "working"
      BY <3>4, <3>6 DEF FateOf, Placed
    <3>8. \A k \in DecisionKeys \ {d} : FateOf(k)' = FateOf(k)
      <4>1. TAKE k \in DecisionKeys \ {d}
      <4>2. Placed(k)' = Placed(k) /\ new \notin Placed(k)
        BY <3>4 DEF Placed
      <4>3. Placed(k)' \cap pending' = Placed(k) \cap pending
        BY <3>4, <4>2
      <4> QED BY <4>2, <4>3 DEF FateOf, Placed
    <3>9. fates' = [fates EXCEPT ![d] = "working"]
      BY <3>7, <3>8
    <3> QED BY <3>7, <3>9 DEF Fates!Next, Fates!Place
  <2>3. CASE Ending
    <3>1. PICK i \in pending : /\ DOMAIN orders' = DOMAIN orders
                               /\ \A j \in DOMAIN orders : orders'[j].key = orders[j].key
                               /\ pending' = pending \ {i}
      BY <2>3 DEF Ending
    <3>2. i \in DOMAIN orders
      BY <1>2 DEF TypeInv, TypeOK
    <3>3. PICK d : d = orders[i].key
      OBVIOUS
    <3>4. Placed(d) = {i} /\ Placed(d)' = {i}
      BY <1>2, <3>1, <3>2, <3>3 DEF Placed, OneOrderPerKey
    <3>5. FateOf(d) = "working" /\ FateOf(d)' = "over"
      BY <3>1, <3>4 DEF FateOf, Placed
    <3>6. \A k : k # d => FateOf(k)' = FateOf(k)
      <4>1. TAKE k
      <4>2. HAVE k # d
      <4>3. Placed(k)' = Placed(k) /\ i \notin Placed(k)
        BY <3>1, <3>3, <4>2 DEF Placed
      <4>4. Placed(k)' \cap pending' = Placed(k) \cap pending
        BY <3>1, <4>3
      <4> QED BY <4>3, <4>4 DEF FateOf, Placed
    <3>7. CASE d \in DecisionKeys
      <4>1. fates' = [fates EXCEPT ![d] = "over"]
        BY <3>5, <3>6, <3>7
      <4> QED BY <3>5, <3>7, <4>1 DEF Fates!Next, Fates!End
    <3>8. CASE d \notin DecisionKeys
      BY <3>6, <3>8
    <3> QED BY <3>7, <3>8
  <2> QED BY <1>2, <2>1, <2>2, <2>3, OrdersStep
<1>3. TypeInv /\ OneOrderPerKey /\ [Next]_vars => [Fates!Next]_fates
  BY <1>2
<1>4. TypeInv /\ OneOrderPerKey /\ [Next]_vars => OneOrderPerKey'
  BY OneOrderStep
<1> QED BY <1>1, <1>3, <1>4, TypeInvariant, PTL DEF Spec, DecidesOnce, Fates!Spec

-----------------------------------------------------------------------------
(* Positions and fills                                                       *)

\* What an order has moved of a ticker.
FillOf(o, t) == IF o.key.t = t THEN Signed(o, o.asked - o.left) ELSE 0
FillsIn(os, t) == [i \in DOMAIN os |-> FillOf(os[i], t)]

LEMMA FilledForIs ==
    ASSUME NEW t
    PROVE  FilledFor(t) = FillsIn(orders, t) /\ FilledFor(t)' = FillsIn(orders', t)
BY DEF FilledFor, FillsIn, FillOf

LEMMA SignedInt ==
    ASSUME NEW o, NEW p, o.key = p.key, NEW n \in Int, NEW d \in Int
    PROVE  Signed(o, n) \in Int /\ Signed(p, n + d) = Signed(o, n) + Signed(o, d) /\ Signed(o, 0) = 0
<1>1. CASE o.key.buy
  <2>1. Signed(o, n) = n /\ Signed(o, d) = d /\ Signed(p, n + d) = n + d /\ Signed(o, 0) = 0
    BY <1>1, Zenon DEF Signed
  <2> QED BY <2>1
<1>2. CASE ~o.key.buy
  <2>1. Signed(o, n) = -n /\ Signed(o, d) = -d /\ Signed(p, n + d) = -(n + d) /\ Signed(o, 0) = -0
    BY <1>2, Zenon DEF Signed
  <2> QED BY <2>1
<1> QED BY <1>1, <1>2

LEMMA FillsInType ==
    ASSUME NEW os \in Seq(Orders), NEW t
    PROVE  IsFiniteSet(DOMAIN os) /\ FillsIn(os, t) \in [DOMAIN os -> Int]
<1>1. DOMAIN os = 1..Len(os) /\ Len(os) \in Nat /\ 1 \in Int
  OBVIOUS
<1>2. IsFiniteSet(DOMAIN os)
  BY <1>1, FS_Interval
<1>3. ASSUME NEW i \in DOMAIN os PROVE FillOf(os[i], t) \in Int
  <2>1. os[i] \in Orders
    BY <1>1
  <2>2. os[i].asked - os[i].left \in Int
    BY <2>1 DEF Orders
  <2> QED BY <2>2, SignedInt DEF FillOf
<1> QED BY <1>2, <1>3 DEF FillsIn

\* An order the broker takes has moved nothing.
LEMMA PlacingFills ==
    ASSUME TypeInv, NEW o, NewOrder(o), NEW t
    PROVE  Total(FilledFor(t)') = Total(FilledFor(t))
<1> DEFINE k == Len(orders) + 1
           q == FillsIn(orders, t)
           r == FillsIn(orders', t)
<1>1. /\ orders \in Seq(Orders) /\ orders' \in Seq(Orders)
      /\ DOMAIN orders' = DOMAIN orders \cup {k} /\ k \notin DOMAIN orders
      /\ \A j \in DOMAIN orders : orders'[j] = orders[j]
      /\ orders'[k].asked = orders'[k].left
  BY DEF TypeInv, TypeOK, NewOrder
<1>2. orders'[k] \in Orders
  BY <1>1
<1>3. orders'[k].asked - orders'[k].left = 0
  BY <1>1, <1>2 DEF Orders
<1> HIDE DEF k
<1>4. IsFiniteSet(DOMAIN orders') /\ r \in [DOMAIN orders' -> Int] /\ q \in [DOMAIN orders -> Int]
      /\ IsFiniteSet(DOMAIN orders)
  BY <1>1, FillsInType
<1>5. r[k] = 0
  BY <1>1, <1>3, SignedInt DEF FillsIn, FillOf
<1>6. Without(r, k) = q
  BY <1>1 DEF Without, FillsIn
<1> HIDE DEF q, r
<1>7. Total(r) = Total(Without(r, k)) + r[k]
  BY <1>1, <1>4, TotalSplit
<1>8. Total(q) \in Int
  BY <1>4, TotalType
<1>9. Total(r) = Total(q)
  BY <1>5, <1>6, <1>7, <1>8
<1> QED BY <1>9, FilledForIs DEF q, r

\* A fill moves its ticker by what it fills, and no other.
LEMMA FillingFills ==
    ASSUME TypeInv, NEW i \in DOMAIN orders, NEW n, Filled(i, n), NEW t
    PROVE  Total(FilledFor(t)') = Total(FilledFor(t))
             + (IF orders[i].key.t = t THEN Signed(orders[i], n) ELSE 0)
<1> DEFINE q == FillsIn(orders, t)
           r == FillsIn(orders', t)
           S == DOMAIN orders
           x == orders[i]
           y == orders'[i]
<1>1. /\ orders \in Seq(Orders) /\ orders' \in Seq(Orders) /\ DOMAIN orders' = S
      /\ n \in Int /\ y.left = x.left - n /\ y.asked = x.asked /\ y.key = x.key
      /\ \A j \in S \ {i} : orders'[j] = orders[j]
  BY DEF TypeInv, TypeOK, Filled
<1>2. x \in Orders /\ x.asked \in Int /\ x.left \in Int
  <2>1. x \in Orders
    BY <1>1
  <2> QED BY <2>1 DEF Orders
<1>3. y.asked - y.left = (x.asked - x.left) + n /\ x.asked - x.left \in Int
  BY <1>1, <1>2
<1>4. r[i] = q[i] + (IF x.key.t = t THEN Signed(x, n) ELSE 0) /\ q[i] \in Int /\ r[i] \in Int
  <2>1. q[i] = FillOf(x, t) /\ r[i] = FillOf(y, t)
    BY <1>1 DEF FillsIn
  <2>2. Signed(x, x.asked - x.left) \in Int /\ Signed(x, n) \in Int
    BY <1>1, <1>3, SignedInt
  <2>3. Signed(y, (x.asked - x.left) + n) = Signed(x, x.asked - x.left) + Signed(x, n)
    <3> HIDE DEF x, y
    <3> QED BY <1>1, <1>3, SignedInt
  <2>4. Signed(y, y.asked - y.left) = Signed(x, x.asked - x.left) + Signed(x, n)
    BY <1>3, <2>3
  <2> HIDE DEF x, y, q, r
  <2> QED BY <1>1, <2>1, <2>2, <2>4 DEF FillOf
<1>5. IsFiniteSet(S) /\ q \in [S -> Int] /\ r \in [S -> Int]
  BY <1>1, FillsInType
<1>6. \A j \in S \ {i} : r[j] = q[j]
  BY <1>1 DEF FillsIn
<1> HIDE DEF q, r
<1>7. Total(r) = Total(q) - q[i] + r[i]
  BY <1>5, <1>6, TotalStep
<1>8. Total(q) \in Int
  BY <1>5, TotalType
<1> DEFINE more == IF x.key.t = t THEN Signed(x, n) ELSE 0
<1>9. more \in Int
  BY <1>1, SignedInt
<1>10. r[i] = q[i] + more
  BY <1>4
<1> HIDE DEF more
<1>11. Total(r) = Total(q) + more
  BY <1>4, <1>7, <1>8, <1>9, <1>10
<1> QED BY <1>11, FilledForIs DEF q, r, more

LEMMA PositionsStep ==
    ASSUME TypeInv, PositionIsItsFills, [Next]_vars
    PROVE  PositionIsItsFills'
<1>1. TypeOK /\ BarBegun /\ todo \subseteq DOMAIN orders
  BY DEF TypeInv, TypeOK
<1>2. CASE \E i \in todo, n \in 1..MaxQty, price \in Prices : FillOrder(i, n, price)
  <2>1. PICK i \in todo, n \in 1..MaxQty, price \in Prices : FillOrder(i, n, price)
    BY <1>2
  <2>2. Filled(i, n) /\ i \in DOMAIN orders
    BY <1>1, <2>1, FillOrders
  <2>3. qty' = [qty EXCEPT ![orders[i].key.t] = @ + Signed(orders[i], n)]
    BY <2>1 DEF FillOrder, ApplyFill
  <2>4. ASSUME NEW t \in Tickers PROVE qty'[t] = Total(FilledFor(t)')
    <3>1. qty[t] = Total(FilledFor(t)) /\ qty \in [Tickers -> Int]
      BY <1>1 DEF PositionIsItsFills, TypeOK, BookType
    <3>2. Signed(orders[i], n) \in Int
      <4>1. n \in Int
        BY <2>2 DEF Filled
      <4> QED BY <4>1, SignedInt
    <3>3. qty'[t] = qty[t] + (IF orders[i].key.t = t THEN Signed(orders[i], n) ELSE 0)
      BY <2>3, <3>1, <3>2
    <3>4. Total(FilledFor(t)') = Total(FilledFor(t))
            + (IF orders[i].key.t = t THEN Signed(orders[i], n) ELSE 0)
      BY <2>2, FillingFills
    <3> QED BY <3>1, <3>3, <3>4
  <2>5. pending' = {j \in DOMAIN orders' : orders'[j].left > 0}
    <3>1. pending = {j \in DOMAIN orders : orders[j].left > 0}
      BY DEF PositionIsItsFills
    <3>2. orders[i] \in Orders /\ n \in 1..orders[i].left
      BY <1>1, <2>1, <2>2, OrderType DEF FillOrder
    <3>3. orders[i].left \in Nat
      BY <3>2 DEF Orders
    <3>4. /\ DOMAIN orders' = DOMAIN orders /\ orders'[i].left = orders[i].left - n
          /\ \A j \in DOMAIN orders \ {i} : orders'[j] = orders[j]
      BY <2>2 DEF Filled
    <3>5. IF n = orders[i].left THEN pending' = pending \ {i} ELSE pending' = pending
      BY <2>1 DEF FillOrder
    <3>6. CASE n = orders[i].left
      BY <2>2, <3>1, <3>2, <3>3, <3>4, <3>5, <3>6
    <3>7. CASE n # orders[i].left
      <4>1. orders'[i].left > 0 /\ orders[i].left > 0
        BY <3>2, <3>3, <3>4, <3>7
      <4> QED BY <2>2, <3>1, <3>4, <3>5, <3>7, <4>1
    <3> QED BY <3>6, <3>7
  <2> QED BY <2>4, <2>5 DEF PositionIsItsFills
<1>3. CASE \E o \in batch : Submit(o) /\ ~Repeated(KeyOf(o))
  <2>1. PICK o \in batch : Submit(o) /\ ~Repeated(KeyOf(o))
    BY <1>3
  <2>2. NewOrder(o)
    BY <1>1, <2>1, SubmitOrders DEF Submit, BarBegun
  <2>3. qty' = qty
    BY <2>1 DEF Submit, bookVars
  <2>4. \A t \in Tickers : qty'[t] = Total(FilledFor(t)')
    BY <2>2, <2>3, PlacingFills DEF PositionIsItsFills
  <2>5. pending' = {j \in DOMAIN orders' : orders'[j].left > 0}
    BY <2>2 DEF NewOrder, PositionIsItsFills
  <2> QED BY <2>4, <2>5 DEF PositionIsItsFills
<1>4. CASE UNCHANGED <<orders, pending, qty>>
  BY <1>4 DEF PositionIsItsFills, FilledFor
<1> QED
  BY <1>2, <1>3, <1>4, Zenon DEF Next, NextBar, MarkBar, SkipBar, NoteOrders, MarkLate, Finished,
     Decide, Submit, KeepOrder, Mark, vars, brokerVars, bookVars

(* process: what a ticker holds is what its orders filled, bought less sold,  *)
(* through partial fills, halts and reversals; and the queue is the orders    *)
(* with something left, so that a fill is delayed and never vanishes.         *)
THEOREM PositionsAreTheirFills == Spec => []PositionIsItsFills
<1>1. ASSUME Init PROVE PositionIsItsFills
  <2>1. orders = <<>> /\ pending = {} /\ \A t \in Tickers : qty[t] = 0
    BY <1>1 DEF Init, EmptyBook, Nothing
  <2>2. DOMAIN orders = {}
    BY <2>1
  <2>3. \A t \in Tickers : Total(FilledFor(t)) = 0
    BY <2>2, TotalEmpty DEF FilledFor
  <2> QED BY <2>1, <2>2, <2>3 DEF PositionIsItsFills
<1> QED BY <1>1, PositionsStep, TypeInvariant, PTL DEF Spec

=============================================================================
