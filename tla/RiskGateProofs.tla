--------------------------- MODULE RiskGateProofs ---------------------------
(* Theorems about RiskGate, for every set of tickers, every sectors, limits, *)
(* targets, equities and portfolios, and any number of sessions.             *)
EXTENDS RiskGate, FiniteSetTheorems, TLAPS

Weights == [Tickers -> Int]

-----------------------------------------------------------------------------
(* Sums and counts of positions *)

LEMMA MagnitudeType == ASSUME NEW x \in Int PROVE Magnitude(x) \in Nat
BY DEF Magnitude

LEMMA UnitsFinite ==
    ASSUME NEW w \in Weights, NEW S \in SUBSET Tickers
    PROVE  IsFiniteSet(Units(w, S)) /\ Gross(w, S) \in Nat
<1> DEFINE T == {{t} \X (1..Magnitude(w[t])) : t \in S}
           f == [t \in S |-> {t} \X (1..Magnitude(w[t]))]
<1>1. IsFiniteSet(S)
  BY RulesAssumption, FS_Subset
<1>2. f \in Surjection(S, T)
  BY DEF Surjection
<1>3. IsFiniteSet(T)
  BY <1>1, <1>2, FS_Surjection
<1>4. ASSUME NEW t \in S PROVE IsFiniteSet({t} \X (1..Magnitude(w[t])))
  <2>1. Magnitude(w[t]) \in Int
    BY MagnitudeType DEF Weights
  <2>2. IsFiniteSet(1..Magnitude(w[t]))
    BY <2>1, FS_Interval
  <2>3. IsFiniteSet({t})
    BY FS_Singleton
  <2> QED BY <2>2, <2>3, FS_Product
<1>5. IsFiniteSet(UNION T)
  BY <1>3, <1>4, FS_UNION
<1> QED BY <1>5, FS_CardinalityType DEF Units, Gross

\* A sum over a set and over the set without one of its elements.
LEMMA GrossSplit ==
    ASSUME NEW w \in Weights, NEW S \in SUBSET Tickers, NEW t \in S
    PROVE  Gross(w, S) = Gross(w, S \ {t}) + Magnitude(w[t])
<1> DEFINE A == Units(w, S \ {t})
           B == {t} \X (1..Magnitude(w[t]))
<1>1. Magnitude(w[t]) \in Nat
  BY MagnitudeType DEF Weights
<1>2. IsFiniteSet(A) /\ Cardinality(A) \in Nat
  BY UnitsFinite DEF Gross
<1>3. IsFiniteSet(B) /\ Cardinality(B) = 1 * Magnitude(w[t])
  <2>1. IsFiniteSet(1..Magnitude(w[t])) /\ Cardinality(1..Magnitude(w[t])) = Magnitude(w[t])
    BY <1>1, FS_Interval
  <2>2. IsFiniteSet({t}) /\ Cardinality({t}) = 1
    BY FS_Singleton
  <2>3. /\ IsFiniteSet({t} \X (1..Magnitude(w[t])))
        /\ Cardinality({t} \X (1..Magnitude(w[t])))
             = Cardinality({t}) * Cardinality(1..Magnitude(w[t]))
    BY <2>1, <2>2, FS_Product, Zenon
  <2> QED BY <2>1, <2>2, <2>3, Zenon
<1>4. Units(w, S) = A \cup B
  BY DEF Units
<1>5. A \cap B = {}
  BY DEF Units
<1> HIDE DEF A, B
<1>6. Cardinality(A \cup B) = Cardinality(A) + Cardinality(B) - 0
  <2>1. Cardinality(A \cup B) = Cardinality(A) + Cardinality(B) - Cardinality(A \cap B)
    BY <1>2, <1>3, FS_Union
  <2> QED BY <1>5, <2>1, FS_EmptySet
<1>7. Cardinality(A) = Gross(w, S \ {t}) /\ Cardinality(A \cup B) = Gross(w, S)
  BY <1>4 DEF Gross, A
<1> QED BY <1>1, <1>2, <1>3, <1>6, <1>7

LEMMA GrossSame ==
    ASSUME NEW w, NEW v, NEW S, \A t \in S : w[t] = v[t]
    PROVE  Gross(w, S) = Gross(v, S)
<1>1. Units(w, S) = Units(v, S)
  BY DEF Units
<1> QED BY <1>1 DEF Gross

\* One position of a sum changes: it shrinks, or takes what the cap leaves.
LEMMA GrossStep ==
    ASSUME NEW w \in Weights, NEW S \in SUBSET Tickers, NEW t \in Tickers, NEW x \in Int,
           NEW before \in Nat, NEW cap \in Int, Within(before, Gross(w, S), cap),
           t \in S => \/ Magnitude(x) <= Magnitude(w[t])
                      \/ Magnitude(x) <= NotBelowZero(cap - Gross(w, S \ {t}))
    PROVE  Within(before, Gross([w EXCEPT ![t] = x], S), cap)
<1> DEFINE v == [w EXCEPT ![t] = x]
<1>1. v \in Weights /\ v[t] = x /\ \A u \in Tickers \ {t} : v[u] = w[u]
  BY DEF Weights
<1> HIDE DEF v
<1>2. CASE t \notin S
  <2>1. Gross(v, S) = Gross(w, S)
    BY <1>1, <1>2, GrossSame
  <2> QED BY <2>1 DEF v
<1>3. CASE t \in S
  <2>1. Gross(w, S) = Gross(w, S \ {t}) + Magnitude(w[t])
    BY <1>3, GrossSplit
  <2>2. Gross(v, S) = Gross(v, S \ {t}) + Magnitude(x)
    BY <1>1, <1>3, GrossSplit
  <2>3. Gross(v, S \ {t}) = Gross(w, S \ {t})
    BY <1>1, GrossSame
  <2>4. Gross(w, S \ {t}) \in Nat /\ Magnitude(x) \in Nat /\ Magnitude(w[t]) \in Nat
    BY UnitsFinite, MagnitudeType DEF Weights
  <2>5. Within(before, Gross(v, S), cap)
    BY <1>3, <2>1, <2>2, <2>3, <2>4 DEF Within, NotBelowZero
  <2> QED BY <2>5 DEF v
<1> QED BY <1>2, <1>3

\* One position of a count changes: it opens only while there is a slot.
LEMMA CountStep ==
    ASSUME NEW w \in Weights, NEW S \in SUBSET Tickers, NEW t \in Tickers, NEW x \in Int,
           NEW before \in Nat, NEW cap \in Nat, Within(before, Cardinality(Open(w, S)), cap),
           t \in S => x = 0 \/ w[t] # 0 \/ Cardinality(Open(w, S)) < cap
    PROVE  Within(before, Cardinality(Open([w EXCEPT ![t] = x], S)), cap)
<1> DEFINE v == [w EXCEPT ![t] = x]
           o == Open(w, S)
           n == Open(v, S)
<1>1. v[t] = x /\ \A u \in Tickers \ {t} : v[u] = w[u]
  BY DEF Weights
<1>2. IsFiniteSet(o) /\ IsFiniteSet(n) /\ Cardinality(o) \in Nat /\ Cardinality(n) \in Nat
  BY RulesAssumption, FS_Subset, FS_CardinalityType DEF Open
<1>3. CASE n \subseteq o
  <2>1. Cardinality(n) <= Cardinality(o)
    BY <1>2, <1>3, FS_Subset
  <2> QED BY <1>2, <2>1 DEF Within
<1>4. CASE ~(n \subseteq o)
  <2>1. t \in S /\ x # 0 /\ w[t] = 0 /\ n = o \cup {t} /\ t \notin o
    BY <1>1, <1>4 DEF Open
  <2>2. Cardinality(n) = Cardinality(o) + 1
    <3> HIDE DEF o, n
    <3>1. Cardinality(o \cup {t}) = Cardinality(o) + 1
      BY <1>2, <2>1, FS_AddElement
    <3> QED BY <2>1, <3>1
  <2> QED BY <1>2, <2>1, <2>2 DEF Within
<1>5. Within(before, Cardinality(n), cap)
  BY <1>3, <1>4
<1> QED BY <1>5

-----------------------------------------------------------------------------
(* A verdict *)

LEMMA LimitTypes ==
    /\ Limits.max_position_pct \in Nat /\ Limits.max_position_notional \in Nat
    /\ Limits.max_positions \in Nat /\ Limits.max_sector_positions \in Nat
    /\ Limits.max_sector_pct \in Nat /\ Limits.max_gross_exposure \in Nat
    /\ Limits.max_orders_per_day \in Nat /\ Limits.cooldown_days \in Nat
BY RulesAssumption DEF RiskLimits

LEMMA ClipBounds ==
    ASSUME NEW allowed \in Int, NEW x \in Nat
    PROVE  /\ ClipTo(allowed, x) \in Nat
           /\ ClipTo(allowed, x) <= x /\ ClipTo(allowed, x) <= NotBelowZero(allowed)
BY DEF ClipTo, NotBelowZero

LEMMA ProductType == \A x, y \in Nat : x * y \in Nat
OBVIOUS

LEMMA RoomTypes ==
    ASSUME NEW t \in Tickers, NEW w \in Weights, NEW e \in Nat
    PROVE  GrossRoom(t, w, e) \in Int /\ SectorRoom(t, w, e) \in Int
<1>1. Gross(w, Tickers \ {t}) \in Nat /\ Gross(w, InSector(Sector[t]) \ {t}) \in Nat
  BY UnitsFinite DEF InSector
<1>2. Limits.max_gross_exposure * e \in Nat /\ Limits.max_sector_pct * e \in Nat
  BY LimitTypes, ProductType
<1> QED BY <1>1, <1>2 DEF GrossRoom, SectorRoom

\* What the clips leave fits what is left of the gross and of the sector.
LEMMA ClippedFits ==
    ASSUME NEW t \in Tickers, NEW target \in Int, NEW w \in Weights, NEW e \in Nat
    PROVE  LET x == Clipped(t, target, w, e)
           IN  /\ x \in Int
               /\ Magnitude(x) <= NotBelowZero(GrossRoom(t, w, e))
               /\ Sector[t] # NoSector => Magnitude(x) <= NotBelowZero(SectorRoom(t, w, e))
<1> DEFINE sized == Sized(Magnitude(target) * e, e)
           inSector == InItsSector(t, sized, w, e)
           most == ClipTo(GrossRoom(t, w, e), inSector)
<1>1. GrossRoom(t, w, e) \in Int /\ SectorRoom(t, w, e) \in Int
  BY RoomTypes
<1>2. sized \in Nat
  <2> DEFINE asked == Magnitude(target) * e
             most_pct == Limits.max_position_pct * e
  <2>1. asked \in Nat /\ most_pct \in Nat
    BY LimitTypes, MagnitudeType, ProductType
  <2>2. sized = ClipTo(Limits.max_position_notional, ClipTo(most_pct, asked))
    BY DEF Sized
  <2> HIDE DEF asked, most_pct, sized
  <2>3. ClipTo(most_pct, asked) \in Nat
    BY <2>1, ClipBounds
  <2>4. Limits.max_position_notional \in Int
    BY LimitTypes
  <2>5. ClipTo(Limits.max_position_notional, ClipTo(most_pct, asked)) \in Nat
    BY <2>3, <2>4, ClipBounds
  <2> QED BY <2>2, <2>5
<1> HIDE DEF sized
<1>3. inSector \in Nat /\ (Sector[t] # NoSector => inSector <= NotBelowZero(SectorRoom(t, w, e)))
  BY <1>1, <1>2, ClipBounds DEF InItsSector
<1> HIDE DEF inSector
<1>4. most \in Nat /\ most <= inSector /\ most <= NotBelowZero(GrossRoom(t, w, e))
  BY <1>1, <1>3, ClipBounds
<1>5. Clipped(t, target, w, e) = Sign(target) * most
  BY DEF Clipped, sized, inSector
<1> HIDE DEF most
<1>6. Clipped(t, target, w, e) \in Int /\ Magnitude(Clipped(t, target, w, e)) = most
  BY <1>4, <1>5 DEF Sign, Magnitude
<1>7. NotBelowZero(SectorRoom(t, w, e)) \in Int
  BY <1>1 DEF NotBelowZero
<1>8. Sector[t] # NoSector => most <= NotBelowZero(SectorRoom(t, w, e))
  BY <1>3, <1>4, <1>7
<1> QED BY <1>4, <1>6, <1>8

\* A verdict holds, lets an exit through, or approves what the rules leave.
Holds(v, t, w) == v.block /\ v.approved = w[t]
LetsExit(v, t, target, w, e) ==
    ~v.block /\ IsExit(target * e, w[t]) /\ v.approved = target * e
Approves(v, t, target, w, e, left, refused) ==
    /\ ~v.block /\ ~IsExit(target * e, w[t]) /\ ~refused /\ ~NoSlot(t, w)
    /\ v.approved = Clipped(t, target, w, e)
    /\ ~Unordered(t, target, v.approved, w, e, left)

LEMMA VerdictCases ==
    ASSUME NEW t \in Tickers, NEW target \in Int, NEW w \in Weights, NEW e \in Nat,
           NEW left, NEW kill \in BOOLEAN, NEW refused \in BOOLEAN
    PROVE  LET v == Verdict(t, target, w, e, left, kill, refused)
           IN  /\ v.block \in BOOLEAN /\ v.approved \in Int
               /\ \/ Holds(v, t, w) \/ LetsExit(v, t, target, w, e)
                  \/ Approves(v, t, target, w, e, left, refused)
<1> DEFINE x == Clipped(t, target, w, e)
           v == Verdict(t, target, w, e, left, kill, refused)
           exit == ~kill /\ IsExit(target * e, w[t])
           entry == /\ ~IsExit(target * e, w[t]) /\ ~kill /\ ~refused /\ ~NoSlot(t, w)
                    /\ ~Unordered(t, target, x, w, e, left)
<1>1. target * e \in Int /\ w[t] \in Int /\ x \in Int
  BY ClippedFits DEF Weights
<1>2. CASE exit
  <2>1. v = [block |-> FALSE, approved |-> target * e]
    BY <1>2 DEF Verdict
  <2> QED BY <1>1, <1>2, <2>1 DEF LetsExit
<1>3. CASE entry
  <2>1. v = [block |-> FALSE, approved |-> x]
    BY <1>3 DEF Verdict
  <2> QED BY <1>1, <1>3, <2>1 DEF Approves
<1>4. CASE ~exit /\ ~entry
  <2>1. v = [block |-> TRUE, approved |-> w[t]]
    BY <1>4 DEF Verdict
  <2> QED BY <1>1, <2>1 DEF Holds
<1> QED BY <1>2, <1>3, <1>4

\* An exit makes its position smaller.
LEMMA ExitShrinks ==
    ASSUME NEW x \in Int, NEW y \in Int, IsExit(x, y)
    PROVE  Magnitude(x) <= Magnitude(y) /\ (x = 0 \/ y # 0)
BY DEF IsExit, Magnitude

-----------------------------------------------------------------------------
(* Types *)

TypeInv == TypeOK /\ IsFiniteSet(orders)

LEMMA FiniteSent ==
    ASSUME TypeInv, NEW sent \in SUBSET orders
    PROVE  Cardinality(sent) \in Nat
BY FS_Subset, FS_CardinalityType DEF TypeInv

LEMMA JudgeOrders ==
    ASSUME TypeInv, NEW t \in Tickers, NEW target \in Targets, Judge(t, target)
    PROVE  LET v == Verdict(t, target, weights, equity, budget, killed, Refused(t))
               o == [ticker |-> t, delta |-> v.approved - portfolio[t],
                     entry |-> ~IsExit(target * equity, weights[t])]
           IN  /\ v.block \in BOOLEAN /\ v.approved \in Int
               /\ \/ Holds(v, t, weights) \/ LetsExit(v, t, target, weights, equity)
                  \/ Approves(v, t, target, weights, equity, budget, Refused(t))
               /\ orders' = orders \/ (o \in BuiltOrders /\ orders' = orders \cup {o})
<1> DEFINE v == Verdict(t, target, weights, equity, budget, killed, Refused(t))
           o == [ticker |-> t, delta |-> v.approved - portfolio[t],
                 entry |-> ~IsExit(target * equity, weights[t])]
<1>1. target \in Int /\ equity \in Nat /\ weights \in Weights /\ killed \in BOOLEAN
  BY GateAssumption DEF TypeInv, TypeOK, Weights
<1>2. Refused(t) \in BOOLEAN
  BY DEF Refused
<1>3. /\ v.block \in BOOLEAN /\ v.approved \in Int
      /\ \/ Holds(v, t, weights) \/ LetsExit(v, t, target, weights, equity)
         \/ Approves(v, t, target, weights, equity, budget, Refused(t))
  BY <1>1, <1>2, VerdictCases
<1>4. orders' = IF v.block \/ v.approved - portfolio[t] = 0 THEN orders ELSE orders \cup {o}
  BY DEF Judge
<1> HIDE DEF v
<1>5. CASE v.block \/ v.approved - portfolio[t] = 0
  BY <1>3, <1>4, <1>5 DEF v
<1>6. CASE ~(v.block \/ v.approved - portfolio[t] = 0)
  <2>1. portfolio[t] \in Int
    BY DEF TypeInv, TypeOK
  <2>2. o.entry \in BOOLEAN
    BY DEF IsExit
  <2>3. o \in BuiltOrders
    BY <1>3, <1>6, <2>1, <2>2 DEF BuiltOrders
  <2> QED BY <1>3, <1>4, <1>6, <2>3 DEF v
<1> QED BY <1>5, <1>6

LEMMA RollTypes ==
    ASSUME TypeInv, NEW e \in Equities, RollDay(e)
    PROVE  /\ day' \in Days /\ orders_today' \in Nat /\ day_start_equity' \in Equities \cup {0}
           /\ exited' \in [Tickers -> Days] /\ Rolled \in {"clear", "daily_loss", "manual"}
BY GateAssumption DEF TypeInv, TypeOK, RollDay, Rolled, ReArmed, Kept, Days

LEMMA NothingTypes ==
    /\ 0 \in Days /\ 1 \in 1..Sessions /\ Never \in [Tickers -> Days] /\ Never \in [Tickers -> Int]
    /\ 0 \in 0..MaxRestarts /\ {} \subseteq Tickers /\ {} \subseteq BuiltOrders /\ IsFiniteSet({})
BY GateAssumption, FS_EmptySet DEF Never, Days

LEMMA TypeStep == ASSUME TypeInv, Next PROVE TypeInv'
<1> USE DEF TypeInv, TypeOK
<1>1. ASSUME NEW e \in Equities, RollOnly(e) PROVE TypeInv'
  BY <1>1, RollTypes DEF RollOnly, batchVars
<1>2. ASSUME NEW e \in Equities, NEW p \in Portfolios, NEW kill \in BOOLEAN, Evaluate(e, p, kill)
      PROVE  TypeInv'
  <2>1. budget' \in Nat
    <3>1. orders_today' \in Nat
      BY <1>2, RollTypes DEF Evaluate
    <3> QED BY <1>2, <3>1, LimitTypes DEF Evaluate, NotBelowZero
  <2>2. IsFiniteSet(orders')
    BY <1>2, FS_EmptySet DEF Evaluate
  <2>3. /\ day' \in Days /\ orders_today' \in Nat /\ day_start_equity' \in Equities \cup {0}
        /\ exited' \in [Tickers -> Days] /\ Rolled \in {"clear", "daily_loss", "manual"}
    BY <1>2, RollTypes DEF Evaluate
  <2>4. lossSeen' \in BOOLEAN
    BY <1>2 DEF Evaluate, LossLimit
  <2> QED BY <1>2, <2>1, <2>2, <2>3, <2>4, GateAssumption DEF Evaluate
<1>3. ASSUME NEW t \in Tickers, NEW target \in Targets, Judge(t, target) PROVE TypeInv'
  <2> DEFINE v == Verdict(t, target, weights, equity, budget, killed, Refused(t))
  <2>1. v.approved \in Int
    BY <1>3, JudgeOrders
  <2>2. weights' = [weights EXCEPT ![t] = v.approved]
    BY <1>3 DEF Judge, Seen
  <2>3. weights' \in [Tickers -> Int]
    BY <2>1, <2>2
  <2>4. budget' \in Nat
    BY <1>3 DEF Judge, Spent, NotBelowZero
  <2>5. orders' \subseteq BuiltOrders
    BY <1>3, JudgeOrders
  <2>6. IsFiniteSet(orders')
    <3>1. orders' = orders \/ \E o \in BuiltOrders : orders' = orders \cup {o}
      BY <1>3, JudgeOrders
    <3> QED BY <3>1, FS_AddElement
  <2> QED BY <1>3, <2>3, <2>4, <2>5, <2>6 DEF Judge, stateVars, historyVars
<1>4. ASSUME NEW sent \in SUBSET orders, NoteOrders(sent) PROVE TypeInv'
  <2> DEFINE entered == {o \in sent : o.entry}
  <2>1. Cardinality(sent) \in Nat /\ Cardinality(entered) \in Nat
    BY FiniteSent
  <2> HIDE DEF entered
  <2>2. orders_today' \in Nat /\ entries' \in Nat
    BY <1>4, <2>1 DEF NoteOrders, Charged, entered
  <2>3. exited' \in [Tickers -> Days] /\ sold' \in [Tickers -> Days]
    BY <1>4 DEF NoteOrders, Days
  <2> QED BY <1>4, <2>2, <2>3, NothingTypes DEF NoteOrders
<1>5. CASE NextSession
  <2>1. session' \in 1..Sessions
    BY <1>5, GateAssumption DEF NextSession
  <2> QED BY <1>5, <2>1 DEF NextSession, stateVars, batchVars
<1>6. CASE Trip
  BY <1>6 DEF Trip, batchVars
<1>7. CASE Reset
  BY <1>7, NothingTypes DEF Reset, FreshState, batchVars
<1>8. CASE Restart
  <2>1. restarts' \in 0..MaxRestarts
    BY <1>8, GateAssumption DEF Restart
  <2> QED BY <1>8, <2>1, NothingTypes DEF Restart, FreshState
<1> QED BY <1>1, <1>2, <1>3, <1>4, <1>5, <1>6, <1>7, <1>8 DEF Next

THEOREM TypeInvariant == Spec => []TypeInv
<1>1. Init => TypeInv
  <2>1. Init => TypeOK
    <3>1. Init => killed \in BOOLEAN /\ lossSeen \in BOOLEAN /\ halted \in BOOLEAN
      BY DEF Init
    <3>2. Init => session \in 1..Sessions /\ restarts \in 0..MaxRestarts
      BY NothingTypes DEF Init
    <3> QED BY <3>1, <3>2, NothingTypes DEF Init, TypeOK
  <2>2. Init => IsFiniteSet(orders)
    BY NothingTypes DEF Init
  <2> QED BY <2>1, <2>2 DEF TypeInv
<1>2. TypeInv /\ [Next]_vars => TypeInv'
  <2>1. ASSUME TypeInv, UNCHANGED vars PROVE TypeInv'
    BY <2>1 DEF TypeInv, TypeOK, vars, stateVars, batchVars, historyVars
  <2> QED BY <2>1, TypeStep
<1> QED BY <1>1, <1>2, PTL DEF Spec

(* Every variable keeps its type; the budget of a batch never goes below      *)
(* nothing (max(budget - 1, 0) in evaluate), however many exits spend it.     *)
THEOREM GateTypeCorrect == Spec => []TypeOK
BY TypeInvariant, PTL DEF TypeInv

-----------------------------------------------------------------------------
(* A batch *)

\* The weights are those the bar found, but for the orders built so far.
BatchInv ==
    /\ pc = "bar" => orders = {} /\ weights = portfolio
    /\ \A t \in Tickers \ judged : weights[t] = portfolio[t]
    /\ \A o \in orders : o.ticker \in judged /\ weights[o.ticker] = portfolio[o.ticker] + o.delta
    /\ \A t \in Tickers : weights[t] = portfolio[t] \/ Built(t) # {}

\* What judging an intent comes to: nothing, an exit or an entry.
OrderOf(t, x, e) == [ticker |-> t, delta |-> x - portfolio[t], entry |-> e]

Stays(t, x) == x = weights[t] /\ orders' = orders /\ budget' = budget

Exits(t, x) ==
    /\ Magnitude(x) <= Magnitude(weights[t]) /\ (x = 0 \/ weights[t] # 0)
    /\ orders' = orders \cup {OrderOf(t, x, FALSE)} /\ budget' = NotBelowZero(budget - 1)

Enters(t, x) ==
    /\ ~Refused(t) /\ ~NoSlot(t, weights)
    /\ Magnitude(x) <= NotBelowZero(GrossRoom(t, weights, equity))
    /\ Sector[t] # NoSector => Magnitude(x) <= NotBelowZero(SectorRoom(t, weights, equity))
    /\ orders' = orders \cup {OrderOf(t, x, TRUE)} /\ budget # 0 /\ budget' = budget - 1

LEMMA JudgeEffect ==
    ASSUME TypeInv, BatchInv, NEW t \in Tickers, NEW target \in Targets, Judge(t, target)
    PROVE  \E x \in Int : /\ weights' = [weights EXCEPT ![t] = x]
                          /\ Stays(t, x) \/ Exits(t, x) \/ Enters(t, x)
<1> DEFINE v == Verdict(t, target, weights, equity, budget, killed, Refused(t))
           x == v.approved
           exit == IsExit(target * equity, weights[t])
<1>1. /\ target * equity \in Int /\ weights[t] \in Int /\ budget \in Nat
      /\ target \in Int /\ equity \in Nat /\ weights \in Weights
  BY GateAssumption DEF TypeInv, TypeOK, Weights
<1>2. /\ x \in Int
      /\ \/ Holds(v, t, weights) \/ LetsExit(v, t, target, weights, equity)
         \/ Approves(v, t, target, weights, equity, budget, Refused(t))
  BY JudgeOrders
<1>3. t \notin judged /\ portfolio[t] = weights[t]
  BY DEF Judge, BatchInv
<1>4. weights' = [weights EXCEPT ![t] = x]
  BY DEF Judge, Seen
<1>5. orders' = IF v.block \/ x - portfolio[t] = 0 THEN orders ELSE orders \cup {OrderOf(t, x, ~exit)}
  BY DEF Judge, OrderOf
<1>6. budget' = IF ~v.block /\ x # weights[t] THEN NotBelowZero(budget - 1) ELSE budget
  BY DEF Judge, Spent
<1>7. CASE x = weights[t]
  <2>1. Stays(t, x)
    BY <1>2, <1>3, <1>5, <1>6, <1>7 DEF Stays
  <2> QED BY <1>2, <1>4, <2>1
<1>8. CASE x # weights[t] /\ LetsExit(v, t, target, weights, equity)
  <2>1. ~v.block /\ exit /\ x = target * equity
    BY <1>8 DEF LetsExit
  <2>2. orders' = orders \cup {OrderOf(t, x, FALSE)}
    <3>1. (~exit) = FALSE /\ x - portfolio[t] # 0
      BY <1>1, <1>2, <1>3, <1>8, <2>1
    <3> QED BY <1>5, <2>1, <3>1
  <2>3. Magnitude(x) <= Magnitude(weights[t]) /\ (x = 0 \/ weights[t] # 0)
    BY <1>1, <1>2, <2>1, ExitShrinks
  <2>4. Exits(t, x)
    BY <1>6, <1>8, <2>1, <2>2, <2>3 DEF Exits
  <2> QED BY <1>2, <1>4, <2>4
<1>9. CASE x # weights[t] /\ Approves(v, t, target, weights, equity, budget, Refused(t))
  <2>1. /\ ~v.block /\ ~exit /\ ~Refused(t) /\ ~NoSlot(t, weights)
        /\ x = Clipped(t, target, weights, equity)
        /\ ~Unordered(t, target, x, weights, equity, budget)
    BY <1>9 DEF Approves
  <2>2. orders' = orders \cup {OrderOf(t, x, TRUE)}
    <3>1. (~exit) = TRUE
      BY <2>1
    <3>2. x - portfolio[t] # 0
      BY <1>1, <1>2, <1>3, <1>9
    <3> QED BY <1>5, <2>1, <3>1, <3>2
  <2>3. budget # 0
    <3>1. Magnitude(x - weights[t]) > 0
      BY <1>1, <1>2, <1>9 DEF Magnitude
    <3> QED BY <2>1, <3>1 DEF Unordered
  <2>4. budget' = budget - 1
    BY <1>1, <1>6, <1>9, <2>1, <2>3 DEF NotBelowZero
  <2>5. /\ Magnitude(x) <= NotBelowZero(GrossRoom(t, weights, equity))
        /\ Sector[t] # NoSector => Magnitude(x) <= NotBelowZero(SectorRoom(t, weights, equity))
    BY <1>1, <2>1, ClippedFits
  <2>6. Enters(t, x)
    BY <2>1, <2>2, <2>3, <2>4, <2>5 DEF Enters
  <2> QED BY <1>2, <1>4, <2>6
<1>10. CASE x # weights[t] /\ Holds(v, t, weights)
  BY <1>10 DEF Holds
<1> QED BY <1>2, <1>7, <1>8, <1>9, <1>10

LEMMA BatchStep == ASSUME TypeInv, BatchInv, [Next]_vars PROVE BatchInv'
<1>1. CASE UNCHANGED <<batchVars, pc>>
  BY <1>1 DEF batchVars, BatchInv, Built
<1>2. ASSUME NEW e \in Equities, NEW p \in Portfolios, NEW kill \in BOOLEAN, Evaluate(e, p, kill)
      PROVE  BatchInv'
  BY <1>2 DEF Evaluate, BatchInv
<1>3. ASSUME NEW t \in Tickers, NEW target \in Targets, Judge(t, target) PROVE BatchInv'
  <2>1. PICK x \in Int : /\ weights' = [weights EXCEPT ![t] = x]
                         /\ Stays(t, x) \/ Exits(t, x) \/ Enters(t, x)
    BY <1>3, JudgeEffect
  <2>2. /\ pc' = "judge" /\ judged' = judged \cup {t} /\ portfolio' = portfolio
        /\ t \notin judged
    BY <1>3 DEF Judge
  <2>3. weights'[t] = x /\ \A u \in Tickers \ {t} : weights'[u] = weights[u]
    BY <2>1 DEF TypeInv, TypeOK
  <2>4. \A o \in orders : o.ticker \in Tickers /\ o.ticker # t
    BY <2>2 DEF TypeInv, TypeOK, BuiltOrders, BatchInv
  <2>5. \A u \in Tickers \ judged' : weights'[u] = portfolio'[u]
    BY <2>2, <2>3 DEF BatchInv
  <2>6. CASE Stays(t, x)
    BY <2>2, <2>3, <2>4, <2>5, <2>6 DEF Stays, BatchInv, Built
  <2>7. ASSUME NEW e \in BOOLEAN, orders' = orders \cup {OrderOf(t, x, e)} PROVE BatchInv'
    <3> DEFINE n == OrderOf(t, x, e)
    <3>1. n.ticker = t /\ n.delta = x - portfolio[t] /\ portfolio[t] \in Int
      BY DEF OrderOf, TypeInv, TypeOK
    <3>2. x = portfolio[t] + (x - portfolio[t])
      BY <3>1
    <3> HIDE DEF n
    <3>3. \A o \in orders' : /\ o.ticker \in judged'
                             /\ weights'[o.ticker] = portfolio'[o.ticker] + o.delta
      BY <2>2, <2>3, <2>4, <2>7, <3>1, <3>2 DEF BatchInv, n
    <3>4. \A u \in Tickers : weights'[u] = portfolio'[u] \/ \E o \in orders' : o.ticker = u
      BY <2>2, <2>3, <2>7, <3>1 DEF BatchInv, Built, n
    <3> QED BY <2>2, <2>5, <3>3, <3>4 DEF BatchInv, Built
  <2> QED BY <2>1, <2>6, <2>7 DEF Exits, Enters
<1>4. ASSUME NEW sent \in SUBSET orders, NoteOrders(sent) PROVE BatchInv'
  BY <1>4 DEF NoteOrders, BatchInv
<1>5. CASE Restart
  BY <1>5 DEF Restart, BatchInv
<1>6. CASE NextSession \/ Trip \/ Reset \/ \E e \in Equities : RollOnly(e)
  BY <1>1, <1>6 DEF NextSession, Trip, Reset, RollOnly
<1> QED BY <1>1, <1>2, <1>3, <1>4, <1>5, <1>6 DEF Next, vars

LEMMA BatchInvariant == Spec => []BatchInv
<1>1. Init => BatchInv
  BY DEF Init, BatchInv
<1> QED BY <1>1, BatchStep, TypeInvariant, PTL DEF Spec

\* The portfolio after the orders is the weights the rules went by.
LEMMA AfterIsWeights == ASSUME TypeInv, BatchInv PROVE After = weights
<1>1. ASSUME NEW t \in Tickers, Built(t) # {}
      PROVE  portfolio[t] + (CHOOSE o \in Built(t) : TRUE).delta = weights[t]
  <2>1. (CHOOSE o \in Built(t) : TRUE) \in Built(t)
    BY <1>1
  <2> QED BY <2>1 DEF Built, BatchInv
<1> QED BY <1>1 DEF After, BatchInv, TypeInv, TypeOK

-----------------------------------------------------------------------------
(* The caps on a batch *)

ExposureKept ==
    /\ Within(Gross(portfolio, Tickers), Gross(weights, Tickers),
              Limits.max_gross_exposure * equity)
    /\ \A s \in Sectors : Within(Gross(portfolio, InSector(s)), Gross(weights, InSector(s)),
                                 Limits.max_sector_pct * equity)

PositionsKept ==
    /\ Within(Cardinality(Open(portfolio, Tickers)), Cardinality(Open(weights, Tickers)),
              Limits.max_positions)
    /\ \A s \in Sectors : Within(Cardinality(Open(portfolio, InSector(s))),
                                 Cardinality(Open(weights, InSector(s))),
                                 Limits.max_sector_positions)

LEMMA CountType ==
    ASSUME NEW w \in Weights, NEW S \in SUBSET Tickers
    PROVE  Cardinality(Open(w, S)) \in Nat
BY RulesAssumption, FS_Subset, FS_CardinalityType DEF Open

LEMMA CapTypes ==
    ASSUME TypeInv
    PROVE  /\ Limits.max_gross_exposure * equity \in Nat /\ Limits.max_sector_pct * equity \in Nat
           /\ weights \in Weights /\ portfolio \in Weights /\ equity \in Nat
<1>1. weights \in Weights /\ portfolio \in Weights /\ equity \in Nat
  BY GateAssumption DEF TypeInv, TypeOK, Weights
<1> QED BY <1>1, LimitTypes, ProductType

\* A batch that has come to nothing yet is within every cap.
LEMMA WithinItself ==
    ASSUME NEW w \in Weights, NEW S \in SUBSET Tickers, NEW cap
    PROVE  /\ Within(Gross(w, S), Gross(w, S), cap)
           /\ Within(Cardinality(Open(w, S)), Cardinality(Open(w, S)), cap)
BY UnitsFinite, CountType DEF Within

LEMMA JudgeExposure ==
    ASSUME TypeInv, ExposureKept, NEW t \in Tickers, NEW x \in Int,
           Stays(t, x) \/ Exits(t, x) \/ Enters(t, x),
           weights' = [weights EXCEPT ![t] = x], portfolio' = portfolio, equity' = equity
    PROVE  ExposureKept'
<1>1. Magnitude(x) <= Magnitude(weights[t])
        \/ /\ Magnitude(x) <= NotBelowZero(GrossRoom(t, weights, equity))
           /\ Sector[t] # NoSector => Magnitude(x) <= NotBelowZero(SectorRoom(t, weights, equity))
  <2>1. Magnitude(weights[t]) \in Nat
    BY CapTypes, MagnitudeType DEF Weights
  <2>2. ASSUME Stays(t, x) PROVE Magnitude(x) <= Magnitude(weights[t])
    BY <2>1, <2>2 DEF Stays
  <2> QED BY <2>2 DEF Exits, Enters
<1>2. Within(Gross(portfolio, Tickers), Gross(weights', Tickers), Limits.max_gross_exposure * equity)
  <2> DEFINE cap == Limits.max_gross_exposure * equity
             before == Gross(portfolio, Tickers)
  <2>1. cap \in Int /\ before \in Nat /\ weights \in Weights
    BY CapTypes, UnitsFinite
  <2>2. Within(before, Gross(weights, Tickers), cap)
    BY DEF ExposureKept
  <2>3. GrossRoom(t, weights, equity) = cap - Gross(weights, Tickers \ {t})
    BY DEF GrossRoom
  <2> HIDE DEF cap, before
  <2>4. Within(before, Gross([weights EXCEPT ![t] = x], Tickers), cap)
    BY <1>1, <2>1, <2>2, <2>3, GrossStep
  <2> QED BY <2>4 DEF cap, before
<1>3. ASSUME NEW s \in Sectors
      PROVE  Within(Gross(portfolio, InSector(s)), Gross(weights', InSector(s)),
                    Limits.max_sector_pct * equity)
  <2> DEFINE cap == Limits.max_sector_pct * equity
             S == InSector(s)
             before == Gross(portfolio, S)
  <2>0. S \in SUBSET Tickers
    BY DEF InSector
  <2>1. cap \in Int /\ before \in Nat /\ weights \in Weights
    BY <2>0, CapTypes, UnitsFinite
  <2>2. Within(before, Gross(weights, S), cap)
    BY <1>3 DEF ExposureKept
  <2>3. t \in S => Sector[t] # NoSector /\ SectorRoom(t, weights, equity) = cap - Gross(weights, S \ {t})
    BY <1>3 DEF SectorRoom, InSector, Sectors
  <2> HIDE DEF cap, before, S
  <2>4. Within(before, Gross([weights EXCEPT ![t] = x], S), cap)
    BY <1>1, <2>0, <2>1, <2>2, <2>3, GrossStep
  <2> QED BY <2>4 DEF cap, before, S
<1> QED BY <1>2, <1>3 DEF ExposureKept

LEMMA JudgePositions ==
    ASSUME TypeInv, PositionsKept, NEW t \in Tickers, NEW x \in Int,
           Stays(t, x) \/ Exits(t, x) \/ Enters(t, x),
           weights' = [weights EXCEPT ![t] = x], portfolio' = portfolio
    PROVE  PositionsKept'
<1>1. x = 0 \/ weights[t] # 0 \/ ~NoSlot(t, weights)
  BY DEF Stays, Exits, Enters
<1>2. /\ Cardinality(Open(weights, Tickers)) \in Nat
      /\ Cardinality(Peers(t, weights)) \in Nat
      /\ weights \in Weights
  BY CapTypes, CountType DEF Peers, InSector
<1>3. x = 0 \/ weights[t] # 0 \/ Cardinality(Open(weights, Tickers)) < Limits.max_positions
  BY <1>1, <1>2, LimitTypes DEF NoSlot
<1>4. Within(Cardinality(Open(portfolio, Tickers)), Cardinality(Open(weights', Tickers)),
             Limits.max_positions)
  <2>1. Cardinality(Open(portfolio, Tickers)) \in Nat
    BY CapTypes, CountType
  <2> QED BY <1>2, <1>3, <2>1, LimitTypes, CountStep DEF PositionsKept
<1>5. ASSUME NEW s \in Sectors
      PROVE  Within(Cardinality(Open(portfolio, InSector(s))),
                    Cardinality(Open(weights', InSector(s))), Limits.max_sector_positions)
  <2>0. InSector(s) \in SUBSET Tickers
    BY DEF InSector
  <2>1. Cardinality(Open(portfolio, InSector(s))) \in Nat
    BY <2>0, CapTypes, CountType
  <2>2. ASSUME t \in InSector(s), weights[t] = 0
        PROVE  Sector[t] # NoSector /\ Peers(t, weights) = Open(weights, InSector(s))
    BY <1>5, <2>2 DEF Peers, Open, InSector, Sectors
  <2>3. t \in InSector(s) => \/ x = 0 \/ weights[t] # 0
                             \/ Cardinality(Open(weights, InSector(s))) < Limits.max_sector_positions
    BY <1>1, <1>2, <2>2, LimitTypes DEF NoSlot
  <2>4. Within(Cardinality(Open(portfolio, InSector(s))),
               Cardinality(Open(weights, InSector(s))), Limits.max_sector_positions)
    BY <1>5 DEF PositionsKept
  <2> QED BY <1>2, <2>0, <2>1, <2>3, <2>4, LimitTypes, CountStep
<1> QED BY <1>4, <1>5 DEF PositionsKept

LEMMA CapsStep ==
    ASSUME TypeInv, BatchInv, TypeInv', ExposureKept, PositionsKept, [Next]_vars
    PROVE  ExposureKept' /\ PositionsKept'
<1>1. CASE UNCHANGED batchVars
  BY <1>1 DEF batchVars, ExposureKept, PositionsKept
<1>2. CASE weights' = portfolio'
  <2>1. weights' \in Weights
    BY DEF TypeInv, TypeOK, Weights
  <2>2. \A s \in Sectors : InSector(s) \in SUBSET Tickers
    BY DEF InSector
  <2> QED BY <1>2, <2>1, <2>2, WithinItself DEF ExposureKept, PositionsKept
<1>3. ASSUME NEW t \in Tickers, NEW target \in Targets, Judge(t, target)
      PROVE  ExposureKept' /\ PositionsKept'
  <2>1. PICK x \in Int : /\ weights' = [weights EXCEPT ![t] = x]
                         /\ Stays(t, x) \/ Exits(t, x) \/ Enters(t, x)
    BY <1>3, JudgeEffect
  <2>2. portfolio' = portfolio /\ equity' = equity
    BY <1>3 DEF Judge
  <2> QED BY <2>1, <2>2, JudgeExposure, JudgePositions
<1>4. CASE NextSession \/ Trip \/ Reset \/ \E e \in Equities : RollOnly(e)
  BY <1>1, <1>4 DEF NextSession, Trip, Reset, RollOnly
<1>5. CASE \E e \in Equities, p \in Portfolios, kill \in BOOLEAN : Evaluate(e, p, kill)
  BY <1>2, <1>5 DEF Evaluate
<1>6. CASE Restart \/ \E sent \in SUBSET orders : NoteOrders(sent)
  BY <1>2, <1>6 DEF Restart, NoteOrders
<1> QED BY <1>1, <1>3, <1>4, <1>5, <1>6 DEF Next, vars

LEMMA CapsInvariant == Spec => [](ExposureKept /\ PositionsKept)
<1>1. TypeInv /\ Init => ExposureKept /\ PositionsKept
  <2> SUFFICES ASSUME TypeInv, Init PROVE ExposureKept /\ PositionsKept
    OBVIOUS
  <2>1. weights \in Weights /\ weights = portfolio
    BY CapTypes DEF Init
  <2>2. \A s \in Sectors : InSector(s) \in SUBSET Tickers
    BY DEF InSector
  <2> QED BY <2>1, <2>2, WithinItself DEF ExposureKept, PositionsKept
<1> QED BY <1>1, CapsStep, TypeInvariant, BatchInvariant, PTL DEF Spec

(* The portfolio-level caps of evaluate hold for the whole batch: gross and   *)
(* sector exposure after the orders are within the limit or no more than they *)
(* were, whatever is asked for and in whatever order.                         *)
THEOREM BatchExposureCapped == Spec => []ExposureWithinCaps
<1>1. TypeInv /\ BatchInv /\ ExposureKept => ExposureWithinCaps
  BY AfterIsWeights DEF ExposureKept, ExposureWithinCaps
<1> QED BY <1>1, TypeInvariant, BatchInvariant, CapsInvariant, PTL

(* So do max_positions and max_sector_positions.                              *)
THEOREM BatchPositionsCapped == Spec => []PositionsWithinCaps
<1>1. TypeInv /\ BatchInv /\ PositionsKept => PositionsWithinCaps
  BY AfterIsWeights DEF PositionsKept, PositionsWithinCaps
<1> QED BY <1>1, TypeInvariant, BatchInvariant, CapsInvariant, PTL

(* All the caps of evaluate at once.                                          *)
THEOREM BatchCapped == Spec => []WithinCaps
<1>1. ExposureWithinCaps /\ PositionsWithinCaps => WithinCaps
  BY DEF WithinCaps
<1> QED BY <1>1, BatchExposureCapped, BatchPositionsCapped, PTL

-----------------------------------------------------------------------------
(* The order budget, of a gate that outlives its sessions *)

Entered == {o \in orders : o.entry}

\* What is left of the budget is what the batch may still spend on entries.
BudgetInv ==
    /\ day # session => entries = 0
    /\ day = 0 => orders_today = 0
    /\ day = session => entries <= orders_today
    /\ entries <= Limits.max_orders_per_day
    /\ pc = "judge" => day = session
    /\ pc = "judge" => Cardinality(Entered) + budget
                         <= NotBelowZero(Limits.max_orders_per_day - orders_today)

LEMMA NotRestarted ==
    ASSUME TypeInv, [Next]_vars, SameGate'
    PROVE  SameGate /\ ~Restart
<1>1. ~Restart
  BY DEF TypeInv, TypeOK, Restart, SameGate
<1>2. restarts' = restarts
  BY <1>1 DEF Next, RollOnly, Evaluate, Judge, NoteOrders, NextSession, Trip, Reset, vars
<1> QED BY <1>1, <1>2 DEF SameGate

LEMMA RollBudget ==
    ASSUME TypeInv, BudgetInv, NEW e \in Equities, RollDay(e)
    PROVE  day' = session /\ orders_today' \in Nat /\ entries <= orders_today'
<1>1. orders_today' \in Nat
  BY RollTypes
<1> QED BY <1>1 DEF RollDay, BudgetInv, TypeInv, TypeOK

LEMMA JudgeBudget ==
    ASSUME TypeInv, BatchInv, BudgetInv, NEW t \in Tickers, NEW target \in Targets, Judge(t, target)
    PROVE  Cardinality(Entered') + budget' <= NotBelowZero(Limits.max_orders_per_day - orders_today)
<1>1. PICK x \in Int : Stays(t, x) \/ Exits(t, x) \/ Enters(t, x)
  BY JudgeEffect
<1>2. Cardinality(Entered) \in Nat /\ IsFiniteSet(Entered) /\ budget \in Nat
  BY FS_Subset, FS_CardinalityType DEF TypeInv, TypeOK, Entered
<1>3. Cardinality(Entered) + budget <= NotBelowZero(Limits.max_orders_per_day - orders_today)
  BY DEF Judge, BudgetInv
<1>4. NotBelowZero(Limits.max_orders_per_day - orders_today) \in Nat
  BY LimitTypes DEF NotBelowZero, TypeInv, TypeOK
<1>5. CASE Stays(t, x)
  <2>1. Entered' = Entered /\ budget' = budget
    BY <1>5 DEF Stays, Entered
  <2> QED BY <1>3, <2>1
<1>6. CASE Exits(t, x)
  <2>1. Entered' = Entered
    BY <1>6 DEF Exits, Entered, OrderOf
  <2>2. budget' \in Nat /\ budget' <= budget
    BY <1>2, <1>6 DEF Exits, NotBelowZero
  <2> QED BY <1>2, <1>3, <1>4, <2>1, <2>2
<1>7. CASE Enters(t, x)
  <2>1. Entered' = Entered \cup {OrderOf(t, x, TRUE)}
    BY <1>7 DEF Enters, Entered, OrderOf
  <2>2. /\ Cardinality(Entered') \in Nat
        /\ Cardinality(Entered') = Cardinality(Entered) \/ Cardinality(Entered') = Cardinality(Entered) + 1
    <3>1. Cardinality(Entered') = IF OrderOf(t, x, TRUE) \in Entered THEN Cardinality(Entered)
                                  ELSE Cardinality(Entered) + 1
      BY <1>2, <2>1, FS_AddElement
    <3>2. \/ Cardinality(Entered') = Cardinality(Entered)
          \/ Cardinality(Entered') = Cardinality(Entered) + 1
      BY <3>1, Zenon
    <3> QED BY <1>2, <3>2
  <2>3. budget' \in Nat /\ budget' = budget - 1
    BY <1>2, <1>7 DEF Enters
  <2> QED BY <1>2, <1>3, <1>4, <2>2, <2>3
<1> QED BY <1>1, <1>5, <1>6, <1>7

LEMMA SentBudget ==
    ASSUME TypeInv, BudgetInv, NEW sent \in SUBSET orders, NoteOrders(sent)
    PROVE  entries' <= orders_today' /\ entries' <= Limits.max_orders_per_day
<1> DEFINE entered == {o \in sent : o.entry}
<1>1. /\ Cardinality(sent) \in Nat /\ Cardinality(entered) \in Nat
      /\ Cardinality(Entered) \in Nat
  BY FiniteSent DEF Entered
<1>2. IsFiniteSet(sent) /\ IsFiniteSet(Entered)
  BY FS_Subset DEF TypeInv, Entered
<1>3. Cardinality(entered) <= Cardinality(sent)
  BY <1>2, FS_Subset
<1>4. Cardinality(entered) <= Cardinality(Entered)
  <2>1. entered \in SUBSET Entered
    BY DEF Entered
  <2> QED BY <1>2, <2>1, FS_Subset
<1>5. /\ entries' = entries + Cardinality(entered)
      /\ orders_today' = orders_today + Cardinality(sent)
  BY DEF NoteOrders, Charged
<1> HIDE DEF entered
<1>6. /\ entries <= orders_today /\ entries <= Limits.max_orders_per_day
      /\ Cardinality(Entered) + budget <= NotBelowZero(Limits.max_orders_per_day - orders_today)
  BY DEF NoteOrders, BudgetInv
<1>7. entries \in Nat /\ orders_today \in Nat /\ budget \in Nat
  BY DEF TypeInv, TypeOK
<1> QED BY <1>1, <1>3, <1>4, <1>5, <1>6, <1>7, LimitTypes DEF NotBelowZero

LEMMA BudgetStep ==
    ASSUME SameGate', TypeInv, BatchInv, BudgetInv, [Next]_vars
    PROVE  BudgetInv'
<1>1. CASE UNCHANGED vars
  BY <1>1 DEF vars, stateVars, batchVars, historyVars, BudgetInv, Entered
<1>2. ASSUME NEW e \in Equities, RollOnly(e) PROVE BudgetInv'
  <2>1. day' = session /\ orders_today' \in Nat /\ entries <= orders_today'
    BY <1>2, RollBudget DEF RollOnly
  <2>2. session' = session /\ session # 0 /\ pc' = "bar" /\ entries' = entries
    BY <1>2 DEF RollOnly, TypeInv, TypeOK
  <2> QED BY <2>1, <2>2 DEF BudgetInv
<1>3. ASSUME NEW e \in Equities, NEW p \in Portfolios, NEW kill \in BOOLEAN, Evaluate(e, p, kill)
      PROVE  BudgetInv'
  <2>1. day' = session /\ orders_today' \in Nat /\ entries <= orders_today'
    BY <1>3, RollBudget DEF Evaluate
  <2>2. session' = session /\ session # 0 /\ entries' = entries
    BY <1>3 DEF Evaluate, TypeInv, TypeOK
  <2>3. Cardinality(Entered') = 0
    <3>1. Entered' = {}
      BY <1>3 DEF Evaluate, Entered
    <3> QED BY <3>1, FS_EmptySet
  <2>4. /\ budget' = NotBelowZero(Limits.max_orders_per_day - orders_today')
        /\ NotBelowZero(Limits.max_orders_per_day - orders_today') \in Nat
    BY <1>3, <2>1, LimitTypes DEF Evaluate, NotBelowZero
  <2> QED BY <2>1, <2>2, <2>3, <2>4 DEF BudgetInv
<1>4. ASSUME NEW t \in Tickers, NEW target \in Targets, Judge(t, target) PROVE BudgetInv'
  <2>1. Cardinality(Entered') + budget' <= NotBelowZero(Limits.max_orders_per_day - orders_today)
    BY <1>4, JudgeBudget
  <2> QED BY <1>4, <2>1 DEF Judge, stateVars, historyVars, BudgetInv
<1>5. ASSUME NEW sent \in SUBSET orders, NoteOrders(sent) PROVE BudgetInv'
  <2>1. entries' <= orders_today' /\ entries' <= Limits.max_orders_per_day
    BY <1>5, SentBudget
  <2>2. day' = session' /\ day' # 0 /\ pc' = "bar"
    BY <1>5 DEF NoteOrders, BudgetInv, TypeInv, TypeOK
  <2> QED BY <2>1, <2>2 DEF BudgetInv
<1>6. CASE NextSession
  BY <1>6, LimitTypes DEF NextSession, stateVars, BudgetInv, TypeInv, TypeOK
<1>7. CASE Trip
  BY <1>7 DEF Trip, BudgetInv
<1>8. CASE Reset
  BY <1>8, LimitTypes DEF Reset, FreshState, BudgetInv
<1> QED BY <1>1, <1>2, <1>3, <1>4, <1>5, <1>6, <1>7, <1>8, NotRestarted DEF Next

(* max_orders_per_day: a gate that is not built anew never lets a session     *)
(* send more entries than its limit, in however many batches and with         *)
(* however many exits between them.                                           *)
THEOREM EntriesStayInBudget == Spec => []EntriesWithinBudget
<1>1. Init => (SameGate => BudgetInv)
  BY LimitTypes DEF Init, BudgetInv
<1>2. TypeInv /\ BatchInv /\ (SameGate => BudgetInv) /\ [Next]_vars => (SameGate => BudgetInv)'
  BY NotRestarted, BudgetStep
<1>3. (SameGate => BudgetInv) => EntriesWithinBudget
  BY DEF BudgetInv, EntriesWithinBudget
<1> QED BY <1>1, <1>2, <1>3, TypeInvariant, BatchInvariant, PTL DEF Spec

-----------------------------------------------------------------------------
(* The breaker and the cooldown *)

\* The gate and the history agree on the session, and a breaker that should
\* be tripped is.
BreakerInv ==
    /\ day <= session
    /\ day = session => day_start_equity = opening /\ opening # 0
    /\ day # session => opening = 0 /\ ~lossSeen
    /\ day = 0 => day_start_equity = 0
    /\ lossSeen => breaker # "clear"
    /\ halted => breaker = "manual"
    /\ pc = "judge" => day = session
    /\ pc = "bar" => orders = {}
    /\ \A o \in orders : o.entry => breaker = "clear"

LEMMA RollBreaker ==
    ASSUME TypeInv, BreakerInv, NEW e \in Equities, RollDay(e),
           opening' = IF opening = 0 THEN e ELSE opening
    PROVE  /\ day' = session /\ day_start_equity' = opening' /\ opening' # 0
           /\ lossSeen => Rolled # "clear"
           /\ halted => Rolled = "manual"
<1>1. e # 0
  BY GateAssumption
<1>2. lossSeen => Rolled # "clear"
  BY DEF Rolled, BreakerInv
<1>3. halted => Rolled = "manual"
  BY DEF Rolled, ReArmed, BreakerInv
<1>4. day' = session /\ day_start_equity' = opening' /\ opening' # 0
  BY <1>1 DEF RollDay, BreakerInv, TypeInv, TypeOK
<1> QED BY <1>2, <1>3, <1>4

LEMMA BreakerStep ==
    ASSUME TypeInv, BatchInv, BreakerInv, [Next]_vars
    PROVE  BreakerInv'
<1>1. CASE UNCHANGED vars
  BY <1>1 DEF vars, stateVars, batchVars, historyVars, BreakerInv
<1>2. ASSUME NEW e \in Equities, RollOnly(e) PROVE BreakerInv'
  <2>1. /\ day' = session /\ day_start_equity' = opening' /\ opening' # 0
        /\ lossSeen => Rolled # "clear"
        /\ halted => Rolled = "manual"
    BY <1>2, RollBreaker DEF RollOnly
  <2>2. session' = session /\ session \in Nat \ {0} /\ orders' = {}
    BY <1>2 DEF RollOnly, batchVars, BreakerInv, TypeInv, TypeOK
  <2> QED BY <1>2, <2>1, <2>2 DEF RollOnly, BreakerInv
<1>3. ASSUME NEW e \in Equities, NEW p \in Portfolios, NEW kill \in BOOLEAN, Evaluate(e, p, kill)
      PROVE  BreakerInv'
  <2>1. /\ day' = session /\ day_start_equity' = opening' /\ opening' # 0
        /\ lossSeen => Rolled # "clear"
        /\ halted => Rolled = "manual"
    BY <1>3, RollBreaker DEF Evaluate
  <2>2. /\ session' = session /\ session \in Nat \ {0}
        /\ orders' = {} /\ pc' = "judge" /\ halted' = halted
    BY <1>3 DEF Evaluate, TypeInv, TypeOK
  <2>3. halted' => breaker' = "manual"
    BY <1>3, <2>1, <2>2 DEF Evaluate
  <2>4. lossSeen' => breaker' # "clear"
    BY <1>3, <2>1 DEF Evaluate
  <2> QED BY <2>1, <2>2, <2>3, <2>4 DEF BreakerInv
<1>4. ASSUME NEW t \in Tickers, NEW target \in Targets, Judge(t, target) PROVE BreakerInv'
  <2>1. PICK x \in Int : Stays(t, x) \/ Exits(t, x) \/ Enters(t, x)
    BY <1>4, JudgeEffect
  <2>2. \A o \in orders' : o \in orders \/ (o.entry => breaker = "clear")
    BY <2>1 DEF Stays, Exits, Enters, OrderOf, Refused
  <2> QED BY <1>4, <2>2 DEF Judge, stateVars, historyVars, BreakerInv
<1>5. ASSUME NEW sent \in SUBSET orders, NoteOrders(sent) PROVE BreakerInv'
  BY <1>5 DEF NoteOrders, BreakerInv
<1>6. CASE NextSession
  <2>1. session' # day /\ day <= session'
    BY <1>6 DEF NextSession, BreakerInv, TypeInv, TypeOK, Days
  <2>2. orders' = {}
    BY <1>6 DEF NextSession, batchVars, BreakerInv
  <2> QED BY <1>6, <2>1, <2>2 DEF NextSession, stateVars, BreakerInv
<1>7. CASE Trip
  BY <1>7 DEF Trip, batchVars, BreakerInv
<1>8. CASE Reset
  BY <1>8 DEF Reset, FreshState, batchVars, BreakerInv, TypeInv, TypeOK
<1>9. CASE Restart
  BY <1>9 DEF Restart, FreshState, BreakerInv, TypeInv, TypeOK
<1> QED BY <1>1, <1>2, <1>3, <1>4, <1>5, <1>6, <1>7, <1>8, <1>9 DEF Next

(* A session at its loss limit stays without entries to its end, and a trip   *)
(* by a human until reset (roll_day re-arms the one and not the other).       *)
THEOREM BreakerStopsEntries == Spec => []BreakerHolds
<1>1. Init => BreakerInv
  BY DEF Init, BreakerInv
<1>2. TypeInv /\ BatchInv /\ BreakerInv /\ [Next]_vars => BreakerInv'
  BY BreakerStep
<1>3. BreakerInv => BreakerHolds
  BY DEF BreakerInv, BreakerHolds
<1> QED BY <1>1, <1>2, <1>3, TypeInvariant, BatchInvariant, PTL DEF Spec

\* A sale the gate has forgotten is one that no longer matters.
CooldownInv ==
    /\ \A t \in Tickers : sold[t] = exited[t] \/ ~Cooling(sold[t], session)
    /\ \A o \in orders : o.entry => ~Cooling(exited[o.ticker], session)

LEMMA RollCooldown ==
    ASSUME TypeInv, CooldownInv, NEW e \in Equities, RollDay(e), NEW t \in Tickers
    PROVE  sold[t] = exited'[t] \/ ~Cooling(sold[t], session)
<1>1. /\ sold[t] \in Nat /\ exited[t] \in Nat /\ session \in Nat
      /\ sold[t] = exited[t] \/ ~Cooling(sold[t], session)
  BY DEF TypeInv, TypeOK, Days, CooldownInv
<1>2. exited'[t] = exited[t]
        \/ (exited'[t] = 0 /\ ~(session - exited[t] <= Limits.cooldown_days))
  BY DEF RollDay, Kept
<1> QED BY <1>1, <1>2, LimitTypes DEF Cooling

LEMMA CooldownStep ==
    ASSUME TypeInv, BatchInv, CooldownInv, [Next]_vars
    PROVE  CooldownInv'
<1>1. CASE UNCHANGED vars
  BY <1>1 DEF vars, stateVars, batchVars, historyVars, CooldownInv
<1>2. ASSUME NEW e \in Equities, RollOnly(e) PROVE CooldownInv'
  <2>1. orders' = {} /\ sold' = sold /\ session' = session
    BY <1>2 DEF RollOnly, batchVars, BatchInv
  <2>2. \A t \in Tickers : sold[t] = exited'[t] \/ ~Cooling(sold[t], session)
    BY <1>2, RollCooldown DEF RollOnly
  <2> QED BY <2>1, <2>2 DEF CooldownInv
<1>3. ASSUME NEW e \in Equities, NEW p \in Portfolios, NEW kill \in BOOLEAN, Evaluate(e, p, kill)
      PROVE  CooldownInv'
  <2>1. orders' = {} /\ sold' = sold /\ session' = session
    BY <1>3 DEF Evaluate
  <2>2. \A t \in Tickers : sold[t] = exited'[t] \/ ~Cooling(sold[t], session)
    BY <1>3, RollCooldown DEF Evaluate
  <2> QED BY <2>1, <2>2 DEF CooldownInv
<1>4. ASSUME NEW t \in Tickers, NEW target \in Targets, Judge(t, target) PROVE CooldownInv'
  <2>1. PICK x \in Int : Stays(t, x) \/ Exits(t, x) \/ Enters(t, x)
    BY <1>4, JudgeEffect
  <2>2. \A o \in orders' : o \in orders \/ (o.entry => ~Cooling(exited[o.ticker], session))
    BY <2>1 DEF Stays, Exits, Enters, OrderOf, Refused
  <2> QED BY <1>4, <2>2 DEF Judge, stateVars, historyVars, CooldownInv
<1>5. ASSUME NEW sent \in SUBSET orders, NoteOrders(sent) PROVE CooldownInv'
  <2>1. orders' = {} /\ session' = session
    BY <1>5 DEF NoteOrders
  <2>2. \A t \in Tickers : \/ sold'[t] = exited'[t]
                           \/ sold'[t] = sold[t] /\ exited'[t] = exited[t]
    BY <1>5 DEF NoteOrders
  <2> QED BY <2>1, <2>2 DEF CooldownInv
<1>6. CASE NextSession
  <2>1. orders' = {} /\ sold' = sold /\ exited' = exited /\ session' = session + 1
    BY <1>6 DEF NextSession, stateVars, batchVars, BatchInv
  <2>2. \A t \in Tickers : Cooling(sold[t], session + 1) => Cooling(sold[t], session)
    BY LimitTypes DEF Cooling, TypeInv, TypeOK, Days
  <2> QED BY <2>1, <2>2 DEF CooldownInv
<1>7. CASE Trip
  BY <1>7 DEF Trip, batchVars, CooldownInv
<1>8. CASE Reset
  <2>1. orders' = {} /\ sold' = exited'
    BY <1>8 DEF Reset, FreshState, batchVars, BatchInv
  <2> QED BY <2>1 DEF CooldownInv
<1>9. CASE Restart
  <2>1. orders' = {} /\ sold' = exited'
    BY <1>9 DEF Restart, FreshState
  <2> QED BY <2>1 DEF CooldownInv
<1> QED BY <1>1, <1>2, <1>3, <1>4, <1>5, <1>6, <1>7, <1>8, <1>9 DEF Next

(* cooldown_days: no entry into a ticker within the cooldown of its last sale *)
(* (note_exit), though roll_day forgets sales.                                *)
THEOREM CooldownStopsEntries == Spec => []CooldownHolds
<1>1. Init => CooldownInv
  BY DEF Init, CooldownInv, Never, Cooling
<1>2. TypeInv /\ BatchInv /\ CooldownInv /\ [Next]_vars => CooldownInv'
  BY CooldownStep
<1>3. TypeInv /\ CooldownInv => CooldownHolds
  BY DEF CooldownInv, CooldownHolds, TypeInv, TypeOK, BuiltOrders
<1> QED BY <1>1, <1>2, <1>3, TypeInvariant, BatchInvariant, PTL DEF Spec
=============================================================================
