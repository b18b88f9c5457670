---------------------------- MODULE CommonProofs ----------------------------
(* What the proofs need to know of numbers, finite sets and sequences alone:  *)
(* a sum is an integer, and taking one value out of it leaves the sum of the  *)
(* others; one of finitely many things is the first in an order, or the kth   *)
(* from below; whole numbers divide; and what the loop over an equity curve   *)
(* keeps of it.                                                               *)
EXTENDS Sums, Sequences, FiniteSetTheorems, SequenceTheorems, WellFoundedInduction, TLAPS

-----------------------------------------------------------------------------
(* Sums *)

\* The units of a function, and those above zero of one of its values.
Above(n) == IF n > 0 THEN n ELSE 0
Without(q, x) == [i \in DOMAIN q \ {x} |-> q[i]]

(* There are finitely many units.                                            *)
LEMMA UnitsFinite ==
    ASSUME NEW S, IsFiniteSet(S), NEW q \in [S -> Int]
    PROVE  IsFiniteSet(Units(q)) /\ Cardinality(Units(q)) \in Nat
<1> DEFINE Part(i) == {i} \X (1..q[i])
           Parts == {Part(i) : i \in S}
           f == [i \in S |-> Part(i)]
<1>1. f \in Surjection(S, Parts)
  BY DEF Surjection
<1>2. IsFiniteSet(Parts)
  <2> HIDE DEF f, Parts
  <2> QED BY <1>1, FS_Surjection
<1>3. ASSUME NEW T \in Parts PROVE IsFiniteSet(T)
  <2>1. PICK i \in S : T = Part(i)
    OBVIOUS
  <2>2. q[i] \in Int
    OBVIOUS
  <2>3. IsFiniteSet(1..q[i])
    BY <2>2, FS_Interval
  <2>4. IsFiniteSet({i})
    BY FS_Singleton
  <2>5. IsFiniteSet({i} \X (1..q[i]))
    BY <2>3, <2>4, FS_Product
  <2> QED BY <2>1, <2>5
<1>4. IsFiniteSet(UNION Parts)
  <2> HIDE DEF Parts
  <2> QED BY <1>2, <1>3, FS_UNION
<1>5. Units(q) = UNION Parts
  BY DEF Units
<1> QED BY <1>4, <1>5, FS_CardinalityType

(* The units of a function are those of one value and those of the others.   *)
LEMMA UnitsSplit ==
    ASSUME NEW S, IsFiniteSet(S), NEW q \in [S -> Int], NEW x \in S
    PROVE  Cardinality(Units(q)) = Cardinality(Units(Without(q, x))) + Above(q[x])
<1> DEFINE A == Units(Without(q, x))
           B == {x} \X (1..q[x])
<1>0. Without(q, x) \in [S \ {x} -> Int] /\ IsFiniteSet(S \ {x})
  BY FS_RemoveElement DEF Without
<1>1. IsFiniteSet(A) /\ Cardinality(A) \in Nat
  BY <1>0, UnitsFinite
<1>2. IsFiniteSet(B) /\ Cardinality(B) = Above(q[x])
  <2>1. IsFiniteSet(1..q[x]) /\ Cardinality(1..q[x]) = Above(q[x])
    BY FS_Interval DEF Above
  <2>2. IsFiniteSet({x}) /\ Cardinality({x}) = 1
    BY FS_Singleton
  <2>3. IsFiniteSet({x} \X (1..q[x])) /\ Cardinality({x} \X (1..q[x])) = Cardinality({x}) * Cardinality(1..q[x])
    BY <2>1, <2>2, FS_Product, Zenon
  <2>4. Above(q[x]) \in Nat /\ 1 * Above(q[x]) = Above(q[x])
    BY DEF Above
  <2> QED BY <2>1, <2>2, <2>3, <2>4, Zenon
<1>3. Units(q) = A \cup B
  BY DEF Units, Without
<1>4. A \cap B = {}
  BY DEF Units, Without
<1>5. Above(q[x]) \in Nat
  BY DEF Above
<1> HIDE DEF A, B
<1>6. Cardinality(A \cup B) = Cardinality(A) + Cardinality(B) - Cardinality(A \cap B)
  BY <1>1, <1>2, FS_Union
<1>7. Cardinality(A \cap B) = 0
  BY <1>4, FS_EmptySet
<1>8. Cardinality(Units(q)) = Cardinality(A) + Above(q[x])
  BY <1>1, <1>2, <1>3, <1>5, <1>6, <1>7
<1> QED BY <1>8 DEF A

(* A sum is an integer.                                                      *)
LEMMA TotalType ==
    ASSUME NEW S, IsFiniteSet(S), NEW q \in [S -> Int]
    PROVE  Total(q) \in Int
<1>1. [i \in DOMAIN q |-> -q[i]] \in [S -> Int]
  OBVIOUS
<1>2. Cardinality(Units(q)) \in Nat /\ Cardinality(Units([i \in DOMAIN q |-> -q[i]])) \in Nat
  BY <1>1, UnitsFinite
<1> QED BY <1>2 DEF Total

(* One value taken out of a sum leaves the sum of the others.                *)
LEMMA TotalSplit ==
    ASSUME NEW S, IsFiniteSet(S), NEW q \in [S -> Int], NEW x \in S
    PROVE  Total(q) = Total(Without(q, x)) + q[x]
<1> DEFINE neg == [i \in DOMAIN q |-> -q[i]]
           rest == Without(q, x)
<1>1. neg \in [S -> Int] /\ neg[x] = -q[x] /\ q[x] \in Int
  OBVIOUS
<1>2. rest \in [S \ {x} -> Int] /\ IsFiniteSet(S \ {x}) /\ Without(neg, x) \in [S \ {x} -> Int]
  BY FS_RemoveElement DEF Without
<1>3. Without(neg, x) = [i \in DOMAIN rest |-> -rest[i]]
  BY DEF Without
<1>4. /\ Cardinality(Units(q)) = Cardinality(Units(rest)) + Above(q[x])
      /\ Cardinality(Units(neg)) = Cardinality(Units(Without(neg, x))) + Above(neg[x])
  <2> HIDE DEF neg
  <2> QED BY <1>1, UnitsSplit
<1>5. Cardinality(Units(rest)) \in Nat /\ Cardinality(Units(Without(neg, x))) \in Nat
  <2> HIDE DEF neg, rest
  <2> QED BY <1>2, UnitsFinite
<1>6. Above(q[x]) - Above(-q[x]) = q[x] /\ Above(q[x]) \in Nat /\ Above(-q[x]) \in Nat
  BY <1>1 DEF Above
<1>7. /\ Total(q) = Cardinality(Units(q)) - Cardinality(Units(neg))
      /\ Total(rest) = Cardinality(Units(rest)) - Cardinality(Units(Without(neg, x)))
  BY <1>3 DEF Total
<1> HIDE DEF neg, rest
<1>8. Total(q) = Total(rest) + q[x]
  BY <1>1, <1>4, <1>5, <1>6, <1>7
<1> QED BY <1>8 DEF rest

\* Two functions that agree but at one place.
LEMMA TotalStep ==
    ASSUME NEW S, IsFiniteSet(S), NEW q \in [S -> Int], NEW r \in [S -> Int], NEW x \in S,
           \A i \in S \ {x} : r[i] = q[i]
    PROVE  Total(r) = Total(q) - q[x] + r[x]
<1>1. Without(q, x) = Without(r, x)
  BY DEF Without
<1>2. Total(Without(q, x)) \in Int
  <2>1. Without(q, x) \in [S \ {x} -> Int] /\ IsFiniteSet(S \ {x})
    BY FS_RemoveElement DEF Without
  <2> QED BY <2>1, TotalType
<1>3. /\ Total(q) = Total(Without(q, x)) + q[x]
      /\ Total(r) = Total(Without(r, x)) + r[x]
  BY TotalSplit
<1> QED BY <1>1, <1>2, <1>3

\* One place more.
LEMMA TotalMore ==
    ASSUME NEW S, IsFiniteSet(S), NEW q \in [S -> Int], NEW x, x \notin S,
           NEW r \in [S \cup {x} -> Int], \A i \in S : r[i] = q[i]
    PROVE  Total(r) = Total(q) + r[x]
<1>1. IsFiniteSet(S \cup {x})
  BY FS_AddElement
<1>2. Without(r, x) = q
  BY DEF Without
<1>3. Total(r) = Total(Without(r, x)) + r[x]
  BY <1>1, TotalSplit
<1> QED BY <1>2, <1>3

(* Of nothing it is zero.                                                    *)
LEMMA TotalEmpty == ASSUME NEW q, DOMAIN q = {} PROVE Total(q) = 0
<1>1. Units(q) = {} /\ Units([i \in DOMAIN q |-> -q[i]]) = {}
  BY DEF Units
<1> QED BY <1>1, FS_EmptySet DEF Total

-----------------------------------------------------------------------------
(* Orders of finite sets *)

(* A set of naturals has a least member, and one with a bound a greatest.     *)
LEMMA LeastOf ==
    ASSUME NEW V \in SUBSET Nat, V # {}
    PROVE  \E m \in V : \A k \in V : m <= k
<1>1. PICK m \in V : \A k \in V : ~(<<k, m>> \in OpToRel(<, Nat))
  BY NatLessThanWellFounded, WFMin
<1>2. \A k \in V : ~(k < m)
  BY <1>1 DEF OpToRel
<1> QED BY <1>2

LEMMA GreatestOf ==
    ASSUME NEW V \in SUBSET Nat, V # {}, NEW b \in Nat, \A k \in V : k <= b
    PROVE  \E m \in V : \A k \in V : k <= m
<1> DEFINE U == {b - k : k \in V}
<1>1. \A k \in V : b - k \in Nat
  OBVIOUS
<1>2. U \in SUBSET Nat /\ U # {}
  BY <1>1
<1>3. PICK u \in U : \A v \in U : u <= v
  BY <1>2, LeastOf
<1>4. PICK m \in V : u = b - m
  OBVIOUS
<1>5. ASSUME NEW k \in V PROVE k <= m
  <2>1. b - m <= b - k
    BY <1>3, <1>4
  <2>2. m \in Nat /\ k \in Nat
    OBVIOUS
  <2>3. \A x, y, z \in Nat : x - y <= x - z => z <= y
    OBVIOUS
  <2> HIDE DEF U
  <2> QED BY <2>1, <2>2, <2>3
<1> QED BY <1>5

(* A strict order on the members of a set, as the pairs it puts in order.     *)
StrictOrder(o, V) ==
    /\ \A x \in V : <<x, x>> \notin o
    /\ \A x, y, z \in V : <<x, y>> \in o /\ <<y, z>> \in o => <<x, z>> \in o
Linear(o, V) == \A x, y \in V : x = y \/ <<x, y>> \in o \/ <<y, x>> \in o
(* How many come before a member.                                             *)
Ahead(o, V, x) == {y \in V : <<y, x>> \in o}
(* Fewer come before one that comes before.                                   *)
LEMMA FewerAhead ==
    ASSUME NEW V, IsFiniteSet(V), NEW o, StrictOrder(o, V), NEW x \in V, NEW y \in V, <<x, y>> \in o
    PROVE  Cardinality(Ahead(o, V, x)) < Cardinality(Ahead(o, V, y))
<1>1. Ahead(o, V, x) \subseteq Ahead(o, V, y) /\ Ahead(o, V, y) \subseteq V
  BY DEF Ahead, StrictOrder
<1>2. x \in Ahead(o, V, y) /\ x \notin Ahead(o, V, x)
  BY DEF Ahead, StrictOrder
<1>3. IsFiniteSet(Ahead(o, V, y))
  BY <1>1, FS_Subset
<1>4. IsFiniteSet(Ahead(o, V, x))
  BY <1>1, <1>3, FS_Subset
<1>5. Cardinality(Ahead(o, V, x)) \in Nat /\ Cardinality(Ahead(o, V, y)) \in Nat
  BY <1>3, <1>4, FS_CardinalityType
<1>6. Cardinality(Ahead(o, V, x)) <= Cardinality(Ahead(o, V, y))
  BY <1>1, <1>3, FS_Subset
<1>7. Cardinality(Ahead(o, V, y)) # Cardinality(Ahead(o, V, x))
  <2>1. Cardinality(Ahead(o, V, y)) = Cardinality(Ahead(o, V, x)) => Ahead(o, V, y) = Ahead(o, V, x)
    BY <1>1, <1>3, FS_Subset
  <2> QED BY <1>2, <2>1
<1> QED BY <1>5, <1>6, <1>7

(* One of the members has none before it.                                     *)
LEMMA FirstOf ==
    ASSUME NEW V, IsFiniteSet(V), V # {}, NEW o, StrictOrder(o, V)
    PROVE  \E x \in V : \A y \in V : <<y, x>> \notin o
<1> DEFINE U == {Cardinality(Ahead(o, V, x)) : x \in V}
<1>1. ASSUME NEW x \in V PROVE Cardinality(Ahead(o, V, x)) \in Nat
  <2>1. Ahead(o, V, x) \subseteq V
    BY DEF Ahead
  <2>2. IsFiniteSet(Ahead(o, V, x))
    BY <2>1, FS_Subset
  <2> QED BY <2>2, FS_CardinalityType
<1>2. U \in SUBSET Nat /\ U # {}
  BY <1>1
<1>3. PICK m \in U : \A k \in U : m <= k
  BY <1>2, LeastOf
<1>4. PICK x \in V : m = Cardinality(Ahead(o, V, x))
  OBVIOUS
<1>5. ASSUME NEW y \in V, <<y, x>> \in o PROVE FALSE
  <2>1. Cardinality(Ahead(o, V, y)) < Cardinality(Ahead(o, V, x))
    BY <1>5, FewerAhead
  <2>2. m <= Cardinality(Ahead(o, V, y))
    BY <1>3
  <2> QED BY <1>1, <1>4, <2>1, <2>2
<1> QED BY <1>5

(* The places in a total order are 1 to the number of members, each taken by  *)
(* one of them.                                                               *)
LEMMA PlacesTaken ==
    ASSUME NEW k \in Nat, NEW o, StrictOrder(o, 1..k), Linear(o, 1..k)
    PROVE  /\ \A x \in 1..k : 1 + Cardinality(Ahead(o, 1..k, x)) \in 1..k
           /\ \A x, y \in 1..k : <<x, y>> \in o =>
                1 + Cardinality(Ahead(o, 1..k, x)) < 1 + Cardinality(Ahead(o, 1..k, y))
           /\ \A x, y \in 1..k :
                1 + Cardinality(Ahead(o, 1..k, x)) = 1 + Cardinality(Ahead(o, 1..k, y)) => x = y
           /\ \A p \in 1..k : \E x \in 1..k : 1 + Cardinality(Ahead(o, 1..k, x)) = p
<1> DEFINE V == 1..k
           place == [x \in V |-> 1 + Cardinality(Ahead(o, V, x))]
<1>0. IsFiniteSet(V) /\ Cardinality(V) = k
  <2>1. IsFiniteSet(1..k) /\ Cardinality(1..k) = IF 1 > k THEN 0 ELSE k - 1 + 1
    BY FS_Interval
  <2> QED BY <2>1
<1>1. ASSUME NEW x \in V PROVE Cardinality(Ahead(o, V, x)) \in Nat /\ Cardinality(Ahead(o, V, x)) < k
  <2>1. Ahead(o, V, x) \subseteq V /\ Ahead(o, V, x) # V
    BY DEF Ahead, StrictOrder
  <2>2. IsFiniteSet(Ahead(o, V, x)) /\ Cardinality(Ahead(o, V, x)) <= Cardinality(V)
    BY <1>0, <2>1, FS_Subset
  <2>3. Cardinality(V) = Cardinality(Ahead(o, V, x)) => V = Ahead(o, V, x)
    BY <1>0, <2>1, FS_Subset
  <2>4. Cardinality(Ahead(o, V, x)) \in Nat
    BY <2>2, FS_CardinalityType
  <2> HIDE DEF V
  <2> QED BY <1>0, <2>1, <2>2, <2>3, <2>4
<1>2. \A x, y \in V : <<x, y>> \in o => Cardinality(Ahead(o, V, x)) < Cardinality(Ahead(o, V, y))
  BY <1>0, FewerAhead
<1> HIDE DEF V
<1>3. \A x \in V : place[x] \in 1..k
  BY <1>1
<1>4. \A x, y \in V : <<x, y>> \in o => place[x] < place[y]
  BY <1>1, <1>2
<1>5. \A x, y \in V : place[x] = place[y] => x = y
  <2>1. \A x, y \in V : x = y \/ <<x, y>> \in o \/ <<y, x>> \in o
    BY DEF Linear, V
  <2>2. \A x \in V : place[x] \in Nat
    BY <1>3
  <2> HIDE DEF place
  <2>3. ASSUME NEW x \in V, NEW y \in V, <<x, y>> \in o PROVE place[x] # place[y]
    <3>1. place[x] < place[y] /\ place[x] \in Nat /\ place[y] \in Nat
      BY <1>4, <2>2, <2>3
    <3> QED BY <3>1
  <2> QED BY <2>1, <2>3
<1>6. ASSUME NEW p \in 1..k, \A x \in V : place[x] # p PROVE FALSE
  <2> DEFINE Others == (1..k) \ {p}
  <2>1. IsFiniteSet(Others) /\ Cardinality(Others) = k - 1
    <3>1. IsFiniteSet(1..k) /\ Cardinality(1..k) = k
      BY <1>0 DEF V
    <3> QED BY <3>1, FS_RemoveElement
  <2>2. place \in [V -> Others]
    <3>1. \A x \in V : place[x] \in Others
      BY <1>3, <1>6
    <3> QED BY <3>1
  <2>3. Cardinality(Others) < Cardinality(V)
    BY <1>0, <2>1
  <2> HIDE DEF Others, place
  <2>4. \E x, y \in V : x # y /\ place[x] = place[y]
    BY <1>0, <2>1, <2>2, <2>3, FS_PigeonHole
  <2> QED BY <1>5, <2>4
<1>7. \A x \in V : place[x] = 1 + Cardinality(Ahead(o, V, x))
  OBVIOUS
<1> HIDE DEF place
<1>8. /\ \A x \in V : 1 + Cardinality(Ahead(o, V, x)) \in 1..k
      /\ \A x, y \in V : <<x, y>> \in o =>
           1 + Cardinality(Ahead(o, V, x)) < 1 + Cardinality(Ahead(o, V, y))
      /\ \A x, y \in V : 1 + Cardinality(Ahead(o, V, x)) = 1 + Cardinality(Ahead(o, V, y)) => x = y
      /\ \A p \in 1..k : \E x \in V : 1 + Cardinality(Ahead(o, V, x)) = p
  BY <1>3, <1>4, <1>5, <1>6, <1>7
<1> QED BY <1>8 DEF V

(* Of finitely many integers one is the greatest and one the least.           *)
LEMMA Extremes ==
    ASSUME NEW V, IsFiniteSet(V), V # {}, NEW f \in [V -> Int]
    PROVE  /\ \E x \in V : \A y \in V : f[y] <= f[x]
           /\ \E x \in V : \A y \in V : f[x] <= f[y]
<1>0. \A x \in V : f[x] \in Int
  OBVIOUS
<1>1. \E x \in V : \A y \in V : f[y] <= f[x]
  <2> DEFINE o == {z \in V \X V : f[z[1]] > f[z[2]]}
  <2>1. \A x, y \in V : <<x, y>> \in o <=> f[x] > f[y]
    OBVIOUS
  <2> HIDE DEF o
  <2>2. StrictOrder(o, V)
    BY <1>0, <2>1 DEF StrictOrder
  <2>3. PICK x \in V : \A y \in V : <<y, x>> \notin o
    BY <2>2, FirstOf
  <2>4. ASSUME NEW y \in V PROVE f[y] <= f[x]
    <3>1. f[x] \in Int /\ f[y] \in Int
      BY <1>0
    <3>2. ~(f[y] > f[x])
      BY <2>1, <2>3
    <3> QED BY <3>1, <3>2
  <2> QED BY <2>4
<1>2. \E x \in V : \A y \in V : f[x] <= f[y]
  <2> DEFINE o == {z \in V \X V : f[z[1]] < f[z[2]]}
  <2>1. \A x, y \in V : <<x, y>> \in o <=> f[x] < f[y]
    OBVIOUS
  <2> HIDE DEF o
  <2>2. StrictOrder(o, V)
    BY <1>0, <2>1 DEF StrictOrder
  <2>3. PICK x \in V : \A y \in V : <<y, x>> \notin o
    BY <2>2, FirstOf
  <2>4. ASSUME NEW y \in V PROVE f[x] <= f[y]
    <3>1. f[x] \in Int /\ f[y] \in Int
      BY <1>0
    <3>2. ~(f[y] < f[x])
      BY <2>1, <2>3
    <3> QED BY <3>1, <3>2
  <2> QED BY <2>4
<1> QED BY <1>1, <1>2

-----------------------------------------------------------------------------
(* Whole numbers, in blocks and in fractions *)

(* Euclid's division.                                                         *)
LEMMA DivMod ==
    ASSUME NEW x \in Nat, NEW b \in Nat \ {0}
    PROVE  /\ x \div b \in Nat /\ x % b \in 0..(b - 1)
           /\ x = b * (x \div b) + (x % b)
OBVIOUS

(* The blocks that are drawn fill the run, and none more than it needs: a row *)
(* of the run lies in one of them.                                            *)
LEMMA BlocksFill ==
    ASSUME NEW r \in Nat, NEW b \in Nat \ {0}
    PROVE  LET h == (r + b - 1) \div b
           IN  /\ h \in Nat /\ h * b >= r
               /\ \A k \in 1..r : ((k - 1) \div b) + 1 \in 1..h /\ (k - 1) % b \in 0..(b - 1)
<1> DEFINE h == (r + b - 1) \div b
<1>1. h \in Nat /\ (r + b - 1) % b \in 0..(b - 1) /\ r + b - 1 = b * h + ((r + b - 1) % b)
  <2>1. r + b - 1 \in Nat
    OBVIOUS
  <2> QED BY <2>1, DivMod
<1>2. b * h >= r
  <2> DEFINE m == (r + b - 1) % b
             z == b * h
  <2>1. z \in Nat /\ m <= b - 1 /\ r + b - 1 = z + m /\ m \in Nat
    BY <1>1
  <2> HIDE DEF m, z
  <2>2. z >= r
    BY <2>1
  <2> QED BY <2>2 DEF z
<1> HIDE DEF h
<1>3. h * b = b * h
  BY <1>1
<1>4. ASSUME NEW k \in 1..r
      PROVE  ((k - 1) \div b) + 1 \in 1..h /\ (k - 1) % b \in 0..(b - 1)
  <2> DEFINE q == (k - 1) \div b
             m == (k - 1) % b
  <2>1. q \in Nat /\ m \in 0..(b - 1) /\ k - 1 = b * q + m
    <3>1. k - 1 \in Nat
      OBVIOUS
    <3> QED BY <3>1, DivMod
  <2> HIDE DEF q, m
  <2>2. b * q < b * h
    <3> DEFINE y == b * q
               z == b * h
    <3>1. y \in Nat /\ z \in Nat /\ z >= r /\ k - 1 = y + m /\ m \in Nat
      BY <1>1, <1>2, <2>1
    <3> HIDE DEF y, z
    <3>2. y < z
      BY <3>1
    <3> QED BY <3>2 DEF y, z
  <2>3. q < h
    <3>1. ASSUME h <= q PROVE FALSE
      <4>1. PICK d \in Nat : q = h + d
        <5>1. q - h \in Nat /\ q = h + (q - h)
          BY <1>1, <2>1, <3>1
        <5> QED BY <5>1
      <4>2. b * q = b * h + b * d /\ b * d \in Nat /\ b * h \in Nat
        BY <1>1, <4>1
      <4> QED BY <2>2, <4>2
    <3> QED BY <1>1, <2>1, <3>1
  <2>4. q + 1 \in 1..h
    BY <1>1, <2>1, <2>3
  <2> QED BY <2>1, <2>4 DEF q, m
<1> QED BY <1>1, <1>2, <1>3, <1>4 DEF h

(* A quotient is the one number its divisor fits in so often.                 *)
LEMMA DivIs ==
    ASSUME NEW b \in Nat \ {0}, NEW q \in Nat, NEW r \in 0..(b - 1)
    PROVE  (b * q + r) \div b = q /\ (b * q + r) % b = r
<1> DEFINE x == b * q + r
           d == x \div b
           m == x % b
<1>1. x \in Nat
  OBVIOUS
<1>2. d \in Nat /\ m \in 0..(b - 1) /\ x = b * d + m
  BY <1>1, DivMod
<1>3. ASSUME NEW u \in Nat, NEW v \in Nat, u < v PROVE b * u + b <= b * v
  <2>1. PICK e \in Nat : v = u + 1 + e
    <3>1. v - u - 1 \in Nat /\ v = u + 1 + (v - u - 1)
      BY <1>3
    <3> QED BY <3>1
  <2>2. b * v = b * u + b + b * e /\ b * e \in Nat
    BY <2>1
  <2> DEFINE y == b * u
             z == b * v
             w == b * e
  <2>3. y \in Nat /\ z \in Nat /\ w \in Nat /\ z = y + b + w
    BY <2>2
  <2> HIDE DEF y, z, w
  <2>4. y + b <= z
    BY <2>3
  <2> QED BY <2>4 DEF y, z
<1> HIDE DEF d, m
<1> DEFINE y == b * q
           z == b * d
<1>4. y \in Nat /\ z \in Nat /\ y + r = z + m
  BY <1>2
<1>5. (d < q => z + b <= y) /\ (q < d => y + b <= z)
  BY <1>2, <1>3
<1> HIDE DEF y, z
<1>6. ~(d < q) /\ ~(q < d)
  BY <1>2, <1>4, <1>5
<1>7. d = q
  BY <1>2, <1>6
<1>8. m = r
  <2>1. y = z
    BY <1>7 DEF y, z
  <2> QED BY <1>2, <1>4, <2>1
<1> QED BY <1>7, <1>8 DEF d, m

(* What is more by c divisors has a quotient more by c at least.              *)
LEMMA DivMore ==
    ASSUME NEW b \in Nat \ {0}, NEW x \in Nat, NEW y \in Nat, NEW c \in Nat, x + b * c <= y
    PROVE  (x \div b) + c <= y \div b
<1> DEFINE d == x \div b
           m == x % b
           e == y \div b
           r == y % b
<1>1. d \in Nat /\ m \in 0..(b - 1) /\ x = b * d + m
  BY DivMod
<1>2. e \in Nat /\ r \in 0..(b - 1) /\ y = b * e + r
  BY DivMod
<1> HIDE DEF d, m, e, r
<1>3. ASSUME e < d + c PROVE FALSE
  <2>1. PICK f \in Nat : d + c = e + 1 + f
    <3>1. d + c - e - 1 \in Nat /\ d + c = e + 1 + (d + c - e - 1)
      BY <1>1, <1>2, <1>3
    <3> QED BY <3>1
  <2>2. b * d + b * c = b * e + b + b * f
    <3>1. b * (d + c) = b * d + b * c
      BY <1>1
    <3>2. b * (e + 1 + f) = b * e + b + b * f
      BY <1>2
    <3> QED BY <2>1, <3>1, <3>2
  <2> DEFINE u == b * d
             v == b * e
             w == b * f
             z == b * c
  <2>3. u \in Nat /\ v \in Nat /\ w \in Nat /\ z \in Nat /\ u + z = v + b + w /\ x = u + m /\ y = v + r /\ x + z <= y
    BY <1>1, <1>2, <2>2
  <2> HIDE DEF u, v, w, z
  <2> QED BY <1>1, <1>2, <2>3
<1>4. d + c <= e
  BY <1>1, <1>2, <1>3
<1> QED BY <1>4 DEF d, e

(* A product grows with its factors, and products are compared as they are.  *)
LEMMA TimesMore ==
    ASSUME NEW b \in Nat, NEW u \in Nat, NEW v \in Nat, u <= v
    PROVE  b * u \in Nat /\ b * v \in Nat /\ b * u <= b * v
<1>1. PICK e \in Nat : v = u + e
  <2>1. v - u \in Nat /\ v = u + (v - u)
    OBVIOUS
  <2> QED BY <2>1
<1>2. b * v = b * u + b * e /\ b * u \in Nat /\ b * e \in Nat /\ b * v \in Nat
  BY <1>1
<1> DEFINE x == b * u
           y == b * v
           z == b * e
<1>3. x \in Nat /\ y \in Nat /\ z \in Nat /\ y = x + z
  BY <1>2
<1> HIDE DEF x, y, z
<1>4. x <= y
  BY <1>3
<1> QED BY <1>3, <1>4 DEF x, y

(* Fractions above zero, and which is below which.                            *)
Fractions == (Nat \ {0}) \X (Nat \ {0})
LEMMA Scaled ==
    ASSUME NEW x \in Nat, NEW y \in Nat, NEW z \in Nat \ {0}
    PROVE  (x <= y) <=> (x * z <= y * z)
OBVIOUS

(* The rate of hits times the average win and the rest times the average loss *)
(* make the mean, also where there is no win or no loss.                      *)
LEMMA MeanOfBoth ==
    ASSUME NEW w \in Nat, NEW l \in Nat, NEW pw \in Int, NEW pl \in Int, w # 0, l # 0
    PROVE  (w * pw * l + l * pl * w) * (w + l) = (pw + pl) * ((w + l) * w * l)
OBVIOUS

-----------------------------------------------------------------------------
(* More about sums *)

(* The sum over two sets that have nothing in common.                         *)
LEMMA TotalUnion ==
    ASSUME NEW U, NEW V, IsFiniteSet(U), IsFiniteSet(V), U \cap V = {},
           NEW g \in [U -> Int], NEW h \in [V -> Int], NEW f, DOMAIN f = U \cup V,
           \A i \in U : g[i] = f[i], \A i \in V : h[i] = f[i]
    PROVE  Total(f) = Total(g) + Total(h)
<1> DEFINE fn == [i \in DOMAIN f |-> -f[i]]
           gn == [i \in DOMAIN g |-> -g[i]]
           hn == [i \in DOMAIN h |-> -h[i]]
<1>1. /\ g \in [U -> Int] /\ h \in [V -> Int] /\ gn \in [U -> Int] /\ hn \in [V -> Int]
      /\ DOMAIN f = U \cup V /\ DOMAIN fn = U \cup V
      /\ \A i \in U : g[i] = f[i] /\ gn[i] = fn[i]
      /\ \A i \in V : h[i] = f[i] /\ hn[i] = fn[i]
  OBVIOUS
<1> HIDE DEF fn, gn, hn
<1>2. /\ Units(f) = Units(g) \cup Units(h) /\ Units(g) \cap Units(h) = {}
      /\ Units(fn) = Units(gn) \cup Units(hn) /\ Units(gn) \cap Units(hn) = {}
  <2>1. DOMAIN g = U /\ DOMAIN h = V /\ DOMAIN gn = U /\ DOMAIN hn = V
    BY <1>1
  <2>2. Units(f) = Units(g) \cup Units(h) /\ Units(fn) = Units(gn) \cup Units(hn)
    BY <1>1, <2>1 DEF Units
  <2>3. Units(g) \cap Units(h) = {} /\ Units(gn) \cap Units(hn) = {}
    BY <1>1, <2>1 DEF Units
  <2> QED BY <2>2, <2>3
<1>3. /\ IsFiniteSet(Units(g)) /\ IsFiniteSet(Units(h)) /\ IsFiniteSet(Units(gn)) /\ IsFiniteSet(Units(hn))
      /\ Cardinality(Units(g)) \in Nat /\ Cardinality(Units(h)) \in Nat
      /\ Cardinality(Units(gn)) \in Nat /\ Cardinality(Units(hn)) \in Nat
  BY <1>1, UnitsFinite
<1>4. Cardinality(Units(f)) = Cardinality(Units(g)) + Cardinality(Units(h))
  <2>1. Cardinality(Units(g) \cup Units(h)) = Cardinality(Units(g)) + Cardinality(Units(h)) - Cardinality(Units(g) \cap Units(h))
    BY <1>3, FS_Union
  <2>2. Cardinality(Units(g) \cap Units(h)) = 0
    BY <1>2, FS_EmptySet
  <2> QED BY <1>2, <1>3, <2>1, <2>2
<1>5. Cardinality(Units(fn)) = Cardinality(Units(gn)) + Cardinality(Units(hn))
  <2>1. Cardinality(Units(gn) \cup Units(hn)) = Cardinality(Units(gn)) + Cardinality(Units(hn)) - Cardinality(Units(gn) \cap Units(hn))
    BY <1>3, FS_Union
  <2>2. Cardinality(Units(gn) \cap Units(hn)) = 0
    BY <1>2, FS_EmptySet
  <2> QED BY <1>2, <1>3, <2>1, <2>2
<1>6. /\ Total(f) = Cardinality(Units(f)) - Cardinality(Units(fn))
      /\ Total(g) = Cardinality(Units(g)) - Cardinality(Units(gn))
      /\ Total(h) = Cardinality(Units(h)) - Cardinality(Units(hn))
  BY DEF Total, fn, gn, hn
<1>7. Total(f) = Total(g) + Total(h)
  BY <1>3, <1>4, <1>5, <1>6
<1> QED BY <1>7

(* A function of integers and its parts over two finite sets.                 *)
Parts(f, g, h, U, V) ==
    /\ IsFiniteSet(U) /\ IsFiniteSet(V) /\ U \cap V = {}
    /\ g \in [U -> Int] /\ h \in [V -> Int] /\ DOMAIN f = U \cup V
    /\ (\A i \in U : g[i] = f[i]) /\ (\A i \in V : h[i] = f[i])
(* Their totals make its own.                                                 *)
LEMMA TotalParts == \A f, g, h, U, V : Parts(f, g, h, U, V) => Total(f) = Total(g) + Total(h)
<1> SUFFICES ASSUME NEW f, NEW g, NEW h, NEW U, NEW V, Parts(f, g, h, U, V)
             PROVE  Total(f) = Total(g) + Total(h)
  OBVIOUS
<1> QED BY TotalUnion DEF Parts

(* A function with one key more, whose value the sum grows by.               *)
OneKeyMore(q, r, V, x) ==
    /\ IsFiniteSet(V) /\ x \notin V
    /\ q \in [V -> Int] /\ r \in [V \cup {x} -> Int] /\ \A i \in V : r[i] = q[i]
LEMMA TotalMoreOf == \A q, r, V, x : OneKeyMore(q, r, V, x) => Total(r) = Total(q) + r[x]
<1> SUFFICES ASSUME NEW q, NEW r, NEW V, NEW x, OneKeyMore(q, r, V, x) PROVE Total(r) = Total(q) + r[x]
  OBVIOUS
<1> QED BY TotalMore DEF OneKeyMore

(* The sum over two keys.                                                    *)
LEMMA TotalOfTwo ==
    ASSUME NEW x, NEW y, x # y, NEW f \in [{x, y} -> Int]
    PROVE  Total(f) = f[x] + f[y]
<1> DEFINE e == [i \in {} |-> 0]
           g == [i \in {x} |-> f[x]]
<1>1. Total(e) = 0 /\ e \in [{} -> Int] /\ IsFiniteSet({})
  BY TotalEmpty, FS_EmptySet
<1>2. f[x] \in Int /\ f[y] \in Int
  OBVIOUS
<1>3. g \in [{} \cup {x} -> Int] /\ g[x] = f[x] /\ {} \cup {x} = {x} /\ IsFiniteSet({x})
  BY <1>2, FS_Singleton
<1> HIDE DEF e, g
<1>4. Total(g) = Total(e) + g[x]
  <2>1. x \notin {} /\ \A i \in {} : g[i] = e[i]
    OBVIOUS
  <2>2. OneKeyMore(e, g, {}, x)
    BY <1>1, <1>3, <2>1 DEF OneKeyMore
  <2> QED BY <2>2, TotalMoreOf
<1>5. Total(f) = Total(g) + f[y]
  <2>1. f \in [{x} \cup {y} -> Int] /\ g \in [{x} -> Int] /\ y \notin {x} /\ \A i \in {x} : f[i] = g[i]
    <3>1. {x, y} = {x} \cup {y} /\ g \in [{x} -> Int]
      BY <1>3
    <3> QED BY <1>3, <3>1
  <2> QED BY <1>3, <2>1, TotalMoreOf DEF OneKeyMore
<1> QED BY <1>1, <1>2, <1>3, <1>4, <1>5

-----------------------------------------------------------------------------
(* Curves *)

(* The digest of a run: its curve, for any number of bars.                    *)
CurveBars == [t : Nat \ {0}, v : Nat \ {0}]
GoodCurve(c) ==
    /\ c \in Seq(CurveBars)
    /\ \A i \in 1..Len(c) : c[i].t \in Nat \ {0} /\ c[i].v \in Nat \ {0}
    /\ \A i, j \in 1..Len(c) : i < j => c[i].t < c[j].t
(* A bar as high as all before it; a pair of bars where the curve fell below  *)
(* the first and was not as high again before the second; a stretch that      *)
(* ended, between two such bars.                                              *)
IsHigh(c, i) == \A k \in 1..i : c[k].v <= c[i].v
Falls(c, i, j) == i < j /\ c[i + 1].v < c[i].v /\ \A k \in i + 1 .. j - 1 : c[k].v < c[i].v
Stretch(c, e, i, j) == e = <<c[i].t, c[j].t>> /\ IsHigh(c, i) /\ Falls(c, i, j) /\ c[i].v <= c[j].v
(* What the loop has kept when its newest high is bar h.                      *)
LongestTo(c, h, lo) ==
    /\ \A i, j \in 1..h : Falls(c, i, j) => c[j].t - c[i].t <= lo
    /\ lo = 0 \/ \E i, j \in 1..h : Falls(c, i, j) /\ c[j].t - c[i].t = lo
EndedTo(c, h, es) ==
    /\ \A x \in 1..Len(es) : \E i, j \in 1..h : Stretch(c, es[x], i, j)
    /\ \A k \in 1..h : IsHigh(c, k) \/ \E x \in 1..Len(es) : \E i, j \in 1..h : Stretch(c, es[x], i, j) /\ i < k /\ k < j
HighAt(c, su, hi, h) ==
    /\ hi = c[h].t /\ su = IF h = Len(c) THEN 0 ELSE hi
    /\ IsHigh(c, h) /\ \A k \in h + 1 .. Len(c) : c[k].v < c[h].v
KeptRight(c, su, hi, lo, es) ==
    /\ GoodCurve(c) /\ su \in Nat /\ hi \in Nat /\ lo \in Nat /\ es \in Seq(Nat \X Nat)
    /\ \/ c = <<>> /\ su = 0 /\ lo = 0 /\ es = <<>>
       \/ \E h \in 1..Len(c) : HighAt(c, su, hi, h) /\ LongestTo(c, h, lo) /\ EndedTo(c, h, es)
(* A curve that is read on keeps what it had.                                 *)
LEMMA ReadOn ==
    ASSUME NEW c, NEW d, NEW m \in Nat, \A k \in 1..m : d[k] = c[k]
    PROVE  /\ \A i \in 1..m : IsHigh(d, i) <=> IsHigh(c, i)
           /\ \A i, j \in 1..m : Falls(d, i, j) <=> Falls(c, i, j)
           /\ \A e : \A i, j \in 1..m : Stretch(d, e, i, j) <=> Stretch(c, e, i, j)
<1>1. \A i \in 1..m : IsHigh(d, i) <=> IsHigh(c, i)
  BY DEF IsHigh
<1>2. \A i, j \in 1..m : Falls(d, i, j) <=> Falls(c, i, j)
  <2> SUFFICES ASSUME NEW i \in 1..m, NEW j \in 1..m, i < j PROVE Falls(d, i, j) <=> Falls(c, i, j)
    BY DEF Falls
  <2>1. i + 1 \in 1..m /\ \A k \in i + 1 .. j - 1 : k \in 1..m
    OBVIOUS
  <2> QED BY <2>1 DEF Falls
<1> QED BY <1>1, <1>2 DEF Stretch

(* What holds of a curve to a bar holds of any that begins with it.           *)
LEMMA KeptOn ==
    ASSUME NEW c, NEW d, NEW h \in Nat, \A k \in 1..h : d[k] = c[k], NEW lo, NEW es
    PROVE  (LongestTo(c, h, lo) => LongestTo(d, h, lo)) /\ (EndedTo(c, h, es) => EndedTo(d, h, es))
<1>1. /\ \A i \in 1..h : IsHigh(d, i) <=> IsHigh(c, i)
      /\ \A i, j \in 1..h : Falls(d, i, j) <=> Falls(c, i, j)
      /\ \A e : \A i, j \in 1..h : Stretch(d, e, i, j) <=> Stretch(c, e, i, j)
  BY ReadOn
<1>2. LongestTo(c, h, lo) => LongestTo(d, h, lo)
  <2> SUFFICES ASSUME LongestTo(c, h, lo) PROVE LongestTo(d, h, lo)
    OBVIOUS
  <2>1. \A i, j \in 1..h : Falls(d, i, j) => d[j].t - d[i].t <= lo
    BY <1>1 DEF LongestTo
  <2>2. ASSUME lo # 0 PROVE \E i, j \in 1..h : Falls(d, i, j) /\ d[j].t - d[i].t = lo
    <3>1. PICK i, j \in 1..h : Falls(c, i, j) /\ c[j].t - c[i].t = lo
      BY <2>2 DEF LongestTo
    <3> QED BY <1>1, <3>1
  <2> QED BY <2>1, <2>2 DEF LongestTo
<1>3. EndedTo(c, h, es) => EndedTo(d, h, es)
  <2> SUFFICES ASSUME EndedTo(c, h, es) PROVE EndedTo(d, h, es)
    OBVIOUS
  <2>1. ASSUME NEW x \in 1..Len(es) PROVE \E i, j \in 1..h : Stretch(d, es[x], i, j)
    BY <1>1 DEF EndedTo
  <2>2. ASSUME NEW k \in 1..h, ~IsHigh(d, k)
        PROVE  \E x \in 1..Len(es) : \E i, j \in 1..h : Stretch(d, es[x], i, j) /\ i < k /\ k < j
    <3>1. PICK x \in 1..Len(es) : \E i, j \in 1..h : Stretch(c, es[x], i, j) /\ i < k /\ k < j
      BY <1>1, <2>2 DEF EndedTo
    <3> QED BY <1>1, <3>1
  <2> QED BY <2>1, <2>2 DEF EndedTo
<1> QED BY <1>2, <1>3

(* One bar more, in the three ways the loop takes it.                         *)
LEMMA BarBelow ==
    ASSUME NEW c, NEW d, GoodCurve(d), NEW m \in Nat, Len(c) = m, Len(d) = m + 1, \A k \in 1..m : d[k] = c[k],
           NEW h \in 1..m, NEW su, NEW hi, HighAt(c, su, hi, h), d[m + 1].v < c[h].v
    PROVE  HighAt(d, hi, hi, h)
<1>0. IsHigh(c, h) /\ hi = c[h].t /\ d[h] = c[h]
  BY DEF HighAt
<1>1. IsHigh(d, h) /\ h # m + 1 /\ hi = d[h].t
  BY <1>0 DEF IsHigh
<1>2. \A k \in h + 1 .. m + 1 : d[k].v < d[h].v
  <2> SUFFICES ASSUME NEW k \in h + 1 .. m + 1 PROVE d[k].v < d[h].v
    OBVIOUS
  <2>1. CASE k = m + 1
    BY <2>1
  <2>2. CASE k \in h + 1 .. m
    BY <2>2 DEF HighAt
  <2> QED BY <2>1, <2>2
<1> QED BY <1>1, <1>2 DEF HighAt

(* A bar at the last high or above it is the new one.                         *)
LEMMA BarHigh ==
    ASSUME NEW c, NEW d, GoodCurve(d), NEW m \in Nat, Len(c) = m, Len(d) = m + 1, \A k \in 1..m : d[k] = c[k],
           NEW h \in 1..m, NEW su, NEW hi, HighAt(c, su, hi, h), d[m + 1].v >= c[h].v
    PROVE  /\ HighAt(d, 0, d[m + 1].t, m + 1)
           /\ \A i, j \in 1..m + 1 : Falls(d, i, j) /\ j > h => i >= h /\ h # m
<1>0. \A k \in 1..m + 1 : d[k].v \in Nat
  BY DEF GoodCurve
<1>1. \A k \in 1..m : d[k].v <= d[h].v
  <2> SUFFICES ASSUME NEW k \in 1..m PROVE d[k].v <= d[h].v
    OBVIOUS
  <2>1. CASE k \in 1..h
    BY <2>1 DEF HighAt, IsHigh
  <2>2. CASE k \in h + 1 .. m
    <3>1. c[k].v < c[h].v
      BY <2>2 DEF HighAt
    <3>2. d[k] = c[k] /\ d[h] = c[h] /\ d[k].v \in Nat /\ d[h].v \in Nat
      BY <1>0
    <3> QED BY <3>1, <3>2
  <2> QED BY <2>1, <2>2
<1>2. d[h].v <= d[m + 1].v /\ h \in 1..m + 1 /\ m + 1 \in 1..m + 1
  BY <1>0
<1>3. IsHigh(d, m + 1)
  <2> SUFFICES ASSUME NEW k \in 1..m + 1 PROVE d[k].v <= d[m + 1].v
    BY DEF IsHigh
  <2>1. CASE k = m + 1
    BY <1>0, <2>1
  <2>2. CASE k \in 1..m
    BY <1>0, <1>1, <1>2, <2>2
  <2> QED BY <2>1, <2>2
<1>4. HighAt(d, 0, d[m + 1].t, m + 1)
  BY <1>3 DEF HighAt
<1>5. ASSUME NEW i \in 1..m + 1, NEW j \in 1..m + 1, Falls(d, i, j), j > h PROVE i >= h /\ h # m
  <2>1. i \in 1..m /\ i < j /\ j \in Nat /\ d[i + 1].v < d[i].v /\ \A k \in i + 1 .. j - 1 : d[k].v < d[i].v
    BY <1>5 DEF Falls
  <2>2. i >= h
    <3> SUFFICES ASSUME i < h PROVE FALSE
      BY <2>1
    <3>1. h \in i + 1 .. j - 1 /\ i \in 1..h
      BY <1>5, <2>1
    <3>2. d[h].v < d[i].v
      BY <2>1, <3>1
    <3>3. d[i].v <= d[h].v
      BY <1>1, <2>1
    <3> QED BY <1>0, <2>1, <1>2, <3>2, <3>3
  <2>3. h # m
    <3> SUFFICES ASSUME h = m PROVE FALSE
      OBVIOUS
    <3>1. i = m
      BY <2>1, <2>2
    <3>2. d[m + 1].v < d[m].v
      BY <2>1, <3>1
    <3>3. d[m].v <= d[m + 1].v
      BY <1>2
    <3> QED BY <1>0, <1>2, <3>2, <3>3
  <2> QED BY <2>2, <2>3
<1> QED BY <1>4, <1>5

(* Where the last bar was a high too, no stretch ended.                       *)
LEMMA BarKeeps ==
    ASSUME NEW c, NEW d, GoodCurve(d), NEW m \in Nat, m # 0, Len(c) = m, Len(d) = m + 1, \A k \in 1..m : d[k] = c[k],
           NEW su, NEW hi, HighAt(c, su, hi, m), d[m + 1].v >= c[m].v,
           NEW lo, LongestTo(c, m, lo), NEW es, EndedTo(c, m, es)
    PROVE  LongestTo(d, m + 1, lo) /\ EndedTo(d, m + 1, es)
<1>1. LongestTo(d, m, lo) /\ EndedTo(d, m, es)
  BY KeptOn
<1>2. /\ \A i, j \in 1..m + 1 : Falls(d, i, j) => ~(j > m)
      /\ IsHigh(d, m + 1)
  BY BarHigh DEF HighAt
<1>3. ASSUME NEW i \in 1..m + 1, NEW j \in 1..m + 1, Falls(d, i, j) PROVE i \in 1..m /\ j \in 1..m
  <2>1. ~(j > m) /\ i < j
    BY <1>2, <1>3 DEF Falls
  <2> QED BY <2>1
<1>4. \A i \in 1..m : i \in 1..m + 1
  OBVIOUS
<1>5. LongestTo(d, m + 1, lo)
  <2>1. \A i, j \in 1..m + 1 : Falls(d, i, j) => d[j].t - d[i].t <= lo
    BY <1>1, <1>3 DEF LongestTo
  <2>2. ASSUME lo # 0 PROVE \E i, j \in 1..m + 1 : Falls(d, i, j) /\ d[j].t - d[i].t = lo
    <3>1. PICK i, j \in 1..m : Falls(d, i, j) /\ d[j].t - d[i].t = lo
      BY <1>1, <2>2 DEF LongestTo
    <3> QED BY <1>4, <3>1
  <2> QED BY <2>1, <2>2 DEF LongestTo
<1>6. EndedTo(d, m + 1, es)
  <2>1. ASSUME NEW x \in 1..Len(es) PROVE \E i, j \in 1..m + 1 : Stretch(d, es[x], i, j)
    <3>1. PICK i, j \in 1..m : Stretch(d, es[x], i, j)
      BY <1>1 DEF EndedTo
    <3> QED BY <1>4, <3>1
  <2>2. ASSUME NEW k \in 1..m + 1, ~IsHigh(d, k)
        PROVE  \E x \in 1..Len(es) : \E i, j \in 1..m + 1 : Stretch(d, es[x], i, j) /\ i < k /\ k < j
    <3>1. k \in 1..m
      BY <1>2, <2>2
    <3>2. PICK x \in 1..Len(es) : \E i, j \in 1..m : Stretch(d, es[x], i, j) /\ i < k /\ k < j
      BY <1>1, <2>2, <3>1 DEF EndedTo
    <3> QED BY <1>4, <3>2
  <2> QED BY <2>1, <2>2 DEF EndedTo
<1> QED BY <1>5, <1>6

OneMore(c, d, m, h, su, hi) ==
    /\ GoodCurve(d) /\ m \in Nat /\ Len(c) = m /\ Len(d) = m + 1 /\ \A k \in 1..m : d[k] = c[k]
    /\ h \in 1..m /\ h < m /\ HighAt(c, su, hi, h) /\ d[m + 1].v >= c[h].v
OneStretchMore(es, fs, e) ==
    /\ Len(es) \in Nat /\ Len(fs) = Len(es) + 1
    /\ \A x \in 1..Len(es) : fs[x] = es[x]
    /\ fs[Len(es) + 1] = e
(* A bar back at the high ends the stretch that began at the last one.        *)
LEMMA BarFrom ==
    ASSUME NEW c, NEW d, NEW m, NEW h, NEW su, NEW hi, OneMore(c, d, m, h, su, hi)
    PROVE  /\ hi = d[h].t /\ IsHigh(d, h) /\ IsHigh(d, m + 1) /\ Falls(d, h, m + 1)
           /\ Stretch(d, <<hi, d[m + 1].t>>, h, m + 1)
           /\ \A i, j \in 1..m + 1 : Falls(d, i, j) /\ j > h => d[j].t - d[i].t <= d[m + 1].t - hi
<1>a. /\ GoodCurve(d) /\ m \in Nat /\ Len(c) = m /\ Len(d) = m + 1 /\ \A k \in 1..m : d[k] = c[k]
      /\ h \in 1..m /\ h < m /\ HighAt(c, su, hi, h) /\ d[m + 1].v >= c[h].v
  BY DEF OneMore
<1>1. /\ \A i, j \in 1..m + 1 : Falls(d, i, j) /\ j > h => i >= h
      /\ HighAt(d, 0, d[m + 1].t, m + 1)
  BY <1>a, BarHigh
<1>2. hi = c[h].t /\ IsHigh(c, h) /\ d[h] = c[h] /\ \A k \in h + 1 .. m : c[k].v < c[h].v
  BY <1>a DEF HighAt
<1>3. IsHigh(d, h) /\ IsHigh(d, m + 1)
  BY <1>a, <1>1, <1>2 DEF IsHigh, HighAt
<1>4. /\ \A k \in 1..m + 1 : d[k].t \in Nat /\ d[k].v \in Nat
      /\ \A i, j \in 1..m + 1 : i < j => d[i].t < d[j].t
  BY <1>a DEF GoodCurve
<1>5. h \in 1..m + 1 /\ m + 1 \in 1..m + 1 /\ h \in Nat
  BY <1>a
<1>6. Falls(d, h, m + 1)
  <2>1. \A k \in h + 1 .. m : d[k].v < d[h].v
    BY <1>a, <1>2
  <2> QED BY <1>a, <2>1 DEF Falls
<1>7. Stretch(d, <<hi, d[m + 1].t>>, h, m + 1)
  BY <1>a, <1>2, <1>3, <1>4, <1>5, <1>6 DEF Stretch
<1>8. ASSUME NEW i \in 1..m + 1, NEW j \in 1..m + 1, Falls(d, i, j), j > h
      PROVE  d[j].t - d[i].t <= d[m + 1].t - hi
  <2>1. i >= h
    BY <1>1, <1>8
  <2>2. d[h].t <= d[i].t
    <3>1. CASE i = h
      BY <1>a, <1>4, <1>5, <3>1
    <3>2. CASE i > h
      BY <1>a, <1>4, <1>5, <3>2
    <3> QED BY <1>a, <1>5, <2>1, <3>1, <3>2
  <2>3. d[j].t <= d[m + 1].t
    <3>1. CASE j = m + 1
      BY <1>a, <1>4, <1>5, <3>1
    <3>2. CASE j < m + 1
      BY <1>a, <1>4, <1>5, <3>2
    <3> QED BY <1>a, <1>5, <3>1, <3>2
  <2>4. d[h].t \in Nat /\ d[i].t \in Nat /\ d[j].t \in Nat /\ d[m + 1].t \in Nat /\ hi = d[h].t
    BY <1>2, <1>4, <1>5
  <2> QED BY <2>2, <2>3, <2>4
<1> QED BY <1>2, <1>3, <1>6, <1>7, <1>8

(* The longest is the longer of that stretch and those before,               *)
LEMMA BarEndsLongest ==
    ASSUME NEW c, NEW d, NEW m, NEW h, NEW su, NEW hi, OneMore(c, d, m, h, su, hi),
           NEW lo \in Nat, LongestTo(c, h, lo), NEW w \in Nat, w = d[m + 1].t - hi
    PROVE  LongestTo(d, m + 1, IF lo >= w THEN lo ELSE w)
<1>a. /\ GoodCurve(d) /\ m \in Nat /\ Len(c) = m /\ Len(d) = m + 1 /\ \A k \in 1..m : d[k] = c[k]
      /\ h \in 1..m /\ h < m /\ HighAt(c, su, hi, h) /\ d[m + 1].v >= c[h].v
  BY DEF OneMore
<1>0. h \in Nat /\ \A k \in 1..h : d[k] = c[k]
  BY <1>a
<1>1. LongestTo(d, h, lo)
  BY <1>0, KeptOn
<1>2. /\ hi = d[h].t /\ Falls(d, h, m + 1)
      /\ \A i, j \in 1..m + 1 : Falls(d, i, j) /\ j > h => d[j].t - d[i].t <= w
  <2>1. /\ hi = d[h].t /\ Falls(d, h, m + 1)
        /\ \A i, j \in 1..m + 1 : Falls(d, i, j) /\ j > h => d[j].t - d[i].t <= d[m + 1].t - hi
    <3>1. Falls(d, h, m + 1)
      BY BarFrom
    <3>3. hi = d[h].t
      BY DEF OneMore, HighAt
    <3>2. \A i, j \in 1..m + 1 : Falls(d, i, j) /\ j > h => d[j].t - d[i].t <= d[m + 1].t - hi
      BY BarFrom
    <3> QED BY <3>1, <3>2, <3>3
  <2> QED BY <2>1
<1>3. \A k \in 1..m + 1 : d[k].t \in Nat
  BY <1>a DEF GoodCurve
<1>4. /\ \A i \in 1..h : i \in 1..m + 1
      /\ h \in 1..m + 1 /\ m + 1 \in 1..m + 1 /\ h \in Nat
  BY <1>a
<1> DEFINE most == IF lo >= w THEN lo ELSE w
<1>5. most \in Nat /\ lo <= most /\ w <= most /\ most \in {lo, w}
  OBVIOUS
<1> HIDE DEF most
<1>6. ASSUME NEW i \in 1..m + 1, NEW j \in 1..m + 1, Falls(d, i, j)
      PROVE  d[j].t - d[i].t <= most
  <2>0. d[i].t \in Nat /\ d[j].t \in Nat
    BY <1>3
  <2>1. CASE j > h
    <3>1. d[j].t - d[i].t <= w
      BY <1>2, <1>6, <2>1
    <3> QED BY <1>5, <2>0, <3>1
  <2>2. CASE ~(j > h)
    <3>1. i \in 1..h /\ j \in 1..h
      BY <1>a, <1>6, <2>2 DEF Falls
    <3>2. d[j].t - d[i].t <= lo
      BY <1>1, <1>6, <3>1 DEF LongestTo
    <3> QED BY <1>5, <2>0, <3>2
  <2> QED BY <2>1, <2>2
<1>7. ASSUME most # 0 PROVE \E i, j \in 1..m + 1 : Falls(d, i, j) /\ d[j].t - d[i].t = most
  <2>1. CASE most = lo
    <3>1. PICK i, j \in 1..h : Falls(d, i, j) /\ d[j].t - d[i].t = lo
      BY <1>1, <1>7, <2>1 DEF LongestTo
    <3> QED BY <1>4, <2>1, <3>1
  <2>2. CASE most = w
    BY <1>2, <1>4, <2>2
  <2> QED BY <1>5, <2>1, <2>2
<1>8. LongestTo(d, m + 1, most)
  BY <1>6, <1>7 DEF LongestTo
<1> QED BY <1>8 DEF most

(* and the list of those that ended has it last.                             *)
LEMMA BarEndsStretch ==
    ASSUME NEW c, NEW d, NEW m, NEW h, NEW su, NEW hi, OneMore(c, d, m, h, su, hi),
           NEW es, NEW fs, EndedTo(c, h, es), OneStretchMore(es, fs, <<hi, d[m + 1].t>>)
    PROVE  EndedTo(d, m + 1, fs)
<1>a. /\ GoodCurve(d) /\ m \in Nat /\ Len(c) = m /\ Len(d) = m + 1 /\ \A k \in 1..m : d[k] = c[k]
      /\ h \in 1..m /\ h < m /\ HighAt(c, su, hi, h) /\ d[m + 1].v >= c[h].v
  BY DEF OneMore
<1> DEFINE z == Len(es)
<1>b. z \in Nat /\ Len(fs) = z + 1 /\ (\A x \in 1..z : fs[x] = es[x]) /\ fs[z + 1] = <<hi, d[m + 1].t>>
  BY DEF OneStretchMore
<1> HIDE DEF z
<1>0. h \in Nat /\ \A k \in 1..h : d[k] = c[k]
  BY <1>a
<1>1. EndedTo(d, h, es)
  BY <1>0, KeptOn
<1>2. IsHigh(d, m + 1) /\ Stretch(d, <<hi, d[m + 1].t>>, h, m + 1)
  BY BarFrom
<1>4. /\ \A i \in 1..h : i \in 1..m + 1
      /\ h \in 1..m + 1 /\ m + 1 \in 1..m + 1 /\ h \in Nat
      /\ z + 1 \in 1..z + 1 /\ \A x \in 1..z : x \in 1..z + 1
      /\ \A x \in 1..z + 1 : x \in 1..z \/ x = z + 1
  BY <1>a, <1>b
<1>5. ASSUME NEW x \in 1..z + 1 PROVE \E i, j \in 1..m + 1 : Stretch(d, fs[x], i, j)
  <2>1. CASE x \in 1..z
    <3>1. PICK i, j \in 1..h : Stretch(d, es[x], i, j)
      BY <1>b, <1>1, <2>1 DEF EndedTo, z
    <3>2. Stretch(d, fs[x], i, j)
      BY <1>b, <2>1, <3>1
    <3> QED BY <1>4, <3>2
  <2>2. CASE x = z + 1
    <3>1. Stretch(d, fs[x], h, m + 1)
      BY <1>b, <1>2, <2>2
    <3> QED BY <1>4, <3>1
  <2> QED BY <1>4, <2>1, <2>2
<1>6. ASSUME NEW k \in 1..m + 1, ~IsHigh(d, k)
      PROVE  \E x \in 1..z + 1 : \E i, j \in 1..m + 1 : Stretch(d, fs[x], i, j) /\ i < k /\ k < j
  <2>1. CASE k \in 1..h
    <3>1. PICK x \in 1..z : \E i, j \in 1..h : Stretch(d, es[x], i, j) /\ i < k /\ k < j
      BY <1>b, <1>1, <1>6, <2>1 DEF EndedTo, z
    <3>2. PICK i, j \in 1..h : Stretch(d, es[x], i, j) /\ i < k /\ k < j
      BY <3>1
    <3>3. Stretch(d, fs[x], i, j)
      BY <1>b, <3>2
    <3> QED BY <1>4, <3>2, <3>3
  <2>2. CASE k \notin 1..h
    <3>1. k # m + 1
      BY <1>2, <1>6
    <3>2. h < k /\ k < m + 1
      BY <1>a, <2>2, <3>1
    <3>3. Stretch(d, fs[z + 1], h, m + 1)
      BY <1>b, <1>2
    <3> QED BY <1>4, <3>2, <3>3
  <2> QED BY <2>1, <2>2
<1> QED BY <1>b, <1>5, <1>6 DEF EndedTo, z

-----------------------------------------------------------------------------
(* Counting off, medians *)

UpTo(V, k) == {j \in V : j <= k}
(* The members of a finite set of integers, counted from the least, are       *)
(* numbered 1 to as many as there are, the greater the higher.                *)
LEMMA NumberedOff ==
    ASSUME NEW V \in SUBSET Int, IsFiniteSet(V)
    PROVE  /\ \A k \in V : Cardinality(UpTo(V, k)) \in 1..Cardinality(V)
           /\ \A k, m \in V : k < m => Cardinality(UpTo(V, k)) < Cardinality(UpTo(V, m))
           /\ \A i \in 1..Cardinality(V) : \E k \in V : Cardinality(UpTo(V, k)) = i
<1> DEFINE n == Cardinality(V)
           place == [k \in V |-> Cardinality(UpTo(V, k))]
<1>1. n \in Nat
  BY FS_CardinalityType
<1>2. ASSUME NEW k \in V
      PROVE  /\ IsFiniteSet(UpTo(V, k)) /\ Cardinality(UpTo(V, k)) \in Nat
             /\ 1 <= Cardinality(UpTo(V, k)) /\ Cardinality(UpTo(V, k)) <= n
  <2>1. UpTo(V, k) \subseteq V /\ k \in UpTo(V, k)
    BY DEF UpTo
  <2>2. IsFiniteSet(UpTo(V, k)) /\ Cardinality(UpTo(V, k)) <= Cardinality(V)
    BY <2>1, FS_Subset
  <2>3. Cardinality(UpTo(V, k)) \in Nat
    BY <2>2, FS_CardinalityType
  <2>4. Cardinality(UpTo(V, k)) # 0
    BY <2>1, <2>2, FS_EmptySet
  <2> QED BY <2>2, <2>3, <2>4
<1>3. ASSUME NEW k \in V, NEW m \in V, k < m
      PROVE  Cardinality(UpTo(V, k)) < Cardinality(UpTo(V, m))
  <2>1. UpTo(V, k) \subseteq UpTo(V, m) /\ m \in UpTo(V, m) /\ m \notin UpTo(V, k)
    <3>1. k \in Int /\ m \in Int /\ \A j \in V : j \in Int
      OBVIOUS
    <3>2. \A j \in V : j <= k => j <= m
      BY <1>3, <3>1
    <3>3. m <= m /\ ~(m <= k)
      BY <1>3, <3>1
    <3> QED BY <3>2, <3>3 DEF UpTo
  <2>2. /\ Cardinality(UpTo(V, k)) <= Cardinality(UpTo(V, m))
        /\ Cardinality(UpTo(V, m)) = Cardinality(UpTo(V, k)) => UpTo(V, m) = UpTo(V, k)
    BY <1>2, <2>1, FS_Subset
  <2>3. Cardinality(UpTo(V, k)) # Cardinality(UpTo(V, m))
    BY <2>1, <2>2
  <2>4. Cardinality(UpTo(V, k)) \in Nat /\ Cardinality(UpTo(V, m)) \in Nat
    BY <1>2
  <2> QED BY <2>2, <2>3, <2>4
<1>4. \A k, m \in V : place[k] = place[m] => k = m
  <2> SUFFICES ASSUME NEW k \in V, NEW m \in V, place[k] = place[m], k # m PROVE FALSE
    OBVIOUS
  <2>1. k < m \/ m < k
    OBVIOUS
  <2>2. place[k] < place[m] \/ place[m] < place[k]
    BY <1>3, <2>1
  <2>3. place[k] \in Nat /\ place[m] \in Nat
    BY <1>2
  <2> HIDE DEF place
  <2> QED BY <2>2, <2>3
<1>5. ASSUME NEW i \in 1..n, \A k \in V : place[k] # i PROVE FALSE
  <2> DEFINE Others == (1..n) \ {i}
  <2>1. IsFiniteSet(1..n) /\ Cardinality(1..n) = n
    <3>1. IsFiniteSet(1..n) /\ Cardinality(1..n) = IF 1 > n THEN 0 ELSE n - 1 + 1
      <4> HIDE DEF n
      <4> QED BY <1>1, FS_Interval
    <3> HIDE DEF n
    <3> QED BY <1>1, <3>1
  <2>2. IsFiniteSet(Others) /\ Cardinality(Others) = n - 1
    <3> HIDE DEF n
    <3> QED BY <2>1, FS_RemoveElement
  <2>3. place \in [V -> Others]
    <3>1. \A k \in V : place[k] \in Others
      BY <1>1, <1>2, <1>5
    <3> QED BY <3>1
  <2>4. Cardinality(Others) < n
    <3> HIDE DEF n, Others
    <3> QED BY <1>1, <2>2
  <2> HIDE DEF Others, place
  <2>5. \E k, m \in V : k # m /\ place[k] = place[m]
    BY <2>2, <2>3, <2>4, FS_PigeonHole
  <2> QED BY <1>4, <2>5
<1>6. \A k \in V : place[k] = Cardinality(UpTo(V, k))
  OBVIOUS
<1>7. \A k \in V : Cardinality(UpTo(V, k)) \in 1..n
  BY <1>1, <1>2
<1> HIDE DEF n, place
<1> QED BY <1>3, <1>5, <1>6, <1>7 DEF n

(* What a function takes on a finite set to is no more than the set.          *)
LEMMA Covered ==
    ASSUME NEW V, IsFiniteSet(V), NEW f, NEW U, U \subseteq {f[x] : x \in V}
    PROVE  IsFiniteSet(U) /\ Cardinality(U) <= Cardinality(V)
<1> DEFINE g == [x \in V |-> f[x]]
           I == {f[x] : x \in V}
<1>1. g \in Surjection(V, I)
  BY DEF Surjection
<1> HIDE DEF g, I
<1>2. IsFiniteSet(I) /\ Cardinality(I) <= Cardinality(V)
  BY <1>1, FS_Surjection
<1>3. U \subseteq I
  BY DEF I
<1>4. IsFiniteSet(U) /\ Cardinality(U) <= Cardinality(I)
  BY <1>2, <1>3, FS_Subset
<1>5. Cardinality(U) \in Nat /\ Cardinality(I) \in Nat /\ Cardinality(V) \in Nat
  BY <1>2, <1>4, FS_CardinalityType
<1> QED BY <1>2, <1>4, <1>5

Below(V, f, x) == {i \in V : f[i] < x}
AtMost(V, f, x) == {i \in V : f[i] <= x}
IsNth(V, f, k, x) ==
    /\ Cardinality(Below(V, f, x)) < k
    /\ Cardinality(AtMost(V, f, x)) >= k

(* Among as many values as there are, one is the kth from below.              *)
LEMMA NthExists ==
    ASSUME NEW V, IsFiniteSet(V), NEW f, \A i \in V : f[i] \in Int, NEW k \in 1..Cardinality(V)
    PROVE  \E i \in V : IsNth(V, f, k, f[i])
<1>0. Cardinality(V) \in Nat /\ V # {} /\ k \in Nat /\ 1 <= k /\ k <= Cardinality(V)
  BY FS_CardinalityType, FS_EmptySet
<1>1. ASSUME NEW x
      PROVE  /\ IsFiniteSet(Below(V, f, x)) /\ IsFiniteSet(AtMost(V, f, x))
             /\ Cardinality(Below(V, f, x)) \in Nat /\ Cardinality(AtMost(V, f, x)) \in Nat
  <2>1. Below(V, f, x) \subseteq V /\ AtMost(V, f, x) \subseteq V
    BY DEF Below, AtMost
  <2>2. IsFiniteSet(Below(V, f, x)) /\ IsFiniteSet(AtMost(V, f, x))
    BY <2>1, FS_Subset
  <2> QED BY <2>2, FS_CardinalityType
<1> DEFINE Good == {i \in V : Cardinality(AtMost(V, f, f[i])) >= k}
           g == [i \in Good |-> f[i]]
<1>2. Good # {}
  <2> DEFINE w == [i \in V |-> f[i]]
  <2>0. w \in [V -> Int]
    OBVIOUS
  <2>1. PICK h \in V : \A i \in V : w[i] <= w[h]
    <3> HIDE DEF w
    <3> QED BY <1>0, <2>0, Extremes
  <2>2. AtMost(V, f, f[h]) = V
    BY <2>1 DEF AtMost
  <2>3. h \in Good
    BY <1>0, <2>2
  <2> QED BY <2>3
<1>3. IsFiniteSet(Good) /\ g \in [Good -> Int]
  <2>1. Good \subseteq V
    OBVIOUS
  <2> QED BY <2>1, FS_Subset
<1>4. PICK l \in Good : \A i \in Good : g[l] <= g[i]
  <2> HIDE DEF Good, g
  <2> QED BY <1>2, <1>3, Extremes
<1>5. l \in V /\ Cardinality(AtMost(V, f, f[l])) >= k
  OBVIOUS
<1>6. \A i \in Good : f[l] <= f[i]
  BY <1>4
<1>7. ASSUME ~(Cardinality(Below(V, f, f[l])) < k) PROVE FALSE
  <2> DEFINE U == Below(V, f, f[l])
             e == [i \in U |-> f[i]]
  <2>1. IsFiniteSet(U) /\ Cardinality(U) \in Nat /\ Cardinality(U) >= k
    BY <1>0, <1>1, <1>7
  <2>2. U # {} /\ e \in [U -> Int]
    <3>1. U # {}
      BY <1>0, <2>1, FS_EmptySet
    <3> QED BY <3>1 DEF Below
  <2>3. PICK m \in U : \A i \in U : e[i] <= e[m]
    <3> HIDE DEF U, e
    <3> QED BY <2>1, <2>2, Extremes
  <2>4. m \in V /\ f[m] < f[l] /\ U \subseteq AtMost(V, f, f[m])
    BY <2>3 DEF Below, AtMost
  <2>5. Cardinality(AtMost(V, f, f[m])) >= k
    <3>1. Cardinality(U) <= Cardinality(AtMost(V, f, f[m]))
      <4> HIDE DEF U
      <4> QED BY <1>1, <2>4, FS_Subset
    <3>2. Cardinality(AtMost(V, f, f[m])) \in Nat
      BY <1>1
    <3> HIDE DEF U
    <3> QED BY <1>0, <2>1, <3>1, <3>2
  <2>6. f[l] <= f[m] /\ f[l] \in Int /\ f[m] \in Int
    BY <1>5, <1>6, <2>4, <2>5
  <2> QED BY <2>4, <2>6
<1> QED BY <1>5, <1>7 DEF IsNth

(* A median, as twice itself, is below a line whenever most values are, and   *)
(* only when half of them are.                                                *)
LEMMA MedianOfMajority ==
    ASSUME NEW V, IsFiniteSet(V), V # {}, NEW f, \A i \in V : f[i] \in Int,
           NEW low \in Int, NEW high \in Int, NEW line \in Int,
           IsNth(V, f, (Cardinality(V) + 1) \div 2, low), IsNth(V, f, Cardinality(V) \div 2 + 1, high)
    PROVE  LET under == Cardinality({i \in V : 100 * f[i] < line})
           IN  /\ 2 * under > Cardinality(V) => 50 * (low + high) < line
               /\ 50 * (low + high) < line => 2 * under >= Cardinality(V)
<1> DEFINE n == Cardinality(V)
           Under == {i \in V : 100 * f[i] < line}
           under == Cardinality(Under)
<1>1. n \in Nat /\ n # 0
  BY FS_CardinalityType, FS_EmptySet
<1>2. IsFiniteSet(Under) /\ under \in Nat
  <2>1. IsFiniteSet(Under)
    BY FS_Subset
  <2> QED BY <2>1, FS_CardinalityType
<1>3. ASSUME NEW k \in Nat, NEW x \in Int, IsNth(V, f, k, x)
      PROVE  /\ under >= k => 100 * x < line
             /\ 100 * x < line => under >= k
  <2>1. /\ IsFiniteSet(Below(V, f, x)) /\ IsFiniteSet(AtMost(V, f, x))
        /\ Cardinality(Below(V, f, x)) \in Nat /\ Cardinality(AtMost(V, f, x)) \in Nat
    <3>1. IsFiniteSet(Below(V, f, x)) /\ IsFiniteSet(AtMost(V, f, x))
      BY FS_Subset DEF Below, AtMost
    <3> QED BY <3>1, FS_CardinalityType
  <2>2. ASSUME 100 * x >= line PROVE under < k
    <3>1. Under \subseteq Below(V, f, x)
      BY <2>2 DEF Below
    <3>2. under <= Cardinality(Below(V, f, x))
      <4> HIDE DEF Under
      <4> QED BY <2>1, <3>1, FS_Subset
    <3> HIDE DEF under
    <3> QED BY <1>2, <1>3, <2>1, <3>2 DEF IsNth
  <2>3. ASSUME 100 * x < line PROVE under >= k
    <3>1. AtMost(V, f, x) \subseteq Under
      BY <2>3 DEF AtMost
    <3>2. Cardinality(AtMost(V, f, x)) <= under
      <4> HIDE DEF Under
      <4> QED BY <1>2, <3>1, FS_Subset
    <3> HIDE DEF under
    <3> QED BY <1>2, <1>3, <2>1, <3>2 DEF IsNth
  <2> HIDE DEF under
  <2> QED BY <1>2, <2>2, <2>3
<1> HIDE DEF Under
<1>4. (n + 1) \div 2 \in Nat /\ n \div 2 + 1 \in Nat
  <2> HIDE DEF n
  <2> QED BY <1>1
<1>5. /\ under >= (n + 1) \div 2 => 100 * low < line
      /\ 100 * low < line => under >= (n + 1) \div 2
      /\ under >= n \div 2 + 1 => 100 * high < line
      /\ 100 * high < line => under >= n \div 2 + 1
  BY <1>3, <1>4
<1>6. /\ 2 * under > n => 50 * (low + high) < line
      /\ 50 * (low + high) < line => 2 * under >= n
  <2> HIDE DEF n, under
  <2> QED BY <1>1, <1>2, <1>5
<1> QED BY <1>6 DEF n, under, Under

(* The first of those where a function is least.                              *)
LEMMA FirstLeast ==
    ASSUME NEW k \in Nat, NEW V \in SUBSET (1..k), V # {}, NEW f, \A i \in V : f[i] \in Int
    PROVE  \E i \in V : \A j \in V : f[i] < f[j] \/ (f[i] = f[j] /\ i <= j)
<1>1. IsFiniteSet(V)
  <2>1. IsFiniteSet(1..k)
    BY FS_Interval
  <2> QED BY <2>1, FS_Subset
<1> DEFINE g == [i \in V |-> f[i]]
<1>2. PICK l \in V : \A j \in V : g[l] <= g[j]
  <2>1. g \in [V -> Int]
    OBVIOUS
  <2> HIDE DEF g
  <2> QED BY <1>1, <2>1, Extremes
<1> DEFINE U == {i \in V : f[i] = f[l]}
<1>3. U \in SUBSET Nat /\ U # {}
  <2>1. l \in U
    OBVIOUS
  <2>2. \A i \in V : i \in Nat
    OBVIOUS
  <2> QED BY <2>1, <2>2
<1>4. PICK m \in U : \A j \in U : m <= j
  <2> HIDE DEF U
  <2> QED BY <1>3, LeastOf
<1>5. ASSUME NEW j \in V PROVE f[m] < f[j] \/ (f[m] = f[j] /\ m <= j)
  BY <1>2, <1>4
<1> QED BY <1>5

(* Two different values are both in a set of them that is neither empty nor   *)
(* of one member, and only there.                                             *)
LEMMA BothThere ==
    ASSUME NEW a, NEW b, a # b, NEW U, U \subseteq {a, b}
    PROVE  /\ U # {} /\ Cardinality(U) # 1 => a \in U /\ b \in U
           /\ a \in U /\ b \in U => Cardinality(U) # 1
<1>1. IsFiniteSet(U)
  <2>1. IsFiniteSet({a})
    BY FS_Singleton
  <2>2. IsFiniteSet({a} \cup {b})
    BY <2>1, FS_AddElement
  <2>3. U \subseteq {a} \cup {b}
    OBVIOUS
  <2> QED BY <2>2, <2>3, FS_Subset
<1>2. Cardinality(U) = 1 <=> \E x : U = {x}
  BY <1>1, FS_Singleton
<1>3. U = {} \/ U = {a} \/ U = {b} \/ (a \in U /\ b \in U)
  OBVIOUS
<1>4. a \in U /\ b \in U => ~\E x : U = {x}
  OBVIOUS
<1> QED BY <1>2, <1>3, <1>4
=============================================================================
