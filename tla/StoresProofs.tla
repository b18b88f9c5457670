---------------------------- MODULE StoresProofs ----------------------------
(* Theorems about MCStores: what the lab keeps beside the registry - the      *)
(* indicator cache, the event journal - what a strategy reads of the market,  *)
(* and the vendor's data in the event table, for every value of the           *)
(* constants. A step of the system is a step of the store that was chosen or  *)
(* leaves what it keeps alone.                                                *)
EXTENDS MCStores, FiniteSetTheorems, SequenceTheorems, WellFoundedInduction, TLAPS

all == <<half, feed, registry, journals, again, cache, trials, daily, wall>>

-----------------------------------------------------------------------------
(* The indicator cache, for any callers, any processes they share, any        *)
(* spellings, restatements, deaths and clearings.                             *)

LEMMA CacheSteps == [Next]_all => [C!Next]_C!cacheVars
<1>1. Times => [C!Next]_C!cacheVars
  BY DEF Times, cache, C!cacheVars
<1>2. UNCHANGED cache => UNCHANGED C!cacheVars
  BY DEF cache, C!cacheVars
<1> QED BY <1>1, <1>2 DEF Next, all, cache, C!cacheVars


Places == {"calm", "get", "write", "writing", "replace", "replaced", "raised", "done"}
Series == C!Keys \cup {<<>>}
Files == [of : Series, open : SUBSET (Askers \cup {"dead"})]
Names == {Process[a] : a \in Askers} \X C!Keys
Askings == [at : Places, spelling : DOMAIN Spellings, version : 1..MaxVersion, got : Series]

CacheType ==
    /\ version \in 1..MaxVersion
    /\ entries \in [C!Keys -> Files] /\ temps \in [Names -> Files]
    /\ ask \in [Askers -> Askings]

(* Whoever wrote a file, and wherever it was renamed to since, it holds the   *)
(* series its name stands for, whole or not.                                  *)
Held ==
    /\ \A k \in C!Keys : entries[k] # C!None => entries[k].of = k
    /\ \A t \in Names : temps[t] # C!None => temps[t].of = t[2]
Given == \A a \in Askers : ask[a].at = "done" => ask[a].got = C!Mine(a)
CacheInv == CacheType /\ Held /\ Given

LEMMA NoneIsAFile == C!None \in Files
BY DEF C!None, Files, Series

(* The key of what is asked for is what would be computed, in every state.    *)
LEMMA KeyOfAsking ==
    ASSUME CacheType, NEW a \in Askers
    PROVE  C!Mine(a) \in C!Keys /\ C!Computed(a) = C!Mine(a) /\ C!Temp(a) \in Names /\ C!Temp(a)[2] = C!Mine(a)
<1>1. ask[a].spelling \in DOMAIN Spellings /\ ask[a].version \in 1..MaxVersion
  BY DEF CacheType, Askings
<1>2. C!Mine(a) \in C!Keys
  BY <1>1 DEF C!Mine, C!Key, C!Keys
<1> QED BY <1>2 DEF C!Mine, C!Key, C!Computed, C!Value, C!Temp, Names

(* Ending a file changes neither what it holds nor whether it is there.       *)
LEMMA ClosedFile ==
    ASSUME NEW e \in Files, NEW Y, NEW left \in SUBSET (Askers \cup {"dead"})
    PROVE  /\ C!Closed(e, Y, left) \in Files
           /\ C!Closed(e, Y, left).of = e.of
           /\ e = C!None => C!Closed(e, Y, left) = C!None
<1>1. CASE e.open \cap Y = {}
  BY <1>1 DEF C!Closed
<1>2. CASE e.open \cap Y # {}
  <2>1. C!Closed(e, Y, left) = [e EXCEPT !.open = (e.open \ Y) \cup left]
    BY <1>2 DEF C!Closed
  <2>2. e # C!None
    BY <1>2 DEF C!None
  <2> QED BY <2>1, <2>2 DEF Files
<1> QED BY <1>1, <1>2

LEMMA CacheInit == C!CacheAssumption /\ C!Init => CacheInv
<1> SUFFICES ASSUME C!CacheAssumption, C!Init PROVE CacheInv
  OBVIOUS
<1>1. 1 \in 1..MaxVersion
  BY DEF C!CacheAssumption
<1>2. C!Calm \in Askings
  BY <1>1 DEF C!CacheAssumption, C!Calm, Askings, Places, Series
<1>3. CacheType
  BY <1>1, <1>2, NoneIsAFile DEF C!Init, CacheType, Names
<1>4. Held
  BY DEF C!Init, Held, Names
<1>5. Given
  BY DEF C!Init, Given, C!Calm
<1> QED BY <1>3, <1>4, <1>5 DEF CacheInv

(* A caller goes to another place, or asks for another thing.                 *)
LEMMA CallerMoves ==
    ASSUME CacheInv, UNCHANGED <<version, entries, temps>>, ask' \in [Askers -> Askings],
           NEW a \in Askers, \A b \in Askers \ {a} : ask'[b] = ask[b],
           ask'[a].at = "done" => ask'[a].got = C!Mine(a)'
    PROVE  CacheInv'
<1>1. CacheType' /\ Held'
  BY DEF CacheInv, CacheType, Held
<1>2. ASSUME NEW b \in Askers \ {a} PROVE C!Mine(b)' = C!Mine(b)
  BY <1>2 DEF C!Mine, C!Key
<1>3. Given'
  BY <1>2 DEF CacheInv, Given
<1> QED BY <1>1, <1>3 DEF CacheInv

LEMMA CacheStep == C!CacheAssumption /\ CacheInv /\ [C!Next]_C!cacheVars => CacheInv'
<1> SUFFICES ASSUME C!CacheAssumption, CacheInv, [C!Next]_C!cacheVars PROVE CacheInv'
  OBVIOUS
<1>0. CacheType /\ Held /\ Given
  BY DEF CacheInv
<1>a. ASSUME NEW a \in Askers, NEW to \in Places, C!Goes(a, to)
      PROVE  /\ ask' \in [Askers -> Askings] /\ \A b \in Askers \ {a} : ask'[b] = ask[b]
             /\ ask'[a].at = to /\ ask'[a].got = ask[a].got /\ \A b \in Askers : C!Mine(b)' = C!Mine(b)
  <2>1. ask[a] \in Askings /\ ask' = [ask EXCEPT ![a] = [ask[a] EXCEPT !.at = to]]
    BY <1>0, <1>a DEF C!Goes, CacheType
  <2>2. [ask[a] EXCEPT !.at = to] \in Askings
    BY <2>1 DEF Askings
  <2>3. ask'[a] = [ask[a] EXCEPT !.at = to] /\ \A b \in Askers \ {a} : ask'[b] = ask[b]
    BY <1>0, <2>1 DEF CacheType
  <2>4. ask' \in [Askers -> Askings]
    BY <1>0, <2>1, <2>2 DEF CacheType
  <2>5. /\ ask'[a].at = to /\ ask'[a].got = ask[a].got
        /\ ask'[a].spelling = ask[a].spelling /\ ask'[a].version = ask[a].version
    BY <2>1, <2>3 DEF Askings
  <2> QED BY <2>3, <2>4, <2>5 DEF C!Mine, C!Key
<1>b. ASSUME NEW a \in Askers, NEW value \in C!Keys, C!Returns(a, value)
      PROVE  /\ ask' \in [Askers -> Askings] /\ \A b \in Askers \ {a} : ask'[b] = ask[b]
             /\ ask'[a].got = value /\ \A b \in Askers : C!Mine(b)' = C!Mine(b)
  <2> DEFINE x == [ask[a] EXCEPT !.at = "done", !.got = value]
  <2>1. ask[a] \in Askings /\ ask' = [ask EXCEPT ![a] = x]
    BY <1>0, <1>b DEF C!Returns, CacheType
  <2>2. x \in Askings /\ x.got = value /\ x.spelling = ask[a].spelling /\ x.version = ask[a].version
    BY <2>1 DEF Askings, Series, Places
  <2> HIDE DEF x
  <2>3. ask'[a] = x /\ \A b \in Askers \ {a} : ask'[b] = ask[b]
    BY <1>0, <2>1 DEF CacheType
  <2>4. ask' \in [Askers -> Askings]
    BY <1>0, <2>1, <2>2 DEF CacheType
  <2> QED BY <2>2, <2>3, <2>4 DEF C!Mine, C!Key
<1>1. ASSUME NEW a \in Askers, NEW spelling \in DOMAIN Spellings, C!Ask(a, spelling) PROVE CacheInv'
  <2> DEFINE x == [at |-> "get", spelling |-> spelling, version |-> version, got |-> <<>>]
  <2>1. x \in Askings /\ x.at = "get"
    BY <1>0 DEF CacheType, Askings, Places, Series
  <2>2. ask' = [ask EXCEPT ![a] = x] /\ UNCHANGED <<version, entries, temps>>
    BY <1>1 DEF C!Ask
  <2> HIDE DEF x
  <2>3. /\ ask'[a] = x /\ \A b \in Askers \ {a} : ask'[b] = ask[b]
        /\ ask' \in [Askers -> Askings]
    BY <1>0, <2>1, <2>2 DEF CacheType
  <2> QED BY <2>1, <2>2, <2>3, CallerMoves
<1>2. ASSUME NEW a \in Askers, C!Hit(a) PROVE CacheInv'
  <2>1. /\ entries[C!Mine(a)] # C!None /\ C!Mine(a) \in C!Keys
        /\ C!Returns(a, entries[C!Mine(a)].of) /\ UNCHANGED <<version, entries, temps>>
    BY <1>0, <1>2, KeyOfAsking DEF C!Hit, C!Readable
  <2>2. entries[C!Mine(a)].of = C!Mine(a)
    BY <1>0, <2>1 DEF Held
  <2> QED BY <1>b, <2>1, <2>2, CallerMoves
<1>3. ASSUME NEW a \in Askers, C!Miss(a) PROVE CacheInv'
  <2>1. /\ C!Goes(a, "write") /\ entries' = [entries EXCEPT ![C!Mine(a)] = C!None]
        /\ UNCHANGED <<version, temps>> /\ C!Mine(a) \in C!Keys
    BY <1>0, <1>3, KeyOfAsking DEF C!Miss
  <2>2. CacheType'
    BY <1>0, <1>a, <2>1, NoneIsAFile DEF CacheType, Places
  <2>3. Held'
    BY <1>0, <2>1 DEF Held, CacheType
  <2>4. Given'
    BY <1>0, <1>a, <2>1 DEF Given, Places
  <2> QED BY <2>2, <2>3, <2>4 DEF CacheInv
<1>4. ASSUME NEW a \in Askers, C!Begin(a) PROVE CacheInv'
  <2> DEFINE x == [of |-> C!Computed(a), open |-> temps[C!Temp(a)].open \cup {a}]
  <2>1. /\ C!Goes(a, "writing") /\ temps' = [temps EXCEPT ![C!Temp(a)] = x]
        /\ UNCHANGED <<version, entries>>
    BY <1>4 DEF C!Begin
  <2>2. C!Temp(a) \in Names /\ C!Temp(a)[2] = C!Mine(a) /\ C!Computed(a) = C!Mine(a) /\ C!Mine(a) \in C!Keys
    BY <1>0, KeyOfAsking
  <2>3. x \in Files /\ x.of = C!Mine(a)
    <3>1. temps[C!Temp(a)] \in Files
      BY <1>0, <2>2 DEF CacheType
    <3> QED BY <2>2, <3>1 DEF Files, Series
  <2> HIDE DEF x
  <2>4. CacheType'
    BY <1>0, <1>a, <2>1, <2>2, <2>3 DEF CacheType, Places
  <2>5. Held'
    BY <1>0, <2>1, <2>2, <2>3 DEF Held, CacheType
  <2>6. Given'
    BY <1>0, <1>a, <2>1 DEF Given, Places
  <2> QED BY <2>4, <2>5, <2>6 DEF CacheInv
<1>c. ASSUME NEW Y, NEW left \in SUBSET (Askers \cup {"dead"}),
             temps' = [t \in DOMAIN temps |-> C!Closed(temps[t], Y, left)],
             entries' = [k \in C!Keys |-> C!Closed(entries[k], Y, left)]
      PROVE  entries' \in [C!Keys -> Files] /\ temps' \in [Names -> Files] /\ Held'
  <2>1. /\ \A k \in C!Keys : entries[k] \in Files /\ entries'[k] = C!Closed(entries[k], Y, left)
        /\ \A t \in Names : temps[t] \in Files /\ temps'[t] = C!Closed(temps[t], Y, left)
    BY <1>0, <1>c DEF CacheType
  <2>2. /\ \A k \in C!Keys : /\ entries'[k] \in Files /\ entries'[k].of = entries[k].of
                             /\ entries[k] = C!None => entries'[k] = C!None
        /\ \A t \in Names : /\ temps'[t] \in Files /\ temps'[t].of = temps[t].of
                            /\ temps[t] = C!None => temps'[t] = C!None
    BY <2>1, <1>c, ClosedFile
  <2>3. entries' \in [C!Keys -> Files]
    BY <1>c, <2>2
  <2>4. temps' \in [Names -> Files]
    <3>1. DOMAIN temps = Names
      BY <1>0 DEF CacheType
    <3> QED BY <1>c, <2>2, <3>1
  <2>5. ASSUME NEW k \in C!Keys PROVE entries'[k] # C!None => entries'[k].of = k
    BY <1>0, <2>2 DEF Held
  <2>6. ASSUME NEW t \in Names PROVE temps'[t] # C!None => temps'[t].of = t[2]
    BY <1>0, <2>2 DEF Held
  <2> QED BY <2>3, <2>4, <2>5, <2>6 DEF Held
<1>5. ASSUME NEW a \in Askers, C!End(a) PROVE CacheInv'
  <2>1. /\ C!Goes(a, "replace") /\ UNCHANGED version
        /\ temps' = [t \in DOMAIN temps |-> C!Closed(temps[t], {a}, {})]
        /\ entries' = [k \in C!Keys |-> C!Closed(entries[k], {a}, {})]
    BY <1>5 DEF C!End
  <2>2. entries' \in [C!Keys -> Files] /\ temps' \in [Names -> Files] /\ Held'
    BY <1>c, <2>1
  <2>3. CacheType'
    BY <1>0, <1>a, <2>1, <2>2 DEF CacheType, Places
  <2>4. Given'
    BY <1>0, <1>a, <2>1 DEF Given, Places
  <2> QED BY <2>2, <2>3, <2>4 DEF CacheInv
<1>6. ASSUME NEW a \in Askers, C!Replace(a) PROVE CacheInv'
  <2>1. C!Temp(a) \in Names /\ C!Temp(a)[2] = C!Mine(a) /\ C!Mine(a) \in C!Keys
    BY <1>0, KeyOfAsking
  <2>2. CASE temps[C!Temp(a)] = C!None
    <3>1. C!Goes(a, "raised") /\ UNCHANGED <<version, entries, temps>>
      BY <1>6, <2>2 DEF C!Replace
    <3> QED BY <1>a, <3>1, CallerMoves DEF Places
  <2>3. CASE temps[C!Temp(a)] # C!None
    <3>1. /\ entries' = [entries EXCEPT ![C!Mine(a)] = temps[C!Temp(a)]]
          /\ temps' = [temps EXCEPT ![C!Temp(a)] = C!None]
          /\ C!Goes(a, "replaced") /\ UNCHANGED version
      BY <1>6, <2>3 DEF C!Replace
    <3>2. temps[C!Temp(a)] \in Files /\ temps[C!Temp(a)].of = C!Mine(a)
      BY <1>0, <2>1, <2>3 DEF CacheType, Held
    <3>3. CacheType'
      BY <1>0, <1>a, <2>1, <3>1, <3>2, NoneIsAFile DEF CacheType, Places
    <3>4. Held'
      BY <1>0, <2>1, <3>1, <3>2 DEF Held, CacheType
    <3>5. Given'
      BY <1>0, <1>a, <3>1 DEF Given, Places
    <3> QED BY <3>3, <3>4, <3>5 DEF CacheInv
  <2> QED BY <2>2, <2>3
<1>7. ASSUME NEW a \in Askers, C!Unlink(a) PROVE CacheInv'
  <2>1. C!Temp(a) \in Names /\ C!Computed(a) = C!Mine(a) /\ C!Mine(a) \in C!Keys
    BY <1>0, KeyOfAsking
  <2>2. /\ temps' = [temps EXCEPT ![C!Temp(a)] = C!None] /\ UNCHANGED <<version, entries>>
        /\ C!Returns(a, C!Computed(a)) \/ C!Goes(a, "calm")
    BY <1>7 DEF C!Unlink
  <2>3. /\ ask' \in [Askers -> Askings] /\ \A b \in Askers \ {a} : ask'[b] = ask[b]
        /\ ask'[a].at = "done" => ask'[a].got = C!Mine(a)
        /\ \A b \in Askers : C!Mine(b)' = C!Mine(b)
    BY <1>a, <1>b, <2>1, <2>2 DEF Places
  <2>4. CacheType'
    BY <1>0, <2>1, <2>2, <2>3, NoneIsAFile DEF CacheType
  <2>5. Held'
    BY <1>0, <2>1, <2>2 DEF Held, CacheType
  <2>6. Given'
    BY <1>0, <2>3 DEF Given
  <2> QED BY <2>4, <2>5, <2>6 DEF CacheInv
<1>8. ASSUME C!Restate PROVE CacheInv'
  <2>1. version' \in 1..MaxVersion /\ UNCHANGED <<entries, temps, ask>>
    BY <1>0, <1>8 DEF C!Restate, CacheType, C!CacheAssumption
  <2> QED BY <1>0, <2>1 DEF CacheInv, CacheType, Held, Given, C!Mine
<1>9. ASSUME NEW p, C!Kill(p) PROVE CacheInv'
  <2> DEFINE dead == {a \in Askers : Process[a] = p}
  <2>1. /\ ask' = [a \in Askers |-> IF a \in dead THEN C!Calm ELSE ask[a]] /\ UNCHANGED version
        /\ temps' = [t \in DOMAIN temps |-> C!Closed(temps[t], dead, {"dead"})]
        /\ entries' = [k \in C!Keys |-> C!Closed(entries[k], dead, {"dead"})]
    BY <1>9 DEF C!Kill
  <2> HIDE DEF dead
  <2>2. entries' \in [C!Keys -> Files] /\ temps' \in [Names -> Files] /\ Held'
    BY <1>c, <2>1
  <2>3. C!Calm \in Askings /\ C!Calm.at = "calm"
    BY DEF C!CacheAssumption, C!Calm, Askings, Places, Series
  <2>4. CacheType'
    BY <1>0, <2>1, <2>2, <2>3 DEF CacheType
  <2>5. Given'
    BY <1>0, <2>1, <2>3 DEF Given, C!Mine
  <2> QED BY <2>2, <2>4, <2>5 DEF CacheInv
<1>10. ASSUME NEW both \in BOOLEAN, C!Clear(both) PROVE CacheInv'
  <2>1. /\ entries' = [k \in C!Keys |-> C!None] /\ UNCHANGED <<version, ask>>
        /\ temps' = temps \/ temps' = [t \in DOMAIN temps |-> C!None]
    BY <1>10 DEF C!Clear
  <2>2. CacheType'
    BY <1>0, <2>1, NoneIsAFile DEF CacheType
  <2>3. Held'
    BY <1>0, <2>1 DEF Held, CacheType
  <2>4. Given'
    BY <1>0, <2>1 DEF Given, C!Mine
  <2> QED BY <2>2, <2>3, <2>4 DEF CacheInv
<1>11. CASE UNCHANGED C!cacheVars
  BY <1>0, <1>11 DEF C!cacheVars, CacheInv, CacheType, Held, Given, C!Mine
<1> QED BY <1>1, <1>2, <1>3, <1>4, <1>5, <1>6, <1>7, <1>8, <1>9, <1>10, <1>11 DEF C!Next

(* What a caller is given is what computing it over the frame it read would   *)
(* have given, also where two threads write one temporary file, a process     *)
(* dies in the middle of it or somebody clears the directory; and an entry    *)
(* that can be read is under the key of what it holds, in whatever spelling   *)
(* it was asked for.                                                          *)
THEOREM CachesAreTrue == Spec => []CacheIsTrue
<1>1. C!CacheAssumption
  BY StoresAssumption DEF StoresAssumption
<1>2. Init => CacheInv
  BY <1>1, CacheInit DEF Init
<1>3. CacheInv /\ [Next]_all => CacheInv'
  BY <1>1, CacheStep, CacheSteps
<1>4. CacheInv => C!GivenIsComputed
  BY KeyOfAsking DEF CacheInv, Given, C!GivenIsComputed
<1>5. CacheInv => C!EntriesUnderTheirKey
  BY DEF CacheInv, Held, C!EntriesUnderTheirKey, C!Readable, C!Value, C!Key
<1>6. CacheInv => CacheIsTrue
  BY <1>4, <1>5 DEF CacheIsTrue
<1> QED BY <1>2, <1>3, <1>6, PTL DEF Spec, all


-----------------------------------------------------------------------------
(* The event journal and its tapes, for any log, any limits of a read, any    *)
(* length of the console's tape and any number of broken sockets.             *)

LEMMA TapeSteps == [Next]_all => [T!Next]_tape
<1>1. Stores => (T!Next \/ UNCHANGED tape)
  BY DEF Stores, journals
<1>2. UNCHANGED journals => UNCHANGED tape
  BY DEF journals
<1> QED BY <1>1, <1>2 DEF Next, all

LEMMA CardinalityT == \A Y : T!Cardinality(Y) = Cardinality(Y)
BY DEF T!Cardinality, Cardinality

LEMMA MaxOfTwo ==
    ASSUME NEW a \in Nat, NEW b \in Nat
    PROVE  T!Max({a, b}) = IF a >= b THEN a ELSE b
<1>1. \E x \in {a, b} : \A y \in {a, b} : x >= y
  OBVIOUS
<1> QED BY <1>1 DEF T!Max

(* What is before one number of a set is before each later one.               *)
LEMMA PlaceGrows ==
    ASSUME NEW Y \in SUBSET Nat, IsFiniteSet(Y), NEW i \in Y
    PROVE  /\ T!Place(i, Y) \in Nat /\ T!Place(i, Y) < Cardinality(Y)
           /\ \A j \in Y : j < i => T!Place(j, Y) < T!Place(i, Y)
<1> DEFINE Before(k) == {j \in Y : j < k}
<1>1. ASSUME NEW k \in Y
      PROVE  /\ IsFiniteSet(Before(k)) /\ Cardinality(Before(k)) \in Nat /\ Cardinality(Before(k)) < Cardinality(Y)
             /\ T!Place(k, Y) = Cardinality(Before(k))
  <2>1. /\ IsFiniteSet(Before(k)) /\ Cardinality(Before(k)) <= Cardinality(Y)
        /\ (Cardinality(Before(k)) = Cardinality(Y) => Before(k) = Y)
    BY FS_Subset
  <2>2. Before(k) # Y
    BY DEF Before
  <2> QED BY <2>1, <2>2, FS_CardinalityType, CardinalityT DEF T!Place
<1>2. ASSUME NEW j \in Y, j < i PROVE Cardinality(Before(j)) < Cardinality(Before(i))
  <2>1. j \in Nat /\ i \in Nat /\ \A x \in Y : x \in Nat
    OBVIOUS
  <2>2. Before(j) \subseteq Before(i)
    <3> SUFFICES ASSUME NEW x \in Before(j) PROVE x \in Before(i)
      BY Zenon
    <3>1. x \in Y /\ x < j /\ x \in Nat
      BY <2>1
    <3> QED BY <1>2, <2>1, <3>1
  <2>3. j \in Before(i) /\ j \notin Before(j)
    BY <1>2, <2>1
  <2>4. IsFiniteSet(Before(i)) /\ Cardinality(Before(i)) \in Nat /\ Cardinality(Before(j)) \in Nat
    BY <1>1
  <2> HIDE DEF Before
  <2>5. Cardinality(Before(j)) <= Cardinality(Before(i)) /\ Cardinality(Before(j)) # Cardinality(Before(i))
    BY <2>2, <2>3, <2>4, FS_Subset
  <2> QED BY <2>4, <2>5
<1> HIDE DEF Before
<1> QED BY <1>1, <1>2

(* InOrder lists a set of seqs, each once, the smallest first.                *)
LEMMA InOrderLists ==
    ASSUME NEW Y \in SUBSET Nat, IsFiniteSet(Y)
    PROVE  LET q == T!InOrder(Y)
           IN  /\ q \in Seq(Y) /\ Len(q) = Cardinality(Y)
               /\ \A i \in Y : \E k \in 1..Len(q) : q[k] = i
               /\ \A k, l \in 1..Len(q) : k < l => q[k] < q[l]
<1> DEFINE n == Cardinality(Y)
           q == T!InOrder(Y)
           f == [i \in Y |-> T!Place(i, Y) + 1]
<1>1. n \in Nat /\ IsFiniteSet(1..n) /\ Cardinality(1..n) = n
  BY FS_CardinalityType, FS_Interval
<1>2. \A i \in Y : T!Place(i, Y) \in Nat /\ T!Place(i, Y) < n
  BY PlaceGrows
<1>3. \A i, j \in Y : j < i => T!Place(j, Y) < T!Place(i, Y)
  BY PlaceGrows
<1>n. \A i \in Y : i \in Nat
  OBVIOUS
<1>f. \A i \in Y : f[i] = T!Place(i, Y) + 1
  OBVIOUS
<1>4. f \in Injection(Y, 1..n)
  <2>1. f \in [Y -> 1..n]
    BY <1>1, <1>2
  <2> HIDE DEF f, n
  <2>2. ASSUME NEW i \in Y, NEW j \in Y, f[i] = f[j] PROVE i = j
    <3>1. T!Place(i, Y) = T!Place(j, Y)
      BY <1>2, <1>f, <2>2
    <3> QED BY <1>2, <1>3, <1>n, <3>1
  <2> QED BY <2>1, <2>2 DEF Injection, IsInjective
<1>5. f \in Surjection(Y, 1..n)
  BY <1>1, <1>4, FS_Injection
<1> HIDE DEF f, n
<1>6. ASSUME NEW k \in 1..n PROVE \E i \in Y : T!Place(i, Y) = k - 1
  <2>1. PICK i \in Y : f[i] = k
    BY <1>5 DEF Surjection
  <2> QED BY <1>1, <1>2, <1>f, <2>1
<1>7. q = [k \in 1..n |-> CHOOSE i \in Y : T!Place(i, Y) = k - 1]
  BY CardinalityT DEF T!InOrder, n
<1>8. q \in [1..n -> Y] /\ \A k \in 1..n : T!Place(q[k], Y) = k - 1
  BY <1>6, <1>7
<1> HIDE DEF q
<1>9. q \in Seq(Y) /\ Len(q) = n
  BY <1>1, <1>8
<1>10. ASSUME NEW i \in Y PROVE \E k \in 1..n : q[k] = i
  <2>1. PICK k \in 1..n : T!Place(i, Y) = k - 1
    BY <1>1, <1>2
  <2>2. PICK j \in Y : j = q[k]
    BY <1>8
  <2>3. T!Place(j, Y) = T!Place(i, Y)
    BY <1>8, <2>1, <2>2
  <2>4. i = j
    BY <1>2, <1>3, <1>n, <2>3
  <2> QED BY <2>2, <2>4
<1>11. ASSUME NEW k \in 1..n, NEW l \in 1..n, k < l PROVE q[k] < q[l]
  <2>1. PICK i \in Y, j \in Y : i = q[k] /\ j = q[l]
    BY <1>8
  <2>2. T!Place(i, Y) = k - 1 /\ T!Place(j, Y) = l - 1
    BY <1>8, <2>1
  <2>3. k \in Nat /\ l \in Nat /\ i \in Nat /\ j \in Nat
    BY <1>1, <1>n
  <2>4. i # j /\ ~(j < i)
    BY <1>3, <1>11, <2>2, <2>3
  <2> QED BY <2>1, <2>3, <2>4
<1> QED BY <1>9, <1>10, <1>11 DEF n, q

(* The rows a read returns are the oldest of those it may return.             *)
LEMMA OldestAreBefore ==
    ASSUME NEW Y \in SUBSET Nat, IsFiniteSet(Y), NEW n \in Nat
    PROVE  /\ T!Oldest(Y, n) \subseteq Y /\ IsFiniteSet(T!Oldest(Y, n))
           /\ \A i \in T!Oldest(Y, n), j \in Y : j < i => j \in T!Oldest(Y, n)
<1>1. T!Oldest(Y, n) \subseteq Y /\ IsFiniteSet(T!Oldest(Y, n))
  BY FS_Subset DEF T!Oldest
<1>2. ASSUME NEW i \in T!Oldest(Y, n), NEW j \in Y, j < i PROVE j \in T!Oldest(Y, n)
  <2>1. /\ i \in Y /\ T!Place(i, Y) < n
    BY DEF T!Oldest
  <2>2. /\ T!Place(i, Y) \in Nat /\ T!Place(j, Y) \in Nat /\ T!Place(j, Y) < T!Place(i, Y)
    BY <1>2, <2>1, PlaceGrows
  <2> QED BY <2>1, <2>2 DEF T!Oldest
<1> QED BY <1>1, <1>2

(* A tape that is trimmed to its newest rows has no new gap.                  *)
LEMMA TrimKeepsTheNewest ==
    ASSUME T!TapeAssumption, NEW Y \in SUBSET Nat, IsFiniteSet(Y)
    PROVE  /\ T!Trim(Y) \subseteq Y
           /\ \A j \in T!Trim(Y), i \in Y : j < i => i \in T!Trim(Y)
<1> DEFINE After(k) == {j \in Y : j > k}
<1>1. ASSUME NEW i \in Y, NEW j \in T!Trim(Y), j < i PROVE i \in T!Trim(Y)
  <2>1. j \in Y /\ T!Cardinality(After(j)) < RingSize /\ i \in Nat /\ j \in Nat /\ \A x \in Y : x \in Nat
    BY DEF T!Trim
  <2>2. After(i) \subseteq After(j)
    <3> SUFFICES ASSUME NEW x \in After(i) PROVE x \in After(j)
      BY Zenon
    <3>1. x \in Y /\ x > i /\ x \in Nat
      BY <2>1
    <3> QED BY <1>1, <2>1, <3>1
  <2>3. IsFiniteSet(After(j))
    BY FS_Subset
  <2>4. /\ Cardinality(After(i)) <= Cardinality(After(j))
        /\ Cardinality(After(i)) \in Nat /\ Cardinality(After(j)) \in Nat
    <3> HIDE DEF After
    <3> QED BY <2>2, <2>3, FS_Subset, FS_CardinalityType
  <2>5. Cardinality(After(j)) < RingSize /\ RingSize \in Nat
    BY <2>1, CardinalityT DEF T!TapeAssumption
  <2>6. T!Cardinality(After(i)) = Cardinality(After(i))
    BY CardinalityT
  <2>7. T!Cardinality(After(i)) < RingSize
    <3> HIDE DEF After
    <3> QED BY <2>4, <2>5, <2>6
  <2> QED BY <2>7 DEF T!Trim
<1> QED BY <1>1 DEF T!Trim

Tapes == [kinds : {T!Kinds, {"fill"}}, limit : Nat, console : BOOLEAN]
Log == [id : Nat, kind : T!Kinds]
TapeType ==
    /\ log \in Seq(Log) /\ \A i \in 1..Len(log) : log[i].id = i
    /\ reader \in Tapes /\ (reader.console => reader.kinds = T!Kinds)
    /\ cursor \in 0..Len(log) /\ pump \in 0..Len(log)
    /\ wire \in Seq(Nat) /\ seen \in Seq(Nat)

(* What the log has for this reader between two seqs.                         *)
Due(from, upto) == {i \in 1..Len(log) : from < i /\ i <= upto /\ log[i].kind \in reader.kinds}
Rising(s) == \A k, l \in 1..Len(s) : k < l => s[k] < s[l]
Listed(s) == {s[k] : k \in 1..Len(s)}

(* Under way is what was read after the reader's last seq, in order.          *)
OnTheWire ==
    socket = "open" =>
        cursor <= pump /\ Rising(wire) /\ Listed(wire) = Due(cursor, pump)
SeenInOrder == ~reader.console => Rising(seen) /\ Listed(seen) = Due(0, cursor)
ConsoleSeeds == ~reader.console => socket \in {"open", "closed"} /\ ring = {}
(* A page that was read begins after the reader's last seq.                   *)
SeedIsAhead == page.read => socket = "seeding" /\ page.rows \subseteq (cursor + 1)..Len(log)
RingIsBehind == ring \subseteq 1..cursor
NoGaps == \A i \in 1..cursor : (\E j \in ring : j < i) => i \in ring \cup skipped
TapeInv ==
    /\ TapeType /\ OnTheWire /\ SeenInOrder /\ ConsoleSeeds
    /\ SeedIsAhead /\ RingIsBehind /\ NoGaps

LEMMA TapeInit == T!TapeAssumption /\ T!Init => TapeInv
<1> SUFFICES ASSUME T!TapeAssumption, T!Init PROVE TapeInv
  OBVIOUS
<1>1. log = <<>> /\ cursor = 0 /\ pump = 0 /\ wire = <<>> /\ seen = <<>> /\ ring = {} /\ Len(log) = 0
  BY DEF T!Init
<1>2. reader \in Tapes /\ (reader.console => reader.kinds = T!Kinds)
  BY DEF T!Init, T!TapeAssumption, Tapes
<1>3. TapeType
  BY <1>1, <1>2 DEF TapeType
<1>4. OnTheWire /\ SeenInOrder
  BY <1>1 DEF T!Init, OnTheWire, SeenInOrder, Rising, Listed, Due
<1>5. ConsoleSeeds
  BY <1>1 DEF T!Init, ConsoleSeeds
<1>6. SeedIsAhead
  BY DEF T!Init, SeedIsAhead, T!NoPage
<1>7. RingIsBehind /\ NoGaps
  BY <1>1 DEF RingIsBehind, NoGaps
<1> QED BY <1>3, <1>4, <1>5, <1>6, <1>7 DEF TapeInv

(* An event is told at the end of the log, under its own number, or is there. *)
LEMMA TellingGrows ==
    ASSUME TapeType, NEW id \in 1..(Len(log) + 1), NEW kind \in T!Kinds, log' = T!Appended(id, kind)
    PROVE  /\ log' \in Seq(Log) /\ Len(log') >= Len(log) /\ Len(log') \in Nat
           /\ \A i \in 1..Len(log') : log'[i].id = i
           /\ \A i \in 1..Len(log) : log'[i] = log[i]
           /\ id = Len(log) + 1 => Len(log') = Len(log) + 1 /\ log'[Len(log) + 1].kind = kind
<1>1. log \in Seq(Log) /\ Len(log) \in Nat /\ DOMAIN log = 1..Len(log) /\ \A i \in 1..Len(log) : log[i].id = i
  BY DEF TapeType
<1> DEFINE e == [id |-> id, kind |-> kind]
<1>2. CASE id \in 1..Len(log)
  <2>1. log' = log
    BY <1>1, <1>2 DEF T!Appended
  <2>2. id # Len(log) + 1 /\ Len(log) >= Len(log)
    BY <1>1, <1>2
  <2> QED BY <1>1, <2>1, <2>2
<1>3. CASE id = Len(log) + 1
  <2>1. log' = Append(log, e)
    BY <1>1, <1>3 DEF T!Appended
  <2>2. e \in Log /\ e.id = Len(log) + 1 /\ e.kind = kind
    BY <1>1, <1>3 DEF Log
  <2> HIDE DEF e
  <2> QED BY <1>1, <2>1, <2>2
<1> QED BY <1>1, <1>2, <1>3

(* A longer log is due no differently up to a seq it had.                     *)
LEMMA LogGrows ==
    ASSUME TapeInv, UNCHANGED <<reader, cursor, seen, socket, pump, wire, page, ring, skipped>>,
           log' \in Seq(Log), Len(log') \in Nat, Len(log') >= Len(log),
           \A i \in 1..Len(log') : log'[i].id = i,
           \A i \in 1..Len(log) : log'[i] = log[i]
    PROVE  TapeInv'
<1>1. /\ Len(log) \in Nat /\ cursor \in 0..Len(log) /\ pump \in 0..Len(log)
  BY DEF TapeInv, TapeType
<1>2. ASSUME NEW from \in Nat, NEW upto \in 0..Len(log) PROVE Due(from, upto)' = Due(from, upto)
  BY <1>1 DEF Due
<1>3. TapeType'
  BY <1>1 DEF TapeInv, TapeType
<1>4. OnTheWire'
  BY <1>1, <1>2 DEF TapeInv, OnTheWire, Rising, Listed
<1>5. SeenInOrder'
  BY <1>1, <1>2 DEF TapeInv, SeenInOrder, Rising, Listed
<1>6. ConsoleSeeds' /\ RingIsBehind' /\ NoGaps'
  BY DEF TapeInv, ConsoleSeeds, RingIsBehind, NoGaps
<1>7. SeedIsAhead'
  BY <1>1 DEF TapeInv, SeedIsAhead
<1> QED BY <1>3, <1>4, <1>5, <1>6, <1>7 DEF TapeInv

LEMMA TapeStep == T!TapeAssumption /\ TapeInv /\ [T!Next]_tape => TapeInv'
<1> SUFFICES ASSUME T!TapeAssumption, TapeInv, [T!Next]_tape PROVE TapeInv'
  OBVIOUS
<1>0. TapeType /\ OnTheWire /\ SeenInOrder /\ ConsoleSeeds /\ SeedIsAhead /\ RingIsBehind /\ NoGaps
  BY DEF TapeInv
<1>t. /\ log \in Seq(Log) /\ Len(log) \in Nat /\ DOMAIN log = 1..Len(log)
      /\ cursor \in 0..Len(log) /\ pump \in 0..Len(log) /\ cursor \in Nat /\ pump \in Nat
      /\ wire \in Seq(Nat) /\ seen \in Seq(Nat) /\ Len(wire) \in Nat /\ Len(seen) \in Nat
  BY <1>0 DEF TapeType
<1>k. reader.limit \in Nat /\ (reader.console => reader.kinds = T!Kinds)
  BY <1>0 DEF TapeType, Tapes
<1>m. ASSUME NEW from \in Nat
      PROVE  /\ T!Matching(from) = {i \in 1..Len(log) : from < i /\ log[i].kind \in reader.kinds}
             /\ T!Matching(from) \in SUBSET Nat /\ IsFiniteSet(T!Matching(from))
  <2>1. T!Matching(from) = {i \in 1..Len(log) : from < i /\ log[i].kind \in reader.kinds}
    BY <1>t DEF T!Matching
  <2>2. IsFiniteSet(1..Len(log)) /\ T!Matching(from) \subseteq 1..Len(log)
    BY <1>t, <2>1, FS_Interval
  <2> QED BY <1>t, <2>1, <2>2, FS_Subset
<1>1. ASSUME T!Tell PROVE TapeInv'
  <2>1. PICK id \in 1..(Len(log) + 1) : log' = T!Appended(id, "fill")
    BY <1>1 DEF T!Tell
  <2>2. UNCHANGED <<reader, cursor, seen, socket, pump, wire, page, ring, skipped>>
    BY <1>1 DEF T!Tell, T!tailVars
  <2>3. /\ log' \in Seq(Log) /\ Len(log') >= Len(log) /\ Len(log') \in Nat
        /\ \A i \in 1..Len(log') : log'[i].id = i
        /\ \A i \in 1..Len(log) : log'[i] = log[i]
    BY <1>0, <2>1, TellingGrows DEF T!Kinds
  <2> QED BY <2>2, <2>3, LogGrows
<1>2. ASSUME NEW written \in BOOLEAN, T!Trip(written) PROVE TapeInv'
  <2>1. log' = log \/ log' = T!Appended(Len(log) + 1, "breaker")
    BY <1>2 DEF T!Trip
  <2>2. UNCHANGED <<reader, cursor, seen, socket, pump, wire, page, ring, skipped>>
    BY <1>2 DEF T!Trip, T!tailVars
  <2>3. /\ log' \in Seq(Log) /\ Len(log') >= Len(log) /\ Len(log') \in Nat
        /\ \A i \in 1..Len(log') : log'[i].id = i
        /\ \A i \in 1..Len(log) : log'[i] = log[i]
    <3>1. CASE log' = log
      BY <1>0, <1>t, <3>1 DEF TapeType
    <3>2. CASE log' = T!Appended(Len(log) + 1, "breaker")
      <4>1. Len(log) + 1 \in 1..(Len(log) + 1) /\ "breaker" \in T!Kinds
        BY <1>t DEF T!Kinds
      <4> QED BY <1>0, <3>2, <4>1, TellingGrows
    <3> QED BY <2>1, <3>1, <3>2
  <2> QED BY <2>2, <2>3, LogGrows
<1>3. ASSUME UNCHANGED <<log, reader, cursor, seen, socket, pump, wire, page, ring, skipped>> PROVE TapeInv'
  BY <1>0, <1>3 DEF TapeInv, TapeType, OnTheWire, SeenInOrder, ConsoleSeeds, SeedIsAhead, RingIsBehind, NoGaps,
     Rising, Listed, Due
<1>4. ASSUME T!Connect PROVE TapeInv'
  <2>1. /\ socket = "closed" /\ socket' = "open" /\ pump' = cursor /\ wire' = <<>>
        /\ UNCHANGED <<log, reader, cursor, seen, page, ring, skipped>>
    BY <1>4 DEF T!Connect
  <2>2. TapeType'
    BY <1>0, <1>t, <2>1 DEF TapeType
  <2>3. OnTheWire'
    BY <1>t, <2>1 DEF OnTheWire, Rising, Listed, Due
  <2>4. SeenInOrder'
    BY <1>0, <2>1 DEF SeenInOrder, Rising, Listed, Due
  <2>5. ConsoleSeeds'
    BY <1>0, <2>1 DEF ConsoleSeeds
  <2>6. SeedIsAhead' /\ RingIsBehind' /\ NoGaps'
    BY <1>0, <2>1 DEF SeedIsAhead, RingIsBehind, NoGaps
  <2> QED BY <2>2, <2>3, <2>4, <2>5, <2>6 DEF TapeInv
<1>5. ASSUME T!Poll PROVE TapeInv'
  <2> DEFINE q == T!Batch(pump)
             Y == T!Matching(pump)
             R0 == T!Oldest(Y, reader.limit)
  <2>1. /\ socket = "open" /\ wire = <<>> /\ q # <<>> /\ wire' = q /\ pump' = q[Len(q)]
        /\ UNCHANGED <<log, reader, cursor, seen, socket, page, ring, skipped>>
    BY <1>5 DEF T!Poll, T!OverRows
  <2>2. /\ Y = {i \in 1..Len(log) : pump < i /\ log[i].kind \in reader.kinds}
        /\ Y \in SUBSET Nat /\ IsFiniteSet(Y)
    BY <1>m, <1>t
  <2>3. /\ R0 \subseteq Y /\ IsFiniteSet(R0)
        /\ \A i \in R0, j \in Y : j < i => j \in R0
    BY <1>k, <2>2, OldestAreBefore
  <2>4. /\ q \in Seq(R0) /\ \A i \in R0 : \E k \in 1..Len(q) : q[k] = i
        /\ \A k, l \in 1..Len(q) : k < l => q[k] < q[l]
    <3>1. q = T!InOrder(R0)
      BY DEF T!Batch
    <3> HIDE DEF q, R0, Y
    <3>2. R0 \in SUBSET Nat
      BY <2>2, <2>3
    <3> QED BY <2>3, <3>1, <3>2, InOrderLists
  <2> HIDE DEF q, R0, Y
  <2>5. /\ Len(q) \in Nat \ {0} /\ q[Len(q)] \in R0 /\ \A k \in 1..Len(q) : q[k] \in R0
    BY <2>1, <2>4
  <2>6. /\ pump' \in Y /\ pump < pump' /\ pump' \in 1..Len(log)
    BY <2>1, <2>2, <2>3, <2>5
  <2>7. TapeType'
    <3>1. q \in Seq(Nat)
      BY <2>2, <2>3, <2>4
    <3> QED BY <1>0, <1>t, <2>1, <2>6, <3>1 DEF TapeType
  <2>8. Rising(wire')
    BY <2>1, <2>4 DEF Rising
  <2>9. cursor <= pump /\ Due(cursor, pump) = {}
    BY <1>0, <2>1 DEF OnTheWire, Listed
  <2>10. Listed(wire') = R0
    BY <2>1, <2>4, <2>5 DEF Listed
  <2>11. \A i \in R0 : i <= pump'
    <3> SUFFICES ASSUME NEW i \in R0 PROVE i <= pump'
      OBVIOUS
    <3>1. PICK k \in 1..Len(q) : q[k] = i
      BY <2>4
    <3>2. k = Len(q) \/ k < Len(q)
      BY <2>5, <3>1
    <3>3. i \in Nat /\ pump' \in Nat
      BY <2>2, <2>3, <2>6
    <3>4. CASE k = Len(q)
      BY <2>1, <3>1, <3>3, <3>4
    <3>5. CASE k < Len(q)
      <4>0. Len(q) \in 1..Len(q)
        BY <2>5
      <4>1. q[k] < q[Len(q)]
        BY <2>4, <3>5, <4>0
      <4> QED BY <2>1, <3>1, <3>3, <4>1
    <3> QED BY <3>2, <3>4, <3>5
  <2>12. R0 = {i \in Y : i <= pump'}
    <3>1. pump' \in R0 /\ pump' \in Nat
      BY <2>1, <2>5, <2>6, <1>t
    <3>2. ASSUME NEW i \in Y, i <= pump' PROVE i \in R0
      <4>1. i \in Nat /\ (i = pump' \/ i < pump')
        BY <2>2, <3>1, <3>2
      <4> QED BY <2>3, <3>1, <4>1
    <3> QED BY <2>3, <2>11, <3>2
  <2>13. Due(cursor, pump') = {i \in Y : i <= pump'}
    <3>1. ASSUME NEW i \in 1..Len(log), cursor < i, i <= pump', log[i].kind \in reader.kinds PROVE pump < i
      <4>1. ASSUME ~(pump < i) PROVE i \in Due(cursor, pump)
        BY <1>t, <3>1, <4>1 DEF Due
      <4> QED BY <2>9, <4>1
    <3> QED BY <1>t, <2>2, <2>9, <3>1 DEF Due
  <2>14. OnTheWire'
    <3>1. Due(cursor, pump)' = Due(cursor, pump')
      BY <2>1 DEF Due
    <3> QED BY <1>t, <2>1, <2>6, <2>8, <2>9, <2>10, <2>12, <2>13, <3>1 DEF OnTheWire, Listed, Rising
  <2>15. SeenInOrder' /\ ConsoleSeeds'
    BY <1>0, <2>1 DEF SeenInOrder, ConsoleSeeds, Rising, Listed, Due
  <2>16. SeedIsAhead' /\ RingIsBehind' /\ NoGaps'
    BY <1>0, <2>1 DEF SeedIsAhead, RingIsBehind, NoGaps
  <2> QED BY <2>7, <2>14, <2>15, <2>16 DEF TapeInv
<1>6. ASSUME T!Receive PROVE TapeInv'
  <2>1. /\ socket = "open" /\ wire # <<>> /\ wire' = SubSeq(wire, 2, Len(wire))
        /\ UNCHANGED <<log, reader, socket, pump, page, skipped>>
    BY <1>6 DEF T!Receive
  <2>2. /\ cursor <= pump /\ Rising(wire) /\ Listed(wire) = Due(cursor, pump)
    BY <1>0, <2>1 DEF OnTheWire
  <2>3. PICK i0 \in Nat : i0 = wire[1]
    BY <1>t, <2>1
  <2>4. /\ i0 \in 1..Len(log) /\ cursor < i0 /\ i0 <= pump /\ log[i0].kind \in reader.kinds
    <3>1. i0 \in Listed(wire)
      BY <1>t, <2>1, <2>3 DEF Listed
    <3> QED BY <2>2, <3>1 DEF Due
  <2>5. cursor' = i0
    <3>1. cursor' = T!Max({cursor, i0})
      BY <1>6, <2>3 DEF T!Receive
    <3> QED BY <1>t, <2>4, <3>1, MaxOfTwo
  <2>6. /\ wire' \in Seq(Nat) /\ Len(wire') = Len(wire) - 1 /\ Len(wire) \in Nat \ {0}
        /\ \A k \in 1..Len(wire') : wire'[k] = wire[k + 1]
    <3>1. Len(wire) \in Nat \ {0}
      BY <1>t, <2>1
    <3>2. wire' \in Seq(Nat)
      BY <1>t, <2>1, <3>1
    <3>3. Len(wire') = Len(wire) - 1
      <4> DEFINE n == Len(wire)
      <4>1. n \in Nat \ {0} /\ \A i \in 2..n : wire[i] \in Nat
        BY <1>t, <3>1
      <4>2. Len(SubSeq(wire, 2, n)) = IF 2 <= n THEN n - 2 + 1 ELSE 0
        BY <4>1, SubSeqProperties
      <4>3. wire' = SubSeq(wire, 2, n)
        BY <2>1
      <4> HIDE DEF n
      <4>4. Len(wire') = n - 1
        BY <4>1, <4>2, <4>3
      <4> QED BY <4>4 DEF n
    <3>4. ASSUME NEW k \in 1..Len(wire') PROVE wire'[k] = wire[k + 1]
      <4>1. k \in 1..((Len(wire) - 2) + 1)
        BY <3>1, <3>3
      <4> QED BY <1>t, <2>1, <3>1, <4>1
    <3> QED BY <3>1, <3>2, <3>3, <3>4
  <2>7. Rising(wire')
    <3> SUFFICES ASSUME NEW k \in 1..Len(wire'), NEW l \in 1..Len(wire'), k < l PROVE wire'[k] < wire'[l]
      BY DEF Rising
    <3>1. k + 1 \in 1..Len(wire) /\ l + 1 \in 1..Len(wire) /\ k + 1 < l + 1
      BY <2>6
    <3>2. wire[k + 1] < wire[l + 1]
      BY <2>2, <3>1 DEF Rising
    <3> QED BY <2>6, <3>2
  <2>8. \A k \in 2..Len(wire) : i0 < wire[k]
    BY <2>2, <2>3, <2>6 DEF Rising
  <2>9. Listed(wire') = {i \in Listed(wire) : i0 < i}
    <3>1. ASSUME NEW k \in 1..Len(wire') PROVE wire'[k] \in Listed(wire) /\ i0 < wire'[k]
      <4>1. k + 1 \in 2..Len(wire) /\ wire'[k] = wire[k + 1]
        BY <2>6
      <4> QED BY <2>6, <2>8, <4>1 DEF Listed
    <3>2. ASSUME NEW k \in 1..Len(wire), i0 < wire[k] PROVE wire[k] \in Listed(wire')
      <4>1. k # 1
        BY <2>3, <3>2
      <4>2. k - 1 \in 1..Len(wire') /\ wire'[k - 1] = wire[k]
        BY <2>6, <4>1
      <4> QED BY <4>2 DEF Listed
    <3>3. Listed(wire') = {wire'[k] : k \in 1..Len(wire')} /\ Listed(wire) = {wire[k] : k \in 1..Len(wire)}
      BY DEF Listed
    <3> QED BY <3>1, <3>2, <3>3
  <2>10. {i \in Due(cursor, pump) : i0 < i} = Due(i0, pump)
    BY <1>t, <2>4 DEF Due
  <2>11. OnTheWire'
    <3>1. Due(cursor, pump)' = Due(i0, pump) /\ Listed(wire)' = Listed(wire') /\ Rising(wire)' = Rising(wire')
      BY <2>1, <2>5 DEF Due, Listed, Rising
    <3> QED BY <1>t, <2>1, <2>2, <2>4, <2>5, <2>7, <2>9, <2>10, <3>1 DEF OnTheWire
  (* Nothing is due between the reader's last seq and the one it gets.        *)
  <2>12. ASSUME NEW i \in 1..Len(log), cursor < i, i < i0 PROVE log[i].kind \notin reader.kinds
    <3>1. ASSUME log[i].kind \in reader.kinds PROVE FALSE
      <4>1. i \in Due(cursor, pump)
        BY <1>t, <2>4, <2>12, <3>1 DEF Due
      <4>2. PICK k \in 1..Len(wire) : wire[k] = i
        BY <2>2, <4>1 DEF Listed
      <4>3. k = 1 \/ k \in 2..Len(wire)
        BY <2>6, <4>2
      <4> QED BY <1>t, <2>3, <2>8, <2>12, <4>2, <4>3
    <3> QED BY <3>1
  <2>13. CASE ~reader.console
    <3>1. seen' = Append(seen, i0) /\ ring' = ring
      BY <1>6, <2>3, <2>13 DEF T!Receive
    <3>2. Rising(seen) /\ Listed(seen) = Due(0, cursor)
      BY <1>0, <2>13 DEF SeenInOrder
    <3>3. /\ seen' \in Seq(Nat) /\ Len(seen') = Len(seen) + 1 /\ seen'[Len(seen) + 1] = i0
          /\ \A k \in 1..Len(seen) : seen'[k] = seen[k]
      BY <1>t, <3>1
    <3>4. \A k \in 1..Len(seen) : seen[k] < i0
      <4>1. \A k \in 1..Len(seen) : seen[k] \in Due(0, cursor)
        BY <3>2 DEF Listed
      <4> QED BY <1>t, <2>4, <4>1 DEF Due
    <3>5. Rising(seen')
      <4> SUFFICES ASSUME NEW k \in 1..Len(seen'), NEW l \in 1..Len(seen'), k < l PROVE seen'[k] < seen'[l]
        BY DEF Rising
      <4>1. k \in 1..Len(seen)
        BY <1>t, <3>3
      <4>2. CASE l \in 1..Len(seen)
        BY <3>2, <3>3, <4>1, <4>2 DEF Rising
      <4>3. CASE l = Len(seen) + 1
        BY <3>3, <3>4, <4>1, <4>3
      <4>4. l = Len(seen) + 1 \/ l \in 1..Len(seen)
        <5>1. Len(seen) \in Nat /\ Len(seen') = Len(seen) + 1 /\ l \in 1..Len(seen')
          BY <1>t, <3>3
        <5> QED BY <5>1
      <4> QED BY <4>2, <4>3, <4>4
    <3>6. Listed(seen') = Listed(seen) \cup {i0}
      <4>1. \A k \in 1..(Len(seen) + 1) : k = Len(seen) + 1 \/ k \in 1..Len(seen)
        BY <1>t
      <4>2. Len(seen) + 1 \in 1..Len(seen') /\ 1..Len(seen) \subseteq 1..Len(seen')
        BY <1>t, <3>3
      <4>3. ASSUME NEW k \in 1..Len(seen') PROVE seen'[k] \in Listed(seen) \cup {i0}
        BY <3>3, <4>1 DEF Listed
      <4>4. ASSUME NEW k \in 1..Len(seen) PROVE seen[k] \in Listed(seen')
        <5>1. k \in 1..Len(seen') /\ seen'[k] = seen[k]
          BY <3>3, <4>2
        <5> QED BY <5>1 DEF Listed
      <4>5. i0 \in Listed(seen')
        BY <3>3, <4>2 DEF Listed
      <4> QED BY <4>3, <4>4, <4>5 DEF Listed
    <3>7. Due(0, cursor) \cup {i0} = Due(0, i0)
      <4>1. ASSUME NEW i \in Due(0, i0), i # i0 PROVE i \in Due(0, cursor)
        BY <1>t, <2>4, <2>12, <4>1 DEF Due
      <4>2. i0 \in Due(0, i0) /\ Due(0, cursor) \subseteq Due(0, i0)
        BY <1>t, <2>4 DEF Due
      <4> QED BY <4>1, <4>2
    <3>8. SeenInOrder'
      <4>1. Due(0, cursor)' = Due(0, i0) /\ Listed(seen)' = Listed(seen') /\ Rising(seen)' = Rising(seen')
        BY <2>1, <2>5 DEF Due, Listed, Rising
      <4> QED BY <3>2, <3>5, <3>6, <3>7, <4>1 DEF SeenInOrder
    <3>9. TapeType'
      BY <1>0, <1>t, <2>1, <2>4, <2>5, <2>6, <3>3 DEF TapeType
    <3>10. ring = {} /\ ConsoleSeeds'
      BY <1>0, <2>1, <2>13, <3>1 DEF ConsoleSeeds
    <3>11. RingIsBehind' /\ NoGaps'
      BY <3>1, <3>10 DEF RingIsBehind, NoGaps
    <3>12. SeedIsAhead'
      BY <1>0, <2>1 DEF SeedIsAhead
    <3> QED BY <2>11, <3>8, <3>9, <3>10, <3>11, <3>12 DEF TapeInv
  <2>14. CASE reader.console
    <3>1. ring' = T!Trim(ring \cup {i0}) /\ seen' = seen
      BY <1>6, <2>3, <2>14 DEF T!Receive
    <3>2. i0 = cursor + 1
      <4>1. \A i \in 1..Len(log) : log[i].kind \in reader.kinds
        <5>1. reader.kinds = T!Kinds
          BY <1>k, <2>14
        <5>2. ASSUME NEW i \in 1..Len(log) PROVE log[i].kind \in T!Kinds
          <6>1. log[i] \in Log
            BY <1>t, <5>2
          <6> QED BY <6>1 DEF Log
        <5> QED BY <5>1, <5>2
      <4>2. cursor + 1 \in 1..Len(log) /\ (cursor + 1 = i0 \/ cursor + 1 < i0)
        BY <1>t, <2>4
      <4>3. cursor < cursor + 1
        BY <1>t
      <4>4. ~(cursor + 1 < i0)
        BY <2>12, <4>1, <4>2, <4>3
      <4> QED BY <4>2, <4>4
    <3>3. /\ ring \subseteq 1..cursor /\ ring \cup {i0} \in SUBSET Nat /\ IsFiniteSet(ring \cup {i0})
      <4>1. ring \subseteq 1..cursor
        BY <1>0 DEF RingIsBehind
      <4>2. IsFiniteSet(1..cursor)
        BY <1>t, FS_Interval
      <4>3. IsFiniteSet(ring)
        BY <4>1, <4>2, FS_Subset
      <4>4. IsFiniteSet(ring \cup {i0})
        BY <4>3, FS_AddElement
      <4> QED BY <1>t, <4>1, <4>4
    <3>4. /\ ring' \subseteq ring \cup {i0}
          /\ \A j \in ring', i \in ring \cup {i0} : j < i => i \in ring'
      BY <3>1, <3>3, TrimKeepsTheNewest
    <3>5. RingIsBehind'
      BY <1>t, <2>5, <3>2, <3>3, <3>4 DEF RingIsBehind
    <3>6. NoGaps'
      <4> SUFFICES ASSUME NEW i \in 1..i0, NEW j \in ring', j < i PROVE i \in ring' \cup skipped
        BY <2>1, <2>5 DEF NoGaps
      <4>1. CASE i = i0
        BY <3>4, <4>1
      <4>2. CASE i # i0
        <5>1. i \in 1..cursor /\ j \in ring
          BY <1>t, <3>2, <3>4, <4>2
        <5>2. i \in ring \cup skipped
          BY <1>0, <5>1 DEF NoGaps
        <5> QED BY <3>4, <5>2
      <4> QED BY <4>1, <4>2
    <3>7. TapeType'
      BY <1>0, <1>t, <2>1, <2>4, <2>5, <2>6, <3>1 DEF TapeType
    <3>8. SeenInOrder' /\ ConsoleSeeds' /\ SeedIsAhead'
      BY <1>0, <2>1, <2>14 DEF SeenInOrder, ConsoleSeeds, SeedIsAhead
    <3> QED BY <2>11, <3>5, <3>6, <3>7, <3>8 DEF TapeInv
  <2> QED BY <2>13, <2>14
<1>7. ASSUME T!Drop PROVE TapeInv'
  <2>1. /\ socket = "open" /\ wire' = <<>> /\ pump' = 0 /\ socket' \in {"seeding", "closed"}
        /\ (~reader.console => socket' = "closed")
        /\ UNCHANGED <<log, reader, cursor, seen, page, ring, skipped>>
    BY <1>7 DEF T!Drop
  <2>2. TapeType'
    BY <1>0, <1>t, <2>1 DEF TapeType
  <2>3. OnTheWire' /\ SeedIsAhead'
    BY <1>0, <2>1 DEF OnTheWire, SeedIsAhead
  <2>4. SeenInOrder' /\ ConsoleSeeds'
    BY <1>0, <2>1 DEF SeenInOrder, ConsoleSeeds, Rising, Listed, Due
  <2>5. RingIsBehind' /\ NoGaps'
    BY <1>0, <2>1 DEF RingIsBehind, NoGaps
  <2> QED BY <2>2, <2>3, <2>4, <2>5 DEF TapeInv
<1>8. ASSUME T!SeedRows PROVE TapeInv'
  <2> DEFINE R0 == T!Oldest(T!Matching(cursor), reader.limit)
  <2>1. /\ socket = "seeding" /\ page' = [read |-> TRUE, rows |-> R0]
        /\ UNCHANGED <<log, reader, cursor, seen, socket, pump, wire, ring, skipped>>
    BY <1>8 DEF T!SeedRows
  <2>2. R0 \subseteq (cursor + 1)..Len(log)
    <3>1. T!Matching(cursor) \subseteq (cursor + 1)..Len(log)
      BY <1>m, <1>t
    <3> QED BY <3>1 DEF T!Oldest
  <2> HIDE DEF R0
  <2>3. page'.rows = R0 /\ SeedIsAhead'
    BY <2>1, <2>2 DEF SeedIsAhead
  <2>4. TapeType' /\ OnTheWire' /\ SeenInOrder' /\ ConsoleSeeds' /\ RingIsBehind' /\ NoGaps'
    BY <1>0, <2>1 DEF TapeType, OnTheWire, SeenInOrder, ConsoleSeeds, RingIsBehind, NoGaps, Rising, Listed, Due
  <2> QED BY <2>3, <2>4 DEF TapeInv
<1>9. ASSUME T!SeedHead PROVE TapeInv'
  <2>1. /\ socket = "seeding" /\ page.read /\ cursor' = T!Max({cursor, Len(log)})
        /\ ring' = T!Trim(ring \cup page.rows)
        /\ skipped' = skipped \cup ((cursor + 1)..Len(log) \ page.rows)
        /\ page' = T!NoPage /\ socket' = "closed"
        /\ UNCHANGED <<log, reader, seen, pump, wire>>
    BY <1>9 DEF T!SeedHead
  <2>2. cursor' = Len(log)
    BY <1>t, <2>1, MaxOfTwo, SMTT(20)
  <2>3. reader.console
    BY <1>0, <2>1 DEF ConsoleSeeds
  <2>4. page.rows \subseteq (cursor + 1)..Len(log) /\ ring \subseteq 1..cursor
    BY <1>0, <2>1 DEF SeedIsAhead, RingIsBehind
  <2>5. ring \cup page.rows \in SUBSET Nat /\ IsFiniteSet(ring \cup page.rows)
        /\ ring \cup page.rows \subseteq 1..Len(log)
    <3>1. ring \cup page.rows \subseteq 1..Len(log)
      <4>1. 1..cursor \subseteq 1..Len(log) /\ (cursor + 1)..Len(log) \subseteq 1..Len(log)
        BY <1>t
      <4> QED BY <2>4, <4>1
    <3>2. IsFiniteSet(1..Len(log))
      BY <1>t, FS_Interval
    <3>3. IsFiniteSet(ring \cup page.rows)
      BY <3>1, <3>2, FS_Subset
    <3> QED BY <3>1, <3>3
  <2>6. /\ ring' \subseteq ring \cup page.rows
        /\ \A j \in ring', i \in ring \cup page.rows : j < i => i \in ring'
    BY <2>1, <2>5, TrimKeepsTheNewest
  <2>7. NoGaps'
    <3> SUFFICES ASSUME NEW i \in 1..Len(log), NEW j \in ring', j < i PROVE i \in ring' \cup skipped'
      BY <2>2 DEF NoGaps
    <3>1. CASE i \in 1..cursor
      <4>1. j \in ring
        BY <1>t, <2>4, <2>6, <3>1
      <4>2. i \in ring \cup skipped
        BY <1>0, <3>1, <4>1 DEF NoGaps
      <4> QED BY <2>1, <2>6, <4>2
    <3>2. CASE i \in (cursor + 1)..Len(log)
      BY <2>1, <2>6, <3>2
    <3> QED BY <1>t, <3>1, <3>2
  <2>8. RingIsBehind'
    BY <2>2, <2>5, <2>6 DEF RingIsBehind
  <2>9. TapeType'
    BY <1>0, <1>t, <2>1, <2>2 DEF TapeType
  <2>10. OnTheWire' /\ SeedIsAhead'
    BY <2>1 DEF OnTheWire, SeedIsAhead, T!NoPage
  <2>11. SeenInOrder' /\ ConsoleSeeds'
    BY <2>1, <2>3 DEF SeenInOrder, ConsoleSeeds
  <2> QED BY <2>7, <2>8, <2>9, <2>10, <2>11 DEF TapeInv
<1>10. ASSUME T!Rearm PROVE TapeInv'
  BY <1>3, <1>10 DEF T!Rearm, T!tailVars
<1>11. ASSUME UNCHANGED tape PROVE TapeInv'
  BY <1>3, <1>11 DEF tape
<1> QED BY <1>1, <1>2, <1>4, <1>5, <1>6, <1>7, <1>8, <1>9, <1>10, <1>11 DEF T!Next

(* A brake that is on and was heard is in the log, which keeps it.            *)
LEMMA BrakeStep ==
    ASSUME TapeInv, T!BrakeIsShown, [T!Next]_tape
    PROVE  T!BrakeIsShown'
<1>t. log \in Seq(Log) /\ Len(log) \in Nat /\ DOMAIN log = 1..Len(log)
  BY DEF TapeInv, TapeType
<1>1. ASSUME NEW id \in 1..(Len(log) + 1), NEW kind \in T!Kinds, log' = T!Appended(id, kind)
      PROVE  /\ T!ShownTripped => T!ShownTripped'
             /\ id = Len(log) + 1 /\ kind = "breaker" => T!ShownTripped'
  <2>1. /\ log' \in Seq(Log) /\ Len(log') >= Len(log) /\ Len(log') \in Nat
        /\ \A i \in 1..Len(log) : log'[i] = log[i]
        /\ id = Len(log) + 1 => Len(log') = Len(log) + 1 /\ log'[Len(log) + 1].kind = kind
    BY <1>1, TellingGrows DEF TapeInv
  <2>2. DOMAIN log' = 1..Len(log')
    BY <2>1
  <2>3. ASSUME NEW i \in 1..Len(log), log[i].kind = "breaker" PROVE T!ShownTripped'
    <3>1. i \in DOMAIN log' /\ log'[i].kind = "breaker"
      <4>1. log'[i] = log[i] /\ Len(log') \in Nat /\ Len(log') >= Len(log)
        BY <2>1, <2>3
      <4>2. i \in 1..Len(log')
        BY <1>t, <2>3, <4>1
      <4> QED BY <2>2, <2>3, <4>1, <4>2
    <3> QED BY <3>1 DEF T!ShownTripped
  <2>4. ASSUME id = Len(log) + 1, kind = "breaker" PROVE T!ShownTripped'
    <3>1. id \in DOMAIN log' /\ log'[id].kind = "breaker"
      BY <1>t, <2>1, <2>2, <2>4
    <3> QED BY <3>1 DEF T!ShownTripped
  <2> QED BY <1>t, <2>3, <2>4 DEF T!ShownTripped
<1>2. ASSUME T!Tell PROVE T!BrakeIsShown'
  <2>1. T!ShownTripped => T!ShownTripped'
    BY <1>1, <1>2 DEF T!Tell, T!Kinds
  <2>2. brake' = brake /\ heard' = heard
    BY <1>2 DEF T!Tell
  <2> QED BY <2>1, <2>2, Zenon DEF T!BrakeIsShown
<1>3. ASSUME T!Trip(TRUE) PROVE T!BrakeIsShown'
  <2>1. log' = T!Appended(Len(log) + 1, "breaker") /\ Len(log) + 1 \in 1..(Len(log) + 1)
    BY <1>t, <1>3 DEF T!Trip
  <2>2. T!ShownTripped'
    BY <1>1, <2>1 DEF T!Kinds
  <2> QED BY <2>2 DEF T!BrakeIsShown
<1>4. ASSUME T!Trip(FALSE) \/ T!Rearm PROVE T!BrakeIsShown'
  <2>1. heard' = FALSE
    BY <1>4 DEF T!Trip, T!Rearm
  <2> QED BY <2>1 DEF T!BrakeIsShown
<1>5. ASSUME UNCHANGED <<log, brake, heard>> PROVE T!BrakeIsShown'
  <2>1. log' = log /\ brake' = brake /\ heard' = heard
    BY <1>5
  <2>2. T!ShownTripped' = T!ShownTripped
    BY <2>1 DEF T!ShownTripped
  <2> QED BY <2>1, <2>2, Zenon DEF T!BrakeIsShown
<1>6. ASSUME T!Connect \/ T!Poll \/ T!Receive \/ T!Drop \/ T!SeedRows \/ T!SeedHead \/ UNCHANGED tape
      PROVE  UNCHANGED <<log, brake, heard>>
  BY <1>6 DEF T!Connect, T!Poll, T!Receive, T!Drop, T!SeedRows, T!SeedHead, tape
<1> QED BY <1>2, <1>3, <1>4, <1>5, <1>6 DEF T!Next

(* A reader that reconnects with the last seq it noted has seen every event   *)
(* of its filter up to that seq, once and in order, whatever broke; the       *)
(* console's tape has every row between its oldest and its newest but those a *)
(* seed skipped; a tripped brake whose alert was written shows as tripped.    *)
THEOREM TapesAreWhole == Spec => []TapeIsWhole
<1>1. Init => TapeInv /\ T!BrakeIsShown
  <2>1. Init => T!BrakeIsShown
    <3>1. Init => brake = FALSE
      BY DEF Init, T!Init
    <3> QED BY <3>1 DEF T!BrakeIsShown
  <2> QED BY <2>1, StoresAssumption, TapeInit DEF Init, StoresAssumption
<1>2. TapeInv /\ T!BrakeIsShown /\ [Next]_all => TapeInv' /\ T!BrakeIsShown'
  BY StoresAssumption, TapeSteps, TapeStep, BrakeStep DEF StoresAssumption
<1>3. TapeInv /\ T!BrakeIsShown => TapeIsWhole
  <2> SUFFICES ASSUME TapeInv PROVE T!ResumeExactly /\ T!GapsAreSeeds
    BY DEF TapeIsWhole
  <2>t. /\ log \in Seq(Log) /\ Len(log) \in Nat /\ DOMAIN log = 1..Len(log)
        /\ seen \in Seq(Nat) /\ Len(seen) \in Nat /\ DOMAIN seen = 1..Len(seen) /\ cursor \in 0..Len(log)
    BY DEF TapeInv, TapeType
  <2>1. T!ResumeExactly
    <3> SUFFICES ASSUME ~reader.console
                 PROVE  /\ \A k \in 1..(Len(seen) - 1) : seen[k] < seen[k + 1]
                        /\ T!ToSet(seen) = {i \in T!Matching(0) : i <= cursor}
      BY DEF T!ResumeExactly
    <3>1. Rising(seen) /\ Listed(seen) = Due(0, cursor)
      BY DEF TapeInv, SeenInOrder
    <3>2. T!ToSet(seen) = Listed(seen)
      BY <2>t DEF T!ToSet, Listed
    <3>3. {i \in T!Matching(0) : i <= cursor} = Due(0, cursor)
      BY <2>t DEF T!Matching, Due
    <3> QED BY <2>t, <3>1, <3>2, <3>3 DEF Rising
  <2>2. T!GapsAreSeeds
    BY <2>t DEF T!GapsAreSeeds, TapeInv, NoGaps
  <2> QED BY <2>1, <2>2
<1> QED BY <1>1, <1>2, <1>3, PTL DEF Spec, all

-----------------------------------------------------------------------------
(* What a strategy may read, for any session, any bars and any signals.       *)

LEMMA ViewSteps == [Next]_all => [P!Next]_view
<1>1. Stores => (P!Next \/ UNCHANGED view)
  BY DEF Stores, feed
<1>2. UNCHANGED feed => UNCHANGED view
  BY DEF feed
<1> QED BY <1>1, <1>2 DEF Next, all

(* The least and the greatest of a set of numbers.                            *)

LEMMA LeastOf ==
    ASSUME NEW V \in SUBSET Nat, V # {}
    PROVE  \E m \in V : \A k \in V : m <= k
<1>1. PICK m \in V : \A k \in V : ~(<<k, m>> \in OpToRel(<, Nat))
  BY NatLessThanWellFounded, WFMin
<1>2. \A k \in V : ~(k < m)
  BY <1>1 DEF OpToRel
<1> QED BY <1>2

LEMMA GreatestOf ==
    ASSUME NEW V \in SUBSET Nat, V # {}, NEW b \in Nat, \A k \in V : k <= b
    PROVE  \E m \in V : \A k \in V : k <= m
<1> DEFINE U == {b - k : k \in V}
<1>1. \A k \in V : b - k \in Nat
  OBVIOUS
<1>2. U \in SUBSET Nat /\ U # {}
  BY <1>1
<1>3. PICK u \in U : \A v \in U : u <= v
  BY <1>2, LeastOf
<1>4. PICK m \in V : u = b - m
  OBVIOUS
<1>5. ASSUME NEW k \in V PROVE k <= m
  <2>1. b - m <= b - k
    BY <1>3, <1>4
  <2> QED BY <2>1
<1> QED BY <1>5

LEMMA CardinalityP == \A Y : P!Cardinality(Y) = Cardinality(Y)
BY DEF P!Cardinality, Cardinality

LEMMA LeastBar ==
    ASSUME NEW Y \in SUBSET Nat, Y # {}
    PROVE  P!Min(Y) \in Y /\ \A k \in Y : P!Min(Y) <= k
BY LeastOf DEF P!Min

LEMMA LatestBar ==
    ASSUME NEW Y \in SUBSET Nat, Y # {}, NEW b \in Nat, \A k \in Y : k <= b
    PROVE  P!Max(Y) \in Y /\ \A k \in Y : k <= P!Max(Y)
<1>1. \E m \in Y : \A k \in Y : m >= k
  <2>1. PICK m \in Y : \A k \in Y : k <= m
    BY GreatestOf
  <2> QED BY <2>1
<1>2. P!Max(Y) \in Y /\ \A k \in Y : P!Max(Y) >= k
  BY <1>1 DEF P!Max
<1> QED BY <1>2

(* The k-th smallest of a set is one of the set, at place k - 1.              *)
LEMMA NthOf ==
    ASSUME NEW Y \in SUBSET Nat, IsFiniteSet(Y), NEW k \in 1..Cardinality(Y)
    PROVE  P!Nth(Y, k) \in Y /\ T!Place(P!Nth(Y, k), Y) = k - 1
<1> DEFINE n == Cardinality(Y)
           q == T!InOrder(Y)
<1>1. n \in Nat
  BY FS_CardinalityType
<1>2. q \in Seq(Y) /\ Len(q) = n /\ \A i \in Y : \E l \in 1..Len(q) : q[l] = i
  BY InOrderLists
<1>3. q = [l \in 1..n |-> CHOOSE i \in Y : T!Place(i, Y) = l - 1]
  BY CardinalityT DEF T!InOrder
<1>4. q[k] = P!Nth(Y, k)
  BY <1>1, <1>3, CardinalityT, CardinalityP DEF T!Place, P!Nth
<1>5. q[k] \in Y
  BY <1>1, <1>2
<1>6. \E i \in Y : T!Place(i, Y) = k - 1
  <2> DEFINE f == [i \in Y |-> T!Place(i, Y) + 1]
  <2>1. \A i \in Y : i \in Nat /\ T!Place(i, Y) \in Nat /\ T!Place(i, Y) < n
    BY PlaceGrows
  <2>2. \A i, j \in Y : j < i => T!Place(j, Y) < T!Place(i, Y)
    BY PlaceGrows
  <2>3. \A i \in Y : f[i] = T!Place(i, Y) + 1
    OBVIOUS
  <2>4. f \in [Y -> 1..n]
    BY <1>1, <2>1
  <2> HIDE DEF f, n
  <2>5. ASSUME NEW i \in Y, NEW j \in Y, f[i] = f[j] PROVE i = j
    <3>1. T!Place(i, Y) = T!Place(j, Y)
      BY <2>1, <2>3, <2>5
    <3> QED BY <2>1, <2>2, <3>1
  <2>6. f \in Injection(Y, 1..n)
    BY <2>4, <2>5 DEF Injection, IsInjective
  <2>7. IsFiniteSet(1..n) /\ Cardinality(1..n) = n
    BY <1>1, FS_Interval
  <2>8. f \in Surjection(Y, 1..n)
    BY <2>6, <2>7, FS_Injection DEF n
  <2>9. PICK i \in Y : f[i] = k
    BY <2>8 DEF Surjection, n
  <2> QED BY <2>1, <2>3, <2>9
<1>7. P!Nth(Y, k) = CHOOSE i \in Y : T!Place(i, Y) = k - 1
  BY CardinalityT, CardinalityP DEF T!Place, P!Nth
<1> HIDE DEF q, n
<1> QED BY <1>6, <1>7

(* In a set that starts with 1..v, the k-th smallest is k, for k in 1..v.     *)
LEMMA NthOfPrefix ==
    ASSUME NEW Y \in SUBSET (Nat \ {0}), IsFiniteSet(Y), NEW v \in Nat, 1..v \subseteq Y
    PROVE  v <= Cardinality(Y) /\ \A k \in 1..v : P!Nth(Y, k) = k
<1>1. Cardinality(Y) \in Nat /\ IsFiniteSet(1..v) /\ Cardinality(1..v) = v
  <2>1. Cardinality(1..v) = IF 1 <= v THEN v - 1 + 1 ELSE 0
    BY FS_Interval
  <2>2. IsFiniteSet(1..v)
    BY FS_Interval
  <2>3. Cardinality(Y) \in Nat
    BY FS_CardinalityType
  <2> QED BY <2>1, <2>2, <2>3
<1>2. v <= Cardinality(Y)
  BY <1>1, FS_Subset
<1>3. ASSUME NEW k \in 1..v PROVE P!Nth(Y, k) = k
  <2> DEFINE p == P!Nth(Y, k)
  <2>1. k \in Y /\ k \in Nat /\ k \in 1..Cardinality(Y) /\ k - 1 \in Nat
    BY <1>1, <1>2
  <2>2. {j \in Y : j < k} = 1..(k - 1)
    <3>1. \A j \in Y : j \in Nat \ {0}
      OBVIOUS
    <3>2. ASSUME NEW j \in Y, j < k PROVE j \in 1..(k - 1)
      BY <2>1, <3>1, <3>2
    <3>3. ASSUME NEW j \in 1..(k - 1) PROVE j \in Y /\ j < k
      BY <1>3, <2>1
    <3> QED BY <3>2, <3>3
  <2>3. T!Place(k, Y) = k - 1
    <3>1. Cardinality(1..(k - 1)) = IF 1 <= k - 1 THEN (k - 1) - 1 + 1 ELSE 0
      BY <2>1, FS_Interval
    <3>2. Cardinality(1..(k - 1)) = k - 1
      BY <2>1, <3>1
    <3> QED BY <2>2, <3>2, CardinalityT DEF T!Place
  <2>4. p \in Y /\ T!Place(p, Y) = k - 1
    BY <2>1, NthOf
  <2> HIDE DEF p
  <2>5. Y \in SUBSET Nat /\ p \in Nat
    BY <2>4
  <2>6. ASSUME p < k PROVE FALSE
    <3>1. T!Place(p, Y) < T!Place(k, Y)
      BY <2>1, <2>4, <2>5, <2>6, PlaceGrows
    <3> QED BY <2>1, <2>3, <2>4, <3>1
  <2>7. ASSUME k < p PROVE FALSE
    <3>1. T!Place(k, Y) < T!Place(p, Y)
      BY <2>1, <2>4, <2>5, <2>7, PlaceGrows
    <3> QED BY <2>1, <2>3, <2>4, <3>1
  <2> QED BY <2>1, <2>5, <2>6, <2>7 DEF p
<1> QED BY <1>2, <1>3

Rows == [stamp : Int, know : Int, close : {1} \cup Closes]
ReadsType ==
    /\ now \in Nat /\ frame \in Seq(Rows) /\ Len(frame) \in Nat
    /\ full = [n \in P!Indicators |-> full[n]]
    /\ sigs = <<>> \/ (frame = P!Sparse /\ sigs \in P!SigLists)
(* An indicator is computed over the whole frame, or was not asked for.       *)
ComputedWhole == \A n \in P!Indicators : full[n] \in {<<>>, P!Compute(n, frame)}
Timely == now \in 0..LastTime /\ raised \in BOOLEAN
ReadsInv == ReadsType /\ ComputedWhole /\ Timely

LEMMA VendorRows ==
    ASSUME P!SessionAssumption, NEW Y \in SUBSET (1..LastTime)
    PROVE  P!VendorFrame(Y) \in Seq(Rows)
<1> DEFINE open == {s \in Y : P!Regular(s)}
<1>1. IsFiniteSet(1..LastTime)
  BY FS_Interval DEF P!SessionAssumption
<1>2. open \in SUBSET (1..LastTime) /\ IsFiniteSet(open)
  BY <1>1, FS_Subset
<1>3. Cardinality(open) \in Nat /\ open \in SUBSET Nat
  BY <1>2, FS_CardinalityType
<1>4. ASSUME NEW s \in Nat PROVE P!Bar(s, 1) \in Rows
  <2>1. P!KnownAt(s) \in Int
    BY DEF P!SessionAssumption, P!KnownAt, P!Lesser
  <2> QED BY <2>1 DEF P!Bar, Rows
<1>5. P!VendorFrame(Y) = [i \in 1..Cardinality(open) |-> P!Bar(P!Nth(open, i), 1)]
  BY CardinalityP DEF P!VendorFrame
<1> HIDE DEF open
<1>6. \A i \in 1..Cardinality(open) : P!Nth(open, i) \in Nat
  BY <1>2, <1>3, NthOf
<1> QED BY <1>3, <1>4, <1>5, <1>6

LEMMA ReadsInit == P!SessionAssumption /\ Init => ReadsInv
<1> SUFFICES ASSUME P!SessionAssumption, Init PROVE ReadsInv
  OBVIOUS
<1>1. now = 0 /\ full = [n \in P!Indicators |-> <<>>] /\ raised = FALSE
  BY DEF Init, P!Init
<1>a. now \in Nat /\ now \in 0..LastTime /\ full = [n \in P!Indicators |-> full[n]] /\ \A n \in P!Indicators : full[n] = <<>>
  BY <1>1 DEF P!SessionAssumption
<1>b. ASSUME frame \in Seq(Rows), sigs = <<>> \/ (frame = P!Sparse /\ sigs \in P!SigLists) PROVE ReadsInv
  <2>1. Len(frame) \in Nat
    BY <1>b
  <2>2. ReadsType
    BY <1>a, <1>b, <2>1 DEF ReadsType
  <2>3. ComputedWhole
    BY <1>a, Zenon DEF ComputedWhole
  <2>4. Timely
    BY <1>1, <1>a, Zenon DEF Timely
  <2> QED BY <2>2, <2>3, <2>4 DEF ReadsInv
<1>2. CASE half # "reads"
  <2>1. frame = <<>> /\ sigs = <<>>
    BY <1>2 DEF Init
  <2> QED BY <2>1, <1>b
<1>3. CASE half = "reads"
  <2>1. /\ \/ vendor \in SUBSET (1..LastTime) \ {{}} /\ frame = P!VendorFrame(vendor) /\ sigs = <<>>
           \/ vendor = {} /\ \E f \in P!Frames : frame = P!Restated(f) /\ sigs = <<>>
           \/ vendor = {} /\ frame = P!Sparse /\ sigs \in P!SigLists
    BY <1>3 DEF Init, P!Init
  <2>2. frame \in Seq(Rows) /\ (sigs = <<>> \/ (frame = P!Sparse /\ sigs \in P!SigLists))
    <3>1. ASSUME vendor \in SUBSET (1..LastTime) \ {{}}, frame = P!VendorFrame(vendor) PROVE frame \in Seq(Rows)
      BY <3>1, VendorRows
    <3>2. ASSUME NEW f \in P!Frames, frame = P!Restated(f) PROVE frame \in Seq(Rows)
      <4>1. PICK n \in 0..MaxBars : f \in [1..n -> [lag : 0..2, close : Closes]]
        BY <3>2 DEF P!Frames
      <4>2. n \in Nat /\ Len(f) = n
        BY <4>1
      <4>3. P!Restated(f) = [i \in 1..n |-> [stamp |-> i, know |-> i + f[i].lag, close |-> f[i].close]]
        BY <4>2 DEF P!Restated
      <4>4. ASSUME NEW i \in 1..n
            PROVE  [stamp |-> i, know |-> i + f[i].lag, close |-> f[i].close] \in Rows
        BY <4>1, <4>2 DEF Rows
      <4> QED BY <3>2, <4>2, <4>3, <4>4
    <3>3. P!Sparse \in Seq(Rows)
      BY DEF P!Sparse, Rows, P!SessionAssumption
    <3> QED BY <2>1, <3>1, <3>2, <3>3
  <2> QED BY <2>2, <1>b
<1> QED BY <1>2, <1>3

LEMMA ReadsStep == P!SessionAssumption /\ ReadsInv /\ [P!Next]_view => ReadsInv'
<1> SUFFICES ASSUME P!SessionAssumption, ReadsInv, [P!Next]_view PROVE ReadsInv'
  OBVIOUS
<1>1. CASE P!SetNow
  <2>1. now' = now + 1 /\ now < LastTime /\ UNCHANGED <<vendor, frame, sigs, full, raised>>
    BY <1>1 DEF P!SetNow
  <2>2. now' \in 0..LastTime
    BY <2>1 DEF ReadsInv, Timely, P!SessionAssumption
  <2>3. ReadsType'
    BY <2>1, <2>2 DEF ReadsInv, ReadsType
  <2>4. ComputedWhole'
    BY <2>1, Zenon DEF ReadsInv, ComputedWhole, P!Compute, P!Value
  <2> QED BY <2>1, <2>2, <2>3, <2>4, Zenon DEF ReadsInv, Timely
<1>2. ASSUME NEW name \in P!Indicators, P!Ask(name) PROVE ReadsInv'
  <2>1. /\ full' = [full EXCEPT ![name] = P!Compute(name, frame)]
        /\ UNCHANGED <<vendor, frame, sigs, now>>
    BY <1>2 DEF P!Ask
  <2>2. raised' \in BOOLEAN
    BY <1>2, Zenon DEF P!Ask
  <2>3. full' = [n \in P!Indicators |-> full'[n]]
    BY <2>1 DEF ReadsInv, ReadsType
  <2>4. \A n \in P!Indicators : full'[n] = IF n = name THEN P!Compute(name, frame) ELSE full[n]
    BY <2>1 DEF ReadsInv, ReadsType
  <2>5. ReadsType'
    BY <2>1, <2>3 DEF ReadsInv, ReadsType
  <2>6. ComputedWhole'
    <3>1. \A n : P!Compute(n, frame)' = P!Compute(n, frame)
      BY <2>1 DEF P!Compute, P!Value
    <3>2. \A n \in P!Indicators : full'[n] \in {<<>>, P!Compute(n, frame)}
      BY <2>4 DEF ReadsInv, ComputedWhole
    <3> QED BY <2>1, <3>2, Zenon DEF ComputedWhole, P!Compute, P!Value
  <2> QED BY <2>1, <2>2, <2>5, <2>6, Zenon DEF ReadsInv, Timely
<1>3. CASE UNCHANGED view
  BY <1>3, Zenon DEF view, ReadsInv, ReadsType, ComputedWhole, Timely, P!Compute, P!Value
<1> QED BY <1>1, <1>2, <1>3 DEF P!Next

(* The window ends before the first row not known: what it holds is known.    *)
LEMMA WindowOfKnown ==
    ASSUME ReadsType
    PROVE  P!VisibleLen \in 0..Len(frame) /\ \A i \in 1..P!VisibleLen : P!KnownIn(i)
<1> DEFINE known == {i \in 1..Len(frame) : P!KnownIn(i)}
           hidden == {i \in 1..Len(frame) : ~P!KnownIn(i)}
<1>t. frame \in Seq(Rows) /\ Len(frame) \in Nat /\ now \in Nat
  BY DEF ReadsType
<1>r. ASSUME NEW i \in 1..Len(frame) PROVE frame[i].know \in Int
  <2>1. frame[i] \in Rows
    BY <1>t
  <2> QED BY <2>1 DEF Rows
<1>1. P!VisibleLen = IF P!Sorted THEN Cardinality(known)
                     ELSE IF hidden = {} THEN Len(frame) ELSE P!Min(hidden) - 1
  BY CardinalityP DEF P!VisibleLen
<1>2. hidden # {} => P!Min(hidden) \in hidden /\ \A k \in hidden : P!Min(hidden) <= k
  <2>1. hidden \in SUBSET Nat
    BY <1>t
  <2> HIDE DEF hidden
  <2> QED BY <2>1, LeastBar
<1>3. \A i \in 1..Len(frame) : i \in Nat /\ (i \in known \/ i \in hidden)
  BY <1>t
<1>4. CASE ~P!Sorted
  <2>1. CASE hidden = {}
    <3>1. P!VisibleLen = Len(frame)
      BY <1>1, <1>4, <2>1
    <3> QED BY <1>t, <2>1, <3>1
  <2>2. CASE hidden # {}
    <3> DEFINE m == P!Min(hidden)
    <3>1. P!VisibleLen = m - 1 /\ m \in 1..Len(frame) /\ \A k \in hidden : m <= k
      BY <1>1, <1>2, <1>4, <2>2
    <3> HIDE DEF m
    <3>2. ASSUME NEW i \in 1..P!VisibleLen PROVE P!KnownIn(i)
      <4>1. i \in 1..Len(frame) /\ i < m
        BY <1>t, <3>1
      <4>2. i \notin hidden
        BY <1>t, <3>1, <4>1
      <4> QED BY <4>1, <4>2
    <3>3. P!VisibleLen \in 0..Len(frame)
      BY <1>t, <3>1
    <3> QED BY <3>2, <3>3
  <2> QED BY <2>1, <2>2
<1>5. CASE P!Sorted
  <2>1. PICK v \in 0..Len(frame) : known = 1..v
    <3>1. CASE hidden = {}
      <4>1. known = 1..Len(frame)
        BY <3>1
      <4> QED BY <1>t, <4>1
    <3>2. CASE hidden # {}
      <4> DEFINE m == P!Min(hidden)
      <4>1. m \in 1..Len(frame) /\ m \in hidden /\ \A k \in hidden : m <= k
        BY <1>2, <3>2
      <4> HIDE DEF m
      <4>2. ~(frame[m].know <= now) /\ frame[m].know \in Int /\ m \in Nat
        BY <1>r, <1>t, <4>1 DEF P!KnownIn
      <4>3. ASSUME NEW i \in 1..Len(frame), i < m PROVE i \in known
        BY <1>t, <4>1, <4>3
      <4>4. ASSUME NEW i \in known, m < i PROVE FALSE
        <5> DEFINE post == {j \in known : m < j}
        <5>1. post \in SUBSET Nat /\ post # {}
          BY <1>t, <4>4
        <5> HIDE DEF post
        <5>2. PICK l \in post : \A k \in post : l <= k
          BY <5>1, LeastOf
        <5>3. l \in 1..Len(frame) /\ frame[l].know <= now /\ m < l
          BY <5>2 DEF post, P!KnownIn
        <5>4. l - 1 \in 1..Len(frame) /\ m <= l - 1 /\ l - 1 \in 1..(Len(frame) - 1)
          BY <1>t, <4>2, <4>1, <5>3
        <5>5. frame[l - 1].know <= frame[l - 1 + 1].know
          BY <1>5, <5>4 DEF P!Sorted
        <5>6. frame[l - 1].know <= frame[l].know
          <6>1. l - 1 + 1 = l
            BY <1>t, <5>3
          <6> QED BY <5>5, <6>1
        <5>7. frame[l - 1].know <= now
          BY <1>r, <1>t, <5>3, <5>4, <5>6
        <5>8. CASE l - 1 = m
          BY <4>2, <5>7, <5>8
        <5>9. CASE l - 1 # m
          <6>1. l - 1 \in post
            BY <4>2, <5>4, <5>7, <5>9 DEF post, P!KnownIn
          <6> QED BY <1>t, <5>2, <5>3, <6>1
        <5> QED BY <5>8, <5>9
      <4>5. m \notin known
        BY <4>1
      <4>6. ASSUME NEW i \in 1..Len(frame), i \in known PROVE i \in 1..(m - 1)
        BY <1>t, <4>2, <4>4, <4>5, <4>6
      <4>7. ASSUME NEW i \in 1..(m - 1) PROVE i \in known
        <5>1. i \in 1..Len(frame) /\ i < m
          BY <1>t, <4>1
        <5> QED BY <4>3, <5>1
      <4>8. known = 1..(m - 1)
        <5>1. known \subseteq 1..(m - 1)
          BY <4>6
        <5>2. 1..(m - 1) \subseteq known
          BY <4>7, Zenon
        <5> QED BY <5>1, <5>2
      <4>9. m - 1 \in 0..Len(frame)
        BY <1>t, <4>1
      <4> QED BY <4>8, <4>9
    <3> QED BY <3>1, <3>2
  <2> HIDE DEF known
  <2>2. Cardinality(known) = v
    <3>1. Cardinality(1..v) = IF 1 <= v THEN v - 1 + 1 ELSE 0
      BY FS_Interval
    <3> QED BY <1>t, <2>1, <3>1
  <2>3. P!VisibleLen = v
    BY <1>1, <1>5, <2>2
  <2>4. \A i \in known : P!KnownIn(i)
    BY DEF known
  <2> QED BY <2>1, <2>3, <2>4
<1> QED BY <1>4, <1>5

(* history() reads at least the window, from its first row on.                *)
LEMMA WindowIsRead == ReadsType => P!WindowIsKnowable
<1> SUFFICES ASSUME ReadsType PROVE P!WindowIsKnowable
  OBVIOUS
<1> DEFINE some == {i \in 1..Len(frame) : P!KnownIn(i)}
           v == P!VisibleLen
<1>1. v \in 0..Len(frame) /\ \A i \in 1..v : P!KnownIn(i)
  BY WindowOfKnown
<1>2. frame \in Seq(Rows) /\ Len(frame) \in Nat /\ v \in Nat
  BY <1>1 DEF ReadsType
<1>3. some \in SUBSET (1..Len(frame)) /\ some \in SUBSET (Nat \ {0}) /\ 1..v \subseteq some
  BY <1>1, <1>2
<1>4. IsFiniteSet(some) /\ Cardinality(some) \in Nat
  <2>1. IsFiniteSet(1..Len(frame))
    BY <1>2, FS_Interval
  <2> QED BY <1>3, <2>1, FS_Subset, FS_CardinalityType
<1>5. P!Visible = [k \in 1..Cardinality(some) |-> frame[P!Nth(some, k)]]
  BY CardinalityP DEF P!Visible
<1> HIDE DEF some, v
<1>6. v <= Cardinality(some) /\ \A k \in 1..v : P!Nth(some, k) = k
  BY <1>2, <1>3, <1>4, NthOfPrefix
<1>7. \A k \in 1..Cardinality(some) : P!Nth(some, k) \in 1..Len(frame)
  BY <1>3, <1>4, NthOf
<1>8. P!Visible \in Seq(Rows) /\ Len(P!Visible) = Cardinality(some)
  BY <1>2, <1>4, <1>5, <1>7
<1>9. SubSeq(P!Visible, 1, v) = SubSeq(frame, 1, v)
  <2>1. \A k \in 1..v : P!Visible[k] = frame[k]
    BY <1>2, <1>4, <1>5, <1>6
  <2>2. SubSeq(P!Visible, 1, v) = [k \in 1..v |-> P!Visible[k]]
    BY <1>2, <1>4, <1>6, <1>8
  <2>3. SubSeq(frame, 1, v) = [k \in 1..v |-> frame[k]]
    BY <1>1, <1>2 DEF v
  <2> QED BY <2>1, <2>2, <2>3
<1> QED BY <1>1, <1>6, <1>8, <1>9 DEF P!WindowIsKnowable, v

(* The mean looks back: its value at a row is the same over any frame that    *)
(* starts with the some up to it.                                             *)
LEMMA SliceIsKept == ReadsInv => P!SliceIsRecompute
<1> SUFFICES ASSUME ReadsInv, full["mean"] # <<>>
             PROVE  P!Served("mean") = P!Compute("mean", SubSeq(frame, 1, P!VisibleLen))
  BY DEF P!SliceIsRecompute
<1> DEFINE v == P!VisibleLen
           c == P!Compute("mean", frame)
           s == SubSeq(frame, 1, v)
<1>1. v \in 0..Len(frame) /\ frame \in Seq(Rows) /\ Len(frame) \in Nat
  BY WindowOfKnown DEF ReadsInv, ReadsType
<1>2. full["mean"] = c
  BY DEF ReadsInv, ComputedWhole, P!Indicators
<1>3. c = [i \in 1..Len(frame) |-> IF i = 1 THEN NaN ELSE frame[i - 1].close + frame[i].close]
  BY DEF P!Compute, P!Value
<1>4. Len(c) = Len(frame)
  BY <1>1, <1>3
<1>5. P!Served("mean") = SubSeq(c, 1, v)
  <2>1. P!Lesser(v, Len(c)) = v
    BY <1>1, <1>4 DEF P!Lesser
  <2> QED BY <1>2, <2>1 DEF P!Served
<1> HIDE DEF v
<1>6. SubSeq(c, 1, v) = [i \in 1..v |-> c[i]]
  BY <1>1, <1>3, <1>4
<1>7. Len(s) = v /\ \A i \in 1..v : s[i] = frame[i]
  BY <1>1
<1>8. P!Compute("mean", s) = [i \in 1..v |-> IF i = 1 THEN NaN ELSE s[i - 1].close + s[i].close]
  BY <1>7 DEF P!Compute, P!Value
<1> HIDE DEF s, c
<1>9. ASSUME NEW i \in 1..v
      PROVE  c[i] = IF i = 1 THEN NaN ELSE s[i - 1].close + s[i].close
  <2>1. i \in 1..Len(frame) /\ i \in Nat
    BY <1>1
  <2>2. i # 1 => i - 1 \in 1..v
    BY <1>1, <2>1
  <2> QED BY <1>3, <1>7, <2>1, <2>2
<1> QED BY <1>5, <1>6, <1>8, <1>9 DEF s, v

(* A finite set of signals has a newest one, and one that is the last of the  *)
(* newest.                                                                    *)
LEMMA LastOfNewest ==
    ASSUME P!SessionAssumption, sigs \in P!SigLists, NEW Y \in SUBSET (1..Len(sigs)), Y # {}
    PROVE  /\ P!LastOf(Y) \in Y
           /\ \A j \in Y : sigs[j].know <= sigs[P!LastOf(Y)].know
<1>1. PICK n \in 0..2 : sigs \in [1..n -> [know : 1..LastTime, score : 1..2]]
  BY DEF P!SigLists
<1>2. Len(sigs) = n /\ n \in Nat
  BY <1>1
<1>3. \A i \in 1..n : sigs[i].know \in Nat /\ sigs[i].know <= LastTime
  BY <1>1 DEF P!SessionAssumption
<1> DEFINE whens == {sigs[i].know : i \in Y}
<1>4. whens \in SUBSET Nat /\ whens # {} /\ \A k \in whens : k <= LastTime
  BY <1>2, <1>3
<1> HIDE DEF whens
<1>5. PICK peak \in whens : \A k \in whens : k <= peak
  BY <1>4, GreatestOf DEF P!SessionAssumption
<1>6. P!Newest(Y) # {} /\ P!Newest(Y) \in SUBSET Nat /\ \A i \in P!Newest(Y) : i <= n
  <2>1. PICK i \in Y : peak = sigs[i].know
    BY <1>5 DEF whens
  <2>2. \A j \in Y : sigs[j].know <= sigs[i].know
    BY <1>5, <2>1 DEF whens
  <2>3. i \in P!Newest(Y)
    BY <2>2 DEF P!Newest
  <2>4. P!Newest(Y) \subseteq Y
    BY DEF P!Newest
  <2>5. P!Newest(Y) \subseteq 1..n
    BY <1>2, <2>4
  <2> QED BY <1>2, <2>3, <2>5
<1>7. \E i \in P!Newest(Y) : \A j \in P!Newest(Y) : j <= i
  BY <1>2, <1>6, GreatestOf
<1>8. P!LastOf(Y) \in P!Newest(Y)
  BY <1>7 DEF P!LastOf
<1> QED BY <1>8 DEF P!Newest

LEMMA AlignedIsLast == P!SessionAssumption /\ ReadsInv => P!AlignedIsNewest
<1> SUFFICES ASSUME P!SessionAssumption, ReadsInv, NEW b \in 1..Len(frame), frame[b].stamp = now
             PROVE  IF P!Known = {} THEN P!Aligned(b, MaxBars) = NaN
                    ELSE P!Aligned(b, MaxBars) \in P!LastSignals
  BY DEF P!AlignedIsNewest
<1> DEFINE from == {c \in 1..b : P!Landed(c) # {} /\ b - c <= MaxBars}
<1>a. P!Aligned(b, MaxBars) = IF from = {} THEN NaN ELSE sigs[P!LastOf(P!Landed(P!Max(from)))].score
  BY DEF P!Aligned
<1>b. Len(frame) \in Nat /\ b \in Nat /\ frame \in Seq(Rows)
  BY DEF ReadsInv, ReadsType
<1>1. CASE sigs = <<>>
  <2>1. Len(sigs) = 0
    BY <1>1
  <2>2. P!Known = {} /\ \A c : P!Landed(c) = {}
    BY <2>1 DEF P!Known, P!Landed
  <2> QED BY <1>a, <2>2
<1>2. CASE frame = P!Sparse /\ sigs \in P!SigLists
  <2>1. PICK n \in 0..2 : sigs \in [1..n -> [know : 1..LastTime, score : 1..2]]
    BY <1>2 DEF P!SigLists
  <2>2. Len(sigs) = n /\ n \in Nat /\ \A i \in 1..n : sigs[i].know \in Nat
    BY <2>1 DEF P!SessionAssumption
  <2>3. /\ Len(frame) = MaxBars /\ MaxBars \in Nat
        /\ \A c \in 1..MaxBars : frame[c].stamp = 2 * c - 1
    BY <1>2 DEF P!Sparse, P!SessionAssumption
  <2>4. now = 2 * b - 1 /\ b <= MaxBars
    BY <1>b, <2>3
  <2> DEFINE bars(i) == {c \in 1..MaxBars : frame[c].stamp >= sigs[i].know}
  (* A signal lands on the least bar at or after the time it was known.       *)
  <2>5. ASSUME NEW i \in 1..n, NEW c \in 1..MaxBars
        PROVE  /\ P!LandsOn(i) = c => sigs[i].know <= 2 * c - 1 /\ (c > 1 => sigs[i].know > 2 * c - 3)
               /\ sigs[i].know <= 2 * c - 1 => P!LandsOn(i) \in 1..c
    <3>1. P!LandsOn(i) = IF bars(i) = {} THEN 0 ELSE P!Min(bars(i))
      BY <2>3 DEF P!LandsOn
    <3>2. bars(i) \in SUBSET Nat /\ bars(i) \subseteq 1..MaxBars
      BY <2>3
    <3>3. bars(i) # {} => P!Min(bars(i)) \in bars(i) /\ \A k \in bars(i) : P!Min(bars(i)) <= k
      BY <3>2, LeastBar
    <3>4. \A k \in 1..MaxBars : k \in bars(i) <=> sigs[i].know <= 2 * k - 1
      BY <2>2, <2>3
    <3>5. c \in Nat /\ sigs[i].know \in Nat
      BY <2>2, <2>3
    <3> HIDE DEF bars
    <3>6. ASSUME P!LandsOn(i) = c
          PROVE  sigs[i].know <= 2 * c - 1 /\ (c > 1 => sigs[i].know > 2 * c - 3)
      <4>1. c \in bars(i) /\ \A k \in bars(i) : c <= k
        BY <3>1, <3>3, <3>5, <3>6
      <4>2. ASSUME c > 1 PROVE sigs[i].know > 2 * c - 3
        <5>1. c - 1 \in 1..MaxBars /\ ~(c <= c - 1)
          BY <2>3, <3>5, <4>2
        <5>2. c - 1 \notin bars(i)
          BY <4>1, <5>1
        <5>3. ~(sigs[i].know <= 2 * (c - 1) - 1)
          BY <3>4, <5>1, <5>2
        <5> QED BY <3>5, <5>3
      <4> QED BY <3>4, <4>1, <4>2
    <3>7. ASSUME sigs[i].know <= 2 * c - 1 PROVE P!LandsOn(i) \in 1..c
      <4>1. c \in bars(i)
        BY <3>4, <3>7
      <4>2. P!LandsOn(i) \in bars(i) /\ P!LandsOn(i) <= c
        BY <3>1, <3>3, <4>1
      <4> QED BY <3>2, <3>5, <4>2
    <3> QED BY <3>6, <3>7
  <2> HIDE DEF bars
  <2>6. P!Known = {i \in 1..n : sigs[i].know <= 2 * b - 1}
    BY <2>2, <2>4 DEF P!Known
  <2>7. \A c : P!Landed(c) = {i \in 1..n : P!LandsOn(i) = c}
    BY <2>2 DEF P!Landed
  <2>8. \A c \in 1..b : c \in 1..MaxBars /\ c \in Nat /\ b - c <= MaxBars
    BY <1>b, <2>3, <2>4
  (* What landed by now was known by now.                                     *)
  <2>9. ASSUME NEW c \in 1..b, NEW i \in P!Landed(c) PROVE i \in P!Known
    <3>1. i \in 1..n /\ sigs[i].know <= 2 * c - 1 /\ c <= b
      BY <1>b, <2>5, <2>7, <2>8, <2>9
    <3> QED BY <1>b, <2>2, <2>6, <2>8, <3>1
  <2>10. CASE P!Known = {}
    <3>1. from = {}
      BY <2>9, <2>10
    <3> QED BY <1>a, <2>10, <3>1
  <2>11. CASE P!Known # {}
    <3>1. ASSUME NEW i \in P!Known PROVE P!LandsOn(i) \in from
      <4>1. i \in 1..n /\ P!LandsOn(i) \in 1..b
        BY <1>b, <2>4, <2>3, <2>5, <2>6
      <4> QED BY <2>7, <2>8, <4>1
    <3>2. from \in SUBSET Nat /\ from # {} /\ \A c \in from : c <= b
      BY <1>b, <2>11, <3>1
    <3> DEFINE m == P!Max(from)
               l == P!LastOf(P!Landed(m))
    <3>3. m \in from /\ \A c \in from : c <= m
      BY <1>b, <3>2, LatestBar
    <3>4. m \in 1..b /\ P!Landed(m) # {} /\ P!Landed(m) \subseteq 1..Len(sigs)
      BY <2>2, <2>7, <3>3
    <3>a. P!Aligned(b, MaxBars) = sigs[l].score
      BY <1>a, <3>2
    <3> HIDE DEF m, from
    <3>5. l \in P!Landed(m) /\ \A j \in P!Landed(m) : sigs[j].know <= sigs[l].know
      BY <1>2, <3>4, LastOfNewest
    <3> HIDE DEF l
    <3>6. l \in P!Known /\ l \in 1..n /\ P!LandsOn(l) = m /\ m \in 1..MaxBars /\ m \in Nat
      BY <2>7, <2>8, <2>9, <3>4, <3>5
    <3>7. m > 1 => sigs[l].know > 2 * m - 3
      BY <2>5, <3>6
    <3>8. ASSUME NEW j \in P!Known PROVE sigs[j].know <= sigs[l].know
      <4> DEFINE c == P!LandsOn(j)
      <4>1. j \in 1..n /\ c \in from /\ c <= m
        BY <2>6, <3>1, <3>3
      <4>2. c \in 1..b /\ c \in 1..MaxBars /\ c \in Nat
        BY <2>8, <4>1 DEF from
      <4>3. CASE c = m
        BY <2>7, <3>5, <4>1, <4>3
      <4>4. CASE c < m
        <5>1. sigs[j].know <= 2 * c - 1
          BY <2>5, <4>1, <4>2
        <5>2. sigs[j].know \in Nat /\ sigs[l].know \in Nat
          BY <2>2, <3>6, <4>1
        <5> HIDE DEF c
        <5> QED BY <3>6, <3>7, <4>2, <4>4, <5>1, <5>2
      <4> HIDE DEF c
      <4> QED BY <3>6, <4>1, <4>2, <4>3, <4>4
    <3>9. sigs[l].score \in P!LastSignals
      BY <3>6, <3>8 DEF P!LastSignals, P!Newest
    <3> QED BY <2>11, <3>9, <3>a
  <2> QED BY <2>10, <2>11
<1> QED BY <1>1, <1>2 DEF ReadsInv, ReadsType

(* What a strategy reads at a moment was known by then: no row of a window    *)
(* or a history, restated later or not, no value of an indicator computed     *)
(* ahead, and no signal laid on a bar before it was known. It is DataView     *)
(* and the Context over it, with the frames a vendor's client makes.          *)
THEOREM ReadsAreTimely == Spec => []ReadsAreCausal
<1>1. P!SessionAssumption
  BY StoresAssumption DEF StoresAssumption
<1>2. Init => ReadsInv
  BY <1>1, ReadsInit
<1>3. ReadsInv /\ [Next]_all => ReadsInv'
  BY <1>1, ViewSteps, ReadsStep
<1>4. ReadsInv => ReadsAreCausal
  <2> SUFFICES ASSUME ReadsInv PROVE ReadsAreCausal
    OBVIOUS
  <2>1. P!VisibleLen \in 0..Len(frame) /\ Len(frame) \in Nat
    BY WindowOfKnown DEF ReadsInv, ReadsType
  <2>2. \A n \in P!Indicators : Len(full[n]) \in {0, Len(frame)}
    <3> SUFFICES ASSUME NEW n \in P!Indicators PROVE Len(full[n]) \in {0, Len(frame)}
      OBVIOUS
    <3>1. CASE full[n] = <<>>
      BY <3>1
    <3>2. CASE full[n] = P!Compute(n, frame)
      BY <2>1, <3>2 DEF P!Compute
    <3> QED BY <3>1, <3>2 DEF ReadsInv, ComputedWhole
  <2>3. P!TypeOK
    BY <2>1, <2>2, Zenon DEF ReadsInv, Timely, P!TypeOK
  <2> QED BY <1>1, <2>3, WindowIsRead, SliceIsKept, AlignedIsLast DEF ReadsInv, ReadsAreCausal
<1> QED BY <1>2, <1>3, <1>4, PTL DEF Spec, all
-----------------------------------------------------------------------------
(* The vendor's pull and the table it is written to, for any answers, any     *)
(* number of retries and look-ups, and writers that interleave and die.       *)

Kinds == {"signal", "herd", "prediction", "insider"}
LEMMA FilesAreKinds == G!ToSet(G!Files) = Kinds
<1>1. DOMAIN G!Files = 1..4
  BY DEF G!Files
<1> QED BY <1>1 DEF G!ToSet, G!Files, Kinds

LEMMA CardinalityG == \A Y : G!Cardinality(Y) = Cardinality(Y)
BY DEF G!Cardinality, Cardinality

(* What a list has at some places is what it has there, and nothing else.     *)
LEMMA SublistIs ==
    ASSUME NEW s, NEW n \in Nat, NEW I \in SUBSET (1..n)
    PROVE  /\ Len(G!Sublist(s, I)) \in Nat /\ DOMAIN G!Sublist(s, I) = 1..Len(G!Sublist(s, I))
           /\ G!ToSet(G!Sublist(s, I)) = {s[i] : i \in I}
           /\ G!Sublist(s, I) \in Seq({s[i] : i \in I})
<1> DEFINE q == T!InOrder(I)
           c == Cardinality(I)
           b == G!Sublist(s, I)
           X == {s[i] : i \in I}
<1>1. I \in SUBSET Nat /\ IsFiniteSet(I) /\ c \in Nat
  <2>1. IsFiniteSet(1..n)
    BY FS_Interval
  <2>2. IsFiniteSet(I)
    BY <2>1, FS_Subset
  <2> QED BY <2>2, FS_CardinalityType
<1>2. q \in Seq(I) /\ Len(q) = c /\ \A i \in I : \E l \in 1..Len(q) : q[l] = i
  BY <1>1, InOrderLists
<1>3. b = [k \in 1..c |-> s[q[k]]]
  <2> DEFINE first(k) == CHOOSE i \in I : T!Place(i, I) = k - 1
             second(k) == CHOOSE i \in I : G!Cardinality({j \in I : j < i}) = k - 1
  <2>1. q = [k \in 1..c |-> first(k)]
    BY CardinalityT DEF T!InOrder
  <2>2. ASSUME NEW k \in 1..c PROVE first(k) = second(k)
    BY CardinalityT, CardinalityG DEF T!Place
  <2>3. b = [k \in 1..c |-> s[second(k)]]
    BY CardinalityG DEF G!Sublist
  <2> HIDE DEF q, b, c, first, second
  <2> QED BY <2>1, <2>2, <2>3
<1> HIDE DEF q, b, c
<1>4. \A k \in 1..c : q[k] \in I
  BY <1>1, <1>2
<1>5. b \in Seq(X) /\ Len(b) = c /\ DOMAIN b = 1..c
  BY <1>1, <1>3, <1>4
<1>6. \A i \in I : \E k \in 1..c : b[k] = s[i]
  BY <1>2, <1>3
<1>7. {b[k] : k \in 1..c} = X
  BY <1>3, <1>4, <1>6
<1> QED BY <1>1, <1>5, <1>7 DEF b, G!ToSet

(* What a body gives: an event for each record that can be used.              *)
EventsOf(body, kind, d, asked) ==
    {G!Event(body[i], kind, d, asked) : i \in {j \in DOMAIN body : G!Usable(body[j], asked)}}

LEMMA NormalizeIs ==
    ASSUME NEW V, NEW body \in Seq(V), NEW kind, NEW d, NEW asked
    PROVE  /\ G!ToSet(G!Normalize(body, kind, d, asked)) = EventsOf(body, kind, d, asked)
           /\ G!Normalize(body, kind, d, asked) \in Seq(EventsOf(body, kind, d, asked))
<1> DEFINE usable == {i \in DOMAIN body : G!Usable(body[i], asked)}
           s == [i \in DOMAIN body |-> G!Event(body[i], kind, d, asked)]
           n == Len(body)
<1>1. n \in Nat /\ DOMAIN body = 1..n
  OBVIOUS
<1>2. usable \in SUBSET (1..n)
  BY <1>1
<1>3. {s[i] : i \in usable} = EventsOf(body, kind, d, asked)
  BY DEF usable, EventsOf
<1>4. G!Normalize(body, kind, d, asked) = G!Sublist(s, usable)
  BY DEF G!Normalize
<1> HIDE DEF usable, s, n
<1>5. G!ToSet(G!Sublist(s, usable)) = {s[i] : i \in usable} /\ G!Sublist(s, usable) \in Seq({s[i] : i \in usable})
  BY <1>1, <1>2, SublistIs
<1> QED BY <1>3, <1>4, <1>5

(* A list is at most as long as it is asked to be.                            *)
LEMMA TopIsShort ==
    ASSUME G!TopNAssumption, NEW V, NEW body \in Seq(V)
    PROVE  LET top == G!TopTickers(body)
           IN  /\ Len(top) \in 0..TopN
               /\ \A i \in 1..Len(top) : \E r \in G!ToSet(body) : top[i] = r.ticker
<1> DEFINE first == G!Firsts(body)
           s == [i \in DOMAIN body |-> body[i].ticker]
           tickers == G!Sublist(s, first)
           n == Len(body)
           X == {s[i] : i \in first}
           k == IF Len(tickers) < TopN THEN Len(tickers) ELSE TopN
<1>1. n \in Nat /\ DOMAIN body = 1..n /\ TopN \in Nat
  BY DEF G!TopNAssumption
<1>2. first \in SUBSET (1..n)
  BY <1>1 DEF G!Firsts
<1>3. \A x \in X : \E r \in G!ToSet(body) : x = r.ticker
  BY <1>1, <1>2 DEF G!ToSet
<1>4. G!TopTickers(body) = SubSeq(tickers, 1, k)
  BY DEF G!TopTickers
<1> HIDE DEF first, s, n
<1>5. tickers \in Seq(X) /\ Len(tickers) \in Nat
  BY <1>1, <1>2, SublistIs
<1> HIDE DEF tickers, X
<1>6. k \in 0..TopN /\ k \in 0..Len(tickers)
  BY <1>1, <1>5
<1> HIDE DEF k
<1>7. Len(SubSeq(tickers, 1, k)) = k /\ \A i \in 1..k : SubSeq(tickers, 1, k)[i] \in X
  <2>1. SubSeq(tickers, 1, k) \in Seq(X) /\ Len(SubSeq(tickers, 1, k)) = IF 1 <= k THEN k - 1 + 1 ELSE 0
    BY <1>5, <1>6, SubSeqProperties
  <2>2. Len(SubSeq(tickers, 1, k)) = k
    BY <1>1, <1>6, <2>1
  <2> QED BY <2>1, <2>2
<1> QED BY <1>3, <1>4, <1>6, <1>7

FeedAssumption == G!RetriesAssumption /\ G!TopNAssumption /\ G!BodiesAssumption /\ PartsAssumption
Tickers == G!ToSet(Parts)
Asked == {""} \cup Tickers
Records == UNION {G!ToSet(body) : body \in UNION {Bodies[k] : k \in Kinds}}
Answers == [at : Nat, body : Seq(Records \cup {G!Problem}), asked : Asked, torn : {TRUE, FALSE}]
(* What the records of the vendor may give.                                   *)
Facts == {G!Event(q[1], q[2], q[3], q[4]) :
             q \in {x \in Records \X Kinds \X Nat \X Asked : G!Usable(x[1], x[4])}}

LEMMA EventIs ==
    ASSUME FeedAssumption, NEW r \in Records, NEW k \in Kinds, NEW d \in Nat, NEW asked \in Asked, G!Usable(r, asked)
    PROVE  LET e == G!Event(r, k, d, asked)
           IN  /\ e \in Facts /\ e.ticker \in Tickers /\ e.uid[2] = e.ticker
               /\ e.know \in Nat /\ d <= e.know /\ e.event \in Nat
<1> DEFINE e == G!Event(r, k, d, asked)
<1>1. /\ {r.traded, r.filed, r.disclosed} \subseteq Nat /\ r.ticker \in Asked
  BY DEF FeedAssumption, G!BodiesAssumption, PartsAssumption, Records, Asked, Tickers, Kinds
<1>2. G!EventTime(r) \in Nat /\ G!Disclosure(r) \in Nat
  BY <1>1 DEF G!EventTime, G!Disclosure
<1>3. \A a, b \in Nat : G!Later(a, b) \in Nat /\ a <= G!Later(a, b) /\ b <= G!Later(a, b)
  BY DEF G!Later
<1>4. G!Knowledge(r, d) \in Nat /\ d <= G!Knowledge(r, d)
  <2>1. G!Later(d, G!Disclosure(r)) \in Nat /\ d <= G!Later(d, G!Disclosure(r))
    BY <1>2, <1>3
  <2> HIDE DEF e
  <2>2. G!Later(G!Later(d, G!Disclosure(r)), G!EventTime(r)) \in Nat
        /\ G!Later(d, G!Disclosure(r)) <= G!Later(G!Later(d, G!Disclosure(r)), G!EventTime(r))
    BY <1>2, <1>3, <2>1
  <2> QED BY <2>1, <2>2 DEF G!Knowledge
<1>5. G!Ticker(r, asked) \in Tickers
  BY <1>1 DEF G!Usable, G!Ticker, Asked
<1>6. e \in Facts
  <2>1. <<r, k, d, asked>> \in {x \in Records \X Kinds \X Nat \X Asked : G!Usable(x[1], x[4])}
    OBVIOUS
  <2> QED BY <2>1 DEF Facts
<1>7. e.ticker = G!Ticker(r, asked) /\ e.uid = <<k, G!Ticker(r, asked), G!EventTime(r), r.id>>
      /\ e.know = G!Knowledge(r, d) /\ e.event = G!EventTime(r)
  BY DEF G!Event, G!Uid
<1> HIDE DEF e
<1>8. e.uid[2] = e.ticker
  BY <1>7
<1> QED BY <1>2, <1>4, <1>5, <1>6, <1>7, <1>8 DEF e

LEMMA FactIs ==
    ASSUME FeedAssumption, NEW e \in Facts
    PROVE  e.ticker \in Tickers /\ e.uid[2] = e.ticker /\ e.know \in Nat /\ e.event \in Nat
<1>1. PICK q \in {x \in Records \X Kinds \X Nat \X Asked : G!Usable(x[1], x[4])} :
          e = G!Event(q[1], q[2], q[3], q[4])
  BY DEF Facts
<1>2. q[1] \in Records /\ q[2] \in Kinds /\ q[3] \in Nat /\ q[4] \in Asked /\ G!Usable(q[1], q[4])
  BY <1>1
<1> QED BY <1>1, <1>2, EventIs

(* A body of the vendor gives facts, known when it was fetched or later.      *)
LEMMA BodyGives ==
    ASSUME FeedAssumption, NEW k \in Kinds, NEW body \in Bodies[k], NEW d \in Nat, NEW asked \in Asked
    PROVE  /\ G!Normalize(body, k, d, asked) \in Seq(Facts) /\ body \in Seq(Records)
           /\ \A e \in G!ToSet(G!Normalize(body, k, d, asked)) : d <= e.know
<1> DEFINE X == EventsOf(body, k, d, asked)
<1>1. body \in Seq(G!ToSet(body)) /\ G!ToSet(body) \subseteq Records
  BY DEF FeedAssumption, G!BodiesAssumption, Records, Kinds
<1>2. body \in Seq(Records)
  BY <1>1
<1>3. \A i \in DOMAIN body : body[i] \in Records
  BY <1>2
<1>4. \A e \in X : e \in Facts /\ d <= e.know
  BY <1>3, EventIs DEF EventsOf
<1>5. G!ToSet(G!Normalize(body, k, d, asked)) = X /\ G!Normalize(body, k, d, asked) \in Seq(X)
  BY <1>2, NormalizeIs
<1> HIDE DEF X
<1>6. G!Normalize(body, k, d, asked) \in Seq(Facts)
  BY <1>4, <1>5
<1> QED BY <1>2, <1>4, <1>5, <1>6

(* A refused answer gives none.                                               *)
LEMMA UselessGivesNothing ==
    ASSUME NEW V, NEW body \in Seq(V), NEW k, NEW d, NEW asked, \A i \in DOMAIN body : ~G!Usable(body[i], asked)
    PROVE  G!ToSet(G!Normalize(body, k, d, asked)) = {}
<1>1. EventsOf(body, k, d, asked) = {}
  BY DEF EventsOf
<1> QED BY <1>1, NormalizeIs

LEMMA ProblemGivesNothing ==
    ASSUME NEW k, NEW d, NEW asked
    PROVE  G!ToSet(G!Normalize(<<G!Problem>>, k, d, asked)) = {} /\ <<G!Problem>> \in Seq({G!Problem})
<1> DEFINE body == <<G!Problem>>
           V == {G!Problem}
<1>1. body \in Seq(V) /\ DOMAIN body = {1} /\ body[1] = G!Problem
  OBVIOUS
<1>2. ~G!Usable(G!Problem, asked)
  BY DEF G!Usable, G!EventTime, G!Problem
<1> HIDE DEF body, V
<1>3. \A i \in DOMAIN body : ~G!Usable(body[i], asked)
  BY <1>1, <1>2
<1>4. G!ToSet(G!Normalize(body, k, d, asked)) = {}
  BY <1>1, <1>3, UselessGivesNothing
<1> QED BY <1>1, <1>4 DEF body, V

(* What a file of saved answers gives.                                        *)
Gives(q, k) == UNION {G!ToSet(G!Normalize(q[i].body, k, q[i].at, q[i].asked)) : i \in DOMAIN q}

LEMMA AppendGives ==
    ASSUME NEW q \in Seq(Answers), NEW a \in Answers, NEW k
    PROVE  Gives(Append(q, a), k) = Gives(q, k) \cup G!ToSet(G!Normalize(a.body, k, a.at, a.asked))
<1> DEFINE n == Len(q)
           p == Append(q, a)
           g(x) == G!ToSet(G!Normalize(x.body, k, x.at, x.asked))
<1>1. n \in Nat /\ DOMAIN q = 1..n /\ DOMAIN p = 1..(n + 1) /\ p[n + 1] = a /\ \A i \in 1..n : p[i] = q[i]
  BY SMT
<1>2. Gives(q, k) = UNION {g(q[i]) : i \in DOMAIN q} /\ Gives(p, k) = UNION {g(p[i]) : i \in DOMAIN p}
  BY DEF Gives
<1> HIDE DEF n, p, g
<1>3. ASSUME NEW e \in Gives(p, k) PROVE e \in Gives(q, k) \cup g(a)
  <2>1. PICK i \in DOMAIN p : e \in g(p[i])
    BY <1>2, <1>3
  <2>2. i \in 1..n \/ i = n + 1
    BY <1>1
  <2> QED BY <1>1, <1>2, <2>1, <2>2
<1>4. ASSUME NEW e \in Gives(q, k) PROVE e \in Gives(p, k)
  <2>1. PICK i \in DOMAIN q : e \in g(q[i])
    BY <1>2, <1>4
  <2>2. i \in DOMAIN p /\ p[i] = q[i]
    BY <1>1
  <2> QED BY <1>2, <2>1, <2>2
<1>5. g(a) \subseteq Gives(p, k)
  <2>1. n + 1 \in DOMAIN p
    BY <1>1
  <2> QED BY <1>1, <1>2, <2>1
<1> QED BY <1>3, <1>4, <1>5 DEF p, g

(* All of a file can be read where no answer in it is half-written.           *)
LEMMA WholeIsReadable ==
    ASSUME NEW q \in Seq(Answers), \A i \in DOMAIN q : ~q[i].torn
    PROVE  G!Readable(q) = q
<1>1. Len(q) \in Nat /\ DOMAIN q = 1..Len(q)
  OBVIOUS
<1>2. {i \in 1..Len(q) : q[i].torn} = {}
  BY <1>1, Zenon
<1>3. G!Readable(q) = SubSeq(q, 1, Len(q))
  BY <1>2 DEF G!Readable
<1> QED BY <1>1, <1>3

-----------------------------------------------------------------------------
(* The pull.                                                                  *)

Raws == [1..LastDay -> [Kinds -> Seq(Answers)]]
GovType ==
    /\ today \in 1..LastDay /\ attempt \in 0..(MaxRetries - 1) /\ tears \in 0..MaxTears
    /\ calls \in Nat /\ fetched \in 0..today
    /\ pull \in {"idle", "running", "done", "over"}
    /\ raw \in Raws /\ todo \in Seq([kind : Kinds, ticker : Asked])
    /\ events \in Seq(Facts) /\ other \in Seq(Facts)

(* A call made counts against its request: what is left to be asked, with the *)
(* look-ups that may still come, fits what is left of the budget.             *)
ListsFirst == \A i \in 2..Len(todo) : todo[i].kind # "signal"
Left == Len(todo) + (IF todo # <<>> /\ todo[1].kind = "signal" THEN TopN ELSE 0)
Budgeted ==
    /\ G!BudgetKept
    /\ pull = "running" => calls + MaxRetries * Left <= MaxRetries * (3 + TopN) + attempt

(* No answer is half-written without a death. Days to come have no file, nor  *)
(* has a day before its pull, but for what the other process fetched.         *)
Quiet == tears = 0 => \A d \in 1..LastDay, k \in Kinds : \A i \in DOMAIN raw[d][k] : ~raw[d][k][i].torn
Blank ==
    /\ \A d \in 1..LastDay, k \in Kinds : d > today => raw[d][k] = <<>>
    /\ tears = 0 /\ pull = "idle" /\ fetched # today => \A k \in Kinds : raw[today][k] = <<>>

(* What is in hand is in the files of the day; and the other way round, if    *)
(* only the pull has been writing them.                                       *)
DayGives == UNION {Gives(raw[today][k], k) : k \in Kinds}
Pulled ==
    /\ pull \in {"idle", "over"} => events = <<>>
    /\ tears = 0 =>
          /\ \A e \in G!ToSet(events) : e \in DayGives /\ today <= e.know
          /\ pull \in {"running", "done"} /\ fetched # today => DayGives \subseteq G!ToSet(events)
OthersToo == tears = 0 => \A e \in G!ToSet(other) : e \in DayGives /\ today <= e.know
GovInv == GovType /\ ListsFirst /\ Budgeted /\ Quiet /\ Blank /\ Pulled /\ OthersToo

LEMMA GovInit == FeedAssumption /\ G!Init => GovInv
<1> SUFFICES ASSUME FeedAssumption, G!Init PROVE GovInv
  OBVIOUS
<1>1. LastDay \in Nat \ {0} /\ MaxTears \in Nat /\ MaxRetries \in Nat \ {0} /\ TopN \in Nat
  BY DEF FeedAssumption, G!BodiesAssumption, G!RetriesAssumption, G!TopNAssumption
<1>2. raw = [d \in 1..LastDay |-> [k \in Kinds |-> <<>>]]
  BY FilesAreKinds DEF G!Init
<1>3. <<>> \in Seq(Answers) /\ <<>> \in Seq(Facts) /\ <<>> \in Seq([kind : Kinds, ticker : Asked])
  OBVIOUS
<1>4. raw \in Raws /\ \A d \in 1..LastDay, k \in Kinds : raw[d][k] = <<>>
  BY <1>2, <1>3 DEF Raws
<1>5. GovType
  BY <1>1, <1>3, <1>4 DEF GovType, G!Init
<1>6. ListsFirst /\ Quiet /\ Blank
  BY <1>1, <1>4 DEF ListsFirst, Quiet, Blank, G!Init
<1>7. Budgeted
  <2>1. 0 <= MaxRetries * (3 + TopN)
    BY <1>1
  <2> QED BY <2>1 DEF Budgeted, G!BudgetKept, G!Init
<1>8. Pulled /\ OthersToo
  BY DEF Pulled, OthersToo, G!ToSet, G!Init
<1> QED BY <1>5, <1>6, <1>7, <1>8 DEF GovInv

LEMMA SnapshotIs ==
    ASSUME NEW d \in Nat, NEW body \in Seq(Records \cup {G!Problem}), NEW asked \in Asked
    PROVE  /\ G!Snapshot(d, body, asked) \in Answers /\ ~G!Snapshot(d, body, asked).torn
           /\ G!Snapshot(d, body, asked).at = d /\ G!Snapshot(d, body, asked).body = body
           /\ G!Snapshot(d, body, asked).asked = asked
<1>1. G!Snapshot(d, body, asked) \in Answers
  BY Zenon DEF G!Snapshot, Answers
<1>2. ~G!Snapshot(d, body, asked).torn
  BY Zenon DEF G!Snapshot
<1>3. G!Snapshot(d, body, asked).at = d /\ G!Snapshot(d, body, asked).body = body
      /\ G!Snapshot(d, body, asked).asked = asked
  BY Zenon DEF G!Snapshot
<1> QED BY <1>1, <1>2, <1>3, Zenon

LEMMA HalfIs == G!Half \in Answers
<1>1. "" \in Asked /\ 0 \in Nat /\ <<>> \in Seq(Records \cup {G!Problem})
  BY DEF Asked
<1> QED BY <1>1, Zenon DEF G!Half, Answers

(* An answer saved is at the end of its file, and no other file changes.      *)
LEMMA SaveAppends ==
    ASSUME today \in 1..LastDay, raw \in Raws, NEW k \in Kinds, NEW a \in Answers, G!Save(k, a)
    PROVE  /\ raw' \in Raws /\ raw'[today][k] = Append(raw[today][k], a)
           /\ \A d \in 1..LastDay, j \in Kinds : d # today \/ j # k => raw'[d][j] = raw[d][j]
<1>1. raw' = [raw EXCEPT ![today][k] = Append(raw[today][k], a)]
  BY DEF G!Save
<1>2. raw[today][k] \in Seq(Answers)
  BY DEF Raws
<1>3. Append(raw[today][k], a) \in Seq(Answers)
  BY <1>2
<1> QED BY <1>1, <1>3 DEF Raws

(* Where answers were appended that are whole, nothing is half-written, and   *)
(* nothing is lost of what the files give.                                    *)
LEMMA MoreIsGiven ==
    ASSUME raw \in Raws, raw' \in Raws, Quiet, tears = 0, tears' = 0,
           NEW Whole \in SUBSET Answers, \A a \in Whole : ~a.torn,
           \A d \in 1..LastDay, k \in Kinds :
              raw'[d][k] = raw[d][k] \/ \E a \in Whole : raw'[d][k] = Append(raw[d][k], a)
    PROVE  Quiet' /\ \A d \in 1..LastDay, k \in Kinds : Gives(raw[d][k], k) \subseteq Gives(raw'[d][k], k)
<1>1. ASSUME NEW d \in 1..LastDay, NEW k \in Kinds
      PROVE  /\ \A i \in DOMAIN raw'[d][k] : ~raw'[d][k][i].torn
             /\ Gives(raw[d][k], k) \subseteq Gives(raw'[d][k], k)
  <2> DEFINE q == raw[d][k]
             p == raw'[d][k]
  <2>1. q \in Seq(Answers) /\ \A i \in DOMAIN q : ~q[i].torn
    BY DEF Quiet, Raws
  <2>2. p = q \/ \E a \in Whole : p = Append(q, a)
    OBVIOUS
  <2> HIDE DEF p, q
  <2>3. CASE p = q
    BY <2>1, <2>3 DEF p, q
  <2>4. ASSUME NEW a \in Whole, p = Append(q, a)
        PROVE  (\A i \in DOMAIN p : ~p[i].torn) /\ Gives(q, k) \subseteq Gives(p, k)
    <3>1. Len(q) \in Nat /\ DOMAIN q = 1..Len(q) /\ DOMAIN p = 1..(Len(q) + 1)
          /\ p[Len(q) + 1] = a /\ \A i \in 1..Len(q) : p[i] = q[i]
      BY <2>1, <2>4
    <3>2. ASSUME NEW i \in DOMAIN p PROVE ~p[i].torn
      <4>1. i \in DOMAIN q \/ i = Len(q) + 1
        BY <3>1
      <4>2. CASE i \in DOMAIN q
        <5>1. p[i] = q[i]
          BY <3>1, <4>2
        <5> QED BY <2>1, <4>2, <5>1, Zenon
      <4>3. CASE i = Len(q) + 1
        <5>1. p[i] = a
          BY <3>1, <4>3
        <5> QED BY <5>1, Zenon
      <4> QED BY <4>1, <4>2, <4>3
    <3>3. Gives(q, k) \subseteq Gives(p, k)
      BY <2>1, <2>4, AppendGives
    <3> QED BY <3>2, <3>3
  <2> QED BY <2>2, <2>3, <2>4 DEF p, q
<1> QED BY <1>1, Zenon DEF Quiet

(* A request that is not answered with a body: lost, tried again or given up, *)
(* refused, or the last because the quota is gone or the key not taken.       *)
Asks ==
    /\ pull = "running" /\ todo # <<>> /\ calls' = calls + 1 /\ UNCHANGED <<today, fetched, other, tears>>
    /\ raw' = raw \/ G!Save(todo[1].kind, G!Snapshot(today, <<G!Problem>>, todo[1].ticker))
    /\ \/ attempt + 1 < MaxRetries /\ attempt' = attempt + 1 /\ todo' = todo
       \/ attempt' = 0 /\ todo' \in {Tail(todo), <<>>}
    /\ UNCHANGED <<events, pull>> \/ (events' = <<>> /\ pull' = "over")

LEMMA RefusalAsks ==
    G!Lost \/ G!Server \/ G!Throttled \/ G!Refused \/ G!QuotaGone \/ G!KeyRefused => Asks
<1>1. G!RetryOrSkip => \/ attempt + 1 < MaxRetries /\ attempt' = attempt + 1 /\ todo' = todo
                       \/ attempt' = 0 /\ todo' \in {Tail(todo), <<>>}
  BY DEF G!RetryOrSkip
<1>2. G!Lost => Asks
  BY <1>1 DEF G!Lost, G!Send, Asks
<1>3. G!Again => Asks
  BY <1>1 DEF G!Again, G!Send, Asks
<1>4. G!Server \/ G!Throttled => G!Again
  BY DEF G!Server, G!Throttled
<1>5. G!Refused => Asks
  BY DEF G!Refused, G!Send, Asks
<1>6. G!QuotaGone => Asks
  BY DEF G!QuotaGone, G!Send, Asks
<1>7. G!KeyRefused => Asks
  BY DEF G!KeyRefused, G!Send, Asks
<1> QED BY <1>2, <1>3, <1>4, <1>5, <1>6, <1>7

Requests == [kind : Kinds, ticker : Asked]

(* The first request is done with and some may follow the others: less is     *)
(* left than before.                                                          *)
LEMMA LessIsLeft ==
    ASSUME GovType, ListsFirst, TopN \in Nat, todo # <<>>,
           NEW more \in Seq(Requests), \A i \in 1..Len(more) : more[i].kind # "signal",
           Len(more) <= (IF todo[1].kind = "signal" THEN TopN ELSE 0),
           todo' = Tail(todo) \o more
    PROVE  todo' \in Seq(Requests) /\ ListsFirst' /\ Left \in Nat /\ Left' \in Nat /\ Left' < Left
<1> DEFINE t == Tail(todo)
           n == Len(todo)
           m == Len(more)
<1>1. n \in Nat \ {0} /\ m \in Nat /\ t \in Seq(Requests) /\ Len(t) = n - 1
      /\ \A i \in 1..(n - 1) : t[i] = todo[i + 1]
  BY DEF GovType, Requests
<1>2. todo' \in Seq(Requests) /\ Len(todo') = n - 1 + m
      /\ \A i \in 1..(n - 1 + m) : todo'[i] = IF i <= n - 1 THEN t[i] ELSE more[i - (n - 1)]
  <2> HIDE DEF t, n
  <2>0. t \in Seq(Requests) /\ more \in Seq(Requests)
    BY <1>1
  <2>1. Len(t \o more) = Len(t) + m /\ t \o more \in Seq(Requests)
    BY <2>0, ConcatProperties
  <2>2. \A i \in 1..(Len(t) + m) : (t \o more)[i] = IF i <= Len(t) THEN t[i] ELSE more[i - Len(t)]
    BY <2>0, ConcatProperties
  <2> QED BY <1>1, <2>1, <2>2 DEF t
<1> HIDE DEF t, n, m
<1>3. \A i \in 1..(n - 1 + m) : todo'[i].kind # "signal"
  <2> SUFFICES ASSUME NEW i \in 1..(n - 1 + m) PROVE todo'[i].kind # "signal"
    OBVIOUS
  <2>1. CASE i <= n - 1
    <3>1. i + 1 \in 2..n /\ todo'[i] = todo[i + 1]
      BY <1>1, <1>2, <2>1
    <3> QED BY <3>1 DEF ListsFirst, n
  <2>2. CASE ~(i <= n - 1)
    <3>0. n \in Nat /\ m \in Nat
      BY <1>1
    <3>1. i - (n - 1) \in 1..m
      BY <2>2, <3>0
    <3>2. todo'[i] = more[i - (n - 1)]
      BY <1>2, <2>2
    <3> QED BY <3>1, <3>2 DEF m
  <2> QED BY <2>1, <2>2
<1>4. ListsFirst'
  <2>1. \A i \in 2..(n - 1 + m) : i \in 1..(n - 1 + m)
    BY <1>1
  <2> QED BY <1>2, <1>3, <2>1 DEF ListsFirst
<1>5. Left' = n - 1 + m
  <2>1. todo' # <<>> => 1 \in 1..(n - 1 + m)
    BY <1>1, <1>2
  <2>2. ~(todo' # <<>> /\ todo'[1].kind = "signal")
    BY <1>3, <2>1
  <2>3. Left' = Len(todo') + 0
    BY <2>2 DEF Left
  <2> QED BY <1>1, <1>2, <2>3
<1>6. Left = n + (IF todo[1].kind = "signal" THEN TopN ELSE 0)
  BY DEF Left, n
<1> QED BY <1>1, <1>2, <1>4, <1>5, <1>6 DEF m

LEMMA TimesLess ==
    ASSUME NEW m \in Nat, NEW a \in Nat, NEW b \in Nat, b < a
    PROVE  m * b + m <= m * a /\ m * a \in Nat /\ m * b \in Nat
<1>1. m * a \in Nat /\ m * b \in Nat
  OBVIOUS
<1>2. a = b + 1 + (a - b - 1) /\ a - b - 1 \in Nat
  OBVIOUS
<1> DEFINE c == a - b - 1
<1>3. m * (b + 1 + c) = m * b + m + m * c /\ m * c \in Nat
  BY <1>2
<1> QED BY <1>1, <1>2, <1>3

LEMMA BudgetStep ==
    ASSUME GovType, Budgeted, MaxRetries \in Nat \ {0}, TopN \in Nat, pull = "running", calls' = calls + 1,
           Left \in Nat \ {0}, Left' \in Nat,
           \/ attempt' = attempt + 1 /\ Left' = Left
           \/ attempt' = 0 /\ Left' < Left
    PROVE  Budgeted'
<1>1. calls \in Nat /\ attempt \in Nat /\ attempt <= MaxRetries - 1
      /\ calls + MaxRetries * Left <= MaxRetries * (3 + TopN) + attempt
  BY DEF GovType, Budgeted
<1>2. 0 < Left
  OBVIOUS
<1>3. MaxRetries * 0 + MaxRetries <= MaxRetries * Left /\ MaxRetries * Left \in Nat
  BY <1>2, TimesLess
<1>4. MaxRetries * 0 = 0 /\ MaxRetries * (3 + TopN) \in Nat
  OBVIOUS
<1> DEFINE p == MaxRetries * Left
           q == MaxRetries * (3 + TopN)
           r == MaxRetries * Left'
<1>5. Left' < Left => r + MaxRetries <= p /\ r \in Nat
  BY TimesLess
<1>6. Left' = Left => r = p
  OBVIOUS
<1>7. p \in Nat /\ q \in Nat /\ MaxRetries <= p /\ calls + p <= q + attempt
  BY <1>1, <1>3, <1>4
<1> HIDE DEF p, q, r
<1>8. calls + 1 <= q /\ calls + 1 + r <= q + attempt'
  BY <1>1, <1>5, <1>6, <1>7
<1> QED BY <1>8 DEF Budgeted, G!BudgetKept, q, r

GovGrows ==
    tears' = 0 => \A d \in 1..LastDay, k \in Kinds : Gives(raw[d][k], k) \subseteq Gives(raw'[d][k], k)

LEMMA NothingIn == G!ToSet(<<>>) = {} /\ <<>> \in Seq(Facts) /\ <<>> \in Seq(Requests)
BY DEF G!ToSet

LEMMA AsksStep == FeedAssumption /\ GovInv /\ Asks => GovInv' /\ GovGrows
<1> SUFFICES ASSUME FeedAssumption, GovInv, Asks PROVE GovInv' /\ GovGrows
  OBVIOUS
<1> DEFINE k == todo[1].kind
           a == G!Snapshot(today, <<G!Problem>>, todo[1].ticker)
<1>0. GovType /\ ListsFirst /\ Budgeted /\ Quiet /\ Blank /\ Pulled /\ OthersToo
  BY DEF GovInv
<1>1. LastDay \in Nat \ {0} /\ MaxTears \in Nat /\ MaxRetries \in Nat \ {0} /\ TopN \in Nat
  BY DEF FeedAssumption, G!BodiesAssumption, G!RetriesAssumption, G!TopNAssumption
<1>2. todo[1] \in Requests /\ k \in Kinds /\ todo[1].ticker \in Asked /\ today \in Nat
  <2>1. todo \in Seq(Requests) /\ todo # <<>> /\ today \in Nat
    BY <1>0, <1>1 DEF GovType, Requests, Asks
  <2>2. todo[1] \in Requests
    BY <2>1
  <2> QED BY <2>1, <2>2 DEF Requests
<1>3. <<G!Problem>> \in Seq(Records \cup {G!Problem}) /\ G!ToSet(G!Normalize(<<G!Problem>>, k, today, todo[1].ticker)) = {}
  <2>1. <<G!Problem>> \in Seq({G!Problem})
    BY ProblemGivesNothing
  <2>2. <<G!Problem>> \in Seq(Records \cup {G!Problem})
    BY <2>1
  <2> QED BY <2>2, ProblemGivesNothing
<1>4. a \in Answers /\ ~a.torn /\ a.body = <<G!Problem>> /\ a.at = today /\ a.asked = todo[1].ticker
  <2> DEFINE body == <<G!Problem>>
  <2>1. body \in Seq(Records \cup {G!Problem})
    BY <1>3
  <2> HIDE DEF body
  <2>2. /\ G!Snapshot(today, body, todo[1].ticker) \in Answers /\ ~G!Snapshot(today, body, todo[1].ticker).torn
        /\ G!Snapshot(today, body, todo[1].ticker).body = body
        /\ G!Snapshot(today, body, todo[1].ticker).at = today
        /\ G!Snapshot(today, body, todo[1].ticker).asked = todo[1].ticker
    <3> DEFINE d == today
               asked == todo[1].ticker
    <3>1. d \in Nat /\ asked \in Asked
      BY <1>2
    <3> HIDE DEF d, asked
    <3>2. /\ G!Snapshot(d, body, asked) \in Answers /\ ~G!Snapshot(d, body, asked).torn
          /\ G!Snapshot(d, body, asked).at = d /\ G!Snapshot(d, body, asked).body = body
          /\ G!Snapshot(d, body, asked).asked = asked
      BY <2>1, <3>1, SnapshotIs
    <3> QED BY <3>2, Zenon DEF d, asked
  <2> QED BY <2>2 DEF body, a
<1>5. raw' = raw \/ G!Save(k, a)
  BY DEF Asks
<1> HIDE DEF k, a
<1>6. raw' \in Raws /\ \A d \in 1..LastDay, j \in Kinds :
          /\ raw'[d][j] = raw[d][j] \/ (d = today /\ j = k /\ raw'[d][j] = Append(raw[d][j], a))
          /\ d # today => raw'[d][j] = raw[d][j]
  <2>1. today \in 1..LastDay /\ raw \in Raws
    BY <1>0 DEF GovType
  <2>2. CASE raw' = raw
    BY <2>1, <2>2
  <2>3. CASE G!Save(k, a)
    <3>1. /\ raw' \in Raws /\ raw'[today][k] = Append(raw[today][k], a)
          /\ \A d \in 1..LastDay, j \in Kinds : d # today \/ j # k => raw'[d][j] = raw[d][j]
      BY <1>2, <1>4, <2>1, <2>3, SaveAppends
    <3> QED BY <3>1
  <2> QED BY <1>5, <2>2, <2>3
<1>7. \A d \in 1..LastDay, j \in Kinds : Gives(raw'[d][j], j) = Gives(raw[d][j], j)
  <2> SUFFICES ASSUME NEW d \in 1..LastDay, NEW j \in Kinds PROVE Gives(raw'[d][j], j) = Gives(raw[d][j], j)
    OBVIOUS
  <2>1. raw[d][j] \in Seq(Answers)
    BY <1>0 DEF GovType, Raws
  <2>2. CASE raw'[d][j] = raw[d][j]
    BY <2>2
  <2>3. CASE j = k /\ raw'[d][j] = Append(raw[d][j], a)
    <3>1. Gives(Append(raw[d][j], a), j) = Gives(raw[d][j], j) \cup G!ToSet(G!Normalize(a.body, j, a.at, a.asked))
      BY <1>4, <2>1, AppendGives
    <3>2. G!Normalize(a.body, j, a.at, a.asked) = G!Normalize(<<G!Problem>>, k, today, todo[1].ticker)
      BY <1>4, <2>3
    <3> HIDE DEF G!Problem
    <3> QED BY <1>3, <2>3, <3>1, <3>2
  <2> QED BY <1>6, <2>2, <2>3
<1>8. UNCHANGED <<today, fetched, other, tears>> /\ pull = "running" /\ calls' = calls + 1 /\ pull' \in {"running", "over"}
  BY DEF Asks
<1>9. Quiet' /\ GovGrows
  <2>1. CASE tears' = 0
    <3>1. {a} \in SUBSET Answers /\ raw \in Raws /\ tears = 0
      BY <1>0, <1>4, <1>8, <2>1 DEF GovType
    <3>2. \A x \in {a} : ~x.torn
      BY <1>4
    <3>3. \A d \in 1..LastDay, j \in Kinds :
              raw'[d][j] = raw[d][j] \/ \E x \in {a} : raw'[d][j] = Append(raw[d][j], x)
      BY <1>6
    <3> QED BY <1>0, <1>6, <2>1, <3>1, <3>2, <3>3, MoreIsGiven DEF GovGrows
  <2>2. CASE tears' # 0
    BY <2>2 DEF Quiet, GovGrows
  <2> QED BY <2>1, <2>2
<1>10. Blank'
  <2>1. \A d \in 1..LastDay, j \in Kinds : d > today => d # today
    BY <1>1, <1>2
  <2>2. \A d \in 1..LastDay, j \in Kinds : d > today => raw'[d][j] = <<>>
    BY <1>0, <1>6, <2>1 DEF Blank
  <2> QED BY <1>8, <2>2 DEF Blank
<1>11. DayGives' = DayGives
  <2>1. today \in 1..LastDay
    BY <1>0 DEF GovType
  <2> QED BY <1>7, <1>8, <2>1 DEF DayGives
<1>12. Pulled' /\ OthersToo'
  <2>1. CASE UNCHANGED <<events, pull>>
    BY <1>0, <1>8, <1>11, <2>1 DEF Pulled, OthersToo
  <2>2. CASE events' = <<>> /\ pull' = "over"
    BY <1>0, <1>8, <1>11, <2>2, NothingIn DEF Pulled, OthersToo
  <2> QED BY <2>1, <2>2 DEF Asks
<1>13. /\ todo' \in Seq(Requests) /\ ListsFirst' /\ Left \in Nat \ {0} /\ Left' \in Nat
       /\ \/ attempt' = attempt + 1 /\ Left' = Left /\ attempt + 1 < MaxRetries
          \/ attempt' = 0 /\ Left' < Left
  <2>1. /\ todo \in Seq(Requests) /\ todo # <<>> /\ Tail(todo) \in Seq(Requests)
        /\ Tail(todo) \o <<>> = Tail(todo)
    <3>1. todo \in Seq(Requests) /\ todo # <<>>
      BY <1>0 DEF GovType, Requests, Asks
    <3>2. Tail(todo) \in Seq(Requests)
      BY <3>1
    <3>3. Tail(todo) \o <<>> = Tail(todo)
      BY <3>2, ConcatEmptySeq
    <3> QED BY <3>1, <3>2, <3>3
  <2>2. /\ Len(<<>>) = 0 /\ <<>> \in Seq(Requests) /\ \A i \in 1..Len(<<>>) : <<>>[i].kind # "signal"
    OBVIOUS
  <2>3. 0 <= (IF todo[1].kind = "signal" THEN TopN ELSE 0)
    BY <1>1
  <2>4. Left \in Nat \ {0}
    <3>1. Len(todo) \in Nat \ {0}
      BY <2>1
    <3> QED BY <1>1, <3>1 DEF Left
  <2>5. CASE attempt + 1 < MaxRetries /\ attempt' = attempt + 1 /\ todo' = todo
    BY <1>0, <2>1, <2>4, <2>5 DEF ListsFirst, Left
  <2>6. CASE attempt' = 0 /\ todo' = Tail(todo)
    <3>1. todo' = Tail(todo) \o <<>>
      BY <2>1, <2>6
    <3>2. todo' \in Seq(Requests) /\ ListsFirst' /\ Left' \in Nat /\ Left' < Left
      BY <1>0, <1>1, <2>1, <2>2, <2>3, <3>1, LessIsLeft
    <3> QED BY <2>4, <2>6, <3>2
  <2>7. CASE attempt' = 0 /\ todo' = <<>>
    <3>1. ListsFirst' /\ Left' = 0
      BY <2>7 DEF ListsFirst, Left
    <3> QED BY <2>2, <2>4, <2>7, <3>1
  <2> QED BY <2>5, <2>6, <2>7 DEF Asks
<1>14. Budgeted'
  BY <1>0, <1>1, <1>8, <1>13, BudgetStep
<1>15. GovType'
  <2>1. attempt' \in 0..(MaxRetries - 1) /\ calls' \in Nat
    BY <1>0, <1>1, <1>8, <1>13 DEF GovType
  <2>2. events' \in Seq(Facts)
    BY <1>0, NothingIn DEF GovType, Asks
  <2> QED BY <1>0, <1>6, <1>8, <1>13, <2>1, <2>2 DEF GovType, Requests
<1> QED BY <1>9, <1>10, <1>12, <1>13, <1>14, <1>15 DEF GovInv

LEMMA BodyOf ==
    ASSUME FeedAssumption, NEW k \in Kinds, NEW body \in Bodies[k]
    PROVE  /\ body \in Seq(Records) /\ body \in Seq(Records \cup {G!Problem})
           /\ \A r \in G!ToSet(body) : r.ticker \in Asked
<1>1. body \in Seq(Records)
  <2>1. 0 \in Nat /\ "" \in Asked
    BY DEF Asked
  <2> QED BY <2>1, BodyGives
<1>2. body \in Seq(Records \cup {G!Problem})
  BY <1>1
<1> QED BY <1>1, <1>2 DEF FeedAssumption, PartsAssumption, Kinds, Asked, Tickers

LEMMA AnsweredStep == FeedAssumption /\ GovInv /\ G!Answered => GovInv' /\ GovGrows
<1> SUFFICES ASSUME FeedAssumption, GovInv, G!Answered PROVE GovInv' /\ GovGrows
  OBVIOUS
<1> DEFINE k == todo[1].kind
           t == todo[1].ticker
<1>0. GovType /\ ListsFirst /\ Budgeted /\ Quiet /\ Blank /\ Pulled /\ OthersToo
  BY DEF GovInv
<1>1. LastDay \in Nat \ {0} /\ MaxTears \in Nat /\ MaxRetries \in Nat \ {0} /\ TopN \in Nat /\ G!TopNAssumption
  BY DEF FeedAssumption, G!BodiesAssumption, G!RetriesAssumption, G!TopNAssumption
<1>2. todo[1] \in Requests /\ k \in Kinds /\ t \in Asked /\ today \in Nat /\ todo \in Seq(Requests) /\ todo # <<>>
  <2>1. todo \in Seq(Requests) /\ todo # <<>> /\ today \in Nat
    BY <1>0, <1>1 DEF GovType, Requests, G!Answered, G!Send
  <2>2. todo[1] \in Requests
    BY <2>1
  <2> QED BY <2>1, <2>2 DEF Requests
<1>3. PICK body \in Bodies[k] :
          /\ G!Save(k, G!Snapshot(today, body, t))
          /\ events' = events \o G!Normalize(body, k, today, t)
          /\ LET top == IF k = "signal" THEN G!TopTickers(body) ELSE <<>>
             IN  todo' = Tail(todo) \o [i \in 1..Len(top) |-> G!Request("insider", top[i])]
  BY DEF G!Answered
<1> DEFINE a == G!Snapshot(today, body, t)
           N == G!Normalize(body, k, today, t)
           top == IF k = "signal" THEN G!TopTickers(body) ELSE <<>>
           more == [i \in 1..Len(top) |-> G!Request("insider", top[i])]
<1>4. /\ body \in Seq(Records) /\ body \in Seq(Records \cup {G!Problem})
      /\ \A r \in G!ToSet(body) : r.ticker \in Asked
  BY <1>2, BodyOf
<1>5. N \in Seq(Facts) /\ \A e \in G!ToSet(N) : today <= e.know
  BY <1>2, BodyGives
<1>6. a \in Answers /\ ~a.torn /\ a.body = body /\ a.at = today /\ a.asked = t
  <2> HIDE DEF a, N, top, more, k, t
  <2>2. /\ \A d \in Nat, b \in Seq(Records \cup {G!Problem}), x \in Asked :
              /\ G!Snapshot(d, b, x) \in Answers /\ ~G!Snapshot(d, b, x).torn
              /\ G!Snapshot(d, b, x).at = d /\ G!Snapshot(d, b, x).body = b /\ G!Snapshot(d, b, x).asked = x
    BY SnapshotIs, Zenon
  <2>1. /\ G!Snapshot(today, body, t) \in Answers /\ ~G!Snapshot(today, body, t).torn
        /\ G!Snapshot(today, body, t).at = today /\ G!Snapshot(today, body, t).body = body
        /\ G!Snapshot(today, body, t).asked = t
    <3>1. today \in Nat
      BY <1>2
    <3>2. body \in Seq(Records \cup {G!Problem})
      BY <1>4
    <3>3. t \in Asked
      BY <1>2
    <3> HIDE DEF G!Snapshot, G!Problem
    <3>4. G!Snapshot(today, body, t) \in Answers
      BY <2>2, <3>1, <3>2, <3>3
    <3>5. ~G!Snapshot(today, body, t).torn
      BY <2>2, <3>1, <3>2, <3>3, Zenon
    <3>6. G!Snapshot(today, body, t).at = today /\ G!Snapshot(today, body, t).body = body
      BY <2>2, <3>1, <3>2, <3>3
    <3>7. G!Snapshot(today, body, t).asked = t
      BY <2>2, <3>1, <3>2, <3>3
    <3> QED BY <3>4, <3>5, <3>6, <3>7, Zenon
  <2> QED BY <2>1, Zenon DEF a
<1>7. UNCHANGED <<today, fetched, other, tears, pull>> /\ pull = "running" /\ calls' = calls + 1 /\ attempt' = 0
  BY DEF G!Answered, G!Send
<1>8. Len(top) \in Nat /\ Len(top) <= (IF k = "signal" THEN TopN ELSE 0) /\ \A i \in 1..Len(top) : top[i] \in Asked
  <2>1. CASE k = "signal"
    <3>1. Len(G!TopTickers(body)) \in 0..TopN
          /\ \A i \in 1..Len(G!TopTickers(body)) : \E r \in G!ToSet(body) : G!TopTickers(body)[i] = r.ticker
      BY <1>1, <1>4, TopIsShort
    <3>2. top = G!TopTickers(body)
      BY <2>1
    <3> HIDE DEF top
    <3> QED BY <1>1, <1>4, <2>1, <3>1, <3>2
  <2>2. CASE k # "signal"
    <3>1. top = <<>>
      BY <2>2
    <3> HIDE DEF top
    <3> QED BY <2>2, <3>1
  <2> QED BY <2>1, <2>2
<1>9. more \in Seq(Requests) /\ Len(more) = Len(top) /\ \A i \in 1..Len(more) : more[i].kind # "signal"
  <2> HIDE DEF top
  <2>1. \A i \in 1..Len(top) : G!Request("insider", top[i]) \in Requests /\ G!Request("insider", top[i]).kind = "insider"
    BY <1>8 DEF G!Request, Requests, Kinds
  <2>2. DOMAIN more = 1..Len(top) /\ \A i \in 1..Len(top) : more[i] = G!Request("insider", top[i])
    OBVIOUS
  <2>3. more \in Seq(Requests) /\ Len(more) = Len(top)
    BY <1>8, <2>1
  <2> HIDE DEF more
  <2> QED BY <2>1, <2>2, <2>3
<1>10. todo' = Tail(todo) \o more /\ events' = events \o N /\ G!Save(k, a)
  BY <1>3
<1> HIDE DEF a, N, top, more
<1>11. todo' \in Seq(Requests) /\ ListsFirst' /\ Left \in Nat /\ Left' \in Nat /\ Left' < Left
  <2>1. Len(more) <= (IF todo[1].kind = "signal" THEN TopN ELSE 0)
    BY <1>8, <1>9
  <2> QED BY <1>0, <1>1, <1>2, <1>9, <1>10, <2>1, LessIsLeft
<1>12. Budgeted'
  <2>1. Left \in Nat \ {0}
    BY <1>11
  <2> QED BY <1>0, <1>1, <1>7, <1>11, <2>1, BudgetStep
<1>13. /\ raw' \in Raws /\ raw'[today][k] = Append(raw[today][k], a)
       /\ \A d \in 1..LastDay, j \in Kinds : d # today \/ j # k => raw'[d][j] = raw[d][j]
       /\ today \in 1..LastDay /\ raw \in Raws
  <2>1. today \in 1..LastDay /\ raw \in Raws
    BY <1>0 DEF GovType
  <2>2. k \in Kinds
    BY <1>2
  <2> HIDE DEF k
  <2> QED BY <1>6, <1>10, <2>1, <2>2, SaveAppends
<1>14. Gives(raw'[today][k], k) = Gives(raw[today][k], k) \cup G!ToSet(N)
  <2>1. raw[today][k] \in Seq(Answers)
    BY <1>2, <1>13 DEF Raws
  <2>2. Gives(Append(raw[today][k], a), k) = Gives(raw[today][k], k) \cup G!ToSet(G!Normalize(a.body, k, a.at, a.asked))
    BY <1>6, <2>1, AppendGives
  <2>3. G!Normalize(a.body, k, a.at, a.asked) = N
    BY <1>6 DEF N
  <2> QED BY <1>13, <2>2, <2>3
<1> HIDE DEF k, t
<1>15. DayGives' = DayGives \cup G!ToSet(N)
  <2>1. \A j \in Kinds : j # k => Gives(raw'[today][j], j) = Gives(raw[today][j], j)
    BY <1>13
  <2>2. DayGives' = UNION {Gives(raw'[today][j], j) : j \in Kinds}
    BY <1>7 DEF DayGives
  <2> QED BY <1>2, <1>14, <2>1, <2>2 DEF DayGives
<1>16. G!ToSet(events') = G!ToSet(events) \cup G!ToSet(N) /\ events' \in Seq(Facts)
  <2>1. events \in Seq(Facts)
    BY <1>0 DEF GovType
  <2>2. /\ events' \in Seq(Facts) /\ Len(events') = Len(events) + Len(N)
        /\ \A i \in 1..(Len(events) + Len(N)) : events'[i] = IF i <= Len(events) THEN events[i] ELSE N[i - Len(events)]
    BY <1>5, <1>10, <2>1, ConcatProperties
  <2>3. ASSUME NEW x \in G!ToSet(events') PROVE x \in G!ToSet(events) \cup G!ToSet(N)
    <3>1. PICK i \in 1..(Len(events) + Len(N)) : x = events'[i]
      BY <2>2 DEF G!ToSet
    <3>2. Len(events) \in Nat /\ Len(N) \in Nat /\ DOMAIN events = 1..Len(events) /\ DOMAIN N = 1..Len(N)
      BY <1>5, <2>1
    <3>3. CASE i <= Len(events)
      BY <2>2, <3>1, <3>2, <3>3 DEF G!ToSet
    <3>4. CASE ~(i <= Len(events))
      <4>1. i - Len(events) \in DOMAIN N
        BY <3>2, <3>4
      <4> QED BY <2>2, <3>1, <3>4, <4>1 DEF G!ToSet
    <3> QED BY <3>3, <3>4
  <2>4. ASSUME NEW x \in G!ToSet(events) \cup G!ToSet(N) PROVE x \in G!ToSet(events')
    <3>1. Len(events) \in Nat /\ Len(N) \in Nat /\ DOMAIN events = 1..Len(events) /\ DOMAIN N = 1..Len(N)
          /\ DOMAIN events' = 1..(Len(events) + Len(N))
      BY <1>5, <2>1, <2>2
    <3>2. CASE x \in G!ToSet(events)
      <4>1. PICK i \in 1..Len(events) : x = events[i]
        BY <3>1, <3>2 DEF G!ToSet
      <4>2. i \in DOMAIN events' /\ events'[i] = x
        BY <2>2, <3>1, <4>1
      <4> QED BY <4>2 DEF G!ToSet
    <3>3. CASE x \in G!ToSet(N)
      <4>1. PICK i \in 1..Len(N) : x = N[i]
        BY <3>1, <3>3 DEF G!ToSet
      <4>2. i + Len(events) \in DOMAIN events' /\ ~(i + Len(events) <= Len(events)) /\ i + Len(events) - Len(events) = i
        BY <3>1, <4>1
      <4>3. events'[i + Len(events)] = x
        BY <2>2, <3>1, <4>1, <4>2
      <4> QED BY <4>2, <4>3 DEF G!ToSet
    <3> QED BY <3>2, <3>3
  <2> QED BY <2>2, <2>3, <2>4
<1>17. GovType'
  <2>1. attempt' \in 0..(MaxRetries - 1) /\ calls' \in Nat
    BY <1>0, <1>1, <1>7 DEF GovType
  <2> QED BY <1>0, <1>7, <1>11, <1>13, <1>16, <2>1 DEF GovType, Requests
<1>18. Quiet' /\ GovGrows
  <2>1. CASE tears' = 0
    <3>1. {a} \in SUBSET Answers /\ tears = 0
      BY <1>6, <1>7, <2>1
    <3>2. \A x \in {a} : ~x.torn
      BY <1>6
    <3>3. \A d \in 1..LastDay, j \in Kinds :
              raw'[d][j] = raw[d][j] \/ \E x \in {a} : raw'[d][j] = Append(raw[d][j], x)
      BY <1>13
    <3> QED BY <1>0, <1>13, <2>1, <3>1, <3>2, <3>3, MoreIsGiven DEF GovGrows
  <2>2. CASE tears' # 0
    BY <2>2 DEF Quiet, GovGrows
  <2> QED BY <2>1, <2>2
<1>19. Blank'
  <2>1. \A d \in 1..LastDay, j \in Kinds : d > today => d # today
    BY <1>1, <1>2
  <2>2. \A d \in 1..LastDay, j \in Kinds : d > today => raw'[d][j] = <<>>
    BY <1>0, <1>13, <2>1 DEF Blank
  <2> QED BY <1>7, <2>2 DEF Blank
<1>20. Pulled' /\ OthersToo'
  BY <1>0, <1>5, <1>7, <1>15, <1>16 DEF Pulled, OthersToo
<1> QED BY <1>11, <1>12, <1>17, <1>18, <1>19, <1>20 DEF GovInv

LEMMA PullStep == FeedAssumption /\ GovInv /\ G!Pull => GovInv' /\ GovGrows
<1> SUFFICES ASSUME FeedAssumption, GovInv, G!Pull PROVE GovInv' /\ GovGrows
  OBVIOUS
<1>0. GovType /\ ListsFirst /\ Budgeted /\ Quiet /\ Blank /\ Pulled /\ OthersToo
  BY DEF GovInv
<1>1. LastDay \in Nat \ {0} /\ MaxTears \in Nat /\ MaxRetries \in Nat \ {0} /\ TopN \in Nat
  BY DEF FeedAssumption, G!BodiesAssumption, G!RetriesAssumption, G!TopNAssumption
<1>2. /\ pull = "idle" /\ pull' = "running" /\ attempt' = 0 /\ calls' = 0 /\ events' = <<>>
      /\ UNCHANGED <<today, raw, fetched, other, tears>>
      /\ todo' = [i \in 1..3 |-> G!Request(G!Lists[i], "")]
  BY DEF G!Pull
<1>3. /\ todo' \in Seq(Requests) /\ Len(todo') = 3 /\ todo' # <<>>
      /\ todo'[1].kind = "signal" /\ todo'[2].kind = "herd" /\ todo'[3].kind = "prediction"
  <2>1. \A i \in 1..3 : G!Request(G!Lists[i], "") \in Requests /\ G!Request(G!Lists[i], "").kind = G!Lists[i]
    BY DEF G!Request, G!Lists, Requests, Kinds, Asked
  <2>2. todo' \in Seq(Requests) /\ Len(todo') = 3 /\ \A i \in 1..3 : todo'[i].kind = G!Lists[i]
    <3> DEFINE q(i) == G!Request(G!Lists[i], "")
    <3>1. todo' = [i \in 1..3 |-> q(i)] /\ \A i \in 1..3 : q(i) \in Requests /\ q(i).kind = G!Lists[i]
      BY <1>2, <2>1
    <3> HIDE DEF q
    <3>2. \A i \in 1..3 : todo'[i] = q(i)
      BY <3>1
    <3> QED BY <3>1, <3>2
  <2> QED BY <2>2 DEF G!Lists
<1>4. ListsFirst'
  BY <1>3 DEF ListsFirst
<1>5. Budgeted'
  <2>1. Left' = 3 + TopN
    BY <1>1, <1>3 DEF Left
  <2>2. MaxRetries * (3 + TopN) \in Nat
    BY <1>1
  <2> DEFINE q == MaxRetries * (3 + TopN)
  <2>3. q \in Nat /\ MaxRetries * Left' = q
    BY <2>1, <2>2
  <2> HIDE DEF q
  <2> DEFINE p == MaxRetries * Left'
  <2>5. p = q /\ calls' = 0 /\ attempt' = 0
    BY <1>2, <2>3
  <2> HIDE DEF p
  <2>4. calls' <= q /\ calls' + p <= q + attempt'
    BY <2>3, <2>5
  <2> QED BY <2>4 DEF Budgeted, G!BudgetKept, p, q
<1>6. tears = 0 /\ fetched # today => DayGives' = {}
  <2> SUFFICES ASSUME tears = 0, fetched # today PROVE DayGives' = {}
    OBVIOUS
  <2>1. \A k \in Kinds : raw'[today'][k] = <<>>
    BY <1>0, <1>2 DEF Blank
  <2>2. \A k \in Kinds : Gives(raw'[today'][k], k) = {}
    BY <2>1 DEF Gives
  <2> QED BY <2>2 DEF DayGives
<1>7. GovType'
  <2>1. /\ attempt' \in 0..(MaxRetries - 1) /\ calls' \in Nat /\ events' \in Seq(Facts)
        /\ pull' \in {"idle", "running", "done", "over"}
    <3>1. attempt' = 0 /\ calls' = 0 /\ events' = <<>> /\ pull' = "running"
      BY <1>2
    <3> QED BY <1>1, <3>1, NothingIn
  <2>2. todo' \in Seq([kind : Kinds, ticker : Asked])
    BY <1>3 DEF Requests
  <2>3. /\ today' \in 1..LastDay /\ tears' \in 0..MaxTears /\ fetched' \in 0..today'
        /\ raw' \in Raws /\ other' \in Seq(Facts)
    BY <1>0, <1>2 DEF GovType
  <2> QED BY <2>1, <2>2, <2>3 DEF GovType
<1>8. Quiet' /\ Blank' /\ GovGrows
  BY <1>0, <1>2 DEF Quiet, Blank, GovGrows
<1>9. Pulled'
  BY <1>2, <1>6, NothingIn DEF Pulled
<1>10. OthersToo'
  BY <1>0, <1>2 DEF OthersToo, DayGives
<1> QED BY <1>4, <1>5, <1>7, <1>8, <1>9, <1>10 DEF GovInv

LEMMA ReportStep == GovInv /\ G!Report => GovInv' /\ GovGrows
<1> SUFFICES ASSUME GovInv, G!Report PROVE GovInv' /\ GovGrows
  OBVIOUS
<1>0. GovType /\ ListsFirst /\ Budgeted /\ Quiet /\ Blank /\ Pulled /\ OthersToo
  BY DEF GovInv
<1>1. /\ pull = "running" /\ pull' = "done"
      /\ UNCHANGED <<today, raw, todo, attempt, calls, events, fetched, other, tears>>
  BY DEF G!Report
<1>2. GovType' /\ ListsFirst' /\ Quiet' /\ Blank' /\ GovGrows
  BY <1>0, <1>1 DEF GovType, ListsFirst, Quiet, Blank, GovGrows
<1>3. Budgeted'
  BY <1>0, <1>1 DEF Budgeted, G!BudgetKept
<1>4. Pulled' /\ OthersToo'
  BY <1>0, <1>1 DEF Pulled, OthersToo, DayGives
<1> QED BY <1>2, <1>3, <1>4 DEF GovInv

LEMMA TearStep == FeedAssumption /\ GovInv /\ G!Tear => GovInv' /\ GovGrows
<1> SUFFICES ASSUME FeedAssumption, GovInv, G!Tear PROVE GovInv' /\ GovGrows
  OBVIOUS
<1>0. GovType /\ Blank
  BY DEF GovInv
<1>1. LastDay \in Nat \ {0} /\ MaxTears \in Nat /\ MaxRetries \in Nat \ {0} /\ TopN \in Nat
  BY DEF FeedAssumption, G!BodiesAssumption, G!RetriesAssumption, G!TopNAssumption
<1>2. /\ pull = "running" /\ todo # <<>> /\ tears < MaxTears /\ tears' = tears + 1
      /\ pull' = "idle" /\ todo' = <<>> /\ attempt' = 0 /\ calls' = 0 /\ events' = <<>>
      /\ UNCHANGED <<today, fetched, other>> /\ G!Save(todo[1].kind, G!Half)
  BY DEF G!Tear
<1> DEFINE k == todo[1].kind
<1>3. k \in Kinds /\ today \in 1..LastDay /\ raw \in Raws /\ today \in Nat
  <2>1. todo \in Seq(Requests) /\ todo # <<>> /\ today \in 1..LastDay /\ raw \in Raws
    BY <1>0, <1>2 DEF GovType, Requests
  <2>2. todo[1] \in Requests
    BY <2>1
  <2> QED BY <1>1, <2>1, <2>2 DEF Requests
<1>4. G!Save(k, G!Half)
  BY <1>2
<1> HIDE DEF k
<1>5. raw' \in Raws /\ \A d \in 1..LastDay, j \in Kinds : d # today \/ j # k => raw'[d][j] = raw[d][j]
  BY <1>3, <1>4, HalfIs, SaveAppends
<1>6. tears' # 0 /\ tears' \in 0..MaxTears
  BY <1>0, <1>1, <1>2 DEF GovType
<1>7. GovType'
  BY <1>0, <1>1, <1>2, <1>5, <1>6, NothingIn DEF GovType, Requests
<1>8. ListsFirst' /\ Quiet' /\ OthersToo' /\ GovGrows
  BY <1>2, <1>6 DEF ListsFirst, Quiet, OthersToo, GovGrows
<1>9. Blank'
  <2>1. \A d \in 1..LastDay, j \in Kinds : d > today => d # today
    BY <1>3
  <2>2. \A d \in 1..LastDay, j \in Kinds : d > today => raw'[d][j] = <<>>
    BY <1>0, <1>5, <2>1 DEF Blank
  <2> QED BY <1>2, <1>6, <2>2 DEF Blank
<1>10. Budgeted'
  <2>1. 0 <= MaxRetries * (3 + TopN)
    BY <1>1
  <2> QED BY <1>2, <2>1 DEF Budgeted, G!BudgetKept
<1>11. Pulled'
  BY <1>2, <1>6 DEF Pulled
<1> QED BY <1>7, <1>8, <1>9, <1>10, <1>11 DEF GovInv

LEMMA NextDayStep == FeedAssumption /\ GovInv /\ G!NextDay => GovInv' /\ GovGrows
<1> SUFFICES ASSUME FeedAssumption, GovInv, G!NextDay PROVE GovInv' /\ GovGrows
  OBVIOUS
<1>0. GovType /\ Quiet /\ Blank
  BY DEF GovInv
<1>1. LastDay \in Nat \ {0} /\ MaxTears \in Nat /\ MaxRetries \in Nat \ {0} /\ TopN \in Nat
  BY DEF FeedAssumption, G!BodiesAssumption, G!RetriesAssumption, G!TopNAssumption
<1>2. /\ today < LastDay /\ today' = today + 1 /\ other' = <<>>
      /\ pull' = "idle" /\ todo' = <<>> /\ attempt' = 0 /\ calls' = 0 /\ events' = <<>>
      /\ UNCHANGED <<raw, fetched, tears>>
  BY DEF G!NextDay
<1>3. GovType'
  BY <1>0, <1>1, <1>2, NothingIn DEF GovType, Requests
<1>4. ListsFirst' /\ Quiet' /\ GovGrows /\ OthersToo'
  BY <1>0, <1>2, NothingIn DEF ListsFirst, Quiet, GovGrows, OthersToo
<1>5. Blank'
  <2>1. today \in Nat /\ today' \in 1..LastDay /\ \A d \in 1..LastDay : d >= today' => d > today
    BY <1>0, <1>1, <1>2 DEF GovType
  <2>2. \A d \in 1..LastDay, k \in Kinds : d >= today' => raw'[d][k] = <<>>
    BY <1>0, <1>2, <2>1 DEF Blank
  <2>3. today' >= today' /\ \A d \in 1..LastDay : d > today' => d >= today'
    BY <2>1
  <2> QED BY <2>1, <2>2, <2>3 DEF Blank
<1>6. Budgeted'
  <2>1. 0 <= MaxRetries * (3 + TopN)
    BY <1>1
  <2> QED BY <1>2, <2>1 DEF Budgeted, G!BudgetKept
<1>7. Pulled'
  BY <1>2, NothingIn DEF Pulled
<1> QED BY <1>3, <1>4, <1>5, <1>6, <1>7 DEF GovInv

(* The lists another process fetches go to the ends of their files.           *)
Fetched(n, body) ==
    LET got(i) == G!Normalize(body[i], G!Lists[i], today, "")
        joined == got(1) \o got(2) \o got(3)
        asked(k) == \E i \in 1..n : G!Lists[i] = k
    IN  /\ UNCHANGED <<todo, attempt, calls, events, pull, today, tears>> /\ fetched' = today
        /\ raw' = [raw EXCEPT ![today] = [k \in Kinds |->
              IF asked(k) THEN Append(raw[today][k], G!Snapshot(today, body[CHOOSE i \in 1..3 : G!Lists[i] = k], ""))
                          ELSE raw[today][k]]]
        /\ other' = IF n < 3 THEN <<>> ELSE G!Sublist(joined, {i \in DOMAIN joined : joined[i].event <= today})

LEMMA FetchedStep ==
    ASSUME FeedAssumption, GovInv, NEW n \in 0..3, NEW body,
           \A i \in 1..3 : body[i] \in Bodies[G!Lists[i]], Fetched(n, body)
    PROVE  GovInv' /\ GovGrows
<1>0. GovType /\ ListsFirst /\ Budgeted /\ Quiet /\ Blank /\ Pulled /\ OthersToo
  BY DEF GovInv
<1>1. LastDay \in Nat \ {0} /\ MaxTears \in Nat /\ MaxRetries \in Nat \ {0} /\ TopN \in Nat
  BY DEF FeedAssumption, G!BodiesAssumption, G!RetriesAssumption, G!TopNAssumption
<1> DEFINE list(i) == G!Lists[i]
           a(i) == G!Snapshot(today, body[i], "")
           N(i) == G!Normalize(body[i], list(i), today, "")
           joined == N(1) \o N(2) \o N(3)
<1>3. UNCHANGED <<todo, attempt, calls, events, pull, today, tears>> /\ fetched' = today
  BY DEF Fetched
<1>4. today \in 1..LastDay /\ today \in Nat /\ raw \in Raws /\ "" \in Asked
  <2>1. today \in 1..LastDay /\ raw \in Raws
    BY <1>0 DEF GovType
  <2> QED BY <1>1, <2>1 DEF Asked
<1>5. \A i \in 1..3 : list(i) \in Kinds /\ body[i] \in Bodies[list(i)] /\ \A j \in 1..3 : list(i) = list(j) => i = j
  BY DEF G!Lists, Kinds
<1>6. other' = IF n < 3 THEN <<>> ELSE G!Sublist(joined, {i \in DOMAIN joined : joined[i].event <= today})
  BY DEF Fetched
<1>7. raw' = [raw EXCEPT ![today] = [k \in Kinds |->
          IF \E i \in 1..n : list(i) = k THEN Append(raw[today][k], a(CHOOSE i \in 1..3 : list(i) = k)) ELSE raw[today][k]]]
  BY DEF Fetched
<1> HIDE DEF joined
<1>8. \A i \in 1..3 : /\ N(i) \in Seq(Facts) /\ body[i] \in Seq(Records \cup {G!Problem})
                      /\ \A e \in G!ToSet(N(i)) : today <= e.know
  <2> SUFFICES ASSUME NEW i \in 1..3
               PROVE  /\ N(i) \in Seq(Facts) /\ body[i] \in Seq(Records \cup {G!Problem})
                      /\ \A e \in G!ToSet(N(i)) : today <= e.know
    OBVIOUS
  <2> DEFINE k == list(i)
             b == body[i]
  <2>1. k \in Kinds /\ b \in Bodies[k]
    BY <1>5
  <2> HIDE DEF k, b
  <2>2. /\ G!Normalize(b, k, today, "") \in Seq(Facts)
        /\ \A e \in G!ToSet(G!Normalize(b, k, today, "")) : today <= e.know
    BY <1>4, <2>1, BodyGives
  <2>3. b \in Seq(Records \cup {G!Problem})
    BY <2>1, BodyOf
  <2> QED BY <2>2, <2>3 DEF k, b
<1>9. \A i \in 1..3 : a(i) \in Answers /\ ~a(i).torn /\ a(i).body = body[i] /\ a(i).at = today /\ a(i).asked = ""
  <2> SUFFICES ASSUME NEW i \in 1..3
               PROVE  a(i) \in Answers /\ ~a(i).torn /\ a(i).body = body[i] /\ a(i).at = today /\ a(i).asked = ""
    OBVIOUS
  <2> DEFINE b == body[i]
  <2>1. b \in Seq(Records \cup {G!Problem})
    BY <1>8
  <2> HIDE DEF b, list, N, joined
  <2>2. \A d \in Nat, c \in Seq(Records \cup {G!Problem}), x \in Asked :
              /\ G!Snapshot(d, c, x) \in Answers /\ ~G!Snapshot(d, c, x).torn
              /\ G!Snapshot(d, c, x).at = d /\ G!Snapshot(d, c, x).body = c /\ G!Snapshot(d, c, x).asked = x
    BY SnapshotIs, Zenon
  <2>3. today \in Nat /\ "" \in Asked
    BY <1>4
  <2> HIDE DEF G!Snapshot, G!Problem, a
  <2>4. G!Snapshot(today, b, "") \in Answers
    BY <2>1, <2>2, <2>3
  <2>5. ~G!Snapshot(today, b, "").torn
    BY <2>1, <2>2, <2>3, Zenon
  <2>6. G!Snapshot(today, b, "").at = today
    BY Zenon DEF G!Snapshot
  <2>8. G!Snapshot(today, b, "").body = b
    BY Zenon DEF G!Snapshot
  <2>7. G!Snapshot(today, b, "").asked = ""
    BY Zenon DEF G!Snapshot
  <2> QED BY <2>4, <2>5, <2>6, <2>7, <2>8, Zenon DEF a, b
<1>10. /\ \A i \in 1..n : raw'[today][list(i)] = Append(raw[today][list(i)], a(i))
       /\ \A j \in Kinds : (\A i \in 1..n : list(i) # j) => raw'[today][j] = raw[today][j]
       /\ \A d \in 1..LastDay, j \in Kinds : d # today => raw'[d][j] = raw[d][j]
       /\ raw' \in Raws
  <2> DEFINE c(j) == CHOOSE i \in 1..3 : list(i) = j
             v == [k \in Kinds |-> IF \E i \in 1..n : list(i) = k THEN Append(raw[today][k], a(c(k))) ELSE raw[today][k]]
  <2>1. \A i \in 1..3 : c(list(i)) = i
    BY <1>5
  <2>2. \A i \in 1..n : i \in 1..3
    OBVIOUS
  <2>3. raw' = [raw EXCEPT ![today] = v]
    BY <1>7
  <2> HIDE DEF c, a, list
  <2>4. \A j \in Kinds : v[j] \in Seq(Answers)
    <3> SUFFICES ASSUME NEW j \in Kinds PROVE v[j] \in Seq(Answers)
      OBVIOUS
    <3>1. raw[today][j] \in Seq(Answers)
      BY <1>4 DEF Raws
    <3>2. CASE \E i \in 1..n : list(i) = j
      <4>1. PICK i \in 1..n : list(i) = j
        BY <3>2
      <4>2. v[j] = Append(raw[today][j], a(i)) /\ a(i) \in Answers
        BY <1>9, <2>1, <2>2, <4>1
      <4> HIDE DEF v
      <4> QED BY <3>1, <4>2
    <3>3. CASE ~\E i \in 1..n : list(i) = j
      BY <3>1, <3>3
    <3> QED BY <3>2, <3>3
  <2>5. \A i \in 1..n : v[list(i)] = Append(raw[today][list(i)], a(i))
    BY <1>5, <2>1, <2>2
  <2>6. \A j \in Kinds : (\A i \in 1..n : list(i) # j) => v[j] = raw[today][j]
    OBVIOUS
  <2>7. v \in [Kinds -> Seq(Answers)]
    BY <2>4
  <2> HIDE DEF v
  <2>8. raw' \in Raws /\ raw'[today] = v /\ \A d \in 1..LastDay : d # today => raw'[d] = raw[d]
    BY <1>4, <2>3, <2>7 DEF Raws
  <2> QED BY <2>5, <2>6, <2>8
<1> HIDE DEF a
<1>11. \A d \in 1..LastDay, j \in Kinds :
           raw'[d][j] = raw[d][j] \/ \E x \in {a(i) : i \in 1..n} : raw'[d][j] = Append(raw[d][j], x)
  <2> SUFFICES ASSUME NEW d \in 1..LastDay, NEW j \in Kinds
               PROVE  raw'[d][j] = raw[d][j] \/ \E x \in {a(i) : i \in 1..n} : raw'[d][j] = Append(raw[d][j], x)
    OBVIOUS
  <2> HIDE DEF list
  <2>1. CASE d # today \/ \A i \in 1..n : list(i) # j
    BY <1>10, <2>1
  <2>2. ASSUME d = today, NEW i \in 1..n, list(i) = j
        PROVE  raw'[d][j] = Append(raw[d][j], a(i))
    BY <1>10, <2>2
  <2> QED BY <2>1, <2>2
<1>12. Quiet' /\ GovGrows
  <2>1. CASE tears' = 0
    <3>0. \A i \in 1..n : i \in 1..3
      OBVIOUS
    <3>1. {a(i) : i \in 1..n} \in SUBSET Answers /\ tears = 0
      <4>1. \A i \in 1..n : a(i) \in Answers
        BY <1>9, <3>0, Zenon
      <4> QED BY <1>3, <2>1, <4>1
    <3>2. \A x \in {a(i) : i \in 1..n} : ~x.torn
      BY <1>9, <3>0, Zenon
    <3> QED BY <1>0, <1>4, <1>10, <1>11, <2>1, <3>1, <3>2, MoreIsGiven DEF GovGrows
  <2>2. CASE tears' # 0
    BY <2>2 DEF Quiet, GovGrows
  <2> QED BY <2>1, <2>2
<1>13. Blank'
  <2>1. \A d \in 1..LastDay, j \in Kinds : d > today => d # today
    <3> HIDE DEF list, N
    <3>1. today \in Nat
      BY <1>4
    <3> QED BY <3>1
  <2>2. \A d \in 1..LastDay, j \in Kinds : d > today => raw'[d][j] = <<>>
    BY <1>0, <1>10, <2>1 DEF Blank
  <2> QED BY <1>3, <2>2 DEF Blank
<1>14. Budgeted' /\ ListsFirst'
  BY <1>0, <1>3 DEF Budgeted, G!BudgetKept, Left, ListsFirst
<1>15. other' \in Seq(Facts) /\ \A e \in G!ToSet(other') : n = 3 /\ \E i \in 1..3 : e \in G!ToSet(N(i))
  <2> HIDE DEF N
  <2>1. CASE n < 3
    BY <1>6, <2>1, NothingIn
  <2>2. CASE ~(n < 3)
    <3> DEFINE I == {i \in DOMAIN joined : joined[i].event <= today}
               m == Len(joined)
    <3>1. joined \in Seq(Facts) /\ \A i \in 1..m : \E j \in 1..3 : joined[i] \in G!ToSet(N(j))
      <4>1. N(1) \in Seq(Facts) /\ N(2) \in Seq(Facts) /\ N(3) \in Seq(Facts)
        BY <1>8
      <4> DEFINE p == N(1) \o N(2)
      <4>2. /\ p \in Seq(Facts) /\ Len(p) = Len(N(1)) + Len(N(2))
            /\ \A i \in 1..Len(p) : p[i] = IF i <= Len(N(1)) THEN N(1)[i] ELSE N(2)[i - Len(N(1))]
        BY <4>1, ConcatProperties
      <4>3. joined = p \o N(3)
        BY DEF joined
      <4> HIDE DEF p
      <4>4. /\ joined \in Seq(Facts) /\ m = Len(p) + Len(N(3))
            /\ \A i \in 1..m : joined[i] = IF i <= Len(p) THEN p[i] ELSE N(3)[i - Len(p)]
        BY <4>1, <4>2, <4>3, ConcatProperties
      <4> HIDE DEF m
      <4>5. /\ Len(N(1)) \in Nat /\ Len(N(2)) \in Nat /\ Len(N(3)) \in Nat
            /\ DOMAIN N(1) = 1..Len(N(1)) /\ DOMAIN N(2) = 1..Len(N(2)) /\ DOMAIN N(3) = 1..Len(N(3))
        BY <4>1
      <4>6. ASSUME NEW i \in 1..Len(p) PROVE p[i] \in G!ToSet(N(1)) \/ p[i] \in G!ToSet(N(2))
        <5>1. CASE i <= Len(N(1))
          BY <4>2, <4>5, <5>1 DEF G!ToSet
        <5>2. CASE ~(i <= Len(N(1)))
          <6>1. i - Len(N(1)) \in DOMAIN N(2)
            BY <4>2, <4>5, <5>2
          <6> QED BY <4>2, <5>2, <6>1 DEF G!ToSet
        <5> QED BY <5>1, <5>2
      <4>7. ASSUME NEW i \in 1..m PROVE \E j \in 1..3 : joined[i] \in G!ToSet(N(j))
        <5>1. CASE i <= Len(p)
          <6>1. i \in 1..Len(p)
            BY <4>2, <4>4, <4>5, <5>1
          <6> QED BY <4>4, <4>6, <5>1, <6>1
        <5>2. CASE ~(i <= Len(p))
          <6>1. i - Len(p) \in DOMAIN N(3)
            BY <4>2, <4>4, <4>5, <5>2
          <6>2. joined[i] \in G!ToSet(N(3))
            BY <4>4, <5>2, <6>1 DEF G!ToSet
          <6> QED BY <6>2
        <5> QED BY <5>1, <5>2
      <4> QED BY <4>4, <4>7
    <3>2. other' = G!Sublist(joined, I)
      BY <1>6, <2>2
    <3>3. m \in Nat /\ DOMAIN joined = 1..m /\ I \in SUBSET (1..m)
      BY <3>1
    <3>4. \A i \in 1..m : joined[i] \in Facts
      BY <3>1, <3>3
    <3> HIDE DEF I, m
    <3>5. G!ToSet(other') = {joined[i] : i \in I} /\ other' \in Seq({joined[i] : i \in I})
      BY <3>2, <3>3, SublistIs
    <3>6. {joined[i] : i \in I} \subseteq Facts
      BY <3>3, <3>4
    <3>7. other' \in Seq(Facts)
      BY <3>5, <3>6
    <3> QED BY <2>2, <3>1, <3>3, <3>5, <3>7
  <2> QED BY <2>1, <2>2
<1>16. ASSUME NEW e \in G!ToSet(other') PROVE e \in DayGives' /\ today' <= e.know
  <2>1. PICK i \in 1..3 : e \in G!ToSet(N(i))
    BY <1>15
  <2>2. i \in 1..n /\ list(i) \in Kinds
    BY <1>5, <1>15
  <2>3. raw[today][list(i)] \in Seq(Answers) /\ a(i) \in Answers
    BY <1>4, <1>9, <2>2 DEF Raws
  <2> DEFINE k == list(i)
             x == a(i)
  <2>4. Gives(Append(raw[today][k], x), k) = Gives(raw[today][k], k) \cup G!ToSet(G!Normalize(x.body, k, x.at, x.asked))
    <3>1. raw[today][k] \in Seq(Answers) /\ x \in Answers
      BY <2>3
    <3> HIDE DEF k, x
    <3> QED BY <3>1, AppendGives
  <2>5. G!Normalize(x.body, k, x.at, x.asked) = N(i)
    BY <1>9
  <2>6. e \in Gives(raw'[today][k], k)
    BY <1>10, <2>1, <2>2, <2>4, <2>5
  <2> HIDE DEF k
  <2>7. k \in Kinds
    BY <2>2 DEF k
  <2> QED BY <1>3, <1>8, <2>1, <2>6, <2>7 DEF DayGives
<1>17. OthersToo'
  BY <1>16 DEF OthersToo
<1>18. Pulled'
  <2>1. tears' = 0 => DayGives \subseteq DayGives'
    BY <1>3, <1>4, <1>12 DEF DayGives, GovGrows
  <2> QED BY <1>0, <1>3, <2>1 DEF Pulled
<1>19. GovType'
  <2>1. fetched' \in 0..today'
    <3>1. today \in Nat /\ today' = today /\ fetched' = today
      BY <1>3, <1>4
    <3> QED BY <3>1
  <2> QED BY <1>0, <1>3, <1>10, <1>15, <2>1 DEF GovType
<1> QED BY <1>12, <1>13, <1>14, <1>17, <1>18, <1>19 DEF GovInv

LEMMA FetchStep == FeedAssumption /\ GovInv /\ G!Fetch => GovInv' /\ GovGrows
<1> SUFFICES ASSUME FeedAssumption, GovInv, G!Fetch PROVE GovInv' /\ GovGrows
  OBVIOUS
<1>1. PICK n \in 0..3, body \in Bodies["signal"] \X Bodies["herd"] \X Bodies["prediction"] : Fetched(n, body)
  BY FilesAreKinds DEF G!Fetch, Fetched, G!client
<1>2. \A i \in 1..3 : body[i] \in Bodies[G!Lists[i]]
  BY DEF G!Lists
<1> QED BY <1>1, <1>2, FetchedStep

LEMMA CronWritesGov == FeedAssumption /\ GovInv /\ CronWrites => GovInv' /\ GovGrows
<1> SUFFICES ASSUME FeedAssumption, GovInv, CronWrites PROVE GovInv' /\ GovGrows
  OBVIOUS
<1>0. GovType /\ ListsFirst /\ Budgeted /\ Quiet /\ Blank /\ Pulled /\ OthersToo
  BY DEF GovInv
<1>1. /\ pull = "done" /\ pull' = "over" /\ events' = <<>>
      /\ UNCHANGED <<today, raw, todo, attempt, calls, last, fetched, other, tears>>
  BY DEF CronWrites
<1>2. GovType' /\ ListsFirst' /\ Quiet' /\ Blank' /\ GovGrows
  BY <1>0, <1>1, NothingIn DEF GovType, ListsFirst, Quiet, Blank, GovGrows
<1>3. Budgeted'
  BY <1>0, <1>1 DEF Budgeted, G!BudgetKept
<1>4. Pulled' /\ OthersToo'
  BY <1>0, <1>1, NothingIn DEF Pulled, OthersToo, DayGives
<1> QED BY <1>2, <1>3, <1>4 DEF GovInv

LEMMA HandWritesGov == FeedAssumption /\ GovInv /\ HandWrites => GovInv' /\ GovGrows
<1> SUFFICES ASSUME FeedAssumption, GovInv, HandWrites PROVE GovInv' /\ GovGrows
  OBVIOUS
<1>0. GovType /\ ListsFirst /\ Budgeted /\ Quiet /\ Blank /\ Pulled /\ OthersToo
  BY DEF GovInv
<1>1. other' = <<>> /\ UNCHANGED <<today, raw, todo, attempt, calls, events, pull, last, fetched, tears>>
  BY DEF HandWrites
<1>2. GovType' /\ ListsFirst' /\ Quiet' /\ Blank' /\ GovGrows
  BY <1>0, <1>1, NothingIn DEF GovType, ListsFirst, Quiet, Blank, GovGrows
<1>3. Budgeted'
  BY <1>0, <1>1 DEF Budgeted, G!BudgetKept, Left
<1>4. Pulled' /\ OthersToo'
  BY <1>0, <1>1, NothingIn DEF Pulled, OthersToo, DayGives
<1> QED BY <1>2, <1>3, <1>4 DEF GovInv

LEMMA GovSame == GovInv /\ UNCHANGED gov => GovInv' /\ GovGrows
<1> SUFFICES ASSUME GovInv, UNCHANGED gov PROVE GovInv' /\ GovGrows
  OBVIOUS
<1>0. GovType /\ ListsFirst /\ Budgeted /\ Quiet /\ Blank /\ Pulled /\ OthersToo
  BY DEF GovInv
<1>1. UNCHANGED <<today, raw, todo, attempt, calls, events, pull, last, fetched, other, tears>>
  BY DEF gov
<1>2. GovType' /\ ListsFirst' /\ Quiet' /\ Blank' /\ GovGrows
  BY <1>0, <1>1 DEF GovType, ListsFirst, Quiet, Blank, GovGrows
<1>3. Budgeted'
  BY <1>0, <1>1 DEF Budgeted, G!BudgetKept, Left
<1>4. Pulled' /\ OthersToo'
  BY <1>0, <1>1 DEF Pulled, OthersToo, DayGives
<1> QED BY <1>2, <1>3, <1>4 DEF GovInv

(* A death is not undone.                                                     *)
LEMMA TearsStay ==
    ASSUME GovType, MaxTears \in Nat,
           UNCHANGED tears \/ G!Pull \/ G!Requests \/ G!Report \/ G!Tear \/ G!Fetch \/ G!NextDay
    PROVE  tears' = 0 => tears = 0
<1>1. G!Again \/ G!Lost \/ G!Refused \/ G!QuotaGone \/ G!KeyRefused \/ G!Answered => UNCHANGED tears
  BY DEF G!Again, G!Lost, G!Refused, G!QuotaGone, G!KeyRefused, G!Answered, G!Send
<1>2. G!Requests => UNCHANGED tears
  BY <1>1 DEF G!Requests, G!Server, G!Throttled
<1>3. G!Pull \/ G!Report \/ G!Fetch \/ G!NextDay => UNCHANGED tears
  BY DEF G!Pull, G!Report, G!Fetch, G!NextDay
<1>4. G!Tear => tears' # 0
  BY DEF G!Tear, GovType
<1> QED BY <1>2, <1>3, <1>4

-----------------------------------------------------------------------------
(* The table.                                                                 *)

(* What a row may be: a fact, and without deaths one that a saved answer      *)
(* gives, known no earlier than it was fetched.                               *)
Snap(r) == \E d \in 1..LastDay, k \in Kinds : d <= r.know /\ r \in Gives(raw[d][k], k)
Good == {r \in Facts : tears = 0 => Snap(r)}
Unique(X) == \A r, q \in X : r.uid = q.uid => r = q

Table ==
    /\ disk = [p \in Tickers |-> disk[p]] /\ kept = [p \in Tickers |-> kept[p]]
    /\ \A p \in Tickers : \A f \in S!Files(p) : \A r \in disk[p][f] : r \in Good /\ r.ticker = p
Hands ==
    /\ at \in [Writers -> {"idle", "read", "list", "swap"}]
    /\ rows \in [Writers -> SUBSET Good] /\ merged \in [Writers -> SUBSET Good]
    /\ doomed = [x \in Writers |-> doomed[x]] /\ target = [x \in Writers |-> target[x]]
    /\ \A x \in Writers : /\ at[x] # "idle" => rows[x] # {}
                          /\ Unique(rows[x])
                          /\ S!Writing(x) => \A r \in merged[x] : r.ticker = S!Part(x)

(* A partition where nobody died in the middle and nobody met another: one    *)
(* file at most, one row for a fact; who is rewriting it has in hand what is  *)
(* there, is going to remove just that, and is alone.                         *)
Whole(p) == S!Files(p) \subseteq {0} /\ \A f \in S!Files(p) : Unique(disk[p][f])
Covers(x) ==
    /\ Unique(merged[x]) /\ doomed[x] = S!Files(S!Part(x))
    /\ \A f \in S!Files(S!Part(x)) : S!Uids(disk[S!Part(x)][f]) \subseteq S!Uids(merged[x])
    /\ at[x] = "swap" => target[x] = 0
AtIt(x, p) == S!Writing(x) /\ S!Part(x) = p
Calm(p) ==
    /\ Whole(p)
    /\ \A x \in Writers : AtIt(x, p) => Covers(x) /\ \A y \in Writers : AtIt(y, p) => y = x
Safe(p) == kept[p] \subseteq S!Held(p)
StoreInv == Table /\ Hands /\ (\A p \in Tickers : p \in hurt \/ (Calm(p) /\ Safe(p)))

LEMMA MoreGood ==
    ASSUME GovGrows, tears' = 0 => tears = 0, LastDay \in Nat
    PROVE  Good \subseteq Good'
<1> SUFFICES ASSUME NEW r \in Good PROVE r \in Good'
  OBVIOUS
<1>1. r \in Facts
  BY DEF Good
<1>2. tears' = 0 => Snap(r)
  BY DEF Good
<1>3. tears' = 0 => Snap(r)'
  BY <1>2 DEF Snap, GovGrows
<1> QED BY <1>1, <1>3 DEF Good

(* The partition a writer is on is one of the table.                          *)
LEMMA PartIs ==
    ASSUME FeedAssumption, NEW X \in SUBSET Facts, X # {}
    PROVE  Parts[S!PartIndex(X)] \in Tickers
<1>1. Parts \in Seq(Tickers) /\ Len(Parts) \in Nat
  <2>1. Parts \in Seq(Tickers)
    BY Zenon DEF FeedAssumption, PartsAssumption, Tickers
  <2> QED BY <2>1
<1> DEFINE V == {i \in 1..Len(Parts) : \E r \in X : r.ticker = Parts[i]}
<1>2. V \in SUBSET Nat /\ V # {}
  <2>1. PICK r \in X : TRUE
    OBVIOUS
  <2>2. r.ticker \in Tickers
    BY <2>1, FactIs
  <2>3. PICK i \in 1..Len(Parts) : Parts[i] = r.ticker
    BY <1>1, <2>2 DEF Tickers, G!ToSet
  <2> QED BY <1>1, <2>3
<1>3. PICK m \in V : \A k \in V : m <= k
  BY <1>2, LeastOf
<1>4. /\ m \in 1..Len(Parts) /\ \E r \in X : PartOf(r) = Parts[m]
      /\ \A j \in 1..(m - 1) : \A r \in X : PartOf(r) # Parts[j]
  <2>1. m \in 1..Len(Parts) /\ \E r \in X : PartOf(r) = Parts[m]
    BY <1>3 DEF PartOf
  <2>2. ASSUME NEW j \in 1..(m - 1), NEW r \in X PROVE PartOf(r) # Parts[j]
    <3>1. j \in 1..Len(Parts) /\ ~(m <= j)
      BY <1>1, <2>1
    <3>2. j \notin V
      BY <1>3, <3>1
    <3> QED BY <3>1, <3>2 DEF PartOf
  <2> QED BY <2>1, <2>2
<1>5. S!PartIndex(X) \in 1..Len(Parts)
  BY <1>4 DEF S!PartIndex
<1> QED BY <1>1, <1>5

LEMMA PartOfWriter ==
    ASSUME FeedAssumption, Hands, NEW x \in Writers, at[x] # "idle"
    PROVE  S!Part(x) \in Tickers
<1>1. rows[x] \in SUBSET Facts /\ rows[x] # {}
  BY DEF Hands, Good
<1> QED BY <1>1, PartIs DEF S!Part

(* The rows written over others are there, and so are the facts of the        *)
(* others, each of them once.                                                 *)
LEMMA OverKeeps ==
    ASSUME NEW old, NEW new
    PROVE  /\ S!Over(old, new) \subseteq old \cup new
           /\ S!Uids(old) \subseteq S!Uids(S!Over(old, new))
           /\ Unique(old) /\ Unique(new) => Unique(S!Over(old, new))
BY DEF S!Over, S!Uids, Unique

LEMMA LastOfIs ==
    ASSUME FeedAssumption, NEW batch \in Seq(Facts), batch # <<>>
    PROVE  /\ S!LastOf(batch) # {} /\ S!LastOf(batch) \subseteq G!ToSet(batch)
           /\ Unique(S!LastOf(batch))
<1> DEFINE n == Len(batch)
           J == {j \in 1..n : \A k \in (j + 1)..n : batch[k].uid # batch[j].uid}
<1>1. n \in Nat \ {0} /\ DOMAIN batch = 1..n
  OBVIOUS
<1>2. S!LastOf(batch) = {batch[i] : i \in J}
  BY DEF S!LastOf
<1>3. n \in J
  BY <1>1
<1>4. \A i, j \in J : batch[i].uid = batch[j].uid => i = j
  <2> SUFFICES ASSUME NEW i \in J, NEW j \in J, batch[i].uid = batch[j].uid PROVE i = j
    OBVIOUS
  <2>1. i \in 1..n /\ j \in 1..n
    OBVIOUS
  <2>2. ~(i < j)
    BY <1>1, <2>1
  <2>3. ~(j < i)
    BY <1>1, <2>1
  <2> QED BY <1>1, <2>1, <2>2, <2>3
<1>5. J \subseteq 1..n
  OBVIOUS
<1> HIDE DEF n, J
<1>6. S!LastOf(batch) # {} /\ S!LastOf(batch) \subseteq G!ToSet(batch)
  BY <1>1, <1>2, <1>3, <1>5 DEF G!ToSet
<1>7. Unique(S!LastOf(batch))
  BY <1>2, <1>4 DEF Unique
<1> QED BY <1>6, <1>7

(* What a partition holds: what is on disk, and what is in hand.              *)
LEMMA HeldIs ==
    ASSUME NEW p
    PROVE  /\ \A u : u \in S!Held(p) <=>
                  \/ \E f \in S!Files(p) : u \in S!Uids(disk[p][f])
                  \/ \E y \in Writers : at[y] = "swap" /\ S!Part(y) = p /\ u \in S!Uids(merged[y])
           /\ \A u : u \in S!Held(p)' <=>
                  \/ \E f \in S!Files(p)' : u \in S!Uids(disk'[p][f])
                  \/ \E y \in Writers : at'[y] = "swap" /\ S!Part(y)' = p /\ u \in S!Uids(merged'[y])
<1>1. \A u : u \in S!Uids(S!Stored(p)) <=> \E f \in S!Files(p) : u \in S!Uids(disk[p][f])
  BY DEF S!Uids, S!Stored
<1>2. \A u : u \in S!Uids(S!Stored(p))' <=> \E f \in S!Files(p)' : u \in S!Uids(disk'[p][f])
  BY DEF S!Uids, S!Stored
<1>3. \A u : u \in S!Held(p) <=> u \in S!Uids(S!Stored(p)) \/ \E y \in Writers : at[y] = "swap" /\ S!Part(y) = p /\ u \in S!Uids(merged[y])
  BY DEF S!Held
<1>4. \A u : u \in S!Held(p)' <=> u \in S!Uids(S!Stored(p))' \/ \E y \in Writers : at'[y] = "swap" /\ S!Part(y)' = p /\ u \in S!Uids(merged'[y])
  BY DEF S!Held, S!Uids
<1> QED BY <1>1, <1>2, <1>3, <1>4

(* What is not written, removed or moved stays as it was, and who is not at   *)
(* it stays where it was.                                                     *)
LEMMA WriteStep ==
    ASSUME FeedAssumption, StoreInv, Good \subseteq Good', NEW x \in Writers, NEW batch \in Seq(Facts),
           G!ToSet(batch) \subseteq Good', S!Write(x, batch)
    PROVE  StoreInv'
<1>0. Table /\ Hands /\ (\A q \in Tickers : q \in hurt \/ (Calm(q) /\ Safe(q)))
  BY DEF StoreInv
<1>1. at[x] = "idle" /\ UNCHANGED <<disk, merged, doomed, target, kept, hurt, deaths>>
  BY DEF S!Write
<1>2. \/ batch # <<>> /\ rows' = [rows EXCEPT ![x] = S!LastOf(batch)] /\ at' = [at EXCEPT ![x] = "read"]
      \/ UNCHANGED <<rows, at>>
  BY DEF S!Write
<1>3. Table'
  BY <1>0, <1>1 DEF Table, S!Files
<1>4. /\ at' \in [Writers -> {"idle", "read", "list", "swap"}] /\ rows' \in [Writers -> SUBSET Good']
      /\ \A y \in Writers : (at'[y] # "idle" => rows'[y] # {}) /\ Unique(rows'[y])
      /\ \A y \in Writers : S!Writing(y)' <=> S!Writing(y)
      /\ \A y \in Writers : S!Writing(y) => y # x /\ at'[y] = at[y] /\ rows'[y] = rows[y]
      /\ \A y \in Writers : at'[y] = "swap" <=> at[y] = "swap"
  <2>0. at \in [Writers -> {"idle", "read", "list", "swap"}] /\ rows \in [Writers -> SUBSET Good']
    BY <1>0 DEF Hands
  <2>1. CASE batch # <<>> /\ rows' = [rows EXCEPT ![x] = S!LastOf(batch)] /\ at' = [at EXCEPT ![x] = "read"]
    <3>1. S!LastOf(batch) # {} /\ S!LastOf(batch) \subseteq Good' /\ Unique(S!LastOf(batch))
      BY <2>1, LastOfIs
    <3>2. \A y \in Writers : y # x => at'[y] = at[y] /\ rows'[y] = rows[y]
      BY <2>0, <2>1
    <3>3. at'[x] = "read" /\ rows'[x] = S!LastOf(batch)
      BY <2>0, <2>1
    <3>4. at' \in [Writers -> {"idle", "read", "list", "swap"}] /\ rows' \in [Writers -> SUBSET Good']
      BY <2>0, <2>1, <3>1
    <3> QED BY <1>0, <1>1, <3>1, <3>2, <3>3, <3>4 DEF Hands, S!Writing
  <2>2. CASE UNCHANGED <<rows, at>>
    BY <1>0, <1>1, <2>0, <2>2 DEF Hands, S!Writing
  <2> QED BY <1>2, <2>1, <2>2
<1>5. \A y \in Writers : S!Writing(y) => S!Part(y)' = S!Part(y) /\ S!Writing(y)
  BY <1>4 DEF S!Part
<1>6. Hands'
  <2>1. merged' \in [Writers -> SUBSET Good'] /\ doomed' = [y \in Writers |-> doomed'[y]] /\ target' = [y \in Writers |-> target'[y]]
    BY <1>0, <1>1 DEF Hands
  <2>2. \A y \in Writers : S!Writing(y)' => \A r \in merged'[y] : r.ticker = S!Part(y)'
    BY <1>0, <1>1, <1>4, <1>5 DEF Hands
  <2> QED BY <1>4, <2>1, <2>2 DEF Hands
<1>7. ASSUME NEW q \in Tickers PROVE q \in hurt' \/ (Calm(q)' /\ Safe(q)')
  <2>1. SUFFICES ASSUME Calm(q), Safe(q) PROVE Calm(q)' /\ Safe(q)'
    BY <1>0, <1>1
  <2>2. Whole(q)'
    BY <1>1, <2>1 DEF Calm, Whole, S!Files
  <2>3. \A y \in Writers : AtIt(y, q)' => AtIt(y, q)
    BY <1>4, <1>5 DEF AtIt
  <2>4. \A y \in Writers : AtIt(y, q)' => Covers(y)'
    BY <1>1, <1>4, <1>5, <2>1, <2>3 DEF Calm, Covers, S!Files, S!Uids, AtIt
  <2>5. Calm(q)'
    BY <2>1, <2>2, <2>3, <2>4 DEF Calm
  <2>6. S!Files(q)' = S!Files(q)
    BY <1>1 DEF S!Files
  <2>7. \A y \in Writers : at[y] = "swap" => at'[y] = "swap" /\ S!Part(y)' = S!Part(y)
    BY <1>4, <1>5 DEF S!Writing
  <2>8. \A u \in S!Held(q) : u \in S!Held(q)'
    BY <1>1, <2>6, <2>7, HeldIs
  <2> QED BY <1>1, <2>1, <2>5, <2>8 DEF Safe
<1> QED BY <1>3, <1>6, <1>7 DEF StoreInv

(* A step of one writer changes what is in its hands and no other's.          *)
LEMMA StepShape ==
    ASSUME Hands, NEW x \in Writers, S!Step(x)
    PROVE  /\ \E v : at' = [at EXCEPT ![x] = v]
           /\ \E v : rows' = [rows EXCEPT ![x] = v]
           /\ \E v : merged' = [merged EXCEPT ![x] = v]
           /\ \E v : doomed' = [doomed EXCEPT ![x] = v]
           /\ \E v : target' = [target EXCEPT ![x] = v]
<1>0. /\ at = [at EXCEPT ![x] = at[x]] /\ rows = [rows EXCEPT ![x] = rows[x]]
      /\ merged = [merged EXCEPT ![x] = merged[x]]
      /\ doomed = [doomed EXCEPT ![x] = doomed[x]] /\ target = [target EXCEPT ![x] = target[x]]
  BY DEF Hands
<1>1. CASE S!Read(x)
  BY <1>0, <1>1, Zenon DEF S!Read
<1>2. CASE S!List(x)
  BY <1>0, <1>2, Zenon DEF S!List
<1>3. CASE S!Drop(x)
  BY <1>0, <1>3, Zenon DEF S!Drop, S!Reset
<1>4. CASE S!Place(x)
  BY <1>0, <1>4, Zenon DEF S!Place, S!Reset
<1>5. CASE S!Die(x)
  BY <1>0, <1>5, Zenon DEF S!Die, S!Reset
<1> QED BY <1>1, <1>2, <1>3, <1>4, <1>5 DEF S!Step

(* A step of one writer leaves the others where they are.                     *)
LEMMA OthersStay ==
    ASSUME Hands, NEW x \in Writers, NEW y \in Writers, y # x, S!Step(x)
    PROVE  /\ at'[y] = at[y] /\ rows'[y] = rows[y] /\ merged'[y] = merged[y]
           /\ doomed'[y] = doomed[y] /\ target'[y] = target[y]
           /\ (S!Writing(y)' <=> S!Writing(y)) /\ S!Part(y)' = S!Part(y)
<1>0. /\ at \in [Writers -> {"idle", "read", "list", "swap"}]
      /\ rows \in [Writers -> SUBSET Good] /\ merged \in [Writers -> SUBSET Good]
      /\ doomed = [z \in Writers |-> doomed[z]] /\ target = [z \in Writers |-> target[z]]
  BY DEF Hands
<1>1. /\ \E v : at' = [at EXCEPT ![x] = v]
      /\ \E v : rows' = [rows EXCEPT ![x] = v]
      /\ \E v : merged' = [merged EXCEPT ![x] = v]
      /\ \E v : doomed' = [doomed EXCEPT ![x] = v]
      /\ \E v : target' = [target EXCEPT ![x] = v]
  BY StepShape
<1>2. at'[y] = at[y] /\ rows'[y] = rows[y] /\ merged'[y] = merged[y]
  BY <1>0, <1>1
<1>3. doomed'[y] = doomed[y] /\ target'[y] = target[y]
  <2>1. \A v : [doomed EXCEPT ![x] = v][y] = doomed[y] /\ [target EXCEPT ![x] = v][y] = target[y]
    BY <1>0
  <2> QED BY <1>1, <2>1
<1> QED BY <1>2, <1>3 DEF S!Writing, S!Part

LEMMA HandsStep ==
    ASSUME Hands, Good' = Good, NEW x \in Writers, S!Step(x),
           at'[x] \in {"idle", "read", "list", "swap"}, at'[x] # "idle" => rows'[x] # {},
           rows'[x] \in SUBSET Good, Unique(rows'[x]), merged'[x] \in SUBSET Good,
           S!Writing(x)' => \A r \in merged'[x] : r.ticker = S!Part(x)'
    PROVE  Hands'
<1>0. /\ at \in [Writers -> {"idle", "read", "list", "swap"}]
      /\ rows \in [Writers -> SUBSET Good] /\ merged \in [Writers -> SUBSET Good]
      /\ doomed = [z \in Writers |-> doomed[z]] /\ target = [z \in Writers |-> target[z]]
  BY DEF Hands
<1>1. /\ \E v : at' = [at EXCEPT ![x] = v]
      /\ \E v : rows' = [rows EXCEPT ![x] = v]
      /\ \E v : merged' = [merged EXCEPT ![x] = v]
      /\ \E v : doomed' = [doomed EXCEPT ![x] = v]
      /\ \E v : target' = [target EXCEPT ![x] = v]
  BY StepShape
<1>2. at' \in [Writers -> {"idle", "read", "list", "swap"}] /\ rows' \in [Writers -> SUBSET Good]
  BY <1>0, <1>1
<1>3. merged' \in [Writers -> SUBSET Good]
  BY <1>0, <1>1
<1>4. doomed' = [z \in Writers |-> doomed'[z]] /\ target' = [z \in Writers |-> target'[z]]
  <2>1. \A f : f = [z \in Writers |-> f[z]] => \A v : [f EXCEPT ![x] = v] = [z \in Writers |-> [f EXCEPT ![x] = v][z]]
    OBVIOUS
  <2> QED BY <1>0, <1>1, <2>1
<1>5. ASSUME NEW y \in Writers
      PROVE  /\ at'[y] # "idle" => rows'[y] # {}
             /\ Unique(rows'[y])
             /\ S!Writing(y)' => \A r \in merged'[y] : r.ticker = S!Part(y)'
  <2>1. CASE y = x
    BY <2>1
  <2>2. CASE y # x
    BY <2>2, OthersStay DEF Hands
  <2> QED BY <2>1, <2>2
<1> QED BY <1>2, <1>3, <1>4, <1>5 DEF Hands

LEMMA CalmStep ==
    ASSUME Hands, NEW x \in Writers, S!Step(x), NEW q, Calm(q), Whole(q)',
           \A y \in Writers : y # x /\ AtIt(y, q) => disk'[q] = disk[q],
           AtIt(x, q)' => Covers(x)' /\ \A y \in Writers : y # x => ~AtIt(y, q)
    PROVE  Calm(q)'
<1>1. \A y \in Writers : y # x => (AtIt(y, q)' <=> AtIt(y, q))
  BY OthersStay DEF AtIt
<1>2. ASSUME NEW y \in Writers, AtIt(y, q)' PROVE Covers(y)'
  <2>1. CASE y = x
    BY <1>2, <2>1
  <2>2. CASE y # x
    <3>1. /\ at'[y] = at[y] /\ merged'[y] = merged[y] /\ doomed'[y] = doomed[y] /\ target'[y] = target[y]
          /\ AtIt(y, q) /\ S!Part(y) = q /\ S!Part(y)' = q
      BY <1>2, <2>2, OthersStay DEF AtIt
    <3>2. disk'[q] = disk[q] /\ Covers(y)
      BY <2>2, <3>1 DEF Calm
    <3> QED BY <3>1, <3>2 DEF Covers, S!Files, S!Uids
  <2> QED BY <2>1, <2>2
<1>3. ASSUME NEW y \in Writers, NEW z \in Writers, AtIt(y, q)', AtIt(z, q)' PROVE y = z
  BY <1>1, <1>3 DEF Calm
<1> QED BY <1>2, <1>3 DEF Calm

LEMMA SafeStep ==
    ASSUME Hands, NEW x \in Writers, S!Step(x), NEW q, Safe(q), kept'[q] = kept[q], disk'[q] = disk[q],
           at[x] = "swap" => S!Part(x) # q
    PROVE  Safe(q)'
<1>1. S!Files(q)' = S!Files(q)
  BY DEF S!Files
<1>2. \A y \in Writers : at[y] = "swap" /\ S!Part(y) = q =>
          at'[y] = "swap" /\ S!Part(y)' = q /\ merged'[y] = merged[y]
  BY OthersStay
<1>3. \A u \in S!Held(q) : u \in S!Held(q)'
  BY <1>1, <1>2, HeldIs
<1> QED BY <1>3 DEF Safe

LEMMA CombinedIs ==
    ASSUME FeedAssumption, Table, NEW p \in Tickers
    PROVE  /\ \A r \in S!Combined(p) : r \in Good /\ r.ticker = p
           /\ Whole(p) => /\ Unique(S!Combined(p))
                          /\ \A f \in S!Files(p) : S!Combined(p) = disk[p][f]
<1>1. \A r \in S!Combined(p) : \E f \in S!Files(p) : r \in disk[p][f]
  BY DEF S!Combined
<1>2. \A r \in S!Combined(p) : r \in Good /\ r.ticker = p
  BY <1>1 DEF Table
<1>3. ASSUME Whole(p) PROVE \A f \in S!Files(p) : S!Combined(p) = disk[p][f]
  <2> SUFFICES ASSUME NEW f \in S!Files(p) PROVE S!Combined(p) = disk[p][f]
    OBVIOUS
  <2>1. f = 0 /\ \A g \in S!Files(p) : g = 0
    BY <1>3 DEF Whole
  <2>2. \A r \in disk[p][f] : \A g \in S!Files(p) : g > f => r.uid \notin S!Uids(disk[p][g])
    BY <2>1
  <2> QED BY <1>1, <2>1, <2>2 DEF S!Combined
<1>4. ASSUME Whole(p) PROVE Unique(S!Combined(p))
  <2>1. CASE S!Files(p) = {}
    <3>1. S!Combined(p) = {}
      BY <1>1, <2>1
    <3> QED BY <3>1 DEF Unique
  <2>2. CASE S!Files(p) # {}
    BY <1>3, <1>4, <2>2 DEF Whole
  <2> QED BY <2>1, <2>2
<1> QED BY <1>2, <1>3, <1>4

LEMMA ReadStep ==
    ASSUME FeedAssumption, StoreInv, Good' = Good, NEW x \in Writers, S!Read(x)
    PROVE  StoreInv'
<1>0. Table /\ Hands /\ (\A q \in Tickers : q \in hurt \/ (Calm(q) /\ Safe(q))) /\ S!Step(x)
  BY DEF StoreInv, S!Step
<1>1. /\ at[x] = "read" /\ at' = [at EXCEPT ![x] = "list"]
      /\ merged' = [merged EXCEPT ![x] = S!Over(S!Combined(S!Part(x)), S!Mine(x))]
      /\ doomed' = [doomed EXCEPT ![x] = S!Files(S!Part(x))]
      /\ UNCHANGED <<disk, rows, target, kept, deaths>>
  BY DEF S!Read
<1>2. at'[x] = "list" /\ rows'[x] = rows[x] /\ merged'[x] = S!Over(S!Combined(S!Part(x)), S!Mine(x))
      /\ doomed'[x] = S!Files(S!Part(x))
  <2>1. at'[x] = "list" /\ rows'[x] = rows[x]
    BY <1>0, <1>1 DEF Hands
  <2>2. merged'[x] = S!Over(S!Combined(S!Part(x)), S!Mine(x))
    BY <1>0, <1>1, Zenon DEF Hands
  <2>3. doomed'[x] = S!Files(S!Part(x))
    BY <1>0, <1>1, Zenon DEF Hands
  <2> QED BY <2>1, <2>2, <2>3
<1>3. S!Part(x) \in Tickers /\ S!Part(x)' = S!Part(x) /\ \A p : S!Files(p)' = S!Files(p)
  <2>1. S!Part(x) \in Tickers
    BY <1>0, <1>1, PartOfWriter
  <2> QED BY <1>1, <2>1 DEF S!Part, S!Files
<1>4. S!Mine(x) \subseteq rows[x] /\ (\A r \in S!Mine(x) : r.ticker = S!Part(x)) /\ Unique(S!Mine(x))
  BY <1>0 DEF S!Mine, PartOf, Unique, Hands
<1>5. rows[x] \subseteq Good /\ rows[x] # {} /\ Unique(rows[x])
  BY <1>0, <1>1 DEF Hands
<1>6. \A r \in merged'[x] : r \in Good /\ r.ticker = S!Part(x)
  BY <1>0, <1>2, <1>3, <1>4, <1>5, CombinedIs, OverKeeps
<1>7. Table'
  BY <1>0, <1>1 DEF Table, S!Files
<1>8. Hands'
  <2>1. merged'[x] \in SUBSET Good
    BY <1>6
  <2> QED BY <1>0, <1>2, <1>3, <1>5, <1>6, <2>1, HandsStep
<1>9. hurt' = hurt \cup S!Met(x)
  BY DEF S!Read
<1>10. ASSUME NEW q \in Tickers PROVE q \in hurt' \/ (Calm(q)' /\ Safe(q)')
  <2>1. SUFFICES ASSUME q \notin S!Met(x), Calm(q), Safe(q) PROVE Calm(q)' /\ Safe(q)'
    BY <1>0, <1>9
  <2>2. Whole(q)'
    BY <1>1, <2>1 DEF Calm, Whole, S!Files
  <2>3. ASSUME AtIt(x, q)' PROVE Covers(x)'
    <3>0. q = S!Part(x)
      BY <1>3, <2>3 DEF AtIt
    <3>1. Whole(S!Part(x))
      BY <2>1, <3>0 DEF Calm
    <3>2. Unique(merged'[x])
      BY <1>0, <1>2, <1>3, <1>4, <3>1, CombinedIs, OverKeeps
    <3>3. \A f \in S!Files(S!Part(x)) : S!Uids(disk[S!Part(x)][f]) \subseteq S!Uids(merged'[x])
      <4> SUFFICES ASSUME NEW f \in S!Files(S!Part(x)) PROVE S!Uids(disk[S!Part(x)][f]) \subseteq S!Uids(merged'[x])
        OBVIOUS
      <4>1. S!Combined(S!Part(x)) = disk[S!Part(x)][f]
        BY <1>0, <1>3, <3>1, CombinedIs
      <4>2. S!Uids(S!Combined(S!Part(x))) \subseteq S!Uids(merged'[x])
        BY <1>2, OverKeeps
      <4> QED BY <4>1, <4>2
    <3> QED BY <1>1, <1>2, <1>3, <3>2, <3>3 DEF Covers, S!Uids
  <2>4. ASSUME AtIt(x, q)' PROVE \A y \in Writers : y # x => ~AtIt(y, q)
    <3>1. q = S!Part(x)
      BY <1>3, <2>4 DEF AtIt
    <3> QED BY <2>1, <3>1 DEF S!Met, AtIt
  <2>5. Calm(q)'
    BY <1>0, <1>1, <2>1, <2>2, <2>3, <2>4, CalmStep
  <2>6. Safe(q)'
    BY <1>0, <1>1, <2>1, SafeStep
  <2> QED BY <2>5, <2>6
<1> QED BY <1>7, <1>8, <1>10 DEF StoreInv

LEMMA ListStep ==
    ASSUME FeedAssumption, StoreInv, Good' = Good, NEW x \in Writers, S!List(x)
    PROVE  StoreInv'
<1>0. Table /\ Hands /\ (\A q \in Tickers : q \in hurt \/ (Calm(q) /\ Safe(q))) /\ S!Step(x)
  BY DEF StoreInv, S!Step
<1>1. /\ at[x] = "list" /\ at' = [at EXCEPT ![x] = "swap"] /\ UNCHANGED <<disk, rows, merged, kept, hurt, deaths>>
      /\ \/ doomed[x] = {} /\ target' = [target EXCEPT ![x] = S!NextIndex(S!Part(x))] /\ UNCHANGED doomed
         \/ target' = [target EXCEPT ![x] = 0] /\ doomed' = [doomed EXCEPT ![x] = S!Files(S!Part(x))]
  BY DEF S!List
<1>2. at'[x] = "swap" /\ rows'[x] = rows[x] /\ merged'[x] = merged[x]
      /\ S!Writing(x) /\ S!Writing(x)'
  BY <1>0, <1>1 DEF Hands, S!Writing
<1>3. \/ doomed[x] = {} /\ target'[x] = S!NextIndex(S!Part(x)) /\ doomed'[x] = doomed[x]
      \/ target'[x] = 0 /\ doomed'[x] = S!Files(S!Part(x))
  <2>1. \A v : [doomed EXCEPT ![x] = v][x] = v /\ [target EXCEPT ![x] = v][x] = v
    BY <1>0 DEF Hands
  <2> QED BY <1>1, <2>1
<1>4. S!Part(x) \in Tickers /\ S!Part(x)' = S!Part(x) /\ \A p : S!Files(p)' = S!Files(p)
  <2>1. S!Part(x) \in Tickers
    BY <1>0, <1>1, PartOfWriter
  <2> QED BY <1>1, <2>1 DEF S!Part, S!Files
<1>5. Table'
  BY <1>0, <1>1 DEF Table, S!Files
<1>6. Hands'
  <2>1. /\ rows[x] \in SUBSET Good /\ merged[x] \in SUBSET Good /\ rows[x] # {} /\ Unique(rows[x])
        /\ \A r \in merged[x] : r.ticker = S!Part(x)
    BY <1>0, <1>1, <1>2 DEF Hands
  <2> QED BY <1>0, <1>2, <1>4, <2>1, HandsStep
<1>7. ASSUME NEW q \in Tickers PROVE q \in hurt' \/ (Calm(q)' /\ Safe(q)')
  <2>1. SUFFICES ASSUME Calm(q), Safe(q) PROVE Calm(q)' /\ Safe(q)'
    BY <1>0, <1>1
  <2>2. Whole(q)'
    BY <1>1, <2>1 DEF Calm, Whole, S!Files
  <2>3. ASSUME AtIt(x, q)' PROVE Covers(x)' /\ \A y \in Writers : y # x => ~AtIt(y, q)
    <3>0. AtIt(x, q)
      BY <1>2, <1>4, <2>3 DEF AtIt
    <3>1. Covers(x) /\ \A y \in Writers : y # x => ~AtIt(y, q)
      BY <2>1, <3>0 DEF Calm
    <3>2. doomed'[x] = S!Files(S!Part(x))
      BY <1>3, <3>1 DEF Covers
    <3>3. target'[x] = 0
      <4>1. S!Files(S!Part(x)) = {} => S!NextIndex(S!Part(x)) = 0
        BY DEF S!NextIndex
      <4> QED BY <1>3, <3>1, <4>1 DEF Covers
    <3> QED BY <1>1, <1>2, <1>4, <3>1, <3>2, <3>3 DEF Covers, S!Uids
  <2>4. Calm(q)'
    BY <1>0, <1>1, <2>1, <2>2, <2>3, CalmStep
  <2>5. Safe(q)'
    BY <1>0, <1>1, <2>1, SafeStep
  <2> QED BY <2>4, <2>5
<1> QED BY <1>5, <1>6, <1>7 DEF StoreInv

LEMMA RowsAre ==
    /\ \A r : r \in S!Rows <=> \E p \in Tickers : \E f \in S!Files(p) : r \in disk[p][f]
    /\ \A r : r \in S!Rows' <=> \E p \in Tickers : \E f \in S!Files(p)' : r \in disk'[p][f]
<1>1. S!ToSet(Parts) = Tickers
  BY DEF S!ToSet, G!ToSet, Tickers
<1>2. \A r : r \in S!Rows <=> \E p \in Tickers : \E f \in S!Files(p) : r \in disk[p][f]
  BY <1>1 DEF S!Rows, S!Stored
<1>3. S!Rows' = UNION {UNION {disk'[p][f] : f \in S!Files(p)'} : p \in Tickers}
  BY <1>1 DEF S!Rows, S!Stored
<1> QED BY <1>2, <1>3

(* Who has nothing left to write is out of the way.                           *)
LEMMA ResetLeaves ==
    ASSUME Hands, NEW x \in Writers, S!Reset(x)
    PROVE  at'[x] = "idle" /\ rows'[x] = {} /\ merged'[x] = {} /\ ~S!Writing(x)'
<1>1. at'[x] = "idle" /\ rows'[x] = {} /\ merged'[x] = {}
  BY DEF S!Reset, Hands
<1> QED BY <1>1 DEF S!Writing

LEMMA DropStep ==
    ASSUME FeedAssumption, StoreInv, Good' = Good, NEW x \in Writers, S!Drop(x)
    PROVE  StoreInv'
<1>0. Table /\ Hands /\ (\A q \in Tickers : q \in hurt \/ (Calm(q) /\ Safe(q))) /\ S!Step(x)
  BY DEF StoreInv, S!Step
<1> DEFINE p == S!Part(x)
           m == S!Min(doomed[x])
<1>1. at[x] = "swap" /\ doomed[x] # {} /\ UNCHANGED <<kept, hurt, deaths>> /\ S!Writing(x)
  BY DEF S!Drop, S!Writing
<1>2. \/ /\ m \in S!Files(p)
         /\ disk' = [disk EXCEPT ![p] = [f \in S!Files(p) \ {m} |-> disk[p][f]]]
         /\ doomed' = [doomed EXCEPT ![x] = doomed[x] \ {m}]
         /\ UNCHANGED <<at, rows, merged, target>>
      \/ m \notin S!Files(p) /\ S!Reset(x) /\ UNCHANGED disk
  BY DEF S!Drop
<1>3. p \in Tickers
  BY <1>0, <1>1, PartOfWriter
<1>4. rows[x] \in SUBSET Good /\ merged[x] \in SUBSET Good /\ rows[x] # {} /\ Unique(rows[x])
      /\ \A r \in merged[x] : r.ticker = S!Part(x)
  BY <1>0, <1>1 DEF Hands
<1>5. Calm(p) => Covers(x) /\ (\A y \in Writers : y # x => ~AtIt(y, p)) /\ S!Files(p) \ {m} = {} /\ m \in S!Files(p)
               /\ doomed[x] = {m}
  <2> SUFFICES ASSUME Calm(p) PROVE /\ Covers(x) /\ \A y \in Writers : y # x => ~AtIt(y, p)
                                    /\ m = 0 /\ doomed[x] = {0} /\ S!Files(p) = {0}
    OBVIOUS
  <2>1. Covers(x) /\ (\A y \in Writers : y # x => ~AtIt(y, p)) /\ S!Files(p) \subseteq {0}
    BY <1>1 DEF Calm, Whole, AtIt
  <2>2. doomed[x] = {0} /\ S!Files(p) = {0}
    BY <1>1, <2>1 DEF Covers
  <2>3. S!Min({0}) = 0
    BY DEF S!Min
  <2> QED BY <2>1, <2>2, <2>3
<1>6. CASE /\ m \in S!Files(p)
           /\ disk' = [disk EXCEPT ![p] = [f \in S!Files(p) \ {m} |-> disk[p][f]]]
           /\ doomed' = [doomed EXCEPT ![x] = doomed[x] \ {m}]
           /\ UNCHANGED <<at, rows, merged, target>>
  <2> DEFINE v == [f \in S!Files(p) \ {m} |-> disk[p][f]]
  <2>1. S!Part(x)' = S!Part(x) /\ S!Writing(x)'
    BY <1>1, <1>6 DEF S!Part, S!Writing
  <2>2. DOMAIN v = S!Files(p) \ {m} /\ \A f \in S!Files(p) \ {m} : v[f] = disk[p][f]
    OBVIOUS
  <2>3. disk' = [disk EXCEPT ![p] = v]
    BY <1>6
  <2> HIDE DEF v, p, m
  <2>4. disk'[p] = v /\ disk' = [q \in Tickers |-> disk'[q]] /\ \A q \in Tickers : q # p => disk'[q] = disk[q]
    BY <1>0, <1>3, <2>3 DEF Table
  <2>12. p' = p
    BY <2>1 DEF p
  <2>5. /\ S!Files(p)' = S!Files(p) \ {m} /\ \A f \in S!Files(p)' : disk'[p][f] = disk[p][f]
        /\ \A q \in Tickers : q # p => S!Files(q)' = S!Files(q)
    BY <2>2, <2>4, <2>12 DEF S!Files
  <2>6. doomed'[x] = doomed[x] \ {m}
    BY <1>0, <1>6 DEF Hands
  <2>7. \A q \in Tickers : \A f \in S!Files(q)' : f \in S!Files(q) /\ disk'[q][f] = disk[q][f]
    <3> SUFFICES ASSUME NEW q \in Tickers, NEW f \in S!Files(q)'
                 PROVE  f \in S!Files(q) /\ disk'[q][f] = disk[q][f]
      OBVIOUS
    <3>1. CASE q = p
      <4>1. S!Files(q)' = S!Files(p)'
        BY <2>12, <3>1
      <4> QED BY <2>5, <3>1, <4>1
    <3>2. CASE q # p
      BY <2>4, <2>5, <3>2
    <3> QED BY <3>1, <3>2
  <2>8. Table'
    BY <1>0, <1>1, <2>4, <2>7 DEF Table
  <2>9. Hands'
    BY <1>0, <1>1, <1>4, <1>6, <2>1, HandsStep
  <2>10. ASSUME NEW q \in Tickers PROVE q \in hurt' \/ (Calm(q)' /\ Safe(q)')
    <3>1. SUFFICES ASSUME Calm(q), Safe(q) PROVE Calm(q)' /\ Safe(q)'
      BY <1>0, <1>1
    <3>2. Whole(q)'
      BY <2>7, <3>1 DEF Calm, Whole
    <3>3. CASE q = p
      <4>1. Covers(x) /\ (\A y \in Writers : y # x => ~AtIt(y, p)) /\ S!Files(p)' = {} /\ doomed'[x] = {}
        BY <1>5, <2>5, <2>6, <3>1, <3>3
      <4>2. Covers(x)'
        BY <1>6, <2>1, <4>1 DEF Covers, p
      <4>3. Calm(q)'
        BY <1>0, <3>1, <3>2, <3>3, <4>1, <4>2, CalmStep
      <4>4. ASSUME NEW u \in S!Held(q) PROVE u \in S!Held(q)'
        <5>1. CASE u \in S!Uids(merged[x])
          <6>1. at'[x] = "swap" /\ S!Part(x)' = q /\ merged'[x] = merged[x]
            BY <1>1, <1>6, <2>1, <3>3 DEF p
          <6> QED BY <5>1, <6>1, HeldIs
        <5>2. CASE u \notin S!Uids(merged[x])
          <6>1. \A f \in S!Files(q) : u \notin S!Uids(disk[q][f])
            BY <3>3, <4>1, <5>2 DEF Covers, p
          <6>2. \A y \in Writers : at[y] = "swap" /\ S!Part(y) = q => y = x
            BY <3>3, <4>1 DEF AtIt, S!Writing
          <6> QED BY <4>4, <5>2, <6>1, <6>2, HeldIs
        <5> QED BY <5>1, <5>2
      <4>5. kept'[q] = kept[q]
        BY <1>1
      <4> QED BY <3>1, <4>3, <4>4, <4>5 DEF Safe
    <3>4. CASE q # p
      <4>1. ~AtIt(x, q)' /\ S!Part(x) # q
        BY <2>1, <3>4 DEF AtIt, p
      <4>2. disk'[q] = disk[q] /\ kept'[q] = kept[q]
        BY <1>1, <2>4, <3>4
      <4> QED BY <1>0, <3>1, <3>2, <4>1, <4>2, CalmStep, SafeStep
    <3> QED BY <3>3, <3>4
  <2> QED BY <2>8, <2>9, <2>10 DEF StoreInv
<1>7. CASE m \notin S!Files(p) /\ S!Reset(x) /\ UNCHANGED disk
  <2>1. at'[x] = "idle" /\ rows'[x] = {} /\ merged'[x] = {} /\ ~S!Writing(x)'
    BY <1>0, <1>7, ResetLeaves
  <2>2. Table'
    BY <1>0, <1>1, <1>7 DEF Table, S!Files
  <2>3. Hands'
    BY <1>0, <2>1, HandsStep DEF Unique
  <2>4. ~Calm(p)
    BY <1>5, <1>7
  <2>5. ASSUME NEW q \in Tickers PROVE q \in hurt' \/ (Calm(q)' /\ Safe(q)')
    <3>1. SUFFICES ASSUME Calm(q), Safe(q) PROVE Calm(q)' /\ Safe(q)'
      BY <1>0, <1>1
    <3>2. S!Part(x) # q /\ ~AtIt(x, q)' /\ Whole(q)'
      BY <1>7, <2>1, <2>4, <3>1 DEF AtIt, Calm, Whole, S!Files
    <3>3. disk'[q] = disk[q] /\ kept'[q] = kept[q]
      BY <1>1, <1>7
    <3> QED BY <1>0, <3>1, <3>2, <3>3, CalmStep, SafeStep
  <2> QED BY <2>2, <2>3, <2>5 DEF StoreInv
<1> QED BY <1>2, <1>6, <1>7

LEMMA DieStep ==
    ASSUME FeedAssumption, StoreInv, Good' = Good, NEW x \in Writers, S!Die(x)
    PROVE  StoreInv'
<1>0. Table /\ Hands /\ (\A q \in Tickers : q \in hurt \/ (Calm(q) /\ Safe(q))) /\ S!Step(x)
  BY DEF StoreInv, S!Step
<1>1. S!Reset(x) /\ UNCHANGED <<disk, kept>> /\ hurt' = hurt \cup (IF at[x] = "swap" THEN {S!Part(x)} ELSE {})
  BY DEF S!Die
<1>2. at'[x] = "idle" /\ rows'[x] = {} /\ merged'[x] = {} /\ ~S!Writing(x)'
  BY <1>0, <1>1, ResetLeaves
<1>3. Table'
  BY <1>0, <1>1 DEF Table, S!Files
<1>4. Hands'
  BY <1>0, <1>2, HandsStep DEF Unique
<1>5. ASSUME NEW q \in Tickers PROVE q \in hurt' \/ (Calm(q)' /\ Safe(q)')
  <2>1. SUFFICES ASSUME Calm(q), Safe(q), q \notin hurt' PROVE Calm(q)' /\ Safe(q)'
    BY <1>0, <1>1
  <2>2. at[x] = "swap" => S!Part(x) # q
    BY <1>1, <2>1
  <2>3. ~AtIt(x, q)' /\ Whole(q)'
    BY <1>1, <1>2, <2>1 DEF AtIt, Calm, Whole, S!Files
  <2>4. disk'[q] = disk[q] /\ kept'[q] = kept[q]
    BY <1>1
  <2> QED BY <1>0, <2>1, <2>2, <2>3, <2>4, CalmStep, SafeStep
<1> QED BY <1>3, <1>4, <1>5 DEF StoreInv

LEMMA PlaceStep ==
    ASSUME FeedAssumption, StoreInv, Good' = Good, NEW x \in Writers, S!Place(x)
    PROVE  StoreInv'
<1>0. Table /\ Hands /\ (\A q \in Tickers : q \in hurt \/ (Calm(q) /\ Safe(q))) /\ S!Step(x)
  BY DEF StoreInv, S!Step
<1> DEFINE p == S!Part(x)
           v == [f \in S!Files(p) \cup {target[x]} |-> IF f = target[x] THEN merged[x] ELSE disk[p][f]]
<1>1. /\ at[x] = "swap" /\ doomed[x] = {} /\ UNCHANGED <<hurt, deaths>> /\ S!Writing(x)
      /\ disk' = [disk EXCEPT ![p] = v]
      /\ kept' = [kept EXCEPT ![p] = kept[p] \cup S!Uids(merged[x])]
  BY DEF S!Place, S!Writing
<1>2. p \in Tickers
  BY <1>0, <1>1, PartOfWriter
<1>3. rows[x] \in SUBSET Good /\ merged[x] \in SUBSET Good /\ Unique(rows[x])
      /\ \A r \in merged[x] : r.ticker = p
  BY <1>0, <1>1 DEF Hands
<1>4. /\ at'[x] \in {"idle", "read"} /\ ~S!Writing(x)'
      /\ at'[x] # "idle" => rows'[x] # {}
      /\ rows'[x] \in SUBSET rows[x] /\ merged'[x] = {}
  <2>1. CASE S!Reset(x)
    BY <1>0, <2>1, ResetLeaves
  <2>2. CASE /\ rows[x] # S!Mine(x) /\ rows' = [rows EXCEPT ![x] = rows[x] \ S!Mine(x)]
             /\ at' = [at EXCEPT ![x] = "read"] /\ merged' = [merged EXCEPT ![x] = {}]
    <3>1. S!Mine(x) \subseteq rows[x]
      BY DEF S!Mine
    <3> HIDE DEF p, v
    <3>2. at'[x] = "read" /\ rows'[x] = rows[x] \ S!Mine(x) /\ merged'[x] = {}
      BY <1>0, <2>2, Zenon DEF Hands
    <3> QED BY <2>2, <3>1, <3>2 DEF S!Writing
  <2> QED BY <2>1, <2>2, Zenon DEF S!Place
<1>5. DOMAIN v = S!Files(p) \cup {target[x]} /\ v[target[x]] = merged[x]
      /\ \A f \in S!Files(p) : f # target[x] => v[f] = disk[p][f]
  OBVIOUS
<1> HIDE DEF v, p
<1>6. disk'[p] = v /\ disk' = [q \in Tickers |-> disk'[q]] /\ \A q \in Tickers : q # p => disk'[q] = disk[q]
  BY <1>0, <1>1, <1>2 DEF Table
<1>7. DOMAIN disk'[p] = S!Files(p) \cup {target[x]} /\ \A q \in Tickers : q # p => S!Files(q)' = S!Files(q)
  BY <1>5, <1>6 DEF S!Files
<1>14. /\ kept' = [q \in Tickers |-> kept'[q]] /\ kept'[p] = kept[p] \cup S!Uids(merged[x])
       /\ \A q \in Tickers : q # p => kept'[q] = kept[q]
  BY <1>0, <1>1, <1>2 DEF Table
<1>8. \A q \in Tickers : \A f \in S!Files(q)' : (disk'[q][f] = merged[x] /\ q = p) \/ (f \in S!Files(q) /\ disk'[q][f] = disk[q][f])
  <2> SUFFICES ASSUME NEW q \in Tickers, NEW f \in DOMAIN disk'[q]
               PROVE  (disk'[q][f] = merged[x] /\ q = p) \/ (f \in S!Files(q) /\ disk'[q][f] = disk[q][f])
    BY DEF S!Files
  <2>1. CASE q = p
    BY <1>5, <1>6, <1>7, <2>1
  <2>2. CASE q # p
    BY <1>6, <2>2 DEF S!Files
  <2> QED BY <2>1, <2>2
<1>9. Table'
  BY <1>0, <1>3, <1>6, <1>8, <1>14 DEF Table
<1>10. Hands'
  <2>1. Unique(rows'[x]) /\ rows'[x] \in SUBSET Good /\ merged'[x] \in SUBSET Good
    BY <1>3, <1>4 DEF Unique
  <2> QED BY <1>0, <1>4, <2>1, HandsStep
<1>11. Calm(p) => S!Files(p) = {} /\ target[x] = 0 /\ Unique(merged[x])
  BY <1>1, <1>2 DEF Calm, Covers, AtIt, p
<1>12. ASSUME NEW q \in Tickers PROVE q \in hurt' \/ (Calm(q)' /\ Safe(q)')
  <2>1. SUFFICES ASSUME Calm(q), Safe(q) PROVE Calm(q)' /\ Safe(q)'
    BY <1>0, <1>1
  <2>2. ~AtIt(x, q)'
    BY <1>4 DEF AtIt
  <2>3. CASE q = p
    <3>1. DOMAIN disk'[q] = {0} /\ disk'[q][0] = merged[x] /\ Unique(merged[x])
      BY <1>5, <1>6, <1>7, <1>11, <2>1, <2>3
    <3>2. Whole(q)'
      BY <3>1 DEF Whole, S!Files
    <3>3. \A y \in Writers : y # x => ~AtIt(y, q)
      BY <1>1, <2>1, <2>3 DEF Calm, AtIt, p
    <3>4. Calm(q)'
      BY <1>0, <2>1, <2>2, <3>2, <3>3, CalmStep
    <3>5. 0 \in S!Files(q)' /\ disk'[q][0] = merged[x]
      BY <3>1 DEF S!Files
    <3>6. \A u \in S!Uids(merged[x]) : u \in S!Held(q)'
      BY <3>5, HeldIs
    <3>7. ASSUME NEW u \in S!Held(q) PROVE u \in S!Uids(merged[x])
      <4>1. \A y \in Writers : at[y] = "swap" /\ S!Part(y) = q => y = x
        BY <3>3 DEF AtIt, S!Writing
      <4>2. S!Files(q) = {}
        BY <1>11, <2>1, <2>3
      <4> QED BY <3>7, <4>1, <4>2, HeldIs
    <3> QED BY <1>14, <2>1, <2>3, <3>4, <3>6, <3>7 DEF Safe
  <2>4. CASE q # p
    <3>1. disk'[q] = disk[q] /\ kept'[q] = kept[q]
      BY <1>6, <1>14, <2>4
    <3>2. Whole(q)' /\ S!Part(x) # q
      BY <2>1, <2>4, <3>1 DEF Calm, Whole, S!Files, p
    <3> QED BY <1>0, <2>1, <2>2, <3>1, <3>2, CalmStep, SafeStep
  <2> QED BY <2>3, <2>4
<1> QED BY <1>9, <1>10, <1>12 DEF StoreInv

LEMMA StoreSame ==
    ASSUME FeedAssumption, StoreInv, Good \subseteq Good', UNCHANGED store
    PROVE  StoreInv'
<1>0. Table /\ Hands /\ (\A q \in Tickers : q \in hurt \/ (Calm(q) /\ Safe(q)))
  BY DEF StoreInv
<1>1. UNCHANGED <<disk, at, rows, merged, doomed, target, kept, hurt, deaths>>
  BY DEF store
<1>2. Table'
  BY <1>0, <1>1 DEF Table, S!Files
<1>3. \A y \in Writers : (S!Writing(y)' <=> S!Writing(y)) /\ S!Part(y)' = S!Part(y)
  BY <1>1 DEF S!Writing, S!Part
<1>4. Hands'
  BY <1>0, <1>1, <1>3 DEF Hands
<1>5. \A p : Whole(p)' <=> Whole(p)
  BY <1>1 DEF Whole, S!Files
<1>6. \A y \in Writers : Covers(y)' <=> Covers(y)
  BY <1>1, <1>3 DEF Covers, S!Files, S!Uids
<1>7. \A q : Calm(q)' <=> Calm(q)
  BY <1>3, <1>5, <1>6 DEF Calm, AtIt
<1>8. ASSUME NEW q, Safe(q) PROVE Safe(q)'
  <2>1. S!Files(q)' = S!Files(q)
    BY <1>1 DEF S!Files
  <2>2. \A u \in S!Held(q) : u \in S!Held(q)'
    BY <1>1, <1>3, <2>1, HeldIs
  <2> QED BY <1>1, <1>8, <2>2 DEF Safe
<1> QED BY <1>0, <1>1, <1>2, <1>4, <1>7, <1>8 DEF StoreInv

LEMMA StoreInit == S!Init => StoreInv
<1> SUFFICES ASSUME S!Init PROVE StoreInv
  OBVIOUS
<1>1. S!ToSet(Parts) = Tickers
  BY DEF S!ToSet, G!ToSet, Tickers
<1>2. /\ disk = [p \in Tickers |-> <<>>] /\ at = [y \in Writers |-> "idle"]
      /\ rows = [y \in Writers |-> {}] /\ merged = [y \in Writers |-> {}]
      /\ doomed = [y \in Writers |-> {}] /\ target = [y \in Writers |-> 0]
      /\ kept = [p \in Tickers |-> {}] /\ hurt = {}
  BY <1>1 DEF S!Init
<1>3. \A p \in Tickers : S!Files(p) = {}
  BY <1>2 DEF S!Files
<1>4. Table
  BY <1>2, <1>3 DEF Table
<1>5. Hands
  BY <1>2 DEF Hands, Unique, S!Writing
<1>6. ASSUME NEW p \in Tickers PROVE Calm(p) /\ Safe(p)
  BY <1>2, <1>3 DEF Calm, Safe, Whole, AtIt, S!Writing
<1> QED BY <1>4, <1>5, <1>6 DEF StoreInv

-----------------------------------------------------------------------------
(* Both together.                                                             *)
FeedInv == GovInv /\ StoreInv

(* A step of the whole system moves the feed as one of its own does, or not.  *)
LEMMA FeedSteps ==
    [Next]_all => (Day /\ UNCHANGED store) \/ Feeds \/ UNCHANGED <<gov, store>>
<1>1. Day /\ UNCHANGED <<store, view, registry, journals>> => Day /\ UNCHANGED store
  OBVIOUS
<1>2. Kept /\ Stores => (Day /\ UNCHANGED store) \/ Feeds \/ UNCHANGED <<gov, store>>
  BY <1>1 DEF Stores, feed
<1> QED BY <1>2 DEF Next, all, feed

LEMMA DayStep == FeedAssumption /\ GovInv /\ Day => GovInv' /\ GovGrows /\ (tears' = 0 => tears = 0)
<1> SUFFICES ASSUME FeedAssumption, GovInv, Day PROVE GovInv' /\ GovGrows /\ (tears' = 0 => tears = 0)
  OBVIOUS
<1>1. GovType /\ MaxTears \in Nat
  BY DEF GovInv, FeedAssumption, G!BodiesAssumption
<1>2. tears' = 0 => tears = 0
  BY <1>1, TearsStay DEF Day
<1>3. G!Requests => GovInv' /\ GovGrows
  BY RefusalAsks, AsksStep, AnsweredStep DEF G!Requests
<1> QED BY <1>2, <1>3, PullStep, ReportStep, TearStep DEF Day

LEMMA FeedsStep == FeedAssumption /\ FeedInv /\ Feeds => FeedInv'
<1> SUFFICES ASSUME FeedAssumption, FeedInv, Feeds PROVE FeedInv'
  OBVIOUS
<1>0. GovInv /\ StoreInv
  BY DEF FeedInv
<1>1. GovType /\ MaxTears \in Nat /\ LastDay \in Nat
  BY <1>0 DEF GovInv, FeedAssumption, G!BodiesAssumption
<1>2. CASE (G!Pull \/ G!Answered \/ G!Report \/ G!NextDay \/ G!Fetch) /\ UNCHANGED store
  <2>1. GovInv' /\ GovGrows
    BY <1>0, <1>2, PullStep, AnsweredStep, ReportStep, NextDayStep, FetchStep
  <2>2. tears' = 0 => tears = 0
    BY <1>1, <1>2, TearsStay DEF G!Requests
  <2>3. Good \subseteq Good'
    BY <1>1, <2>1, <2>2, MoreGood
  <2> QED BY <1>0, <1>2, <2>1, <2>3, StoreSame DEF FeedInv
<1>3. ASSUME NEW x \in Writers, NEW batch \in Seq(Facts), S!Write(x, batch), GovInv', GovGrows, UNCHANGED <<today, raw, tears>>,
             tears = 0 => \A e \in G!ToSet(batch) : e \in DayGives /\ today <= e.know
      PROVE  FeedInv'
  <2>1. Good \subseteq Good'
    BY <1>1, <1>3, MoreGood
  <2>2. \A e \in G!ToSet(batch) : e \in Facts
    BY <1>3 DEF G!ToSet
  <2>3. today \in 1..LastDay
    BY <1>1 DEF GovType
  <2>4. tears = 0 => \A e \in G!ToSet(batch) : Snap(e)
    <3> SUFFICES ASSUME tears = 0, NEW e \in G!ToSet(batch) PROVE Snap(e)
      OBVIOUS
    <3>1. e \in DayGives /\ today <= e.know
      BY <1>3
    <3>2. PICK k \in Kinds : e \in Gives(raw[today][k], k)
      BY <3>1 DEF DayGives
    <3> QED BY <2>3, <3>1, <3>2 DEF Snap
  <2>5. G!ToSet(batch) \subseteq Good
    BY <2>2, <2>4 DEF Good
  <2> QED BY <1>0, <1>3, <2>1, <2>5, WriteStep DEF FeedInv
<1>4. CASE CronWrites
  <2>1. GovInv' /\ GovGrows
    BY <1>0, <1>4, CronWritesGov
  <2>2. S!Write("cron", events) /\ UNCHANGED <<today, raw, tears>> /\ "cron" \in Writers
    BY <1>4 DEF CronWrites, Writers
  <2>3. events \in Seq(Facts) /\ (tears = 0 => \A e \in G!ToSet(events) : e \in DayGives /\ today <= e.know)
    BY <1>0 DEF GovInv, GovType, Pulled
  <2> QED BY <1>3, <2>1, <2>2, <2>3
<1>5. CASE HandWrites
  <2>1. GovInv' /\ GovGrows
    BY <1>0, <1>5, HandWritesGov
  <2>2. S!Write("hand", other) /\ UNCHANGED <<today, raw, tears>> /\ "hand" \in Writers
    BY <1>5 DEF HandWrites, Writers
  <2>3. other \in Seq(Facts) /\ (tears = 0 => \A e \in G!ToSet(other) : e \in DayGives /\ today <= e.know)
    BY <1>0 DEF GovInv, GovType, OthersToo
  <2> QED BY <1>3, <2>1, <2>2, <2>3
<1>6. ASSUME NEW x \in Writers, S!Step(x), UNCHANGED gov PROVE FeedInv'
  <2>1. GovInv'
    BY <1>0, <1>6, GovSame
  <2>2. Good' = Good
    BY <1>6 DEF Good, Snap, gov
  <2> QED BY <1>0, <1>6, <2>1, <2>2, ReadStep, ListStep, DropStep, PlaceStep, DieStep DEF FeedInv, S!Step
<1> QED BY <1>2, <1>4, <1>5, <1>6 DEF Feeds

LEMMA FeedStep == FeedAssumption /\ FeedInv /\ [Next]_all => FeedInv'
<1> SUFFICES ASSUME FeedAssumption, FeedInv, [Next]_all PROVE FeedInv'
  OBVIOUS
<1>0. GovInv /\ StoreInv /\ LastDay \in Nat
  BY DEF FeedInv, FeedAssumption, G!BodiesAssumption
<1>1. CASE Day /\ UNCHANGED store
  <2>1. GovInv' /\ GovGrows /\ (tears' = 0 => tears = 0)
    BY <1>0, <1>1, DayStep
  <2>2. Good \subseteq Good'
    BY <1>0, <2>1, MoreGood
  <2> QED BY <1>0, <1>1, <2>1, <2>2, StoreSame DEF FeedInv
<1>2. CASE Feeds
  BY <1>2, FeedsStep
<1>3. CASE UNCHANGED <<gov, store>>
  <2>1. UNCHANGED gov /\ UNCHANGED store
    BY <1>3
  <2>2. Good' = Good
    BY <2>1 DEF Good, Snap, gov
  <2> QED BY <1>0, <2>1, <2>2, GovSame, StoreSame DEF FeedInv
<1> QED BY <1>1, <1>2, <1>3, FeedSteps

(* What the snapshots of a day give when they are read again.                 *)
LEMMA RereadIs ==
    ASSUME GovInv, tears = 0
    PROVE  /\ \A d \in 1..LastDay, k \in Kinds : G!Reread(d, k) = Gives(raw[d][k], k)
           /\ G!Replay(today) = DayGives
<1>0. GovType /\ Quiet
  BY DEF GovInv
<1>1. ASSUME NEW d \in 1..LastDay, NEW k \in Kinds PROVE G!Reread(d, k) = Gives(raw[d][k], k)
  <2> DEFINE q == raw[d][k]
  <2>1. q \in Seq(Answers)
    BY <1>0 DEF GovType, Raws
  <2>2. \A i \in DOMAIN q : ~q[i].torn
    BY <1>0, Zenon DEF Quiet
  <2>3. G!Reread(d, k) = Gives(G!Readable(q), k)
    BY DEF G!Reread, Gives
  <2> HIDE DEF q
  <2>4. G!Readable(q) = q
    BY <2>1, <2>2, WholeIsReadable
  <2> QED BY <2>3, <2>4 DEF q
<1>2. today \in 1..LastDay
  BY <1>0 DEF GovType
<1>3. G!Replay(today) = UNION {G!Reread(today, k) : k \in Kinds}
  BY FilesAreKinds DEF G!Replay
<1>4. G!Replay(today) = DayGives
  BY <1>1, <1>2, <1>3 DEF DayGives
<1> QED BY <1>1, <1>4

LEMMA FeedIsKept == FeedAssumption /\ FeedInv => DataIsKept
<1> SUFFICES ASSUME FeedAssumption, FeedInv PROVE DataIsKept
  OBVIOUS
<1>0. GovInv /\ GovType /\ Budgeted /\ Pulled /\ StoreInv /\ Table /\ Hands
      /\ \A q \in Tickers : q \in hurt \/ (Calm(q) /\ Safe(q))
  BY DEF FeedInv, GovInv, StoreInv
<1>1. G!TypeOK
  <2>1. \A i \in 1..Len(todo) : todo[i].kind \in Kinds
    <3>1. todo \in Seq(Requests)
      BY <1>0 DEF GovType, Requests
    <3>2. \A i \in 1..Len(todo) : todo[i] \in Requests
      BY <3>1
    <3> QED BY <3>2 DEF Requests
  <2> QED BY <1>0, <2>1, FilesAreKinds DEF G!TypeOK, GovType
<1>2. S!TypeOK
  BY <1>0 DEF S!TypeOK, Hands
<1>3. G!BudgetKept
  BY <1>0 DEF Budgeted
<1>4. G!PullIsReplayed
  <2> SUFFICES ASSUME tears = 0
               PROVE  /\ G!ToSet(events) \subseteq G!Replay(today)
                      /\ pull = "done" /\ fetched # today => G!Replay(today) = G!ToSet(events)
    BY DEF G!PullIsReplayed
  <2>1. G!Replay(today) = DayGives
    BY <1>0, RereadIs
  <2> QED BY <1>0, <2>1 DEF Pulled
<1>5. ASSUME NEW r \in S!Rows PROVE r \in Good /\ r \in Facts /\ r.ticker = r.uid[2]
  <2>1. r \in Good
    BY <1>0, RowsAre DEF Table
  <2>2. r \in Facts
    BY <2>1 DEF Good
  <2> QED BY <2>1, <2>2, FactIs
<1>6. S!OneRowPerFact
  <2> SUFFICES ASSUME NEW r \in S!Rows, NEW q \in S!Rows, r.ticker \notin hurt, r.uid = q.uid PROVE r = q
    BY DEF S!OneRowPerFact, PartOf
  <2>1. PICK p \in Tickers : \E f \in S!Files(p) : r \in disk[p][f]
    BY RowsAre
  <2>2. PICK o \in Tickers : \E f \in S!Files(o) : q \in disk[o][f]
    BY RowsAre
  <2>3. p = o /\ p = r.ticker
    BY <1>0, <1>5, <2>1, <2>2 DEF Table
  <2>4. Whole(p)
    BY <1>0, <2>3 DEF Calm
  <2> QED BY <2>1, <2>2, <2>3, <2>4 DEF Whole, Unique
<1>8. S!NothingLost
  <2>1. S!ToSet(Parts) = Tickers
    BY DEF S!ToSet, G!ToSet, Tickers
  <2> QED BY <1>0, <2>1 DEF S!NothingLost, Safe
<1>7. RowsAreSnapshots
  <2> SUFFICES ASSUME tears = 0, NEW r \in S!Rows
               PROVE  \E d \in 1..LastDay, k \in Kinds : d <= r.know /\ r \in G!Reread(d, k)
    BY DEF RowsAreSnapshots, Kinds
  <2>1. Snap(r)
    BY <1>5 DEF Good
  <2> QED BY <1>0, <2>1, RereadIs DEF Snap
<1> QED BY <1>0, <1>1, <1>2, <1>3, <1>4, <1>6, <1>7, <1>8 DEF DataIsKept

(* The vendor is asked within its budget, a day read again gives what its     *)
(* pull gave, every row is a snapshot of a saved answer, and a partition      *)
(* keeps what was written to it, each fact once, unless a writer died in it   *)
(* between removing the files and moving the new one in, or two were at it    *)
(* together; what befalls one partition harms no other: for any answers,      *)
(* retries, look-ups and partitions, under two writers and their deaths.      *)
THEOREM DataStaysKept == Spec => []DataIsKept
<1>1. FeedAssumption
  BY StoresAssumption DEF StoresAssumption, FeedAssumption
<1>2. Init => FeedInv
  BY <1>1, GovInit, StoreInit DEF Init, FeedInv
<1>3. FeedInv /\ [Next]_all => FeedInv'
  BY <1>1, FeedStep
<1>4. FeedInv => DataIsKept
  BY <1>1, FeedIsKept
<1> QED BY <1>2, <1>3, <1>4, PTL DEF Spec, all
=============================================================================
