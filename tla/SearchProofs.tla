---------------------------- MODULE SearchProofs ----------------------------
(* Theorems about MCSearch: what the models that look for strategies, and    *)
(* the one that trades, may do, whatever they answer, and what a result is   *)
(* compared with, tested by and told as, for every value of the constants.   *)
(* A step of the system is a step of the one that was chosen or leaves what  *)
(* it keeps alone, so that an invariant of one of them is one of the system. *)
EXTENDS MCSearch, CommonProofs, FiniteSetTheorems, SequenceTheorems, WellFoundedInduction, TLAPS

all == <<loop, agents, judging, afterwards>>

-----------------------------------------------------------------------------
(* The author loop *)

LEMMA AuthorSteps == [Next]_all => [A!Next]_A!vars
<1>1. Agents => [A!Next]_A!vars
  BY DEF Agents, authoring, A!vars
<1>2. UNCHANGED agents => UNCHANGED A!vars
  BY DEF agents, authoring, A!vars
<1> QED BY <1>1, <1>2 DEF Next, all, A!vars, agents, authoring

Bases == [code : Nat, params : Knobs, run : Nat]
Runs == [code : Nat, params : Knobs, parent : Nat]
Iters == [run : Nat, base : Bases, code : Nat, params : Knobs]

LoopType ==
    /\ n \in Nat /\ prev \in Bases
    /\ book \in Seq(Runs) /\ lineage \in Seq(Iters)
    /\ at = "try" => offer \in A!Offers

(* A run the chain may build on is in the registry, with the code and the     *)
(* parameters the chain says it has.                                          *)
Sound(b, bk) ==
    /\ b.run \in 0..Len(bk)
    /\ b.run # A!NoRun => bk[b.run].code = b.code /\ bk[b.run].params = b.params

LineageSound ==
    \A i \in DOMAIN lineage :
        /\ Sound(lineage[i].base, book)
        /\ Sound(lineage[i], book)
        /\ lineage[i].run # A!NoRun => book[lineage[i].run].parent = lineage[i].base.run

(* Until the seed has been scored the chain is the seed alone.                *)
Seed == [code |-> 0, params |-> 0, run |-> A!NoRun]
AtSeed == at \in {"off", "baseline"} => prev = Seed

LoopInv == LoopType /\ Sound(prev, book) /\ LineageSound /\ AtSeed

(* Every payload a call hands over is one a model may send, or nothing.       *)
LEMMA PayloadOfCall ==
    ASSUME NEW c \in A!Calls(Backend, A!Offers)
    PROVE  c.input \in A!Offers \cup {Nothing}
BY DEF A!Calls, A!ToolCall, A!PayloadRead

(* An iteration that runs what it says, on a sound base, leaves a sound       *)
(* lineage, and what it ran may be built on.                                  *)
LEMMA EvaluateStep ==
    ASSUME LoopInv, NEW code \in Nat, NEW choice \in Knobs, NEW ok \in BOOLEAN,
           A!Evaluate(code, code, choice, prev.run, ok)
    PROVE  /\ book' \in Seq(Runs) /\ lineage' \in Seq(Iters)
           /\ LineageSound'
           /\ \A b \in Bases : Sound(b, book) => Sound(b, book')
           /\ ok => Sound([code |-> code, params |-> choice, run |-> Len(book) + 1], book')
<1> DEFINE r == [code |-> code, params |-> choice, parent |-> prev.run]
           it == [run |-> IF ok THEN Len(book) + 1 ELSE A!NoRun, base |-> prev,
                  code |-> code, params |-> choice]
<1>1. /\ prev \in Bases /\ book \in Seq(Runs) /\ lineage \in Seq(Iters) /\ Len(book) \in Nat
      /\ r \in Runs /\ it \in Iters /\ lineage' = Append(lineage, it)
      /\ book' = IF ok THEN Append(book, r) ELSE book
  BY DEF LoopInv, LoopType, A!Evaluate, Bases, Runs, Iters, A!NoRun
<1>2. book' \in Seq(Runs) /\ lineage' \in Seq(Iters)
  BY <1>1
<1>3. /\ Len(book') \in Nat /\ Len(book) <= Len(book')
      /\ \A k \in 1..Len(book) : book'[k] = book[k]
      /\ ok => Len(book') = Len(book) + 1 /\ book'[Len(book) + 1] = r
  BY <1>1
<1>4. ASSUME NEW b, Sound(b, book)
      PROVE  /\ b.run \in 0..Len(book')
             /\ b.run # A!NoRun => book'[b.run].code = b.code /\ book'[b.run].params = b.params
  BY <1>1, <1>3, <1>4 DEF Sound, A!NoRun
<1>5. \A b \in Bases : Sound(b, book) => Sound(b, book')
  BY <1>4 DEF Sound
<1>6. ok => Sound([code |-> code, params |-> choice, run |-> Len(book) + 1], book')
  BY <1>1, <1>3 DEF Sound
<1>7. LineageSound'
  <2> SUFFICES ASSUME NEW i \in DOMAIN lineage'
               PROVE  /\ Sound(lineage'[i].base, book') /\ Sound(lineage'[i], book')
                      /\ lineage'[i].run # A!NoRun => book'[lineage'[i].run].parent = lineage'[i].base.run
    BY DEF LineageSound
  <2>1. CASE i \in DOMAIN lineage
    <3>1. lineage'[i] = lineage[i]
      BY <1>1, <2>1
    <3>2. /\ Sound(lineage[i].base, book) /\ Sound(lineage[i], book)
          /\ lineage[i].run # A!NoRun => book[lineage[i].run].parent = lineage[i].base.run
      BY <2>1 DEF LoopInv, LineageSound
    <3>3. Sound(lineage[i].base, book') /\ Sound(lineage[i], book')
      BY <1>4, <3>1, <3>2 DEF Sound
    <3>4. lineage[i].run # A!NoRun => book'[lineage[i].run] = book[lineage[i].run]
      BY <1>1, <1>3, <3>2 DEF Sound, A!NoRun
    <3> QED BY <3>1, <3>2, <3>3, <3>4 DEF Sound
  <2>2. CASE i \notin DOMAIN lineage
    <3>1. lineage'[i] = it
      BY <1>1, <2>2
    <3>2. Sound(prev, book')
      BY <1>1, <1>4 DEF LoopInv, Sound
    <3>3. /\ it.run \in 0..Len(book')
          /\ it.run # A!NoRun => book'[it.run] = r
      BY <1>1, <1>3 DEF A!NoRun
    <3> QED BY <3>1, <3>2, <3>3 DEF Sound
  <2> QED BY <2>1, <2>2
<1> QED BY <1>2, <1>5, <1>6, <1>7

(* An iteration without a run is sound on a sound base.                       *)
LEMMA BlankStep ==
    ASSUME LoopInv, lineage' = Append(lineage, A!Blank), UNCHANGED <<prev, book>>
    PROVE  lineage' \in Seq(Iters) /\ LineageSound'
<1>1. A!Blank \in Iters /\ Sound(A!Blank, book) /\ A!Blank.run = A!NoRun /\ A!Blank.base = prev
  BY DEF LoopInv, LoopType, A!Blank, Iters, Bases, Sound, A!NoRun
<1>2. lineage' \in Seq(Iters) /\ \A i \in DOMAIN lineage' :
          (i \in DOMAIN lineage /\ lineage'[i] = lineage[i]) \/ lineage'[i] = A!Blank
  BY <1>1 DEF LoopInv, LoopType
<1> QED BY <1>1, <1>2 DEF LoopInv, LineageSound, Sound

LEMMA LoopInit == A!LoopAssumption /\ A!Init => LoopInv
BY DEF A!LoopAssumption, A!Init, LoopInv, AtSeed, Seed, LoopType, Bases, Sound, LineageSound, A!NoRun

LEMMA LoopStep == A!LoopAssumption /\ LoopInv /\ [A!Next]_A!vars => LoopInv'
<1> SUFFICES ASSUME A!LoopAssumption, LoopInv, [A!Next]_A!vars PROVE LoopInv'
  OBVIOUS
<1> USE DEF LoopInv, AtSeed
<1>1. CASE A!Begin
  BY <1>1 DEF A!Begin, LoopType, Sound, LineageSound
<1>2. CASE A!Baseline
  <2>1. PICK ok \in BOOLEAN :
          /\ A!Evaluate(0, 0, 0, A!NoRun, ok)
          /\ prev' = [prev EXCEPT !.run = IF ok THEN Len(book) + 1 ELSE A!NoRun]
          /\ at' = "top" /\ n' = n
    BY <1>2 DEF A!Baseline
  <2>2. prev = Seed /\ 0 \in Knobs
    BY <1>2 DEF A!LoopAssumption, A!Baseline, AtSeed
  <2>3. A!Evaluate(0, 0, 0, prev.run, ok)
    BY <2>1, <2>2 DEF Seed
  <2>4. /\ book' \in Seq(Runs) /\ lineage' \in Seq(Iters) /\ LineageSound'
        /\ Sound(prev, book')
        /\ ok => Sound([code |-> 0, params |-> 0, run |-> Len(book) + 1], book')
    BY <2>2, <2>3, EvaluateStep DEF LoopType
  <2>5. CASE ok
    <3>1. prev' = [code |-> 0, params |-> 0, run |-> Len(book) + 1] /\ prev' \in Bases
      BY <2>1, <2>2, <2>5 DEF Seed, Bases, LoopType
    <3> QED BY <2>1, <2>4, <2>5, <3>1 DEF LoopType
  <2>6. CASE ~ok
    <3>1. prev' = prev
      BY <2>1, <2>2, <2>6 DEF Seed
    <3> QED BY <2>1, <2>4, <3>1 DEF LoopType
  <2> QED BY <2>5, <2>6
<1>3. CASE A!LoopTop
  BY <1>3 DEF A!LoopTop, LoopType, Sound, LineageSound
<1>4. CASE A!Propose
  <2>1. PICK c \in A!Calls(Backend, A!Offers) :
          /\ at = "ask" /\ at' \in {"top", "done", "try"} /\ UNCHANGED <<n, prev, book>>
          /\ \/ lineage' = Append(lineage, A!Blank) /\ at' # "try"
             \/ UNCHANGED lineage /\ c.input # Nothing /\ offer' = c.input
    BY <1>4 DEF A!Propose
  <2>2. c.input # Nothing => c.input \in A!Offers
    BY PayloadOfCall
  <2>3. CASE lineage' = Append(lineage, A!Blank) /\ at' # "try"
    BY <2>1, <2>3, BlankStep DEF LoopType, Sound
  <2>4. CASE UNCHANGED lineage /\ c.input # Nothing /\ offer' = c.input
    BY <2>1, <2>2, <2>4 DEF LoopType, Sound, LineageSound
  <2> QED BY <2>1, <2>3, <2>4
<1>5. CASE A!Try
  <2> DEFINE o == offer
  <2>1. PICK ok \in BOOLEAN :
          /\ A!Evaluate(A!StrategyPath(o), A!NewSource(o), A!Merged(o), prev.run, ok)
          /\ prev' = IF A!Moves(ok) THEN [code |-> A!NewSource(o), params |-> A!Merged(o),
                                        run |-> IF ok THEN Len(book) + 1 ELSE prev.run]
                     ELSE prev
    BY <1>5 DEF A!Try
  <2>2. at = "try" /\ at' \in {"top", "done"} /\ offer \in A!Offers /\ n' = n
    BY <1>5 DEF A!Try, LoopType
  <2>3. /\ A!NewSource(o) \in Nat /\ A!StrategyPath(o) = A!NewSource(o) /\ A!Merged(o) \in Knobs
    BY <2>2 DEF A!NewSource, A!StrategyPath, A!Merged, LoopType, A!Offers, Bases
  <2>4. /\ book' \in Seq(Runs) /\ lineage' \in Seq(Iters) /\ LineageSound'
        /\ \A b \in Bases : Sound(b, book) => Sound(b, book')
        /\ ok => Sound([code |-> A!NewSource(o), params |-> A!Merged(o), run |-> Len(book) + 1], book')
    BY <2>1, <2>3, EvaluateStep
  <2>5. CASE ok
    <3>1. prev' = [code |-> A!NewSource(o), params |-> A!Merged(o), run |-> Len(book) + 1]
      BY <2>1, <2>5 DEF A!Moves
    <3>2. prev' \in Bases
      BY <2>3, <3>1 DEF Bases, LoopType
    <3> QED BY <2>2, <2>4, <2>5, <3>1, <3>2 DEF LoopType, Sound
  <2>6. CASE ~ok
    <3>1. prev' = prev
      BY <2>1, <2>6 DEF A!Moves
    <3> QED BY <2>2, <2>4, <3>1 DEF LoopType, Sound
  <2> QED BY <2>5, <2>6
<1>6. CASE UNCHANGED A!vars
  BY <1>6 DEF A!vars, LoopType, Sound, LineageSound
<1> QED BY <1>1, <1>2, <1>3, <1>4, <1>5, <1>6 DEF A!Next

(* The registry and the audit trail of the loop agree, however many calls     *)
(* fail, proposals are refused and backtests raise, and in whatever order     *)
(* proposals of parameters and of code come.                                  *)
THEOREM LineageMatchesRegistry == Spec => []LineageIsWhatRan
<1>1. A!LoopAssumption
  BY SearchAssumption DEF SearchAssumption
<1>2. Init => LoopInv
  BY <1>1, LoopInit DEF Init
<1>3. LoopInv /\ [Next]_all => LoopInv'
  BY <1>1, LoopStep, AuthorSteps
<1>4. LoopInv => LineageIsWhatRan
  BY DEF LoopInv, LineageSound, Sound, LineageIsWhatRan, A!LineageIsWhatRan
<1> QED BY <1>2, <1>3, <1>4, PTL DEF Spec, all

-----------------------------------------------------------------------------
(* The wall in front of the trading loop *)

LEMMA TradingSteps == [Next]_all => [L!Next]_L!vars
<1>1. Agents => [L!Next]_L!vars
  BY DEF Agents, trading, L!vars
<1>2. UNCHANGED agents => UNCHANGED L!vars
  BY DEF agents, trading, L!vars
<1> QED BY <1>1, <1>2 DEF Next, all, L!vars, agents, trading

LEMMA CardinalityL == \A V : L!Cardinality(V) = Cardinality(V)
BY DEF L!Cardinality, Cardinality

(* What one call may bring and cost.                                          *)
LEMMA CallBrings ==
    ASSUME NEW b, NEW payloads, NEW c \in L!Calls(b, payloads)
    PROVE  c.input \in payloads \cup {Nothing} /\ c.cost \in Prices \cup {0}
BY DEF L!Calls, L!ToolCall, L!PayloadRead

LEMMA CallCosts ==
    ASSUME R!PricesAssumption, NEW x \in Prices \cup {0}
    PROVE  x \in Nat /\ \A p \in Prices : (\A q \in Prices : q <= p) => x <= p
BY DEF R!PricesAssumption

LEMMA TargetsAreSeqs == \A es \in L!Targets : es \in Seq(L!Entries)
<1>1. \A k \in 0..2 : k \in Nat
  OBVIOUS
<1> QED BY <1>1, SeqDef DEF L!Targets

LEMMA IndicesFinite ==
    ASSUME NEW es \in Seq(L!Entries), NEW Y \in SUBSET DOMAIN es
    PROVE  IsFiniteSet(Y) /\ Cardinality(Y) \in Nat
<1>1. IsFiniteSet(1..Len(es))
  BY FS_Interval
<1> QED BY <1>1, FS_Subset, FS_CardinalityType

(* The walled book: few enough names, each once, each within its bound.       *)
LEMMA ValidatedIsWalled ==
    ASSUME L!AgentAssumption, NEW es \in Seq(L!Entries)
    PROVE  LET book2 == L!Validated(es)
           IN /\ Cardinality({e \in book2 : e.pct > 0}) <= MaxPositions
              /\ \A e \in book2 : e.ticker \in Universe /\ e.pct <= MaxPct
              /\ \A e, f \in book2 : e.ticker = f.ticker => e = f
<1>1. CASE L!TooMany(es)
  <2>1. L!Validated(es) = {} /\ {e \in L!Validated(es) : e.pct > 0} = {}
    BY <1>1 DEF L!Validated
  <2> QED BY <2>1, FS_EmptySet DEF L!AgentAssumption
<1>2. CASE ~L!TooMany(es)
  <2> DEFINE opens == L!Opens(es)
             held == {e \in L!Validated(es) : e.pct > 0}
             f == [i \in opens |-> es[i]]
  <2>1. L!Validated(es) = {es[i] : i \in L!Kept(es)}
    BY <1>2 DEF L!Validated
  <2>2. opens \in SUBSET DOMAIN es
    BY DEF L!Opens, L!Kept, L!Staged
  <2>3. IsFiniteSet(opens) /\ Cardinality(opens) <= MaxPositions
    BY <1>2, <2>2, IndicesFinite, CardinalityL DEF L!TooMany, L!AgentAssumption
  <2>4. f \in Surjection(opens, held)
    BY <2>1 DEF Surjection, L!Opens
  <2>5. Cardinality(held) <= Cardinality(opens)
    BY <2>3, <2>4, FS_Surjection
  <2>6. Cardinality(held) \in Nat /\ Cardinality(opens) \in Nat
    BY <2>3, <2>4, FS_Surjection, FS_CardinalityType
  <2>7. \A e \in L!Validated(es) : e.ticker \in Universe /\ e.pct <= MaxPct
    BY <2>1 DEF L!Kept, L!Staged, L!Parsed
  <2>8. \A e, g \in L!Validated(es) : e.ticker = g.ticker => e = g
    BY <2>1 DEF L!Kept, L!Twice
  <2> QED BY <2>3, <2>5, <2>6, <2>7, <2>8 DEF L!AgentAssumption
<1> QED BY <1>1, <1>2

Reversed(es) == LET m == Len(es) IN [i \in 1..m |-> es[m + 1 - i]]

(* Turned round, a payload leads to the same book.                            *)
LEMMA ValidatedReversed ==
    ASSUME L!AgentAssumption, NEW es \in Seq(L!Entries)
    PROVE  L!Validated(Reversed(es)) = L!Validated(es)
<1> DEFINE m == Len(es)
           r == Reversed(es)
           turn(i) == m + 1 - i
<1>1. m \in Nat /\ DOMAIN es = 1..m /\ DOMAIN r = 1..m /\ \A i \in 1..m : r[i] = es[turn(i)]
  BY DEF Reversed
<1>2. \A i \in 1..m : turn(i) \in 1..m /\ turn(turn(i)) = i
  BY <1>1
<1> HIDE DEF m, r
<1>3. \A i \in 1..m : i \in L!Staged(r) <=> turn(i) \in L!Staged(es)
  BY <1>1, <1>2 DEF L!Staged
<1>4. L!Staged(r) \subseteq 1..m /\ L!Staged(es) \subseteq 1..m
  BY <1>1 DEF L!Staged
<1>5. \A i \in 1..m : L!Twice(r, i) <=> L!Twice(es, turn(i))
  <2>1. ASSUME NEW i \in 1..m, L!Twice(r, i) PROVE L!Twice(es, turn(i))
    <3>1. PICK j \in L!Staged(r) : j # i /\ r[j].ticker = r[i].ticker
      BY <2>1 DEF L!Twice
    <3>2. turn(j) \in L!Staged(es) /\ turn(j) # turn(i) /\ es[turn(j)].ticker = es[turn(i)].ticker
      BY <1>1, <1>2, <1>3, <1>4, <3>1
    <3> QED BY <3>2 DEF L!Twice
  <2>2. ASSUME NEW i \in 1..m, L!Twice(es, turn(i)) PROVE L!Twice(r, i)
    <3>1. PICK j \in L!Staged(es) : j # turn(i) /\ es[j].ticker = es[turn(i)].ticker
      BY <2>2 DEF L!Twice
    <3>2. turn(j) \in 1..m /\ j = turn(turn(j)) /\ turn(j) # i
      BY <1>1, <1>2, <1>4, <3>1
    <3>3. turn(j) \in L!Staged(r) /\ r[turn(j)].ticker = r[i].ticker
      BY <1>1, <1>3, <3>1, <3>2
    <3> QED BY <3>2, <3>3 DEF L!Twice
  <2> QED BY <2>1, <2>2
<1>6. \A i \in 1..m : i \in L!Kept(r) <=> turn(i) \in L!Kept(es)
  BY <1>2, <1>3, <1>5 DEF L!Kept
<1>7. L!Kept(r) \subseteq 1..m /\ L!Kept(es) \subseteq 1..m
  BY <1>4 DEF L!Kept
<1>8. {r[i] : i \in L!Kept(r)} = {es[i] : i \in L!Kept(es)}
  <2>1. ASSUME NEW i \in L!Kept(r) PROVE \E k \in L!Kept(es) : r[i] = es[k]
    BY <1>1, <1>6, <1>7
  <2>2. ASSUME NEW k \in L!Kept(es) PROVE \E i \in L!Kept(r) : r[i] = es[k]
    <3>1. turn(k) \in 1..m /\ turn(turn(k)) = k
      BY <1>2, <1>7
    <3> QED BY <1>1, <1>6, <3>1
  <2> QED BY <2>1, <2>2
<1>9. Cardinality(L!Opens(r)) = Cardinality(L!Opens(es))
  <2>1. \A i \in 1..m : i \in L!Opens(r) <=> turn(i) \in L!Opens(es)
    BY <1>1, <1>2, <1>6 DEF L!Opens
  <2>2. L!Opens(r) \subseteq 1..m /\ L!Opens(es) \subseteq 1..m
    BY <1>7 DEF L!Opens
  <2> DEFINE f == [i \in L!Opens(r) |-> turn(i)]
  <2>3. f \in [L!Opens(r) -> L!Opens(es)]
    BY <2>1, <2>2
  <2>4. \A i, j \in L!Opens(r) : f[i] = f[j] => i = j
    BY <1>1, <2>2
  <2>5. \A k \in L!Opens(es) : \E i \in L!Opens(r) : f[i] = k
    <3> SUFFICES ASSUME NEW k \in L!Opens(es) PROVE \E i \in L!Opens(r) : f[i] = k
      OBVIOUS
    <3>1. turn(k) \in 1..m /\ turn(turn(k)) = k
      BY <1>2, <2>2
    <3> QED BY <2>1, <3>1
  <2> HIDE DEF f
  <2>6. f \in Bijection(L!Opens(r), L!Opens(es))
    BY <2>3, <2>4, <2>5 DEF Bijection, Injection, IsInjective, Surjection
  <2>7. IsFiniteSet(L!Opens(es)) /\ IsFiniteSet(L!Opens(r))
    BY <1>1, <2>2, FS_Interval, FS_Subset
  <2>8. ExistsBijection(L!Opens(r), L!Opens(es))
    BY <2>6 DEF ExistsBijection
  <2> QED BY <2>7, <2>8, FS_Bijection
<1>10. L!TooMany(r) <=> L!TooMany(es)
  BY <1>9, CardinalityL DEF L!TooMany
<1> QED BY <1>8, <1>10 DEF L!Validated, r

(* An exit named once is taken wherever the holdings fit.                     *)
LEMMA ExitsOfValidated ==
    ASSUME L!AgentAssumption, NEW es \in Seq(L!Entries),
           Cardinality({i \in DOMAIN es : es[i].pct > 0}) <= MaxPositions,
           NEW i \in DOMAIN es, es[i].pct = 0, es[i].ticker \in Universe,
           \A j \in DOMAIN es : j # i => es[j].ticker # es[i].ticker
    PROVE  es[i] \in L!Validated(es)
<1> DEFINE opens == {k \in DOMAIN es : es[k].pct > 0}
<1>1. L!Opens(es) \in SUBSET opens
  BY DEF L!Opens, L!Kept, L!Staged
<1>2. Cardinality(L!Opens(es)) <= Cardinality(opens) /\ Cardinality(L!Opens(es)) \in Nat
      /\ Cardinality(opens) \in Nat
  BY <1>1, IndicesFinite, FS_Subset
<1>3. ~L!TooMany(es)
  BY <1>2, CardinalityL DEF L!TooMany, L!AgentAssumption
<1>4. i \in L!Kept(es)
  BY DEF L!Kept, L!Staged, L!Parsed, L!Twice, L!AgentAssumption
<1> QED BY <1>3, <1>4 DEF L!Validated

-----------------------------------------------------------------------------
(* Asked once a session, paid within the budget *)

Dearest(p) == p \in Prices /\ \A q \in Prices : q <= p

TradeType ==
    /\ day \in 1..Sessions /\ last \in 0..day /\ restarts \in Nat /\ cost \in Nat
    /\ bill.calls \in Nat /\ bill.spend \in Nat
    /\ asked \in [1..Sessions -> Nat]
    /\ heard \in Seq(L!Entries) /\ intents = L!Validated(heard)

(* Of a session that is yet to come nothing was asked, and of this one not    *)
(* before it was taken, by this process.                                      *)
AskedOnce ==
    /\ \A d \in 1..Sessions : asked[d] <= 1 + restarts
    /\ \A d \in 1..Sessions : d > day => asked[d] = 0
    /\ last # day => asked[day] <= restarts
    /\ bill.calls <= day + restarts
    /\ last # day => bill.calls <= day + restarts - 1

(* Each process pays for less than its budget and one answer.                 *)
PaidWithin ==
    \A p : Dearest(p) =>
        /\ cost < AgentBudget + p
        /\ bill.spend <= restarts * (AgentBudget + p - 1) + cost

TradeInv == TradeType /\ AskedOnce /\ PaidWithin

LEMMA OneMoreTime == \A k, x \in Nat : (k + 1) * x = k * x + x
OBVIOUS

LEMMA TradeInit == Init => TradeInv
<1> SUFFICES ASSUME L!Init, L!AgentAssumption, R!PricesAssumption PROVE TradeInv
  BY SearchAssumption DEF Init, SearchAssumption
<1>1. <<>> \in Seq(L!Entries) /\ L!Validated(<<>>) = {}
  BY DEF L!Validated, L!Kept, L!Staged
<1>2. /\ day = 1 /\ last = 0 /\ cost = 0 /\ restarts = 0 /\ bill.calls = 0 /\ bill.spend = 0
      /\ asked = [d \in 1..Sessions |-> 0] /\ heard = <<>> /\ intents = {}
  BY DEF L!Init
<1>3. TradeType /\ AskedOnce
  BY <1>1, <1>2 DEF TradeType, AskedOnce, L!AgentAssumption
<1>4. PaidWithin
  <2>1. Prices \subseteq Nat /\ AgentBudget \in Nat \ {0}
    BY DEF R!PricesAssumption, L!AgentAssumption
  <2>2. \A p : Dearest(p) => 0 < AgentBudget + p /\ 0 <= 0 * (AgentBudget + p - 1) + 0
    BY <2>1 DEF Dearest
  <2> QED BY <1>2, <2>2 DEF PaidWithin
<1> QED BY <1>3, <1>4 DEF TradeInv

LEMMA TradeStep == TradeInv /\ [L!Next]_L!vars => TradeInv'
<1> SUFFICES ASSUME TradeInv, [L!Next]_L!vars PROVE TradeInv'
  OBVIOUS
<1>0. L!AgentAssumption /\ R!PricesAssumption /\ Sessions \in Nat /\ AgentBudget \in Nat \ {0}
      /\ Prices \subseteq Nat
  BY SearchAssumption DEF SearchAssumption, L!AgentAssumption, R!PricesAssumption
<1>1. TradeType /\ AskedOnce /\ PaidWithin
  BY DEF TradeInv
<1>2. <<>> \in Seq(L!Entries) /\ L!Validated(<<>>) = {}
  BY DEF L!Validated, L!Kept, L!Staged
<1>3. CASE L!OnBar
  <2>1. CASE L!Exhausted
    <3>1. /\ heard' = <<>> /\ intents' = {}
          /\ UNCHANGED <<day, last, cost, bill, asked, restarts>>
      BY <1>3, <2>1 DEF L!OnBar
    <3> QED BY <1>1, <1>2, <3>1 DEF TradeInv, TradeType, AskedOnce, PaidWithin
  <2>2. CASE ~L!Exhausted
    <3>0. PICK c \in L!Calls(Backend, L!Targets) :
             /\ bill' = [calls |-> bill.calls + 1, spend |-> bill.spend + c.cost]
             /\ cost' = cost + c.cost
             /\ heard' = IF ~c.ok \/ c.input = Nothing THEN <<>> ELSE c.input
             /\ intents' = L!Validated(heard')
      BY <1>3, <2>2 DEF L!OnBar
    <3>1. /\ bill' = [calls |-> bill.calls + 1, spend |-> bill.spend + c.cost]
          /\ cost' = cost + c.cost /\ intents' = L!Validated(heard')
          /\ heard' = <<>> \/ (heard' = c.input /\ c.input # Nothing)
      BY <3>0, Zenon
    <3>2. /\ day # last /\ last' = day /\ asked' = [asked EXCEPT ![day] = asked[day] + 1]
          /\ day' = day /\ restarts' = restarts
      BY <1>3, <2>2 DEF L!OnBar, L!Due
    <3>3. c.input \in L!Targets \cup {Nothing}
      BY <3>1, CallBrings
    <3>c. c.cost \in Prices \cup {0}
      BY <3>1, CallBrings
    <3>d. c.cost \in Nat /\ \A p \in Prices : (\A q \in Prices : q <= p) => c.cost <= p
      BY <1>0, <3>c, CallCosts, Zenon
    <3>9. heard' \in Seq(L!Entries)
      BY <1>2, <3>1, <3>3, TargetsAreSeqs
    <3>4. c.cost \in Nat /\ cost < AgentBudget
      <4>1. c.cost \in Nat
        BY <3>d
      <4>2. cost \in Nat
        BY <1>1 DEF TradeType
      <4> QED BY <1>0, <2>2, <4>1, <4>2 DEF L!Exhausted
    <3>5. /\ bill'.calls = bill.calls + 1 /\ bill'.spend = bill.spend + c.cost
      BY <3>1
    <3>6. TradeType'
      <4>1. /\ day \in 1..Sessions /\ last \in 0..day /\ restarts \in Nat /\ cost \in Nat
            /\ bill.calls \in Nat /\ bill.spend \in Nat /\ asked \in [1..Sessions -> Nat]
        BY <1>1 DEF TradeType
      <4>2. asked' \in [1..Sessions -> Nat] /\ last' \in 0..day
        BY <1>0, <3>2, <4>1
      <4>3. bill'.calls \in Nat /\ bill'.spend \in Nat /\ cost' \in Nat
        BY <3>1, <3>4, <3>5, <4>1
      <4> QED BY <3>1, <3>2, <3>9, <4>1, <4>2, <4>3 DEF TradeType
    <3>7. AskedOnce'
      BY <1>0, <1>1, <3>2, <3>5 DEF TradeType, AskedOnce
    <3>8. PaidWithin'
      <4> SUFFICES ASSUME NEW p, Dearest(p)
                   PROVE  /\ cost' < AgentBudget + p
                          /\ bill'.spend <= restarts' * (AgentBudget + p - 1) + cost'
        BY DEF PaidWithin, Dearest
      <4>0. p \in Nat
        BY <1>0 DEF Dearest
      <4>1. c.cost <= p
        BY <3>d DEF Dearest
      <4> DEFINE k == restarts * (AgentBudget + p - 1)
      <4>2. k \in Nat
        BY <1>0, <1>1, <4>0 DEF TradeType
      <4>3. bill.spend <= k + cost
        BY <1>1 DEF PaidWithin
      <4>4. restarts' * (AgentBudget + p - 1) = k
        BY <3>2
      <4> HIDE DEF k
      <4>5. cost \in Nat /\ bill.spend \in Nat
        BY <1>1 DEF TradeType
      <4>6. cost' < AgentBudget + p
        BY <1>0, <3>1, <3>4, <4>0, <4>1, <4>5
      <4>7. bill'.spend <= k + cost'
        BY <3>1, <3>4, <3>5, <4>2, <4>3, <4>5
      <4> QED BY <4>4, <4>6, <4>7
    <3> QED BY <3>6, <3>7, <3>8 DEF TradeInv
  <2> QED BY <2>1, <2>2
<1>4. CASE L!NoClient
  <2>1. /\ heard' = <<>> /\ intents' = {}
        /\ UNCHANGED <<day, last, cost, bill, asked, restarts>>
    BY <1>4 DEF L!NoClient
  <2> QED BY <1>1, <1>2, <2>1 DEF TradeInv, TradeType, AskedOnce, PaidWithin
<1>5. CASE L!NextSession
  <2>1. /\ heard' = <<>> /\ intents' = {} /\ day < Sessions /\ day' = day + 1
        /\ UNCHANGED <<last, cost, bill, asked, restarts>>
    BY <1>5 DEF L!NextSession
  <2>2. TradeType'
    BY <1>0, <1>1, <1>2, <2>1 DEF TradeType
  <2>3. AskedOnce'
    BY <1>0, <1>1, <2>1 DEF TradeType, AskedOnce
  <2> QED BY <1>1, <2>1, <2>2, <2>3 DEF TradeInv, PaidWithin
<1>6. CASE L!Restart
  <2>1. /\ heard' = <<>> /\ intents' = {} /\ last' = 0 /\ cost' = 0 /\ restarts' = restarts + 1
        /\ UNCHANGED <<day, bill, asked>>
    BY <1>6 DEF L!Restart
  <2>2. TradeType'
    BY <1>0, <1>1, <1>2, <2>1 DEF TradeType
  <2>3. AskedOnce'
    BY <1>0, <1>1, <2>1 DEF TradeType, AskedOnce
  <2>4. PaidWithin'
    <3> SUFFICES ASSUME NEW p, Dearest(p)
                 PROVE  /\ cost' < AgentBudget + p
                        /\ bill'.spend <= restarts' * (AgentBudget + p - 1) + cost'
      BY DEF PaidWithin, Dearest
    <3>0. (restarts + 1) * (AgentBudget + p - 1) \in Int
      BY <1>0, <1>1 DEF TradeType, Dearest
    <3>1. p \in Nat /\ AgentBudget + p - 1 \in Nat
      BY <1>0 DEF Dearest
    <3>2. cost <= AgentBudget + p - 1 /\ bill.spend <= restarts * (AgentBudget + p - 1) + cost
      BY <1>0, <1>1, <3>1 DEF PaidWithin, TradeType
    <3>3. (restarts + 1) * (AgentBudget + p - 1) = restarts * (AgentBudget + p - 1) + (AgentBudget + p - 1)
      BY <1>1, <3>1, OneMoreTime DEF TradeType
    <3>4. restarts * (AgentBudget + p - 1) \in Nat
      BY <1>1, <3>1 DEF TradeType
    <3>5. 0 < AgentBudget + p /\ bill.spend <= (restarts + 1) * (AgentBudget + p - 1)
      BY <1>0, <1>1, <3>1, <3>2, <3>3, <3>4 DEF TradeType
    <3>6. (restarts + 1) * (AgentBudget + p - 1) = (restarts + 1) * (AgentBudget + p - 1) + 0
      BY <3>0
    <3> QED BY <2>1, <3>5, <3>6
  <2> QED BY <2>2, <2>3, <2>4 DEF TradeInv
<1>7. CASE UNCHANGED L!vars
  BY <1>1, <1>7 DEF L!vars, TradeInv, TradeType, AskedOnce, PaidWithin
<1> QED BY <1>3, <1>4, <1>5, <1>6, <1>7 DEF L!Next

LEMMA TradeIsWalledIn == TradeInv => ModelIsWalledIn
<1> SUFFICES ASSUME TradeInv PROVE ModelIsWalledIn
  OBVIOUS
<1>0. L!AgentAssumption /\ R!PricesAssumption
  BY SearchAssumption DEF SearchAssumption
<1>1. TradeType /\ AskedOnce /\ PaidWithin
  BY DEF TradeInv
<1>2. heard \in Seq(L!Entries) /\ intents = L!Validated(heard)
  BY <1>1 DEF TradeType
<1>3. L!WallHolds
  BY <1>0, <1>2, ValidatedIsWalled, CardinalityL DEF L!WallHolds
<1>4. L!OrderDoesNotMatter
  BY <1>0, <1>2, ValidatedReversed DEF L!OrderDoesNotMatter, Reversed
<1>5. L!ExitsAreFree
  BY <1>0, <1>2, ExitsOfValidated, CardinalityL DEF L!ExitsAreFree
<1>6. L!OncePerSession
  BY <1>0, <1>1 DEF L!OncePerSession, AskedOnce, TradeType, L!AgentAssumption
<1>7. L!AgentSpendBounded
  <2> SUFFICES ASSUME NEW p \in Prices, \A q \in Prices : q <= p
               PROVE  bill.spend < (AgentBudget + p) * (1 + restarts)
    BY DEF L!AgentSpendBounded
  <2>1. p \in Nat /\ AgentBudget \in Nat \ {0} /\ restarts \in Nat /\ cost \in Nat /\ bill.spend \in Nat
    BY <1>0, <1>1 DEF L!AgentAssumption, R!PricesAssumption, TradeType
  <2> DEFINE k == AgentBudget + p - 1
  <2>2. k \in Nat /\ cost <= k /\ bill.spend <= restarts * k + cost
    BY <1>1, <2>1 DEF PaidWithin, Dearest
  <2>3. (AgentBudget + p) * (1 + restarts) = restarts * k + k + restarts + 1
    <3>1. AgentBudget + p = k + 1
      BY <2>1
    <3> HIDE DEF k
    <3>2. (k + 1) * (1 + restarts) = k * (1 + restarts) + (1 + restarts)
      BY <2>1, <2>2, OneMoreTime
    <3>3. k * (1 + restarts) = restarts * k + k
      BY <2>1, <2>2, OneMoreTime
    <3>4. k * (1 + restarts) \in Nat /\ restarts * k \in Nat
      BY <2>1, <2>2
    <3> QED BY <2>1, <2>2, <3>1, <3>2, <3>3, <3>4
  <2>4. restarts * k \in Nat
    BY <2>1, <2>2
  <2> HIDE DEF k
  <2> QED BY <2>1, <2>2, <2>3, <2>4
<1> QED BY <1>3, <1>4, <1>5, <1>6, <1>7 DEF ModelIsWalledIn

(* Whatever a model sends, in whatever order and however often it is started  *)
(* again: what reaches the context is a book within the bounds, an exit is    *)
(* never refused for capacity, and a session and a budget are each spent once *)
(* a process.                                                                 *)
THEOREM WalledIn == Spec => []ModelIsWalledIn
<1>1. TradeInv /\ [Next]_all => TradeInv'
  BY TradeStep, TradingSteps
<1> QED BY <1>1, TradeInit, TradeIsWalledIn, PTL DEF Spec, all

-----------------------------------------------------------------------------
(* The research session *)

LEMMA SessionSteps == [Next]_all => [R!Next]_R!vars
<1>1. Agents => [R!Next]_R!vars
  BY DEF Agents, session, R!vars
<1>2. UNCHANGED agents => UNCHANGED R!vars
  BY DEF agents, session, R!vars
<1> QED BY <1>1, <1>2 DEF Next, all, R!vars, agents, session

LEMMA CardinalityR == \A X : R!Cardinality(X) = Cardinality(X)
BY DEF R!Cardinality, Cardinality

(* The fields of a session, and what two sessions have in common that differ  *)
(* in none of their counts.                                                   *)
Fields == {"saved", "calls", "spend", "minutes", "exps", "neighbours", "challenged",
           "status", "because", "pick"}
Same(t, u) ==
    /\ DOMAIN u = Fields
    /\ u.calls = t.calls /\ u.spend = t.spend /\ u.exps = t.exps
    /\ (u.challenged <=> t.challenged)

LEMMA CountsKept ==
    ASSUME NEW t, DOMAIN t = Fields, NEW x
    PROVE  /\ Same(t, [t EXCEPT !.because = x])
           /\ [t EXCEPT !.because = x].minutes = t.minutes
           /\ Same(t, [t EXCEPT !.neighbours = x])
           /\ [t EXCEPT !.neighbours = x].minutes = t.minutes
BY DEF Fields, Same

LEMMA SameSelf == ASSUME NEW t, DOMAIN t = Fields PROVE Same(t, t)
BY DEF Same

LEMMA SavedKept ==
    ASSUME NEW t, DOMAIN t = Fields
    PROVE  Same(t, R!Saved(t)) /\ R!Saved(t).minutes = t.minutes /\ R!Saved(t).saved = TRUE
BY DEF Fields, Same, R!Saved

LEMMA CallCounted ==
    ASSUME NEW t, DOMAIN t = Fields, NEW x, NEW y
    PROVE  LET u == [t EXCEPT !.calls = x, !.spend = y]
           IN /\ DOMAIN u = Fields /\ u.calls = x /\ u.spend = y /\ u.exps = t.exps
              /\ u.minutes = t.minutes /\ (u.challenged <=> t.challenged)
BY DEF Fields

LEMMA ChallengeKept ==
    ASSUME NEW t, DOMAIN t = Fields
    PROVE  LET u == [t EXCEPT !.challenged = TRUE]
           IN /\ DOMAIN u = Fields /\ u.calls = t.calls /\ u.spend = t.spend /\ u.exps = t.exps
              /\ u.minutes = t.minutes /\ u.challenged
BY DEF Fields

LEMMA ExpsKept ==
    ASSUME NEW t, DOMAIN t = Fields, NEW x
    PROVE  LET u == [t EXCEPT !.exps = x]
           IN /\ DOMAIN u = Fields /\ u.calls = t.calls /\ u.spend = t.spend /\ u.exps = x
              /\ u.minutes = t.minutes /\ (u.challenged <=> t.challenged)
BY DEF Fields

(* The looks among the experiments: one more for one that ran.                *)
OkOf(es) == {i \in DOMAIN es : es[i].ok}
Seen(es) == Cardinality(OkOf(es))

LEMMA SeenIsNat ==
    ASSUME NEW X, NEW es \in Seq(X)
    PROVE  IsFiniteSet(OkOf(es)) /\ Seen(es) \in Nat
<1>1. OkOf(es) \in SUBSET (1..Len(es))
  BY DEF OkOf
<1>2. IsFiniteSet(1..Len(es))
  BY FS_Interval
<1>3. IsFiniteSet(OkOf(es))
  BY <1>1, <1>2, FS_Subset
<1> QED BY <1>3, FS_CardinalityType DEF Seen

LEMMA SeenGrows ==
    ASSUME NEW X, NEW es \in Seq(X), NEW e \in X
    PROVE  /\ es \o <<e>> \in Seq(X)
           /\ Seen(es \o <<e>>) \in Nat /\ Seen(es) <= Seen(es \o <<e>>)
           /\ e.ok => Seen(es \o <<e>>) = Seen(es) + 1
<1> DEFINE more == es \o <<e>>
<1>1. /\ more \in Seq(X) /\ DOMAIN more = 1..(Len(es) + 1) /\ DOMAIN es = 1..Len(es) /\ Len(es) \in Nat
      /\ more[Len(es) + 1] = e /\ \A i \in 1..Len(es) : more[i] = es[i]
  OBVIOUS
<1> HIDE DEF more
<1>2. IsFiniteSet(OkOf(es)) /\ Seen(es) \in Nat /\ Seen(more) \in Nat /\ IsFiniteSet(OkOf(more))
  BY <1>1, SeenIsNat
<1>3. OkOf(es) \subseteq OkOf(more) /\ Len(es) + 1 \notin OkOf(es)
  BY <1>1 DEF OkOf
<1>4. Seen(es) <= Seen(more)
  BY <1>2, <1>3, FS_Subset DEF Seen
<1>5. ASSUME e.ok PROVE Seen(more) = Seen(es) + 1
  <2>1. OkOf(more) = OkOf(es) \cup {Len(es) + 1}
    BY <1>1, <1>5 DEF OkOf
  <2> QED BY <1>2, <1>3, <2>1, FS_AddElement DEF Seen
<1> QED BY <1>1, <1>2, <1>4, <1>5 DEF more

LEMMA LooksAreSeen == \A t : R!Looks(t) = Seen(t.exps)
BY CardinalityR DEF R!Looks, Seen, OkOf

(* What so many answers are worth at most.                                    *)
Worth(k) == R!MaxPrice * k

LEMMA DearestPrice ==
    ASSUME R!PricesAssumption
    PROVE  R!MaxPrice \in Nat /\ \A x \in Prices \cup {0} : x \in Nat /\ x <= R!MaxPrice
<1>1. R!MaxPrice \in Prices /\ \A q \in Prices : q <= R!MaxPrice
  BY DEF R!MaxPrice, R!PricesAssumption
<1> QED BY <1>1 DEF R!PricesAssumption

LEMMA WorthIsNat == ASSUME R!PricesAssumption, NEW k \in Nat PROVE Worth(k) \in Nat
BY DearestPrice DEF Worth

LEMMA WorthAdds ==
    ASSUME R!PricesAssumption, NEW j \in Nat, NEW k \in Nat
    PROVE  Worth(j + k) = Worth(j) + Worth(k)
<1>1. \A x, a, b \in Nat : x * (a + b) = x * a + x * b
  OBVIOUS
<1> QED BY <1>1, DearestPrice DEF Worth

LEMMA WorthOfOne == ASSUME R!PricesAssumption PROVE Worth(1) = R!MaxPrice
BY DearestPrice DEF Worth

(* What crashes have made the session forget.                                 *)
Forgotten == R!LostPerCrash * crashes

LEMMA ForgottenMore ==
    ASSUME FailureLimit \in Nat \ {0}, crashes \in Nat
    PROVE  /\ R!LostPerCrash \in Nat /\ R!LostPerCrash = FailureLimit + FailureLimit
           /\ Forgotten \in Nat
           /\ crashes' = crashes + 1 => Forgotten' = Forgotten + R!LostPerCrash
           /\ crashes' = crashes => Forgotten' = Forgotten
<1>1. R!LostPerCrash \in Nat /\ R!LostPerCrash = FailureLimit + FailureLimit
  BY DEF R!LostPerCrash
<1>2. Forgotten \in Nat
  BY <1>1 DEF Forgotten
<1>3. \A x, a \in Nat : x * (a + 1) = x * a + x
  OBVIOUS
<1>4. crashes' = crashes + 1 => Forgotten' = Forgotten + R!LostPerCrash
  <2> SUFFICES ASSUME crashes' = crashes + 1 PROVE Forgotten' = Forgotten + R!LostPerCrash
    OBVIOUS
  <2>1. Forgotten' = R!LostPerCrash * (crashes + 1)
    BY DEF Forgotten
  <2> QED BY <1>1, <1>3, <2>1 DEF Forgotten
<1> QED BY <1>1, <1>2, <1>4 DEF Forgotten

Exps == [file : R!Files, run : Nat, ok : BOOLEAN, variant : Nat]
SessionType ==
    /\ pc \in {"off", "top", "ask", "answered", "ran", "judge", "close"}
    /\ DOMAIN s = Fields /\ s.calls \in Nat /\ s.spend \in Nat /\ s.minutes \in Nat
    /\ DOMAIN disk = Fields /\ disk.calls \in Nat /\ disk.spend \in Nat /\ disk.minutes \in Nat
    /\ disk.exps \in Seq(Exps) /\ (pc # "off" => s.exps = disk.exps)
    /\ ledger \in [calls : Nat, spend : Nat, linked : Nat]
    /\ failures \in 0..FailureLimit /\ minutes \in Nat
    /\ ws \in [R!Files -> {R!NoFile, "plain", "llm"}] /\ crashes \in 0..MaxCrashes
    /\ runs \in Seq(R!Files)
    /\ pc = "answered" /\ call.input # Nothing /\ call.input.action = "backtest" =>
           call.input.strategy \in R!Files \cup {R!NoFile}
    /\ pc = "ran" => \E e \in Exps : made = <<e>>
    /\ pc # "ran" => made = <<>>
    /\ disk.saved \/ disk = R!Fresh

(* The limits are checked before each call, and between two saves there are   *)
(* only so many: the failures in a row, the finish that was sent back, the    *)
(* failures in a row after it, and the one in hand.                           *)
SentBack == IF s.challenged /\ ~disk.challenged THEN FailureLimit ELSE 0
CallsKept ==
    /\ disk.calls <= MaxCalls
    /\ pc = "off" => ledger.calls <= disk.calls + Forgotten
    /\ pc # "off" =>
        /\ disk.calls <= s.calls /\ s.calls <= MaxCalls
        /\ ledger.calls <= s.calls + Forgotten
    /\ pc \in {"top", "ask", "answered"} => failures < FailureLimit
    /\ pc \in {"top", "ask"} => s.calls <= disk.calls + SentBack + failures
    /\ pc = "answered" => s.calls <= disk.calls + SentBack + failures + 1
    /\ pc \in {"ran", "judge"} => failures = 0
    /\ pc \in {"ran", "judge", "close"} => s.calls <= disk.calls + SentBack + FailureLimit
    /\ pc = "ask" => s.calls < MaxCalls
RefusalKept == pc # "off" => (disk.challenged => s.challenged)
RoomKept ==
    room => /\ pc = "ask" => s.calls + 3 <= MaxCalls
            /\ pc \in {"answered", "judge"} => s.calls + 2 <= MaxCalls

(* No more was spent since a save than the calls since then can cost.         *)
SpendKept ==
    /\ disk.spend < Budget + R!MaxPrice
    /\ pc = "off" => ledger.spend <= disk.spend + Worth(Forgotten)
    /\ pc # "off" =>
        /\ disk.spend <= s.spend /\ s.spend < Budget + R!MaxPrice
        /\ ledger.spend <= s.spend + Worth(Forgotten)
        /\ s.spend + Worth(disk.calls) <= disk.spend + Worth(s.calls)
    /\ pc = "ask" => s.spend < Budget

(* The one run that is not yet an experiment is the one being recorded.       *)
LooksKept ==
    /\ pc # "ran" => Len(runs) <= Seen(disk.exps) + crashes
    /\ pc = "ran" => \A e : made = <<e>> =>
           Len(runs) <= Seen(disk.exps) + (IF e.ok THEN 1 ELSE 0) + crashes

SessionInv == SessionType /\ CallsKept /\ RefusalKept /\ RoomKept /\ SpendKept /\ LooksKept

LEMMA SessionInit == Init => SessionInv
<1> SUFFICES ASSUME R!Init, R!PricesAssumption, R!LimitsAssumption PROVE SessionInv
  BY SearchAssumption DEF Init, SearchAssumption
<1>1. /\ pc = "off" /\ s = R!Fresh /\ disk = R!Fresh /\ failures = 0 /\ minutes = 0 /\ room = FALSE
      /\ made = <<>> /\ ws = [f \in R!Files |-> R!NoFile] /\ crashes = 0 /\ runs = <<>>
      /\ ledger = [calls |-> 0, spend |-> 0, linked |-> 0]
  BY DEF R!Init
<1>2. /\ DOMAIN R!Fresh = Fields /\ R!Fresh.calls = 0 /\ R!Fresh.spend = 0 /\ R!Fresh.minutes = 0
      /\ R!Fresh.exps = <<>>
  BY DEF R!Fresh, Fields
<1>3. MaxCalls \in Nat /\ Budget \in Nat \ {0} /\ FailureLimit \in Nat \ {0} /\ MaxCrashes \in Nat
  BY DEF R!LimitsAssumption
<1>4. SessionType
  BY <1>1, <1>2, <1>3 DEF SessionType
<1>5. Forgotten = 0 /\ Worth(0) \in Nat /\ R!MaxPrice \in Nat
  BY <1>1, <1>3, DearestPrice, WorthIsNat DEF Forgotten, R!LostPerCrash
<1>6. CallsKept /\ RefusalKept /\ RoomKept
  BY <1>1, <1>2, <1>3, <1>5 DEF CallsKept, RefusalKept, RoomKept
<1>7. SpendKept
  BY <1>1, <1>2, <1>3, <1>5 DEF SpendKept
<1>8. <<>> \in Seq(Exps) /\ Len(runs) = 0
  BY <1>1
<1>9. Seen(<<>>) \in Nat
  BY <1>8, SeenIsNat
<1>10. LooksKept
  BY <1>1, <1>2, <1>8, <1>9 DEF LooksKept
<1> QED BY <1>4, <1>6, <1>7, <1>10 DEF SessionInv

LEMMA RoomIsFlag == room \in BOOLEAN /\ [R!Next]_R!vars => room' \in BOOLEAN
<1> SUFFICES ASSUME room \in BOOLEAN, [R!Next]_R!vars PROVE room' \in BOOLEAN
  OBVIOUS
<1>1. CASE R!Sitting
  <2>1. R!HasRoom \in BOOLEAN
    BY Zenon DEF R!HasRoom
  <2>2. R!Sitting => room' \in {room, R!HasRoom, FALSE}
    BY Zenon DEF R!Sitting, R!Top, R!Ask, R!LimitReached, R!Fail, R!Note, R!Write, R!Backtest,
                 R!Record, R!Finish, R!Refuse, R!Accept, R!Close, R!Over
  <2> QED BY <1>1, <2>1, <2>2, Zenon
<1>2. CASE R!Start \/ R!Stop \/ R!Crash \/ UNCHANGED R!vars
  BY <1>2, Zenon DEF R!Start, R!Stop, R!Crash, R!Over, R!vars
<1> QED BY <1>1, <1>2 DEF R!Next

LEMMA CallBringsR ==
    ASSUME NEW b, NEW payloads, NEW c \in R!Calls(b, payloads)
    PROVE  c.input \in payloads \cup {Nothing} /\ c.cost \in Prices \cup {0}
BY DEF R!Calls, R!ToolCall, R!PayloadRead

LEMMA NamedStrategy ==
    \A p \in R!Payloads : p.action = "backtest" => p.strategy \in R!Files \cup {R!NoFile}
BY DEF R!Payloads, R!Act

LEMMA SessionStep ==
    SessionInv /\ [R!Next]_R!vars => SessionInv'
<1> SUFFICES ASSUME SessionInv, [R!Next]_R!vars PROVE SessionInv'
  OBVIOUS
<1>0. R!PricesAssumption /\ R!LimitsAssumption
  BY SearchAssumption DEF SearchAssumption
<1>1. SessionType /\ CallsKept /\ RefusalKept /\ RoomKept /\ SpendKept /\ LooksKept
  BY DEF SessionInv
<1>2. MaxCalls \in Nat /\ Budget \in Nat \ {0} /\ FailureLimit \in Nat \ {0} /\ MaxCrashes \in Nat
  BY <1>0 DEF R!LimitsAssumption
<1>3. crashes \in Nat /\ Forgotten \in Nat
      /\ R!LostPerCrash = FailureLimit + FailureLimit /\ R!LostPerCrash \in Nat
  BY <1>1, <1>2, ForgottenMore DEF SessionType
<1>4. R!MaxPrice \in Nat /\ Worth(Forgotten) \in Nat /\ Worth(s.calls) \in Nat /\ Worth(disk.calls) \in Nat
  BY <1>0, <1>1, <1>3, DearestPrice, WorthIsNat DEF SessionType
<1>5. crashes' = crashes => Forgotten' = Forgotten
  BY <1>2, <1>3, ForgottenMore
<1>6. Seen(disk.exps) \in Nat
  BY <1>1, SeenIsNat DEF SessionType
<1>7. DOMAIN s = Fields /\ DOMAIN disk = Fields
  BY <1>1 DEF SessionType
<1>n. /\ s.calls \in Nat /\ s.spend \in Nat /\ disk.calls \in Nat /\ disk.spend \in Nat
      /\ ledger.calls \in Nat /\ ledger.spend \in Nat /\ failures \in 0..FailureLimit
      /\ SentBack \in {0, FailureLimit}
  BY <1>1 DEF SessionType, SentBack
<1>8. CASE R!Start
  <2>1. /\ pc = "off" /\ pc' = "top" /\ failures' = 0 /\ minutes' = 0 /\ s' = R!Opened
        /\ UNCHANGED <<disk, made, ws, ledger, runs, crashes, room>>
    BY <1>8 DEF R!Start
  <2>2. Same(disk, s') /\ s'.minutes \in Nat
    <3>1. CASE disk.saved
      <4>1. s' = [disk EXCEPT !.status = "running", !.because = ""]
        BY <2>1, <3>1 DEF R!Opened, R!Loaded
      <4>2. Same(disk, [disk EXCEPT !.status = "running", !.because = ""])
            /\ [disk EXCEPT !.status = "running", !.because = ""].minutes = disk.minutes
        BY <1>7 DEF Same, Fields
      <4>3. disk.minutes \in Nat
        BY <1>1 DEF SessionType
      <4> QED BY <4>1, <4>2, <4>3
    <3>2. CASE ~disk.saved
      <4>1. disk = R!Fresh /\ s' = R!Fresh
        BY <1>1, <2>1, <3>2 DEF R!Opened, SessionType
      <4>2. disk.minutes \in Nat
        BY <1>1 DEF SessionType
      <4>3. Same(disk, disk) /\ s' = disk
        BY <1>7, <4>1, SameSelf
      <4> QED BY <4>2, <4>3
    <3> QED BY <3>1, <3>2
  <2>3. SessionType'
    BY <1>1, <1>2, <2>1, <2>2 DEF SessionType, Same
  <2>s. RefusalKept' /\ SentBack' = 0
    BY <2>1, <2>2 DEF RefusalKept, Same, SentBack
  <2>4. CallsKept' /\ RoomKept'
    BY <1>1, <1>2, <1>3, <1>5, <1>n, <2>1, <2>2, <2>s DEF CallsKept, RoomKept, Same
  <2>5. SpendKept'
    BY <1>1, <1>2, <1>3, <1>4, <1>5, <1>n, <2>1, <2>2 DEF SpendKept, Same
  <2>6. LooksKept'
    BY <1>1, <2>1 DEF LooksKept
  <2> QED BY <2>s, <2>3, <2>4, <2>5, <2>6 DEF SessionInv
<1>9. CASE R!Top
  <2>1. /\ pc = "top" /\ UNCHANGED <<disk, failures, minutes, made, ws, ledger, runs, crashes>>
    BY <1>9 DEF R!Top
  <2>2. Same(s, s') /\ s'.minutes = s.minutes
    <3>1. s' = s \/ s' = [s EXCEPT !.because = R!StopReason]
      BY <1>9 DEF R!Top
    <3>2. Same(s, s) /\ Same(s, [s EXCEPT !.because = R!StopReason])
          /\ [s EXCEPT !.because = R!StopReason].minutes = s.minutes
      BY <1>7, CountsKept, SameSelf
    <3> QED BY <3>1, <3>2
  <2>3. pc' = "close" \/ (pc' = "ask" /\ R!StopReason = "")
    BY <1>9 DEF R!Top
  <2>4. pc' = "ask" => s.spend < Budget /\ s.calls < MaxCalls
    <3>1. R!StopReason = "" => s.spend < Budget /\ s.calls < MaxCalls
      BY <1>2, <1>n DEF R!StopReason
    <3> QED BY <2>3, <3>1
  <2>5. room' => s.calls + 3 <= MaxCalls
    <3>1. room' => R!HasRoom
      BY <1>9 DEF R!Top
    <3>2. R!HasRoom => MaxCalls - s.calls > 2
      BY DEF R!HasRoom
    <3> QED BY <1>2, <1>n, <3>1, <3>2, Z3
  <2>6. SessionType'
    BY <1>1, <1>2, <2>1, <2>2, <2>3 DEF SessionType, Same
  <2>s. RefusalKept' /\ SentBack' = SentBack
    BY <1>1, <2>1, <2>2 DEF RefusalKept, SentBack, Same
  <2>c. /\ s'.calls = s.calls /\ pc = "top" /\ pc' \in {"ask", "close"} /\ disk' = disk
        /\ ledger' = ledger /\ failures' = failures /\ Forgotten' = Forgotten
    BY <1>5, <2>1, <2>2, <2>3 DEF Same
  <2>7. CallsKept'
    BY <1>1, <1>2, <1>3, <1>n, <2>4, <2>c, <2>s DEF CallsKept
  <2>7r. RoomKept'
    BY <2>2, <2>3, <2>5 DEF RoomKept, Same
  <2>8. SpendKept'
    BY <1>1, <1>2, <1>3, <1>4, <1>5, <1>n, <2>1, <2>2, <2>3, <2>4 DEF SpendKept, Same
  <2>9. LooksKept'
    BY <1>1, <2>1, <2>3 DEF LooksKept
  <2> QED BY <2>s, <2>6, <2>7, <2>7r, <2>8, <2>9 DEF SessionInv
<1>10. CASE R!Ask
  <2>1. PICK c \in R!Calls(client, R!Payloads), dt \in 0..1 :
          /\ call' = [ok |-> c.ok, limit |-> c.limit, input |-> c.input] /\ minutes' = minutes + dt
          /\ ledger' = R!Recorded(c)
          /\ s' = [s EXCEPT !.calls = s.calls + R!Counted(c), !.spend = s.spend + R!Charged(c)]
    BY <1>10, Zenon DEF R!Ask
  <2>2. /\ pc = "ask" /\ pc' = "answered"
        /\ UNCHANGED <<disk, failures, room, made, ws, runs, crashes>>
    BY <1>10 DEF R!Ask
  <2>3. c.input \in R!Payloads \cup {Nothing} /\ c.cost \in Prices \cup {0}
    BY CallBringsR
  <2>4. c.cost \in Nat /\ c.cost <= R!MaxPrice
    BY <1>0, <2>3, DearestPrice
  <2>5. /\ DOMAIN s' = Fields /\ s'.calls = s.calls + 1 /\ s'.spend = s.spend + c.cost
        /\ s'.exps = s.exps /\ s'.minutes = s.minutes /\ (s'.challenged <=> s.challenged)
    BY <1>7, <2>1, CallCounted DEF R!Counted, R!Charged
  <2>6. ledger' = [calls |-> ledger.calls + 1, spend |-> ledger.spend + c.cost, linked |-> ledger.linked]
        /\ ledger.linked \in Nat
    BY <1>1, <2>1 DEF R!Recorded, SessionType
  <2>7. call'.input = c.input
    BY <2>1
  <2>8. call'.input # Nothing /\ call'.input.action = "backtest" =>
            call'.input.strategy \in R!Files \cup {R!NoFile}
    BY <2>3, <2>7, NamedStrategy
  <2>9. SessionType'
    <3>1. ledger' \in [calls : Nat, spend : Nat, linked : Nat]
      BY <1>n, <2>4, <2>6
    <3>2. minutes' \in Nat
      BY <1>1, <2>1 DEF SessionType
    <3>3. s'.calls \in Nat /\ s'.spend \in Nat
      BY <1>n, <2>4, <2>5
    <3>4. s'.minutes \in Nat /\ s'.exps = disk'.exps
      BY <1>1, <2>2, <2>5 DEF SessionType
    <3> QED BY <1>1, <2>2, <2>5, <2>8, <3>1, <3>2, <3>3, <3>4 DEF SessionType
  <2>c. /\ s'.calls = s.calls + 1 /\ disk' = disk /\ failures' = failures /\ Forgotten' = Forgotten
        /\ ledger'.calls = ledger.calls + 1 /\ ledger'.spend = ledger.spend + c.cost
    BY <1>5, <2>2, <2>5, <2>6
  <2>s. RefusalKept' /\ SentBack' = SentBack
    BY <1>1, <2>2, <2>5 DEF RefusalKept, SentBack
  <2>10. CallsKept'
    BY <1>1, <1>2, <1>3, <1>n, <2>2, <2>c, <2>s DEF CallsKept
  <2>11. RoomKept'
    BY <1>1, <1>2, <1>n, <2>2, <2>c DEF RoomKept
  <2>12. SpendKept'
    <3>1. Worth(s.calls + 1) = Worth(s.calls) + R!MaxPrice
      BY <1>0, <1>n, WorthAdds, WorthOfOne
    <3> QED BY <1>1, <1>2, <1>4, <1>n, <2>2, <2>4, <2>5, <2>c, <3>1 DEF SpendKept
  <2>13. LooksKept'
    BY <1>1, <2>2 DEF LooksKept
  <2> QED BY <2>s, <2>9, <2>10, <2>11, <2>12, <2>13 DEF SessionInv
<1>11. CASE R!LimitReached \/ R!Fail
  <2>1. /\ pc = "answered" /\ pc' \in {"top", "close"}
        /\ UNCHANGED <<disk, minutes, room, made, ws, ledger, runs, crashes>>
    BY <1>11 DEF R!LimitReached, R!Fail
  <2>2. failures < FailureLimit
    BY <1>1, <2>1 DEF CallsKept
  <2>3. failures' \in {failures, failures + 1} /\ (pc' = "top" => failures' < FailureLimit /\ failures' = failures + 1)
    BY <1>2, <1>11, <1>n DEF R!LimitReached, R!Fail, R!Enough
  <2>4. Same(s, s') /\ s'.minutes = s.minutes
    <3>1. s' = s \/ s' = [s EXCEPT !.because = "rate_limit"]
          \/ s' = [s EXCEPT !.because = IF call.ok THEN "invalid_actions" ELSE "model_errors"]
      BY <1>11 DEF R!LimitReached, R!Fail
    <3>2. Same(s, s) /\ \A x : Same(s, [s EXCEPT !.because = x])
          /\ [s EXCEPT !.because = x].minutes = s.minutes
      BY <1>7, CountsKept, SameSelf
    <3> QED BY <3>1, <3>2
  <2>5. SessionType'
    BY <1>1, <1>2, <1>n, <2>1, <2>2, <2>3, <2>4 DEF SessionType, Same
  <2>c. /\ s'.calls = s.calls /\ s'.spend = s.spend /\ disk' = disk /\ Forgotten' = Forgotten /\ ledger' = ledger
    BY <1>5, <2>1, <2>4 DEF Same
  <2>s. RefusalKept' /\ SentBack' = SentBack
    BY <1>1, <2>1, <2>4 DEF RefusalKept, SentBack, Same
  <2>6. CallsKept'
    BY <1>1, <1>2, <1>3, <1>n, <2>1, <2>2, <2>3, <2>c, <2>s DEF CallsKept
  <2>7. RoomKept'
    BY <2>1 DEF RoomKept
  <2>8. SpendKept'
    BY <1>1, <1>2, <1>4, <1>n, <2>1, <2>c DEF SpendKept
  <2>9. LooksKept'
    BY <1>1, <2>1 DEF LooksKept
  <2> QED BY <2>s, <2>5, <2>6, <2>7, <2>8, <2>9 DEF SessionInv
<1>12. CASE R!Note \/ R!Write
  <2>1. /\ pc = "answered" /\ pc' = "top" /\ failures' = 0 /\ disk' = R!Saved(s)
        /\ UNCHANGED <<s, minutes, room, made, ledger, runs, crashes>>
    BY <1>12 DEF R!Note, R!Write, R!Handles, R!SaveTurn
  <2>2. ws' \in [R!Files -> {R!NoFile, "plain", "llm"}]
    <3>1. ws \in [R!Files -> {R!NoFile, "plain", "llm"}]
      BY <1>1 DEF SessionType
    <3>2. ws' = ws \/ \E x : \E kind \in Writes : ws' = [ws EXCEPT ![x] = kind]
      BY <1>12 DEF R!Note, R!Write
    <3> QED BY <1>0, <3>1, <3>2 DEF R!LimitsAssumption
  <2>3. Same(s, disk') /\ disk'.minutes = s.minutes /\ disk'.saved = TRUE
    BY <1>7, <2>1, SavedKept
  <2>4. SessionType'
    BY <1>1, <1>2, <2>1, <2>2, <2>3 DEF SessionType, Same
  <2>c. /\ s'.calls = s.calls /\ s'.spend = s.spend /\ disk'.calls = s.calls /\ disk'.spend = s.spend
        /\ disk'.exps = disk.exps /\ Forgotten' = Forgotten /\ ledger' = ledger
    BY <1>1, <1>5, <2>1, <2>3 DEF Same, SessionType
  <2>s. RefusalKept' /\ SentBack' = 0
    BY <2>1, <2>3 DEF RefusalKept, SentBack, Same
  <2>5. CallsKept'
    BY <1>1, <1>2, <1>3, <1>n, <2>1, <2>c, <2>s DEF CallsKept
  <2>6. RoomKept'
    BY <2>1 DEF RoomKept
  <2>7. SpendKept'
    BY <1>1, <1>2, <1>4, <1>n, <2>1, <2>c DEF SpendKept
  <2>8. LooksKept'
    BY <1>1, <2>1, <2>c DEF LooksKept
  <2> QED BY <2>s, <2>4, <2>5, <2>6, <2>7, <2>8 DEF SessionInv
<1>13. CASE R!Backtest
  <2>1. /\ pc = "answered" /\ pc' = "ran" /\ failures' = 0
        /\ R!Valid(call.input) /\ call.input.action = "backtest"
        /\ UNCHANGED <<s, disk, minutes, room, ws, ledger, crashes>>
    BY <1>13 DEF R!Backtest, R!Handles
  <2> DEFINE f == call.input.strategy
             e1 == R!Experiment(f, Len(runs) + 1, TRUE)
             e0 == R!Experiment(f, R!NoRun, FALSE)
  <2>2. f \in R!Files
    BY <1>1, <2>1 DEF R!Valid, SessionType
  <2>3. \/ runs' = Append(runs, f) /\ made' = <<e1>>
        \/ runs' = runs /\ made' = <<e0>>
    BY <1>13 DEF R!Backtest
  <2>4. e1 \in Exps /\ e0 \in Exps /\ e1.ok = TRUE /\ e0.ok = FALSE
    <3>1. s.exps \in Seq(Exps)
      BY <1>1, <2>1 DEF SessionType
    <3>2. {i \in DOMAIN s.exps : s.exps[i].file = f} \in SUBSET (1..Len(s.exps)) /\ Len(s.exps) \in Nat
      BY <3>1
    <3>3. IsFiniteSet(1..Len(s.exps))
      BY <3>2, FS_Interval
    <3>4. R!Cardinality({i \in DOMAIN s.exps : s.exps[i].file = f}) \in Nat
      BY <3>2, <3>3, FS_Subset, FS_CardinalityType, CardinalityR
    <3>5. Len(runs) \in Nat
      BY <1>1 DEF SessionType
    <3> QED BY <2>2, <3>4, <3>5 DEF R!Experiment, Exps, R!NoRun
  <2> HIDE DEF f, e1, e0
  <2>5. runs \in Seq(R!Files) /\ runs' \in Seq(R!Files) /\ Len(runs) \in Nat
        /\ Len(Append(runs, f)) = Len(runs) + 1
    <3>1. runs \in Seq(R!Files)
      BY <1>1 DEF SessionType
    <3>2. Append(runs, f) \in Seq(R!Files) /\ Len(Append(runs, f)) = Len(runs) + 1 /\ Len(runs) \in Nat
      BY <2>2, <3>1
    <3> QED BY <2>3, <3>1, <3>2
  <2>6. \E e \in Exps : made' = <<e>>
    BY <2>3, <2>4
  <2>7. SessionType'
    BY <1>1, <1>2, <2>1, <2>5, <2>6 DEF SessionType
  <2>c. s' = s /\ disk' = disk /\ Forgotten' = Forgotten /\ ledger' = ledger /\ failures' = 0
    BY <1>5, <2>1
  <2>s. RefusalKept' /\ SentBack' = SentBack
    BY <1>1, <2>1 DEF RefusalKept, SentBack
  <2>8. CallsKept'
    BY <1>1, <1>2, <1>3, <1>n, <2>1, <2>c, <2>s DEF CallsKept
  <2>9. RoomKept'
    BY <2>1 DEF RoomKept
  <2>10. SpendKept'
    BY <1>1, <1>2, <1>4, <1>n, <2>1, <2>c DEF SpendKept
  <2>11. LooksKept'
    <3>1. Len(runs) <= Seen(disk.exps) + crashes
      BY <1>1, <2>1 DEF LooksKept
    <3>2. \A e : made' = <<e>> => Len(runs') <= Seen(disk.exps) + (IF e.ok THEN 1 ELSE 0) + crashes
      <4> SUFFICES ASSUME NEW e, made' = <<e>>
                   PROVE  Len(runs') <= Seen(disk.exps) + (IF e.ok THEN 1 ELSE 0) + crashes
        OBVIOUS
      <4>1. CASE runs' = Append(runs, f) /\ made' = <<e1>>
        <5>1. e = e1
          BY <4>1
        <5>2. (IF e.ok THEN 1 ELSE 0) = 1
          BY <2>4, <5>1
        <5> QED BY <1>3, <1>6, <2>5, <3>1, <4>1, <5>2
      <4>2. CASE runs' = runs /\ made' = <<e0>>
        <5>1. e = e0
          BY <4>2
        <5>2. (IF e.ok THEN 1 ELSE 0) = 0
          BY <2>4, <5>1
        <5> QED BY <1>3, <1>6, <2>5, <3>1, <4>2, <5>2
      <4> QED BY <2>3, <4>1, <4>2
    <3> QED BY <2>1, <3>2 DEF LooksKept
  <2> QED BY <2>s, <2>7, <2>8, <2>9, <2>10, <2>11 DEF SessionInv
<1>14. CASE R!Record
  <2>1. /\ pc = "ran" /\ pc' = "top" /\ made' = <<>> /\ disk' = R!Saved(s') /\ ledger' = R!Linked
        /\ s' = [s EXCEPT !.exps = s.exps \o made]
        /\ UNCHANGED <<failures, minutes, room, ws, runs, crashes>>
    BY <1>14 DEF R!Record, R!SaveTurn
  <2>2. PICK e \in Exps : made = <<e>>
    BY <1>1, <2>1 DEF SessionType
  <2>3. /\ DOMAIN s' = Fields /\ s'.calls = s.calls /\ s'.spend = s.spend /\ s'.exps = s.exps \o made
        /\ s'.minutes = s.minutes /\ (s'.challenged <=> s.challenged)
    BY <1>7, <2>1, ExpsKept
  <2>4. Same(s', disk') /\ disk'.minutes = s'.minutes /\ disk'.saved = TRUE
    BY <2>1, <2>3, SavedKept
  <2>5. s.exps = disk.exps /\ disk.exps \in Seq(Exps)
    BY <1>1, <2>1 DEF SessionType
  <2>6. /\ disk'.exps \in Seq(Exps) /\ disk'.exps = disk.exps \o <<e>>
        /\ Seen(disk'.exps) \in Nat /\ Seen(disk.exps) <= Seen(disk'.exps)
        /\ e.ok => Seen(disk'.exps) = Seen(disk.exps) + 1
    <3>1. disk'.exps = disk.exps \o <<e>>
      BY <2>2, <2>3, <2>4, <2>5 DEF Same
    <3> QED BY <2>5, <3>1, SeenGrows
  <2>7. ledger' = [calls |-> ledger.calls, spend |-> ledger.spend, linked |-> ledger'.linked]
        /\ ledger'.linked \in Nat
    <3>1. {i \in DOMAIN made : made[i].ok} \in SUBSET {1}
      BY <2>2
    <3>2. R!Cardinality({i \in DOMAIN made : made[i].ok}) \in Nat
      BY <3>1, FS_Singleton, FS_Subset, FS_CardinalityType, CardinalityR
    <3>3. ledger \in [calls : Nat, spend : Nat, linked : Nat]
      BY <1>1 DEF SessionType
    <3> QED BY <2>1, <3>2, <3>3 DEF R!Linked
  <2>c. /\ s'.calls = s.calls /\ s'.spend = s.spend /\ disk'.calls = s.calls /\ disk'.spend = s.spend
        /\ Forgotten' = Forgotten /\ ledger'.calls = ledger.calls /\ ledger'.spend = ledger.spend
        /\ failures' = failures
    BY <1>5, <2>1, <2>3, <2>4, <2>7, SMTT(20) DEF Same
  <2>8. SessionType'
    <3>1. ledger' \in [calls : Nat, spend : Nat, linked : Nat]
      BY <1>n, <2>7
    <3>2. s'.exps = disk'.exps /\ DOMAIN disk' = Fields
      BY <2>4 DEF Same
    <3>3. s'.minutes \in Nat /\ disk'.minutes \in Nat
      BY <1>1, <2>3, <2>4 DEF SessionType
    <3> QED BY <1>1, <1>n, <2>1, <2>3, <2>4, <2>6, <2>c, <3>1, <3>2, <3>3 DEF SessionType
  <2>s. RefusalKept' /\ SentBack' = 0
    BY <2>4 DEF RefusalKept, SentBack, Same
  <2>9. CallsKept'
    BY <1>1, <1>2, <1>3, <1>n, <2>1, <2>c, <2>s DEF CallsKept
  <2>10. RoomKept'
    BY <2>1 DEF RoomKept
  <2>11. SpendKept'
    <3>1. /\ ledger.spend <= s.spend + Worth(Forgotten) /\ s.spend < Budget + R!MaxPrice
      BY <1>1, <2>1 DEF SpendKept
    <3>2. Worth(disk'.calls) = Worth(s.calls) /\ Worth(s'.calls) = Worth(s.calls)
          /\ Worth(Forgotten') = Worth(Forgotten)
      BY <2>c
    <3> QED BY <1>4, <1>n, <2>1, <2>c, <3>1, <3>2 DEF SpendKept
  <2>12. LooksKept'
    <3>1. Len(runs) <= Seen(disk.exps) + (IF e.ok THEN 1 ELSE 0) + crashes /\ Len(runs) \in Nat
      BY <1>1, <2>1, <2>2 DEF LooksKept, SessionType
    <3>2. Len(runs) <= Seen(disk'.exps) + crashes
      <4>1. CASE e.ok
        BY <1>3, <1>6, <2>6, <3>1, <4>1
      <4>2. CASE ~e.ok
        BY <1>3, <1>6, <2>6, <3>1, <4>2
      <4> QED BY <4>1, <4>2
    <3> QED BY <2>1, <3>2 DEF LooksKept
  <2> QED BY <2>s, <2>8, <2>9, <2>10, <2>11, <2>12 DEF SessionInv
<1>15. CASE R!Finish
  <2>1. /\ pc = "answered" /\ pc' = "judge" /\ failures' = 0
        /\ UNCHANGED <<minutes, room, made, ws, ledger, runs, crashes>>
    BY <1>15 DEF R!Finish, R!Handles
  <2>2. \/ s' = s /\ disk' = disk
        \/ disk' = R!Saved(s') /\ \E x : s' = [s EXCEPT !.neighbours = x]
    BY <1>15 DEF R!Finish
  <2>3. Same(s, s') /\ s'.minutes = s.minutes
    <3>1. Same(s, s) /\ \A x : Same(s, [s EXCEPT !.neighbours = x])
                              /\ [s EXCEPT !.neighbours = x].minutes = s.minutes
      BY <1>7, CountsKept, SameSelf
    <3> QED BY <2>2, <3>1
  <2>4. disk' = disk \/ (Same(s', disk') /\ disk'.minutes = s.minutes /\ disk'.saved = TRUE)
    <3>1. DOMAIN s' = Fields
      BY <2>3 DEF Same
    <3> QED BY <2>2, <2>3, <3>1, SavedKept
  <2>5. s.exps = disk.exps /\ s'.exps = disk.exps /\ disk'.exps = disk.exps
    BY <1>1, <2>1, <2>3, <2>4 DEF SessionType, Same
  <2>6. SessionType'
    <3>1. DOMAIN s' = Fields /\ DOMAIN disk' = Fields /\ (disk'.saved \/ disk' = R!Fresh)
      BY <1>1, <1>7, <2>3, <2>4 DEF SessionType, Same
    <3>2. s'.calls \in Nat /\ s'.spend \in Nat /\ disk'.calls \in Nat /\ disk'.spend \in Nat
      BY <1>n, <2>3, <2>4 DEF Same
    <3>3. s'.minutes \in Nat /\ disk'.minutes \in Nat
      BY <1>1, <2>3, <2>4 DEF SessionType
    <3> QED BY <1>1, <1>2, <2>1, <2>5, <3>1, <3>2, <3>3 DEF SessionType
  <2>c. /\ s'.calls = s.calls /\ s'.spend = s.spend /\ Forgotten' = Forgotten /\ ledger' = ledger
    BY <1>5, <2>1, <2>3 DEF Same
  <2>7. failures < FailureLimit
    BY <1>1, <2>1 DEF CallsKept
  <2>8. CASE disk' = disk
    <3>s. RefusalKept' /\ SentBack' = SentBack
      BY <1>1, <2>1, <2>3, <2>8 DEF RefusalKept, SentBack, Same
    <3>1. CallsKept'
      BY <1>1, <1>2, <1>3, <1>n, <2>1, <2>7, <2>8, <2>c, <3>s DEF CallsKept
    <3>2. SpendKept'
      BY <1>1, <1>2, <1>4, <1>n, <2>1, <2>8, <2>c DEF SpendKept
    <3>3. RoomKept'
      BY <1>1, <2>1, <2>c DEF RoomKept
    <3>4. LooksKept'
      BY <1>1, <2>1, <2>5 DEF LooksKept
    <3> QED BY <2>6, <3>s, <3>1, <3>2, <3>3, <3>4 DEF SessionInv
  <2>9. CASE Same(s', disk')
    <3>c. disk'.calls = s.calls /\ disk'.spend = s.spend
      BY <2>9, <2>c DEF Same
    <3>s. RefusalKept' /\ SentBack' = 0
      BY <2>9 DEF RefusalKept, SentBack, Same
    <3>1. CallsKept'
      BY <1>1, <1>2, <1>3, <1>n, <2>1, <2>c, <3>c, <3>s DEF CallsKept
    <3>2. SpendKept'
      <4>1. /\ ledger.spend <= s.spend + Worth(Forgotten) /\ s.spend < Budget + R!MaxPrice
        BY <1>1, <2>1 DEF SpendKept
      <4>2. Worth(disk'.calls) = Worth(s.calls) /\ Worth(s'.calls) = Worth(s.calls)
            /\ Worth(Forgotten') = Worth(Forgotten)
        BY <2>c, <3>c
      <4> QED BY <1>4, <1>n, <2>1, <2>c, <3>c, <4>1, <4>2 DEF SpendKept
    <3>3. RoomKept'
      BY <1>1, <2>1, <2>c DEF RoomKept
    <3>4. LooksKept'
      BY <1>1, <2>1, <2>5 DEF LooksKept
    <3> QED BY <2>6, <3>s, <3>1, <3>2, <3>3, <3>4 DEF SessionInv
  <2> QED BY <2>4, <2>8, <2>9
<1>16. CASE R!Refuse
  <2>1. /\ pc = "judge" /\ pc' = "top" /\ ~s.challenged /\ s' = [s EXCEPT !.challenged = TRUE]
        /\ UNCHANGED <<disk, failures, minutes, room, made, ws, ledger, runs, crashes>>
    BY <1>16 DEF R!Refuse
  <2>2. /\ DOMAIN s' = Fields /\ s'.calls = s.calls /\ s'.spend = s.spend /\ s'.exps = s.exps
        /\ s'.minutes = s.minutes /\ s'.challenged
    BY <1>7, <2>1, ChallengeKept
  <2>3. SessionType'
    BY <1>1, <1>2, <2>1, <2>2 DEF SessionType
  <2>s. RefusalKept' /\ SentBack = 0 /\ SentBack' = FailureLimit
    BY <1>1, <2>1, <2>2 DEF RefusalKept, SentBack
  <2>c. s'.calls = s.calls /\ s'.spend = s.spend /\ disk' = disk /\ Forgotten' = Forgotten /\ ledger' = ledger
        /\ failures' = failures
    BY <1>5, <2>1, <2>2
  <2>4. CallsKept'
    BY <1>1, <1>2, <1>3, <1>n, <2>1, <2>c, <2>s DEF CallsKept
  <2>5. RoomKept'
    BY <2>1 DEF RoomKept
  <2>6. SpendKept'
    BY <1>1, <1>2, <1>4, <1>n, <2>1, <2>c DEF SpendKept
  <2>7. LooksKept'
    BY <1>1, <2>1 DEF LooksKept
  <2> QED BY <2>s, <2>3, <2>4, <2>5, <2>6, <2>7 DEF SessionInv
<1>17. CASE R!Accept
  <2>1. /\ pc = "judge" /\ pc' = "close"
        /\ s' = [s EXCEPT !.pick = call.input.run, !.because = "satisfied"]
        /\ UNCHANGED <<disk, failures, minutes, room, made, ws, ledger, runs, crashes>>
    BY <1>17 DEF R!Accept
  <2>2. Same(s, s') /\ s'.minutes = s.minutes
    <3>1. Same(s, [s EXCEPT !.pick = call.input.run, !.because = "satisfied"])
          /\ [s EXCEPT !.pick = call.input.run, !.because = "satisfied"].minutes = s.minutes
      BY <1>7 DEF Same, Fields
    <3> QED BY <2>1, <3>1
  <2>3. SessionType'
    BY <1>1, <1>2, <2>1, <2>2 DEF SessionType, Same
  <2>s. RefusalKept' /\ SentBack' = SentBack
    BY <1>1, <2>1, <2>2 DEF RefusalKept, SentBack, Same
  <2>c. s'.calls = s.calls /\ s'.spend = s.spend /\ disk' = disk /\ Forgotten' = Forgotten /\ ledger' = ledger
        /\ failures' = failures
    BY <1>5, <2>1, <2>2 DEF Same
  <2>4. CallsKept'
    BY <1>1, <1>2, <1>3, <1>n, <2>1, <2>c, <2>s DEF CallsKept
  <2>5. RoomKept'
    BY <2>1 DEF RoomKept
  <2>6. SpendKept'
    BY <1>1, <1>2, <1>4, <1>n, <2>1, <2>c DEF SpendKept
  <2>7. LooksKept'
    BY <1>1, <2>1 DEF LooksKept
  <2> QED BY <2>s, <2>3, <2>4, <2>5, <2>6, <2>7 DEF SessionInv
<1>18. CASE R!Close
  <2> DEFINE ended == IF s.because = "satisfied" THEN "finished" ELSE "stopped"
  <2> HIDE DEF ended
  <2>1. /\ pc = "close" /\ pc' = "off" /\ failures' = 0 /\ minutes' = 0 /\ room' = FALSE
        /\ s' = [s EXCEPT !.minutes = R!Elapsed, !.status = ended] /\ disk' = R!Saved(s')
        /\ UNCHANGED <<made, ws, ledger, runs, crashes>>
    BY <1>18 DEF R!Close, R!Over, ended
  <2>2. Same(s, s') /\ s'.minutes = R!Elapsed
    <3>1. Same(s, [s EXCEPT !.minutes = R!Elapsed, !.status = ended])
          /\ [s EXCEPT !.minutes = R!Elapsed, !.status = ended].minutes = R!Elapsed
      BY <1>7 DEF Same, Fields
    <3> QED BY <2>1, <3>1
  <2>3. Same(s', disk') /\ disk'.minutes = R!Elapsed /\ disk'.saved = TRUE
    <3>1. DOMAIN s' = Fields
      BY <2>2 DEF Same
    <3> QED BY <2>1, <2>2, <3>1, SavedKept
  <2>4. R!Elapsed \in Nat
    BY <1>1 DEF R!Elapsed, SessionType
  <2>c. /\ s'.calls = s.calls /\ s'.spend = s.spend /\ disk'.calls = s.calls /\ disk'.spend = s.spend
        /\ s'.exps = s.exps /\ disk'.exps = s.exps /\ DOMAIN s' = Fields /\ DOMAIN disk' = Fields
        /\ Forgotten' = Forgotten
    BY <1>5, <2>1, <2>2, <2>3 DEF Same
  <2>5. SessionType'
    <3>1. /\ disk'.exps \in Seq(Exps) /\ made' = <<>> /\ crashes' \in 0..MaxCrashes
          /\ ledger' \in [calls : Nat, spend : Nat, linked : Nat] /\ runs' \in Seq(R!Files)
          /\ ws' \in [R!Files -> {R!NoFile, "plain", "llm"}]
      BY <1>1, <2>1, <2>c DEF SessionType
    <3>2. s'.calls \in Nat /\ s'.spend \in Nat /\ disk'.calls \in Nat /\ disk'.spend \in Nat
          /\ s'.minutes \in Nat /\ disk'.minutes \in Nat /\ failures' \in 0..FailureLimit /\ minutes' \in Nat
      BY <1>2, <1>n, <2>1, <2>2, <2>3, <2>4, <2>c
    <3> QED BY <2>1, <2>3, <2>c, <3>1, <3>2 DEF SessionType
  <2>6. CallsKept' /\ RefusalKept'
    BY <1>1, <1>2, <1>3, <1>n, <2>1, <2>c DEF CallsKept, RefusalKept
  <2>7. RoomKept'
    BY <2>1 DEF RoomKept
  <2>8. SpendKept'
    <3>1. Worth(Forgotten') = Worth(Forgotten)
      BY <2>c
    <3> QED BY <1>1, <1>2, <1>4, <1>n, <2>1, <2>c, <3>1 DEF SpendKept
  <2>9. LooksKept'
    <3>1. disk'.exps = disk.exps
      BY <1>1, <2>1, <2>c DEF SessionType
    <3> QED BY <1>1, <2>1, <3>1 DEF LooksKept
  <2> QED BY <2>5, <2>6, <2>7, <2>8, <2>9 DEF SessionInv
<1>19. CASE R!Crash
  <2>1. /\ pc # "off" /\ pc' = "off" /\ failures' = 0 /\ minutes' = 0 /\ room' = FALSE
        /\ crashes < MaxCrashes /\ crashes' = crashes + 1 /\ s' = R!Fresh /\ made' = <<>>
        /\ UNCHANGED <<disk, ws, ledger, runs>>
    BY <1>19 DEF R!Crash, R!Over
  <2>2. DOMAIN R!Fresh = Fields /\ R!Fresh.calls = 0 /\ R!Fresh.spend = 0 /\ R!Fresh.minutes = 0
    BY DEF R!Fresh, Fields
  <2>3. SessionType'
    BY <1>1, <1>2, <1>3, <2>1, <2>2 DEF SessionType
  <2>4. Forgotten' = Forgotten + R!LostPerCrash
    BY <1>2, <1>3, <2>1, ForgottenMore
  <2>5. s.calls <= disk.calls + R!LostPerCrash
    <3>1. pc \in {"top", "ask", "answered", "ran", "judge", "close"}
      BY <1>1, <2>1 DEF SessionType
    <3> QED BY <1>1, <1>2, <1>3, <1>n, <3>1 DEF CallsKept
  <2>6. ledger.calls <= s.calls + Forgotten /\ disk.calls <= MaxCalls
    BY <1>1, <2>1 DEF CallsKept
  <2>7. CallsKept' /\ RefusalKept'
    <3>1. ledger.calls <= disk.calls + Forgotten'
      BY <1>3, <1>n, <2>4, <2>5, <2>6
    <3> QED BY <2>1, <2>6, <3>1 DEF CallsKept, RefusalKept
  <2>8. SpendKept'
    <3> DEFINE x == disk.calls + R!LostPerCrash - s.calls
    <3>1. x \in Nat /\ s.calls + x = disk.calls + R!LostPerCrash
      BY <1>3, <1>n, <2>5
    <3> HIDE DEF x
    <3>2. Worth(s.calls + x) = Worth(s.calls) + Worth(x) /\ Worth(x) \in Nat
      BY <1>0, <1>n, <3>1, WorthAdds, WorthIsNat
    <3>3. Worth(disk.calls + R!LostPerCrash) = Worth(disk.calls) + Worth(R!LostPerCrash)
          /\ Worth(R!LostPerCrash) \in Nat
      BY <1>0, <1>3, <1>n, WorthAdds, WorthIsNat
    <3>4. Worth(s.calls) + Worth(x) = Worth(disk.calls) + Worth(R!LostPerCrash)
      BY <3>1, <3>2, <3>3
    <3>5. Worth(Forgotten + R!LostPerCrash) = Worth(Forgotten) + Worth(R!LostPerCrash)
      BY <1>0, <1>3, WorthAdds
    <3>6. Worth(Forgotten') = Worth(Forgotten) + Worth(R!LostPerCrash)
      BY <2>4, <3>5
    <3>7. /\ ledger.spend <= s.spend + Worth(Forgotten) /\ disk.spend < Budget + R!MaxPrice
          /\ s.spend + Worth(disk.calls) <= disk.spend + Worth(s.calls)
      BY <1>1, <2>1 DEF SpendKept
    <3>8. ledger.spend <= disk.spend + Worth(Forgotten')
      BY <1>4, <1>n, <3>2, <3>3, <3>4, <3>6, <3>7
    <3> QED BY <2>1, <3>7, <3>8 DEF SpendKept
  <2>9. LooksKept'
    <3>1. Len(runs) \in Nat
      BY <1>1 DEF SessionType
    <3>2. CASE pc = "ran"
      <4>1. PICK e \in Exps : made = <<e>>
        BY <1>1, <3>2 DEF SessionType
      <4>2. Len(runs) <= Seen(disk.exps) + (IF e.ok THEN 1 ELSE 0) + crashes
        BY <1>1, <3>2, <4>1 DEF LooksKept
      <4>3. (IF e.ok THEN 1 ELSE 0) \in 0..1
        OBVIOUS
      <4>4. Len(runs) <= Seen(disk.exps) + (crashes + 1)
        BY <1>3, <1>6, <3>1, <4>2, <4>3
      <4> QED BY <2>1, <4>4 DEF LooksKept
    <3>3. CASE pc # "ran"
      <4>1. Len(runs) <= Seen(disk.exps) + (crashes + 1)
        BY <1>1, <1>3, <1>6, <3>1, <3>3 DEF LooksKept
      <4> QED BY <2>1, <4>1 DEF LooksKept
    <3> QED BY <3>2, <3>3
  <2> QED BY <2>3, <2>7, <2>8, <2>9, <2>1 DEF SessionInv, RoomKept
<1>20. CASE R!Stop \/ UNCHANGED R!vars
  <2>1. UNCHANGED <<pc, s, disk, failures, minutes, room, call, made, ws, ledger, runs, crashes>>
    BY <1>20 DEF R!Stop, R!vars
  <2>2. SessionType'
    BY <1>1, <2>1 DEF SessionType
  <2>3. CallsKept' /\ RefusalKept' /\ RoomKept'
    BY <1>1, <2>1 DEF CallsKept, RefusalKept, RoomKept, SentBack, Forgotten
  <2>4. SpendKept' /\ LooksKept'
    BY <1>1, <2>1 DEF SpendKept, LooksKept, Forgotten
  <2> QED BY <2>2, <2>3, <2>4 DEF SessionInv
<1> QED BY <1>8, <1>9, <1>10, <1>11, <1>12, <1>13, <1>14, <1>15, <1>16, <1>17, <1>18, <1>19, <1>20
        DEF R!Next, R!Sitting

LEMMA SessionKeeps == SessionInv /\ room \in BOOLEAN => R!TypeOK /\ R!CallsBounded /\ R!SpendBounded /\ R!LooksCounted
<1> SUFFICES ASSUME SessionInv, room \in BOOLEAN
             PROVE  R!TypeOK /\ R!CallsBounded /\ R!SpendBounded /\ R!LooksCounted
  OBVIOUS
<1>0. R!PricesAssumption /\ R!LimitsAssumption /\ FailureLimit \in Nat \ {0} /\ Budget \in Nat \ {0} /\ MaxCalls \in Nat
  BY SearchAssumption DEF SearchAssumption, R!LimitsAssumption
<1>1. SessionType /\ CallsKept /\ SpendKept /\ LooksKept
  BY DEF SessionInv
<1>2. crashes \in Nat /\ Forgotten \in Nat
  BY <1>0, <1>1, ForgottenMore DEF SessionType
<1>3. /\ s.calls \in Nat /\ s.spend \in Nat /\ disk.calls \in Nat /\ disk.spend \in Nat
      /\ ledger.calls \in Nat /\ ledger.spend \in Nat /\ s.minutes \in Nat
  BY <1>1 DEF SessionType
<1>4. R!TypeOK
  <2>1. \A i \in 1..Len(runs) : runs[i] \in R!Files
    BY <1>1 DEF SessionType
  <2>2. /\ pc \in {"off", "top", "ask", "answered", "ran", "judge", "close"}
        /\ failures \in 0..FailureLimit /\ minutes \in Nat
        /\ ws \in [R!Files -> {R!NoFile, "plain", "llm"}] /\ crashes \in 0..MaxCrashes
    BY <1>1 DEF SessionType
  <2>3. {s.calls, s.spend, s.minutes, disk.calls, disk.spend, ledger.calls, ledger.spend} \subseteq Nat
    BY <1>3
  <2> QED BY <2>1, <2>2, <2>3, Zenon DEF R!TypeOK
<1>5. R!CallsBounded
  <2>1. ledger.calls <= MaxCalls + Forgotten
    BY <1>0, <1>1, <1>2, <1>3 DEF CallsKept
  <2> QED BY <2>1 DEF R!CallsBounded, Forgotten
<1>6. R!SpendBounded
  <2>1. R!MaxPrice \in Nat /\ Worth(Forgotten) \in Nat /\ Worth(1 + Forgotten) = Worth(1) + Worth(Forgotten)
        /\ Worth(1) = R!MaxPrice
    BY <1>0, <1>2, DearestPrice, WorthIsNat, WorthAdds, WorthOfOne
  <2>2. ledger.spend < Budget + (R!MaxPrice + Worth(Forgotten))
    <3>1. CASE pc = "off"
      BY <1>0, <1>1, <1>3, <2>1, <3>1 DEF SpendKept
    <3>2. CASE pc # "off"
      BY <1>0, <1>1, <1>3, <2>1, <3>2 DEF SpendKept
    <3> QED BY <3>1, <3>2
  <2>3. ledger.spend < Budget + Worth(1 + Forgotten)
    BY <2>1, <2>2
  <2> QED BY <2>3 DEF R!SpendBounded, Worth, Forgotten
<1>7. R!LooksCounted
  <2>1. Seen(disk.exps) \in Nat /\ Len(runs) \in Nat /\ R!Looks(disk) = Seen(disk.exps) /\ R!Looks(s) = Seen(s.exps)
        /\ (pc # "off" => s.exps = disk.exps)
    BY <1>1, SeenIsNat, LooksAreSeen, SMTT(20) DEF SessionType
  <2>2. CASE pc = "ran"
    <3>1. PICK e \in Exps : made = <<e>>
      BY <1>1, <2>2 DEF SessionType
    <3>2. Len(runs) <= Seen(disk.exps) + (IF e.ok THEN 1 ELSE 0) + crashes
      BY <1>1, <2>2, <3>1 DEF LooksKept
    <3>3. (IF e.ok THEN 1 ELSE 0) \in 0..1 /\ Len(made) = 1
      BY <3>1
    <3>4. Len(runs) <= Seen(disk.exps) + Len(made) + crashes
      BY <1>2, <2>1, <3>2, <3>3
    <3> QED BY <2>1, <2>2, <3>4 DEF R!LooksCounted
  <2>3. CASE pc # "ran"
    <3>1. made = <<>> /\ Len(runs) <= Seen(disk.exps) + crashes
      BY <1>1, <2>3 DEF SessionType, LooksKept
    <3>2. Len(runs) <= Seen(disk.exps) + Len(made) + crashes
      BY <1>2, <2>1, <3>1
    <3> QED BY <2>1, <2>3, <3>1, <3>2 DEF R!LooksCounted
  <2> QED BY <2>2, <2>3
<1> QED BY <1>4, <1>5, <1>6, <1>7

(* What a step does to the file, and when a pick is sent back.                *)
LEMMA FileGrows ==
    SessionInv /\ [R!Next]_R!vars =>
        /\ disk.calls <= disk'.calls /\ R!IsPrefixOf(disk.exps, disk'.exps)
        /\ disk.saved => disk'.saved
<1> SUFFICES ASSUME SessionInv, [R!Next]_R!vars
             PROVE  /\ disk.calls <= disk'.calls /\ R!IsPrefixOf(disk.exps, disk'.exps)
                    /\ disk.saved => disk'.saved
  OBVIOUS
<1>1. SessionType /\ CallsKept /\ disk.exps \in Seq(Exps) /\ disk.calls \in Nat /\ s.calls \in Nat
      /\ DOMAIN s = Fields
  BY DEF SessionInv, SessionType
<1>2. SessionType'
  BY SessionStep DEF SessionInv
<1>3. CASE disk' = disk
  <2>1. R!IsPrefixOf(disk.exps, disk.exps)
    BY <1>1 DEF R!IsPrefixOf
  <2> QED BY <1>1, <1>3, <2>1
<1>4. CASE disk' # disk
  <2>1. \/ R!Note \/ R!Write \/ R!Record \/ R!Finish \/ R!Close
    BY <1>4 DEF R!Next, R!Sitting, R!Start, R!Stop, R!Top, R!Ask, R!LimitReached, R!Fail, R!Backtest,
                R!Refuse, R!Accept, R!Crash, R!vars
  <2>2. disk' = R!Saved(s') /\ pc # "off"
    BY <1>4, <2>1 DEF R!Note, R!Write, R!Record, R!Finish, R!Close, R!SaveTurn, R!Handles
  <2>3. DOMAIN s' = Fields
    BY <1>2 DEF SessionType
  <2>4. Same(s', disk') /\ disk'.saved = TRUE
    BY <2>2, <2>3, SavedKept
  <2>5. s'.calls = s.calls /\ (s'.exps = s.exps \/ \E e \in Exps : s'.exps = s.exps \o <<e>>)
    <3>1. CASE R!Note \/ R!Write
      BY <3>1 DEF R!Note, R!Write
    <3>2. CASE R!Record
      <4>1. s'.calls = s.calls /\ s'.exps = s.exps \o made
        BY <1>1, <3>2, ExpsKept DEF R!Record
      <4>2. \E e \in Exps : made = <<e>>
        BY <1>1, <3>2 DEF R!Record, SessionType
      <4> QED BY <4>1, <4>2
    <3>3. CASE R!Finish
      BY <1>1, <3>3 DEF R!Finish, Fields
    <3>4. CASE R!Close
      BY <1>1, <3>4 DEF R!Close, Fields
    <3> QED BY <2>1, <3>1, <3>2, <3>3, <3>4
  <2>6. disk.calls <= s.calls /\ s.exps = disk.exps
    BY <1>1, <2>2 DEF CallsKept, SessionType
  <2>7. disk.calls <= disk'.calls
    BY <2>4, <2>5, <2>6 DEF Same
  <2>8. R!IsPrefixOf(disk.exps, disk'.exps)
    <3>1. CASE disk'.exps = disk.exps
      BY <1>1, <3>1 DEF R!IsPrefixOf
    <3>2. CASE \E e \in Exps : disk'.exps = disk.exps \o <<e>>
      BY <1>1, <3>2 DEF R!IsPrefixOf
    <3> QED BY <2>4, <2>5, <2>6, <3>1, <3>2 DEF Same
  <2> QED BY <2>4, <2>7, <2>8
<1> QED BY <1>3, <1>4

LEMMA RefusalHasRoom ==
    SessionInv /\ [R!Next]_R!vars => (pc = "judge" /\ pc' = "top" => s.calls + 2 <= MaxCalls)
<1> SUFFICES ASSUME SessionInv, [R!Next]_R!vars, pc = "judge", pc' = "top"
             PROVE  s.calls + 2 <= MaxCalls
  OBVIOUS
<1>1. R!Refuse
  BY DEF R!Next, R!Sitting, R!Start, R!Stop, R!Top, R!Ask, R!LimitReached, R!Fail, R!Note, R!Write,
         R!Backtest, R!Record, R!Finish, R!Accept, R!Close, R!Crash, R!Over, R!Handles, R!vars
<1>2. room
  BY <1>1 DEF R!Refuse
<1> QED BY <1>2 DEF SessionInv, RoomKept

(* However a research session is stopped, resumed and crashed: without a      *)
(* crash it makes no more calls than max_calls, passes its budget by less     *)
(* than the price of one call, and counts every run of it as a look; with k   *)
(* crashes it may pass them by k * LostPerCrash calls, their price and k      *)
(* runs. Its file only grows, and a fragile pick is sent back only when the   *)
(* model can still answer.                                                    *)
THEOREM SessionKept == Spec => SessionIsKept
<1> DEFINE Inv == SessionInv /\ room \in BOOLEAN
           grown == disk.calls <= disk'.calls /\ R!IsPrefixOf(disk.exps, disk'.exps) /\ (disk.saved => disk'.saved)
           roomy == pc = "judge" /\ pc' = "top" => s.calls + 2 <= MaxCalls
<1>1. Init => Inv
  <2>1. Init => room \in BOOLEAN
    BY DEF Init, R!Init
  <2> QED BY <2>1, SessionInit
<1>2. Inv /\ [Next]_all => Inv'
  BY SessionStep, RoomIsFlag, SessionSteps
<1>3. Inv /\ [Next]_all => [grown]_R!vars
  BY FileGrows, SessionSteps
<1>4. Inv /\ [Next]_all => [roomy]_R!vars
  BY RefusalHasRoom, SessionSteps
<1>5. Inv => R!TypeOK /\ R!CallsBounded /\ R!SpendBounded /\ R!LooksCounted
  BY SessionKeeps
<1> QED BY <1>1, <1>2, <1>3, <1>4, <1>5, PTL DEF Spec, all, SessionIsKept, R!SessionGrows, R!RefusalLeavesCalls

-----------------------------------------------------------------------------
(* The least and the greatest of a set of numbers.                            *)

-----------------------------------------------------------------------------
(* Paper trading beside its own backtest, for any runs and any days stored.   *)

LEMMA AuditIsP == [Next]_all => [P!Next]_auditing
<1>1. Reads => [P!Next]_auditing
  BY DEF Reads, auditing
<1>2. UNCHANGED afterwards => UNCHANGED auditing
  BY DEF afterwards
<1> QED BY <1>1, <1>2 DEF Next, all

DecisionsMade == [run : Nat, at : Nat, equity : {"cash", "other"}, reset : BOOLEAN]

AuditType ==
    /\ clock \in Nat /\ paper \in Nat /\ journal \in SUBSET DecisionsMade
    /\ \A s2 \in journal : s2.at <= clock
    /\ \A s2 \in journal : s2.reset => s2.equity = "cash"
    /\ flat \in BOOLEAN

AuditInv == AuditType /\ AuditIsOfOneBook

LEMMA MinOf ==
    ASSUME NEW V \in SUBSET Nat, V # {}
    PROVE  P!Min(V) \in V /\ \A k \in V : P!Min(V) <= k
BY LeastOf DEF P!Min

LEMMA MaxOf ==
    ASSUME NEW V \in SUBSET Nat, V # {}, NEW b \in Nat, \A k \in V : k <= b
    PROVE  P!Max(V) \in V /\ \A k \in V : k <= P!Max(V)
<1>1. \E m \in V : \A k \in V : m >= k
  BY GreatestOf
<1> QED BY <1>1 DEF P!Max

(* One point a date: the last decision of those asked for.                    *)
LEMMA LastIsLast ==
    ASSUME AuditType, NEW D0 \in SUBSET journal, NEW d \in P!Dates(D0)
    PROVE  /\ P!LastOf(D0, d) \in D0 /\ P!Date(P!LastOf(D0, d).at) = d
           /\ \A o \in D0 : P!Date(o.at) = d => o.at <= P!LastOf(D0, d).at
<1> DEFINE V == {s2.at : s2 \in {o \in D0 : P!Date(o.at) = d}}
<1>1. V \in SUBSET Nat /\ V # {} /\ \A k \in V : k <= clock
  BY DEF AuditType, DecisionsMade, P!Dates
<1>2. PICK m \in V : \A k \in V : k <= m
  BY <1>1, GreatestOf DEF AuditType
<1>3. \E s2 \in D0 : P!Date(s2.at) = d /\ \A o \in D0 : P!Date(o.at) = d => o.at <= s2.at
  BY <1>2
<1> QED BY <1>3 DEF P!LastOf

LEMMA DatesType ==
    ASSUME AuditType, NEW D0 \in SUBSET journal
    PROVE  P!Dates(D0) \in SUBSET Nat /\ \A d \in P!Dates(D0) : d <= clock
<1>1. \A x \in Nat : P!Date(x) \in Nat /\ (x <= clock => P!Date(x) <= clock)
  BY DEF P!Date, AuditType
<1> QED BY <1>1 DEF AuditType, DecisionsMade, P!Dates

(* A comparison of what a run decided up to a cut says what it must, whatever *)
(* run it is of and whatever days the store has.                              *)
LEMMA CompareSays ==
    ASSUME AuditType, NEW of, NEW cut \in Nat, NEW store \in Stores, NEW cash \in BOOLEAN, NEW agree,
           SearchAssumption,
           P!Dates(P!StepsOf(of, cut)) # {},
           P!Compare(of, P!PointsOf(P!StepsOf(of, cut)), store, cash, agree),
           UNCHANGED journal
    PROVE  AuditIsOfOneBook'
<1> DEFINE D0 == P!StepsOf(of, cut)
           points == P!PointsOf(D0)
           first == P!Min(DOMAIN points)
           stamps == P!Window(store, points)
           traded == stamps \ P!Before(stamps, first)
<1>1. D0 \in SUBSET journal /\ DOMAIN points = P!Dates(D0)
  BY DEF P!StepsOf, P!PointsOf
<1>2. DOMAIN points \in SUBSET Nat /\ DOMAIN points # {} /\ \A d \in DOMAIN points : d <= clock
  BY <1>1, DatesType
<1>3. first \in DOMAIN points /\ first \in Nat /\ first <= P!Max(DOMAIN points)
  BY <1>2, MinOf, MaxOf DEF AuditType
<1>4. store \subseteq Int /\ Lookback \in Nat \ {0}
  BY DEF SearchAssumption, P!AuditAssumption
<1>5. (\A d \in traded : d >= first) /\ (first \in store => first \in traded)
  <2>1. \A d \in DOMAIN points : points[d].at \in Nat /\ P!Date(points[d].at) = d
    BY <1>1, LastIsLast DEF P!PointsOf, AuditType, DecisionsMade
  <2>2. P!Max(DOMAIN points) \in DOMAIN points
    BY <1>2, MaxOf DEF AuditType
  <2>3. P!Open(first) > points[first].at - 2 * Lookback
    <3>1. \A x, f \in Nat, b \in Nat \ {0} : P!Date(x) = f => P!Open(f) > x - 2 * b
      BY DEF P!Open, P!Date
    <3> HIDE DEF points, first
    <3> QED BY <1>3, <1>4, <2>1, <3>1
  <2>4. P!Open(first) <= points[P!Max(DOMAIN points)].at + 2
    <3>1. \A x, m, f \in Nat : P!Date(x) = m /\ f <= m => P!Open(f) <= x + 2
      BY DEF P!Open, P!Date
    <3>2. P!Max(DOMAIN points) \in Nat
      BY <1>2, <2>2
    <3> HIDE DEF points, first
    <3> QED BY <1>3, <2>1, <2>2, <3>1, <3>2
  <2>5. \A d \in stamps : d \in Int
    BY <1>4 DEF P!Window
  <2> QED BY <1>3, <2>3, <2>4, <2>5 DEF P!Before, P!Window
<1>6. CASE traded = {}
  <2>1. audit'.verdict = "raised"
    BY <1>6 DEF P!Compare
  <2> QED BY <2>1 DEF AuditIsOfOneBook, P!FlatFromFirstSession, P!LastDecisionCounts,
                     P!ReturnsSpanTheSame, P!TracksOneBook, P!Said
<1>7. CASE traded # {}
  <2>0. \E v, both : /\ v = "tracks" => P!Resets(points, cash) = {}
                     /\ audit' = [verdict |-> v, of |-> of, store |-> store, points |-> points,
                                  traded |-> traded, cash |-> cash,
                                  returns |-> [live |-> both, backtest |-> both]]
    BY <1>7, Zenon DEF P!Compare, P!ReturnsOf
  <2>1. /\ audit'.of = of /\ audit'.store = store /\ audit'.points = points /\ audit'.traded = traded
        /\ audit'.returns.live = audit'.returns.backtest
        /\ audit'.cash = cash /\ (audit'.verdict = "tracks" => P!Resets(points, cash) = {})
    BY <2>0
  <2>2. P!FlatFromFirstSession'
    BY <1>5, <2>1 DEF P!FlatFromFirstSession
  <2>3. P!ReturnsSpanTheSame'
    BY <2>1 DEF P!ReturnsSpanTheSame
  <2>4. \A d \in DOMAIN points : /\ points[d] \in D0
                                 /\ \A o \in D0 : P!Date(o.at) = d => o.at <= points[d].at
    BY <1>1, LastIsLast DEF P!PointsOf
  <2>5. P!TracksOneBook'
    <3>1. \A d \in DOMAIN points \ {first} : cash /\ P!Resets(points, cash) = {} => points[d].equity # "cash"
      BY DEF P!Resets
    <3>2. \A d \in DOMAIN points : points[d].reset => points[d].equity = "cash"
      BY <1>1, <2>4 DEF AuditType
    <3> QED BY <2>1, <3>1, <3>2 DEF P!TracksOneBook
  <2>6. ASSUME NEW d \in DOMAIN points, NEW s2 \in journal, of \in {0, s2.run}, P!Date(s2.at) = d
        PROVE  s2.at <= points[d].at
    <3>1. points[d] \in journal /\ points[d].at \in Nat /\ s2.at \in Nat /\ points[d].at >= cut
      BY <1>1, <2>4 DEF AuditType, DecisionsMade, P!StepsOf
    <3>2. s2.at >= cut => s2 \in D0
      BY <2>6 DEF P!StepsOf
    <3> QED BY <2>4, <2>6, <3>1, <3>2
  <2>7. P!LastDecisionCounts'
    BY <2>1, <2>6 DEF P!LastDecisionCounts
  <2> QED BY <2>2, <2>3, <2>5, <2>7 DEF AuditIsOfOneBook
<1> QED BY <1>6, <1>7

LEMMA UnsaidIsTrue == audit'.verdict \notin {"short", "diverges", "tracks"} => AuditIsOfOneBook'
BY DEF AuditIsOfOneBook, P!FlatFromFirstSession, P!LastDecisionCounts,
       P!ReturnsSpanTheSame, P!TracksOneBook, P!Said

LEMMA CardinalityP == \A V : P!Cardinality(V) = Cardinality(V)
BY DEF P!Cardinality, Cardinality

LEMMA AuditStep == AuditInv /\ [P!Next]_auditing => AuditInv'
<1> SUFFICES ASSUME AuditInv, [P!Next]_auditing PROVE AuditInv'
  OBVIOUS
<1> USE DEF AuditInv
<1>0. P!NoAudit.verdict \notin {"short", "diverges", "tracks"}
  BY DEF P!NoAudit
<1>1. CASE P!Wait
  <2>1. AuditType'
    BY <1>1 DEF P!Wait, AuditType, DecisionsMade
  <2> QED BY <1>0, <1>1, <2>1, UnsaidIsTrue DEF P!Wait
<1>2. ASSUME NEW run \in 1..MaxPaper, P!Decide(run) PROVE AuditInv'
  <2>a. PICK worth \in IF flat \/ journal = {} THEN {"cash"} ELSE {"cash", "other"} :
           journal' = journal \cup {[run |-> run, at |-> clock, reset |-> flat, equity |-> worth]}
    BY <1>2 DEF P!Decide
  <2> DEFINE new == [run |-> run, at |-> clock, reset |-> flat, equity |-> worth]
  <2>0. run \in Nat
    BY SearchAssumption DEF SearchAssumption, P!AuditAssumption
  <2>1. new \in DecisionsMade /\ new.at = clock /\ (new.reset => new.equity = "cash")
    BY <2>0, <2>a, <1>2 DEF AuditType, DecisionsMade
  <2>2. journal' = journal \cup {new} /\ clock' = clock /\ flat' = FALSE
        /\ paper' = IF run > paper THEN run ELSE paper
    BY <1>2, <2>a DEF P!Decide
  <2> HIDE DEF new
  <2>3. paper' \in Nat /\ flat' \in BOOLEAN /\ clock' \in Nat /\ journal' \in SUBSET DecisionsMade
    BY <2>0, <2>1, <2>2 DEF AuditType
  <2>4. AuditType'
    BY <2>1, <2>2, <2>3 DEF AuditType
  <2> QED BY <1>0, <1>2, <2>4, UnsaidIsTrue DEF P!Decide
<1>3. CASE P!ThrowBook
  <2>1. AuditType'
    BY <1>3 DEF P!ThrowBook, AuditType
  <2> QED BY <1>0, <1>3, <2>1, UnsaidIsTrue DEF P!ThrowBook
<1>4. CASE P!Audit
  <2>1. AuditType' /\ UNCHANGED journal
    BY <1>4 DEF P!Audit, AuditType
  <2>2. PICK of \in 0..paper, cut \in {0, 5} :
           \E points \in {P!PointsOf(P!StepsOf(of, cut))} :
             IF Cardinality(DOMAIN points) < 2
             THEN audit' = [verdict |-> "fewer"]
             ELSE \E store \in Stores, cash \in BOOLEAN, agree \in [names: BOOLEAN, returns: BOOLEAN] :
                     P!Compare(of, points, store, cash, agree)
    BY <1>4, CardinalityP DEF P!Audit
  <2>3. CASE audit' = [verdict |-> "fewer"]
    BY <2>1, <2>3, UnsaidIsTrue
  <2>4. CASE audit' # [verdict |-> "fewer"]
    <3>1. DOMAIN P!PointsOf(P!StepsOf(of, cut)) = P!Dates(P!StepsOf(of, cut))
      BY DEF P!PointsOf
    <3>2. P!Dates(P!StepsOf(of, cut)) # {}
      BY <2>2, <2>4, <3>1, FS_EmptySet
    <3>3. PICK store \in Stores, cash \in BOOLEAN, agree \in [names: BOOLEAN, returns: BOOLEAN] :
             P!Compare(of, P!PointsOf(P!StepsOf(of, cut)), store, cash, agree)
      BY <2>2, <2>4
    <3> QED BY <2>1, <3>2, <3>3, CompareSays, SearchAssumption
  <2> QED BY <2>3, <2>4
<1>5. CASE UNCHANGED auditing
  BY <1>5 DEF auditing, AuditType, AuditIsOfOneBook, P!FlatFromFirstSession, P!LastDecisionCounts,
              P!ReturnsSpanTheSame, P!TracksOneBook, P!Said
<1> QED BY <1>1, <1>2, <1>3, <1>4, <1>5 DEF P!Next

(* A verdict on paper trading compares it with a backtest that trades nothing *)
(* from before the first compared session and has that session's bar, on the  *)
(* last decision of each date, return by return over the same sessions. It    *)
(* does not say "tracks" over a compared session whose decision was the first *)
(* of a fresh book, where the newest run names the cash it began with. That   *)
(* the backtest ends with the paper run, and that no reset is missed, is not  *)
(* so and is not said here.                                                   *)
THEOREM AuditsOneBook == Spec => []AuditIsOfOneBook
<1>1. Init => AuditInv
  <2>1. Init => P!Init
    BY DEF Init
  <2>2. P!Init => AuditType
    <3>1. P!Init => flat \in BOOLEAN
      BY Zenon DEF P!Init
    <3>2. P!Init => clock \in Nat /\ paper \in Nat /\ journal = {}
      BY DEF P!Init
    <3> QED BY <3>1, <3>2 DEF AuditType
  <2>3. P!Init => AuditIsOfOneBook
    BY DEF P!Init, P!NoAudit, AuditIsOfOneBook, P!FlatFromFirstSession,
           P!LastDecisionCounts, P!ReturnsSpanTheSame, P!TracksOneBook, P!Said
  <2> QED BY <2>1, <2>2, <2>3 DEF AuditInv
<1>2. AuditInv /\ [Next]_all => AuditInv'
  BY AuditIsP, AuditStep
<1>3. AuditInv => AuditIsOfOneBook
  BY DEF AuditInv
<1> QED BY <1>1, <1>2, <1>3, PTL DEF Spec, all
-----------------------------------------------------------------------------
(* The tests for luck, for histories and blocks of any length.                *)

LEMMA LuckSteps == [Next]_all => [B!Next]_luck
<1>1. Judges => (B!Next \/ UNCHANGED luck)
  BY DEF Judges, luck
<1>2. UNCHANGED judging => UNCHANGED luck
  BY DEF judging
<1> QED BY <1>1, <1>2 DEF Next, all

LuckType ==
    /\ test.length \in Nat /\ test.block \in Int /\ (test.kind = "permutation" => test.block \in Nat \ {0})
    /\ beaten \in Nat /\ scored \in Nat /\ beaten <= scored
(* What is drawn are blocks, one order of them for every column.              *)
Drawn ==
    stage = "drawn" =>
        /\ ~B!TooFew
        /\ \E starts \in [1..B!DrawnBlocks -> B!Starts] :
              drawn = [c \in B!Columns |->
                         IF B!Kept(c) THEN [k \in 1..B!Rows |-> k - 1] ELSE B!Concat(starts)]
PValueIsCounted == pvalue # <<>> => pvalue = <<beaten + 1, scored + 1>>
LuckInv == LuckType /\ Drawn /\ PValueIsCounted

LEMMA LuckInit == B!ResamplingAssumption /\ Init => LuckInv
<1> SUFFICES ASSUME B!ResamplingAssumption, Init PROVE LuckInv
  OBVIOUS
<1>1. stage = "ready" /\ beaten = 0 /\ scored = 0 /\ pvalue = <<>>
  BY DEF Init, NoLuck, B!Init
<1>2. test \in Tests \/ test = Test("bootstrap", 8, 2, NoneListed)
  BY DEF Init, NoLuck, B!Init
<1>3. test.length \in Nat /\ test.block \in Int /\ (test.kind = "permutation" => test.block \in Nat \ {0})
  <2>1. CASE test \in Tests
    BY <2>1 DEF B!ResamplingAssumption
  <2>2. CASE test = Test("bootstrap", 8, 2, NoneListed)
    <3>1. test.length = 8 /\ test.block = 2 /\ test.kind = "bootstrap"
      BY <2>2 DEF Test
    <3> QED BY <3>1
  <2> QED BY <1>2, <2>1, <2>2
<1> QED BY <1>1, <1>3 DEF LuckInv, LuckType, Drawn, PValueIsCounted

LEMMA LuckStep == LuckInv /\ [B!Next]_luck => LuckInv'
<1> SUFFICES ASSUME LuckInv, [B!Next]_luck PROVE LuckInv'
  OBVIOUS
<1>1. CASE B!Refuse
  <2>1. UNCHANGED <<test, drawn, beaten, scored, pvalue>> /\ stage' # "drawn"
    BY <1>1 DEF B!Refuse
  <2> QED BY <2>1 DEF LuckInv, LuckType, Drawn, PValueIsCounted
<1>2. CASE B!Resample
  <2>1. /\ UNCHANGED <<test, left, beaten, scored, pvalue>> /\ ~B!TooFew
        /\ \E starts \in [1..B!DrawnBlocks -> B!Starts] :
              drawn' = [c \in B!Columns |->
                          IF B!Kept(c) THEN [k \in 1..B!Rows |-> k - 1] ELSE B!Concat(starts)]
    BY <1>2 DEF B!Resample, B!Order
  <2>2. Drawn'
    <3>1. PICK starts \in [1..B!DrawnBlocks -> B!Starts] :
              drawn' = [c \in B!Columns |->
                          IF B!Kept(c) THEN [k \in 1..B!Rows |-> k - 1] ELSE B!Concat(starts)]
      BY <2>1
    <3>2. /\ B!DrawnBlocks' = B!DrawnBlocks /\ B!Starts' = B!Starts /\ B!Columns' = B!Columns
          /\ B!Rows' = B!Rows /\ B!TooFew' = B!TooFew
      BY <2>1 DEF B!TooFew, B!DrawnBlocks, B!Starts, B!Columns, B!Rows, B!Block, B!Shuffling
    <3>3. \A c : B!Kept(c)' = B!Kept(c)
      BY <2>1 DEF B!Kept, B!Shuffling
    <3>4. B!Concat(starts)' = B!Concat(starts)
      BY <2>1 DEF B!Concat, B!Rows, B!Block, B!Shuffling
    <3>5. drawn' = [c \in B!Columns' |->
                      IF B!Kept(c)' THEN [k \in 1..B!Rows' |-> k - 1] ELSE B!Concat(starts)']
      BY <3>1, <3>2, <3>3, <3>4, Zenon
    <3>6. starts \in [1..B!DrawnBlocks' -> B!Starts'] /\ ~B!TooFew'
      BY <2>1, <3>2
    <3> QED BY <3>5, <3>6 DEF Drawn
  <2> QED BY <2>1, <2>2 DEF LuckInv, LuckType, PValueIsCounted
<1>3. ASSUME NEW b \in {beaten, beaten + 1}, NEW h \in {scored, scored + 1}, b - beaten <= h - scored,
             B!Answer(b, h)
      PROVE  LuckInv'
  <2>1. beaten' = b /\ scored' = h /\ stage' # "drawn" /\ test' = test /\ pvalue' \in {<<>>, <<b + 1, h + 1>>}
    BY <1>3 DEF B!Answer, B!PValue
  <2>2. b \in Nat /\ h \in Nat /\ b <= h
    BY <1>3 DEF LuckInv, LuckType
  <2> QED BY <2>1, <2>2 DEF LuckInv, LuckType, Drawn, PValueIsCounted
<1>4. CASE B!Score
  <2>0. beaten \in Nat /\ scored \in Nat
    BY DEF LuckInv, LuckType
  <2>1. \/ B!Answer(beaten, scored)
        \/ \E beats \in {0, 1} : B!Answer(beaten + beats, scored + 1)
    BY <1>4 DEF B!Score
  <2>2. CASE B!Answer(beaten, scored)
    BY <1>3, <2>0, <2>2
  <2>3. CASE B!Answer(beaten + 0, scored + 1)
    <3>1. beaten + 0 = beaten
      BY <2>0
    <3> QED BY <1>3, <2>0, <2>3, <3>1
  <2>4. CASE B!Answer(beaten + 1, scored + 1)
    BY <1>3, <2>0, <2>4
  <2> QED BY <2>1, <2>2, <2>3, <2>4
<1>5. CASE B!SerialRaise
  <2>1. UNCHANGED <<test, left, beaten, scored, pvalue>> /\ stage' = "raised"
    BY <1>5 DEF B!SerialRaise
  <2> QED BY <2>1 DEF LuckInv, LuckType, Drawn, PValueIsCounted
<1>6. CASE UNCHANGED luck
  BY <1>6 DEF luck, LuckInv, LuckType, Drawn, PValueIsCounted, B!TooFew, B!DrawnBlocks, B!Starts, B!Columns,
              B!Kept, B!Rows, B!Concat, B!Block, B!Shuffling
<1> QED BY <1>1, <1>2, <1>4, <1>5, <1>6 DEF B!Next

(* A block starts where it can still end: a draw is as long as the run, and   *)
(* made of its rows.                                                          *)
LEMMA DrawsFill ==
    ASSUME LuckType, ~B!TooFew, NEW starts \in [1..B!DrawnBlocks -> B!Starts]
    PROVE  /\ B!Rows \in Nat /\ B!Concat(starts) = [k \in 1..B!Rows |-> B!Concat(starts)[k]]
           /\ \A k \in 1..B!Rows : B!Concat(starts)[k] \in 0..(B!Rows - 1)
<1> DEFINE b == B!Block
           r == B!Rows
           h == B!DrawnBlocks
<1>1. b \in Nat \ {0} /\ r \in Nat
  BY DEF LuckType, B!Block, B!Rows, B!Shuffling, B!TooFew
<1>2. \A s2 \in B!Starts : s2 \in Nat /\ (r >= 1 => s2 + b <= r)
  BY DEF LuckType, B!Starts, B!Block, B!Rows, B!Shuffling, B!TooFew
<1>3. /\ h \in Nat /\ h * b >= r
      /\ \A k \in 1..r : ((k - 1) \div b) + 1 \in 1..h /\ (k - 1) % b \in 0..(b - 1)
  BY <1>1, BlocksFill DEF B!DrawnBlocks
<1>4. Len(starts) = h
  BY <1>3
<1>5. B!Concat(starts) = [k \in 1..(IF Len(starts) * b < r THEN Len(starts) * b ELSE r) |->
                            starts[((k - 1) \div b) + 1] + ((k - 1) % b)]
  BY DEF B!Concat
<1> HIDE DEF b, r, h
<1>6. (IF h * b < r THEN h * b ELSE r) = r
  <2> DEFINE z == h * b
  <2>1. z \in Nat /\ z >= r
    BY <1>1, <1>3
  <2> HIDE DEF z
  <2>2. (IF z < r THEN z ELSE r) = r
    BY <1>1, <2>1
  <2> QED BY <2>2 DEF z
<1>7. B!Concat(starts) = [k \in 1..r |-> starts[((k - 1) \div b) + 1] + ((k - 1) % b)]
  BY <1>4, <1>5, <1>6, Zenon
<1>8. ASSUME NEW k \in 1..r PROVE B!Concat(starts)[k] \in 0..(r - 1)
  <2>1. PICK i \in 1..h, m \in 0..(b - 1) : B!Concat(starts)[k] = starts[i] + m
    BY <1>3, <1>7
  <2>2. starts[i] \in B!Starts
    BY DEF h
  <2>3. starts[i] \in Nat /\ starts[i] + b <= r
    BY <1>1, <1>2, <2>2
  <2> QED BY <1>1, <2>1, <2>3
<1> QED BY <1>1, <1>7, <1>8 DEF r

(* A test for luck draws histories that are as long as the run and made of    *)
(* what happened, the names together, and answers with a p-value that counts  *)
(* the run itself and every shuffle that came to a score. It is the block     *)
(* bootstrap, the paired one and the permutation test of the validating tools.*)
THEOREM LuckIsAlwaysTested == Spec => []LuckIsTested
<1>1. Init => LuckInv
  BY SearchAssumption, LuckInit DEF SearchAssumption
<1>2. LuckInv /\ [Next]_all => LuckInv'
  BY LuckSteps, LuckStep
<1>3. LuckInv => LuckIsTested
  <2> SUFFICES ASSUME LuckInv PROVE B!DrawFillsTheRun /\ B!DrawnTogether /\ B!PValueIsHonest
    BY DEF LuckIsTested
  <2>1. ASSUME stage = "drawn"
        PROVE  /\ \A c \in B!Columns :
                     Len(drawn[c]) = B!Rows /\ \A k \in DOMAIN drawn[c] : drawn[c][k] \in 0..(B!Rows - 1)
               /\ \A c, d \in {x \in B!Columns : ~B!Kept(x)} : drawn[c] = drawn[d]
    <3>1. PICK starts \in [1..B!DrawnBlocks -> B!Starts] :
              drawn = [c \in B!Columns |->
                         IF B!Kept(c) THEN [k \in 1..B!Rows |-> k - 1] ELSE B!Concat(starts)]
      BY <2>1 DEF LuckInv, Drawn
    <3>2. /\ B!Rows \in Nat /\ B!Concat(starts) = [k \in 1..B!Rows |-> B!Concat(starts)[k]]
          /\ \A k \in 1..B!Rows : B!Concat(starts)[k] \in 0..(B!Rows - 1)
      BY <2>1, DrawsFill DEF LuckInv, Drawn
    <3>3. ASSUME NEW c \in B!Columns
          PROVE  Len(drawn[c]) = B!Rows /\ \A k \in DOMAIN drawn[c] : drawn[c][k] \in 0..(B!Rows - 1)
      <4>1. CASE B!Kept(c)
        <5>1. drawn[c] = [k \in 1..B!Rows |-> k - 1]
          BY <3>1, <4>1
        <5> QED BY <3>2, <5>1
      <4>2. CASE ~B!Kept(c)
        <5>1. drawn[c] = B!Concat(starts)
          BY <3>1, <4>2
        <5> DEFINE d == B!Concat(starts)
        <5> HIDE DEF d
        <5>2. d = [k \in 1..B!Rows |-> d[k]] /\ \A k \in 1..B!Rows : d[k] \in 0..(B!Rows - 1)
          BY <3>2 DEF d
        <5>3. d \in [1..B!Rows -> 0..(B!Rows - 1)]
          BY <5>2
        <5> QED BY <3>2, <5>1, <5>3 DEF d
      <4> QED BY <4>1, <4>2
    <3>4. \A c, d \in {x \in B!Columns : ~B!Kept(x)} : drawn[c] = drawn[d]
      BY <3>1
    <3> QED BY <3>3, <3>4
  <2>2. B!PValueIsHonest
    BY DEF LuckInv, LuckType, PValueIsCounted, B!PValueIsHonest
  <2> QED BY <2>1, <2>2 DEF B!DrawFillsTheRun, B!DrawnTogether
<1> QED BY <1>1, <1>2, <1>3, PTL DEF Spec, all

-----------------------------------------------------------------------------
(* Walk-forward windows, over a range of any length.                          *)

LEMMA WalkSteps == [Next]_all => [W!Next]_walk
<1>1. Judges => (W!Next \/ UNCHANGED walk)
  BY DEF Judges, walk
<1>2. UNCHANGED judging => UNCHANGED walk
  BY DEF judging
<1> QED BY <1>1, <1>2 DEF Next, all

(* The edges of the blocks: the first at 0, the last at n, each a slot at     *)
(* least after the one before it, and as many as every block is given.        *)
LEMMA EdgesApart ==
    ASSUME NEW nn \in Nat, NEW b \in Nat \ {0}, NEW c \in Nat, b * c <= nn
    PROVE  /\ W!Edge(nn, b, 0) = 0 /\ W!Edge(nn, b, b) = nn
           /\ \A j \in 0..b : W!Edge(nn, b, j) \in Nat
           /\ \A i, j \in 0..b : i < j => W!Edge(nn, b, i) + c <= W!Edge(nn, b, j)
<1>1. W!Edge(nn, b, 0) = 0 /\ W!Edge(nn, b, b) = nn
  <2>1. 0 * nn = b * 0 + 0 /\ b * nn = b * nn + 0 /\ 0 \in 0..(b - 1)
    OBVIOUS
  <2>2. (b * 0 + 0) \div b = 0 /\ (b * nn + 0) \div b = nn
    BY <2>1, DivIs
  <2> QED BY <2>1, <2>2 DEF W!Edge
<1>2. ASSUME NEW j \in 0..b PROVE W!Edge(nn, b, j) \in Nat
  <2>1. j * nn \in Nat
    OBVIOUS
  <2> QED BY <2>1, DivMod DEF W!Edge
<1>3. ASSUME NEW i \in 0..b, NEW j \in 0..b, i < j
      PROVE  W!Edge(nn, b, i) + c <= W!Edge(nn, b, j)
  <2>1. PICK e \in Nat : j = i + 1 + e
    <3>1. j - i - 1 \in Nat /\ j = i + 1 + (j - i - 1)
      BY <1>3
    <3> QED BY <3>1
  <2>2. j * nn = i * nn + nn + e * nn /\ i * nn \in Nat /\ e * nn \in Nat /\ j * nn \in Nat
    BY <2>1
  <2>3. i * nn + b * c <= j * nn
    <3> DEFINE u == i * nn
               v == e * nn
               w == j * nn
               z == b * c
    <3>1. u \in Nat /\ v \in Nat /\ w \in Nat /\ z \in Nat /\ w = u + nn + v /\ z <= nn
      BY <2>2
    <3> HIDE DEF u, v, w, z
    <3>2. u + z <= w
      BY <3>1
    <3> QED BY <3>2 DEF u, w, z
  <2> QED BY <2>2, <2>3, DivMore DEF W!Edge
<1> QED BY <1>1, <1>2, <1>3

(* So many windows leave every block its slot, and more than one window       *)
(* leaves every block the floor.                                              *)
LEMMA CountFits ==
    ASSUME W!WalkForwardAssumption, NEW nn \in Nat, NEW t \in Nat \ {0}, NEW e \in Nat \ {0}, t + e <= nn,
           NEW k \in 1..W!KMax(nn, t, e)
    PROVE  t + e * k \in Nat \ {0} /\ t + e * k <= nn /\ (k > 1 => (t + e * k) * MinBlockUnits <= nn)
<1> DEFINE f == MinBlockUnits
           d == nn \div f
           m == W!Most(t + e, d)
           q == (m - t) \div e
<1>0. f \in Nat \ {0}
  BY DEF W!WalkForwardAssumption
<1>1. d \in Nat /\ f * d \in Nat /\ f * d <= nn /\ d <= nn
  <2>1. d \in Nat /\ nn % f \in 0..(f - 1) /\ nn = f * d + (nn % f)
    BY <1>0, DivMod, Zenon
  <2>2. d <= f * d
    <3>1. 1 <= f
      BY <1>0
    <3>2. d * 1 <= d * f
      BY <1>0, <2>1, <3>1, TimesMore
    <3> QED BY <1>0, <2>1, <3>2
  <2> DEFINE y == f * d
             r == nn % f
  <2>3. y \in Nat /\ r \in Nat /\ nn = y + r /\ d <= y
    BY <1>0, <2>1, <2>2
  <2> HIDE DEF y, r, d, f
  <2>4. y <= nn /\ d <= nn
    BY <2>1, <2>3
  <2> QED BY <2>1, <2>3, <2>4 DEF y
<1> HIDE DEF d, f
<1>2. m \in Nat /\ t + e <= m /\ m <= nn /\ m \in {t + e, d}
  BY <1>1 DEF W!Most
<1> HIDE DEF m
<1>3. m - t \in Nat /\ e <= m - t
  BY <1>2
<1>4. q \in Nat /\ 1 <= q /\ e * q \in Nat /\ e * q <= m - t
  <2>1. q \in Nat /\ (m - t) % e \in 0..(e - 1) /\ m - t = e * q + ((m - t) % e)
    BY <1>3, DivMod, Zenon
  <2>2. (e * 1 + 0) \div e = 1 /\ e * 1 + 0 = e
    <3>1. 0 \in 0..(e - 1)
      OBVIOUS
    <3> QED BY <3>1, DivIs
  <2>3. (e \div e) + 0 <= (m - t) \div e
    <3>1. e + e * 0 <= m - t
      BY <1>3
    <3> QED BY <1>3, <3>1, DivMore
  <2>4. 1 <= q
    BY <2>1, <2>2, <2>3
  <2> DEFINE y == e * q
             r == (m - t) % e
  <2>5. y \in Nat /\ r \in Nat /\ m - t = y + r
    BY <2>1
  <2> HIDE DEF y, r, q
  <2>6. y <= m - t
    BY <1>2, <2>5
  <2> QED BY <2>1, <2>4, <2>5, <2>6 DEF y
<1>5. k <= q /\ k \in Nat \ {0}
  BY <1>4 DEF W!KMax, W!Most, m, d, f
<1> HIDE DEF q
<1>6. e * k \in Nat /\ e * k <= e * q
  BY <1>4, <1>5, TimesMore
<1> DEFINE y == e * k
           z == e * q
<1>7. y \in Nat /\ z \in Nat /\ y <= z /\ z <= m - t
  BY <1>4, <1>6
<1> HIDE DEF y, z
<1>8. t + y \in Nat \ {0} /\ t + y <= m /\ t + y <= nn
  BY <1>2, <1>7
<1>9. k > 1 => (t + y) * f <= nn
  <2> SUFFICES ASSUME k > 1 PROVE (t + y) * f <= nn
    OBVIOUS
  <2>1. m # t + e
    <3> SUFFICES ASSUME m = t + e PROVE FALSE
      OBVIOUS
    <3>1. m - t = e * 1 + 0 /\ 0 \in 0..(e - 1)
      OBVIOUS
    <3>2. q = 1
      BY <3>1, DivIs DEF q
    <3> QED BY <1>5, <3>2
  <2>2. t + y <= d
    BY <1>2, <1>8, <2>1
  <2>3. f * (t + y) <= f * d /\ f * (t + y) = (t + y) * f /\ (t + y) * f \in Nat
    BY <1>0, <1>1, <1>8, <2>2, TimesMore
  <2> DEFINE u == (t + y) * f
             v == f * d
  <2>4. u \in Nat /\ v \in Nat /\ u <= v /\ v <= nn
    BY <1>1, <2>3
  <2> HIDE DEF u, v
  <2>5. u <= nn
    BY <2>4
  <2> QED BY <2>5 DEF u
<1> QED BY <1>8, <1>9 DEF y, f

(* The windows there are: each tests right after what it trained on, the test *)
(* blocks follow each other to the end and keep the floor.                    *)
Apart ==
    windows # <<>> =>
        /\ Len(windows) \in Nat \ {0} /\ DOMAIN windows = 1..Len(windows)
        /\ \A i \in DOMAIN windows :
              {windows[i].is[1], windows[i].is[2], windows[i].oos[1], windows[i].oos[2]} \subseteq Nat
        /\ \A i, j \in DOMAIN windows : i < j => windows[i].oos[2] < windows[j].oos[1]
        /\ W!WindowsTile /\ W!BlocksKeepFloor

LEMMA MadeApart ==
    ASSUME W!WalkForwardAssumption, units \in Nat \ {0}, NEW spec \in Specs, NEW asked2 \in Requests,
           windows' = W!MakeWindows(units, spec, asked2), units' = units
    PROVE  Apart'
<1> SUFFICES ASSUME windows' # <<>> PROVE Apart'
  BY DEF Apart
<1> DEFINE t == W!ParseSpec(spec)[1]
           e == W!ParseSpec(spec)[2]
           k == IF asked2 > 0 THEN asked2 ELSE W!Most(1, W!Least(DefaultWindows, W!KMax(units, t, e)))
           b == t + e * k
           E0(j) == W!Edge(units, b, j)
           w(i) == [is |-> <<E0((i-1) * e) + 1, E0((i-1) * e + t)>>,
                    oos |-> <<E0((i-1) * e + t) + 1, E0((i-1) * e + t + e)>>]
<1>1. /\ W!Usable(spec) /\ ~(units < t + e) /\ ~(asked2 > 0 /\ asked2 > W!KMax(units, t, e))
      /\ windows' = [i \in 1..k |-> w(i)]
  BY Zenon DEF W!MakeWindows
<1>2. t \in Nat \ {0} /\ e \in Nat \ {0}
  <2>1. spec \in Seq(Nat) /\ Len(spec) \in {1, 2}
    BY DEF W!WalkForwardAssumption
  <2>2. t \in Nat /\ e \in Nat
    BY <2>1 DEF W!ParseSpec
  <2> QED BY <1>1, <2>2 DEF W!Usable
<1> HIDE DEF t, e
<1>3. W!KMax(units, t, e) \in Nat
  <2> DEFINE d == units \div MinBlockUnits
             m == W!Most(t + e, d)
             q == (m - t) \div e
  <2>1. d \in Nat
    <3>1. MinBlockUnits \in Nat \ {0}
      BY DEF W!WalkForwardAssumption
    <3> QED BY <3>1, DivMod
  <2> HIDE DEF d
  <2>2. m \in Nat /\ m - t \in Nat
    BY <1>2, <2>1 DEF W!Most
  <2> HIDE DEF m
  <2>3. q \in Nat
    BY <1>2, <2>2, DivMod
  <2>4. W!KMax(units, t, e) = W!Most(1, q)
    BY DEF W!KMax, q, m, d
  <2> HIDE DEF q
  <2> QED BY <2>3, <2>4 DEF W!Most
<1>4. k \in 1..W!KMax(units, t, e)
  <2>1. asked2 \in Nat /\ DefaultWindows \in Nat \ {0}
    BY DEF W!WalkForwardAssumption
  <2>2. W!KMax(units, t, e) >= 1
    <3>1. \E q : W!KMax(units, t, e) = W!Most(1, q)
      BY DEF W!KMax
    <3> QED BY <1>3, <3>1 DEF W!Most
  <2> QED BY <1>1, <1>3, <2>1, <2>2 DEF W!Most, W!Least
<1> HIDE DEF k
<1>5. b \in Nat \ {0} /\ b <= units /\ (k > 1 => b * MinBlockUnits <= units) /\ k \in Nat \ {0}
  BY <1>1, <1>2, <1>3, <1>4, CountFits
<1>6. ASSUME NEW i \in 1..k
      PROVE  /\ (i-1) * e \in Nat /\ (i-1) * e + t + e \in 0..b
             /\ \A j \in 1..k : i < j => (i-1) * e + e <= (j-1) * e
             /\ (i = k => (i-1) * e + t + e = b) /\ (i = 1 => (i-1) * e = 0)
             /\ i * e = (i-1) * e + e
  <2>1. (i-1) * e \in Nat /\ (i-1) * e + e = i * e /\ i * e = e * i /\ i * e \in Nat
    BY <1>2, <1>5
  <2>2. e * i <= e * k /\ e * k \in Nat
    BY <1>2, <1>5, TimesMore
  <2>3. ASSUME NEW j \in 1..k, i < j PROVE i * e <= (j-1) * e
    <3>1. i <= j - 1 /\ j - 1 \in Nat /\ i \in Nat
      BY <1>5, <2>3
    <3>2. e * i <= e * (j - 1)
      BY <1>2, <3>1, TimesMore
    <3>3. e * (j - 1) = (j - 1) * e
      BY <1>2, <3>1
    <3> QED BY <2>1, <3>2, <3>3
  <2>4. i = 1 => (i-1) * e = 0
    BY <1>2
  <2> DEFINE x == (i-1) * e
             y == e * k
             z == i * e
  <2>5. x \in Nat /\ y \in Nat /\ z \in Nat /\ x + e = z /\ z <= y /\ b = t + y /\ (i = k => z = y)
    BY <2>1, <2>2
  <2>6. x + t + e \in 0..b /\ (i = k => x + t + e = b)
    <3> HIDE DEF x, y, z, b
    <3> QED BY <1>2, <1>5, <2>5
  <2> QED BY <2>1, <2>3, <2>4, <2>6
<1> HIDE DEF b
<1>7. /\ E0(0) = 0 /\ E0(b) = units
      /\ \A j \in 0..b : E0(j) \in Nat
      /\ \A i, j \in 0..b : i < j => E0(i) + 1 <= E0(j)
  <2>1. b * 1 <= units
    BY <1>5
  <2> QED BY <1>5, <2>1, EdgesApart
<1>8. k > 1 => \A i, j \in 0..b : i < j => E0(i) + MinBlockUnits <= E0(j)
  <2>1. MinBlockUnits \in Nat
    BY DEF W!WalkForwardAssumption
  <2> QED BY <1>5, <2>1, EdgesApart
<1> HIDE DEF E0
<1>9. /\ Len(windows') = k /\ DOMAIN windows' = 1..k
      /\ \A i \in 1..k : /\ windows'[i].is[1] = E0((i-1) * e) + 1 /\ windows'[i].is[2] = E0((i-1) * e + t)
                         /\ windows'[i].oos[1] = E0((i-1) * e + t) + 1
                         /\ windows'[i].oos[2] = E0((i-1) * e + t + e)
  BY <1>1, <1>5
<1>10. ASSUME NEW i \in 1..k
       PROVE  \E x \in Nat : /\ x = (i-1) * e /\ x \in 0..b /\ x + t \in 0..b /\ x + t + e \in 0..b
                             /\ (i = k => x + t + e = b) /\ (i = 1 => x = 0)
                             /\ windows'[i].is[1] = E0(x) + 1 /\ windows'[i].is[2] = E0(x + t)
                             /\ windows'[i].oos[1] = E0(x + t) + 1 /\ windows'[i].oos[2] = E0(x + t + e)
                             /\ i < k => i + 1 \in 1..k /\ windows'[i+1].oos[1] = E0(x + t + e) + 1
                             /\ \A j \in 1..k : i < j => \E y \in Nat : y + t \in 0..b /\ x + e <= y /\ windows'[j].oos[1] = E0(y + t) + 1
  <2> DEFINE x == (i-1) * e
  <2>1. x \in Nat /\ x + t + e \in 0..b /\ (i = k => x + t + e = b) /\ (i = 1 => x = 0)
    BY <1>6
  <2>2. x \in 0..b /\ x + t \in 0..b
    <3> HIDE DEF x
    <3> QED BY <1>2, <1>5, <2>1
  <2>3. i < k => i + 1 \in 1..k /\ windows'[i+1].oos[1] = E0(x + t + e) + 1
    <3> SUFFICES ASSUME i < k PROVE i + 1 \in 1..k /\ windows'[i+1].oos[1] = E0(x + t + e) + 1
      OBVIOUS
    <3>1. i + 1 \in 1..k
      BY <1>5
    <3>2. windows'[i+1].oos[1] = E0(((i+1)-1) * e + t) + 1
      BY <1>9, <3>1
    <3>3. ((i+1)-1) * e = x + e
      <4>1. (i+1)-1 = i
        OBVIOUS
      <4> QED BY <1>6, <4>1
    <3>4. (x + e) + t = x + t + e
      <4> HIDE DEF x
      <4> QED BY <1>2, <2>1
    <3> QED BY <3>1, <3>2, <3>3, <3>4
  <2>4. ASSUME NEW j \in 1..k, i < j
        PROVE  \E y \in Nat : y + t \in 0..b /\ x + e <= y /\ windows'[j].oos[1] = E0(y + t) + 1
    <3> DEFINE y == (j-1) * e
    <3>1. y \in Nat /\ y + t + e \in 0..b /\ x + e <= y /\ windows'[j].oos[1] = E0(y + t) + 1
      BY <1>6, <1>9, <2>4
    <3>2. y + t \in 0..b
      <4> HIDE DEF y
      <4> QED BY <1>2, <1>5, <3>1
    <3> QED BY <3>1, <3>2
  <2> QED BY <1>9, <2>1, <2>2, <2>3, <2>4
<1>11. ASSUME NEW i \in 1..k
       PROVE  /\ {windows'[i].is[1], windows'[i].is[2], windows'[i].oos[1], windows'[i].oos[2]} \subseteq Nat
              /\ windows'[i].is[1] <= windows'[i].is[2] /\ windows'[i].oos[1] = windows'[i].is[2] + 1
              /\ windows'[i].oos[1] <= windows'[i].oos[2]
              /\ (i = 1 => windows'[i].is[1] = 1)
              /\ (i < k => windows'[i+1].oos[1] = windows'[i].oos[2] + 1)
              /\ (i = k => windows'[i].oos[2] = units)
              /\ (k > 1 => windows'[i].oos[2] - windows'[i].oos[1] + 1 >= MinBlockUnits)
              /\ \A j \in 1..k : i < j => windows'[i].oos[2] < windows'[j].oos[1]
  <2>1. PICK x \in Nat : /\ x \in 0..b /\ x + t \in 0..b /\ x + t + e \in 0..b
                         /\ (i = k => x + t + e = b) /\ (i = 1 => x = 0)
                         /\ windows'[i].is[1] = E0(x) + 1 /\ windows'[i].is[2] = E0(x + t)
                         /\ windows'[i].oos[1] = E0(x + t) + 1 /\ windows'[i].oos[2] = E0(x + t + e)
                         /\ i < k => i + 1 \in 1..k /\ windows'[i+1].oos[1] = E0(x + t + e) + 1
                         /\ \A j \in 1..k : i < j => \E y \in Nat : y + t \in 0..b /\ x + e <= y /\ windows'[j].oos[1] = E0(y + t) + 1
    BY <1>10
  <2>2. E0(x) \in Nat /\ E0(x + t) \in Nat /\ E0(x + t + e) \in Nat
        /\ E0(x) + 1 <= E0(x + t) /\ E0(x + t) + 1 <= E0(x + t + e)
    BY <1>2, <1>7, <2>1
  <2>3. k > 1 => E0(x + t) + MinBlockUnits <= E0(x + t + e)
    BY <1>2, <1>8, <2>1
  <2>4. MinBlockUnits \in Nat
    BY DEF W!WalkForwardAssumption
  <2>5. ASSUME NEW j \in 1..k, i < j PROVE windows'[i].oos[2] < windows'[j].oos[1]
    <3>1. PICK y \in Nat : y + t \in 0..b /\ x + e <= y /\ windows'[j].oos[1] = E0(y + t) + 1
      BY <2>1, <2>5
    <3>2. x + t + e < y + t \/ x + t + e = y + t
      BY <1>2, <3>1
    <3>3. E0(x + t + e) <= E0(y + t) /\ E0(y + t) \in Nat
      BY <1>7, <2>1, <2>2, <3>1, <3>2
    <3> QED BY <2>1, <2>2, <3>1, <3>3
  <2>6. /\ {windows'[i].is[1], windows'[i].is[2], windows'[i].oos[1], windows'[i].oos[2]} \subseteq Nat
        /\ windows'[i].is[1] <= windows'[i].is[2] /\ windows'[i].oos[1] = windows'[i].is[2] + 1
        /\ windows'[i].oos[1] <= windows'[i].oos[2]
    BY <2>1, <2>2
  <2>7. (i = 1 => windows'[i].is[1] = 1) /\ (i < k => windows'[i+1].oos[1] = windows'[i].oos[2] + 1)
        /\ (i = k => windows'[i].oos[2] = units)
    BY <1>7, <2>1, <2>2
  <2>8. k > 1 => windows'[i].oos[2] - windows'[i].oos[1] + 1 >= MinBlockUnits
    BY <2>1, <2>2, <2>3, <2>4
  <2> QED BY <2>5, <2>6, <2>7, <2>8
<1>12. W!WindowsTile' /\ W!BlocksKeepFloor'
  BY <1>5, <1>9, <1>11 DEF W!WindowsTile, W!BlocksKeepFloor
<1> QED BY <1>5, <1>9, <1>11, <1>12 DEF Apart

WalkInv ==
    /\ units \in Nat \ {0} /\ bars \in SUBSET (1..units)
    /\ trade.entry \in Nat /\ trade.exit \in Nat
    /\ Apart

LEMMA WalkInit == W!WalkForwardAssumption /\ Init => WalkInv
<1> SUFFICES ASSUME W!WalkForwardAssumption, Init PROVE WalkInv
  OBVIOUS
<1>1. units \in Nat \ {0} /\ windows = <<>> /\ bars = {} /\ trade = W!NoTrade
  BY DEF Init, NoWalk, W!Init, W!WalkForwardAssumption
<1> QED BY <1>1 DEF WalkInv, Apart, W!NoTrade

LEMMA WalkStep == W!WalkForwardAssumption /\ WalkInv /\ [W!Next]_walk => WalkInv'
<1> SUFFICES ASSUME W!WalkForwardAssumption, WalkInv, [W!Next]_walk PROVE WalkInv'
  OBVIOUS
<1>1. CASE W!CutWindows
  <2>1. PICK spec \in Specs, asked2 \in Requests : windows' = W!MakeWindows(units, spec, asked2)
    BY <1>1 DEF W!CutWindows
  <2>2. UNCHANGED <<units, bars, trade>>
    BY <1>1 DEF W!CutWindows
  <2>3. Apart'
    BY <2>1, <2>2, MadeApart DEF WalkInv
  <2> QED BY <2>2, <2>3 DEF WalkInv
<1>2. CASE W!Score
  <2>1. UNCHANGED <<units, windows>>
    BY <1>2 DEF W!Score
  <2>2. bars' \in SUBSET (1..units)
    BY <1>2 DEF W!Score, WalkInv
  <2>3. PICK a \in bars', c \in bars' \cup {0} : trade' = [entry |-> a, exit |-> c]
    BY <1>2 DEF W!Score
  <2>4. trade'.entry \in Nat /\ trade'.exit \in Nat
    BY <2>2, <2>3 DEF WalkInv
  <2>5. Apart'
    BY <2>1 DEF WalkInv, Apart, W!WindowsTile, W!BlocksKeepFloor
  <2> QED BY <2>1, <2>2, <2>4, <2>5 DEF WalkInv
<1>3. CASE UNCHANGED walk
  BY <1>3 DEF walk, WalkInv, Apart, W!WindowsTile, W!BlocksKeepFloor
<1> QED BY <1>1, <1>2, <1>3 DEF W!Next

(* A slot is out of sample for one window at most, and labelled with it.      *)
LEMMA OneBlock ==
    ASSUME WalkInv, NEW x \in Nat, NEW i \in DOMAIN windows, NEW j \in DOMAIN windows,
           W!In(x, windows[i].oos), W!In(x, windows[j].oos)
    PROVE  i = j
<1>1. windows # <<>>
  OBVIOUS
<1>2. i \in Nat /\ j \in Nat
  BY <1>1 DEF WalkInv, Apart
<1>3. \A a, c \in DOMAIN windows : a < c => windows[a].oos[2] < windows[c].oos[1]
  BY <1>1 DEF WalkInv, Apart
<1>4. {windows[i].oos[1], windows[i].oos[2], windows[j].oos[1], windows[j].oos[2]} \subseteq Nat
  BY <1>1 DEF WalkInv, Apart
<1>5. ~(i < j)
  BY <1>3, <1>4 DEF W!In
<1>6. ~(j < i)
  BY <1>3, <1>4 DEF W!In
<1> QED BY <1>2, <1>5, <1>6

LEMMA LabelOos ==
    ASSUME WalkInv, NEW x \in Nat
    PROVE  /\ W!Label(x, W!OosSpans) \in Nat
           /\ \A i \in DOMAIN windows : W!In(x, windows[i].oos) => W!Label(x, W!OosSpans) = i /\ i # 0
           /\ W!Label(x, W!OosSpans) # 0 =>
                 /\ W!Label(x, W!OosSpans) \in DOMAIN windows
                 /\ W!In(x, windows[W!Label(x, W!OosSpans)].oos)
<1> DEFINE hit == {k \in DOMAIN W!OosSpans : W!In(x, W!OosSpans[k])}
<1>1. W!Label(x, W!OosSpans) = IF hit = {} THEN 0 ELSE CHOOSE k \in hit : \A j \in hit : k <= j
  BY DEF W!Label
<1>2. hit = {k \in DOMAIN windows : W!In(x, windows[k].oos)}
  BY DEF W!OosSpans
<1> HIDE DEF hit
<1>3. \A k \in hit : k \in Nat /\ k # 0
  <2>1. \A k \in DOMAIN windows : windows # <<>>
    OBVIOUS
  <2> QED BY <1>2, <2>1 DEF WalkInv, Apart
<1>4. \A k, j \in hit : k = j
  BY <1>2, OneBlock
<1>5. CASE hit = {}
  BY <1>1, <1>2, <1>5
<1>6. CASE hit # {}
  <2>1. PICK i \in hit : TRUE
    BY <1>6
  <2>2. hit = {i}
    BY <1>4, <2>1
  <2>3. W!Label(x, W!OosSpans) = i
    BY <1>1, <1>3, <2>2
  <2> QED BY <1>2, <1>3, <1>4, <2>1, <2>3
<1> QED BY <1>5, <1>6

LEMMA LabelOne ==
    ASSUME NEW x \in Nat, NEW sp
    PROVE  W!Label(x, <<sp>>) = IF W!In(x, sp) THEN 1 ELSE 0
<1> DEFINE hit == {k \in DOMAIN <<sp>> : W!In(x, <<sp>>[k])}
<1>1. W!Label(x, <<sp>>) = IF hit = {} THEN 0 ELSE CHOOSE k \in hit : \A j \in hit : k <= j
  BY DEF W!Label
<1>2. DOMAIN <<sp>> = {1} /\ <<sp>>[1] = sp
  OBVIOUS
<1>3. hit = IF W!In(x, sp) THEN {1} ELSE {}
  BY <1>2
<1> HIDE DEF hit
<1> QED BY <1>1, <1>3

(* The bar right before another one.                                          *)
Preceding(a, c) == a < c /\ ~\E d \in bars : a < d /\ d < c

LEMMA EarnedBy ==
    ASSUME WalkInv, NEW i \in DOMAIN windows
    PROVE  W!PerWindow(i).oos.earned =
               {x \in bars : /\ W!In(x, windows[i].oos)
                             /\ \E a \in bars : Preceding(a, x) /\ W!In(a, windows[i].oos)}
<1> DEFINE sp == windows[i].oos
           label == W!Mask(<<sp>>)
<1>1. W!PerWindow(i).oos.earned = W!Stitch(label)
  BY DEF W!PerWindow
<1>2. \A x \in bars : label[x] = IF W!In(x, sp) THEN 1 ELSE 0
  <2>1. \A x \in bars : x \in Nat
    BY DEF WalkInv
  <2> QED BY <2>1, LabelOne DEF W!Mask
<1> HIDE DEF label, sp
<1>3. W!Stitch(label) = {x \in bars : /\ label[x] # 0
                                      /\ \E a \in bars : /\ a < x /\ label[a] = label[x]
                                                         /\ ~\E d \in bars : a < d /\ d < x}
  BY DEF W!Stitch
<1>4. \A x \in bars : \A a \in bars : label[x] # 0 => (label[a] = label[x] <=> W!In(a, sp))
  BY <1>2
<1>5. \A x \in bars : label[x] # 0 <=> W!In(x, sp)
  BY <1>2
<1>6. W!Stitch(label) = {x \in bars : /\ W!In(x, sp)
                                      /\ \E a \in bars : Preceding(a, x) /\ W!In(a, sp)}
  BY <1>3, <1>4, <1>5 DEF Preceding
<1> QED BY <1>1, <1>6 DEF sp

LEMMA PoolEarns ==
    ASSUME WalkInv
    PROVE  W!PooledOut.earned =
               {x \in bars : \E i \in DOMAIN windows :
                  /\ W!In(x, windows[i].oos)
                  /\ \E a \in bars : Preceding(a, x) /\ W!In(a, windows[i].oos)}
<1> DEFINE label == W!Mask(W!OosSpans)
           earns(x) == \E i \in DOMAIN windows :
                          /\ W!In(x, windows[i].oos)
                          /\ \E a \in bars : Preceding(a, x) /\ W!In(a, windows[i].oos)
<1>0. \A x \in bars : x \in Nat
  BY DEF WalkInv
<1>1. \A x \in bars :
         /\ \A i \in DOMAIN windows : W!In(x, windows[i].oos) => label[x] = i /\ i # 0
         /\ label[x] # 0 => label[x] \in DOMAIN windows /\ W!In(x, windows[label[x]].oos)
  BY <1>0, LabelOos DEF W!Mask
<1>2. W!PooledOut.earned = W!Stitch(label)
  BY DEF W!PooledOut
<1> HIDE DEF label
<1>3. W!Stitch(label) = {x \in bars : /\ label[x] # 0
                                      /\ \E a \in bars : /\ a < x /\ label[a] = label[x]
                                                         /\ ~\E d \in bars : a < d /\ d < x}
  BY DEF W!Stitch
<1>4. ASSUME NEW x \in bars
      PROVE  earns(x) <=> (label[x] # 0 /\ \E a \in bars : Preceding(a, x) /\ label[a] = label[x])
  <2>1. ASSUME earns(x) PROVE label[x] # 0 /\ \E a \in bars : Preceding(a, x) /\ label[a] = label[x]
    BY <1>1, <2>1
  <2>2. ASSUME label[x] # 0, NEW a \in bars, Preceding(a, x), label[a] = label[x] PROVE earns(x)
    BY <1>1, <2>2
  <2> QED BY <2>1, <2>2
<1>5. W!Stitch(label) = {x \in bars : earns(x)}
  BY <1>3, <1>4 DEF Preceding
<1> QED BY <1>2, <1>5

(* What walk-forward claims of its windows follows.                           *)
LEMMA PoolMatches == WalkInv => W!PoolIsItsWindows
<1> SUFFICES ASSUME WalkInv PROVE W!PoolIsItsWindows
  OBVIOUS
<1> DEFINE pool == W!PooledOut.earned
           own(i) == W!PerWindow(i).oos.earned
<1>1. \A x : x \in pool <=> \E i \in DOMAIN windows : x \in own(i)
  BY PoolEarns, EarnedBy
<1> HIDE DEF pool, own
<1>2. pool = UNION {own(i) : i \in DOMAIN windows}
  BY <1>1
<1> QED BY <1>2 DEF W!PoolIsItsWindows, pool, own

LEMMA OosOut == WalkInv => W!OosStaysOut
<1> SUFFICES ASSUME WalkInv, NEW x \in W!PooledIn.earned
             PROVE  /\ W!Label(x, W!OosSpans) = 0
                    /\ \A a \in bars : (a < x /\ ~\E c \in bars : a < c /\ c < x) => W!Label(a, W!OosSpans) = 0
  BY DEF W!OosStaysOut
<1> DEFINE label == W!InSampleMask
<1>0. \A y \in bars : y \in Nat
  BY DEF WalkInv
<1>1. \A y \in bars : label[y] # 0 => W!Label(y, W!OosSpans) = 0
  <2>1. \A y \in bars : W!Label(y, W!OosSpans) \in Nat
    BY <1>0, LabelOos
  <2>2. \A y \in bars : label[y] = IF W!Label(y, W!OosSpans) > 0 THEN 0 ELSE W!Label(y, W!IsSpans)
    BY DEF W!InSampleMask
  <2> QED BY <2>1, <2>2
<1> HIDE DEF label
<1>2. x \in bars /\ label[x] # 0
      /\ \E a \in bars : a < x /\ label[a] = label[x] /\ ~\E d \in bars : a < d /\ d < x
  BY DEF W!PooledIn, W!Stitch, label
<1>3. PICK p \in bars : p < x /\ label[p] # 0 /\ ~\E d \in bars : p < d /\ d < x
  BY <1>2
<1>4. \A a \in bars : (a < x /\ ~\E c \in bars : a < c /\ c < x) => a = p
  BY <1>0, <1>2, <1>3
<1> QED BY <1>1, <1>2, <1>3, <1>4

LEMMA TradesOnce == WalkInv => W!TradeTestedOnce
<1> SUFFICES ASSUME WalkInv PROVE W!TradeTestedOnce
  OBVIOUS
<1> DEFINE when == IF trade.exit > 0 THEN trade.exit ELSE trade.entry
<1>1. when \in Nat
  BY DEF WalkInv
<1>2. W!PooledOut.trades <=> \E i \in DOMAIN windows : W!In(when, windows[i].oos)
  BY DEF W!PooledOut, W!TradeIn, W!OosSpans
<1>3. ASSUME NEW i \in DOMAIN windows
      PROVE  W!PerWindow(i).oos.trades <=> W!In(when, windows[i].oos)
  <2>1. W!PerWindow(i).oos.trades <=> W!TradeIn(<<windows[i].oos>>)
    BY DEF W!PerWindow
  <2>2. DOMAIN <<windows[i].oos>> = {1} /\ <<windows[i].oos>>[1] = windows[i].oos
    OBVIOUS
  <2>3. W!TradeIn(<<windows[i].oos>>) <=> W!In(when, windows[i].oos)
    BY <2>2 DEF W!TradeIn
  <2> QED BY <2>1, <2>3
<1> HIDE DEF when
<1>4. \A i, j \in DOMAIN windows : (W!PerWindow(i).oos.trades /\ W!PerWindow(j).oos.trades) => i = j
  BY <1>1, <1>3, OneBlock
<1>5. W!PooledOut.trades <=> \E i \in DOMAIN windows : W!PerWindow(i).oos.trades
  BY <1>2, <1>3
<1> QED BY <1>4, <1>5 DEF W!TradeTestedOnce

LEMMA BenchApart == WalkInv => W!BenchmarkPerWindow
<1> SUFFICES ASSUME WalkInv, NEW i \in DOMAIN windows
             PROVE  /\ W!BenchMoves(i, bars) = W!PerWindow(i).oos.earned
                    /\ \A j \in DOMAIN windows :
                         i # j => W!BenchMoves(i, 1..units) \cap W!BenchMoves(j, 1..units) = {}
  BY DEF W!BenchmarkPerWindow
<1>0. /\ \A x \in bars : x \in Nat
      /\ windows[i].oos[1] \in Nat /\ windows[i].oos[2] \in Nat /\ units \in Nat
  <2>1. windows # <<>>
    OBVIOUS
  <2> QED BY <2>1 DEF WalkInv, Apart
<1>1. \A S2 : \A x : x \in W!BenchMoves(i, S2) <=>
         /\ x \in S2 /\ W!In(x, windows[i].oos)
         /\ \E a \in S2 : a < x /\ W!In(a, windows[i].oos)
  BY DEF W!BenchMoves, W!WindowBench
<1>2. ASSUME NEW x \in bars, W!In(x, windows[i].oos), NEW a \in bars, a < x, W!In(a, windows[i].oos)
      PROVE  \E p \in bars : Preceding(p, x) /\ W!In(p, windows[i].oos)
  <2> DEFINE V == {y \in bars : y < x}
  <2>1. V \in SUBSET Nat /\ V # {} /\ \A y \in V : y <= x
    BY <1>0, <1>2
  <2>2. PICK p \in V : \A y \in V : y <= p
    BY <1>0, <2>1, GreatestOf
  <2>3. Preceding(p, x)
    BY <1>0, <2>2 DEF Preceding
  <2>4. a <= p /\ p < x
    BY <1>2, <2>2
  <2>5. W!In(p, windows[i].oos)
    BY <1>0, <1>2, <2>2, <2>4 DEF W!In
  <2> QED BY <2>2, <2>3, <2>5
<1>3. W!BenchMoves(i, bars) = W!PerWindow(i).oos.earned
  <2>1. ASSUME NEW x PROVE x \in W!BenchMoves(i, bars) <=> x \in W!PerWindow(i).oos.earned
    <3>1. x \in W!BenchMoves(i, bars) => x \in W!PerWindow(i).oos.earned
      BY <1>1, <1>2, EarnedBy
    <3>2. x \in W!PerWindow(i).oos.earned => x \in W!BenchMoves(i, bars)
      BY <1>1, EarnedBy DEF Preceding
    <3> QED BY <3>1, <3>2
  <2> QED BY <2>1 DEF W!BenchMoves, W!WindowBench
<1>4. ASSUME NEW j \in DOMAIN windows, i # j
      PROVE  W!BenchMoves(i, 1..units) \cap W!BenchMoves(j, 1..units) = {}
  <2>1. \A k \in DOMAIN windows : \A x \in W!BenchMoves(k, 1..units) : x \in Nat /\ W!In(x, windows[k].oos)
    BY <1>0 DEF W!BenchMoves, W!WindowBench
  <2> QED BY <1>4, <2>1, OneBlock
<1> QED BY <1>3, <1>4

-----------------------------------------------------------------------------
(* What a run is measured over, whatever was asked for.                       *)

LEMMA MeasureSteps == [Next]_all => [E!Next]_measures
<1>1. Judges => (E!Next \/ UNCHANGED measures)
  BY DEF Judges, measures
<1>2. UNCHANGED judging => UNCHANGED measures
  BY DEF judging
<1> QED BY <1>1, <1>2 DEF Next, all

LEMMA CardinalityE == \A V : E!Cardinality(V) = Cardinality(V)
BY DEF E!Cardinality, Cardinality

(* An interval of bars: how many, its first and its last.                     *)
LEMMA BarsOf ==
    ASSUME NEW a \in Nat, NEW c \in Nat, a <= c
    PROVE  E!Cardinality(a..c) = c - a + 1 /\ E!Min(a..c) = a /\ E!Max(a..c) = c
<1>1. Cardinality(a..c) = c - a + 1
  BY FS_Interval
<1>2. E!Min(a..c) = CHOOSE x \in a..c : \A y \in a..c : x <= y
  BY DEF E!Min
<1>3. E!Max(a..c) = CHOOSE x \in a..c : \A y \in a..c : x >= y
  BY DEF E!Max
<1>4. \A x \in a..c : (\A y \in a..c : x <= y) <=> x = a
  OBVIOUS
<1>5. \A x \in a..c : (\A y \in a..c : x >= y) <=> x = c
  OBVIOUS
<1>6. a \in a..c /\ c \in a..c
  OBVIOUS
<1>7. E!Min(a..c) = a
  BY <1>2, <1>4, <1>6
<1>8. E!Max(a..c) = c
  BY <1>3, <1>5, <1>6
<1> QED BY <1>1, <1>7, <1>8, CardinalityE

(* The cut leaves a bar on either side.                                       *)
LEMMA CutInside ==
    ASSUME NEW k \in Nat, k >= 2, NEW r \in Nat \X Nat, r[1] # 0, r[2] # 0
    PROVE  E!Cut(k, r) \in 1..(k - 1)
<1> DEFINE q == (k * r[1]) \div (r[1] + r[2])
           u == {q, 1}
<1>1. q \in Nat
  <2>1. k * r[1] \in Nat /\ r[1] + r[2] \in Nat \ {0}
    OBVIOUS
  <2> QED BY <2>1, DivMod, Zenon
<1>2. E!Cut(k, r) = E!Min({E!Max({q, 1}), k - 1})
  BY DEF E!Cut
<1> HIDE DEF q
<1>3. E!Max({q, 1}) \in Nat /\ E!Max({q, 1}) >= 1
  <2>1. E!Max({q, 1}) = CHOOSE x \in {q, 1} : \A y \in {q, 1} : x >= y
    BY DEF E!Max
  <2>2. \E x \in {q, 1} : \A y \in {q, 1} : x >= y
    BY <1>1
  <2>3. E!Max({q, 1}) \in {q, 1} /\ \A y \in {q, 1} : E!Max({q, 1}) >= y
    BY <2>1, <2>2
  <2> QED BY <1>1, <2>3
<1> DEFINE m == E!Max({q, 1})
<1> HIDE DEF m
<1>4. m \in Nat /\ m >= 1
  BY <1>3 DEF m
<1>5. E!Min({m, k - 1}) = CHOOSE x \in {m, k - 1} : \A y \in {m, k - 1} : x <= y
  BY DEF E!Min
<1>6. \E x \in {m, k - 1} : \A y \in {m, k - 1} : x <= y
  BY <1>4
<1>7. E!Min({m, k - 1}) \in {m, k - 1} /\ \A y \in {m, k - 1} : E!Min({m, k - 1}) <= y
  BY <1>5, <1>6
<1>8. E!Min({m, k - 1}) \in 1..(k - 1)
  BY <1>4, <1>7
<1> QED BY <1>2, <1>8 DEF m

(* Rounding: exact where there is nothing to round, monotonic, and two apart  *)
(* at least where the numbers are two apart.                                  *)
LEMMA RoundExact ==
    ASSUME NEW b \in Nat \ {0}, NEW q \in Nat
    PROVE  E!Round(q * b, b) = q
<1>1. q * b = b * q + 0 /\ 0 \in 0..(b - 1)
  OBVIOUS
<1>2. (q * b) \div b = q /\ (q * b) % b = 0
  BY <1>1, DivIs
<1>3. ~(2 * 0 > b) /\ ~(2 * 0 = b)
  OBVIOUS
<1> QED BY <1>2, <1>3 DEF E!Round

LEMMA RoundApart ==
    ASSUME NEW b \in Nat \ {0}, NEW x \in Nat, NEW y \in Nat, x + 2 * b <= y
    PROVE  /\ E!Round(x, b) \in Nat /\ E!Round(y, b) \in Nat
           /\ E!Round(x, b) + 2 <= E!Round(y, b)
<1> DEFINE d == x \div b
           m == x % b
           e == y \div b
           r == y % b
<1>1. d \in Nat /\ m \in 0..(b - 1) /\ x = b * d + m
  BY DivMod, Zenon
<1>2. e \in Nat /\ r \in 0..(b - 1) /\ y = b * e + r
  BY DivMod, Zenon
<1>3. d + 2 <= e
  <2>1. x + b * 2 <= y
    OBVIOUS
  <2> QED BY <2>1, DivMore
<1>4. E!Round(x, b) = (IF 2 * m > b \/ (2 * m = b /\ d % 2 = 1) THEN d + 1 ELSE d)
  BY DEF E!Round
<1>5. E!Round(y, b) = (IF 2 * r > b \/ (2 * r = b /\ e % 2 = 1) THEN e + 1 ELSE e)
  BY DEF E!Round
<1>6. e = d + 2 => m <= r /\ (e % 2 = d % 2)
  <2> SUFFICES ASSUME e = d + 2 PROVE m <= r /\ (e % 2 = d % 2)
    OBVIOUS
  <2>1. b * e = b * d + 2 * b
    <3>1. b * (d + 2) = b * d + 2 * b
      BY <1>1
    <3> QED BY <3>1
  <2> DEFINE u == b * d
             v == b * e
  <2>2. u \in Nat /\ v \in Nat /\ v = u + 2 * b /\ x = u + m /\ y = v + r
    BY <1>1, <1>2, <2>1
  <2>3. m <= r
    <3> HIDE DEF u, v, m, r
    <3> QED BY <1>1, <1>2, <2>2
  <2>4. (d + 2) % 2 = d % 2
    <3> HIDE DEF d
    <3> QED BY <1>1
  <2> QED BY <2>3, <2>4
<1> HIDE DEF d, m, e, r
<1> QED BY <1>1, <1>2, <1>3, <1>4, <1>5, <1>6

(* The periods of a run of l bars: from 0 to l, two bars each at least.       *)
LEMMA EdgesOfPeriods ==
    ASSUME NEW k \in Nat, k >= 2, NEW l \in Nat, l >= 2 * k
    PROVE  /\ E!PeriodEdge(0, l, k) = 0 /\ E!PeriodEdge(k, l, k) = l
           /\ \A i \in 1..k : /\ E!PeriodEdge(i - 1, l, k) \in Nat /\ E!PeriodEdge(i, l, k) \in Nat
                              /\ E!PeriodEdge(i - 1, l, k) + 2 <= E!PeriodEdge(i, l, k)
<1>1. E!PeriodEdge(0, l, k) = 0
  <2>1. 0 * l = 0 * k
    OBVIOUS
  <2> QED BY <2>1, RoundExact DEF E!PeriodEdge
<1>2. E!PeriodEdge(k, l, k) = l
  <2>1. k * l = l * k
    OBVIOUS
  <2> QED BY <2>1, RoundExact DEF E!PeriodEdge
<1>3. ASSUME NEW i \in 1..k
      PROVE  /\ E!PeriodEdge(i - 1, l, k) \in Nat /\ E!PeriodEdge(i, l, k) \in Nat
             /\ E!PeriodEdge(i - 1, l, k) + 2 <= E!PeriodEdge(i, l, k)
  <2>1. i * l = (i - 1) * l + l /\ (i - 1) * l \in Nat /\ i * l \in Nat
    OBVIOUS
  <2> DEFINE u == (i - 1) * l
             v == i * l
  <2>2. u \in Nat /\ v \in Nat /\ v = u + l
    BY <2>1
  <2> HIDE DEF u, v
  <2>3. u + 2 * k <= v
    BY <2>2
  <2>4. /\ E!Round(u, k) \in Nat /\ E!Round(v, k) \in Nat
        /\ E!Round(u, k) + 2 <= E!Round(v, k)
    BY <2>2, <2>3, RoundApart
  <2> QED BY <2>4 DEF E!PeriodEdge, u, v
<1> QED BY <1>1, <1>2, <1>3

(* What was asked for; the case in hand is one of those asked for.            *)
AskType ==
    /\ ask.cases \in Seq(Nat \X Nat) /\ ask.cases # <<>>
    /\ ask.ratio \in Nat \X Nat /\ ask.warmup \in Nat /\ ask.bench \in SUBSET Nat /\ ask.n \in Nat
    /\ ask.tool \in E!OneSplit => \A i \in DOMAIN ask.cases : ask.cases[i] = ask.cases[1]
InHand ==
    /\ answered \in Nat
    /\ phase \in {"split", "run", "measure"} => answered < Len(ask.cases)

(* The holdout that was fixed is one of the case in hand: of the only case    *)
(* there is where it is fixed once.                                           *)
HeldOut ==
    phase \in {"run", "measure"} =>
        /\ split.first = E!First /\ split.first \in Nat
        /\ split.oos \in (split.first + 1)..E!Case[2]

(* The run in hand starts where the holdout was counted from.                 *)
RunInHand ==
    phase = "measure" =>
        /\ ask.warmup <= E!Case[2] - E!Case[1]
        /\ result.bars = split.first..E!Case[2]
        /\ \E entry \in result.bars, exit \in result.bars \cup {0} : result.trades = {<<entry, exit>>}

RowSays == E!HalvesPartition /\ E!MarketSameBars /\ E!PeriodsTile
MeasureInv == AskType /\ InHand /\ HeldOut /\ RunInHand /\ RowSays

LEMMA NoRowSays == row = E!NoRow => RowSays
BY DEF E!NoRow, E!NoResult, RowSays, E!HalvesPartition, E!MarketSameBars, E!PeriodsTile

LEMMA MeasureInit == E!EvaluateAssumption /\ Init => MeasureInv
<1> SUFFICES ASSUME E!EvaluateAssumption, Init PROVE MeasureInv
  OBVIOUS
<1>1. phase = "split" /\ answered = 0 /\ row = E!NoRow
  BY DEF Init, NoMeasures, E!Init
<1>2. AskType
  <2>1. CASE loop = "measures"
    <3>1. /\ ask \in [tool: E!Tools, cases: Tables, ratio: Ratios, warmup: Warmups, bench: Benches,
                      unreadable: BOOLEAN, n: NPeriods]
          /\ ask.tool \in {"backtest"} \cup E!OneSplit => \A i \in DOMAIN ask.cases : ask.cases[i] = ask.cases[1]
      BY <2>1 DEF Init, E!Init
    <3>2. ask.cases \in Tables /\ ask.ratio \in Ratios /\ ask.warmup \in Warmups /\ ask.bench \in Benches
          /\ ask.n \in NPeriods
      BY <3>1
    <3> QED BY <3>1, <3>2 DEF E!EvaluateAssumption, AskType
  <2>2. CASE loop # "measures"
    <3>1. ask = [tool |-> "backtest", cases |-> <<<<1, 9>>>>, ratio |-> <<4, 1>>, warmup |-> 0,
                 bench |-> {}, unreadable |-> FALSE, n |-> 1]
      BY <2>2 DEF Init, NoMeasures
    <3>2. /\ ask.tool = "backtest" /\ ask.cases = <<<<1, 9>>>> /\ ask.ratio = <<4, 1>> /\ ask.warmup = 0
          /\ ask.bench = {} /\ ask.n = 1
      BY <3>1
    <3> QED BY <3>2 DEF AskType, E!OneSplit
  <2> QED BY <2>1, <2>2
<1>3. Len(ask.cases) \in Nat /\ 0 < Len(ask.cases)
  BY <1>2 DEF AskType
<1>4. InHand /\ HeldOut /\ RunInHand
  BY <1>1, <1>3 DEF InHand, HeldOut, RunInHand
<1> QED BY <1>1, <1>2, <1>4, NoRowSays DEF MeasureInv

LEMMA CaseType ==
    ASSUME AskType, answered \in Nat, answered < Len(ask.cases)
    PROVE  E!Case \in Nat \X Nat /\ E!Case[1] \in Nat /\ E!Case[2] \in Nat
<1>1. Len(ask.cases) \in Nat /\ ask.cases \in Seq(Nat \X Nat)
  BY DEF AskType
<1>2. answered + 1 \in 1..Len(ask.cases)
  BY <1>1
<1>3. E!Case \in Nat \X Nat
  BY <1>1, <1>2 DEF E!Case
<1> QED BY <1>3

(* What comes after a case: the next one of the same dates where the holdout  *)
(* is fixed once, and otherwise the next one's holdout.                       *)
LEMMA AfterCase ==
    ASSUME AskType, answered \in Nat, answered < Len(ask.cases), UNCHANGED ask,
           answered' = answered + 1, phase' = E!After(answered + 1)
    PROVE  /\ InHand' /\ phase' # "measure"
           /\ phase' = "run" => E!Case' = E!Case /\ ask.tool \in E!OneSplit
<1>1. Len(ask.cases) \in Nat
  BY DEF AskType
<1>2. InHand'
  BY <1>1 DEF InHand, E!After
<1>3. phase' # "measure" /\ (phase' = "run" => ask.tool \in E!OneSplit /\ answered + 1 < Len(ask.cases))
  BY <1>1 DEF E!After
<1>4. phase' = "run" => ask.cases[answered + 2] = ask.cases[answered + 1]
  <2>1. phase' = "run" => answered + 1 \in DOMAIN ask.cases /\ answered + 2 \in DOMAIN ask.cases
    <3>1. DOMAIN ask.cases = 1..Len(ask.cases)
      BY DEF AskType
    <3> QED BY <1>1, <1>3, <3>1
  <2> QED BY <1>3, <2>1 DEF AskType
<1>5. E!Case' = ask.cases[answered + 2] /\ E!Case = ask.cases[answered + 1]
  <2>1. answered' + 1 = answered + 2
    OBVIOUS
  <2> QED BY <2>1 DEF E!Case
<1> QED BY <1>2, <1>3, <1>4, <1>5

(* The row of a case that was measured.                                       *)
LEMMA MeasuredRow ==
    ASSUME MeasureInv, phase = "measure",
           row' = [error |-> FALSE, first |-> split.first, oos |-> split.oos, full |-> result,
                   ins |-> E!InSample, out |-> E!OutOfSample, market |-> E!Market,
                   periods |-> E!Periods]
    PROVE  RowSays'
<1> DEFINE a == split.first
           c == E!Case[2]
<1>0. /\ E!Case \in Nat \X Nat /\ c \in Nat /\ a \in Nat /\ split.oos \in (a + 1)..c
      /\ result.bars = a..c
  <2>1. E!Case \in Nat \X Nat /\ c \in Nat
    BY CaseType DEF MeasureInv, InHand
  <2> QED BY <2>1 DEF MeasureInv, HeldOut, RunInHand
<1>1. PICK entry \in result.bars, exit \in result.bars \cup {0} : result.trades = {<<entry, exit>>}
  BY DEF MeasureInv, RunInHand
<1> HIDE DEF a, c
<1>2. a <= c /\ E!Min(result.bars) = a /\ E!Max(result.bars) = c /\ E!Cardinality(result.bars) = c - a + 1
  <2>1. a \in Nat /\ c \in Nat /\ a <= c
    BY <1>0
  <2>2. E!Min(a..c) = a /\ E!Max(a..c) = c /\ E!Cardinality(a..c) = c - a + 1
    BY <2>1, BarsOf, Zenon
  <2> QED BY <1>0, <2>1, <2>2
<1>3. /\ row'.full = result /\ row'.ins = E!InSample /\ row'.out = E!OutOfSample
      /\ row'.market = E!Market /\ row'.periods = E!Periods
  OBVIOUS
<1>4. /\ E!InSample.bars = {b \in result.bars : b >= 0 /\ b < split.oos}
      /\ E!InSample.trades = {t \in result.trades : E!When(t) >= 0 /\ E!When(t) < split.oos}
  BY DEF E!InSample, E!WindowMetrics
<1>5. /\ E!OutOfSample.bars = {b \in result.bars : b >= split.oos /\ b <= c}
      /\ E!OutOfSample.trades = {t \in result.trades : E!When(t) >= split.oos /\ E!When(t) <= c}
  BY <1>2 DEF E!OutOfSample, E!WindowMetrics, E!Late
<1>6. \A t \in result.trades : E!When(t) \in a..c
  <2>1. \A t \in result.trades : t = <<entry, exit>>
    BY <1>1
  <2>2. E!When(<<entry, exit>>) \in a..c
    BY <1>0, <1>1 DEF E!When
  <2> QED BY <2>1, <2>2
<1>7. E!HalvesPartition'
  <2>1. /\ E!InSample.bars \cup E!OutOfSample.bars = result.bars
        /\ E!InSample.bars \cap E!OutOfSample.bars = {}
    BY <1>0, <1>4, <1>5
  <2>2. /\ E!InSample.trades \cup E!OutOfSample.trades = result.trades
        /\ E!InSample.trades \cap E!OutOfSample.trades = {}
    <3>1. \A t \in result.trades :
             /\ (E!When(t) >= 0 /\ E!When(t) < split.oos) \/ (E!When(t) >= split.oos /\ E!When(t) <= c)
             /\ ~(E!When(t) < split.oos /\ E!When(t) >= split.oos)
      BY <1>0, <1>6
    <3> QED BY <1>4, <1>5, <3>1
  <2>3. a \in E!InSample.bars /\ c \in E!OutOfSample.bars
    BY <1>0, <1>2, <1>4, <1>5
  <2> QED BY <1>3, <2>1, <2>2, <2>3 DEF E!HalvesPartition
<1>8. E!MarketSameBars'
  <2>1. \A b \in E!Market : a <= b /\ b <= c
    BY DEF E!Market, E!MarketBars, a, c
  <2> QED BY <1>2, <1>3, <2>1 DEF E!MarketSameBars
<1>9. E!PeriodsTile'
  <2> DEFINE l == c - a + 1
             k == ask.n
             edge(i) == E!PeriodEdge(i, l, k)
  <2>1. E!Periods = IF k < 2 \/ l < 2 * k THEN <<>>
                    ELSE [i \in 1..k |-> <<a + edge(i - 1), a + edge(i) - 1>>]
    BY <1>2 DEF E!Periods
  <2>2. k \in Nat /\ l \in Nat
    BY <1>0, <1>2 DEF MeasureInv, AskType
  <2>3. CASE k < 2 \/ l < 2 * k
    <3>1. E!Periods = <<>>
      BY <2>1, <2>3
    <3> QED BY <1>3, <3>1 DEF E!PeriodsTile
  <2>4. CASE ~(k < 2 \/ l < 2 * k)
    <3> DEFINE pp == E!Periods
    <3>1. /\ edge(0) = 0 /\ edge(k) = l
          /\ \A i \in 1..k : edge(i - 1) \in Nat /\ edge(i) \in Nat /\ edge(i - 1) + 2 <= edge(i)
      BY <2>2, <2>4, EdgesOfPeriods
    <3>2. pp = [i \in 1..k |-> <<a + edge(i - 1), a + edge(i) - 1>>]
      BY <2>1, <2>4
    <3> HIDE DEF pp, edge
    <3>3. DOMAIN pp = 1..k /\ Len(pp) = k /\ pp # <<>>
      BY <2>2, <2>4, <3>2
    <3>4. \A i \in 1..k : pp[i][1] = a + edge(i - 1) /\ pp[i][2] = a + edge(i) - 1
      BY <3>2
    <3>5. pp[1][1] = a /\ pp[k][2] = c
      <4>1. 1 \in 1..k /\ k \in 1..k /\ edge(1 - 1) = 0
        BY <2>2, <2>4, <3>1
      <4>2. pp[1][1] = a + 0 /\ pp[k][2] = a + l - 1
        BY <3>1, <3>4, <4>1
      <4> QED BY <1>0, <4>2
    <3>6. \A i \in 1..k : pp[i][2] > pp[i][1]
      BY <1>0, <3>1, <3>4
    <3>7. ASSUME NEW i \in 1..(k - 1) PROVE pp[i + 1][1] = pp[i][2] + 1
      <4>1. i \in 1..k /\ i + 1 \in 1..k /\ (i + 1) - 1 = i
        BY <2>2
      <4>2. pp[i + 1][1] = a + edge(i) /\ pp[i][2] = a + edge(i) - 1 /\ edge(i) \in Nat
        BY <3>1, <3>4, <4>1
      <4> QED BY <1>0, <4>2
    <3>8. row'.periods = pp /\ E!Min(row'.full.bars) = a /\ E!Max(row'.full.bars) = c
      BY <1>2, <1>3 DEF pp
    <3>9. /\ pp[1][1] = E!Min(row'.full.bars) /\ pp[Len(pp)][2] = E!Max(row'.full.bars)
          /\ \A i \in DOMAIN pp : pp[i][2] > pp[i][1]
          /\ \A i \in 1..(Len(pp) - 1) : pp[i + 1][1] = pp[i][2] + 1
      BY <3>3, <3>5, <3>6, <3>7, <3>8
    <3> QED BY <3>8, <3>9 DEF E!PeriodsTile
  <2> QED BY <2>3, <2>4
<1> QED BY <1>7, <1>8, <1>9 DEF RowSays

LEMMA MeasureStep == MeasureInv /\ [E!Next]_measures => MeasureInv'
<1> SUFFICES ASSUME MeasureInv, [E!Next]_measures PROVE MeasureInv'
  OBVIOUS
<1>0. ASSUME UNCHANGED ask PROVE AskType'
  BY <1>0 DEF MeasureInv, AskType
<1>1. CASE E!SplitPoint
  <2>1. /\ phase = "split" /\ phase' = "run" /\ UNCHANGED <<ask, result, answered, row>> /\ ~E!SplitFails
        /\ split' = [first |-> E!First, oos |-> E!First + E!Cut(E!Cardinality(E!Stamps), ask.ratio)]
    BY <1>1 DEF E!SplitPoint
  <2>2. answered \in Nat /\ answered < Len(ask.cases) /\ E!Case \in Nat \X Nat
        /\ E!Case[1] \in Nat /\ E!Case[2] \in Nat
    BY <2>1, CaseType DEF MeasureInv, InHand
  <2>3. E!First \in Nat /\ ask.warmup \in Nat
    BY <2>2 DEF E!First, E!Dropped, MeasureInv, AskType
  <2> DEFINE k == E!Cardinality(E!Stamps)
  <2>4. E!First <= E!Case[2]
    <3> SUFFICES ASSUME ~(E!First <= E!Case[2]) PROVE FALSE
      OBVIOUS
    <3>1. E!Stamps = {}
      BY <2>2, <2>3 DEF E!Stamps
    <3>2. E!Cardinality(E!Stamps) = 0
      BY <3>1, CardinalityE, FS_EmptySet
    <3> QED BY <2>1, <3>2 DEF E!SplitFails
  <2>5. k = E!Case[2] - E!First + 1 /\ k \in Nat
    <3>1. k = E!Case[2] - E!First + 1
      BY <2>2, <2>3, <2>4, BarsOf, Zenon DEF E!Stamps
    <3> HIDE DEF k
    <3> QED BY <2>2, <2>3, <2>4, <3>1
  <2>6. k >= 4 /\ ask.ratio[1] # 0 /\ ask.ratio[2] # 0 /\ ask.ratio \in Nat \X Nat
    BY <2>1, <2>5 DEF E!SplitFails, MeasureInv, AskType
  <2>7. E!Cut(k, ask.ratio) \in 1..(k - 1)
    BY <2>5, <2>6, CutInside
  <2>8. E!First' = E!First /\ E!Case' = E!Case
    BY <2>1 DEF E!First, E!Case, E!Dropped
  <2>9. HeldOut'
    <3>1. split'.first = E!First /\ split'.oos = E!First + E!Cut(k, ask.ratio)
      BY <2>1
    <3>2. split'.oos \in (split'.first + 1)..E!Case[2]
      <4> HIDE DEF k
      <4> QED BY <2>2, <2>3, <2>5, <2>7, <3>1
    <3> QED BY <2>3, <2>8, <3>1, <3>2 DEF HeldOut
  <2>10. InHand' /\ RunInHand' /\ RowSays'
    BY <2>1, <2>2 DEF MeasureInv, InHand, RunInHand, RowSays, E!HalvesPartition, E!MarketSameBars, E!PeriodsTile
  <2> QED BY <1>0, <2>1, <2>9, <2>10 DEF MeasureInv
<1>2. CASE E!SplitRaises
  <2>1. /\ phase = "split" /\ UNCHANGED <<ask, split, result>>
        /\ \/ /\ ask.tool = "regimes" /\ answered' = answered + 1 /\ row' = E!NoRow
              /\ phase' = E!After(answered + 1)
           \/ phase' = "raised" /\ UNCHANGED <<answered, row>>
    BY <1>2 DEF E!SplitRaises
  <2>2. answered \in Nat /\ answered < Len(ask.cases) /\ AskType
    BY <2>1 DEF MeasureInv, InHand
  <2>3. CASE phase' = "raised" /\ UNCHANGED <<answered, row>>
    <3>1. InHand' /\ HeldOut' /\ RunInHand'
      BY <2>2, <2>3 DEF InHand, HeldOut, RunInHand
    <3>2. RowSays'
      BY <2>3 DEF MeasureInv, RowSays, E!HalvesPartition, E!MarketSameBars, E!PeriodsTile
    <3> QED BY <1>0, <2>1, <3>1, <3>2 DEF MeasureInv
  <2>4. CASE /\ ask.tool = "regimes" /\ answered' = answered + 1 /\ row' = E!NoRow
             /\ phase' = E!After(answered + 1)
    <3>1. InHand' /\ phase' # "measure" /\ phase' # "run"
      BY <2>1, <2>2, <2>4, AfterCase DEF E!OneSplit
    <3>2. HeldOut' /\ RunInHand'
      BY <3>1 DEF HeldOut, RunInHand
    <3>3. RowSays'
      BY <2>4 DEF E!NoRow, E!NoResult, RowSays, E!HalvesPartition, E!MarketSameBars, E!PeriodsTile
    <3> QED BY <1>0, <2>1, <3>1, <3>2, <3>3 DEF MeasureInv
  <2> QED BY <2>1, <2>3, <2>4
<1>3. CASE E!Run
  <2>1. phase = "run" /\ row' = E!NoRow /\ UNCHANGED <<ask, split, answered>>
    BY <1>3 DEF E!Run
  <2>2. answered \in Nat /\ answered < Len(ask.cases) /\ E!Case \in Nat \X Nat
        /\ E!Case[1] \in Nat /\ E!Case[2] \in Nat /\ ask.warmup \in Nat
    BY <2>1, CaseType DEF MeasureInv, InHand, AskType
  <2>3. RowSays'
    BY <2>1 DEF E!NoRow, E!NoResult, RowSays, E!HalvesPartition, E!MarketSameBars, E!PeriodsTile
  <2>4. E!First' = E!First /\ E!Case' = E!Case
    BY <2>1 DEF E!First, E!Case, E!Dropped
  <2>5. CASE ask.warmup > E!Case[2] - E!Case[1]
    <3>1. phase' = "raised"
      BY <1>3, <2>5 DEF E!Run
    <3>2. InHand' /\ HeldOut' /\ RunInHand'
      BY <2>1, <2>2, <3>1 DEF InHand, HeldOut, RunInHand
    <3> QED BY <1>0, <2>1, <2>3, <3>2 DEF MeasureInv
  <2>6. CASE ~(ask.warmup > E!Case[2] - E!Case[1])
    <3> DEFINE bs == (E!Case[1] + ask.warmup)..E!Case[2]
    <3>1. /\ phase' = "measure"
          /\ \E entry \in bs, exit \in bs \cup {0} :
                result' = [bars |-> bs, trades |-> {<<entry, exit>>}]
      BY <1>3, <2>6 DEF E!Run
    <3>2. split.first = E!First /\ split.first \in Nat /\ split.oos \in (split.first + 1)..E!Case[2]
      BY <2>1 DEF MeasureInv, HeldOut
    <3>3. E!First = E!Case[1] + ask.warmup
      BY <2>2, <2>6 DEF E!First, E!Dropped
    <3>4. InHand' /\ HeldOut'
      BY <2>1, <2>2, <2>4, <3>1, <3>2 DEF InHand, HeldOut
    <3>5. RunInHand'
      <4>1. PICK entry \in bs, exit \in bs \cup {0} : result' = [bars |-> bs, trades |-> {<<entry, exit>>}]
        BY <3>1
      <4> HIDE DEF bs
      <4>2. result'.bars = bs /\ result'.trades = {<<entry, exit>>}
        BY <4>1
      <4>3. bs = split'.first..E!Case'[2]
        BY <2>1, <2>4, <3>2, <3>3 DEF bs
      <4>4. ask'.warmup <= E!Case'[2] - E!Case'[1]
        BY <2>1, <2>2, <2>4, <2>6
      <4> QED BY <4>1, <4>2, <4>3, <4>4 DEF RunInHand
    <3> QED BY <1>0, <2>1, <2>3, <3>4, <3>5 DEF MeasureInv
  <2> QED BY <2>5, <2>6
<1>4. CASE E!Measure
  <2>1. phase = "measure" /\ UNCHANGED <<ask, split>>
    BY <1>4 DEF E!Measure
  <2>2. answered \in Nat /\ answered < Len(ask.cases) /\ AskType
    BY <2>1 DEF MeasureInv, InHand
  <2>3. CASE ask.unreadable
    <3>1. phase' = "raised" /\ UNCHANGED <<answered, row>>
      BY <1>4, <2>3 DEF E!Measure
    <3>2. InHand' /\ HeldOut' /\ RunInHand'
      BY <2>2, <3>1 DEF InHand, HeldOut, RunInHand
    <3>3. RowSays'
      BY <3>1 DEF MeasureInv, RowSays, E!HalvesPartition, E!MarketSameBars, E!PeriodsTile
    <3> QED BY <1>0, <2>1, <3>2, <3>3 DEF MeasureInv
  <2>4. CASE ~ask.unreadable
    <3>1. /\ answered' = answered + 1 /\ phase' = E!After(answered')
          /\ row' = [error |-> FALSE, first |-> split.first, oos |-> split.oos, full |-> result,
                     ins |-> E!InSample, out |-> E!OutOfSample, market |-> E!Market,
                     periods |-> E!Periods]
      BY <1>4, <2>4 DEF E!Measure
    <3>2. RowSays'
      BY <2>1, <3>1, MeasuredRow
    <3>3. InHand' /\ phase' # "measure" /\ (phase' = "run" => E!Case' = E!Case)
      BY <2>1, <2>2, <3>1, AfterCase
    <3>4. phase' = "run" => E!First' = E!First
      BY <2>1, <3>3 DEF E!First, E!Dropped
    <3>5. HeldOut'
      BY <2>1, <3>3, <3>4 DEF MeasureInv, HeldOut
    <3>6. RunInHand'
      BY <3>3 DEF RunInHand
    <3> QED BY <1>0, <2>1, <3>2, <3>3, <3>5, <3>6 DEF MeasureInv
  <2> QED BY <2>3, <2>4
<1>5. CASE UNCHANGED measures
  BY <1>5 DEF measures, MeasureInv, AskType, InHand, HeldOut, RunInHand, RowSays, E!HalvesPartition, E!MarketSameBars,
              E!PeriodsTile, E!First, E!Case, E!Dropped
<1> QED BY <1>1, <1>2, <1>3, <1>4, <1>5 DEF E!Next

(* No bar, trade or benchmark return is scored twice, or where it was trained *)
(* on, for any range, spec and holdout: the windows make_windows rolls tile   *)
(* the range and keep the floor, what split_metrics pools is what the windows *)
(* earn, and the halves and periods of a run share its bars out between them. *)
THEOREM WindowsStayApart == Spec => []WindowsAreApart
<1>1. Init => WalkInv /\ MeasureInv
  BY SearchAssumption, WalkInit, MeasureInit DEF SearchAssumption
<1>2. (WalkInv /\ MeasureInv) /\ [Next]_all => (WalkInv /\ MeasureInv)'
  BY SearchAssumption, WalkSteps, WalkStep, MeasureSteps, MeasureStep DEF SearchAssumption
<1>3. WalkInv => /\ W!PoolIsItsWindows /\ W!OosStaysOut /\ W!TradeTestedOnce /\ W!BenchmarkPerWindow
  BY PoolMatches, OosOut, TradesOnce, BenchApart
<1>4. WalkInv => W!WindowsTile /\ W!BlocksKeepFloor
  <2>1. windows = <<>> => W!WindowsTile /\ W!BlocksKeepFloor
    BY DEF W!WindowsTile, W!BlocksKeepFloor
  <2> QED BY <2>1 DEF WalkInv, Apart
<1>5. WalkInv /\ MeasureInv => WindowsAreApart
  BY <1>3, <1>4 DEF MeasureInv, RowSays, WindowsAreApart
<1> QED BY <1>1, <1>2, <1>5, PTL DEF Spec, all

-----------------------------------------------------------------------------
(* A parameter sweep, for any grid, cap and scores.                           *)

LEMMA SweepSteps == [Next]_all => [S!Next]_sweep
<1>1. Judges => (S!Next \/ UNCHANGED sweep)
  BY DEF Judges, sweep
<1>2. UNCHANGED judging => UNCHANGED sweep
  BY DEF judging
<1> QED BY <1>1, <1>2 DEF Next, all

LEMMA CardinalityS == \A V : S!Cardinality(V) = Cardinality(V) /\ (S!IsFiniteSet(V) <=> IsFiniteSet(V))
BY DEF S!Cardinality, Cardinality, S!IsFiniteSet, IsFiniteSet


LEMMA BetterIs ==
    \/ \A a, b \in Nat : S!Better(a, b) <=> a < b
    \/ \A a, b \in Nat : S!Better(a, b) <=> a > b
BY Zenon DEF S!Better

LEMMA BetterOrders ==
    /\ \A a, b \in Nat : a = b \/ S!Better(a, b) \/ S!Better(b, a)
    /\ \A a, b \in Nat : ~(S!Better(a, b) /\ S!Better(b, a))
    /\ \A a, b, c \in Nat : S!Better(a, b) /\ S!Better(b, c) => S!Better(a, c)
    /\ \A a \in Nat : ~S!Better(a, a)
<1>1. CASE \A a, b \in Nat : S!Better(a, b) <=> a < b
  BY <1>1
<1>2. CASE \A a, b \in Nat : S!Better(a, b) <=> a > b
  BY <1>2
<1> QED BY <1>1, <1>2, BetterIs

(* Members with a number each, in the order of the better number and then of  *)
(* their place.                                                               *)
LEMMA NumbersOrder ==
    ASSUME NEW V \in SUBSET Nat, NEW v, \A i \in V : v[i] \in Nat
    PROVE  LET o == {q \in V \X V : S!Better(v[q[1]], v[q[2]]) \/ (v[q[1]] = v[q[2]] /\ q[1] < q[2])}
           IN  StrictOrder(o, V) /\ Linear(o, V)
<1> DEFINE o == {q \in V \X V : S!Better(v[q[1]], v[q[2]]) \/ (v[q[1]] = v[q[2]] /\ q[1] < q[2])}
<1>1. \A x, y \in V : <<x, y>> \in o <=> (S!Better(v[x], v[y]) \/ (v[x] = v[y] /\ x < y))
  OBVIOUS
<1> HIDE DEF o
<1>2. \A x \in V : <<x, x>> \notin o
  BY <1>1, BetterOrders
<1>3. ASSUME NEW x \in V, NEW y \in V, NEW z \in V, <<x, y>> \in o, <<y, z>> \in o PROVE <<x, z>> \in o
  <2>1. /\ S!Better(v[x], v[y]) \/ (v[x] = v[y] /\ x < y)
        /\ S!Better(v[y], v[z]) \/ (v[y] = v[z] /\ y < z)
        /\ v[x] \in Nat /\ v[y] \in Nat /\ v[z] \in Nat /\ x \in Nat /\ y \in Nat /\ z \in Nat
    BY <1>1, <1>3
  <2>2. S!Better(v[x], v[z]) \/ (v[x] = v[z] /\ x < z)
    BY <2>1, BetterOrders
  <2> QED BY <1>1, <2>2
<1>4. Linear(o, V)
  <2> SUFFICES ASSUME NEW x \in V, NEW y \in V, x # y PROVE <<x, y>> \in o \/ <<y, x>> \in o
    BY DEF Linear
  <2>1. v[x] \in Nat /\ v[y] \in Nat /\ x \in Nat /\ y \in Nat
    OBVIOUS
  <2>2. v[x] = v[y] \/ S!Better(v[x], v[y]) \/ S!Better(v[y], v[x])
    BY <2>1, BetterOrders
  <2>3. x < y \/ y < x
    BY <2>1
  <2> QED BY <1>1, <2>2, <2>3
<1> QED BY <1>2, <1>3, <1>4 DEF StrictOrder, o

(* The winner of a window is picked in sample, whatever the ranked rows.      *)
LEMMA PickSays ==
    ASSUME None \notin Nat, NEW k \in Nat, NEW rs, DOMAIN rs = 1..k,
           \A i \in 1..k : rs[i].is \in Nat \cup {None} /\ rs[i].oos \in Nat \cup {None},
           S!Picked(rs).point # None
    PROVE  /\ \A i \in DOMAIN rs :
                 (rs[i].status = "ok" /\ rs[i].is # None) => ~S!Better(rs[i].is, S!Picked(rs).is)
           /\ S!Picked(rs).rank = 1 => S!Picked(rs).oos = S!Picked(rs).best
           /\ S!Picked(rs).rank # None => ~S!Better(S!Picked(rs).oos, S!Picked(rs).best)
<1> DEFINE u == S!Usable(rs)
           held == {i \in u : rs[i].oos # None}
           ahead(i, j) == S!Better(rs[i].oos, rs[j].oos) \/ (rs[i].oos = rs[j].oos /\ i < j)
           w == CHOOSE i \in u :
                   \A j \in u : /\ ~S!Better(S!PickKey(rs[j]), S!PickKey(rs[i]))
                                /\ S!PickKey(rs[j]) = S!PickKey(rs[i]) => i <= j
           first == CHOOSE i \in held : \A j \in held \ {i} : ahead(i, j)
           best == IF held = {} THEN None ELSE rs[first].oos
           rank == IF w \notin held THEN None ELSE 1 + S!Cardinality({j \in held : ahead(j, w)})
<1>1. /\ u # {}
      /\ S!Picked(rs) = [is |-> rs[w].is, oos |-> rs[w].oos, point |-> rs[w].point, best |-> best, rank |-> rank]
  <2>1. S!NoPick.point = None
    BY DEF S!NoPick
  <2>2. S!Picked(rs) = IF u = {} \/ ~ranking.windows THEN S!NoPick
                       ELSE [is |-> rs[w].is, oos |-> rs[w].oos, point |-> rs[w].point, best |-> best, rank |-> rank]
    BY Zenon DEF S!Picked
  <2> QED BY Zenon, <2>1, <2>2
<1>2. /\ S!Picked(rs).is = rs[w].is /\ S!Picked(rs).oos = rs[w].oos
      /\ S!Picked(rs).best = best /\ S!Picked(rs).rank = rank
  BY <1>1
<1>3. u = {i \in 1..k : rs[i].status = "ok" /\ rs[i].is # None}
  BY DEF S!Usable
<1>4. /\ u \in SUBSET Nat /\ held \in SUBSET u
      /\ \A i \in u : rs[i].is \in Nat
      /\ \A i \in held : i \in u /\ rs[i].oos \in Nat
  BY <1>3
<1>5. IsFiniteSet(u) /\ IsFiniteSet(held)
  <2>1. IsFiniteSet(1..k)
    <3>1. 1 \in Int /\ k \in Int
      OBVIOUS
    <3> QED BY <3>1, FS_Interval, Zenon
  <2>2. u \subseteq 1..k
    BY <1>3
  <2>3. IsFiniteSet(u)
    BY <2>1, <2>2, FS_Subset
  <2> HIDE DEF u
  <2> QED BY <1>4, <2>3, FS_Subset
<1> HIDE DEF u
<1>6. /\ w \in u
      /\ \A j \in u : ~S!Better(rs[j].is, rs[w].is)
  <2> DEFINE v == [i \in u |-> rs[i].is]
             o == {q \in u \X u : S!Better(v[q[1]], v[q[2]]) \/ (v[q[1]] = v[q[2]] /\ q[1] < q[2])}
  <2>1. \A i \in u : v[i] \in Nat /\ v[i] = rs[i].is
    BY <1>4
  <2> HIDE DEF v
  <2>2. StrictOrder(o, u) /\ Linear(o, u)
    BY <1>4, <2>1, NumbersOrder
  <2>3. \A x, y \in u : <<x, y>> \in o <=> (S!Better(v[x], v[y]) \/ (v[x] = v[y] /\ x < y))
    OBVIOUS
  <2> HIDE DEF o
  <2>4. PICK x \in u : \A y \in u : <<y, x>> \notin o
    BY <1>1, <1>5, <2>2, FirstOf
  <2>5. \A j \in u : ~S!Better(rs[j].is, rs[x].is) /\ (rs[j].is = rs[x].is => x <= j)
    <3> SUFFICES ASSUME NEW j \in u
                 PROVE  ~S!Better(rs[j].is, rs[x].is) /\ (rs[j].is = rs[x].is => x <= j)
      OBVIOUS
    <3>1. ~S!Better(v[j], v[x]) /\ ~(v[j] = v[x] /\ j < x)
      BY <2>3, <2>4
    <3>2. v[j] = rs[j].is /\ v[x] = rs[x].is /\ j \in Nat /\ x \in Nat
      BY <1>4, <2>1
    <3> QED BY <3>1, <3>2
  <2>6. \A i : S!PickKey(rs[i]) = rs[i].is
    BY DEF S!PickKey
  <2>7. \E i \in u : \A j \in u : /\ ~S!Better(S!PickKey(rs[j]), S!PickKey(rs[i]))
                                  /\ S!PickKey(rs[j]) = S!PickKey(rs[i]) => i <= j
    BY <2>5, <2>6
  <2>8. /\ w \in u
        /\ \A j \in u : /\ ~S!Better(S!PickKey(rs[j]), S!PickKey(rs[w]))
                        /\ S!PickKey(rs[j]) = S!PickKey(rs[w]) => w <= j
    BY <2>7
  <2> HIDE DEF w
  <2> QED BY <2>6, <2>8
<1> HIDE DEF w
<1>7. \A i \in DOMAIN rs : (rs[i].status = "ok" /\ rs[i].is # None) => ~S!Better(rs[i].is, rs[w].is)
  BY <1>3, <1>6
<1>8. held # {} => first \in held /\ \A j \in held \ {first} : ahead(first, j)
  <2> DEFINE v == [i \in held |-> rs[i].oos]
             o == {q \in held \X held : S!Better(v[q[1]], v[q[2]]) \/ (v[q[1]] = v[q[2]] /\ q[1] < q[2])}
  <2>1. held \in SUBSET Nat /\ \A i \in held : v[i] \in Nat /\ v[i] = rs[i].oos
    BY <1>4
  <2> HIDE DEF v, held
  <2>2. StrictOrder(o, held) /\ Linear(o, held)
    BY <2>1, NumbersOrder
  <2>3. \A x, y \in held : <<x, y>> \in o <=> ahead(x, y)
    BY <2>1
  <2> HIDE DEF o
  <2>4. held # {} => \E x \in held : \A y \in held : <<y, x>> \notin o
    BY <1>5, <2>2, FirstOf
  <2>5. held # {} => \E x \in held : \A y \in held \ {x} : ahead(x, y)
    BY <2>2, <2>3, <2>4 DEF Linear
  <2> QED BY <2>5
<1> HIDE DEF first
<1>9. rank # None => w \in held /\ rank = 1 + Cardinality({j \in held : ahead(j, w)})
  BY CardinalityS
<1>10. IsFiniteSet({j \in held : ahead(j, w)}) /\ Cardinality({j \in held : ahead(j, w)}) \in Nat
  <2>1. IsFiniteSet({j \in held : ahead(j, w)})
    BY <1>5, FS_Subset
  <2> QED BY <2>1, FS_CardinalityType
<1>11. rank = 1 => rs[w].oos = best
  <2> SUFFICES ASSUME rank = 1 PROVE rs[w].oos = best
    OBVIOUS
  <2>1. w \in held /\ Cardinality({j \in held : ahead(j, w)}) = 0
    <3>1. 1 # None
      OBVIOUS
    <3> HIDE DEF held, ahead, rank
    <3> QED BY <1>9, <1>10, <3>1
  <2>2. {j \in held : ahead(j, w)} = {}
    BY <1>10, <2>1, FS_EmptySet
  <2>3. first = w
    BY <1>8, <2>1, <2>2
  <2> QED BY <2>1, <2>3
<1>12. rank # None => ~S!Better(rs[w].oos, best)
  <2> SUFFICES ASSUME w \in held PROVE ~S!Better(rs[w].oos, rs[first].oos)
    BY <1>9
  <2>1. first \in held /\ rs[first].oos \in Nat /\ rs[w].oos \in Nat
    BY <1>4, <1>8
  <2>2. CASE first = w
    BY <2>1, <2>2, BetterOrders
  <2>3. CASE first # w
    <3>1. S!Better(rs[first].oos, rs[w].oos) \/ rs[first].oos = rs[w].oos
      BY <1>8, <2>3
    <3> QED BY <2>1, <3>1, BetterOrders
  <2> QED BY <2>2, <2>3
<1> HIDE DEF rank, best
<1> QED BY <1>2, <1>7, <1>11, <1>12

LEMMA MeasureTypes ==
    ASSUME S!SweepAssumption, NEW m \in S!Measures, NEW q \in S!Wanted
    PROVE  /\ m[q].is \in Nat \cup {None} /\ m[q].oos \in Nat \cup {None}
           /\ S!Score(m[q]) \in Nat \cup {None}
<1>1. m[q] \in [is: SweepScores \cup {None}, oos: SweepScores \cup {None}]
  BY DEF S!Measures
<1>2. m[q].is \in Nat \cup {None} /\ m[q].oos \in Nat \cup {None}
  BY <1>1 DEF S!SweepAssumption
<1>3. S!Score(m[q]) = m[q].is \/ S!Score(m[q]) = m[q].oos
  BY Zenon DEF S!Score
<1> QED BY <1>2, <1>3

(* The sort that ranks the rows orders all of them, one after the other.      *)
SortOf(m) == {q \in (1..Len(chosen)) \X (1..Len(chosen)) : S!Before(m, q[1], q[2])}
LEMMA RowsSorted ==
    ASSUME S!SweepAssumption, chosen \in Seq(Points), NEW m \in S!Measures
    PROVE  StrictOrder(SortOf(m), 1..Len(chosen)) /\ Linear(SortOf(m), 1..Len(chosen))
<1> DEFINE V == 1..Len(chosen)
           v == [i \in V |-> S!Score(m[chosen[i]])]
           o == SortOf(m)
<1>1. \A x \in V : v[x] \in Nat \cup {None} /\ x \in Nat
  <2>1. \A x \in V : chosen[x] \in S!Wanted
    BY DEF S!Wanted
  <2> QED BY <2>1, MeasureTypes
<1>2. None \notin Nat
  BY DEF S!SweepAssumption
<1>3. \A x, y \in V : <<x, y>> \in o <=> \/ v[x] # None /\ v[y] = None
                                         \/ v[x] # None /\ v[y] # None /\ S!Better(v[x], v[y])
                                         \/ v[x] = v[y] /\ x < y
  BY DEF SortOf, S!Before
<1> HIDE DEF V, v, o
<1>4. \A x \in V : <<x, x>> \notin o
  <2> SUFFICES ASSUME NEW x \in V, <<x, x>> \in o PROVE FALSE
    OBVIOUS
  <2>1. v[x] # None /\ S!Better(v[x], v[x])
    BY <1>1, <1>3
  <2> QED BY <1>1, <2>1, BetterOrders
<1>5. ASSUME NEW x \in V, NEW y \in V, NEW z \in V, <<x, y>> \in o, <<y, z>> \in o PROVE <<x, z>> \in o
  <2>1. /\ \/ v[x] # None /\ v[y] = None
           \/ v[x] # None /\ v[y] # None /\ S!Better(v[x], v[y])
           \/ v[x] = v[y] /\ x < y
        /\ \/ v[y] # None /\ v[z] = None
           \/ v[y] # None /\ v[z] # None /\ S!Better(v[y], v[z])
           \/ v[y] = v[z] /\ y < z
    BY <1>3, <1>5
  <2>2. /\ v[x] \in Nat \cup {None} /\ v[y] \in Nat \cup {None} /\ v[z] \in Nat \cup {None}
        /\ x \in Nat /\ y \in Nat /\ z \in Nat
    BY <1>1
  <2>3. S!Better(v[x], v[y]) /\ S!Better(v[y], v[z]) /\ v[x] # None /\ v[y] # None /\ v[z] # None
           => S!Better(v[x], v[z])
    BY <2>2, BetterOrders
  <2>4. \/ v[x] # None /\ v[z] = None
        \/ v[x] # None /\ v[z] # None /\ S!Better(v[x], v[z])
        \/ v[x] = v[z] /\ x < z
    BY <2>1, <2>2, <2>3
  <2> QED BY <1>3, <2>4
<1>6. ASSUME NEW x \in V, NEW y \in V, x # y PROVE <<x, y>> \in o \/ <<y, x>> \in o
  <2>1. /\ v[x] \in Nat \cup {None} /\ v[y] \in Nat \cup {None} /\ (x < y \/ y < x)
    BY <1>1, <1>6
  <2>2. v[x] # None /\ v[y] # None => v[x] = v[y] \/ S!Better(v[x], v[y]) \/ S!Better(v[y], v[x])
    BY <2>1, BetterOrders
  <2> QED BY <1>3, <2>1, <2>2
<1> QED BY <1>4, <1>5, <1>6 DEF StrictOrder, Linear, V, o

(* Every place is taken by one of the points, the better ones first.          *)
LEMMA RowsTaken ==
    ASSUME S!SweepAssumption, chosen \in Seq(Points), NEW m \in S!Measures
    PROVE  \E f \in [1..Len(chosen) -> 1..Len(chosen)] :
              /\ \A x \in 1..Len(chosen) : \E k \in 1..Len(chosen) : f[k] = x
              /\ \A j, k \in 1..Len(chosen) : j < k => ~S!Before(m, f[k], f[j])
              /\ S!Ranked(m) =
                   [k \in 1..Len(chosen) |->
                      [point |-> chosen[f[k]], status |-> results[chosen[f[k]]],
                       is |-> m[chosen[f[k]]].is, oos |-> m[chosen[f[k]]].oos,
                       score |-> S!Score(m[chosen[f[k]]]),
                       rank |-> IF S!Score(m[chosen[f[k]]]) = None THEN None ELSE k]]
<1> DEFINE V == 1..Len(chosen)
           o == SortOf(m)
           f == [k \in V |-> CHOOSE i \in V : S!Place(m, i) = k]
<1>0. DOMAIN chosen = V /\ Len(chosen) \in Nat
  OBVIOUS
<1>1. StrictOrder(o, V) /\ Linear(o, V)
  BY RowsSorted
<1>2. \A x, y \in V : <<x, y>> \in o <=> S!Before(m, x, y)
  BY DEF SortOf
<1>3. ASSUME NEW x \in V PROVE S!Place(m, x) = 1 + Cardinality(Ahead(o, V, x))
  <2>1. {j \in DOMAIN chosen : j # x /\ S!Before(m, j, x)} = Ahead(o, V, x)
    BY <1>0, <1>1, <1>2 DEF Ahead, StrictOrder
  <2> QED BY <2>1, CardinalityS DEF S!Place
<1>4. /\ \A x \in V : S!Place(m, x) \in V
      /\ \A x, y \in V : <<x, y>> \in o => S!Place(m, x) < S!Place(m, y)
      /\ \A x, y \in V : S!Place(m, x) = S!Place(m, y) => x = y
      /\ \A p \in V : \E x \in V : S!Place(m, x) = p
  <2> DEFINE c(x) == 1 + Cardinality(Ahead(o, V, x))
  <2>1. /\ \A x \in V : c(x) \in V
        /\ \A x, y \in V : <<x, y>> \in o => c(x) < c(y)
        /\ \A x, y \in V : c(x) = c(y) => x = y
        /\ \A p \in V : \E x \in V : c(x) = p
    BY <1>0, <1>1, PlacesTaken
  <2>2. \A x \in V : S!Place(m, x) = c(x)
    BY <1>3
  <2> HIDE DEF c, o, V
  <2> QED BY <2>1, <2>2
<1>5. \A k \in V : f[k] \in V /\ S!Place(m, f[k]) = k
  BY <1>4
<1>6. f \in [V -> V]
  BY <1>5
<1>7. S!Ranked(m) =
        [k \in V |->
           [point |-> chosen[f[k]], status |-> results[chosen[f[k]]],
            is |-> m[chosen[f[k]]].is, oos |-> m[chosen[f[k]]].oos,
            score |-> S!Score(m[chosen[f[k]]]),
            rank |-> IF S!Score(m[chosen[f[k]]]) = None THEN None ELSE k]]
  BY <1>0 DEF S!Ranked
<1> HIDE DEF f, o
<1>8. ASSUME NEW x \in V PROVE \E k \in V : f[k] = x
  <2> DEFINE k == S!Place(m, x)
  <2>1. k \in V
    BY <1>4
  <2>2. f[k] \in V /\ S!Place(m, f[k]) = S!Place(m, x)
    BY <1>5, <2>1
  <2>3. f[k] = x
    BY <1>4, <2>2
  <2> QED BY <2>1, <2>3
<1>9. ASSUME NEW j \in V, NEW k \in V, j < k, S!Before(m, f[k], f[j]) PROVE FALSE
  <2>1. <<f[k], f[j]>> \in o
    BY <1>2, <1>5, <1>9
  <2>2. S!Place(m, f[k]) < S!Place(m, f[j])
    BY <1>4, <1>5, <2>1
  <2> QED BY <1>0, <1>5, <1>9, <2>2
<1> HIDE DEF V
<1>10. \E g \in [V -> V] :
         /\ \A x \in V : \E k \in V : g[k] = x
         /\ \A j, k \in V : j < k => ~S!Before(m, g[k], g[j])
         /\ S!Ranked(m) =
              [k \in V |->
                 [point |-> chosen[g[k]], status |-> results[chosen[g[k]]],
                  is |-> m[chosen[g[k]]].is, oos |-> m[chosen[g[k]]].oos,
                  score |-> S!Score(m[chosen[g[k]]]),
                  rank |-> IF S!Score(m[chosen[g[k]]]) = None THEN None ELSE k]]
  BY <1>6, <1>7, <1>8, <1>9, Zenon
<1> QED BY <1>10 DEF V

(* What ranked rows and a pick from them say.                                 *)
SortedRows(rs) ==
    \A i \in DOMAIN rs :
        /\ rs[i].rank # None => (IF S!RankedOut THEN rs[i].oos ELSE rs[i].is) # None
        /\ \A j \in DOMAIN rs :
              (i < j /\ rs[i].rank # None /\ rs[j].rank # None) =>
                  IF S!RankedOut THEN ~S!Better(rs[j].oos, rs[i].oos)
                  ELSE ~S!Better(rs[j].is, rs[i].is)
PickedRow(rs, pk) ==
    pk.point # None =>
        /\ \A i \in DOMAIN rs :
              (rs[i].status = "ok" /\ rs[i].is # None) => ~S!Better(rs[i].is, pk.is)
        /\ pk.rank = 1 => pk.oos = pk.best
        /\ pk.rank # None => ~S!Better(pk.oos, pk.best)

LEMMA RowsSay ==
    ASSUME S!SweepAssumption, chosen \in Seq(Points), NEW m \in S!Measures, NEW rs, rs = S!Ranked(m)
    PROVE  /\ Len(rs) = Len(chosen) /\ {rs[i].point : i \in DOMAIN rs} = S!Wanted
           /\ SortedRows(rs) /\ PickedRow(rs, S!Picked(rs))
<1> DEFINE V == 1..Len(chosen)
<1>1. PICK f \in [V -> V] :
              /\ \A x \in V : \E k \in V : f[k] = x
              /\ \A j, k \in V : j < k => ~S!Before(m, f[k], f[j])
              /\ S!Ranked(m) =
                   [k \in V |->
                      [point |-> chosen[f[k]], status |-> results[chosen[f[k]]],
                       is |-> m[chosen[f[k]]].is, oos |-> m[chosen[f[k]]].oos,
                       score |-> S!Score(m[chosen[f[k]]]),
                       rank |-> IF S!Score(m[chosen[f[k]]]) = None THEN None ELSE k]]
  BY RowsTaken
<1>2. DOMAIN chosen = V /\ Len(chosen) \in Nat /\ None \notin Nat
  BY DEF S!SweepAssumption
<1> DEFINE mm(k) == m[chosen[f[k]]]
<1>3. /\ DOMAIN rs = V /\ Len(rs) = Len(chosen)
      /\ \A k \in V : /\ rs[k].point = chosen[f[k]] /\ rs[k].is = mm(k).is /\ rs[k].oos = mm(k).oos
                      /\ rs[k].rank = IF S!Score(mm(k)) = None THEN None ELSE k
  BY <1>1, <1>2
<1>4. \A k \in V : f[k] \in V /\ chosen[f[k]] \in S!Wanted
  <2>1. \A k \in V : f[k] \in V
    OBVIOUS
  <2>2. \A i \in V : chosen[i] \in S!Wanted
    BY <1>2 DEF S!Wanted
  <2> QED BY <2>1, <2>2
<1>5. \A k \in V : /\ mm(k).is \in Nat \cup {None} /\ mm(k).oos \in Nat \cup {None}
                   /\ S!Score(mm(k)) \in Nat \cup {None}
  BY <1>4, MeasureTypes
<1>6. {rs[i].point : i \in DOMAIN rs} = S!Wanted
  <2>1. \A i \in V : \E k \in V : chosen[i] = rs[k].point
    <3> SUFFICES ASSUME NEW i \in V PROVE \E k \in V : chosen[i] = rs[k].point
      OBVIOUS
    <3>1. PICK k \in V : f[k] = i
      BY <1>1
    <3> QED BY <1>3, <3>1
  <2>2. \A k \in V : \E i \in V : rs[k].point = chosen[i]
    BY <1>3, <1>4
  <2> HIDE DEF V
  <2>3. S!Wanted = {chosen[i] : i \in V}
    BY <1>2 DEF S!Wanted
  <2>4. {rs[k].point : k \in V} = {chosen[i] : i \in V}
    <3> DEFINE x(i) == chosen[i]
               y(k) == rs[k].point
    <3>1. (\A i \in V : \E k \in V : x(i) = y(k)) /\ (\A k \in V : \E i \in V : y(k) = x(i))
      BY <2>1, <2>2
    <3> HIDE DEF x, y
    <3>2. {y(k) : k \in V} = {x(i) : i \in V}
      BY <3>1
    <3> QED BY <3>2 DEF x, y
  <2> QED BY <1>3, <2>3, <2>4
<1>7. \A k \in V : S!Score(mm(k)) = IF S!RankedOut THEN rs[k].oos ELSE rs[k].is
  <2>1. \A k \in V : S!Score(mm(k)) = IF S!RankedOut THEN mm(k).oos ELSE mm(k).is
    BY Zenon DEF S!Score
  <2>2. \A k \in V : rs[k].is = mm(k).is /\ rs[k].oos = mm(k).oos
    BY <1>3
  <2> HIDE DEF mm, V
  <2>3. CASE S!RankedOut
    BY <2>1, <2>2, <2>3
  <2>4. CASE ~S!RankedOut
    BY <2>1, <2>2, <2>4
  <2> QED BY <2>3, <2>4
<1>8. ASSUME NEW j \in V, NEW k \in V, j < k, rs[j].rank # None, rs[k].rank # None
      PROVE  ~S!Better(S!Score(mm(k)), S!Score(mm(j)))
  <2>1. S!Score(mm(j)) # None /\ S!Score(mm(k)) # None
    BY <1>3, <1>8
  <2>2. ~S!Before(m, f[k], f[j])
    BY <1>1, <1>8
  <2> QED BY <2>1, <2>2 DEF S!Before
<1>9. SortedRows(rs)
  <2>1. \A k \in V : rs[k].rank # None => S!Score(mm(k)) # None
    BY <1>3
  <2> DEFINE key(k) == IF S!RankedOut THEN rs[k].oos ELSE rs[k].is
  <2>2. \A k \in V : S!Score(mm(k)) = key(k)
    BY <1>7
  <2> HIDE DEF mm, V
  <2>3. \A i \in DOMAIN rs : rs[i].rank # None => key(i) # None
    BY <1>3, <2>1, <2>2
  <2>4. \A i, j \in DOMAIN rs :
           (i < j /\ rs[i].rank # None /\ rs[j].rank # None) => ~S!Better(key(j), key(i))
    <3> HIDE DEF key
    <3> QED BY <1>3, <1>8, <2>2
  <2>5. \A i, j : ~S!Better(key(j), key(i)) =>
           IF S!RankedOut THEN ~S!Better(rs[j].oos, rs[i].oos) ELSE ~S!Better(rs[j].is, rs[i].is)
    OBVIOUS
  <2> QED BY <2>3, <2>4, <2>5, Zenon DEF SortedRows
<1>10. PickedRow(rs, S!Picked(rs))
  <2>1. \A i \in V : rs[i].is \in Nat \cup {None} /\ rs[i].oos \in Nat \cup {None}
    BY <1>3, <1>5
  <2> QED BY <1>2, <1>3, <2>1, PickSays DEF PickedRow
<1> QED BY <1>3, <1>6, <1>9, <1>10

Futures == {"none", "waiting", "running", "ok", "error", "broken"}
SweepType ==
    /\ cfg.max \in Nat /\ chosen \in Seq(Points)
    /\ step \in {"select", "submit", "collect", "serial", "rank", "ranked"}
    /\ future \in [Points -> Futures] /\ results \in [Points -> {"none", "ok", "error"}]
    /\ registered \in [Points -> Nat] /\ early \in BOOLEAN

(* Only chosen points are run and answered; before any answer is collected a  *)
(* point that no worker has taken is not registered.                          *)
OnlyChosen == \A q \in Points : future[q] # "none" \/ results[q] # "none" => q \in S!Wanted
Untaken ==
    \A q \in Points :
        /\ step = "select" => future[q] = "none" /\ results[q] = "none"
        /\ step \in {"select", "submit"} => results[q] = "none" /\ (future[q] = "none" => registered[q] = 0)
        /\ ~early /\ future[q] = "waiting" => registered[q] = 0

(* A worker that took a point has registered it; a point with numbers is in   *)
(* the registry, and twice only where the pool broke early.                   *)
Registered ==
    \A q \in Points :
        /\ future[q] \in {"running", "ok"} \/ results[q] = "ok" => registered[q] >= 1
        /\ registered[q] > 1 => early

(* What is collected has come to an end; what the serial loop has left to do  *)
(* is not in the registry, and nothing waits, unless the pool broke early.    *)
LeftOver ==
    \A q \in Points :
        /\ step = "collect" /\ results[q] # "none" => future[q] \in {"ok", "error", "broken"}
        /\ step = "serial" /\ ~early =>
              future[q] # "waiting" /\ (results[q] = "none" /\ q \in S!Wanted => registered[q] = 0)
        /\ step \in {"rank", "ranked"} => future[q] = "none" /\ (q \in S!Wanted => results[q] # "none")
        /\ step = "collect" /\ q \in S!Wanted => future[q] # "none"
BeforeRows == step # "ranked" => rows = <<>> /\ pick = S!NoPick
RowsMade ==
    step = "ranked" =>
        /\ Len(rows) = Len(chosen) /\ {rows[i].point : i \in DOMAIN rows} = S!Wanted
        /\ S!RankedByOneMeasure /\ S!PickedInSample

SweepInv == SweepType /\ OnlyChosen /\ Untaken /\ Registered /\ LeftOver /\ BeforeRows /\ RowsMade

LEMMA SweepInit == S!SweepAssumption /\ Init => SweepInv
<1> SUFFICES ASSUME S!SweepAssumption, Init PROVE SweepInv
  OBVIOUS
<1>1. /\ step = "select" /\ chosen = <<>> /\ future = S!All /\ results = S!All
      /\ registered = [q \in Points |-> 0] /\ early = FALSE /\ rows = <<>> /\ pick = S!NoPick
  BY Zenon DEF Init, NoSweep, S!Init
<1>2. cfg.max \in Nat
  <2>1. CASE loop = "sweep"
    <3>1. cfg \in [pool: BOOLEAN, max: MaxSweep]
      BY <2>1, Zenon DEF Init, S!Init
    <3>2. cfg.max \in MaxSweep
      BY <3>1
    <3> QED BY <3>2 DEF S!SweepAssumption
  <2>2. CASE loop # "sweep"
    <3>1. cfg = [pool |-> FALSE, max |-> 0]
      BY <2>2, Zenon DEF Init, NoSweep
    <3> QED BY <3>1
  <2> QED BY <2>1, <2>2
<1>3. SweepType
  <2>1. <<>> \in Seq(Points) /\ 0 \in Nat /\ S!All \in [Points -> Futures]
        /\ S!All \in [Points -> {"none", "ok", "error"}]
    BY DEF S!All, Futures
  <2>2. registered \in [Points -> Nat]
    BY <1>1
  <2> QED BY <1>1, <1>2, <2>1, <2>2, Zenon DEF SweepType
<1>4. OnlyChosen /\ Untaken /\ Registered /\ LeftOver
  BY <1>1 DEF OnlyChosen, Untaken, Registered, LeftOver, S!All
<1> QED BY <1>1, <1>3, <1>4 DEF SweepInv, BeforeRows, RowsMade

(* A point taken from the front of those at some places is one of them.       *)
LEMMA ForemostIs ==
    ASSUME chosen \in Seq(Points), NEW I \in SUBSET (DOMAIN chosen), I # {}
    PROVE  \E i \in I : S!Foremost(I) = chosen[i] /\ S!Foremost(I) \in S!Wanted /\ S!Foremost(I) \in Points
<1>1. I \in SUBSET Nat
  OBVIOUS
<1>2. \E m \in I : \A k \in I : m <= k
  BY <1>1, LeastOf
<1>3. S!Min(I) \in I
  BY <1>2 DEF S!Min
<1> QED BY <1>3 DEF S!Foremost, S!Wanted

(* A step that leaves the rows alone leaves what they say.                    *)
LEMMA RowsKept ==
    ASSUME RowsMade, UNCHANGED <<chosen, results, ranking, rows, pick>>, step' = "ranked" => step = "ranked"
    PROVE  RowsMade'
BY DEF RowsMade, S!Wanted, S!RankedByOneMeasure, S!PickedInSample, S!RankedOut, S!Better

LEMMA SelectStep ==
    ASSUME S!SweepAssumption, SweepInv, S!Select
    PROVE  SweepInv'
<1>1. /\ step = "select" /\ step' \in {"submit", "serial"}
      /\ UNCHANGED <<cfg, ranking, future, results, registered, broken, early, rows, pick>>
  BY Zenon DEF S!Select
<1>2. PICK order \in S!Orders :
          chosen' = SubSeq(order, 1, IF cfg.max < Len(order) THEN cfg.max ELSE Len(order))
  BY DEF S!Select
<1>3. S!Cardinality(Points) \in Nat
  BY CardinalityS, FS_CardinalityType DEF S!SweepAssumption
<1>4. order \in [1..S!Cardinality(Points) -> Points]
  BY DEF S!Orders, S!Bijection, S!Injection
<1>5. order \in Seq(Points) /\ Len(order) \in Nat
  BY <1>3, <1>4
<1>6. chosen' \in Seq(Points)
  <2>1. cfg.max \in Nat
    BY DEF SweepInv, SweepType
  <2> DEFINE e == IF cfg.max < Len(order) THEN cfg.max ELSE Len(order)
  <2>2. e \in Nat /\ e <= Len(order)
    BY <1>5, <2>1
  <2> HIDE DEF e
  <2>3. SubSeq(order, 1, e) \in Seq(Points)
    BY <1>5, <2>2
  <2> QED BY <1>2, <2>3 DEF e
<1>7. SweepType'
  BY <1>1, <1>6 DEF SweepInv, SweepType
<1>8. \A q \in Points : future[q] = "none" /\ results[q] = "none" /\ registered[q] = 0
  BY <1>1 DEF SweepInv, Untaken
<1>9. OnlyChosen' /\ Untaken' /\ Registered' /\ LeftOver'
  <2>1. early \in BOOLEAN
    BY DEF SweepInv, SweepType
  <2> QED BY <1>1, <1>8, <2>1 DEF OnlyChosen, Untaken, Registered, LeftOver
<1>10. BeforeRows' /\ RowsMade'
  BY <1>1 DEF SweepInv, BeforeRows, RowsMade
<1> QED BY <1>7, <1>9, <1>10 DEF SweepInv

LEMMA SubmitStep ==
    ASSUME SweepInv, S!Submit
    PROVE  SweepInv'
<1> DEFINE rest == {i \in DOMAIN chosen : future[chosen[i]] = "none"}
<1>1. /\ step = "submit" /\ UNCHANGED <<cfg, ranking, chosen, results, registered, broken, rows, pick>>
      /\ \/ rest = {} /\ step' = "collect" /\ UNCHANGED <<future, early>>
         \/ rest # {} /\ step' = "serial" /\ early' = TRUE /\ UNCHANGED future
         \/ /\ rest # {} /\ future' = [future EXCEPT ![S!Foremost(rest)] = "waiting"]
            /\ UNCHANGED <<step, early>>
  BY Zenon DEF S!Submit
<1>2. S!Wanted' = S!Wanted /\ chosen \in Seq(Points)
  BY <1>1 DEF S!Wanted, SweepInv, SweepType
<1>3. RowsMade'
  BY <1>1, RowsKept DEF SweepInv
<1>4. BeforeRows'
  BY <1>1 DEF SweepInv, BeforeRows
<1>5. CASE rest = {} /\ step' = "collect" /\ UNCHANGED <<future, early>>
  <2>1. \A q \in S!Wanted : future[q] # "none"
    BY <1>5 DEF S!Wanted
  <2>2. SweepType' /\ OnlyChosen' /\ Untaken' /\ Registered'
    BY <1>1, <1>2, <1>5 DEF SweepInv, SweepType, OnlyChosen, Untaken, Registered
  <2>3. LeftOver'
    BY <1>1, <1>2, <1>5, <2>1 DEF SweepInv, Untaken, LeftOver
  <2> QED BY <1>3, <1>4, <2>2, <2>3 DEF SweepInv
<1>6. CASE rest # {} /\ step' = "serial" /\ early' = TRUE /\ UNCHANGED future
  <2>1. SweepType' /\ OnlyChosen' /\ Untaken' /\ Registered' /\ LeftOver'
    BY <1>1, <1>2, <1>6 DEF SweepInv, SweepType, OnlyChosen, Untaken, Registered, LeftOver
  <2> QED BY <1>3, <1>4, <2>1 DEF SweepInv
<1>7. CASE /\ rest # {} /\ future' = [future EXCEPT ![S!Foremost(rest)] = "waiting"]
           /\ UNCHANGED <<step, early>>
  <2> DEFINE f == S!Foremost(rest)
  <2>1. f \in Points /\ f \in S!Wanted /\ future[f] = "none"
    BY <1>2, <1>7, ForemostIs
  <2> HIDE DEF f
  <2>2. future' = [future EXCEPT ![f] = "waiting"] /\ future \in [Points -> Futures]
    BY <1>7 DEF f, SweepInv, SweepType
  <2>3. /\ future' \in [Points -> Futures]
        /\ \A q \in Points : future'[q] = IF q = f THEN "waiting" ELSE future[q]
    BY <2>1, <2>2 DEF Futures
  <2>4. SweepType'
    BY <1>1, <1>7, <2>3 DEF SweepInv, SweepType
  <2>5. OnlyChosen' /\ Untaken' /\ Registered' /\ LeftOver'
    BY <1>1, <1>2, <1>7, <2>1, <2>3 DEF SweepInv, OnlyChosen, Untaken, Registered, LeftOver
  <2> QED BY <1>3, <1>4, <2>4, <2>5 DEF SweepInv
<1> QED BY <1>1, <1>5, <1>6, <1>7

LEMMA TakeStep ==
    ASSUME SweepInv, NEW w \in Points, S!Take(w)
    PROVE  SweepInv'
<1>1. /\ future[w] = "waiting" /\ future' = [future EXCEPT ![w] = "running"]
      /\ registered' = [registered EXCEPT ![w] = @ + 1]
      /\ UNCHANGED <<cfg, ranking, step, chosen, results, broken, early, rows, pick>>
  BY DEF S!Take
<1>2. S!Wanted' = S!Wanted
  BY <1>1 DEF S!Wanted
<1>3. /\ future' \in [Points -> Futures] /\ registered' \in [Points -> Nat]
      /\ \A q \in Points : /\ future'[q] = IF q = w THEN "running" ELSE future[q]
                           /\ registered'[q] = IF q = w THEN registered[w] + 1 ELSE registered[q]
  BY <1>1 DEF SweepInv, SweepType, Futures
<1>4. SweepType' /\ BeforeRows' /\ RowsMade'
  BY <1>1, <1>3, RowsKept DEF SweepInv, SweepType, BeforeRows
<1>5. registered[w] \in Nat /\ (~early => registered[w] = 0)
  BY <1>1 DEF SweepInv, SweepType, Untaken
<1>6. OnlyChosen' /\ Untaken'
  BY <1>1, <1>2, <1>3 DEF SweepInv, OnlyChosen, Untaken
<1>7. Registered'
  BY <1>1, <1>3, <1>5 DEF SweepInv, Registered
<1>8. LeftOver'
  BY <1>1, <1>2, <1>3 DEF SweepInv, LeftOver
<1> QED BY <1>4, <1>6, <1>7, <1>8 DEF SweepInv

LEMMA EndsStep ==
    ASSUME SweepInv, NEW w \in Points, NEW end \in {"ok", "error"}, S!Ends(w, end)
    PROVE  SweepInv'
<1>1. /\ future[w] = "running" /\ future' = [future EXCEPT ![w] = end]
      /\ UNCHANGED <<cfg, ranking, step, chosen, results, registered, broken, early, rows, pick>>
  BY DEF S!Ends
<1>2. S!Wanted' = S!Wanted
  BY <1>1 DEF S!Wanted
<1>3. /\ future' \in [Points -> Futures]
      /\ \A q \in Points : future'[q] = IF q = w THEN end ELSE future[q]
  BY <1>1 DEF SweepInv, SweepType, Futures
<1>4. SweepType' /\ BeforeRows' /\ RowsMade'
  BY <1>1, <1>3, RowsKept DEF SweepInv, SweepType, BeforeRows
<1>5. OnlyChosen' /\ Untaken' /\ Registered' /\ LeftOver'
  BY <1>1, <1>2, <1>3 DEF SweepInv, OnlyChosen, Untaken, Registered, LeftOver
<1> QED BY <1>4, <1>5 DEF SweepInv

LEMMA BreakStep ==
    ASSUME SweepInv, S!Break
    PROVE  SweepInv'
<1>1. /\ future' = [q \in Points |-> IF future[q] \in {"waiting", "running"} THEN "broken" ELSE future[q]]
      /\ UNCHANGED <<cfg, ranking, step, chosen, results, registered, early, rows, pick>>
  BY DEF S!Break
<1>2. S!Wanted' = S!Wanted
  BY <1>1 DEF S!Wanted
<1>3. /\ future' \in [Points -> Futures]
      /\ \A q \in Points : future'[q] = IF future[q] \in {"waiting", "running"} THEN "broken" ELSE future[q]
  BY <1>1 DEF SweepInv, SweepType, Futures
<1>4. SweepType' /\ BeforeRows' /\ RowsMade'
  BY <1>1, <1>3, RowsKept DEF SweepInv, SweepType, BeforeRows
<1>5. OnlyChosen' /\ Untaken' /\ Registered' /\ LeftOver'
  BY <1>1, <1>2, <1>3 DEF SweepInv, OnlyChosen, Untaken, Registered, LeftOver
<1> QED BY <1>4, <1>5 DEF SweepInv

LEMMA CollectStep ==
    ASSUME SweepInv, NEW w \in Points, S!Collect(w)
    PROVE  SweepInv'
<1> DEFINE end == IF future[w] = "ok" THEN "ok" ELSE "error"
<1>1. /\ step = "collect" /\ w \in S!Wanted /\ future[w] \in {"ok", "error", "broken"}
      /\ results' = [results EXCEPT ![w] = end]
      /\ UNCHANGED <<cfg, ranking, step, chosen, future, registered, broken, early, rows, pick>>
  BY DEF S!Collect
<1>2. S!Wanted' = S!Wanted
  BY <1>1 DEF S!Wanted
<1>3. /\ results' \in [Points -> {"none", "ok", "error"}]
      /\ \A q \in Points : results'[q] = IF q = w THEN end ELSE results[q]
  BY <1>1 DEF SweepInv, SweepType
<1>4. SweepType' /\ BeforeRows' /\ RowsMade'
  BY <1>1, <1>3 DEF SweepInv, SweepType, BeforeRows, RowsMade
<1>5. OnlyChosen' /\ Untaken' /\ Registered' /\ LeftOver'
  BY <1>1, <1>2, <1>3 DEF SweepInv, OnlyChosen, Untaken, Registered, LeftOver
<1> QED BY <1>4, <1>5 DEF SweepInv

LEMMA CollectedStep ==
    ASSUME SweepInv, S!Collected
    PROVE  SweepInv'
<1>1. /\ step = "collect" /\ step' = "serial" /\ \A q \in S!Wanted : results[q] # "none"
      /\ UNCHANGED <<cfg, ranking, chosen, future, results, registered, broken, early, rows, pick>>
  BY DEF S!Collected
<1>2. S!Wanted' = S!Wanted /\ \A q \in Points : future[q] = "waiting" => q \in S!Wanted
  BY <1>1 DEF S!Wanted, SweepInv, OnlyChosen
<1>3. \A q \in Points : future[q] # "waiting"
  BY <1>1, <1>2 DEF SweepInv, LeftOver
<1>4. SweepType' /\ BeforeRows' /\ RowsMade' /\ OnlyChosen' /\ Untaken' /\ Registered'
  BY <1>1, <1>2 DEF SweepInv, SweepType, BeforeRows, RowsMade, OnlyChosen, Untaken, Registered
<1>5. LeftOver'
  BY <1>1, <1>2, <1>3 DEF LeftOver
<1> QED BY <1>4, <1>5 DEF SweepInv

LEMMA RunSerialStep ==
    ASSUME SweepInv, S!RunSerial
    PROVE  SweepInv'
<1> DEFINE f == S!Foremost(S!Remaining)
<1>1. /\ step = "serial" /\ S!Remaining # {}
      /\ UNCHANGED <<cfg, ranking, step, chosen, future, broken, early, rows, pick>>
  BY DEF S!RunSerial
<1>2. PICK end \in {"ok", "error"}, run \in {0, 1} :
          /\ end = "ok" => run = 1
          /\ results' = [results EXCEPT ![f] = end]
          /\ registered' = [registered EXCEPT ![f] = @ + run]
  BY DEF S!RunSerial
<1>3. S!Wanted' = S!Wanted /\ chosen \in Seq(Points)
  BY <1>1 DEF S!Wanted, SweepInv, SweepType
<1>4. f \in Points /\ f \in S!Wanted /\ results[f] = "none"
  <2>1. S!Remaining \in SUBSET (DOMAIN chosen) /\ \A i \in S!Remaining : results[chosen[i]] = "none"
    BY DEF S!Remaining
  <2> QED BY <1>1, <1>3, <2>1, ForemostIs
<1> HIDE DEF f
<1>5. /\ results' \in [Points -> {"none", "ok", "error"}] /\ registered' \in [Points -> Nat]
      /\ \A q \in Points : /\ results'[q] = IF q = f THEN end ELSE results[q]
                           /\ registered'[q] = IF q = f THEN registered[f] + run ELSE registered[q]
  BY <1>2, <1>4 DEF SweepInv, SweepType
<1>6. SweepType' /\ BeforeRows' /\ RowsMade'
  BY <1>1, <1>5 DEF SweepInv, SweepType, BeforeRows, RowsMade
<1>7. registered[f] \in Nat /\ (~early => registered[f] = 0)
  BY <1>1, <1>4 DEF SweepInv, SweepType, LeftOver
<1>8. OnlyChosen'
  BY <1>1, <1>3, <1>4, <1>5 DEF SweepInv, OnlyChosen
<1>9. Untaken' /\ LeftOver'
  BY <1>1, <1>3, <1>5 DEF SweepInv, Untaken, LeftOver
<1>10. Registered'
  BY <1>1, <1>2, <1>5, <1>7 DEF SweepInv, SweepType, Registered
<1> QED BY <1>6, <1>8, <1>9, <1>10 DEF SweepInv

LEMMA SerialDoneStep ==
    ASSUME SweepInv, S!SerialDone
    PROVE  SweepInv'
<1>1. /\ step = "serial" /\ S!Remaining = {} /\ step' = "rank" /\ future' = S!All
      /\ UNCHANGED <<cfg, chosen, results, registered, early, rows, pick>>
  BY DEF S!SerialDone
<1>2. S!Wanted' = S!Wanted
  BY <1>1 DEF S!Wanted
<1>3. \A q \in S!Wanted : results[q] # "none"
  BY <1>1 DEF S!Remaining, S!Wanted
<1>4. future' \in [Points -> Futures] /\ \A q \in Points : future'[q] = "none"
  BY <1>1 DEF S!All, Futures
<1>5. SweepType' /\ BeforeRows' /\ RowsMade'
  BY <1>1, <1>4 DEF SweepInv, SweepType, BeforeRows, RowsMade
<1>6. OnlyChosen' /\ Untaken' /\ Registered' /\ LeftOver'
  BY <1>1, <1>2, <1>3, <1>4 DEF SweepInv, OnlyChosen, Untaken, Registered, LeftOver
<1> QED BY <1>5, <1>6 DEF SweepInv

LEMMA RankStep ==
    ASSUME SweepInv, S!Rank
    PROVE  SweepInv'
<1>1. /\ step = "rank" /\ step' = "ranked"
      /\ UNCHANGED <<cfg, ranking, chosen, future, results, registered, broken, early>>
  BY DEF S!Rank
<1>2. PICK m \in S!Measures : rows' = S!Ranked(m) /\ pick' = S!Picked(rows')
  BY DEF S!Rank
<1>3. PICK rs, pk : rs = S!Ranked(m) /\ pk = S!Picked(rs)
  OBVIOUS
<1>4. rows' = rs /\ pick' = pk
  BY <1>2, <1>3
<1>5. S!SweepAssumption /\ chosen \in Seq(Points)
  BY SearchAssumption DEF SearchAssumption, SweepInv, SweepType
<1>6. /\ Len(rs) = Len(chosen) /\ {rs[i].point : i \in DOMAIN rs} = S!Wanted
      /\ SortedRows(rs) /\ PickedRow(rs, pk)
  BY <1>3, <1>5, RowsSay
<1>7. S!RankedByOneMeasure' /\ S!PickedInSample'
  BY <1>1, <1>4, <1>6 DEF S!RankedByOneMeasure, S!PickedInSample, SortedRows, PickedRow, S!RankedOut, S!Better
<1>8. Len(rows') = Len(chosen') /\ {rows'[i].point : i \in DOMAIN rows'} = S!Wanted'
  BY <1>1, <1>4, <1>6 DEF S!Wanted
<1>9. RowsMade'
  BY <1>7, <1>8 DEF RowsMade
<1>10. S!Wanted' = S!Wanted
  BY <1>1 DEF S!Wanted
<1>11. SweepType' /\ BeforeRows'
  BY <1>1 DEF SweepInv, SweepType, BeforeRows
<1>12. OnlyChosen' /\ Untaken' /\ Registered' /\ LeftOver'
  BY <1>1, <1>10 DEF SweepInv, OnlyChosen, Untaken, Registered, LeftOver
<1> QED BY <1>9, <1>11, <1>12 DEF SweepInv

LEMMA SweepStep == S!SweepAssumption /\ SweepInv /\ [S!Next]_sweep => SweepInv'
<1> SUFFICES ASSUME S!SweepAssumption, SweepInv, [S!Next]_sweep PROVE SweepInv'
  OBVIOUS
<1>1. CASE UNCHANGED sweep
  <2>1. UNCHANGED <<cfg, ranking, step, chosen, future, results, registered, broken, early, rows, pick>>
    BY <1>1 DEF sweep
  <2>2. RowsMade'
    BY <2>1, RowsKept DEF SweepInv
  <2>3. S!Wanted' = S!Wanted
    BY <2>1 DEF S!Wanted
  <2>4. SweepType' /\ BeforeRows' /\ OnlyChosen' /\ Untaken' /\ Registered' /\ LeftOver'
    BY <2>1, <2>3 DEF SweepInv, SweepType, BeforeRows, OnlyChosen, Untaken, Registered, LeftOver
  <2> QED BY <2>2, <2>4 DEF SweepInv
<1>2. ASSUME NEW w \in Points, S!Take(w) \/ S!Collect(w) \/ S!Ends(w, "ok") \/ S!Ends(w, "error")
      PROVE  SweepInv'
  BY <1>2, TakeStep, CollectStep, EndsStep
<1> QED BY <1>1, <1>2, SelectStep, SubmitStep, BreakStep, CollectedStep, RunSerialStep, SerialDoneStep,
           RankStep DEF S!Next

(* A sweep answers every point it chose, once, however its pool dies, no run  *)
(* is in the registry twice unless the pool died while points were submitted, *)
(* the rows are ranked on one measure and the winner of a window is picked    *)
(* without what was held out: run_sweep, for any grid, cap and scores.        *)
THEOREM SweepStaysWhole == Spec => []SweepIsWhole
<1>1. Init => SweepInv
  BY SearchAssumption, SweepInit DEF SearchAssumption
<1>2. SweepInv /\ [Next]_all => SweepInv'
  BY SearchAssumption, SweepSteps, SweepStep DEF SearchAssumption
<1>3. SweepInv => SweepIsWhole
  <2> SUFFICES ASSUME SweepInv
               PROVE  S!EveryPointAnswered /\ S!LooksAreRuns /\ S!RankedByOneMeasure /\ S!PickedInSample
    BY DEF SweepIsWhole
  <2>1. S!LooksAreRuns
    BY DEF SweepInv, Registered, S!LooksAreRuns
  <2>2. S!SweepAssumption /\ chosen \in Seq(Points)
    BY SearchAssumption DEF SearchAssumption, SweepInv, SweepType
  <2>3. CASE step # "ranked"
    <3>1. rows = <<>> /\ pick.point = None
      BY <2>3 DEF SweepInv, BeforeRows, S!NoPick
    <3> QED BY <2>1, <2>3, <3>1 DEF S!EveryPointAnswered, S!RankedByOneMeasure, S!PickedInSample
  <2>4. CASE step = "ranked"
    <3>2. /\ Len(rows) = Len(chosen) /\ {rows[i].point : i \in DOMAIN rows} = S!Wanted
          /\ S!RankedByOneMeasure /\ S!PickedInSample
      BY <2>4 DEF SweepInv, RowsMade
    <3>3. S!Wanted = {q \in Points : results[q] # "none"}
      <4>1. S!Wanted \subseteq Points
        BY <2>2 DEF S!Wanted
      <4>2. \A q \in Points : q \in S!Wanted <=> results[q] # "none"
        BY <2>4 DEF SweepInv, OnlyChosen, LeftOver
      <4> QED BY <4>1, <4>2
    <3> QED BY <2>1, <3>2, <3>3 DEF S!EveryPointAnswered
  <2> QED BY <2>3, <2>4
<1> QED BY <1>1, <1>2, <1>3, PTL DEF Spec, all

-----------------------------------------------------------------------------


CurveInv == KeptRight(curve, since, high, longest, episodes)

LEMMA MaxIsIt ==
    ASSUME NEW V \in SUBSET Nat, NEW x \in V, \A y \in V : y <= x
    PROVE  D!Max(V) = x
<1>1. D!Max(V) = CHOOSE u \in V : \A y \in V : u >= y
  BY DEF D!Max
<1>2. \A y \in V : x >= y
  OBVIOUS
<1>3. \A y, u \in Nat : y >= u /\ u >= y => y = u
  OBVIOUS
<1> QED BY <1>1, <1>2, <1>3

LEMMA PeakIs ==
    ASSUME GoodCurve(curve), NEW m \in 1..Len(curve), NEW h \in 1..m, \A k \in 1..m : curve[k].v <= curve[h].v
    PROVE  D!Peak(m) = curve[h].v
<1> DEFINE V == {curve[i].v : i \in 1..m}
<1>1. \A i \in 1..m : i \in 1..Len(curve)
  BY DEF GoodCurve
<1>2. \A i \in 1..m : curve[i].v \in Nat
  BY <1>1 DEF GoodCurve
<1>3. V \in SUBSET Nat
  BY <1>2
<1>4. curve[h].v \in V /\ \A y \in V : y <= curve[h].v
  OBVIOUS
<1>5. D!Peak(m) = D!Max(V)
  BY DEF D!Peak
<1> HIDE DEF V
<1> QED BY <1>3, <1>4, <1>5, MaxIsIt

LEMMA CurveInit == D!Init => CurveInv
BY DEF D!Init, CurveInv, KeptRight, GoodCurve

LEMMA CurveBar ==
    ASSUME D!DigestAssumption, CurveInv, NEW v \in Levels, NEW gap \in Gaps, D!Bar(v, gap)
    PROVE  CurveInv'
<1> DEFINE m == Len(curve)
           t == IF curve = <<>> THEN 1 ELSE curve[m].t + gap
           bar == [t |-> t, v |-> v]
           low == curve # <<>> /\ v < D!Peak(m)
<1>1. GoodCurve(curve) /\ since \in Nat /\ high \in Nat /\ longest \in Nat /\ episodes \in Seq(Nat \X Nat)
  BY DEF CurveInv, KeptRight
<1>2. v \in Nat \ {0} /\ gap \in Nat \ {0} /\ curve \in Seq(CurveBars) /\ m \in Nat /\ (curve = <<>> <=> m = 0)
  BY <1>1 DEF D!DigestAssumption, GoodCurve
<1>3. t \in Nat \ {0} /\ \A i \in 1..m : curve[i].t < t
  <2>1. CASE m = 0
    BY <1>2, <2>1
  <2>2. CASE m # 0
    <3>1. m \in 1..m /\ t = curve[m].t + gap
      BY <1>2, <2>2
    <3>2. \A i \in 1..m : curve[i].t \in Nat \ {0} /\ (i < m => curve[i].t < curve[m].t)
      BY <1>1, <3>1 DEF GoodCurve
    <3> QED BY <1>2, <3>1, <3>2
  <2> QED BY <2>1, <2>2
<1>4. /\ curve' = Append(curve, bar)
      /\ IF low
         THEN since' = (IF since = 0 THEN high ELSE since) /\ UNCHANGED <<high, longest, episodes>>
         ELSE /\ high' = t /\ since' = 0
              /\ longest' = IF since = 0 THEN longest ELSE D!Max({longest, t - since})
              /\ episodes' = IF since = 0 THEN episodes ELSE Append(episodes, <<since, t>>)
  BY DEF D!Bar, D!Fell
<1>5. bar \in CurveBars /\ bar.t = t /\ bar.v = v
  BY <1>2, <1>3 DEF CurveBars
<1> HIDE DEF t, low, bar
<1>6. /\ Len(curve') = m + 1 /\ curve'[m + 1] = bar /\ \A i \in 1..m : curve'[i] = curve[i]
      /\ curve' \in Seq(CurveBars)
  BY <1>2, <1>4, <1>5
<1>7. \A i \in 1..m : curve[i].t \in Nat \ {0} /\ curve[i].v \in Nat \ {0}
  BY <1>1 DEF GoodCurve
<1>8. GoodCurve(curve')
  <2>1. ASSUME NEW i \in 1..m + 1 PROVE curve'[i].t \in Nat \ {0} /\ curve'[i].v \in Nat \ {0}
    <3>1. CASE i = m + 1
      BY <1>2, <1>3, <1>5, <1>6, <3>1
    <3>2. CASE i \in 1..m
      BY <1>6, <1>7, <3>2
    <3> QED BY <1>2, <3>1, <3>2
  <2>2. ASSUME NEW i \in 1..m + 1, NEW j \in 1..m + 1, i < j PROVE curve'[i].t < curve'[j].t
    <3>1. i \in 1..m
      BY <1>2, <2>2
    <3>2. CASE j = m + 1
      BY <1>3, <1>5, <1>6, <3>1, <3>2
    <3>3. CASE j \in 1..m
      BY <1>1, <1>6, <2>2, <3>1, <3>3 DEF GoodCurve
    <3> QED BY <1>2, <3>2, <3>3
  <2> QED BY <1>6, <2>1, <2>2 DEF GoodCurve
<1>9. /\ since' \in Nat /\ high' \in Nat /\ longest' \in Nat /\ episodes' \in Seq(Nat \X Nat)
      /\ \E h \in 1..m + 1 : HighAt(curve', since', high', h) /\ LongestTo(curve', h, longest') /\ EndedTo(curve', h, episodes')
  <2>1. CASE m = 0
    <3>1. ~low /\ since = 0 /\ longest = 0 /\ episodes = <<>>
      BY <1>2, <2>1 DEF CurveInv, KeptRight, low
    <3>2. high' = t /\ since' = 0 /\ longest' = 0 /\ episodes' = <<>> /\ Len(episodes') = 0
      BY <1>4, <3>1
    <3>3. high' = curve'[1].t /\ curve'[1].v \in Nat /\ 1..1 = {1} /\ Len(curve') = 1
      BY <1>2, <1>5, <1>6, <2>1, <3>2
    <3>4. IsHigh(curve', 1)
      BY <3>3 DEF IsHigh
    <3>5. HighAt(curve', 0, high', 1)
      BY <3>3, <3>4 DEF HighAt
    <3>6. LongestTo(curve', 1, 0) /\ EndedTo(curve', 1, episodes')
      BY <3>2, <3>3, <3>4 DEF LongestTo, EndedTo, Falls
    <3> QED BY <1>1, <1>3, <2>1, <3>1, <3>2, <3>5, <3>6
  <2>2. CASE m # 0
    <3>1. PICK h \in 1..m : HighAt(curve, since, high, h) /\ LongestTo(curve, h, longest) /\ EndedTo(curve, h, episodes)
      BY <1>2, <2>2 DEF CurveInv, KeptRight
    <3>2. high = curve[h].t /\ since = (IF h = m THEN 0 ELSE high) /\ high # 0
      BY <1>7, <3>1 DEF HighAt
    <3>3. D!Peak(m) = curve[h].v
      <4>1. \A i \in 1..m : curve[i].v <= curve[h].v
        <5> SUFFICES ASSUME NEW i \in 1..m PROVE curve[i].v <= curve[h].v
          OBVIOUS
        <5>1. CASE i \in 1..h
          BY <3>1, <5>1 DEF HighAt, IsHigh
        <5>2. CASE i \in h + 1 .. m
          BY <1>7, <3>1, <5>2 DEF HighAt
        <5> QED BY <1>2, <5>1, <5>2
      <4>2. m \in 1..Len(curve) /\ h \in 1..m
        BY <1>2, <2>2
      <4> HIDE DEF m
      <4> QED BY <1>1, <4>1, <4>2, PeakIs
    <3>4. curve'[m + 1].v = v /\ curve'[m + 1].t = t /\ low = (v < curve[h].v)
      BY <1>2, <1>5, <1>6, <2>2, <3>3 DEF low
    <3>5. /\ LongestTo(curve', h, longest) /\ EndedTo(curve', h, episodes)
      BY <1>6, <3>1, KeptOn
    <3>6. CASE low
      <4>1. high' = high /\ since' = high /\ longest' = longest /\ episodes' = episodes
        BY <1>4, <3>2, <3>6
      <4>2. HighAt(curve', high, high, h)
        BY <1>2, <1>6, <1>8, <3>1, <3>4, <3>6, BarBelow
      <4> QED BY <1>1, <1>2, <3>5, <4>1, <4>2
    <3>7. CASE ~low
      <4>1. curve'[m + 1].v >= curve[h].v /\ high' = t /\ since' = 0
        <5>1. v \in Nat /\ curve[h].v \in Nat
          BY <1>2, <1>7
        <5>2. ~(v < curve[h].v)
          BY <3>4, <3>7
        <5>3. high' = t /\ since' = 0
          BY <1>4, <3>7
        <5> QED BY <3>4, <5>1, <5>2, <5>3
      <4>2. HighAt(curve', 0, curve'[m + 1].t, m + 1)
        BY <1>2, <1>6, <1>8, <3>1, <4>1, BarHigh
      <4>3. CASE h = m
        <5>1. longest' = longest /\ episodes' = episodes
          BY <1>4, <3>2, <3>7, <4>3
        <5>2. LongestTo(curve', m + 1, longest) /\ EndedTo(curve', m + 1, episodes)
          BY <1>2, <1>6, <1>8, <2>2, <3>1, <4>1, <4>3, BarKeeps
        <5> QED BY <1>1, <1>2, <1>3, <3>4, <4>1, <4>2, <5>1, <5>2
      <4>4. CASE h # m
        <5> DEFINE w == t - high
        <5>1. h < m /\ since = high /\ longest' = D!Max({longest, w}) /\ episodes' = Append(episodes, <<high, t>>)
          <6>1. since = high /\ since # 0 /\ h < m
            BY <1>2, <3>2, <4>4
          <6> QED BY <1>4, <3>7, <6>1
        <5>2. w \in Nat
          BY <1>3, <1>7, <3>2
        <5>3. w = curve'[m + 1].t - high
          BY <3>4
        <5> HIDE DEF w
        <5>4. longest' = (IF longest >= w THEN longest ELSE w)
          <6>1. {longest, w} \in SUBSET Nat
            BY <1>1, <5>2
          <6>2. CASE longest >= w
            <7>1. \A y \in {longest, w} : y <= longest
              BY <1>1, <5>2, <6>2
            <7>2. D!Max({longest, w}) = longest
              BY <6>1, <7>1, MaxIsIt
            <7> QED BY <5>1, <6>2, <7>2
          <6>3. CASE ~(longest >= w)
            <7>1. \A y \in {longest, w} : y <= w
              BY <1>1, <5>2, <6>3
            <7>2. D!Max({longest, w}) = w
              BY <6>1, <7>1, MaxIsIt
            <7> QED BY <5>1, <6>3, <7>2
          <6> QED BY <6>2, <6>3
        <5>5. /\ episodes' \in Seq(Nat \X Nat) /\ Len(episodes') = Len(episodes) + 1
              /\ episodes'[Len(episodes) + 1] = <<high, curve'[m + 1].t>>
              /\ \A x \in 1..Len(episodes) : episodes'[x] = episodes[x]
          BY <1>1, <1>3, <3>4, <5>1
        <5>6. LongestTo(curve', m + 1, longest') /\ EndedTo(curve', m + 1, episodes')
          <6>1. OneMore(curve, curve', m, h, since, high)
            BY <1>2, <1>6, <1>8, <3>1, <4>1, <5>1 DEF OneMore
          <6>2. OneStretchMore(episodes, episodes', <<high, curve'[m + 1].t>>)
            BY <1>1, <5>5 DEF OneStretchMore
          <6> HIDE DEF m
          <6>3. LongestTo(curve', m + 1, IF longest >= w THEN longest ELSE w)
            BY <1>1, <3>1, <5>2, <5>3, <6>1, BarEndsLongest
          <6>4. EndedTo(curve', m + 1, episodes')
            BY <3>1, <6>1, <6>2, BarEndsStretch
          <6> QED BY <5>4, <6>3, <6>4
        <5> QED BY <1>1, <1>2, <1>3, <3>4, <4>1, <4>2, <5>2, <5>4, <5>5, <5>6
      <4> QED BY <4>3, <4>4
    <3> QED BY <3>6, <3>7
  <2> QED BY <2>1, <2>2
<1> QED BY <1>6, <1>8, <1>9 DEF CurveInv, KeptRight

LEMMA CurveStep == D!DigestAssumption /\ CurveInv /\ [D!Next]_digest => CurveInv'
<1> SUFFICES ASSUME D!DigestAssumption, CurveInv, [D!Next]_digest PROVE CurveInv'
  OBVIOUS
<1>1. \A v \in Levels, gap \in Gaps : D!Bar(v, gap) => CurveInv'
  BY CurveBar
<1>2. CASE UNCHANGED <<curve, since, high, longest, episodes>>
  BY <1>2 DEF CurveInv
<1>3. \A name \in Names, pnl \in Pnls : D!TradeCloses(name, pnl) => UNCHANGED <<curve, since, high, longest, episodes>>
  BY DEF D!TradeCloses, D!reading
<1>4. D!Line \/ D!Tear => UNCHANGED <<curve, since, high, longest, episodes>>
  BY DEF D!Line, D!Tear, D!reading
<1>5. UNCHANGED digest => UNCHANGED <<curve, since, high, longest, episodes>>
  BY DEF digest
<1> QED BY <1>1, <1>2, <1>3, <1>4, <1>5 DEF D!Next

LEMMA MinIsIt ==
    ASSUME NEW V \in SUBSET Nat, NEW x \in V, \A y \in V : x <= y
    PROVE  D!Min(V) = x
<1>1. D!Min(V) = CHOOSE u \in V : \A y \in V : u <= y
  BY DEF D!Min
<1>2. \A y, u \in Nat : y <= u /\ u <= y => y = u
  OBVIOUS
<1> QED BY <1>1, <1>2

(* Where the loop stands at the last bar.                                     *)
LEMMA CurveStands ==
    ASSUME CurveInv, curve # <<>>
    PROVE  \E h \in 1..Len(curve) :
              /\ HighAt(curve, since, high, h) /\ LongestTo(curve, h, longest) /\ EndedTo(curve, h, episodes)
              /\ h # Len(curve) => h < Len(curve) /\ since = high /\ since # 0 /\ Falls(curve, h, Len(curve))
              /\ h = Len(curve) => since = 0
<1>1. PICK h \in 1..Len(curve) : HighAt(curve, since, high, h) /\ LongestTo(curve, h, longest) /\ EndedTo(curve, h, episodes)
  BY DEF CurveInv, KeptRight
<1>2. GoodCurve(curve) /\ Len(curve) \in Nat
  BY DEF CurveInv, KeptRight, GoodCurve
<1> DEFINE m == Len(curve)
<1>3. m \in Nat /\ h \in 1..m
  BY <1>1, <1>2
<1>4. high = curve[h].t /\ since = (IF h = m THEN 0 ELSE high) /\ \A k \in h + 1 .. m : curve[k].v < curve[h].v
  BY <1>1 DEF HighAt
<1>5. curve[h].t \in Nat \ {0}
  BY <1>2, <1>3 DEF GoodCurve
<1> HIDE DEF m
<1>6. ASSUME h # m PROVE h < m /\ since = high /\ since # 0 /\ Falls(curve, h, m)
  BY <1>3, <1>4, <1>5, <1>6 DEF Falls
<1> QED BY <1>1, <1>4, <1>6 DEF m

LEMMA DurationIs ==
    ASSUME CurveInv, curve # <<>>
    PROVE  D!Duration \in Nat /\ LongestTo(curve, Len(curve), D!Duration)
<1>1. PICK h \in 1..Len(curve) :
              /\ HighAt(curve, since, high, h) /\ LongestTo(curve, h, longest) /\ EndedTo(curve, h, episodes)
              /\ h # Len(curve) => h < Len(curve) /\ since = high /\ since # 0 /\ Falls(curve, h, Len(curve))
              /\ h = Len(curve) => since = 0
  BY CurveStands
<1> DEFINE m == Len(curve)
<1>2. GoodCurve(curve) /\ m \in Nat /\ longest \in Nat /\ h \in 1..m
  BY <1>1 DEF CurveInv, KeptRight, GoodCurve
<1>3. CASE h = m
  BY <1>1, <1>2, <1>3 DEF D!Duration
<1>4. CASE h # m
  <2> DEFINE w == curve[m].t - high
  <2>1. h < m /\ since = high /\ Falls(curve, h, m) /\ D!Duration = D!Max({longest, w})
    BY <1>1, <1>4 DEF D!Duration
  <2>2. high = curve[h].t /\ IsHigh(curve, h)
    BY <1>1 DEF HighAt
  <2>3. \A k \in 1..m : curve[k].t \in Nat /\ curve[k].v \in Nat
    BY <1>2 DEF GoodCurve
  <2>4. \A i, j \in 1..m : i < j => curve[i].t < curve[j].t
    BY <1>2 DEF GoodCurve
  <2>5. m \in 1..m
    BY <1>2
  <2> HIDE DEF m
  <2>6. w \in Nat
    BY <1>2, <2>1, <2>2, <2>3, <2>4, <2>5
  <2> HIDE DEF w
  <2>7. D!Duration = IF longest >= w THEN longest ELSE w
    <3>1. CASE longest >= w
      <4>1. \A y \in {longest, w} : y <= longest
        BY <1>2, <2>6, <3>1
      <4> QED BY <1>2, <2>1, <2>6, <3>1, <4>1, MaxIsIt
    <3>2. CASE ~(longest >= w)
      <4>1. \A y \in {longest, w} : y <= w
        BY <1>2, <2>6, <3>2
      <4> QED BY <1>2, <2>1, <2>6, <3>2, <4>1, MaxIsIt
    <3> QED BY <3>1, <3>2
  <2>8. D!Duration \in Nat /\ longest <= D!Duration /\ w <= D!Duration /\ D!Duration \in {longest, w}
    BY <1>2, <2>6, <2>7
  <2>9. ASSUME NEW i \in 1..m, NEW j \in 1..m, Falls(curve, i, j) PROVE curve[j].t - curve[i].t <= D!Duration
    <3>0. curve[j].t \in Nat /\ curve[i].t \in Nat /\ curve[m].t \in Nat /\ curve[h].t \in Nat
      BY <1>2, <2>3, <2>5
    <3>1. CASE j > h
      <4>1. i >= h
        <5> SUFFICES ASSUME i < h PROVE FALSE
          BY <1>2
        <5>1. h \in i + 1 .. j - 1 /\ i \in 1..h
          BY <1>2, <3>1
        <5>2. curve[h].v < curve[i].v /\ curve[i].v <= curve[h].v
          BY <2>2, <2>9, <5>1 DEF Falls, IsHigh
        <5> QED BY <1>2, <2>3, <5>2
      <4>2. curve[h].t <= curve[i].t
        <5>1. CASE i = h
          BY <3>0, <5>1
        <5>2. CASE h < i
          BY <1>2, <2>4, <3>0, <5>2
        <5> QED BY <1>2, <4>1, <5>1, <5>2
      <4>3. curve[j].t <= curve[m].t
        <5>1. CASE j = m
          BY <3>0, <5>1
        <5>2. CASE j < m
          BY <1>2, <2>4, <2>5, <3>0, <5>2
        <5> QED BY <1>2, <5>1, <5>2
      <4>4. curve[j].t - curve[i].t <= w
        BY <2>2, <3>0, <4>2, <4>3 DEF w
      <4> QED BY <2>6, <2>8, <3>0, <4>4
    <3>2. CASE ~(j > h)
      <4>1. i \in 1..h /\ j \in 1..h
        BY <1>2, <2>9, <3>2 DEF Falls
      <4>2. curve[j].t - curve[i].t <= longest
        BY <1>1, <2>9, <4>1 DEF LongestTo
      <4> QED BY <1>2, <2>8, <3>0, <4>2
    <3> QED BY <3>1, <3>2
  <2>10. ASSUME D!Duration # 0 PROVE \E i, j \in 1..m : Falls(curve, i, j) /\ curve[j].t - curve[i].t = D!Duration
    <3>1. CASE D!Duration = longest
      <4>1. PICK i, j \in 1..h : Falls(curve, i, j) /\ curve[j].t - curve[i].t = longest
        BY <1>1, <2>10, <3>1 DEF LongestTo
      <4>2. i \in 1..m /\ j \in 1..m
        BY <1>2
      <4> QED BY <3>1, <4>1, <4>2
    <3>2. CASE D!Duration = w
      <4>1. Falls(curve, h, m) /\ curve[m].t - curve[h].t = D!Duration
        BY <2>1, <2>2, <3>2 DEF w
      <4> QED BY <1>2, <2>5, <4>1
    <3> QED BY <2>8, <3>1, <3>2
  <2>11. LongestTo(curve, m, D!Duration)
    BY <2>9, <2>10 DEF LongestTo
  <2> QED BY <2>8, <2>11 DEF m
<1> QED BY <1>3, <1>4

LEMMA DurationRight == CurveInv => D!DurationIsLongest
<1> SUFFICES ASSUME CurveInv, curve # <<>> PROVE D!DurationIsLongest
  BY DEF D!DurationIsLongest
<1> DEFINE pairs == {x \in (DOMAIN curve) \X (DOMAIN curve) :
                    /\ x[1] < x[2] /\ curve[x[1] + 1].v < curve[x[1]].v
                    /\ \A k \in (x[1] + 1)..(x[2] - 1) : curve[k].v < curve[x[1]].v}
           V == {0} \cup {curve[x[2]].t - curve[x[1]].t : x \in pairs}
           m == Len(curve)
<1>1. D!Duration \in Nat /\ LongestTo(curve, m, D!Duration)
  BY DurationIs
<1>2. GoodCurve(curve) /\ m \in Nat /\ DOMAIN curve = 1..m
  BY DEF CurveInv, KeptRight, GoodCurve
<1>3. \A i, j \in 1..m : Falls(curve, i, j) <=> <<i, j>> \in pairs
  BY <1>2 DEF Falls
<1>4. \A x \in pairs : x = <<x[1], x[2]>> /\ x[1] \in 1..m /\ x[2] \in 1..m /\ x[1] < x[2]
  BY <1>2
<1> HIDE DEF pairs
<1>5. \A x \in pairs : curve[x[2]].t - curve[x[1]].t \in Nat /\ curve[x[2]].t - curve[x[1]].t <= D!Duration
  <2> SUFFICES ASSUME NEW x \in pairs PROVE curve[x[2]].t - curve[x[1]].t \in Nat /\ curve[x[2]].t - curve[x[1]].t <= D!Duration
    OBVIOUS
  <2>1. x[1] \in 1..m /\ x[2] \in 1..m /\ x[1] < x[2] /\ Falls(curve, x[1], x[2])
    BY <1>3, <1>4
  <2>2. curve[x[1]].t < curve[x[2]].t /\ curve[x[1]].t \in Nat /\ curve[x[2]].t \in Nat
    BY <1>2, <2>1 DEF GoodCurve
  <2>3. curve[x[2]].t - curve[x[1]].t <= D!Duration
    BY <1>1, <2>1 DEF LongestTo
  <2> QED BY <2>2, <2>3
<1>6. V \in SUBSET Nat /\ \A y \in V : y <= D!Duration
  BY <1>1, <1>5
<1>7. D!Duration \in V
  <2>1. CASE D!Duration = 0
    BY <2>1
  <2>2. CASE D!Duration # 0
    <3>1. PICK i, j \in 1..m : Falls(curve, i, j) /\ curve[j].t - curve[i].t = D!Duration
      BY <1>1, <2>2 DEF LongestTo
    <3>2. <<i, j>> \in pairs /\ <<i, j>>[1] = i /\ <<i, j>>[2] = j
      BY <1>3, <3>1
    <3>3. \A x : x \in pairs => curve[x[2]].t - curve[x[1]].t \in V
      OBVIOUS
    <3> QED BY <3>1, <3>2, <3>3
  <2> QED BY <2>1, <2>2
<1>8. D!Duration = D!Max(V)
  <2> HIDE DEF V
  <2> QED BY <1>6, <1>7, MaxIsIt
<1> QED BY <1>8 DEF D!DurationIsLongest, pairs

LEMMA CardinalityD == \A V : D!Cardinality(V) = Cardinality(V) /\ (D!IsFiniteSet(V) <=> IsFiniteSet(V))
BY DEF D!Cardinality, Cardinality, D!IsFiniteSet, IsFiniteSet

(* Which member of 1..k is at a place of a total order.                       *)
LEMMA AtIs ==
    ASSUME NEW k \in Nat, NEW o, StrictOrder(o, 1..k), Linear(o, 1..k), NEW p \in 1..k
    PROVE  D!At(k, o, p) \in 1..k /\ 1 + Cardinality(Ahead(o, 1..k, D!At(k, o, p))) = p
<1>1. D!At(k, o, p) = CHOOSE i \in 1..k : Cardinality({j \in 1..k : <<j, i>> \in o}) = p - 1
  BY CardinalityD DEF D!At
<1>2. \A i : Ahead(o, 1..k, i) = {j \in 1..k : <<j, i>> \in o}
  BY DEF Ahead
<1>3. PICK x \in 1..k : 1 + Cardinality(Ahead(o, 1..k, x)) = p
  BY PlacesTaken
<1>4. \A i \in 1..k : Cardinality(Ahead(o, 1..k, i)) \in Nat
  <2> SUFFICES ASSUME NEW i \in 1..k PROVE Cardinality(Ahead(o, 1..k, i)) \in Nat
    OBVIOUS
  <2>1. IsFiniteSet(1..k) /\ Ahead(o, 1..k, i) \subseteq 1..k
    BY FS_Interval DEF Ahead
  <2> QED BY <2>1, FS_Subset, FS_CardinalityType
<1>5. Cardinality(Ahead(o, 1..k, x)) = p - 1
  BY <1>3, <1>4
<1>6. D!At(k, o, p) \in 1..k /\ Cardinality(Ahead(o, 1..k, D!At(k, o, p))) = p - 1
  BY <1>1, <1>2, <1>5
<1> QED BY <1>4, <1>6

(* The first has none ahead of it, and of two places the member at the first  *)
(* is the one ahead; every member has a place.                                *)
LEMMA AtFirst ==
    ASSUME NEW k \in Nat, k # 0, NEW o, StrictOrder(o, 1..k), Linear(o, 1..k)
    PROVE  D!At(k, o, 1) \in 1..k /\ \A i \in 1..k : <<i, D!At(k, o, 1)>> \notin o
<1>1. 1 \in 1..k
  OBVIOUS
<1> DEFINE f == D!At(k, o, 1)
<1>2. f \in 1..k /\ 1 + Cardinality(Ahead(o, 1..k, f)) = 1
  BY <1>1, AtIs
<1> HIDE DEF f
<1>3. IsFiniteSet(1..k) /\ Ahead(o, 1..k, f) \subseteq 1..k
  BY FS_Interval DEF Ahead
<1>4. IsFiniteSet(Ahead(o, 1..k, f)) /\ Cardinality(Ahead(o, 1..k, f)) \in Nat
  BY <1>3, FS_Subset, FS_CardinalityType
<1>5. Cardinality(Ahead(o, 1..k, f)) = 0
  BY <1>2, <1>4
<1>6. Ahead(o, 1..k, f) = {}
  BY <1>4, <1>5, FS_EmptySet
<1>7. \A i \in 1..k : <<i, f>> \notin o
  BY <1>6 DEF Ahead
<1> QED BY <1>2, <1>7 DEF f

LEMMA AtOrder ==
    ASSUME NEW k \in Nat, NEW o, StrictOrder(o, 1..k), Linear(o, 1..k), NEW p \in 1..k, NEW q \in 1..k, p < q
    PROVE  <<D!At(k, o, p), D!At(k, o, q)>> \in o
<1> DEFINE f == D!At(k, o, p)
           g == D!At(k, o, q)
<1>1. f \in 1..k /\ 1 + Cardinality(Ahead(o, 1..k, f)) = p /\ g \in 1..k /\ 1 + Cardinality(Ahead(o, 1..k, g)) = q
  BY AtIs
<1> HIDE DEF f, g
<1>2. f # g /\ p \in Nat /\ q \in Nat
  BY <1>1
<1>3. <<g, f>> \notin o
  <2> SUFFICES ASSUME <<g, f>> \in o PROVE FALSE
    OBVIOUS
  <2>1. 1 + Cardinality(Ahead(o, 1..k, g)) < 1 + Cardinality(Ahead(o, 1..k, f))
    BY <1>1, PlacesTaken
  <2> QED BY <1>1, <1>2, <2>1
<1>4. <<f, g>> \in o
  BY <1>1, <1>2, <1>3 DEF Linear
<1> QED BY <1>4 DEF f, g

LEMMA AtAll ==
    ASSUME NEW k \in Nat, NEW o, StrictOrder(o, 1..k), Linear(o, 1..k), NEW x \in 1..k
    PROVE  \E p \in 1..k : D!At(k, o, p) = x
<1>1. 1 + Cardinality(Ahead(o, 1..k, x)) \in 1..k
  BY PlacesTaken
<1> DEFINE p == 1 + Cardinality(Ahead(o, 1..k, x))
<1>2. p \in 1..k
  BY <1>1
<1>3. D!At(k, o, p) \in 1..k /\ 1 + Cardinality(Ahead(o, 1..k, D!At(k, o, p))) = p
  BY <1>2, AtIs
<1>4. D!At(k, o, p) = x
  BY <1>3, PlacesTaken
<1> QED BY <1>2, <1>4

-----------------------------------------------------------------------------

LEMMA NotBelowLong ==
    ASSUME NEW f \in Fractions, NEW g \in Fractions, NEW e \in Fractions, ~D!Below(f, g), ~D!Below(g, e)
    PROVE  ~D!Below(f, e)
<1> DEFINE f1 == f[1]
           f2 == f[2]
           g1 == g[1]
           g2 == g[2]
           e1 == e[1]
           e2 == e[2]
<1>1. /\ f1 \in Nat \ {0} /\ f2 \in Nat \ {0} /\ g1 \in Nat \ {0} /\ g2 \in Nat \ {0} /\ e1 \in Nat \ {0} /\ e2 \in Nat \ {0}
  BY DEF Fractions
<1>2. ~(f1 * g2 < g1 * f2) /\ ~(g1 * e2 < e1 * g2)
  BY DEF D!Below
<1>3. ~(f1 * e2 < e1 * f2) => ~D!Below(f, e)
  BY DEF D!Below
<1> HIDE DEF f1, f2, g1, g2, e1, e2
<1>4. \A x, y \in Nat : x * y \in Nat
  OBVIOUS
<1>5. g1 * f2 <= f1 * g2 /\ e1 * g2 <= g1 * e2
  <2>1. g1 * f2 \in Nat /\ f1 * g2 \in Nat /\ e1 * g2 \in Nat /\ g1 * e2 \in Nat
    BY <1>1, <1>4
  <2> QED BY <1>2, <2>1
<1>6. (g1 * f2) * e2 <= (f1 * g2) * e2 /\ (e1 * g2) * f2 <= (g1 * e2) * f2
  BY <1>1, <1>4, <1>5, Scaled
<1>7. /\ (g1 * f2) * e2 = (g1 * e2) * f2 /\ (f1 * g2) * e2 = (f1 * e2) * g2 /\ (e1 * g2) * f2 = (e1 * f2) * g2
  BY <1>1
<1>8. (e1 * f2) * g2 <= (f1 * e2) * g2
  <2>1. (g1 * e2) * f2 \in Nat /\ (f1 * e2) * g2 \in Nat /\ (e1 * f2) * g2 \in Nat
    BY <1>1, <1>4
  <2> QED BY <1>6, <1>7, <2>1
<1>9. e1 * f2 <= f1 * e2
  BY <1>1, <1>4, <1>8, Scaled
<1>10. e1 * f2 \in Nat /\ f1 * e2 \in Nat
  BY <1>1, <1>4
<1> QED BY <1>3, <1>9, <1>10

LEMMA BelowApart ==
    ASSUME NEW f \in Fractions, NEW g \in Fractions
    PROVE  /\ ~(D!Below(f, g) /\ D!Below(g, f))
           /\ ~D!Below(f, g) /\ ~D!Below(g, f) => D!Same(f, g)
<1>1. f[1] * g[2] \in Nat /\ g[1] * f[2] \in Nat
  <2>1. f[1] \in Nat /\ g[2] \in Nat /\ g[1] \in Nat /\ f[2] \in Nat
    BY DEF Fractions
  <2>2. \A x, y \in Nat : x * y \in Nat
    OBVIOUS
  <2> QED BY <2>1, <2>2
<1> QED BY <1>1 DEF D!Below, D!Same

(* Stretches, deepest first and of two as deep the earlier one, are in a      *)
(* total order.                                                               *)
LEMMA DeepestOrders ==
    ASSUME NEW q, NEW k \in Nat, DOMAIN q = 1..k,
           \A i \in 1..k : D!Depth(q[i][1], q[i][2]) \in Fractions
    PROVE  StrictOrder(D!DeepestFirst(q), 1..k) /\ Linear(D!DeepestFirst(q), 1..k)
<1> DEFINE o == D!DeepestFirst(q)
           dep(i) == D!Depth(q[i][1], q[i][2])
           low(i, j) == D!Below(dep(i), dep(j))
<1>1. \A i, j \in 1..k : <<i, j>> \in o <=> low(i, j) \/ (i < j /\ ~low(j, i))
  BY DEF D!DeepestFirst, D!Deeper
<1>2. \A i, j, g \in 1..k : ~low(i, j) /\ ~low(j, g) => ~low(i, g)
  <2> HIDE DEF dep
  <2>1. \A i \in 1..k : dep(i) \in Fractions
    BY DEF dep
  <2> QED BY <2>1, NotBelowLong
<1>3. \A i, j \in 1..k : ~(low(i, j) /\ low(j, i))
  <2> HIDE DEF dep
  <2>1. \A i \in 1..k : dep(i) \in Fractions
    BY DEF dep
  <2> QED BY <2>1, BelowApart
<1> HIDE DEF o, low
<1>4. \A x \in 1..k : <<x, x>> \notin o
  BY <1>1, <1>3
<1>5. \A x, y, z \in 1..k : <<x, y>> \in o /\ <<y, z>> \in o => <<x, z>> \in o
  <2> SUFFICES ASSUME NEW x \in 1..k, NEW y \in 1..k, NEW z \in 1..k, <<x, y>> \in o, <<y, z>> \in o PROVE <<x, z>> \in o
    OBVIOUS
  <2>1. (low(x, y) \/ (x < y /\ ~low(y, x))) /\ (low(y, z) \/ (y < z /\ ~low(z, y)))
    BY <1>1
  <2>2. ~low(y, x) /\ ~low(z, y)
    BY <1>3, <2>1
  <2>3. ~low(z, x)
    BY <1>2, <2>2
  <2>4. CASE low(x, z)
    BY <1>1, <2>4
  <2>5. CASE ~low(x, z)
    <3>1. ~low(x, y)
      <4> SUFFICES ASSUME low(x, y) PROVE FALSE
        OBVIOUS
      <4>1. ~low(x, z) /\ ~low(z, y)
        BY <2>2, <2>5
      <4> QED BY <1>2, <4>1
    <3>2. ~low(y, z)
      <4> SUFFICES ASSUME low(y, z) PROVE FALSE
        OBVIOUS
      <4>1. ~low(y, x) /\ ~low(x, z)
        BY <2>2, <2>5
      <4> QED BY <1>2, <4>1
    <3>3. x < z
      BY <2>1, <3>1, <3>2
    <3> QED BY <1>1, <2>3, <3>3
  <2> QED BY <2>4, <2>5
<1>6. \A x, y \in 1..k : x = y \/ <<x, y>> \in o \/ <<y, x>> \in o
  <2> SUFFICES ASSUME NEW x \in 1..k, NEW y \in 1..k, x # y PROVE <<x, y>> \in o \/ <<y, x>> \in o
    OBVIOUS
  <2>1. x < y \/ y < x
    OBVIOUS
  <2> QED BY <1>1, <1>3, <2>1
<1>7. StrictOrder(o, 1..k)
  BY <1>4, <1>5 DEF StrictOrder
<1>8. Linear(o, 1..k)
  BY <1>6 DEF Linear
<1> QED BY <1>7, <1>8 DEF o

(* How deep a stretch went: to its lowest bar, from its first.                *)
LEMMA DepthOf ==
    ASSUME GoodCurve(curve), NEW i \in 1..Len(curve), NEW j \in 1..Len(curve), i <= j,
           NEW from, NEW to, from = curve[i].t, to = curve[j].t \/ (to = 0 /\ j = Len(curve))
    PROVE  \E l \in i..j : D!Depth(from, to) = <<curve[l].v, curve[i].v>> /\ \A k \in i..j : curve[l].v <= curve[k].v
<1> DEFINE seg == {k \in DOMAIN curve : from <= curve[k].t /\ (to = 0 \/ curve[k].t <= to)}
           V == {curve[k].v : k \in seg}
           m == Len(curve)
<1> HIDE DEF seg, V
<1>0. curve \in Seq(CurveBars) /\ m \in Nat
  BY DEF GoodCurve
<1>1. /\ DOMAIN curve = 1..m /\ \A k \in 1..m : curve[k].t \in Nat \ {0} /\ curve[k].v \in Nat \ {0}
      /\ \A k, l \in 1..m : k < l => curve[k].t < curve[l].t
  <2>1. DOMAIN curve = 1..m
    BY <1>0
  <2>2. \A k \in 1..m : curve[k].t \in Nat \ {0} /\ curve[k].v \in Nat \ {0}
    BY DEF GoodCurve
  <2>3. \A k, l \in 1..m : k < l => curve[k].t < curve[l].t
    BY DEF GoodCurve
  <2> QED BY <2>1, <2>2, <2>3
<1> USE DEF seg, V
<1>2. i..j \subseteq 1..m /\ i \in i..j /\ m \in 1..m /\ i \in 1..m /\ j \in 1..m
  BY <1>0
<1> HIDE DEF m
<1>3. \A k, l \in 1..m : curve[k].t <= curve[l].t <=> k <= l
  <2> SUFFICES ASSUME NEW k \in 1..m, NEW l \in 1..m PROVE curve[k].t <= curve[l].t <=> k <= l
    OBVIOUS
  <2>1. curve[k].t \in Nat /\ curve[l].t \in Nat
    BY <1>1
  <2>2. CASE k = l
    BY <2>1, <2>2
  <2>3. CASE k < l
    BY <1>1, <2>1, <2>3
  <2>4. CASE l < k
    BY <1>1, <2>1, <2>4
  <2> QED BY <2>2, <2>3, <2>4
<1>4. seg = i..j
  <2>0. to = curve[j].t \/ (to = 0 /\ j = m)
    BY DEF m
  <2>1. \A k \in 1..m : k \in seg <=> i <= k /\ k <= j
    <3> SUFFICES ASSUME NEW k \in 1..m PROVE k \in seg <=> i <= k /\ k <= j
      OBVIOUS
    <3>1. from <= curve[k].t <=> i <= k
      BY <1>2, <1>3
    <3>2. (to = 0 \/ curve[k].t <= to) <=> k <= j
      <4>1. CASE to = curve[j].t
        <5>1. to # 0
          BY <1>1, <1>2, <4>1
        <5> QED BY <1>2, <1>3, <4>1, <5>1
      <4>2. CASE to = 0 /\ j = m
        BY <1>0, <1>2, <4>2
      <4> QED BY <2>0, <4>1, <4>2
    <3> QED BY <1>1, <3>1, <3>2
  <2> QED BY <1>1, <1>2, <2>1
<1>5. D!Depth(from, to) = <<D!Min(V), curve[D!Min(seg)].v>>
  BY DEF D!Depth
<1> HIDE DEF seg
<1>6. D!Min(seg) = i
  <2>1. seg \in SUBSET Nat /\ i \in seg /\ \A y \in seg : i <= y
    BY <1>4
  <2> QED BY <2>1, MinIsIt
<1>7. V \in SUBSET Nat /\ V # {} /\ \A k \in i..j : curve[k].v \in V
  BY <1>1, <1>2, <1>4
<1>8. PICK u \in V : \A y \in V : u <= y
  <2> HIDE DEF V
  <2> QED BY <1>7, LeastOf
<1>9. PICK l \in seg : u = curve[l].v
  BY <1>8
<1>10. D!Min(V) = u
  <2> HIDE DEF V
  <2> QED BY <1>7, <1>8, MinIsIt
<1> HIDE DEF V
<1> QED BY <1>4, <1>5, <1>6, <1>7, <1>8, <1>9, <1>10

(* A stretch below a high, and the drawdown of a bar.                         *)
Under(i, j) ==
    /\ i \in 1..Len(curve) /\ j \in 1..Len(curve) /\ i < j
    /\ IsHigh(curve, i) /\ curve[i + 1].v < curve[i].v
    /\ \A k \in i + 1 .. j - 1 : curve[k].v < curve[i].v
    /\ curve[i].v <= curve[j].v \/ (j = Len(curve) /\ curve[j].v < curve[i].v)

LEMMA PeakUnder ==
    ASSUME GoodCurve(curve), NEW i \in 1..Len(curve), NEW l \in 1..Len(curve), i <= l, IsHigh(curve, i),
           \A k \in i + 1 .. l : curve[k].v < curve[i].v
    PROVE  D!Peak(l) = curve[i].v
<1> DEFINE m == Len(curve)
<1>1. m \in Nat /\ \A k \in 1..m : curve[k].v \in Nat
  BY DEF GoodCurve
<1>2. l \in 1..m /\ i \in 1..l
  BY <1>1
<1>3. ASSUME NEW k \in 1..l PROVE curve[k].v <= curve[i].v
  <2> HIDE DEF m
  <2>1. CASE k \in 1..i
    BY <2>1 DEF IsHigh
  <2>2. CASE k \in i + 1 .. l
    <3>1. curve[k].v < curve[i].v /\ curve[k].v \in Nat /\ curve[i].v \in Nat
      BY <1>1, <1>2, <2>2
    <3> QED BY <3>1
  <2> QED BY <1>1, <1>2, <2>1, <2>2
<1> HIDE DEF m
<1> QED BY <1>2, <1>3, PeakIs DEF m

(* A stretch is as deep as one of its bars is below the peak, and no bar of   *)
(* it is further below; its depth is a loss.                                  *)
LEMMA DepthUnder ==
    ASSUME GoodCurve(curve), NEW i, NEW j, Under(i, j),
           NEW from, NEW to, from = curve[i].t, to = curve[j].t \/ (to = 0 /\ j = Len(curve)),
           to = 0 \/ curve[i].v <= curve[j].v
    PROVE  /\ D!Depth(from, to) \in Fractions /\ D!Depth(from, to) \in D!Drawdowns
           /\ D!Below(D!Depth(from, to), <<1, 1>>)
           /\ \A k \in i + 1 .. j : curve[k].v < curve[i].v =>
                 ~D!Below(<<curve[k].v, D!Peak(k)>>, D!Depth(from, to)) /\ D!Peak(k) = curve[i].v
<1> DEFINE m == Len(curve)
<1>1. m \in Nat /\ DOMAIN curve = 1..m /\ \A k \in 1..m : curve[k].v \in Nat \ {0}
  BY DEF GoodCurve
<1>2. /\ i \in 1..m /\ j \in 1..m /\ i < j
      /\ IsHigh(curve, i) /\ curve[i + 1].v < curve[i].v
      /\ \A k \in i + 1 .. j - 1 : curve[k].v < curve[i].v
      /\ curve[i].v <= curve[j].v \/ (j = m /\ curve[j].v < curve[i].v)
  BY DEF Under
<1>3. PICK l \in i..j : D!Depth(from, to) = <<curve[l].v, curve[i].v>> /\ \A k \in i..j : curve[l].v <= curve[k].v
  <2>1. i \in 1..Len(curve) /\ j \in 1..Len(curve)
    BY DEF Under
  <2>2. i <= j
    <3>1. i \in Nat /\ j \in Nat /\ i < j
      BY <1>1, <2>1 DEF Under
    <3> HIDE DEF m
    <3> QED BY <3>1
  <2> QED BY <2>1, <2>2, DepthOf
<1> HIDE DEF m
<1>4. i + 1 \in i..j /\ i \in i..j /\ i..j \subseteq 1..m
  BY <1>1, <1>2
<1>5. curve[l].v < curve[i].v
  <2>1. curve[l].v <= curve[i + 1].v /\ curve[i + 1].v < curve[i].v
    BY <1>2, <1>3, <1>4
  <2>2. curve[l].v \in Nat /\ curve[i + 1].v \in Nat /\ curve[i].v \in Nat
    BY <1>1, <1>3, <1>4
  <2> QED BY <2>1, <2>2
<1>6. l # i /\ l \in i + 1 .. j /\ l \in 1..m
  BY <1>1, <1>2, <1>3, <1>4, <1>5
<1>7. ASSUME NEW k \in i + 1 .. j, curve[k].v < curve[i].v PROVE D!Peak(k) = curve[i].v
  <2>1. \A y \in i + 1 .. k : curve[y].v < curve[i].v
    <3> SUFFICES ASSUME NEW y \in i + 1 .. k PROVE curve[y].v < curve[i].v
      OBVIOUS
    <3>1. CASE y = k
      BY <1>7, <3>1
    <3>2. CASE y # k
      <4>1. y \in i + 1 .. j - 1
        BY <1>1, <1>2, <3>2
      <4> QED BY <1>2, <4>1
    <3> QED BY <3>1, <3>2
  <2>2. k \in 1..m /\ i <= k
    BY <1>1, <1>2
  <2> QED BY <1>2, <2>1, <2>2, PeakUnder DEF m
<1>8. D!Depth(from, to) \in Fractions
  BY <1>1, <1>2, <1>3, <1>6 DEF Fractions
<1>9. D!Depth(from, to) \in D!Drawdowns
  <2>1. D!Peak(l) = curve[i].v
    BY <1>5, <1>6, <1>7
  <2> QED BY <1>1, <1>3, <1>6, <2>1 DEF D!Drawdowns
<1>10. D!Below(D!Depth(from, to), <<1, 1>>)
  <2>1. curve[l].v \in Nat /\ curve[i].v \in Nat
    BY <1>1, <1>2, <1>6
  <2>2. \A x, y \in Nat : x < y => D!Below(<<x, y>>, <<1, 1>>)
    BY DEF D!Below
  <2> QED BY <1>3, <1>5, <2>1, <2>2
<1>11. ASSUME NEW k \in i + 1 .. j, curve[k].v < curve[i].v
       PROVE  ~D!Below(<<curve[k].v, D!Peak(k)>>, D!Depth(from, to))
  <2>1. D!Peak(k) = curve[i].v
    BY <1>7, <1>11
  <2>2. k \in i..j /\ k \in 1..m
    BY <1>1, <1>2
  <2>3. curve[l].v <= curve[k].v
    BY <1>3, <2>2
  <2>4. curve[l].v \in Nat /\ curve[k].v \in Nat /\ curve[i].v \in Nat \ {0}
    BY <1>1, <1>2, <1>6, <2>2
  <2>5. curve[l].v * curve[i].v <= curve[k].v * curve[i].v
    BY <2>3, <2>4, Scaled
  <2>6. \A x, y \in Nat : x * y \in Nat
    OBVIOUS
  <2>7. curve[l].v * curve[i].v \in Nat /\ curve[k].v * curve[i].v \in Nat
    BY <2>4, <2>6
  <2>8. ~(curve[k].v * curve[i].v < curve[l].v * curve[i].v)
    BY <2>5, <2>7
  <2> QED BY <1>3, <2>1, <2>8 DEF D!Below
<1> QED BY <1>7, <1>8, <1>9, <1>10, <1>11

(* Every stretch of the list is one, and a bar below its peak is in one.      *)
ListedAs(e, i, j) ==
    /\ Under(i, j) /\ e[1] = curve[i].t
    /\ e[2] = curve[j].t \/ (e[2] = 0 /\ j = Len(curve))
    /\ e[2] = 0 \/ curve[i].v <= curve[j].v

LEMMA StretchesAre ==
    ASSUME CurveInv, curve # <<>>
    PROVE  /\ Len(D!Stretches) \in Nat /\ DOMAIN D!Stretches = 1..Len(D!Stretches)
           /\ \A x \in 1..Len(D!Stretches) : \E i, j \in 1..Len(curve) : ListedAs(D!Stretches[x], i, j)
           /\ \A k \in 1..Len(curve) : IsHigh(curve, k) \/
                 \E x \in 1..Len(D!Stretches) : \E i, j \in 1..Len(curve) :
                    ListedAs(D!Stretches[x], i, j) /\ k \in i + 1 .. j /\ curve[k].v < curve[i].v
<1>1. PICK h \in 1..Len(curve) :
              /\ HighAt(curve, since, high, h) /\ LongestTo(curve, h, longest) /\ EndedTo(curve, h, episodes)
              /\ h # Len(curve) => h < Len(curve) /\ since = high /\ since # 0 /\ Falls(curve, h, Len(curve))
              /\ h = Len(curve) => since = 0
  BY CurveStands
<1> DEFINE m == Len(curve)
           z == Len(episodes)
           q == D!Stretches
<1>2. GoodCurve(curve) /\ m \in Nat /\ episodes \in Seq(Nat \X Nat) /\ z \in Nat /\ DOMAIN episodes = 1..z
  BY DEF CurveInv, KeptRight, GoodCurve
<1>3. \A k \in 1..m : curve[k].t \in Nat \ {0} /\ curve[k].v \in Nat \ {0}
  BY <1>2 DEF GoodCurve
<1>4. h \in 1..m /\ 1..h \subseteq 1..m
  BY <1>1, <1>2
<1>5. ASSUME NEW e, NEW i \in 1..h, NEW j \in 1..h, Stretch(curve, e, i, j)
      PROVE  ListedAs(e, i, j)
  BY <1>4, <1>5 DEF ListedAs, Under, Stretch, Falls
<1>6. h = m => q = episodes
  BY <1>1 DEF D!Stretches
<1>7. h # m => q = Append(episodes, <<since, 0>>)
  BY <1>1 DEF D!Stretches
<1>8. h # m => ListedAs(<<since, 0>>, h, m)
  <2> SUFFICES ASSUME h # m PROVE ListedAs(<<since, 0>>, h, m)
    OBVIOUS
  <2>1. h < m /\ since = curve[h].t /\ Falls(curve, h, m) /\ IsHigh(curve, h) /\ \A k \in h + 1 .. m : curve[k].v < curve[h].v
    BY <1>1 DEF HighAt
  <2> HIDE DEF m
  <2>2. m \in h + 1 .. m /\ m \in 1..m
    BY <1>2, <1>4, <2>1
  <2>3. Under(h, m)
    BY <1>4, <2>1, <2>2 DEF Under, Falls, m
  <2> QED BY <2>1, <2>3 DEF ListedAs, m
<1>9. /\ Len(q) \in Nat /\ DOMAIN q = 1..Len(q) /\ \A x \in 1..z : x \in 1..Len(q) /\ q[x] = episodes[x]
      /\ h = m => Len(q) = z
      /\ h # m => Len(q) = z + 1 /\ q[z + 1] = <<since, 0>>
  <2> HIDE DEF q, m
  <2>1. CASE h = m
    BY <1>2, <1>6, <2>1
  <2>2. CASE h # m
    <3>1. <<since, 0>> \in Nat \X Nat
      BY DEF CurveInv, KeptRight
    <3> DEFINE e == <<since, 0>>
               S1 == Nat \X Nat
    <3>2. q = Append(episodes, e) /\ episodes \in Seq(S1) /\ e \in S1
      BY <1>2, <1>7, <2>2, <3>1
    <3> HIDE DEF e, S1
    <3>3. Len(q) = z + 1 /\ q \in Seq(S1) /\ q[z + 1] = e /\ \A x \in 1..z : q[x] = episodes[x]
      BY <3>2
    <3> HIDE DEF z
    <3>4. DOMAIN q = 1..Len(q) /\ \A x \in 1..z : x \in 1..Len(q)
      BY <1>2, <3>3
    <3> QED BY <1>2, <2>2, <3>3, <3>4 DEF e
  <2> QED BY <2>1, <2>2
<1>10. ASSUME NEW x \in 1..Len(q) PROVE \E i, j \in 1..m : ListedAs(q[x], i, j)
  <2> HIDE DEF q, m
  <2>1. CASE x \in 1..z
    <3>1. PICK i, j \in 1..h : Stretch(curve, episodes[x], i, j)
      BY <1>1, <2>1 DEF EndedTo, z
    <3>2. ListedAs(q[x], i, j)
      BY <1>5, <1>9, <2>1, <3>1
    <3> QED BY <1>4, <3>2
  <2>2. CASE x \notin 1..z
    <3>1. h # m /\ x = z + 1
      <4> HIDE DEF z
      <4>1. h = m => Len(q) = z
        BY <1>9
      <4>2. h # m => Len(q) = z + 1
        BY <1>9
      <4> QED BY <1>2, <2>2, <4>1, <4>2
    <3>2. m \in 1..m
      BY <1>2, <1>4
    <3> QED BY <1>4, <1>8, <1>9, <3>1, <3>2
  <2> QED BY <2>1, <2>2
<1>11. ASSUME NEW k \in 1..m, ~IsHigh(curve, k)
       PROVE  \E x \in 1..Len(q) : \E i, j \in 1..m : ListedAs(q[x], i, j) /\ k \in i + 1 .. j /\ curve[k].v < curve[i].v
  <2>1. CASE k \in 1..h
    <3>1. PICK x \in 1..z : \E i, j \in 1..h : Stretch(curve, episodes[x], i, j) /\ i < k /\ k < j
      BY <1>1, <1>11, <2>1 DEF EndedTo
    <3>2. PICK i, j \in 1..h : Stretch(curve, episodes[x], i, j) /\ i < k /\ k < j
      BY <3>1
    <3> HIDE DEF q, m, z
    <3>3. ListedAs(q[x], i, j) /\ x \in 1..Len(q)
      BY <1>5, <1>9, <3>2
    <3>4. k \in i + 1 .. j - 1 /\ k \in i + 1 .. j
      BY <1>2, <1>4, <3>2
    <3>5. curve[k].v < curve[i].v
      BY <3>2, <3>4 DEF Stretch, Falls
    <3> QED BY <1>4, <3>3, <3>4, <3>5
  <2>2. CASE k \notin 1..h
    <3>1. k \in h + 1 .. m /\ h # m /\ m \in 1..m
      BY <1>2, <1>4, <2>2
    <3>2. curve[k].v < curve[h].v
      BY <1>1, <3>1 DEF HighAt
    <3>3. z + 1 \in 1..Len(q) /\ ListedAs(q[z + 1], h, m)
      <4> HIDE DEF q, m, z
      <4>1. Len(q) = z + 1 /\ q[z + 1] = <<since, 0>>
        BY <1>9, <3>1
      <4>2. ListedAs(<<since, 0>>, h, m)
        BY <1>8, <3>1
      <4> QED BY <1>2, <4>1, <4>2
    <3> HIDE DEF q, m, z
    <3> QED BY <1>4, <3>1, <3>2, <3>3
  <2> QED BY <2>1, <2>2
<1> QED BY <1>9, <1>10, <1>11

LEMMA FirstTakes ==
    ASSUME NEW q, NEW V, q \in Seq(V), NEW b \in Nat \ {0}, Len(q) # 0
    PROVE  D!First(q, b) # <<>> /\ D!First(q, b)[1] = q[1]
<1> DEFINE w == D!Min({b, Len(q)})
<1>1. Len(q) \in Nat \ {0}
  OBVIOUS
<1>2. w \in {b, Len(q)} /\ w <= Len(q)
  <2>1. {b, Len(q)} \in SUBSET Nat
    BY <1>1
  <2>2. CASE b <= Len(q)
    <3>1. \A y \in {b, Len(q)} : b <= y
      BY <1>1, <2>2
    <3>2. w = b
      BY <2>1, <3>1, MinIsIt
    <3> QED BY <2>2, <3>2
  <2>3. CASE ~(b <= Len(q))
    <3>1. \A y \in {b, Len(q)} : Len(q) <= y
      BY <1>1, <2>3
    <3>2. w = Len(q)
      BY <2>1, <3>1, MinIsIt
    <3> QED BY <1>1, <3>2
  <2> QED BY <2>2, <2>3
<1>3. D!First(q, b) = SubSeq(q, 1, w)
  BY DEF D!First
<1> HIDE DEF w
<1>4. w \in Nat \ {0} /\ w \in 1..Len(q)
  BY <1>1, <1>2
<1>5. Len(SubSeq(q, 1, w)) = w /\ SubSeq(q, 1, w)[1] = q[1]
  BY <1>4
<1> QED BY <1>3, <1>4, <1>5

LEMMA EpisodesExplain == D!DigestAssumption /\ CurveInv => D!EpisodesExplainDrawdown
<1> SUFFICES ASSUME D!DigestAssumption, CurveInv, Len(curve) >= 3 PROVE D!EpisodesExplainDrawdown
  BY DEF D!EpisodesExplainDrawdown
<1> DEFINE q == D!Stretches
           z == Len(q)
           m == Len(curve)
           dep(x) == D!Depth(q[x][1], q[x][2])
<1>1. GoodCurve(curve) /\ curve # <<>> /\ m \in Nat /\ DOMAIN curve = 1..m /\ 1 \in 1..m
  BY DEF CurveInv, KeptRight, GoodCurve
<1>2. WorstDrawdowns \in Nat \ {0}
  BY DEF D!DigestAssumption
<1>3. /\ z \in Nat /\ DOMAIN q = 1..z
      /\ \A x \in 1..z : \E i, j \in 1..m : ListedAs(q[x], i, j)
      /\ \A k \in 1..m : IsHigh(curve, k) \/
           \E x \in 1..z : \E i, j \in 1..m : ListedAs(q[x], i, j) /\ k \in i + 1 .. j /\ curve[k].v < curve[i].v
  BY <1>1, StretchesAre
<1>4. D!Worst = D!First(D!Sorted(q), WorstDrawdowns)
  BY DEF D!Worst
<1> HIDE DEF q, m
<1>5. ASSUME NEW x \in 1..z, NEW i, NEW j, ListedAs(q[x], i, j)
      PROVE  /\ dep(x) \in Fractions /\ dep(x) \in D!Drawdowns /\ D!Below(dep(x), <<1, 1>>)
             /\ \A k \in i + 1 .. j : curve[k].v < curve[i].v =>
                   ~D!Below(<<curve[k].v, D!Peak(k)>>, dep(x)) /\ D!Peak(k) = curve[i].v
  BY <1>1, <1>5, DepthUnder DEF ListedAs
<1>6. \A x \in 1..z : dep(x) \in Fractions /\ dep(x) \in D!Drawdowns /\ D!Below(dep(x), <<1, 1>>)
  <2> HIDE DEF dep
  <2> QED BY <1>3, <1>5
<1>7. D!Sorted(q) = [y \in 1..z |-> q[D!At(z, D!DeepestFirst(q), y)]]
  BY <1>3 DEF D!Sorted
<1>8. ASSUME NEW k \in 1..m
      PROVE  /\ <<curve[k].v, D!Peak(k)>> \in Fractions
             /\ IsHigh(curve, k) => D!Peak(k) = curve[k].v
  <2>1. curve[k].v \in Nat \ {0} /\ \A l \in 1..m : curve[l].v \in Nat \ {0}
    BY <1>1 DEF GoodCurve, m
  <2>2. IsHigh(curve, k) => D!Peak(k) = curve[k].v
    <3>1. k \in 1..k /\ k \in 1..Len(curve)
      BY <1>1 DEF m
    <3> QED BY <1>1, <3>1, PeakIs DEF IsHigh
  <2>3. CASE IsHigh(curve, k)
    BY <2>1, <2>2, <2>3 DEF Fractions
  <2>4. CASE ~IsHigh(curve, k)
    <3>1. PICK x \in 1..z : \E i, j \in 1..m : ListedAs(q[x], i, j) /\ k \in i + 1 .. j /\ curve[k].v < curve[i].v
      BY <1>3, <2>4
    <3>2. PICK i, j \in 1..m : ListedAs(q[x], i, j) /\ k \in i + 1 .. j /\ curve[k].v < curve[i].v
      BY <3>1
    <3> HIDE DEF dep
    <3>3. D!Peak(k) = curve[i].v
      BY <1>5, <3>2
    <3> QED BY <2>1, <2>4, <3>3 DEF Fractions
  <2> QED BY <2>2, <2>3, <2>4
<1>9. D!Drawdowns = {<<curve[k].v, D!Peak(k)>> : k \in 1..m}
  BY <1>1 DEF D!Drawdowns
<1>10. ASSUME NEW p \in D!Drawdowns, \A g \in D!Drawdowns : ~D!Below(g, p)
       PROVE  D!MaxDrawdown \in D!Drawdowns /\ D!Same(p, D!MaxDrawdown) /\ D!MaxDrawdown \in Fractions
  <2>1. D!MaxDrawdown \in D!Drawdowns /\ \A g \in D!Drawdowns : ~D!Below(g, D!MaxDrawdown)
    BY <1>10 DEF D!MaxDrawdown
  <2>2. p \in Fractions /\ D!MaxDrawdown \in Fractions
    BY <1>8, <1>9, <2>1
  <2> QED BY <1>10, <2>1, <2>2, BelowApart
<1>11. CASE z = 0
  <2>1. \A k \in 1..m : IsHigh(curve, k)
    BY <1>3, <1>11
  <2>2. D!Worst = <<>>
    <3>1. D!Sorted(q) = <<>>
      BY <1>7, <1>11
    <3>2. {WorstDrawdowns, 0} \in SUBSET Nat /\ \A y \in {WorstDrawdowns, 0} : 0 <= y
      BY <1>2
    <3>3. D!Min({WorstDrawdowns, 0}) = 0
      BY <3>2, MinIsIt
    <3>4. D!First(<<>>, WorstDrawdowns) = SubSeq(<<>>, 1, 0)
      BY <3>3 DEF D!First
    <3> QED BY <1>4, <3>1, <3>4
  <2>3. ASSUME NEW p \in D!Drawdowns, NEW g \in D!Drawdowns PROVE ~D!Below(g, p) /\ p[1] = p[2]
    <3>1. PICK k \in 1..m : p = <<curve[k].v, D!Peak(k)>>
      BY <1>9
    <3>2. PICK l \in 1..m : g = <<curve[l].v, D!Peak(l)>>
      BY <1>9
    <3>3. D!Peak(k) = curve[k].v /\ D!Peak(l) = curve[l].v
      BY <1>8, <2>1
    <3>4. curve[k].v \in Nat /\ curve[l].v \in Nat
      BY <1>1 DEF GoodCurve, m
    <3>5. \A x, y \in Nat : ~(y * x < x * y)
      OBVIOUS
    <3> QED BY <3>1, <3>2, <3>3, <3>4, <3>5 DEF D!Below
  <2>4. <<curve[1].v, D!Peak(1)>> \in D!Drawdowns
    BY <1>1, <1>9
  <2>5. D!MaxDrawdown \in D!Drawdowns /\ D!MaxDrawdown \in Fractions
    BY <1>10, <2>3, <2>4
  <2>6. D!MaxDrawdown[1] = D!MaxDrawdown[2] /\ D!MaxDrawdown[1] \in Nat
    BY <2>3, <2>5 DEF Fractions
  <2>7. D!Same(D!MaxDrawdown, <<1, 1>>)
    BY <2>6 DEF D!Same
  <2> QED BY <2>2, <2>7 DEF D!EpisodesExplainDrawdown
<1>12. CASE z # 0
  <2> DEFINE o == D!DeepestFirst(q)
             a == D!At(z, o, 1)
  <2>1. StrictOrder(o, 1..z) /\ Linear(o, 1..z)
    BY <1>3, <1>6, DeepestOrders
  <2>2. a \in 1..z /\ \A x \in 1..z : <<x, a>> \notin o
    BY <1>3, <1>12, <2>1, AtFirst
  <2>3. \A x \in 1..z : ~D!Below(dep(x), dep(a))
    <3>1. \A x \in 1..z : D!Deeper(q[x], q[a]) => <<x, a>> \in o
      BY <1>3, <2>2 DEF D!DeepestFirst
    <3> QED BY <2>2, <3>1 DEF D!Deeper
  <2>4. D!Sorted(q) \in Seq({q[x] : x \in 1..z}) /\ Len(D!Sorted(q)) = z /\ D!Sorted(q)[1] = q[a]
    <3>1. \A y \in 1..z : D!At(z, o, y) \in 1..z
      BY <1>3, <2>1, AtIs
    <3>2. 1 \in 1..z
      BY <1>3, <1>12
    <3> QED BY <1>3, <1>7, <3>1, <3>2
  <2>5. D!Worst # <<>> /\ D!Worst[1] = q[a]
    BY <1>2, <1>4, <1>12, <2>4, FirstTakes
  <2> HIDE DEF dep, o, a
  <2>6. ASSUME NEW g \in D!Drawdowns PROVE ~D!Below(g, dep(a))
    <3>1. PICK k \in 1..m : g = <<curve[k].v, D!Peak(k)>>
      BY <1>9
    <3>2. g \in Fractions
      BY <1>8, <3>1
    <3>3. CASE IsHigh(curve, k)
      <4>1. g = <<curve[k].v, curve[k].v>> /\ curve[k].v \in Nat
        BY <1>1, <1>8, <3>1, <3>3 DEF GoodCurve, m
      <4>2. D!Below(dep(a), <<1, 1>>) /\ dep(a) \in Fractions /\ <<1, 1>> \in Fractions
        BY <1>6, <2>2 DEF Fractions
      <4>3. ~D!Below(g, <<1, 1>>) /\ ~D!Below(<<1, 1>>, g)
        BY <4>1 DEF D!Below
      <4>4. ~D!Below(<<1, 1>>, dep(a))
        BY <4>2, BelowApart
      <4> QED BY <3>2, <4>2, <4>3, <4>4, NotBelowLong
    <3>4. CASE ~IsHigh(curve, k)
      <4>1. PICK x \in 1..z : \E i, j \in 1..m : ListedAs(q[x], i, j) /\ k \in i + 1 .. j /\ curve[k].v < curve[i].v
        BY <1>3, <3>4
      <4>2. ~D!Below(g, dep(x))
        BY <1>5, <3>1, <4>1
      <4> QED BY <1>6, <2>2, <2>3, <3>2, <4>2, NotBelowLong
    <3> QED BY <3>3, <3>4
  <2>7. D!Same(dep(a), D!MaxDrawdown)
    BY <1>6, <1>10, <2>2, <2>6
  <2> QED BY <2>5, <2>7 DEF D!EpisodesExplainDrawdown, dep
<1> QED BY <1>11, <1>12

LEMMA TotalD == \A q : D!Total(q) = Total(q)
BY CardinalityD DEF D!Total, D!Units, Total, Units

-----------------------------------------------------------------------------
(* Its trades: what a set of them made, and what those of a name made.        *)
TradesMade == [name : Names, pnl : Int]
PnlOf(ts, V) == Total([i \in V |-> ts[i].pnl])
MadeBy(ts, x) == PnlOf(ts, {i \in DOMAIN ts : ts[i].name = x})
TradedIn(ts) == {ts[i].name : i \in DOMAIN ts}
AddsUp(ts) == Total([x \in TradedIn(ts) |-> MadeBy(ts, x)]) = PnlOf(ts, DOMAIN ts)

LEMMA PnlType ==
    ASSUME NEW ts \in Seq(TradesMade), NEW V \in SUBSET DOMAIN ts
    PROVE  PnlOf(ts, V) \in Int /\ IsFiniteSet(V) /\ [i \in V |-> ts[i].pnl] \in [V -> Int]
<1>1. DOMAIN ts = 1..Len(ts) /\ Len(ts) \in Nat
  OBVIOUS
<1>2. IsFiniteSet(DOMAIN ts)
  BY <1>1, FS_Interval
<1>3. IsFiniteSet(V)
  BY <1>2, FS_Subset
<1>4. \A i \in DOMAIN ts : ts[i].pnl \in Int
  <2>1. \A i \in DOMAIN ts : ts[i] \in TradesMade
    BY <1>1
  <2> QED BY <2>1 DEF TradesMade
<1>5. [i \in V |-> ts[i].pnl] \in [V -> Int]
  BY <1>4
<1> QED BY <1>3, <1>5, TotalType DEF PnlOf

LEMMA TradedFinite ==
    ASSUME NEW ts \in Seq(TradesMade)
    PROVE  IsFiniteSet(TradedIn(ts)) /\ [x \in TradedIn(ts) |-> MadeBy(ts, x)] \in [TradedIn(ts) -> Int]
<1> DEFINE f == [i \in DOMAIN ts |-> ts[i].name]
<1>1. f \in Surjection(DOMAIN ts, TradedIn(ts))
  BY DEF Surjection, TradedIn
<1>2. IsFiniteSet(DOMAIN ts)
  BY PnlType
<1> HIDE DEF f
<1>3. IsFiniteSet(TradedIn(ts))
  BY <1>1, <1>2, FS_Surjection
<1>4. \A x : MadeBy(ts, x) \in Int
  BY PnlType DEF MadeBy
<1> QED BY <1>3, <1>4

LEMMA OneTradeMore ==
    ASSUME NEW ts \in Seq(TradesMade), AddsUp(ts), NEW us \in Seq(TradesMade), Len(us) = Len(ts) + 1,
           \A i \in 1..Len(ts) : us[i] = ts[i]
    PROVE  AddsUp(us)
<1> DEFINE k == Len(ts)
           x0 == us[k + 1].name
           p0 == us[k + 1].pnl
           ft == [x \in TradedIn(ts) |-> MadeBy(ts, x)]
           fu == [x \in TradedIn(us) |-> MadeBy(us, x)]
           Of(x) == {i \in DOMAIN ts : ts[i].name = x}
<1>1. k \in Nat /\ DOMAIN ts = 1..k /\ DOMAIN us = 1..(k + 1) /\ 1..(k + 1) = 1..k \cup {k + 1} /\ k + 1 \notin 1..k
  OBVIOUS
<1>2. p0 \in Int /\ x0 \in Names
  <2>1. us[k + 1] \in TradesMade
    BY <1>1
  <2> QED BY <2>1 DEF TradesMade
<1>3. ASSUME NEW V \in SUBSET (1..k)
      PROVE  PnlOf(us, V) = PnlOf(ts, V) /\ PnlOf(us, V \cup {k + 1}) = PnlOf(ts, V) + p0
  <2> DEFINE a == [i \in V |-> ts[i].pnl]
             b == [i \in V |-> us[i].pnl]
             c == [i \in V \cup {k + 1} |-> us[i].pnl]
  <2>1. a = b
    BY <1>1
  <2>2. a \in [V -> Int] /\ IsFiniteSet(V)
    BY <1>1, PnlType
  <2>3. c \in [V \cup {k + 1} -> Int]
    BY <1>1, PnlType
  <2>4. k + 1 \notin V /\ c[k + 1] = p0 /\ \A i \in V : c[i] = a[i]
    BY <1>1
  <2>5. PnlOf(ts, V) = Total(a) /\ PnlOf(us, V) = Total(b) /\ PnlOf(us, V \cup {k + 1}) = Total(c)
    BY DEF PnlOf
  <2> HIDE DEF a, b, c
  <2>6. Total(c) = Total(a) + c[k + 1]
    <3> DEFINE e == k + 1
    <3>1. /\ IsFiniteSet(V) /\ a \in [V -> Int] /\ e \notin V /\ c \in [V \cup {e} -> Int]
          /\ \A i \in V : c[i] = a[i]
      BY <2>2, <2>3, <2>4
    <3> HIDE DEF e
    <3> DEFINE U == V \cup {e}
    <3>3. IsFiniteSet(U) /\ e \in U /\ V = U \ {e} /\ c \in [U -> Int]
      BY <3>1, FS_AddElement
    <3> HIDE DEF U
    <3>4. Total(c) = Total(Without(c, e)) + c[e]
      BY <3>3, TotalSplit
    <3>5. Without(c, e) = a
      BY <3>1, <3>3 DEF Without
    <3>2. Total(c) = Total(a) + c[e]
      BY <3>4, <3>5
    <3> QED BY <3>2 DEF e
  <2> QED BY <2>1, <2>4, <2>5, <2>6
<1>4. PnlOf(us, DOMAIN us) = PnlOf(ts, DOMAIN ts) + p0
  BY <1>1, <1>3
<1>5. \A x : Of(x) \in SUBSET (1..k)
  BY <1>1
<1>6. \A x : x # x0 => MadeBy(us, x) = MadeBy(ts, x)
  <2> SUFFICES ASSUME NEW x, x # x0 PROVE MadeBy(us, x) = MadeBy(ts, x)
    OBVIOUS
  <2>1. {i \in DOMAIN us : us[i].name = x} = Of(x)
    BY <1>1
  <2> QED BY <1>3, <1>5, <2>1 DEF MadeBy
<1>7. MadeBy(us, x0) = MadeBy(ts, x0) + p0
  <2>1. {i \in DOMAIN us : us[i].name = x0} = Of(x0) \cup {k + 1}
    BY <1>1
  <2> QED BY <1>3, <1>5, <2>1 DEF MadeBy
<1>8. TradedIn(us) = TradedIn(ts) \cup {x0}
  BY <1>1 DEF TradedIn
<1>9. /\ IsFiniteSet(TradedIn(ts)) /\ ft \in [TradedIn(ts) -> Int]
      /\ fu \in [TradedIn(us) -> Int] /\ Total(ft) \in Int
      /\ MadeBy(ts, x0) \in Int
  BY TradedFinite, TotalType, PnlType DEF MadeBy
<1>10. Total(fu) = Total(ft) + p0
  <2>1. CASE x0 \in TradedIn(ts)
    <3>1. TradedIn(us) = TradedIn(ts)
      BY <1>8, <2>1
    <3>2. \A x \in TradedIn(ts) \ {x0} : fu[x] = ft[x]
      BY <1>6, <3>1
    <3>3. ft[x0] = MadeBy(ts, x0) /\ fu[x0] = MadeBy(us, x0)
      BY <2>1, <3>1
    <3> HIDE DEF ft, fu, x0
    <3>4. Total(fu) = Total(ft) - ft[x0] + fu[x0]
      <4> DEFINE V == TradedIn(ts)
      <4>1. IsFiniteSet(V) /\ ft \in [V -> Int] /\ fu \in [V -> Int] /\ x0 \in V /\ \A i \in V \ {x0} : fu[i] = ft[i]
        BY <1>9, <2>1, <3>1, <3>2
      <4> HIDE DEF V
      <4> QED BY <4>1, TotalStep, Z3
    <3> QED BY <1>2, <1>7, <1>9, <3>3, <3>4
  <2>2. CASE x0 \notin TradedIn(ts)
    <3>1. \A x \in TradedIn(ts) : fu[x] = ft[x]
      BY <1>6, <1>8, <2>2
    <3>2. fu[x0] = MadeBy(us, x0)
      BY <1>8
    <3>3. MadeBy(ts, x0) = 0
      <4>1. Of(x0) = {}
        BY <2>2 DEF TradedIn
      <4> QED BY <4>1, TotalEmpty DEF MadeBy, PnlOf
    <3> HIDE DEF ft, fu, x0
    <3>4. Total(fu) = Total(ft) + fu[x0]
      <4> DEFINE V == TradedIn(ts)
      <4>1. IsFiniteSet(V) /\ ft \in [V -> Int] /\ x0 \notin V /\ fu \in [V \cup {x0} -> Int] /\ \A i \in V : fu[i] = ft[i]
        BY <1>8, <1>9, <2>2, <3>1
      <4> HIDE DEF V
      <4> DEFINE U == V \cup {x0}
      <4>2. IsFiniteSet(U) /\ x0 \in U /\ V = U \ {x0} /\ fu \in [U -> Int]
        BY <4>1, FS_AddElement
      <4> HIDE DEF U
      <4>3. Total(fu) = Total(Without(fu, x0)) + fu[x0]
        BY <4>2, TotalSplit
      <4>4. Without(fu, x0) = ft
        BY <4>1, <4>2 DEF Without
      <4> QED BY <4>3, <4>4
    <3> QED BY <1>2, <1>7, <1>9, <3>2, <3>3, <3>4
  <2> QED BY <2>1, <2>2
<1>11. Total(ft) = PnlOf(ts, DOMAIN ts)
  BY DEF AddsUp
<1>12. Total(fu) = PnlOf(us, DOMAIN us)
  BY <1>4, <1>10, <1>11
<1> QED BY <1>12 DEF AddsUp

LedgerInv == trades \in Seq(TradesMade) /\ AddsUp(trades)

LEMMA LedgerInit == D!Init => LedgerInv
<1> SUFFICES ASSUME D!Init PROVE LedgerInv
  OBVIOUS
<1>1. trades = <<>> /\ trades \in Seq(TradesMade) /\ DOMAIN trades = {}
  BY DEF D!Init
<1>2. AddsUp(trades)
  <2>1. TradedIn(trades) = {}
    BY <1>1 DEF TradedIn
  <2>2. Total([x \in TradedIn(trades) |-> MadeBy(trades, x)]) = 0
    BY <2>1, TotalEmpty
  <2>3. PnlOf(trades, DOMAIN trades) = 0
    BY <1>1, TotalEmpty DEF PnlOf
  <2> QED BY <2>2, <2>3 DEF AddsUp
<1> QED BY <1>1, <1>2 DEF LedgerInv

LEMMA LedgerStep == D!DigestAssumption /\ LedgerInv /\ [D!Next]_digest => LedgerInv'
<1> SUFFICES ASSUME D!DigestAssumption, LedgerInv, [D!Next]_digest PROVE LedgerInv'
  OBVIOUS
<1>1. ASSUME NEW name \in Names, NEW pnl \in Pnls, D!TradeCloses(name, pnl) PROVE LedgerInv'
  <2>1. trades' = Append(trades, [name |-> name, pnl |-> pnl]) /\ [name |-> name, pnl |-> pnl] \in TradesMade
    BY <1>1 DEF D!TradeCloses, D!DigestAssumption, TradesMade
  <2>2. trades \in Seq(TradesMade) /\ AddsUp(trades)
    BY DEF LedgerInv
  <2>3. trades' \in Seq(TradesMade) /\ Len(trades') = Len(trades) + 1 /\ \A i \in 1..Len(trades) : trades'[i] = trades[i]
    BY <2>1, <2>2
  <2> DEFINE us == trades'
  <2> HIDE DEF us
  <2>4. us \in Seq(TradesMade) /\ Len(us) = Len(trades) + 1 /\ \A i \in 1..Len(trades) : us[i] = trades[i]
    BY <2>3 DEF us
  <2>5. AddsUp(us)
    BY <2>2, <2>4, OneTradeMore
  <2> QED BY <2>3, <2>5 DEF LedgerInv, us
<1>2. CASE UNCHANGED trades
  BY <1>2 DEF LedgerInv
<1>3. \A v \in Levels, gap \in Gaps : D!Bar(v, gap) => UNCHANGED trades
  BY DEF D!Bar
<1>4. D!Line \/ D!Tear => UNCHANGED trades
  BY DEF D!Line, D!Tear
<1>5. UNCHANGED digest => UNCHANGED trades
  BY DEF digest
<1> QED BY <1>1, <1>2, <1>3, <1>4, <1>5 DEF D!Next

LEMMA LedgerReads ==
    /\ \A V : D!Pnl(V) = PnlOf(trades, V)
    /\ \A x : D!Made(x) = MadeBy(trades, x)
    /\ D!Traded = TradedIn(trades)
<1>1. \A V : D!Pnl(V) = PnlOf(trades, V)
  BY TotalD DEF D!Pnl, PnlOf
<1> QED BY <1>1 DEF D!Made, MadeBy, D!Traded, TradedIn

LEMMA ExpectancyRight == LedgerInv => D!ExpectancyIsMean
<1> SUFFICES ASSUME LedgerInv, trades # <<>> PROVE D!Same(D!Expectancy, D!Mean(DOMAIN trades))
  BY DEF D!ExpectancyIsMean
<1> DEFINE I == DOMAIN trades
           Wn == D!Wins
           Ls == D!Losses
           k == Cardinality(I)
           w == Cardinality(Wn)
           l == Cardinality(Ls)
           pw == PnlOf(trades, Wn)
           pl == PnlOf(trades, Ls)
<1>1. trades \in Seq(TradesMade) /\ Len(trades) \in Nat /\ I = 1..Len(trades) /\ I # {}
  BY DEF LedgerInv
<1>2. \A i \in I : trades[i].pnl \in Int
  <2>1. \A i \in I : trades[i] \in TradesMade
    BY <1>1
  <2> QED BY <2>1 DEF TradesMade
<1>3. I = Wn \cup Ls /\ Wn \cap Ls = {} /\ Wn \in SUBSET I /\ Ls \in SUBSET I
  <2>1. Wn = {i \in I : trades[i].pnl > 0} /\ Ls = {i \in I : trades[i].pnl <= 0}
    BY DEF D!Wins, D!Losses
  <2>2. \A i \in I : trades[i].pnl > 0 <=> ~(trades[i].pnl <= 0)
    BY <1>2
  <2> HIDE DEF I, Wn, Ls
  <2> QED BY <2>1, <2>2
<1>4. IsFiniteSet(I) /\ IsFiniteSet(Wn) /\ IsFiniteSet(Ls) /\ pw \in Int /\ pl \in Int
  BY <1>1, <1>3, PnlType
<1>5. k \in Nat /\ w \in Nat /\ l \in Nat /\ (w = 0 <=> Wn = {}) /\ (l = 0 <=> Ls = {}) /\ k # 0
  BY <1>1, <1>4, FS_CardinalityType, FS_EmptySet
<1>6. k = w + l
  <2> HIDE DEF Wn, Ls, I
  <2>1. Cardinality(Wn \cup Ls) = Cardinality(Wn) + Cardinality(Ls) - Cardinality(Wn \cap Ls)
    BY <1>4, FS_Union
  <2>2. Cardinality(Wn \cap Ls) = 0
    BY <1>3, FS_EmptySet
  <2> QED BY <1>3, <1>5, <2>1, <2>2
<1>7. PnlOf(trades, I) = pw + pl
  <2> DEFINE f == [i \in I |-> trades[i].pnl]
             fw == [i \in Wn |-> trades[i].pnl]
             fl == [i \in Ls |-> trades[i].pnl]
  <2>3. PnlOf(trades, I) = Total(f) /\ pw = Total(fw) /\ pl = Total(fl)
    BY DEF PnlOf
  <2>4. /\ fw \in [Wn -> Int] /\ fl \in [Ls -> Int] /\ DOMAIN f = Wn \cup Ls
        /\ (\A i \in Wn : fw[i] = f[i]) /\ (\A i \in Ls : fl[i] = f[i])
    BY <1>2, <1>3
  <2>5. Parts(f, fw, fl, Wn, Ls)
    BY <1>3, <1>4, <2>4 DEF Parts
  <2> HIDE DEF f, Wn, Ls, I, fw, fl, pw, pl, k, w, l
  <2>6. Total(f) = Total(fw) + Total(fl)
    BY <2>5, TotalParts
  <2> QED BY <2>3, <2>6
<1>8. /\ Wn = {} => pw = 0
      /\ Ls = {} => pl = 0
  BY TotalEmpty DEF PnlOf
<1>9. /\ D!Mean(Wn) = IF Wn = {} THEN <<0, 1>> ELSE <<pw, w>>
      /\ D!Mean(Ls) = IF Ls = {} THEN <<0, 1>> ELSE <<pl, l>>
      /\ D!Mean(I) = <<PnlOf(trades, I), k>>
  BY <1>1, LedgerReads, CardinalityD DEF D!Mean
<1>10. D!Expectancy = <<w * D!Mean(Wn)[1] * D!Mean(Ls)[2] + (k - w) * D!Mean(Ls)[1] * D!Mean(Wn)[2],
                        k * D!Mean(Wn)[2] * D!Mean(Ls)[2]>>
  BY CardinalityD DEF D!Expectancy
<1> DEFINE a1 == D!Mean(Wn)[1]
           a2 == D!Mean(Wn)[2]
           b1 == D!Mean(Ls)[1]
           b2 == D!Mean(Ls)[2]
<1>11. /\ Wn = {} => a1 = 0 /\ a2 = 1 /\ w = 0 /\ pw = 0
       /\ Wn # {} => a1 = pw /\ a2 = w /\ w # 0
       /\ Ls = {} => b1 = 0 /\ b2 = 1 /\ l = 0 /\ pl = 0
       /\ Ls # {} => b1 = pl /\ b2 = l /\ l # 0
  BY <1>5, <1>8, <1>9
<1>12. D!Expectancy = <<w * a1 * b2 + (k - w) * b1 * a2, k * a2 * b2>>
  BY <1>10
<1>13. D!Mean(I) = <<pw + pl, k>>
  BY <1>7, <1>9
<1> HIDE DEF I, Wn, Ls, k, w, l, pw, pl, a1, a2, b1, b2
<1>14. (w * a1 * b2 + (k - w) * b1 * a2) * k = (pw + pl) * (k * a2 * b2)
  <2>0. k - w = l /\ w + l = k
    BY <1>5, <1>6
  <2>1. CASE Wn = {}
    <3>1. Ls # {} /\ k = l /\ w = 0 /\ a1 = 0 /\ a2 = 1 /\ b1 = pl /\ b2 = l /\ pw = 0
      BY <1>5, <1>6, <1>11, <2>1
    <3>2. (0 * 0 * l + l * pl * 1) * l = (0 + pl) * (l * 1 * l)
      BY <1>4, <1>5
    <3> QED BY <2>0, <3>1, <3>2
  <2>2. CASE Ls = {}
    <3>1. Wn # {} /\ k = w /\ l = 0 /\ b1 = 0 /\ b2 = 1 /\ a1 = pw /\ a2 = w /\ pl = 0
      BY <1>5, <1>6, <1>11, <2>2
    <3>2. (w * pw * 1 + 0 * 0 * w) * w = (pw + 0) * (w * w * 1)
      BY <1>4, <1>5
    <3> QED BY <2>0, <3>1, <3>2
  <2>3. CASE Wn # {} /\ Ls # {}
    <3>1. a1 = pw /\ a2 = w /\ w # 0 /\ b1 = pl /\ b2 = l /\ l # 0
      BY <1>11, <2>3
    <3>2. (w * pw * l + l * pl * w) * (w + l) = (pw + pl) * ((w + l) * w * l)
      BY <1>4, <1>5, <3>1, MeanOfBoth
    <3> QED BY <2>0, <3>1, <3>2
  <2> QED BY <2>1, <2>2, <2>3
<1>15. \A x1, x2, y1, y2 : x1 * y2 = y1 * x2 => D!Same(<<x1, x2>>, <<y1, y2>>)
  BY DEF D!Same
<1>16. D!Same(D!Expectancy, D!Mean(I))
  BY <1>12, <1>13, <1>14, <1>15
<1> QED BY <1>16 DEF I

-----------------------------------------------------------------------------
(* The names traded, one after another: each of them once.                    *)
LEMMA GroupedIs ==
    ASSUME NEW V, IsFiniteSet(V), V = D!Traded
    PROVE  /\ Cardinality(V) \in Nat /\ D!Grouped \in [1..Cardinality(V) -> V]
           /\ \A x \in V : \E i \in 1..Cardinality(V) : D!Grouped[i] = x
<1> DEFINE k == Cardinality(V)
<1>1. k \in Nat /\ ExistsBijection(1..k, V)
  BY FS_CardinalityType
<1> HIDE DEF k
<1>2. \A I, U : D!Bijection(I, U) = Bijection(I, U)
  BY DEF D!Bijection, D!Injection, D!Surjection, D!IsInjective, Bijection, Injection, Surjection, IsInjective
<1>3. D!Grouped = CHOOSE f \in Bijection(1..k, V) : TRUE
  BY <1>2, CardinalityD DEF D!Grouped, k
<1>4. D!Grouped \in Bijection(1..k, V)
  BY <1>1, <1>3 DEF ExistsBijection
<1> QED BY <1>1, <1>4 DEF Bijection, Injection, Surjection, k

LEMMA AttributionRight == D!DigestAssumption /\ LedgerInv => D!AttributionAddsUp
<1> SUFFICES ASSUME D!DigestAssumption, LedgerInv, trades # <<>> PROVE D!AttributionAddsUp
  BY DEF D!AttributionAddsUp
<1> DEFINE T0 == D!Traded
           k == Cardinality(T0)
           q == D!Grouped
           o == D!BestFirst
           pl(x) == D!Made(x)
<1>1. trades \in Seq(TradesMade) /\ AddsUp(trades)
  BY DEF LedgerInv
<1>2. IsFiniteSet(T0) /\ \A x : pl(x) \in Int
  BY <1>1, LedgerReads, TradedFinite, PnlType DEF MadeBy
<1>3. T0 # {}
  <2>1. 1 \in DOMAIN trades
    BY <1>1
  <2> QED BY <2>1 DEF D!Traded
<1>4. /\ k \in Nat /\ q \in [1..k -> T0] /\ DOMAIN q = 1..k
      /\ \A x \in T0 : \E i \in 1..k : q[i] = x
  BY <1>2, GroupedIs
<1>5. k # 0
  BY <1>3, <1>4
<1>6. \A i, j \in 1..k : <<i, j>> \in o <=> pl(q[i]) > pl(q[j]) \/ (pl(q[i]) = pl(q[j]) /\ i < j)
  BY <1>4 DEF D!BestFirst
<1>7. Len(q) = k
  BY <1>4
<1>8. D!Ranked = [y \in 1..k |-> q[D!At(k, o, y)]]
  BY <1>4, <1>7 DEF D!Ranked
<1> HIDE DEF T0, k, q, o, pl
<1>9. StrictOrder(o, 1..k) /\ Linear(o, 1..k)
  <2>1. \A i \in 1..k : pl(q[i]) \in Int
    BY <1>2
  <2>2. \A x \in 1..k : <<x, x>> \notin o
    BY <1>6, <2>1
  <2>3. \A x, y, z \in 1..k : <<x, y>> \in o /\ <<y, z>> \in o => <<x, z>> \in o
    <3> SUFFICES ASSUME NEW x \in 1..k, NEW y \in 1..k, NEW z \in 1..k, <<x, y>> \in o, <<y, z>> \in o
                 PROVE  <<x, z>> \in o
      OBVIOUS
    <3>1. pl(q[x]) \in Int /\ pl(q[y]) \in Int /\ pl(q[z]) \in Int
      BY <2>1
    <3>2. (pl(q[x]) > pl(q[y]) \/ (pl(q[x]) = pl(q[y]) /\ x < y)) /\ (pl(q[y]) > pl(q[z]) \/ (pl(q[y]) = pl(q[z]) /\ y < z))
      BY <1>6
    <3>3. pl(q[x]) > pl(q[z]) \/ (pl(q[x]) = pl(q[z]) /\ x < z)
      BY <3>1, <3>2
    <3> QED BY <1>6, <3>3
  <2>4. \A x, y \in 1..k : x = y \/ <<x, y>> \in o \/ <<y, x>> \in o
    <3> SUFFICES ASSUME NEW x \in 1..k, NEW y \in 1..k, x # y PROVE <<x, y>> \in o \/ <<y, x>> \in o
      OBVIOUS
    <3>1. pl(q[x]) \in Int /\ pl(q[y]) \in Int /\ (x < y \/ y < x)
      BY <2>1
    <3>2. \/ pl(q[x]) > pl(q[y]) \/ (pl(q[x]) = pl(q[y]) /\ x < y)
          \/ pl(q[y]) > pl(q[x]) \/ (pl(q[y]) = pl(q[x]) /\ y < x)
      BY <3>1
    <3> QED BY <1>6, <3>2
  <2> QED BY <2>2, <2>3, <2>4 DEF StrictOrder, Linear
<1>10. \A x \in T0 : \E y \in 1..k : D!Ranked[y] = x
  <2> SUFFICES ASSUME NEW x \in T0 PROVE \E y \in 1..k : D!Ranked[y] = x
    OBVIOUS
  <2>1. PICK i \in 1..k : q[i] = x
    BY <1>4
  <2>2. PICK y \in 1..k : D!At(k, o, y) = i
    BY <1>4, <1>9, AtAll
  <2> QED BY <1>8, <2>1, <2>2
<1>11. ASSUME NEW y \in 1..k, NEW z \in 1..k, y < z PROVE pl(D!Ranked[y]) >= pl(D!Ranked[z])
  <2> DEFINE i == D!At(k, o, y)
             j == D!At(k, o, z)
  <2>1. <<i, j>> \in o
    BY <1>4, <1>9, <1>11, AtOrder
  <2>2. i \in 1..k /\ j \in 1..k
    BY <1>4, <1>9, AtIs
  <2>3. D!Ranked[y] = q[i] /\ D!Ranked[z] = q[j]
    BY <1>8
  <2> HIDE DEF i, j
  <2>4. pl(q[i]) > pl(q[j]) \/ pl(q[i]) = pl(q[j])
    BY <1>6, <2>1, <2>2
  <2> QED BY <1>2, <2>3, <2>4
<1>12. D!Concentration.total = D!Pnl(DOMAIN trades) /\ D!Concentration.top = pl(D!Ranked[1])
  <2>1. D!Total([x \in T0 |-> pl(x)]) = D!Pnl(DOMAIN trades)
    <3>1. [x \in T0 |-> pl(x)] = [x \in TradedIn(trades) |-> MadeBy(trades, x)]
      BY LedgerReads DEF T0, pl
    <3> QED BY <1>1, <3>1, TotalD, LedgerReads DEF AddsUp
  <2>2. /\ D!Concentration.total = D!Total([x \in T0 |-> pl(x)])
        /\ D!Concentration.top = pl(D!Ranked[1])
    BY <1>3 DEF D!Concentration, T0, pl
  <2> QED BY <2>1, <2>2
<1>13. ASSUME NEW x \in T0 PROVE pl(x) <= D!Concentration.top
  <2>1. PICK y \in 1..k : D!Ranked[y] = x
    BY <1>10
  <2>2. 1 \in 1..k /\ y \in Nat /\ pl(x) \in Int /\ pl(D!Ranked[1]) \in Int
    BY <1>2, <1>4, <1>5
  <2>3. CASE y = 1
    BY <1>12, <2>1, <2>2, <2>3
  <2>4. CASE 1 < y
    <3>1. pl(D!Ranked[1]) >= pl(D!Ranked[y])
      BY <1>11, <2>2, <2>4
    <3> QED BY <1>12, <2>1, <2>2, <3>1
  <2> QED BY <1>4, <2>2, <2>3, <2>4
<1>14. ASSUME NEW x \in T0, x \notin D!Losers, NEW y \in D!Losers PROVE pl(x) >= pl(y)
  <2>0. /\ DOMAIN D!Ranked = 1..k /\ Len(D!Ranked) = k
        /\ D!Losers = {u \in D!Range(D!Ranked) : \E i \in DOMAIN D!Ranked :
              D!Ranked[i] = u /\ i > Len(D!Ranked) - WorstTickers /\ pl(u) < 0}
    BY <1>4, <1>8 DEF D!Losers, pl
  <2>1. PICK j \in 1..k : D!Ranked[j] = y /\ j > k - WorstTickers /\ pl(y) < 0
    BY <1>14, <2>0
  <2>2. PICK i \in 1..k : D!Ranked[i] = x
    BY <1>10
  <2>3. pl(x) \in Int /\ pl(y) \in Int
    BY <1>2
  <2>4. CASE i < j
    BY <1>11, <2>1, <2>2, <2>4
  <2>5. CASE ~(i < j)
    <3>1. x \in D!Range(D!Ranked)
      BY <2>0, <2>2 DEF D!Range
    <3>2. CASE i = j
      BY <2>1, <2>2, <2>3, <3>2
    <3>3. CASE i # j
      <4>1. ~(pl(x) < 0) \/ ~(i > k - WorstTickers)
        BY <1>14, <2>0, <2>2, <3>1
      <4>2. pl(x) < 0 => FALSE
        <5>1. j < i
          BY <2>5, <3>3
        <5>2. WorstTickers \in Nat /\ i \in Nat /\ j \in Nat
          BY <1>4 DEF D!DigestAssumption
        <5>3. i > k - WorstTickers
          BY <1>4, <2>1, <5>1, <5>2
        <5> QED BY <4>1, <5>3
      <4> QED BY <2>1, <2>3, <4>2
    <3> QED BY <3>2, <3>3
  <2> QED BY <2>4, <2>5
<1> QED BY <1>12, <1>13, <1>14 DEF D!AttributionAddsUp, T0, pl

-----------------------------------------------------------------------------
(* The digest: the gate's section *)

(* The lines of an artifact: verdicts of at most two orders, or a torn one.   *)
LinesMade == {D!Torn} \cup {<<>>} \cup {<<a>> : a \in D!Verdicts} \cup {<<a, b>> : a, b \in D!Verdicts}
LinesInv == lines \in Seq(LinesMade)

LEMMA LinesInit == D!Init => LinesInv
BY DEF D!Init, LinesInv

LEMMA LinesStep == LinesInv /\ [D!Next]_digest => LinesInv'
<1> SUFFICES ASSUME LinesInv, [D!Next]_digest PROVE LinesInv'
  OBVIOUS
<1>1. CASE UNCHANGED lines
  BY <1>1 DEF LinesInv
<1>2. CASE D!Line
  <2>1. PICK x \in LinesMade : lines' = Append(lines, x)
    BY <1>2 DEF D!Line, LinesMade
  <2> HIDE DEF LinesMade
  <2> QED BY <2>1 DEF LinesInv
<1>3. CASE D!Tear
  <2>1. D!Torn \in LinesMade /\ lines' = Append(lines, D!Torn)
    BY <1>3 DEF D!Tear, LinesMade
  <2> HIDE DEF LinesMade
  <2> QED BY <2>1 DEF LinesInv
<1>4. CASE UNCHANGED digest
  BY <1>1, <1>4 DEF digest
<1> QED
  BY <1>1, <1>2, <1>3, <1>4 DEF D!Next, D!Bar, D!TradeCloses

(* The verdicts of an artifact that are of a kind, each where it stands.      *)
Counted(which) == {x \in UNION {{i} \X DOMAIN lines[i] : i \in DOMAIN lines} : lines[x[1]][x[2]] \in which}

LEMMA CountedFinite ==
    ASSUME LinesInv, NEW which
    PROVE  /\ IsFiniteSet(Counted(which)) /\ Cardinality(Counted(which)) \in Nat
           /\ D!Count(lines, which) = Cardinality(Counted(which))
<1>1. Len(lines) \in Nat /\ DOMAIN lines = 1..Len(lines)
  BY DEF LinesInv
<1>2. ASSUME NEW i \in DOMAIN lines PROVE DOMAIN lines[i] \subseteq 1..2
  <2>1. lines[i] \in LinesMade
    BY DEF LinesInv
  <2>2. CASE lines[i] = <<>>
    BY <2>2
  <2>3. CASE lines[i] = D!Torn
    <3>1. ASSUME NEW u PROVE DOMAIN <<u>> = 1..1
      OBVIOUS
    <3>2. DOMAIN lines[i] = 1..1
      BY <2>3, <3>1, Zenon DEF D!Torn
    <3> QED BY <3>2
  <2>4. CASE lines[i] \in {<<a>> : a \in D!Verdicts}
    BY <2>4
  <2>5. CASE lines[i] \in {<<a, b>> : a, b \in D!Verdicts}
    BY <2>5
  <2> QED BY <2>1, <2>2, <2>3, <2>4, <2>5 DEF LinesMade
<1>3. Counted(which) \subseteq (1..Len(lines)) \X (1..2)
  BY <1>1, <1>2 DEF Counted
<1>4. IsFiniteSet((1..Len(lines)) \X (1..2))
  <2>1. IsFiniteSet(1..Len(lines))
    BY <1>1, FS_Interval
  <2>2. IsFiniteSet(1..2)
    <3>1. 1 \in Int /\ 2 \in Int
      OBVIOUS
    <3> QED BY <3>1, FS_Interval, Zenon
  <2> QED BY <2>1, <2>2, FS_Product
<1>5. IsFiniteSet(Counted(which)) /\ Cardinality(Counted(which)) \in Nat
  BY <1>3, <1>4, FS_Subset, FS_CardinalityType
<1> QED BY <1>5, CardinalityD DEF D!Count, Counted


LEMMA GateRight == LinesInv => D!GateIsWholeOrNothing
<1> SUFFICES ASSUME LinesInv, lines # <<>>, D!GateActivity # <<>>
             PROVE  /\ D!GateActivity.decisions = Len(lines)
                    /\ D!Total(D!GateActivity.rules) = D!GateActivity.intervened
  BY DEF D!GateIsWholeOrNothing
<1> DEFINE np == {v \in D!Verdicts : v[1] # "pass"}
           of(r) == {v \in D!Verdicts : v[1] # "pass" /\ v[2] = r}
           mg == of("max_gross")
           cd == of("cooldown")
<1>1. D!GateActivity = D!Tally(lines)
  BY DEF D!GateActivity
<1>2. /\ D!GateActivity.decisions = Len(lines) /\ D!GateActivity.intervened = D!Count(lines, np)
      /\ D!GateActivity.rules = [r \in D!Rules |-> D!Count(lines, of(r))]
  BY <1>1 DEF D!Tally
<1> DEFINE v1 == <<"pass", "">>
           v2 == <<"clipped", "max_gross">>
           v3 == <<"blocked", "max_gross">>
           v4 == <<"blocked", "cooldown">>
<1>v. /\ D!Verdicts = {v1, v2, v3, v4}
      /\ v1[1] = "pass" /\ v2[1] # "pass" /\ v3[1] # "pass" /\ v4[1] # "pass"
      /\ v1[2] = "" /\ v2[2] = "max_gross" /\ v3[2] = "max_gross" /\ v4[2] = "cooldown"
  BY DEF D!Verdicts
<1> HIDE DEF v1, v2, v3, v4
<1>8. "max_gross" # "cooldown" /\ "" # "max_gross" /\ "" # "cooldown"
  OBVIOUS
<1>3. D!Rules = {"max_gross", "cooldown"}
  <2>1. D!Rules = {v[2] : v \in {v1, v2, v3, v4}} \ {""}
    BY <1>v DEF D!Rules
  <2> QED BY <1>v, <1>8, <2>1
<1>4. np = mg \cup cd /\ mg \cap cd = {}
  <2>1. \A v \in D!Verdicts : v[1] # "pass" => v[2] = "max_gross" \/ v[2] = "cooldown"
    BY <1>v
  <2> QED BY <1>8, <2>1
<1> DEFINE U == Counted(mg)
           V == Counted(cd)
<1>5. Counted(np) = U \cup V /\ U \cap V = {}
  <2> HIDE DEF np, mg, cd
  <2> QED BY <1>4 DEF Counted
<1>6. Cardinality(Counted(np)) = Cardinality(U) + Cardinality(V)
  <2>1. IsFiniteSet(U) /\ IsFiniteSet(V) /\ Cardinality(U) \in Nat /\ Cardinality(V) \in Nat
    BY CountedFinite
  <2> HIDE DEF U, V, np
  <2>2. Cardinality(U \cup V) = Cardinality(U) + Cardinality(V) - Cardinality(U \cap V)
    BY <2>1, FS_Union
  <2>3. Cardinality(U \cap V) = 0
    BY <1>5, FS_EmptySet
  <2> QED BY <1>5, <2>1, <2>2, <2>3
<1> DEFINE f == [r \in {"max_gross", "cooldown"} |-> D!Count(lines, of(r))]
<1>7. /\ f \in [{"max_gross", "cooldown"} -> Int]
      /\ f["max_gross"] = Cardinality(U) /\ f["cooldown"] = Cardinality(V)
  <2>1. \A r : D!Count(lines, of(r)) \in Int
    BY CountedFinite
  <2>2. D!Count(lines, mg) = Cardinality(U) /\ D!Count(lines, cd) = Cardinality(V)
    BY CountedFinite
  <2> QED BY <2>1, <2>2
<1>9. D!GateActivity.rules = f /\ D!GateActivity.intervened = Cardinality(Counted(np))
  BY <1>2, <1>3, CountedFinite
<1> HIDE DEF f, U, V, np, of, mg, cd
<1>10. Total(f) = f["max_gross"] + f["cooldown"]
  BY <1>7, <1>8, TotalOfTwo
<1> QED BY <1>2, <1>6, <1>7, <1>9, <1>10, TotalD

-----------------------------------------------------------------------------
(* How hard a session has tuned *)

LEMMA CardinalityT == \A V : T!Cardinality(V) = Cardinality(V) /\ (T!IsFiniteSet(V) <=> IsFiniteSet(V))
BY DEF T!Cardinality, Cardinality, T!IsFiniteSet, IsFiniteSet

LEMMA TotalT == \A q : T!Total(q) = Total(q)
BY CardinalityT DEF T!Total, T!Units, Total, Units

TestsInv == tests \in Seq(Variants)

LEMMA TestsInit == T!Init => TestsInv
BY DEF T!Init, TestsInv

LEMMA TestsStep == TestsInv /\ [T!Next]_tests => TestsInv'
<1> SUFFICES ASSUME TestsInv, [T!Next]_tests PROVE TestsInv'
  OBVIOUS
<1>1. CASE T!Try
  <2>1. PICK v \in Variants : tests' = Append(tests, v)
    BY <1>1 DEF T!Try
  <2> QED BY <2>1 DEF TestsInv
<1>2. CASE UNCHANGED tests
  BY <1>2 DEF TestsInv
<1> QED BY <1>1, <1>2 DEF T!Next

LEMMA GreatestT ==
    ASSUME NEW V \in SUBSET Int, NEW x \in V, \A y \in V : y <= x
    PROVE  T!Max(V) = x
<1>1. T!Max(V) = CHOOSE u \in V : \A y \in V : u >= y
  BY DEF T!Max
<1>2. \A y \in V : x >= y
  OBVIOUS
<1>3. \A y, u \in Int : y >= u /\ u >= y => y = u
  OBVIOUS
<1> QED BY <1>1, <1>2, <1>3

LEMMA LeastT ==
    ASSUME NEW V \in SUBSET Int, NEW x \in V, \A y \in V : x <= y
    PROVE  T!Min(V) = x
<1>1. T!Min(V) = CHOOSE u \in V : \A y \in V : u <= y
  BY DEF T!Min
<1>2. \A y, u \in Int : y <= u /\ u <= y => y = u
  OBVIOUS
<1> QED BY <1>1, <1>2

(* The scored runs of a strategy.                                             *)
LEMMA ChainIs ==
    ASSUME T!TuningAssumption, TestsInv, NEW x
    PROVE  /\ T!Chain(x) \in SUBSET (DOMAIN tests) /\ T!Chain(x) \in SUBSET Int /\ IsFiniteSet(T!Chain(x))
           /\ Cardinality(T!Chain(x)) \in Nat /\ IsFiniteSet(DOMAIN tests)
           /\ \A i \in T!Chain(x) :
                 /\ tests[i].ok /\ tests[i].strategy = x
                 /\ tests[i].score \in Int /\ tests[i].oos \in Int /\ tests[i].sigma \in Nat
<1>1. Len(tests) \in Nat /\ DOMAIN tests = 1..Len(tests) /\ \A i \in DOMAIN tests : tests[i] \in Variants
  BY DEF TestsInv
<1>2. T!Chain(x) \in SUBSET (DOMAIN tests) /\ \A i \in T!Chain(x) : tests[i].ok /\ tests[i].strategy = x
  BY DEF T!Chain
<1>3. IsFiniteSet(DOMAIN tests)
  BY <1>1, FS_Interval
<1>4. IsFiniteSet(T!Chain(x))
  BY <1>2, <1>3, FS_Subset
<1>5. Cardinality(T!Chain(x)) \in Nat
  BY <1>4, FS_CardinalityType
<1>6. T!Chain(x) \in SUBSET Int
  BY <1>1, <1>2
<1>7. \A i \in T!Chain(x) : tests[i].score \in Int /\ tests[i].oos \in Int /\ tests[i].sigma \in Nat
  <2>1. \A v \in Variants : v.score \in Int /\ v.oos \in Int /\ v.sigma \in Nat
    BY DEF T!TuningAssumption
  <2> QED BY <1>1, <1>2, <2>1
<1> QED BY <1>2, <1>3, <1>4, <1>5, <1>6, <1>7

(* Its best is one of them with the best score.                               *)
LEMMA BestIs ==
    ASSUME T!TuningAssumption, TestsInv, NEW x, T!Chain(x) # {}
    PROVE  /\ T!Best(x) \in T!Chain(x)
           /\ \A j \in T!Chain(x) : tests[j].score <= tests[T!Best(x)].score
<1> DEFINE V == T!Chain(x)
           o == {z \in V \X V : tests[z[1]].score > tests[z[2]].score
                                   \/ (tests[z[1]].score = tests[z[2]].score /\ z[1] < z[2])}
           fit(i) == \A j \in V : tests[j].score < tests[i].score \/ (tests[j].score = tests[i].score /\ i <= j)
<1>1. IsFiniteSet(V) /\ V \in SUBSET Int /\ \A i \in V : tests[i].score \in Int
  BY ChainIs
<1>2. T!Best(x) = CHOOSE i \in V : fit(i)
  BY DEF T!Best
<1>3. \A i, j \in V : <<i, j>> \in o <=> tests[i].score > tests[j].score \/ (tests[i].score = tests[j].score /\ i < j)
  OBVIOUS
<1> HIDE DEF V, o
<1>4. StrictOrder(o, V)
  <2>1. \A i \in V : <<i, i>> \notin o
    BY <1>1, <1>3
  <2>2. ASSUME NEW i \in V, NEW j \in V, NEW k \in V, <<i, j>> \in o, <<j, k>> \in o PROVE <<i, k>> \in o
    <3>1. /\ tests[i].score \in Int /\ tests[j].score \in Int /\ tests[k].score \in Int
          /\ i \in Int /\ j \in Int /\ k \in Int
      BY <1>1
    <3>2. /\ tests[i].score > tests[j].score \/ (tests[i].score = tests[j].score /\ i < j)
          /\ tests[j].score > tests[k].score \/ (tests[j].score = tests[k].score /\ j < k)
      BY <1>3, <2>2
    <3>3. tests[i].score > tests[k].score \/ (tests[i].score = tests[k].score /\ i < k)
      BY <3>1, <3>2
    <3> QED BY <1>3, <3>3
  <2> QED BY <2>1, <2>2 DEF StrictOrder
<1>5. PICK b \in V : \A j \in V : <<j, b>> \notin o
  BY <1>1, <1>4, FirstOf DEF V
<1>6. fit(b)
  <2> SUFFICES ASSUME NEW j \in V
               PROVE  tests[j].score < tests[b].score \/ (tests[j].score = tests[b].score /\ b <= j)
    OBVIOUS
  <2>1. tests[j].score \in Int /\ tests[b].score \in Int /\ j \in Int /\ b \in Int
    BY <1>1
  <2>2. ~(tests[j].score > tests[b].score \/ (tests[j].score = tests[b].score /\ j < b))
    BY <1>3, <1>5
  <2> QED BY <2>1, <2>2
<1> HIDE DEF fit
<1>7. T!Best(x) \in V /\ fit(T!Best(x))
  BY <1>2, <1>5, <1>6
<1>8. \A j \in V : tests[j].score <= tests[T!Best(x)].score
  <2> SUFFICES ASSUME NEW j \in V PROVE tests[j].score <= tests[T!Best(x)].score
    OBVIOUS
  <2>1. tests[j].score \in Int /\ tests[T!Best(x)].score \in Int
    BY <1>1, <1>7
  <2>2. tests[j].score < tests[T!Best(x)].score \/ tests[j].score = tests[T!Best(x)].score
    BY <1>7 DEF fit
  <2> QED BY <2>1, <2>2
<1> QED BY <1>7, <1>8 DEF V

(* A row stands for a strategy that has runs with a score.                    *)
LEMMA RowIs ==
    ASSUME T!TuningAssumption, TestsInv, NEW r \in T!TuningPressure
    PROVE  /\ T!Chain(r.strategy) # {} /\ r = T!Row(r.strategy) /\ r.best = T!Best(r.strategy)
           /\ r.variants = Cardinality(T!Chain(r.strategy)) /\ r.warnings = T!Warned(r.strategy)
<1>1. PICK x \in T!Pressed : r = T!Row(x)
  BY DEF T!TuningPressure
<1>2. /\ r.strategy = x /\ r.best = T!Best(x) /\ r.warnings = T!Warned(x)
      /\ r.variants = Cardinality(T!Chain(x))
  BY <1>1, CardinalityT DEF T!Row
<1>3. T!Chain(x) # {}
  <2>1. Cardinality(T!Chain(x)) >= Alert
    BY CardinalityT DEF T!Pressed
  <2>2. Alert \in Nat /\ Alert # 0
    BY DEF T!TuningAssumption
  <2>3. Cardinality({}) = 0
    BY FS_EmptySet
  <2> QED BY <2>1, <2>2, <2>3
<1> QED BY <1>1, <1>2, <1>3

LEMMA YourBestRight ==
    ASSUME T!TuningAssumption, TestsInv, NEW r \in T!TuningPressure
    PROVE  tests[r.best].score = T!YourBest(r.strategy)
<1> DEFINE x == r.strategy
           V == T!Chain(x)
           scores == [i \in V |-> tests[i].score]
           U == {scores[i] : i \in V}
<1>1. V # {} /\ r.best = T!Best(x)
  BY RowIs
<1>2. T!Best(x) \in V /\ \A j \in V : tests[j].score <= tests[T!Best(x)].score
  BY <1>1, BestIs
<1>3. \A i \in V : tests[i].score \in Int
  BY ChainIs
<1>4. U \in SUBSET Int /\ tests[T!Best(x)].score \in U /\ \A y \in U : y <= tests[T!Best(x)].score
  BY <1>2, <1>3
<1>5. T!YourBest(x) = T!Max(U)
  BY DEF T!YourBest
<1> HIDE DEF U, V, x
<1>6. T!Max(U) = tests[T!Best(x)].score
  BY <1>4, GreatestT
<1> QED BY <1>1, <1>5, <1>6 DEF x

(* Runs of a strategy, counted off.                                           *)
Counting(x) ==
    CHOOSE b : /\ b \in [1..Cardinality(T!Chain(x)) -> T!Chain(x)]
               /\ \A i, j \in 1..Cardinality(T!Chain(x)) : b[i] = b[j] => i = j
LEMMA CountingIs ==
    ASSUME T!TuningAssumption, TestsInv, NEW x
    PROVE  /\ Counting(x) \in [1..Cardinality(T!Chain(x)) -> T!Chain(x)]
           /\ \A i, j \in 1..Cardinality(T!Chain(x)) : Counting(x)[i] = Counting(x)[j] => i = j
<1> DEFINE k == Cardinality(T!Chain(x))
<1>1. ExistsBijection(1..k, T!Chain(x))
  BY ChainIs, FS_CardinalityType
<1> HIDE DEF k
<1>2. PICK b \in [1..k -> T!Chain(x)] : \A i, j \in 1..k : b[i] = b[j] => i = j
  BY <1>1 DEF ExistsBijection, Bijection, Injection, IsInjective
<1> QED BY <1>2 DEF Counting, k

(* The variants of all rows, one by one, are different looks at the holdout.  *)
LEMMA VariantsAreLooks ==
    ASSUME T!TuningAssumption, TestsInv
    PROVE  T!Total([r \in T!TuningPressure |-> r.variants]) <= T!HoldoutEvaluations
<1> DEFINE G == T!TuningPressure
           q == [r \in G |-> r.variants]
           neg == [r \in DOMAIN q |-> -q[r]]
           K == {i \in DOMAIN tests : tests[i].ok}
           U == Units(q)
           f == [u \in U |-> Counting(u[1].strategy)[u[2]]]
<1>1. ASSUME NEW r \in G
      PROVE  q[r] = Cardinality(T!Chain(r.strategy)) /\ q[r] \in Nat
  BY RowIs, ChainIs
<1>2. ASSUME NEW u \in U
      PROVE  /\ u[1] \in G /\ u = <<u[1], u[2]>> /\ u[2] \in 1..Cardinality(T!Chain(u[1].strategy))
  <2>1. PICK r \in G : u \in {r} \X (1..q[r])
    BY DEF Units
  <2>2. u[1] = r /\ u[2] \in 1..q[r] /\ u = <<u[1], u[2]>>
    BY <2>1
  <2> HIDE DEF G, q
  <2> QED BY <1>1, <2>2
<1>3. ASSUME NEW u \in U PROVE f[u] \in T!Chain(u[1].strategy)
  <2>1. f[u] = Counting(u[1].strategy)[u[2]]
    OBVIOUS
  <2>2. u[2] \in 1..Cardinality(T!Chain(u[1].strategy))
    BY <1>2
  <2> HIDE DEF U, f
  <2>3. Counting(u[1].strategy) \in [1..Cardinality(T!Chain(u[1].strategy)) -> T!Chain(u[1].strategy)]
    BY CountingIs
  <2> QED BY <2>1, <2>2, <2>3
<1>4. f \in [U -> K]
  <2>1. \A u \in U : f[u] \in K
    BY <1>3, ChainIs
  <2> HIDE DEF U, K
  <2> QED BY <2>1
<1>5. ASSUME NEW u \in U, NEW w \in U, f[u] = f[w] PROVE u = w
  <2>1. u[1].strategy = w[1].strategy
    <3>1. tests[f[u]].strategy = u[1].strategy /\ tests[f[w]].strategy = w[1].strategy
      BY <1>3, ChainIs
    <3> QED BY <1>5, <3>1
  <2>2. u[1] = w[1]
    <3>1. u[1] = T!Row(u[1].strategy) /\ w[1] = T!Row(w[1].strategy)
      BY <1>2, RowIs
    <3> QED BY <2>1, <3>1
  <2>3. u[2] = w[2]
    <3>1. /\ u[2] \in 1..Cardinality(T!Chain(u[1].strategy))
          /\ w[2] \in 1..Cardinality(T!Chain(u[1].strategy))
      BY <1>2, <2>1
    <3>2. Counting(u[1].strategy)[u[2]] = Counting(u[1].strategy)[w[2]]
      BY <1>5, <2>1
    <3> QED BY <3>1, <3>2, CountingIs
  <2> QED BY <1>2, <2>2, <2>3
<1>6. IsFiniteSet(K)
  <2>1. IsFiniteSet(DOMAIN tests)
    BY ChainIs
  <2> QED BY <2>1, FS_Subset
<1> HIDE DEF U, K, f
<1>7. f \in Injection(U, K)
  BY <1>4, <1>5 DEF Injection, IsInjective
<1>8. Cardinality(U) <= Cardinality(K) /\ IsFiniteSet(U)
  BY <1>6, <1>7, FS_Injection
<1>9. Cardinality(Units(neg)) = 0
  <2>1. \A r \in G : neg[r] = -q[r] /\ q[r] \in Nat
    BY <1>1
  <2>2. DOMAIN neg = G
    OBVIOUS
  <2> HIDE DEF neg, q, G
  <2>3. \A r \in G : 1..neg[r] = {}
    BY <2>1
  <2>4. Units(neg) = {}
    BY <2>2, <2>3 DEF Units
  <2> QED BY <2>4, FS_EmptySet
<1>10. Total(q) = Cardinality(U) - Cardinality(Units(neg))
  BY DEF Total, U
<1>11. Cardinality(U) \in Nat /\ Cardinality(K) \in Nat
  BY <1>6, <1>8, FS_CardinalityType
<1>12. T!HoldoutEvaluations = Cardinality(K)
  BY CardinalityT DEF T!HoldoutEvaluations, K
<1> HIDE DEF q, neg
<1>13. T!Total(q) <= T!HoldoutEvaluations
  BY <1>8, <1>9, <1>10, <1>11, <1>12, TotalT
<1> QED BY <1>13 DEF q

LEMMA ReadingsRight == T!TuningAssumption /\ TestsInv => T!ReadingsAgree
BY VariantsAreLooks, YourBestRight DEF T!ReadingsAgree

(* The first run of a strategy that has one, and how far its runs are apart.  *)
LEMMA FirstIs ==
    ASSUME T!TuningAssumption, TestsInv, NEW x, T!Chain(x) # {}
    PROVE  T!First(x) \in T!Chain(x) /\ \A j \in T!Chain(x) : T!First(x) <= j
<1> DEFINE V == T!Chain(x)
           f == [i \in V |-> i]
<1>1. IsFiniteSet(V) /\ V \in SUBSET Int
  BY ChainIs
<1>2. f \in [V -> Int]
  BY <1>1
<1>3. PICK i \in V : \A j \in V : f[i] <= f[j]
  <2> HIDE DEF V, f
  <2> QED BY <1>1, <1>2, Extremes DEF V
<1>4. \A j \in V : i <= j
  BY <1>3
<1>5. T!Min(V) = i
  <2> HIDE DEF V
  <2> QED BY <1>1, <1>4, LeastT
<1> QED BY <1>4, <1>5 DEF T!First

LEMMA SpreadBounds ==
    ASSUME T!TuningAssumption, TestsInv, NEW x, T!Chain(x) # {}, NEW i \in T!Chain(x), NEW j \in T!Chain(x)
    PROVE  tests[i].score - tests[j].score <= T!Spread(x, "score") /\ T!Spread(x, "score") \in Int
<1> DEFINE V == T!Chain(x)
           f == [k \in V |-> tests[k].score]
           U == {f[k] : k \in V}
<1>1. IsFiniteSet(V) /\ V # {} /\ f \in [V -> Int]
  BY ChainIs
<1>2. (\E h \in V : \A k \in V : f[k] <= f[h]) /\ (\E l \in V : \A k \in V : f[l] <= f[k])
  <2> HIDE DEF V, f
  <2> QED BY <1>1, Extremes
<1>3. PICK h \in V : \A k \in V : f[k] <= f[h]
  BY <1>2
<1>4. PICK l \in V : \A k \in V : f[l] <= f[k]
  BY <1>2
<1>5. U \in SUBSET Int /\ f[h] \in U /\ f[l] \in U /\ (\A y \in U : y <= f[h]) /\ (\A y \in U : f[l] <= y)
  <2> HIDE DEF V, f
  <2> QED BY <1>1, <1>3, <1>4
<1>6. {tests[k]["score"] : k \in V} = U
  OBVIOUS
<1>7. T!Spread(x, "score") = T!Max(U) - T!Min(U)
  BY <1>6 DEF T!Spread
<1>8. T!Max(U) = f[h] /\ T!Min(U) = f[l]
  <2> HIDE DEF V, f, U
  <2> QED BY <1>5, GreatestT, LeastT
<1>9. f[i] = tests[i].score /\ f[j] = tests[j].score /\ i \in V /\ j \in V
  OBVIOUS
<1>10. f[i] \in Int /\ f[j] \in Int /\ f[h] \in Int /\ f[l] \in Int
  <2> HIDE DEF V, f
  <2> QED BY <1>1, <1>9
<1>11. f[i] <= f[h] /\ f[l] <= f[j]
  BY <1>3, <1>4, <1>9
<1> HIDE DEF f, U, V
<1> QED BY <1>7, <1>8, <1>9, <1>10, <1>11

LEMMA NoiseRight == T!TuningAssumption /\ TestsInv => T!NoOrderInNoise
<1> SUFFICES ASSUME T!TuningAssumption, TestsInv, NEW r \in T!TuningPressure
             PROVE  /\ "same" \in r.warnings =>
                          \A i, j \in T!Chain(r.strategy) : tests[i].score - tests[j].score <= tests[r.best].sigma
                    /\ "moved" \in r.warnings => T!First(r.strategy) < r.best
  BY DEF T!NoOrderInNoise
<1> DEFINE x == r.strategy
<1>1. T!Chain(x) # {} /\ r.best = T!Best(x) /\ r.warnings = T!Warned(x)
  BY RowIs
<1>2. T!Best(x) \in T!Chain(x)
  BY <1>1, BestIs
<1>3. "same" # "moved" /\ "same" # "noisy" /\ "moved" # "noisy"
  OBVIOUS
<1>4. /\ "same" \in r.warnings => T!Same(x)
      /\ "moved" \in r.warnings => T!Moved(x)
  BY <1>1, <1>3 DEF T!Warned
<1> HIDE DEF x
<1>5. ASSUME T!Same(x), NEW i \in T!Chain(x), NEW j \in T!Chain(x)
      PROVE  tests[i].score - tests[j].score <= tests[r.best].sigma
  <2>1. T!Spread(x, "score") <= tests[r.best].sigma
    BY <1>1, <1>5 DEF T!Same
  <2>2. tests[i].score - tests[j].score <= T!Spread(x, "score") /\ T!Spread(x, "score") \in Int
    BY <1>1, SpreadBounds
  <2>3. tests[i].score \in Int /\ tests[j].score \in Int /\ tests[r.best].sigma \in Int
    BY <1>1, <1>2, ChainIs
  <2> QED BY <2>1, <2>2, <2>3
<1>6. ASSUME T!Moved(x) PROVE T!First(x) < r.best
  <2>1. T!Gain(x, "oos") > 2
    BY <1>6 DEF T!Moved
  <2>2. T!First(x) \in T!Chain(x) /\ T!First(x) <= T!Best(x)
    BY <1>1, <1>2, FirstIs
  <2>3. T!First(x) \in Int /\ T!Best(x) \in Int
    BY <1>2, <2>2, ChainIs
  <2>4. T!First(x) # T!Best(x)
    <3> SUFFICES ASSUME T!First(x) = T!Best(x) PROVE FALSE
      OBVIOUS
    <3>1. T!Gain(x, "oos") = tests[T!Best(x)].oos - tests[T!Best(x)].oos
      BY DEF T!Gain
    <3>2. tests[T!Best(x)].oos \in Int
      BY <1>2, ChainIs
    <3> QED BY <2>1, <3>1, <3>2
  <2> QED BY <1>1, <2>2, <2>3, <2>4
<1> QED BY <1>4, <1>5, <1>6 DEF x

-----------------------------------------------------------------------------
(* What is told of a run and of a session *)

LEMMA DigestSteps == [Next]_all => [D!Next]_digest /\ [T!Next]_tests
<1>1. Reads => (D!Next \/ UNCHANGED digest) /\ (T!Next \/ UNCHANGED tests)
  BY DEF Reads
<1>2. UNCHANGED afterwards => UNCHANGED digest /\ UNCHANGED tests
  BY DEF afterwards
<1> QED BY <1>1, <1>2 DEF Next, all

DigestInv == CurveInv /\ LedgerInv /\ LinesInv /\ TestsInv

(* Whatever curve, trades, verdicts and variants there are: the bars between  *)
(* two highs, the rest of a curve that never gets back included, are the      *)
(* longest drawdown told of, the deepest is first in the list, means and      *)
(* attributions come from all trades, a gate section counts every decision    *)
(* or is not there, the rows of a session are among its looks at the holdout  *)
(* and carry its best score, and no gain within the error of a score is told  *)
(* as one.                                                                    *)
THEOREM DigestIsTrueAlways == Spec => []DigestIsTrue
<1> USE SearchAssumption
<1>1. Init => DigestInv
  BY CurveInit, LedgerInit, LinesInit, TestsInit DEF Init, DigestInv
<1>2. DigestInv /\ [Next]_all => DigestInv'
  BY DigestSteps, CurveStep, LedgerStep, LinesStep, TestsStep DEF DigestInv
<1>3. DigestInv => DigestIsTrue
  BY DurationRight, EpisodesExplain, ExpectancyRight, AttributionRight, GateRight, ReadingsRight, NoiseRight
     DEF DigestInv, DigestIsTrue
<1> QED BY <1>1, <1>2, <1>3, PTL DEF Spec, all

-----------------------------------------------------------------------------
(* The neighbourhood of a winner *)

LEMMA CardinalityN == \A V : N!Cardinality(V) = Cardinality(V)
BY DEF N!Cardinality, Cardinality, N!IsFiniteSet, IsFiniteSet

Knob == [kind : {"flag", "int", "float", "text"}, value : Int]
KnobsRight(ps) ==
    /\ ps \in Seq(Knob)
    /\ \A k \in DOMAIN ps :
          /\ ps[k].kind = "flag" => ps[k].value \in {0, 1}
          /\ ps[k].kind = "int" => ps[k].value \notin {0, 1}
          /\ ps[k].kind = "float" => ps[k].value % 10 = 0

(* A whole number other than 0 and 1 moves by one at least, and one above     *)
(* zero by less than itself.                                                  *)
LEMMA StepIs ==
    ASSUME NEW p \in Knob, p.kind = "int", p.value \notin {0, 1}
    PROVE  N!Step(p) \in Nat /\ 1 <= N!Step(p) /\ (p.value >= 0 => N!Step(p) < p.value)
<1>1. p.value \in Int
  BY DEF Knob
<1>2. N!Tenth(p.value) \in Nat /\ (p.value >= 2 => N!Tenth(p.value) < p.value)
  BY <1>1 DEF N!Tenth
<1>3. p.value >= 0 => p.value >= 2
  BY <1>1
<1> QED BY <1>1, <1>2, <1>3 DEF N!Step

LEMMA MovedIs ==
    ASSUME NEW p \in Knob, p.kind = "int" => p.value \notin {0, 1}, p.kind = "float" => p.value % 10 = 0,
           p.kind # "flag", p.kind # "text", p.value # 0
    PROVE  /\ N!Moved(p, -1) \in Int /\ N!Moved(p, 1) \in Int
           /\ N!Moved(p, -1) # N!Moved(p, 1)
           /\ p.value >= 0 => N!Moved(p, -1) > 0 /\ N!Moved(p, -1) < p.value /\ N!Moved(p, 1) > p.value
<1>1. p.value \in Int /\ (p.kind = "int" \/ p.kind = "float")
  BY DEF Knob
<1>2. CASE p.kind = "int"
  <2>1. N!Moved(p, -1) = p.value + (-1) * N!Step(p) /\ N!Moved(p, 1) = p.value + 1 * N!Step(p)
    BY <1>2 DEF N!Moved, N!IsFlag
  <2>2. N!Step(p) \in Nat /\ 1 <= N!Step(p) /\ (p.value >= 0 => N!Step(p) < p.value)
    BY <1>2, StepIs
  <2> QED BY <1>1, <2>1, <2>2
<1>3. CASE p.kind = "float"
  <2>1. N!Moved(p, -1) = (p.value * (10 + (-1))) \div 10 /\ N!Moved(p, 1) = (p.value * (10 + 1)) \div 10
    BY <1>3 DEF N!Moved, N!IsFlag
  <2>2. p.value % 10 = 0
    BY <1>3
  <2> DEFINE u == p.value \div 10
             v == p.value
  <2>3. v \in Int /\ v % 10 = 0 /\ u = v \div 10 /\ v # 0
    BY <1>1, <2>2
  <2> HIDE DEF u, v
  <2>4. u \in Int /\ v = 10 * u /\ u # 0
    BY <2>3
  <2>5. (v * (10 + (-1))) \div 10 = 9 * u /\ (v * (10 + 1)) \div 10 = 11 * u
    BY <2>4
  <2>6. N!Moved(p, -1) = 9 * u /\ N!Moved(p, 1) = 11 * u
    BY <2>1, <2>5 DEF v
  <2>7. p.value = 10 * u
    BY <2>4 DEF v
  <2> QED BY <2>4, <2>6, <2>7
<1> QED BY <1>1, <1>2, <1>3

Switches(ps) == {k \in N!Perturbable(ps) : N!IsFlag(ps[k])}
Raised(ps) == \A k \in N!Perturbable(ps) : ps[k].value >= 0

(* Down go some of what can be perturbed, up some of what is no switch; a     *)
(* parameter that goes both ways goes to two values; where none is below zero *)
(* all go, and down is less than it was and up is not.                        *)
LEMMA MovesAre ==
    ASSUME NEW ps, KnobsRight(ps)
    PROVE  /\ N!Perturbable(ps) \in SUBSET (1..Len(ps)) /\ Len(ps) \in Nat
           /\ N!Moves(ps, -1) \subseteq N!Perturbable(ps)
           /\ N!Moves(ps, 1) \subseteq N!Perturbable(ps) \ Switches(ps)
           /\ \A k \in N!Perturbable(ps) : N!Moved(ps[k], -1) \in Int /\ N!Moved(ps[k], 1) \in Int
           /\ \A k \in N!Moves(ps, 1) : N!Moved(ps[k], -1) # N!Moved(ps[k], 1)
           /\ Raised(ps) =>
                /\ N!Moves(ps, -1) = N!Perturbable(ps)
                /\ N!Moves(ps, 1) = N!Perturbable(ps) \ Switches(ps)
                /\ \A k \in N!Perturbable(ps) \ Switches(ps) :
                      N!Moved(ps[k], -1) < ps[k].value /\ ~(N!Moved(ps[k], 1) < ps[k].value)
<1> DEFINE M == N!Perturbable(ps)
<1>1. DOMAIN ps = 1..Len(ps) /\ Len(ps) \in Nat /\ \A k \in 1..Len(ps) : ps[k] \in Knob
  BY DEF KnobsRight
<1>2. M \subseteq 1..Len(ps)
  BY <1>1 DEF N!Perturbable
<1>3. ASSUME NEW k \in M
      PROVE  /\ ps[k] \in Knob /\ ps[k].value \in Int
             /\ N!IsFlag(ps[k]) <=> ps[k].kind = "flag"
             /\ ps[k].kind = "int" => ps[k].value \notin {0, 1}
             /\ ps[k].kind = "float" => ps[k].value % 10 = 0
             /\ ps[k].kind # "flag" => ps[k].kind # "text" /\ ps[k].value # 0
  <2>1. k \in DOMAIN ps /\ ps[k] \in Knob
    BY <1>1, <1>2
  <2> QED BY <2>1 DEF N!Perturbable, N!IsFlag, KnobsRight, Knob
<1>4. ASSUME NEW k \in M, ps[k].kind # "flag"
      PROVE  /\ N!Moved(ps[k], -1) \in Int /\ N!Moved(ps[k], 1) \in Int
             /\ N!Moved(ps[k], -1) # N!Moved(ps[k], 1)
             /\ ps[k].value >= 0 =>
                  N!Moved(ps[k], -1) > 0 /\ N!Moved(ps[k], -1) < ps[k].value /\ N!Moved(ps[k], 1) > ps[k].value
  <2> HIDE DEF M
  <2> QED BY <1>3, <1>4, MovedIs
<1>5. ASSUME NEW k \in M, ps[k].kind = "flag"
      PROVE  N!Moved(ps[k], -1) \in Int /\ N!Moved(ps[k], 1) \in Int
  BY <1>3, <1>5 DEF N!Moved, N!IsFlag, N!Flip
<1>6. /\ N!Moves(ps, -1) = {k \in M : IF ps[k].kind = "flag" THEN TRUE ELSE N!Moved(ps[k], -1) > 0}
      /\ N!Moves(ps, 1) = {k \in M : IF ps[k].kind = "flag" THEN FALSE ELSE N!Moved(ps[k], 1) > 0}
  BY DEF N!Moves, N!IsFlag
<1>7. Switches(ps) = {k \in M : ps[k].kind = "flag"}
  BY DEF Switches, N!IsFlag
<1>8. ASSUME Raised(ps), NEW k \in M, ps[k].kind # "flag"
      PROVE  /\ N!Moved(ps[k], -1) > 0 /\ N!Moved(ps[k], 1) > 0
             /\ N!Moved(ps[k], -1) < ps[k].value /\ ~(N!Moved(ps[k], 1) < ps[k].value)
  <2>1. ps[k].value >= 0 /\ ps[k].value \in Int
    BY <1>3, <1>8 DEF Raised
  <2>2. /\ N!Moved(ps[k], -1) > 0 /\ N!Moved(ps[k], -1) < ps[k].value /\ N!Moved(ps[k], 1) > ps[k].value
        /\ N!Moved(ps[k], 1) \in Int
    BY <1>4, <1>8, <2>1
  <2> QED BY <2>1, <2>2
<1> HIDE DEF M
<1>9. Raised(ps) =>
        /\ N!Moves(ps, -1) = M
        /\ N!Moves(ps, 1) = M \ Switches(ps)
        /\ \A k \in M \ Switches(ps) :
              N!Moved(ps[k], -1) < ps[k].value /\ ~(N!Moved(ps[k], 1) < ps[k].value)
  BY <1>6, <1>7, <1>8
<1>10. \A k \in M : N!Moved(ps[k], -1) \in Int /\ N!Moved(ps[k], 1) \in Int
  BY <1>4, <1>5
<1>11. N!Moves(ps, -1) \subseteq M /\ N!Moves(ps, 1) \subseteq M \ Switches(ps)
  BY <1>6, <1>7
<1>12. \A k \in N!Moves(ps, 1) : N!Moved(ps[k], -1) # N!Moved(ps[k], 1)
  BY <1>4, <1>6
<1> QED BY <1>1, <1>2, <1>9, <1>10, <1>11, <1>12 DEF M

(* A pass makes each of its moves once, in the order of the parameters.       *)
Number(V, i) == CHOOSE k \in V : N!Cardinality({j \in V : j <= k}) = i

LEMMA NumberIs ==
    ASSUME NEW V \in SUBSET Int, IsFiniteSet(V)
    PROVE  /\ \A i \in 1..Cardinality(V) : Number(V, i) \in V
           /\ \A i, j \in 1..Cardinality(V) : Number(V, i) = Number(V, j) => i = j
           /\ \A k \in V : \E i \in 1..Cardinality(V) : Number(V, i) = k
<1>1. \A k : N!Cardinality({j \in V : j <= k}) = Cardinality(UpTo(V, k))
  BY CardinalityN DEF UpTo
<1>2. ASSUME NEW i \in 1..Cardinality(V)
      PROVE  Number(V, i) \in V /\ Cardinality(UpTo(V, Number(V, i))) = i
  <2>1. \E k \in V : Cardinality(UpTo(V, k)) = i
    BY NumberedOff
  <2>2. Number(V, i) = CHOOSE k \in V : N!Cardinality({j \in V : j <= k}) = i
    BY DEF Number
  <2> QED BY <1>1, <2>1, <2>2
<1>3. ASSUME NEW k \in V PROVE \E i \in 1..Cardinality(V) : Number(V, i) = k
  <2> DEFINE i == Cardinality(UpTo(V, k))
  <2>1. i \in 1..Cardinality(V)
    BY NumberedOff
  <2>2. Number(V, i) \in V /\ Cardinality(UpTo(V, Number(V, i))) = i
    <3> HIDE DEF i
    <3> QED BY <1>2, <2>1
  <2>3. Number(V, i) = k
    <3> DEFINE m == Number(V, i)
    <3>1. ~(m < k) /\ ~(k < m)
      <4>1. m \in V /\ Cardinality(UpTo(V, m)) = Cardinality(UpTo(V, k))
        BY <2>2
      <4>2. Cardinality(UpTo(V, k)) \in 1..Cardinality(V)
        BY NumberedOff
      <4> HIDE DEF m
      <4>3. /\ m < k => Cardinality(UpTo(V, m)) < Cardinality(UpTo(V, k))
            /\ k < m => Cardinality(UpTo(V, k)) < Cardinality(UpTo(V, m))
        BY <4>1, NumberedOff
      <4> QED BY <4>1, <4>2, <4>3
    <3>2. m \in Int /\ k \in Int
      BY <2>2
    <3> HIDE DEF m
    <3> QED BY <3>1, <3>2 DEF m
  <2> HIDE DEF i
  <2> QED BY <2>1, <2>3
<1> QED BY <1>2, <1>3

LEMMA PassIs ==
    ASSUME NEW ps, KnobsRight(ps), NEW dir \in {-1, 1}
    PROVE  LET V == N!Moves(ps, dir)
               pass == N!Pass(ps, dir)
           IN  /\ IsFiniteSet(V) /\ Cardinality(V) \in Nat
               /\ pass = [i \in 1..Cardinality(V) |-> <<Number(V, i), N!Moved(ps[Number(V, i)], dir)>>]
               /\ pass \in Seq(Int \X Int) /\ Len(pass) = Cardinality(V)
               /\ \A i \in 1..Cardinality(V) : Number(V, i) \in V
               /\ \A i, j \in 1..Cardinality(V) : Number(V, i) = Number(V, j) => i = j
               /\ \A k \in V : \E i \in 1..Cardinality(V) : Number(V, i) = k
<1> DEFINE V == N!Moves(ps, dir)
           pass == N!Pass(ps, dir)
           c == Cardinality(V)
<1>1. V \subseteq N!Perturbable(ps) /\ N!Perturbable(ps) \subseteq 1..Len(ps) /\ Len(ps) \in Nat
  BY MovesAre
<1>2. V \in SUBSET Int /\ IsFiniteSet(V)
  <2>1. IsFiniteSet(1..Len(ps))
    BY <1>1, FS_Interval
  <2>2. V \subseteq 1..Len(ps)
    BY <1>1
  <2> HIDE DEF V
  <2>3. IsFiniteSet(V)
    BY <2>1, <2>2, FS_Subset
  <2>4. V \in SUBSET Int
    BY <2>2
  <2> QED BY <2>3, <2>4
<1>3. c \in Nat
  BY <1>2, FS_CardinalityType
<1>4. \A k \in V : N!Moved(ps[k], dir) \in Int
  BY <1>1, MovesAre
<1>5. pass = [i \in 1..c |-> <<Number(V, i), N!Moved(ps[Number(V, i)], dir)>>]
  BY CardinalityN DEF N!Pass, Number
<1>6. /\ \A i \in 1..c : Number(V, i) \in V
      /\ \A i, j \in 1..c : Number(V, i) = Number(V, j) => i = j
      /\ \A k \in V : \E i \in 1..c : Number(V, i) = k
  <2> HIDE DEF V
  <2> QED BY <1>2, NumberIs
<1>7. pass \in Seq(Int \X Int) /\ Len(pass) = c
  <2>1. \A i \in 1..c : <<Number(V, i), N!Moved(ps[Number(V, i)], dir)>> \in Int \X Int
    BY <1>2, <1>4, <1>6
  <2> HIDE DEF pass, c, V
  <2> QED BY <1>3, <1>5, <2>1
<1> QED BY <1>2, <1>3, <1>5, <1>6, <1>7

(* The first of the plan are down, the rest up; none is made twice.           *)
Down(ps) == Cardinality(N!Moves(ps, -1))
Up(ps) == Cardinality(N!Moves(ps, 1))
Downward(ps, i) == Number(N!Moves(ps, -1), i)
Upward(ps, i) == Number(N!Moves(ps, 1), i - Down(ps))

LEMMA PlanIs ==
    ASSUME NEW ps, KnobsRight(ps), NEW b \in Nat
    PROVE  LET plan == N!Perturbations(ps, b)
           IN  /\ Down(ps) \in Nat /\ Up(ps) \in Nat
               /\ plan \in Seq(Int \X Int)
               /\ Len(plan) = IF b < Down(ps) + Up(ps) THEN b ELSE Down(ps) + Up(ps)
               /\ \A i \in 1..Len(plan) :
                    /\ i <= Down(ps) =>
                         /\ Downward(ps, i) \in N!Moves(ps, -1)
                         /\ plan[i] = <<Downward(ps, i), N!Moved(ps[Downward(ps, i)], -1)>>
                    /\ i > Down(ps) =>
                         /\ Upward(ps, i) \in N!Moves(ps, 1)
                         /\ plan[i] = <<Upward(ps, i), N!Moved(ps[Upward(ps, i)], 1)>>
<1> DEFINE plan == N!Perturbations(ps, b)
           p1 == N!Pass(ps, -1)
           p2 == N!Pass(ps, 1)
           both == p1 \o p2
           d == Down(ps)
           u == Up(ps)
           m == IF b < d + u THEN b ELSE d + u
<1>1. /\ d \in Nat
      /\ p1 \in Seq(Int \X Int) /\ Len(p1) = d
      /\ \A i \in 1..d : Downward(ps, i) \in N!Moves(ps, -1)
      /\ \A i \in 1..d : p1[i] = <<Downward(ps, i), N!Moved(ps[Downward(ps, i)], -1)>>
  BY PassIs DEF Down, Downward
<1>2. /\ u \in Nat
      /\ p2 \in Seq(Int \X Int) /\ Len(p2) = u
      /\ \A i \in 1..u : Number(N!Moves(ps, 1), i) \in N!Moves(ps, 1)
      /\ \A i \in 1..u : p2[i] = <<Number(N!Moves(ps, 1), i), N!Moved(ps[Number(N!Moves(ps, 1), i)], 1)>>
  BY PassIs DEF Up
<1> HIDE DEF p1, p2, d, u
<1>3. /\ both \in Seq(Int \X Int) /\ Len(both) = d + u
      /\ \A i \in 1..(d + u) : both[i] = IF i <= d THEN p1[i] ELSE p2[i - d]
  BY <1>1, <1>2, ConcatProperties
<1>4. plan = SubSeq(both, 1, m)
  <2>1. Len(both) = d + u
    BY <1>3
  <2> HIDE DEF both
  <2> QED BY <2>1 DEF N!Perturbations, p1, p2, both
<1>5. m \in 0..(d + u)
  BY <1>1, <1>2
<1> HIDE DEF both, m
<1>6. /\ plan \in Seq(Int \X Int) /\ Len(plan) = m
      /\ \A i \in 1..m : plan[i] = both[i]
  BY <1>1, <1>2, <1>3, <1>4, <1>5
<1> HIDE DEF plan
<1>7. ASSUME NEW i \in 1..m, i <= d
      PROVE  /\ Downward(ps, i) \in N!Moves(ps, -1)
             /\ plan[i] = <<Downward(ps, i), N!Moved(ps[Downward(ps, i)], -1)>>
  <2>1. i \in 1..d /\ i \in 1..(d + u)
    BY <1>1, <1>2, <1>5, <1>7
  <2>2. plan[i] = p1[i]
    BY <1>3, <1>6, <1>7, <2>1
  <2> QED BY <1>1, <2>1, <2>2
<1>8. ASSUME NEW i \in 1..m, i > d
      PROVE  /\ Upward(ps, i) \in N!Moves(ps, 1)
             /\ plan[i] = <<Upward(ps, i), N!Moved(ps[Upward(ps, i)], 1)>>
  <2>1. i - d \in 1..u /\ i \in 1..(d + u) /\ ~(i <= d)
    BY <1>1, <1>2, <1>5, <1>8
  <2>2. plan[i] = p2[i - d]
    BY <1>3, <1>6, <1>8, <2>1
  <2>3. Upward(ps, i) = Number(N!Moves(ps, 1), i - d)
    BY DEF Upward, d
  <2> QED BY <1>2, <2>1, <2>2, <2>3
<1> QED BY <1>1, <1>2, <1>6, <1>7, <1>8 DEF plan, d, u, m

LEMMA NoneTwice ==
    ASSUME NEW ps, KnobsRight(ps), NEW b \in Nat,
           NEW i \in 1..Len(N!Perturbations(ps, b)), NEW j \in 1..Len(N!Perturbations(ps, b)),
           N!Perturbations(ps, b)[i] = N!Perturbations(ps, b)[j]
    PROVE  i = j
<1> DEFINE plan == N!Perturbations(ps, b)
           d == Down(ps)
           u == Up(ps)
<1>1. /\ d \in Nat /\ u \in Nat /\ Len(plan) \in Nat /\ Len(plan) <= d + u
      /\ \A h \in 1..Len(plan) :
           /\ h <= d =>
                /\ Downward(ps, h) \in N!Moves(ps, -1)
                /\ plan[h] = <<Downward(ps, h), N!Moved(ps[Downward(ps, h)], -1)>>
           /\ h > d =>
                /\ Upward(ps, h) \in N!Moves(ps, 1)
                /\ plan[h] = <<Upward(ps, h), N!Moved(ps[Upward(ps, h)], 1)>>
  <2>1. d \in Nat /\ u \in Nat /\ Len(plan) = IF b < d + u THEN b ELSE d + u
    BY PlanIs
  <2>2. Len(plan) \in Nat /\ Len(plan) <= d + u
    <3> HIDE DEF plan, d, u
    <3> QED BY <2>1
  <2> QED BY <2>1, <2>2, PlanIs
<1>2. /\ \A h, l \in 1..d : Number(N!Moves(ps, -1), h) = Number(N!Moves(ps, -1), l) => h = l
      /\ \A h, l \in 1..u : Number(N!Moves(ps, 1), h) = Number(N!Moves(ps, 1), l) => h = l
  BY PassIs DEF Down, Up
<1>3. \A k \in N!Moves(ps, 1) : N!Moved(ps[k], -1) # N!Moved(ps[k], 1)
  BY MovesAre
<1>4. plan[i] = plan[j] /\ i \in 1..Len(plan) /\ j \in 1..Len(plan)
  OBVIOUS
<1> HIDE DEF plan
<1>5. ASSUME NEW h \in 1..Len(plan), NEW l \in 1..Len(plan), plan[h] = plan[l], h <= d, l > d
      PROVE  FALSE
  <2>1. Downward(ps, h) = Upward(ps, l) /\ Upward(ps, l) \in N!Moves(ps, 1)
    BY <1>1, <1>5
  <2>2. N!Moved(ps[Downward(ps, h)], -1) = N!Moved(ps[Upward(ps, l)], 1)
    BY <1>1, <1>5
  <2> QED BY <1>3, <2>1, <2>2
<1>6. CASE i <= d /\ j <= d
  <2>1. Downward(ps, i) = Downward(ps, j)
    BY <1>1, <1>4, <1>6
  <2>2. i \in 1..d /\ j \in 1..d
    BY <1>1, <1>4, <1>6
  <2> QED BY <1>2, <2>1, <2>2 DEF Downward
<1>7. CASE i > d /\ j > d
  <2>1. Upward(ps, i) = Upward(ps, j)
    BY <1>1, <1>4, <1>7
  <2>2. i - d \in 1..u /\ j - d \in 1..u
    BY <1>1, <1>4, <1>7
  <2>3. i - d = j - d
    BY <1>2, <2>1, <2>2 DEF Upward
  <2> QED BY <1>1, <1>4, <2>3
<1>8. (i <= d \/ i > d) /\ (j <= d \/ j > d)
  BY <1>1, <1>4
<1> QED BY <1>4, <1>5, <1>6, <1>7, <1>8

MoveRuns == [param : Int, value : Int, score : Int, full : Int, ok : BOOLEAN]
(* What has been tried is the plan as far as it went.                         *)
NearInv ==
    /\ KnobsRight(params) /\ budget \in Nat /\ clipped \in Int
    /\ tried \in Seq(MoveRuns) /\ Len(tried) <= Len(N!Plan)
    /\ \A i \in 1..Len(tried) : tried[i].param = N!Plan[i][1] /\ tried[i].value = N!Plan[i][2]

LEMMA NearInit == N!NeighbourAssumption /\ Init => NearInv
<1> SUFFICES ASSUME N!NeighbourAssumption, Init PROVE NearInv
  OBVIOUS
<1>1. KnobsRight(<<>>)
  BY DEF KnobsRight
<1>2. \A ps \in ParamSets : KnobsRight(ps)
  BY DEF N!NeighbourAssumption, KnobsRight, Knob
<1>3. /\ KnobsRight(params) /\ budget \in Nat /\ clipped \in Int /\ tried = <<>>
  <2>1. CASE loop = "neighbourhood"
    <3>1. params \in ParamSets /\ budget \in RunBudgets /\ tried = <<>> /\ clipped \in Shares
      BY <2>1 DEF Init, N!Init
    <3>2. budget \in Nat /\ clipped \in 0..100
      BY <3>1 DEF N!NeighbourAssumption
    <3> QED BY <1>2, <3>1, <3>2
  <2>2. CASE loop # "neighbourhood"
    BY <1>1, <2>2 DEF Init
  <2> QED BY <2>1, <2>2
<1>4. Len(N!Plan) \in Nat
  <2>1. Len(N!Perturbations(params, budget)) = IF budget < Down(params) + Up(params) THEN budget ELSE Down(params) + Up(params)
    BY <1>3, PlanIs
  <2>2. Down(params) \in Nat /\ Up(params) \in Nat
    BY <1>3, PlanIs
  <2> QED BY <1>3, <2>1, <2>2 DEF N!Plan
<1> QED BY <1>3, <1>4 DEF NearInv

LEMMA NearStep == N!NeighbourAssumption /\ NearInv /\ [N!Next]_probing => NearInv'
<1> SUFFICES ASSUME N!NeighbourAssumption, NearInv, [N!Next]_probing PROVE NearInv'
  OBVIOUS
<1>1. CASE N!TryNext
  <2> DEFINE move == N!Plan[Len(tried) + 1]
  <2>1. PICK run : /\ tried' = Append(tried, run)
                   /\ \E score \in Scores \cup {0}, full \in Returns \cup {0}, ok \in BOOLEAN :
                         run = N!Tried(move, score, full, ok)
    BY <1>1 DEF N!TryNext
  <2>2. params' = params /\ budget' = budget /\ clipped' = clipped /\ N!Plan' = N!Plan
    BY <1>1 DEF N!TryNext, N!Plan
  <2>3. Len(tried) < Len(N!Plan) /\ Len(tried) \in Nat /\ tried \in Seq(MoveRuns)
    BY <1>1 DEF N!TryNext, NearInv
  <2>4. N!Plan \in Seq(Int \X Int)
    BY PlanIs DEF NearInv, N!Plan
  <2>5. Len(N!Plan) \in Nat /\ Len(tried) + 1 \in 1..Len(N!Plan)
    BY <2>3, <2>4
  <2>6. move \in Int \X Int
    BY <2>4, <2>5
  <2>7. run \in MoveRuns /\ run.param = move[1] /\ run.value = move[2]
    BY <2>1, <2>6 DEF N!Tried, MoveRuns, N!NeighbourAssumption
  <2> HIDE DEF move
  <2>8. /\ tried' \in Seq(MoveRuns) /\ Len(tried') = Len(tried) + 1
        /\ \A i \in 1..Len(tried) : tried'[i] = tried[i]
        /\ tried'[Len(tried) + 1] = run
    BY <2>1, <2>3, <2>7
  <2>9. ASSUME NEW i \in 1..Len(tried') PROVE tried'[i].param = N!Plan[i][1] /\ tried'[i].value = N!Plan[i][2]
    <3>1. CASE i = Len(tried) + 1
      BY <2>7, <2>8, <3>1 DEF move
    <3>2. CASE i # Len(tried) + 1
      <4>1. i \in 1..Len(tried)
        BY <2>3, <2>8, <3>2
      <4> QED BY <2>8, <4>1 DEF NearInv
    <3> QED BY <3>1, <3>2
  <2>10. Len(tried') <= Len(N!Plan)
    BY <2>3, <2>5, <2>8
  <2> QED BY <2>2, <2>8, <2>9, <2>10 DEF NearInv
<1>2. CASE UNCHANGED probing
  <2>1. N!Plan' = N!Plan
    BY <1>2 DEF probing, N!Plan
  <2> QED BY <1>2, <2>1 DEF probing, NearInv
<1> QED BY <1>1, <1>2 DEF N!Next

LEMMA NearSteps == [Next]_all => [N!Next]_probing
<1>1. Agents => N!Next \/ UNCHANGED probing
  BY DEF Agents
<1>2. UNCHANGED agents => UNCHANGED probing
  BY DEF agents
<1> QED BY <1>1, <1>2 DEF Next, all

(* Which ways a parameter went.                                               *)
Way(i) == IF tried[i].value < params[tried[i].param].value THEN "down" ELSE "up"
LEMMA WaysAre ==
    \A k : N!Directions(k) = {Way(i) : i \in {j \in DOMAIN tried : tried[j].param = k}}
BY DEF N!Directions, Way

LEMMA KnobsAre ==
    ASSUME NearInv
    PROVE  LET V == N!Perturbable(params)
               F == Switches(params)
           IN  /\ IsFiniteSet(V) /\ IsFiniteSet(F) /\ F \subseteq V
               /\ Cardinality(V) \in Nat /\ Cardinality(F) \in Nat
               /\ IsFiniteSet(V \ F) /\ Cardinality(V \ F) = Cardinality(V) - Cardinality(F)
               /\ N!Needed = Cardinality(V) + Cardinality(V \ F)
<1> DEFINE V == N!Perturbable(params)
           F == Switches(params)
<1>1. V \subseteq 1..Len(params) /\ Len(params) \in Nat
  BY MovesAre DEF NearInv
<1>2. F \subseteq V
  BY DEF Switches
<1>3. N!Needed = 2 * Cardinality(V) - Cardinality(F)
  BY CardinalityN DEF N!Needed, Switches
<1> HIDE DEF V, F
<1>4. IsFiniteSet(V)
  <2>1. IsFiniteSet(1..Len(params))
    BY <1>1, FS_Interval
  <2> QED BY <1>1, <2>1, FS_Subset
<1>5. IsFiniteSet(F) /\ Cardinality(V) \in Nat /\ Cardinality(F) \in Nat
  <2>1. IsFiniteSet(F)
    BY <1>2, <1>4, FS_Subset
  <2> QED BY <1>4, <2>1, FS_CardinalityType
<1>6. IsFiniteSet(V \ F) /\ Cardinality(V \ F) = Cardinality(V) - Cardinality(V \cap F)
  BY <1>4, <1>5, FS_Difference
<1>7. V \cap F = F
  BY <1>2
<1>8. Cardinality(V \ F) = Cardinality(V) - Cardinality(F)
  BY <1>6, <1>7
<1>9. N!Needed = Cardinality(V) + Cardinality(V \ F)
  BY <1>3, <1>5, <1>8
<1> QED BY <1>2, <1>4, <1>5, <1>6, <1>8, <1>9 DEF V, F

(* Complete coverage takes a run down of every parameter, or any run of a     *)
(* switch, and another up of every one that is no switch.                     *)
LEMMA CoverageNeeds ==
    ASSUME NearInv, N!Complete
    PROVE  Len(tried) >= N!Needed
<1> DEFINE V == N!Perturbable(params)
           F == Switches(params)
           I == DOMAIN tried
           A1 == {i \in I : tried[i].param \in V \ F /\ Way(i) = "up"}
           A2 == I \ A1
           f == [i \in I |-> tried[i].param]
<1>1. I = 1..Len(tried) /\ Len(tried) \in Nat
  BY DEF NearInv
<1>2. IsFiniteSet(I) /\ Cardinality(I) = Len(tried)
  <2>1. IsFiniteSet(1..Len(tried)) /\ Cardinality(1..Len(tried)) = IF 1 > Len(tried) THEN 0 ELSE Len(tried) - 1 + 1
    BY <1>1, FS_Interval
  <2> QED BY <1>1, <2>1
<1>3. /\ IsFiniteSet(A1) /\ IsFiniteSet(A2)
      /\ Cardinality(A1) \in Nat /\ Cardinality(A2) = Len(tried) - Cardinality(A1)
  <2>1. A1 \subseteq I
    OBVIOUS
  <2>2. I \cap A1 = A1
    BY <2>1
  <2> HIDE DEF A1, I
  <2>3. IsFiniteSet(A1)
    BY <1>2, <2>1, FS_Subset
  <2>4. IsFiniteSet(I \ A1) /\ Cardinality(I \ A1) = Cardinality(I) - Cardinality(I \cap A1)
    BY <1>2, <2>3, FS_Difference
  <2> QED BY <1>2, <2>2, <2>3, <2>4, FS_CardinalityType DEF A2
<1>4. ASSUME NEW k \in V
      PROVE  /\ N!Directions(k) \subseteq {"down", "up"} /\ N!Directions(k) # {}
             /\ k \notin F => Cardinality(N!Directions(k)) # 1
  <2>1. N!Directions(k) \subseteq {"down", "up"}
    BY WaysAre DEF Way
  <2>2. N!Directions(k) # {}
    BY DEF N!Complete, N!NotTested
  <2>3. k \notin F => Cardinality(N!Directions(k)) # 1
    BY CardinalityN DEF N!Complete, N!OneDirection, Switches
  <2> QED BY <2>1, <2>2, <2>3
<1>5. ASSUME NEW k \in V \ F
      PROVE  \E i, j \in I : f[i] = k /\ Way(i) = "down" /\ f[j] = k /\ Way(j) = "up"
  <2>1. "down" \in N!Directions(k) /\ "up" \in N!Directions(k)
    <3>1. "down" # "up"
      OBVIOUS
    <3> HIDE DEF V, F
    <3> QED BY <1>4, <3>1, BothThere
  <2> QED BY <2>1, WaysAre
<1>6. V \ F \subseteq {f[i] : i \in A1}
  <2> SUFFICES ASSUME NEW k \in V \ F PROVE \E i \in A1 : k = f[i]
    OBVIOUS
  <2>1. PICK j \in I : f[j] = k /\ Way(j) = "up"
    BY <1>5
  <2> QED BY <2>1
<1>7. V \subseteq {f[i] : i \in A2}
  <2> SUFFICES ASSUME NEW k \in V PROVE \E i \in A2 : k = f[i]
    OBVIOUS
  <2>1. CASE k \in F
    <3>1. PICK i \in I : tried[i].param = k
      BY <1>4, WaysAre
    <3> QED BY <2>1, <3>1
  <2>2. CASE k \notin F
    <3>1. PICK i \in I : f[i] = k /\ Way(i) = "down"
      BY <1>5, <2>2
    <3> QED BY <3>1
  <2> QED BY <2>1, <2>2
<1> HIDE DEF A1, A2, f, V, F
<1>8. Cardinality(V \ F) <= Cardinality(A1) /\ Cardinality(V) <= Cardinality(A2)
  BY <1>3, <1>6, <1>7, Covered
<1>9. /\ Cardinality(V) \in Nat /\ Cardinality(V \ F) \in Int
      /\ N!Needed = Cardinality(V) + Cardinality(V \ F)
  BY KnobsAre DEF V, F
<1> QED BY <1>1, <1>3, <1>8, <1>9

LEMMA CoverageRight == NearInv => N!CompleteIsEarned
<1> SUFFICES ASSUME NearInv PROVE N!CompleteIsEarned
  OBVIOUS
<1>1. DOMAIN tried = 1..Len(tried) /\ Len(tried) \in Nat /\ Len(tried) <= Len(N!Plan)
  BY DEF NearInv
<1>2. N!Plan \in Seq(Int \X Int)
  BY PlanIs DEF NearInv, N!Plan
<1>3. ASSUME NEW i \in DOMAIN tried, NEW j \in DOMAIN tried, i # j
      PROVE  <<tried[i].param, tried[i].value>> # <<tried[j].param, tried[j].value>>
  <2>1. i \in 1..Len(N!Plan) /\ j \in 1..Len(N!Plan)
    BY <1>1, <1>2
  <2>2. N!Plan[i] = <<tried[i].param, tried[i].value>> /\ N!Plan[j] = <<tried[j].param, tried[j].value>>
    BY <1>1, <1>2, <2>1 DEF NearInv
  <2>3. N!Plan[i] # N!Plan[j]
    BY <1>3, <2>1, NoneTwice DEF NearInv, N!Plan
  <2> QED BY <2>2, <2>3
<1> QED BY <1>3, CoverageNeeds DEF N!CompleteIsEarned

(* Where nothing to perturb is below zero, what the budget lets be run covers *)
(* all of it, or touches all of it.                                           *)
LEMMA PlanRight == NearInv => N!PlanMeetsReport
<1> SUFFICES ASSUME NearInv, N!Finished, N!Positive
             PROVE  /\ budget >= N!Needed => N!Complete
                    /\ budget >= N!Cardinality(N!Perturbable(params)) => N!NotTested = {}
  BY DEF N!PlanMeetsReport
<1> DEFINE V == N!Perturbable(params)
           F == Switches(params)
           d == Down(params)
           u == Up(params)
<1>1. KnobsRight(params) /\ budget \in Nat
  BY DEF NearInv
<1>2. Raised(params)
  BY DEF N!Positive, Raised
<1>3. /\ N!Moves(params, -1) = V /\ N!Moves(params, 1) = V \ F
      /\ \A k \in V \ F : N!Moved(params[k], -1) < params[k].value /\ ~(N!Moved(params[k], 1) < params[k].value)
  BY <1>1, <1>2, MovesAre
<1>4. d = Cardinality(V) /\ u = Cardinality(V \ F) /\ d \in Nat /\ u \in Nat
  BY <1>1, <1>3, PlanIs DEF Down, Up
<1>5. /\ Len(tried) = Len(N!Plan) /\ DOMAIN tried = 1..Len(tried)
      /\ \A i \in 1..Len(tried) : tried[i].param = N!Plan[i][1] /\ tried[i].value = N!Plan[i][2]
  BY DEF N!Finished, NearInv
<1>6. Len(N!Plan) = IF budget < d + u THEN budget ELSE d + u
  BY <1>1, PlanIs DEF N!Plan
<1>7. \A i \in 1..Len(N!Plan) :
         /\ i <= d => N!Plan[i] = <<Downward(params, i), N!Moved(params[Downward(params, i)], -1)>>
         /\ i > d => N!Plan[i] = <<Upward(params, i), N!Moved(params[Upward(params, i)], 1)>>
  BY <1>1, PlanIs DEF N!Plan
<1>8. /\ \A k \in V : \E i \in 1..d : Downward(params, i) = k
      /\ \A k \in V \ F : \E i \in 1..u : Number(N!Moves(params, 1), i) = k
  BY <1>1, <1>3, PassIs DEF Down, Up, Downward
<1>9. ASSUME budget >= d, NEW k \in V
      PROVE  \E i \in DOMAIN tried : tried[i].param = k /\ tried[i].value = N!Moved(params[k], -1)
  <2>1. PICK i \in 1..d : Downward(params, i) = k
    BY <1>8
  <2> HIDE DEF d, u, V, F
  <2>2. i \in 1..Len(N!Plan) /\ i <= d
    BY <1>1, <1>4, <1>6, <1>9
  <2>3. N!Plan[i] = <<k, N!Moved(params[k], -1)>>
    BY <1>7, <2>1, <2>2
  <2> QED BY <1>5, <2>2, <2>3
<1>10. ASSUME budget >= d + u, NEW k \in V \ F
       PROVE  \E i \in DOMAIN tried : tried[i].param = k /\ tried[i].value = N!Moved(params[k], 1)
  <2>1. PICK j \in 1..u : Number(N!Moves(params, 1), j) = k
    BY <1>8
  <2> HIDE DEF u, V, F
  <2> DEFINE i == d + j
  <2>2. i \in 1..Len(N!Plan) /\ i > d /\ i - d = j
    <3> HIDE DEF d
    <3> QED BY <1>1, <1>4, <1>6, <1>10
  <2>3. Upward(params, i) = k
    BY <2>1, <2>2 DEF Upward
  <2> HIDE DEF d, i
  <2>4. N!Plan[i] = <<k, N!Moved(params[k], 1)>>
    BY <1>7, <2>2, <2>3
  <2> QED BY <1>5, <2>2, <2>4
<1>11. N!Needed = d + u /\ N!Cardinality(N!Perturbable(params)) = d
  BY <1>4, KnobsAre, CardinalityN
<1>12. ASSUME budget >= d PROVE N!NotTested = {}
  <2> SUFFICES ASSUME NEW k \in V PROVE N!Directions(k) # {}
    BY DEF N!NotTested
  <2>1. PICK i \in DOMAIN tried : tried[i].param = k
    BY <1>9, <1>12
  <2> QED BY <2>1, WaysAre
<1>13. ASSUME budget >= d + u PROVE N!Complete
  <2>1. N!NotTested = {}
    <3>1. budget >= d
      <4> HIDE DEF d, u
      <4> QED BY <1>1, <1>4, <1>13
    <3> QED BY <1>12, <3>1
  <2>2. ASSUME NEW k \in V \ F PROVE Cardinality(N!Directions(k)) # 1
    <3>1. budget >= d
      <4> HIDE DEF d, u
      <4> QED BY <1>1, <1>4, <1>13
    <3>2. PICK i \in DOMAIN tried : tried[i].param = k /\ tried[i].value = N!Moved(params[k], -1)
      BY <1>9, <3>1
    <3>3. PICK j \in DOMAIN tried : tried[j].param = k /\ tried[j].value = N!Moved(params[k], 1)
      BY <1>10, <1>13
    <3>4. Way(i) = "down" /\ Way(j) = "up"
      BY <1>3, <3>2, <3>3 DEF Way
    <3>5. "down" \in N!Directions(k) /\ "up" \in N!Directions(k)
      BY <3>2, <3>3, <3>4, WaysAre
    <3>6. N!Directions(k) \subseteq {"down", "up"} /\ "down" # "up"
      BY WaysAre DEF Way
    <3> HIDE DEF V, F
    <3> QED BY <3>5, <3>6, BothThere
  <2>3. N!OneDirection = {}
    BY <2>2, CardinalityN DEF N!OneDirection, Switches
  <2> QED BY <2>1, <2>3 DEF N!Complete
<1> QED BY <1>11, <1>12, <1>13

(* Those of the runs that scored.                                             *)
LEMMA ScoredIs ==
    ASSUME NearInv
    PROVE  /\ N!Scored \subseteq 1..Len(tried) /\ Len(tried) \in Nat /\ IsFiniteSet(N!Scored)
           /\ \A i \in N!Scored : /\ tried[i].score \in Int /\ N!ScoresOf[i] = tried[i].score
                                 /\ tried[i].full \in Int /\ N!FullsOf[i] = tried[i].full
<1>1. DOMAIN tried = 1..Len(tried) /\ Len(tried) \in Nat /\ N!Scored \subseteq 1..Len(tried)
  BY DEF NearInv, N!Scored
<1>2. IsFiniteSet(N!Scored)
  <2>1. IsFiniteSet(1..Len(tried))
    BY <1>1, FS_Interval
  <2> QED BY <1>1, <2>1, FS_Subset
<1>3. \A i \in 1..Len(tried) : tried[i].score \in Int /\ tried[i].full \in Int
  <2>1. tried \in Seq(MoveRuns)
    BY DEF NearInv
  <2>2. \A i \in 1..Len(tried) : tried[i] \in MoveRuns
    BY <2>1
  <2> QED BY <2>2 DEF MoveRuns
<1> QED BY <1>1, <1>2, <1>3 DEF N!ScoresOf, N!FullsOf

LEMMA NthIs ==
    ASSUME NearInv, NEW f, \A i \in N!Scored : f[i] \in Int, NEW k \in 1..Cardinality(N!Scored)
    PROVE  N!Nth(f, k) \in Int /\ IsNth(N!Scored, f, k, N!Nth(f, k))
<1>1. \A x : IsNth(N!Scored, f, k, x) <=>
               /\ N!Cardinality({i \in N!Scored : f[i] < x}) < k
               /\ N!Cardinality({i \in N!Scored : f[i] <= x}) >= k
  BY CardinalityN DEF IsNth, Below, AtMost
<1>2. \E x \in {f[i] : i \in N!Scored} : IsNth(N!Scored, f, k, x)
  BY ScoredIs, NthExists
<1>3. N!Nth(f, k) \in {f[i] : i \in N!Scored} /\ IsNth(N!Scored, f, k, N!Nth(f, k))
  BY <1>1, <1>2 DEF N!Nth
<1> QED BY <1>3

LEMMA MajorityRight == N!NeighbourAssumption /\ NearInv => N!FragileIsMajority
<1> SUFFICES ASSUME N!NeighbourAssumption, NearInv, Base > 0
             PROVE  LET low == N!Cardinality({i \in N!Scored : 100 * tried[i].score < N!Retention * Base})
                    IN  /\ 2 * low > N!Cardinality(N!Scored) => N!Fragile
                        /\ N!Fragile => 2 * low >= N!Cardinality(N!Scored)
  BY DEF N!FragileIsMajority
<1> DEFINE V == N!Scored
           f == N!ScoresOf
           line == N!Retention * Base
           c == Cardinality(V)
           U == {i \in V : 100 * f[i] < line}
           a == N!Nth(f, (c + 1) \div 2)
           b == N!Nth(f, c \div 2 + 1)
<1>1. IsFiniteSet(V) /\ \A i \in V : f[i] \in Int /\ f[i] = tried[i].score
  BY ScoredIs
<1>2. c \in Nat
  BY <1>1, FS_CardinalityType
<1>3. line \in Int
  BY DEF N!Retention, N!NeighbourAssumption
<1>4. U = {i \in N!Scored : 100 * tried[i].score < N!Retention * Base}
  BY <1>1
<1>5. CASE V = {}
  <2>1. c = 0 /\ U = {} /\ Cardinality(U) = 0
    BY <1>5, FS_EmptySet
  <2>2. ~N!Fragile
    BY <1>5 DEF N!Fragile
  <2> QED BY <1>4, <2>1, <2>2, CardinalityN
<1>6. CASE V # {}
  <2>1. c # 0
    BY <1>1, <1>6, FS_EmptySet
  <2>2. (c + 1) \div 2 \in 1..c /\ c \div 2 + 1 \in 1..c
    <3> HIDE DEF c
    <3> QED BY <1>2, <2>1
  <2>3. a \in Int /\ IsNth(V, f, (c + 1) \div 2, a) /\ b \in Int /\ IsNth(V, f, c \div 2 + 1, b)
    BY <1>1, <2>2, NthIs
  <2>4. N!Fragile <=> 50 * (a + b) < line
    <3>1. N!TwiceMedian(f) = a + b
      BY CardinalityN DEF N!TwiceMedian
    <3> QED BY <1>6, <3>1 DEF N!Fragile
  <2>5. /\ 2 * Cardinality(U) > c => 50 * (a + b) < line
        /\ 50 * (a + b) < line => 2 * Cardinality(U) >= c
    <3> HIDE DEF V, f, line, a, b
    <3> QED BY <1>1, <1>3, <1>6, <2>3, MedianOfMajority
  <2> QED BY <1>4, <2>4, <2>5, CardinalityN
<1> QED BY <1>5, <1>6

LEMMA CliffRight == N!NeighbourAssumption /\ NearInv => N!CliffIsNamed
<1> SUFFICES ASSUME N!NeighbourAssumption, NearInv, N!Scored # {}, Base > 0
             PROVE  /\ \A i \in N!Scored : N!Costs(i) <= N!Costs(N!MostSensitive)
                    /\ N!Says = {"holds"} =>
                         /\ clipped < N!Confounds
                         /\ \A i \in N!Scored : N!Costs(i) < N!Cost * Base /\ tried[i].score <= Base
  BY DEF N!CliffIsNamed
<1> DEFINE V == N!Scored
           f == N!ScoresOf
           m == N!MostSensitive
<1>1. V \in SUBSET (1..Len(tried)) /\ Len(tried) \in Nat /\ \A i \in V : f[i] \in Int /\ f[i] = tried[i].score
  BY ScoredIs
<1>2. \E i \in V : \A j \in V : f[i] < f[j] \/ (f[i] = f[j] /\ i <= j)
  <2> HIDE DEF V, f
  <2> QED BY <1>1, FirstLeast DEF V
<1>3. m \in V /\ \A j \in V : tried[m].score < tried[j].score \/ tried[m].score = tried[j].score
  BY <1>1, <1>2 DEF N!MostSensitive
<1>4. Base \in Int /\ \A i \in V : tried[i].score \in Int
  BY <1>1 DEF N!NeighbourAssumption
<1>5. \A i \in V : N!Costs(i) <= N!Costs(m)
  <2> HIDE DEF V, m
  <2> QED BY <1>3, <1>4 DEF N!Costs
<1>6. ASSUME N!Says = {"holds"}
      PROVE  /\ clipped < N!Confounds
             /\ \A i \in V : N!Costs(i) < N!Cost * Base /\ tried[i].score <= Base
  <2>1. tried # <<>>
    <3>1. DOMAIN tried # {}
      BY DEF N!Scored
    <3> QED BY <3>1
  <2>2. {"holds"} = N!Weighed \cup {x \in {"confounded"} : clipped >= N!Confounds}
                              \cup {x \in {"partial"} : ~N!Complete}
    BY <1>6, <2>1 DEF N!Says
  <2>3. "sensitive" \notin N!Weighed /\ "better" \notin N!Weighed /\ ~(clipped >= N!Confounds)
    <3>1. "sensitive" # "holds" /\ "better" # "holds" /\ "confounded" # "holds"
      OBVIOUS
    <3> QED BY <2>2, <3>1
  <2>4. ~(N!Costs(m) >= N!Cost * Base) /\ ~N!BetterNearby
    BY <2>3 DEF N!Weighed
  <2>5. clipped \in Int /\ clipped < N!Confounds
    BY <2>3 DEF NearInv, N!Confounds
  <2>6. ASSUME NEW i \in V PROVE N!Costs(i) < N!Cost * Base /\ tried[i].score <= Base
    <3>1. N!Costs(i) <= N!Costs(m) /\ N!Costs(i) \in Int /\ N!Costs(m) \in Int
      BY <1>3, <1>4, <1>5 DEF N!Costs
    <3>2. N!Cost * Base \in Int
      BY <1>4 DEF N!Cost
    <3>3. ~(tried[i].score > Base)
      BY <2>4 DEF N!BetterNearby
    <3> HIDE DEF m, V
    <3> QED BY <1>4, <2>4, <2>6, <3>1, <3>2, <3>3
  <2> QED BY <2>5, <2>6
<1> QED BY <1>5, <1>6

(* Whatever parameters a winner has that are none below zero, and however its *)
(* neighbours score: with the runs the report asks for, its coverage is       *)
(* complete, and one run a parameter leaves none untouched; it is complete    *)
(* only when that many were made, no two the same; fragile is the verdict of  *)
(* most neighbours; and a pick that only holds has no neighbour that costs it *)
(* much, none above it, and no gate that spoke for it.                        *)
THEOREM ReportIsEarnedAlways == Spec => []ReportIsEarned
<1> USE SearchAssumption
<1>1. Init => NearInv
  BY NearInit
<1>2. NearInv /\ [Next]_all => NearInv'
  BY NearSteps, NearStep
<1>3. NearInv => ReportIsEarned
  BY PlanRight, CoverageRight, MajorityRight, CliffRight DEF ReportIsEarned
<1> QED BY <1>1, <1>2, <1>3, PTL DEF Spec, all
=============================================================================
