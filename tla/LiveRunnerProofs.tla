-------------------------- MODULE LiveRunnerProofs --------------------------
(* Theorems about LiveRunner, for every universe, order size, number of      *)
(* sessions, broker and set of faults the constants allow.  The safety       *)
(* theorems rest on the type invariant and, where they name the registry or  *)
(* the broker, on what these are assumed to do: the assumption is a          *)
(* hypothesis of the theorem, so that it says what the guarantee depends on. *)
EXTENDS LiveRunner, SequenceTheorems, CommonProofs, TLAPS

-----------------------------------------------------------------------------
(* Type correctness *)

\* max_consecutive_errors is only reached on the way out: anywhere else the
\* count is below it, which is what keeps it in its range when it grows.
ErrorsBelowMax == pc \notin {"exit", "stop", "cancel"} => errors < MaxErrors

TypeInv == TypeOK /\ ErrorsBelowMax

\* The part of TypeInv that is about the process alone.
ProcType == /\ ControlType /\ BookType /\ IdemType /\ ClockType /\ PollType /\ FlagType
            /\ ErrorType /\ BatchType /\ CancelType /\ LateType /\ ErrorsBelowMax

LEMMA FlatType == Flat \in Books
BY DEF Flat, Books

LEMMA Ranges == /\ 0 \in 0..MaxErrors /\ 0 < MaxErrors /\ MaxErrors \in Nat
                /\ 1 \in 1..Sessions /\ Sessions \in Nat
                /\ 0 \in 0..MaxFaults /\ MaxFaults \in Nat /\ MaxQty \in Nat
BY ConstantsAssumption

\* A failing call counts, one that works does not.
LEMMA FaultsCounted ==
    ASSUME FaultType, (\E kind \in FaultKinds : Fails(kind)) \/ NoFault
    PROVE  FaultType'
BY Ranges DEF FaultType, Fails, NoFault

LEMMA RowType ==
    ASSUME FaultType, row \in {"none", "running", "blocked", "stopped"},
           NEW status \in {"none", "running", "blocked", "stopped"},
           UpsertRow(status)
    PROVE  FaultType' /\ row' \in {"none", "running", "blocked", "stopped"}
BY Ranges DEF FaultType, UpsertRow, Fails, NoFault

\* A process that ends leaves well-typed variables behind.
LEMMA ForgetType == Forget => ProcType'
<1> SUFFICES ASSUME Forget PROVE ProcType'
  OBVIOUS
<1>1. ControlType' /\ IdemType' /\ BatchType' /\ CancelType' /\ LateType' /\ PollType' /\ FlagType'
  BY DEF Forget, ControlType, PCs, IdemType, BatchType, CancelType, LateType, PollType, FlagType
<1>2. BookType'
  BY FlatType DEF Forget, BookType
<1>3. ClockType' /\ ErrorType' /\ ErrorsBelowMax'
  BY Ranges DEF Forget, ClockType, ErrorType, ErrorsBelowMax
<1> QED BY <1>1, <1>2, <1>3 DEF ProcType

LEMMA InitType == Init => TypeInv
<1> SUFFICES ASSUME Init PROVE TypeInv
  OBVIOUS
<1>1. ControlType /\ IdemType /\ BatchType /\ CancelType /\ LateType /\ PollType /\ FlagType
  BY DEF Init, ControlType, PCs, IdemType, BatchType, CancelType, LateType, PollType, FlagType
<1>2. BookType /\ DbType
  BY FlatType DEF Init, BookType, DbType
<1>3. BrokerType
  BY FlatType DEF Init, BrokerType
<1>4. ClockType /\ ErrorType /\ FaultType /\ ErrorsBelowMax
  BY Ranges DEF Init, ClockType, ErrorType, FaultType, ErrorsBelowMax
<1>5. WorldType
  BY Ranges DEF Init, WorldType
<1> QED BY <1>1, <1>2, <1>3, <1>4, <1>5 DEF TypeInv, TypeOK

\* What an action leaves alone keeps its type.
LEMMA Frames ==
    ASSUME TypeInv
    PROVE  /\ UNCHANGED bookVars => BookType'
           /\ UNCHANGED idemVars => IdemType'
           /\ UNCHANGED clockVars => ClockType'
           /\ UNCHANGED pollVars /\ UNCHANGED brokerVars => PollType'
           /\ UNCHANGED flagVars => FlagType' /\ ErrorType'
           /\ UNCHANGED batchVars => BatchType'
           /\ UNCHANGED cancels /\ UNCHANGED brokerVars => CancelType'
           /\ UNCHANGED dbVars => DbType'
           /\ UNCHANGED brokerVars => BrokerType'
           /\ UNCHANGED worldVars => WorldType'
           /\ UNCHANGED faults => FaultType'
           /\ UNCHANGED lateVars => LateType'
<1>1. /\ UNCHANGED bookVars => BookType'
      /\ UNCHANGED idemVars => IdemType'
      /\ UNCHANGED clockVars => ClockType'
      /\ UNCHANGED flagVars => FlagType' /\ ErrorType'
      /\ UNCHANGED batchVars => BatchType'
  BY DEF TypeInv, TypeOK, bookVars, BookType, idemVars, IdemType, clockVars, ClockType,
         flagVars, FlagType, ErrorType, batchVars, BatchType
<1>2. /\ UNCHANGED pollVars /\ UNCHANGED brokerVars => PollType'
      /\ UNCHANGED cancels /\ UNCHANGED brokerVars => CancelType'
      /\ UNCHANGED brokerVars => BrokerType'
  BY DEF TypeInv, TypeOK, pollVars, PollType, brokerVars, CancelType, BrokerType
<1>3. /\ UNCHANGED dbVars => DbType'
      /\ UNCHANGED worldVars => WorldType'
      /\ UNCHANGED faults => FaultType'
      /\ UNCHANGED lateVars => LateType'
  BY DEF TypeInv, TypeOK, dbVars, DbType, worldVars, WorldType, FaultType, lateVars, LateType
<1> QED BY <1>1, <1>2, <1>3

\* The process moves to another place of the loop, and changes nothing else
\* that TypeInv reads.
LEMMA MoveType ==
    ASSUME TypeInv, UNCHANGED cfg, UNCHANGED errors, pc' \in PCs,
           errors < MaxErrors \/ pc' \in {"exit", "stop", "cancel"}
    PROVE  ControlType' /\ ErrorType' /\ ErrorsBelowMax'
BY DEF TypeInv, TypeOK, ControlType, ErrorType, ErrorsBelowMax

-----------------------------------------------------------------------------
(* One lemma per action, or per group of actions that write the same groups  *)
(* of variables.                                                             *)

LEMMA StartType ==
    ASSUME TypeInv, NEW once \in Modes, NEW adopt \in Adopts, Start(once, adopt)
    PROVE  TypeInv'
<1>1. ControlType'
  BY ConstantsAssumption DEF Start, ControlType, PCs
<1>2. ErrorsBelowMax'
  BY DEF Start, TypeInv, TypeOK, ErrorsBelowMax, flagVars
<1> QED BY <1>1, <1>2, Frames DEF Start, TypeInv, TypeOK

LEMMA RestoreBookType == ASSUME TypeInv, RestoreBook PROVE TypeInv'
<1>1. ControlType' /\ ErrorType' /\ ErrorsBelowMax'
  BY MoveType DEF RestoreBook, PCs, TypeInv, ErrorsBelowMax
<1>2. BookType'
  BY FlatType DEF RestoreBook, TypeInv, TypeOK, BookType, DbType
<1>3. StoredIds \in SUBSET Nat /\ PlacedKeys(session) \in SUBSET Keys
  BY DEF TypeInv, TypeOK, DbType, StoredIds, PlacedKeys, Rows
<1>4. IdemType'
  BY <1>3 DEF RestoreBook, TypeInv, TypeOK, IdemType, WorldType
<1>5. FlagType'
  BY DEF RestoreBook, TypeInv, TypeOK, FlagType
<1>6. FaultType'
  BY FaultsCounted DEF RestoreBook, TypeInv, TypeOK, FaultKinds
<1> QED BY <1>1, <1>2, <1>4, <1>5, <1>6, Frames DEF RestoreBook, TypeInv, TypeOK

LEMMA RefuseType ==
    ASSUME TypeInv, RefuseToTrade, UNCHANGED <<rows, saved, paused, brokerVars, worldVars>>
    PROVE  TypeInv'
<1>1. ProcType'
  BY ForgetType DEF RefuseToTrade
<1>2. FaultType' /\ DbType'
  BY RowType DEF RefuseToTrade, TypeInv, TypeOK, DbType
<1> QED BY <1>1, <1>2, Frames DEF ProcType, TypeInv, TypeOK

LEMMA ReadPositionsType == ASSUME TypeInv, ReadPositions PROVE TypeInv'
<1>1. CASE RefuseToTrade
  BY <1>1, RefuseType DEF ReadPositions
<1>2. CASE pc' = "orders" /\ remote' = pos
           /\ UNCHANGED <<cfg, book, idemVars, clockVars, pollVars, flagVars,
                          batchVars, cancels, row, faults, lateVars>>
  <2>1. ControlType' /\ ErrorType' /\ ErrorsBelowMax'
    BY <1>2, MoveType DEF ReadPositions, PCs, TypeInv, ErrorsBelowMax, flagVars
  <2>2. BookType' /\ DbType'
    BY <1>2 DEF ReadPositions, TypeInv, TypeOK, BookType, BrokerType, DbType
  <2> QED BY <1>2, <2>1, <2>2, Frames DEF ReadPositions, TypeInv, TypeOK
<1> QED BY <1>1, <1>2 DEF ReadPositions

LEMMA FinishReconcileType == ASSUME TypeInv, FinishReconcile PROVE TypeInv'
<1>1. CASE RefuseToTrade
  BY <1>1, RefuseType DEF FinishReconcile
<1>2. CASE /\ book' = remote /\ remote' = Flat /\ known' = {}
           /\ wm' = Len(log) /\ blocked' = FALSE /\ UpsertRow("running") /\ pc' = "idle"
           /\ UNCHANGED <<cfg, seenKeys, loaded, clockVars, raw, seenFills, pausedMem,
                          errors, batchVars, cancels, lateVars>>
  <2>1. ControlType' /\ ErrorType' /\ ErrorsBelowMax'
    BY <1>2, MoveType DEF FinishReconcile, PCs, TypeInv, ErrorsBelowMax
  <2>2. BookType' /\ IdemType'
    BY <1>2, FlatType DEF TypeInv, TypeOK, BookType, IdemType
  <2>3. log' = log /\ Len(log) \in Nat
    BY DEF FinishReconcile, TypeInv, TypeOK, BrokerType, brokerVars
  <2>4. PollType'
    BY <1>2, <2>3 DEF TypeInv, TypeOK, PollType
  <2>5. FlagType'
    BY <1>2 DEF TypeInv, TypeOK, FlagType
  <2>6. FaultType' /\ DbType'
    BY <1>2, RowType DEF FinishReconcile, TypeInv, TypeOK, DbType
  <2> QED BY <1>2, <2>1, <2>2, <2>4, <2>5, <2>6, Frames DEF FinishReconcile, TypeInv, TypeOK
<1> QED BY <1>1, <1>2 DEF FinishReconcile

LEMMA StepBeginType == ASSUME TypeInv, StepBegin PROVE TypeInv'
<1>1. pc' \in {"settle", "save", "poll"} /\ UNCHANGED <<cfg, errors>>
  BY DEF StepBegin, StepReturns
<1>2. ControlType' /\ ErrorType' /\ ErrorsBelowMax'
  BY <1>1, MoveType DEF StepBegin, PCs, TypeInv, ErrorsBelowMax
<1>3. ClockType'
  BY DEF StepBegin, TypeInv, TypeOK, ClockType, BrokerType, WorldType
<1>4. FlagType' /\ LateType'
  BY DEF StepBegin, TypeInv, TypeOK, FlagType, LateType
<1>5. FaultType' /\ DbType'
  BY RowType DEF StepBegin, TypeInv, TypeOK, DbType, FaultType
<1> QED BY <1>2, <1>3, <1>4, <1>5, Frames DEF StepBegin, TypeInv, TypeOK

LEMMA StepRaisesType == ASSUME TypeInv, StepRaises PROVE TypeInv'
<1>1. ControlType'
  BY DEF StepRaises, TypeInv, TypeOK, ControlType, PCs
<1>2. errors < MaxErrors
  BY DEF StepRaises, TypeInv, ErrorsBelowMax
<1>3. ErrorType' /\ ErrorsBelowMax'
  BY <1>2, Ranges DEF StepRaises, TypeInv, TypeOK, ErrorType, ErrorsBelowMax, CountError, GivesUp
<1>4. FlagType'
  BY DEF StepRaises, TypeInv, TypeOK, FlagType
<1> QED BY <1>1, <1>3, <1>4, Frames DEF StepRaises, TypeInv, TypeOK

LEMMA LogType ==
    ASSUME TypeInv
    PROVE  /\ Len(log) \in Nat
           /\ \A i \in DOMAIN log : i \in Nat /\ log[i] \in [t: Tickers, dq: Int]
<1> DEFINE Entries == [t: Tickers, dq: Int]
<1>1. log \in Seq(Entries)
  BY DEF TypeInv, TypeOK, BrokerType
<1> HIDE DEF Entries
<1>2. /\ Len(log) \in Nat
      /\ \A i \in DOMAIN log : i \in Nat /\ log[i] \in Entries
  BY <1>1
<1> QED BY <1>2 DEF Entries

\* PollFills and SettlePoll.
LEMMA FetchType ==
    ASSUME TypeInv, errors < MaxErrors, NEW at \in Nat, Fetch(at), pc' \in PCs
    PROVE  TypeInv'
<1>1. ControlType' /\ ErrorType' /\ ErrorsBelowMax'
  BY MoveType DEF Fetch, flagVars
<1>2. PollType' /\ ClockType'
  BY DEF Fetch, FreshFills, LandedSince, TypeInv, TypeOK, PollType, ClockType, brokerVars
<1>3. BookType' /\ IdemType' /\ FlagType' /\ BatchType' /\ CancelType' /\ DbType'
      /\ BrokerType' /\ WorldType' /\ FaultType' /\ LateType'
  BY Frames DEF Fetch
<1> QED BY <1>1, <1>2, <1>3 DEF TypeInv, TypeOK

LEMMA PollFillsType == ASSUME TypeInv, PollFills PROVE TypeInv'
BY FetchType DEF PollFills, PCs, TypeInv, TypeOK, ClockType, ErrorsBelowMax

LEMMA SettlePollType == ASSUME TypeInv, SettlePoll PROVE TypeInv'
<1>1. Len(log) \in Nat
  BY LogType
<1> QED BY <1>1, FetchType DEF SettlePoll, PCs, TypeInv, ErrorsBelowMax

LEMMA BookFillType == ASSUME TypeInv, BookFill PROVE TypeInv'
<1>1. PICK i \in raw :
        /\ raw' = raw \ {i}
        /\ seenFills' = seenFills \cup {i}
        /\ book' = [book EXCEPT ![log[i].t] = @ + log[i].dq]
  BY DEF BookFill
<1>2. i \in Nat /\ log[i] \in [t: Tickers, dq: Int]
  BY LogType DEF TypeInv, TypeOK, PollType
<1>3. PollType'
  BY <1>1, <1>2 DEF BookFill, TypeInv, TypeOK, PollType, brokerVars
<1>4. BookType'
  BY <1>1, <1>2 DEF BookFill, TypeInv, TypeOK, BookType, Books
<1>5. ControlType' /\ ErrorsBelowMax'
  BY DEF BookFill, TypeInv, TypeOK, ControlType, ErrorsBelowMax, flagVars
<1> QED BY <1>3, <1>4, <1>5, Frames DEF BookFill, TypeInv, TypeOK

LEMMA MarkBookType == ASSUME TypeInv, MarkBook PROVE TypeInv'
<1>1. pc' \in {"settle", "save", "pause"} /\ UNCHANGED <<cfg, errors>>
  BY DEF MarkBook, StepReturns
<1>2. ControlType' /\ ErrorType' /\ ErrorsBelowMax'
  BY <1>1, MoveType DEF MarkBook, PCs, TypeInv, ErrorsBelowMax
<1>3. FlagType'
  BY DEF MarkBook, TypeInv, TypeOK, FlagType
<1> QED BY <1>2, <1>3, Frames DEF MarkBook, TypeInv, TypeOK

LEMMA ReadPauseType == ASSUME TypeInv, ReadPause PROVE TypeInv'
<1>1. pc' \in {"settle", "save", "decide"} /\ UNCHANGED <<cfg, errors>>
  BY DEF ReadPause, StepReturns
<1>2. ControlType' /\ ErrorType' /\ ErrorsBelowMax'
  BY <1>1, MoveType DEF ReadPause, PCs, TypeInv, ErrorsBelowMax
<1>3. FlagType'
  BY DEF ReadPause, PauseFlag, TypeInv, TypeOK, FlagType, DbType
<1>4. FaultType'
  BY FaultsCounted DEF ReadPause, TypeInv, TypeOK, FaultKinds
<1> QED BY <1>2, <1>3, <1>4, Frames DEF ReadPause, TypeInv, TypeOK

LEMMA DecideType == ASSUME TypeInv, Decide PROVE TypeInv'
<1>1. ControlType' /\ ErrorType' /\ ErrorsBelowMax'
  BY MoveType DEF Decide, PCs, TypeInv, ErrorsBelowMax, flagVars
<1>2. BatchType'
  BY DEF Decide, TypeInv, TypeOK, BatchType
<1> QED BY <1>1, <1>2, Frames DEF Decide, TypeInv, TypeOK

LEMMA CheckBatchType == ASSUME TypeInv, CheckBatch PROVE TypeInv'
<1>1. ControlType' /\ ErrorType' /\ ErrorsBelowMax'
  BY MoveType DEF CheckBatch, PCs, TypeInv, ErrorsBelowMax
<1>2. PlacedKeys(today) \subseteq Keys
  BY DEF TypeInv, TypeOK, DbType, PlacedKeys, Rows
<1>3. IdemType'
  BY <1>2 DEF CheckBatch, TypeInv, TypeOK, IdemType, ClockType, idemVars
<1>4. FlagType' /\ BatchType' /\ LateType'
  BY DEF CheckBatch, TypeInv, TypeOK, FlagType, BatchType, WorldType, LateType
<1>5. FaultType'
  BY FaultsCounted DEF CheckBatch, TypeInv, TypeOK, FaultKinds, NoFault
<1> QED BY <1>1, <1>3, <1>4, <1>5, Frames DEF CheckBatch, TypeInv, TypeOK

\* What the three ways to take an order from the batch have in common.
LEMMA TakeOrderType ==
    ASSUME TypeInv, NEW o \in Orders, TakeOrder(o)
    PROVE  /\ ControlType' /\ BookType' /\ ClockType' /\ FlagType' /\ ErrorType'
           /\ ErrorsBelowMax' /\ DbType' /\ WorldType' /\ LateType'
           /\ known' \subseteq Nat /\ loaded' \subseteq 1..Sessions
           /\ batch' \subseteq Orders /\ killed' \in BOOLEAN
           /\ Key(o) \in Keys
<1>1. ControlType' /\ ErrorType' /\ ErrorsBelowMax'
  BY DEF TakeOrder, TypeInv, TypeOK, ControlType, ErrorType, ErrorsBelowMax, flagVars
<1>2. Key(o) \in Keys
  BY DEF Key, Keys, Orders, TypeInv, TypeOK, ClockType
<1>3. /\ known' \subseteq Nat /\ loaded' \subseteq 1..Sessions
      /\ batch' \subseteq Orders /\ killed' \in BOOLEAN
  BY DEF TakeOrder, TypeInv, TypeOK, IdemType, BatchType
<1> QED BY <1>1, <1>2, <1>3, Frames DEF TakeOrder

\* An order the account takes has a size: under the kill switch it is cut to a
\* holding that Reduces says is not zero.
LEMMA ClampedQty ==
    ASSUME TypeInv, NEW o \in Orders, MaySend(o)
    PROVE  Clamped(o).qty \in 1..MaxQty
<1>1. /\ o.t \in Tickers /\ o.buy \in BOOLEAN /\ o.qty \in 1..MaxQty
      /\ o = [t |-> o.t, buy |-> o.buy, qty |-> o.qty]
  BY DEF Orders
<1>2. book[o.t] \in Int
  BY <1>1 DEF TypeInv, TypeOK, BookType, Books
<1>3. CASE killed /\ Holding(o.t) < o.qty
  <2>1. Holding(o.t) \in 1..MaxQty
    BY <1>1, <1>2, <1>3, Ranges DEF MaySend, Reduces, Holding
  <2>2. Clamped(o).qty = Holding(o.t)
    BY <1>1, <1>3 DEF Clamped
  <2> QED BY <2>1, <2>2
<1>4. CASE ~(killed /\ Holding(o.t) < o.qty)
  BY <1>1, <1>4 DEF Clamped
<1> QED BY <1>3, <1>4

\* Sequences of orders: what appending one or replacing one does.
LEMMA OrdType ==
    ASSUME TypeInv
    PROVE  /\ ord \in Seq(BrokerOrders) /\ DOMAIN ord = 1..Len(ord) /\ Len(ord) \in Nat
           /\ \A b \in DOMAIN ord : ord[b] \in BrokerOrders
<1>1. ord \in Seq(BrokerOrders)
  BY DEF TypeInv, TypeOK, BrokerType
<1> QED BY <1>1

LEMMA AcceptType ==
    ASSUME TypeInv, NEW o \in Orders, MaySend(o), Key(o) \in Keys,
           NEW st \in {"open", "rejected"}, Accept(o, st),
           UNCHANGED <<pos, log>>
    PROVE  BrokerType' /\ DOMAIN ord \subseteq DOMAIN ord'
<1> DEFINE new == [key |-> Key(o), qty |-> Clamped(o).qty, filled |-> 0, st |-> st]
<1>1. new \in BrokerOrders
  BY ClampedQty, Ranges DEF BrokerOrders
<1>2. ord' = Append(ord, new)
  BY DEF Accept
<1> HIDE DEF new
<1>3. ord' \in Seq(BrokerOrders) /\ DOMAIN ord \subseteq DOMAIN ord'
  BY <1>1, <1>2, OrdType
<1> QED BY <1>3 DEF TypeInv, TypeOK, BrokerType

LEMMA SkipOrderType == ASSUME TypeInv, NEW o \in Orders, SkipOrder(o) PROVE TypeInv'
<1>1. IdemType' /\ BatchType'
  BY TakeOrderType DEF SkipOrder, TypeInv, TypeOK, IdemType, BatchType
<1>2. PollType' /\ CancelType' /\ BrokerType' /\ FaultType'
  BY Frames DEF SkipOrder, TakeOrder, brokerVars
<1> QED BY <1>1, <1>2, TakeOrderType DEF TypeInv, TypeOK, SkipOrder

LEMMA SendOrderType == ASSUME TypeInv, NEW o \in Orders, SendOrder(o) PROVE TypeInv'
<1>1. PICK b \in 1..(Len(ord) + 1), st \in {"open", "rejected", "closed"} :
        /\ \/ /\ b = Len(ord) + 1 /\ Accept(o, st)
              /\ st = "open" \/ (st = "rejected" /\ "reject" \in Faults)
           \/ /\ Duplicate(o) /\ b \in Placed(Key(o)) /\ st = ord[b].st
              /\ UNCHANGED ord
        /\ sent' = sent \cup {[bid |-> b, key |-> Key(o), rejected |-> st = "rejected"]}
  BY DEF SendOrder
<1>2. TakeOrder(o) /\ MaySend(o) /\ Key(o) \in Keys /\ UNCHANGED <<pos, log>>
  BY TakeOrderType DEF SendOrder, TakeOrder
<1>3. BrokerType' /\ DOMAIN ord \subseteq DOMAIN ord'
  <2>1. CASE Accept(o, st) /\ st \in {"open", "rejected"}
    BY <1>2, <2>1, AcceptType
  <2>2. CASE UNCHANGED ord
    BY <1>2, <2>2 DEF TypeInv, TypeOK, BrokerType
  <2> QED BY <1>1, <2>1, <2>2
<1>4. PollType' /\ CancelType'
  BY <1>2, <1>3 DEF TakeOrder, TypeInv, TypeOK, PollType, CancelType, pollVars
<1>5. sent' \subseteq Rows
  <2>1. b \in Nat
    BY OrdType
  <2>2. [bid |-> b, key |-> Key(o), rejected |-> st = "rejected"] \in Rows
    BY <1>2, <2>1 DEF Rows
  <2> QED BY <1>1, <2>2 DEF TypeInv, TypeOK, BatchType
<1>6. IdemType' /\ BatchType'
  BY <1>2, <1>5, TakeOrderType DEF SendOrder, TypeInv, TypeOK, IdemType, BatchType
<1>7. FaultType'
  BY FaultsCounted DEF SendOrder, TypeInv, TypeOK
<1> QED BY <1>2, <1>3, <1>4, <1>6, <1>7, TakeOrderType DEF TypeInv, TypeOK

LEMMA LoseReplyType == ASSUME TypeInv, NEW o \in Orders, LoseReply(o) PROVE TypeInv'
<1>1. TakeOrder(o) /\ MaySend(o) /\ Key(o) \in Keys /\ UNCHANGED <<pos, log>>
  BY TakeOrderType DEF LoseReply, TakeOrder
<1>2. BrokerType' /\ DOMAIN ord \subseteq DOMAIN ord'
  BY <1>1, AcceptType DEF LoseReply
<1>3. PollType' /\ CancelType'
  BY <1>1, <1>2 DEF TakeOrder, TypeInv, TypeOK, PollType, CancelType, pollVars
<1>4. IdemType' /\ BatchType'
  BY <1>1, TakeOrderType DEF LoseReply, TypeInv, TypeOK, IdemType, BatchType
<1>5. FaultType'
  BY FaultsCounted DEF LoseReply, TypeInv, TypeOK, FaultKinds
<1> QED BY <1>1, <1>2, <1>3, <1>4, <1>5, TakeOrderType DEF TypeInv, TypeOK

LEMMA EndBatchType == ASSUME TypeInv, EndBatch PROVE TypeInv'
<1>1. pc' \in {"settle", "save"} /\ UNCHANGED <<cfg, errors>>
  BY DEF EndBatch, StepReturns, flagVars
<1>2. ControlType' /\ ErrorType' /\ ErrorsBelowMax'
  BY <1>1, MoveType DEF EndBatch, PCs, TypeInv, ErrorsBelowMax
<1>3. BatchType' /\ DbType' /\ LateType'
  BY DEF EndBatch, TypeInv, TypeOK, BatchType, DbType, LateType
<1>4. FaultType'
  BY FaultsCounted DEF EndBatch, TypeInv, TypeOK, FaultKinds
<1> QED BY <1>2, <1>3, <1>4, Frames DEF EndBatch, TypeInv, TypeOK

LEMMA SaveBookType == ASSUME TypeInv, SaveBook PROVE TypeInv'
<1>1. ControlType' /\ ErrorType' /\ ErrorsBelowMax'
  BY Ranges DEF SaveBook, PCs, TypeInv, TypeOK, ControlType, ErrorType, ErrorsBelowMax
<1>2. DbType' /\ FlagType'
  BY DEF SaveBook, WriteBook, TypeInv, TypeOK, DbType, FlagType, BookType
<1>3. FaultType'
  BY FaultsCounted DEF SaveBook, WriteBook, TypeInv, TypeOK, FaultKinds
<1> QED BY <1>1, <1>2, <1>3, Frames DEF SaveBook, TypeInv, TypeOK

LEMMA SettleRoundType == ASSUME TypeInv, SettleRound PROVE TypeInv'
<1>1. ControlType' /\ ErrorType' /\ ErrorsBelowMax'
  BY MoveType DEF SettleRound, PCs, TypeInv, ErrorsBelowMax, flagVars
<1> QED BY <1>1, Frames DEF SettleRound, TypeInv, TypeOK

LEMMA SettleFailsType == ASSUME TypeInv, SettleFails PROVE TypeInv'
<1>1. CASE Forget
  <2>1. ProcType'
    BY <1>1, ForgetType
  <2> QED BY <2>1, Frames DEF SettleFails, ProcType, TypeInv, TypeOK
<1>2. CASE /\ pc' = "sync"
           /\ UNCHANGED <<cfg, bookVars, idemVars, clockVars, pollVars, flagVars,
                          batchVars, cancels, lateVars>>
  <2>1. ControlType' /\ ErrorType' /\ ErrorsBelowMax'
    BY <1>2, MoveType DEF SettleFails, PCs, TypeInv, ErrorsBelowMax, flagVars
  <2> QED BY <1>2, <2>1, Frames DEF SettleFails, TypeInv, TypeOK
<1> QED BY <1>1, <1>2 DEF SettleFails

LEMMA SyncBookType == ASSUME TypeInv, SyncBook PROVE TypeInv'
<1>1. ControlType' /\ ErrorType' /\ ErrorsBelowMax'
  BY MoveType DEF SyncBook, PCs, TypeInv, ErrorsBelowMax, flagVars
<1>2. BookType'
  BY DEF SyncBook, TypeInv, TypeOK, BookType, BrokerType
<1>3. DbType'
  BY <1>2 DEF SyncBook, WriteBook, TypeInv, TypeOK, DbType, BookType
<1>4. FaultType'
  BY FaultsCounted DEF SyncBook, WriteBook, TypeInv, TypeOK, FaultKinds
<1> QED BY <1>1, <1>2, <1>3, <1>4, Frames DEF SyncBook, TypeInv, TypeOK

\* ExitOnce and StopEnd.
LEMMA StoppedType ==
    ASSUME TypeInv, UpsertRow("stopped"), Forget,
           UNCHANGED <<rows, saved, paused, brokerVars, worldVars>>
    PROVE  TypeInv'
<1>1. ProcType'
  BY ForgetType
<1>2. DbType' /\ FaultType'
  BY RowType DEF TypeInv, TypeOK, DbType
<1> QED BY <1>1, <1>2, Frames DEF ProcType, TypeInv, TypeOK

LEMMA InterruptType == ASSUME TypeInv, Interrupt PROVE TypeInv'
<1>1. ControlType' /\ ErrorType' /\ ErrorsBelowMax'
  BY MoveType DEF Interrupt, PCs, flagVars
<1> QED BY <1>1, Frames DEF Interrupt, TypeInv, TypeOK

LEMMA StopBeginType == ASSUME TypeInv, StopBegin PROVE TypeInv'
<1>1. ControlType' /\ ErrorType' /\ ErrorsBelowMax'
  BY MoveType DEF StopBegin, PCs, flagVars
<1>2. CancelType'
  BY DEF StopBegin, TypeInv, TypeOK, CancelType, OpenOrders, brokerVars
<1> QED BY <1>1, <1>2, Frames DEF StopBegin, TypeInv, TypeOK

-----------------------------------------------------------------------------
(* The account *)

\* An open order keeps its key and size while it fills or ends, and the log
\* only grows.
LEMMA FilledType ==
    ASSUME TypeInv, NEW b \in DOMAIN ord, NEW n \in 0..MaxQty,
           NEW st \in {"open", "closed"},
           ord' = [ord EXCEPT ![b].st = st, ![b].filled = n]
    PROVE  ord' \in Seq(BrokerOrders) /\ DOMAIN ord' = DOMAIN ord
<1>1. ord[b] \in BrokerOrders
  BY OrdType
<1> DEFINE new == [ord[b] EXCEPT !.st = st, !.filled = n]
<1>2. new \in BrokerOrders
  BY <1>1 DEF BrokerOrders
<1>3. ord' = [ord EXCEPT ![b] = new]
  BY OrdType, <1>1 DEF BrokerOrders
<1> HIDE DEF new
<1>4. [ord EXCEPT ![b] = new] \in Seq(BrokerOrders)
  BY <1>2, OrdType, ExceptSeq
<1>5. DOMAIN ord' = DOMAIN ord
  BY <1>3, OrdType
<1> QED BY <1>3, <1>4, <1>5

LEMMA CloseType ==
    ASSUME TypeInv, NEW b \in DOMAIN ord, NEW n \in 0..MaxQty, Close(b, n)
    PROVE  /\ ord' \in Seq(BrokerOrders) /\ DOMAIN ord' = DOMAIN ord
           /\ log' \in Seq([t: Tickers, dq: Int]) /\ DOMAIN log \subseteq DOMAIN log'
<1>1. ord' \in Seq(BrokerOrders) /\ DOMAIN ord' = DOMAIN ord
  BY FilledType DEF Close
<1>2. ord[b] \in BrokerOrders /\ log \in Seq([t: Tickers, dq: Int])
  BY OrdType DEF TypeInv, TypeOK, BrokerType
<1>3. [t |-> ord[b].key.t, dq |-> Signed(ord[b].key.buy, n)] \in [t: Tickers, dq: Int]
  BY <1>2 DEF BrokerOrders, Keys, Signed
<1>4. CASE n = 0
  BY <1>1, <1>2, <1>4 DEF Close
<1>5. CASE n # 0
  <2> DEFINE Entries == [t: Tickers, dq: Int]
             new == [t |-> ord[b].key.t, dq |-> Signed(ord[b].key.buy, n)]
  <2>1. log' = Append(log, new)
    BY <1>5 DEF Close
  <2>2. new \in Entries /\ log \in Seq(Entries)
    BY <1>2, <1>3
  <2> HIDE DEF new, Entries
  <2>3. log' \in Seq(Entries) /\ DOMAIN log \subseteq DOMAIN log'
    BY <2>1, <2>2
  <2> QED BY <1>1, <2>3 DEF Entries
<1> QED BY <1>4, <1>5

\* What the account does by itself leaves the process alone.
LEMMA ProcFrame ==
    ASSUME TypeInv, UNCHANGED procVars, UNCHANGED lateVars,
           DOMAIN ord \subseteq DOMAIN ord', DOMAIN log \subseteq DOMAIN log'
    PROVE  ProcType'
<1>1. ControlType' /\ ErrorsBelowMax'
  BY DEF procVars, flagVars, TypeInv, TypeOK, ControlType, ErrorsBelowMax
<1>2. PollType' /\ CancelType'
  BY DEF procVars, pollVars, TypeInv, TypeOK, PollType, CancelType
<1>3. BookType' /\ IdemType' /\ ClockType' /\ FlagType' /\ ErrorType' /\ BatchType' /\ LateType'
  BY Frames DEF procVars
<1> QED BY <1>1, <1>2, <1>3 DEF ProcType

LEMMA CancelOrderType == ASSUME TypeInv, CancelOrder PROVE TypeInv'
<1>1. PICK b \in cancels :
         /\ cancels' = cancels \ {b}
         /\ IF ord[b].st = "open"
            THEN Close(b, ord[b].filled) \/ ("outage" \in Faults /\ UNCHANGED <<ord, log>>)
            ELSE UNCHANGED <<ord, log>>
  BY DEF CancelOrder
<1>2. b \in DOMAIN ord /\ ord[b].filled \in 0..MaxQty
  BY OrdType DEF TypeInv, TypeOK, CancelType, BrokerOrders
<1>3. /\ ord' \in Seq(BrokerOrders) /\ DOMAIN ord' = DOMAIN ord
      /\ log' \in Seq([t: Tickers, dq: Int]) /\ DOMAIN log \subseteq DOMAIN log'
  <2>1. CASE Close(b, ord[b].filled)
    BY <1>2, <2>1, CloseType
  <2>2. CASE UNCHANGED <<ord, log>>
    BY <2>2 DEF TypeInv, TypeOK, BrokerType
  <2> QED BY <1>1, <2>1, <2>2
<1>4. BrokerType' /\ PollType' /\ CancelType'
  BY <1>1, <1>3 DEF CancelOrder, TypeInv, TypeOK, BrokerType, PollType, CancelType, pollVars
<1>5. ControlType' /\ ErrorsBelowMax'
  BY DEF CancelOrder, TypeInv, TypeOK, ControlType, ErrorsBelowMax, flagVars
<1> QED BY <1>4, <1>5, Frames DEF CancelOrder, TypeInv, TypeOK

LEMMA FillType == ASSUME TypeInv, NEW b \in DOMAIN ord, Fill(b) PROVE TypeInv'
<1> DEFINE k == ord[b].key
<1>1. PICK n \in (ord[b].filled + 1)..ord[b].qty :
         /\ IF n = ord[b].qty THEN Close(b, n)
            ELSE /\ "partial" \in Faults
                 /\ ord' = [ord EXCEPT ![b].filled = n] /\ UNCHANGED log
         /\ pos' = [pos EXCEPT ![k.t] = @ + Signed(k.buy, n - ord[b].filled)]
  BY DEF Fill
<1>2. /\ ord[b] \in BrokerOrders
      /\ k.t \in Tickers /\ k.buy \in BOOLEAN /\ ord[b].filled \in Int /\ n \in 0..MaxQty
  <2>1. ord[b] \in BrokerOrders
    BY OrdType
  <2>2. /\ k \in Keys /\ ord[b].filled \in 0..MaxQty /\ ord[b].qty \in 1..MaxQty
    BY <2>1 DEF BrokerOrders
  <2>3. n \in 0..MaxQty
    BY <2>2, Ranges
  <2> QED BY <2>1, <2>2, <2>3, Ranges DEF Keys
<1>3. pos' \in Books
  BY <1>1, <1>2 DEF TypeInv, TypeOK, BrokerType, Books, Signed
<1>4. /\ ord' \in Seq(BrokerOrders) /\ DOMAIN ord' = DOMAIN ord
      /\ log' \in Seq([t: Tickers, dq: Int]) /\ DOMAIN log \subseteq DOMAIN log'
  <2>1. CASE Close(b, n)
    BY <1>2, <2>1, CloseType
  <2>2. CASE ord' = [ord EXCEPT ![b].filled = n] /\ UNCHANGED log
    <3>1. [ord[b] EXCEPT !.filled = n] \in BrokerOrders
      BY <1>2 DEF BrokerOrders
    <3>2. ord' = [ord EXCEPT ![b] = [ord[b] EXCEPT !.filled = n]]
      BY <2>2
    <3>3. ord' \in Seq(BrokerOrders) /\ DOMAIN ord' = DOMAIN ord
      BY <3>1, <3>2, OrdType
    <3> QED BY <2>2, <3>3 DEF TypeInv, TypeOK, BrokerType
  <2> QED BY <1>1, <2>1, <2>2
<1>5. ProcType' /\ BrokerType'
  BY <1>3, <1>4, ProcFrame DEF Fill, BrokerType
<1> QED BY <1>5, Frames DEF Fill, ProcType, TypeInv, TypeOK

LEMMA ExpireType == ASSUME TypeInv, NEW b \in DOMAIN ord, Expire(b) PROVE TypeInv'
<1>1. ord[b].filled \in 0..MaxQty
  BY OrdType DEF BrokerOrders
<1>2. ProcType' /\ BrokerType'
  BY <1>1, CloseType, ProcFrame DEF Expire, TypeInv, TypeOK, BrokerType
<1> QED BY <1>2, Frames DEF Expire, ProcType, TypeInv, TypeOK

LEMMA OtherTradeType ==
    ASSUME TypeInv, NEW t \in Tickers, NEW buy \in BOOLEAN, OtherTrade(t, buy)
    PROVE  TypeInv'
<1> DEFINE Entries == [t: Tickers, dq: Int]
           new == [t |-> t, dq |-> Signed(buy, 1)]
<1>1. new \in Entries /\ log \in Seq(Entries) /\ log' = Append(log, new)
  BY DEF OtherTrade, Signed, TypeInv, TypeOK, BrokerType
<1> HIDE DEF new, Entries
<1>2. log' \in Seq(Entries) /\ DOMAIN log \subseteq DOMAIN log'
  BY <1>1
<1>3. pos' \in Books
  BY DEF OtherTrade, Signed, TypeInv, TypeOK, BrokerType, Books
<1>4. BrokerType' /\ ProcType'
  BY <1>2, <1>3, ProcFrame DEF OtherTrade, TypeInv, TypeOK, BrokerType, Entries
<1> QED BY <1>4, Frames DEF OtherTrade, ProcType, TypeInv, TypeOK

\* FlipKill, FlipPause and NextSession.
LEMMA WorldStepType ==
    ASSUME TypeInv, FlipKill \/ FlipPause \/ NextSession
    PROVE  TypeInv'
<1>1. LateType'
  BY DEF FlipKill, FlipPause, NextSession, TypeInv, TypeOK, LateType, WorldType, DbType, lateVars
<1>2. WorldType'
  <2>1. session' \in 1..Sessions
    BY Ranges DEF FlipKill, FlipPause, NextSession, TypeInv, TypeOK, WorldType, worldVars
  <2>2. kill' \in BOOLEAN
    BY DEF FlipKill, FlipPause, NextSession, TypeInv, TypeOK, WorldType, worldVars
  <2> QED BY <2>1, <2>2 DEF WorldType
<1>3. DbType'
  BY DEF FlipKill, FlipPause, NextSession, TypeInv, TypeOK, DbType, dbVars
<1>4. ControlType' /\ ErrorsBelowMax'
  BY DEF FlipKill, FlipPause, NextSession, procVars, flagVars,
         TypeInv, TypeOK, ControlType, ErrorsBelowMax
<1>5. UNCHANGED <<procVars, brokerVars, faults>>
  BY DEF FlipKill, FlipPause, NextSession
<1> QED BY <1>1, <1>2, <1>3, <1>4, <1>5, Frames DEF procVars, TypeInv, TypeOK

LEMMA CrashType == ASSUME TypeInv, Crash PROVE TypeInv'
<1>1. ProcType'
  BY ForgetType DEF Crash
<1>2. FaultType'
  BY FaultsCounted DEF Crash, TypeInv, TypeOK, FaultKinds
<1> QED BY <1>1, <1>2, Frames DEF Crash, ProcType, TypeInv, TypeOK

-----------------------------------------------------------------------------

LEMMA NextType == TypeInv /\ [Next]_vars => TypeInv'
<1> SUFFICES ASSUME TypeInv, [Next]_vars PROVE TypeInv'
  OBVIOUS
<1>1. CASE Startup
  BY <1>1, RestoreBookType, ReadPositionsType, FinishReconcileType DEF Startup
<1>2. CASE Step
  BY <1>2, StepBeginType, StepRaisesType, PollFillsType, BookFillType, MarkBookType,
     ReadPauseType, DecideType, CheckBatchType, EndBatchType, SaveBookType DEF Step
<1>3. CASE Send
  BY <1>3, SkipOrderType, SendOrderType, LoseReplyType DEF Send
<1>4. CASE WayOut
  BY <1>4, SettlePollType, SettleRoundType, SettleFailsType, SyncBookType, StoppedType,
     StopBeginType, CancelOrderType DEF WayOut, ExitOnce, StopEnd
<1>5. CASE World
  BY <1>5, StartType, InterruptType, WorldStepType, CrashType, FillType, ExpireType,
     OtherTradeType DEF World
<1>6. CASE UNCHANGED vars
  <2>1. ControlType' /\ ErrorsBelowMax'
    BY <1>6 DEF vars, procVars, flagVars, TypeInv, TypeOK, ControlType, ErrorsBelowMax
  <2> QED BY <1>6, <2>1, Frames DEF vars, procVars, TypeInv, TypeOK
<1> QED BY <1>1, <1>2, <1>3, <1>4, <1>5, <1>6 DEF Next, Runner

(* Type correctness, for every value of the constants: in particular raw and  *)
(* cancels always name orders that exist, an order cut down by the kill       *)
(* switch still has a size, and the error count stays within                  *)
(* max_consecutive_errors.                                                    *)
THEOREM TypeCorrect == Spec => []TypeOK
<1>1. TypeInv => TypeOK
  BY DEF TypeInv
<1> QED BY <1>1, InitType, NextType, PTL DEF Spec

\* The inductive invariant itself, for the theorems that rest on it.
THEOREM TypeInvariant == Spec => []TypeInv
BY InitType, NextType, PTL DEF Spec


-----------------------------------------------------------------------------
(* How the orders of the account change *)

\* A new order comes from submit_orders, for an order of the batch that its
\* checks let through.
Sends == \E o \in batch : /\ pc = "send" /\ TakeOrder(o) /\ MaySend(o)
                          /\ \E st \in {"open", "rejected"} : Accept(o, st)

\* Otherwise the orders stay the ones they were, and at most one of them ends.
KeysStay == DOMAIN ord' = DOMAIN ord /\ Len(ord') = Len(ord)
            /\ \A b \in DOMAIN ord : ord'[b].key = ord[b].key
EndsOne == KeysStay /\ \E b \in OpenOrders :
             /\ ord'[b].st = "closed"
             /\ \A a \in DOMAIN ord \ {b} : ord'[a].st = ord[a].st
EndsNone == KeysStay /\ \A b \in DOMAIN ord : ord'[b].st = ord[b].st
KeepsOrders == EndsOne \/ EndsNone

LEMMA CloseKeeps ==
    ASSUME TypeInv, NEW b \in OpenOrders, NEW n \in 0..MaxQty, Close(b, n)
    PROVE  EndsOne
<1>1. ord \in Seq(BrokerOrders) /\ ord[b] \in BrokerOrders /\ b \in DOMAIN ord
  BY OrdType DEF OpenOrders
<1> DEFINE new == [ord[b] EXCEPT !.st = "closed", !.filled = n]
<1>2. new.key = ord[b].key /\ new.st = "closed" /\ new \in BrokerOrders
  BY <1>1 DEF BrokerOrders
<1>3. ord' = [ord EXCEPT ![b] = new]
  BY <1>1 DEF Close, BrokerOrders
<1> HIDE DEF new
<1>4. Len(ord') = Len(ord) /\ DOMAIN ord' = DOMAIN ord
  BY <1>1, <1>2, <1>3, ExceptSeq
<1> QED BY <1>1, <1>2, <1>3, <1>4 DEF EndsOne, KeysStay

LEMMA FillKeeps == ASSUME TypeInv, NEW b \in DOMAIN ord, Fill(b) PROVE KeepsOrders
<1>1. PICK n \in (ord[b].filled + 1)..ord[b].qty :
         IF n = ord[b].qty THEN Close(b, n)
         ELSE ord' = [ord EXCEPT ![b].filled = n]
  BY DEF Fill
<1>2. ord \in Seq(BrokerOrders) /\ ord[b] \in BrokerOrders /\ b \in OpenOrders
  BY OrdType DEF Fill
<1>3. CASE Close(b, n)
  <2>1. ord[b].filled \in 0..MaxQty /\ ord[b].qty \in 1..MaxQty
    BY <1>2 DEF BrokerOrders
  <2>2. n \in 0..MaxQty
    BY <2>1, Ranges
  <2> QED BY <1>2, <1>3, <2>2, CloseKeeps DEF KeepsOrders
<1>4. CASE ord' = [ord EXCEPT ![b].filled = n]
  <2> DEFINE new == [ord[b] EXCEPT !.filled = n]
  <2>1. new.key = ord[b].key /\ new.st = ord[b].st
    BY <1>2 DEF BrokerOrders
  <2>2. ord' = [ord EXCEPT ![b] = new]
    BY <1>2, <1>4 DEF BrokerOrders
  <2> HIDE DEF new
  <2>3. DOMAIN ord' = DOMAIN ord /\ Len(ord') = Len(ord)
    BY <1>2, <2>2
  <2> QED BY <2>1, <2>2, <2>3 DEF KeepsOrders, EndsNone, KeysStay
<1> QED BY <1>1, <1>3, <1>4

LEMMA OrdCases ==
    ASSUME TypeInv, [Next]_vars
    PROVE  (\E o \in Orders : SendOrder(o) \/ LoseReply(o)) \/ KeepsOrders
<1>1. CASE UNCHANGED ord
  BY <1>1 DEF KeepsOrders, EndsNone, KeysStay
<1>2. CASE \E o \in Orders : SendOrder(o) \/ LoseReply(o)
  BY <1>2
<1>3. CASE CancelOrder
  <2>1. PICK b \in cancels :
           (ord[b].st = "open" /\ Close(b, ord[b].filled)) \/ UNCHANGED ord
    BY <1>3 DEF CancelOrder
  <2>2. b \in DOMAIN ord /\ ord[b].filled \in 0..MaxQty
    BY OrdType DEF TypeInv, TypeOK, CancelType, BrokerOrders
  <2> QED BY <1>1, <2>1, <2>2, CloseKeeps DEF OpenOrders, KeepsOrders
<1>4. CASE \E b \in DOMAIN ord : Fill(b) \/ Expire(b)
  <2>1. PICK b \in DOMAIN ord : Fill(b) \/ (b \in OpenOrders /\ Close(b, ord[b].filled))
    BY <1>4 DEF Expire
  <2>2. ord[b].filled \in 0..MaxQty
    BY OrdType DEF BrokerOrders
  <2> QED BY <2>1, <2>2, FillKeeps, CloseKeeps DEF KeepsOrders
<1>5. CASE Startup \/ Step
  BY <1>1, <1>5 DEF Startup, Step, RestoreBook, ReadPositions, FinishReconcile, StepBegin,
     StepRaises, PollFills, Fetch, BookFill, MarkBook, ReadPause, Decide, CheckBatch, EndBatch,
     SaveBook, brokerVars
<1>6. CASE \E o \in Orders : SkipOrder(o)
  BY <1>1, <1>6 DEF SkipOrder
<1>7. CASE SettlePoll \/ SettleRound \/ SettleFails \/ SyncBook \/ ExitOnce \/ StopBegin \/ StopEnd
  BY <1>1, <1>7 DEF SettlePoll, Fetch, SettleRound, SettleFails, SyncBook, ExitOnce,
     StopBegin, StopEnd, brokerVars
<1>8. CASE \/ \E once \in Modes, adopt \in Adopts : Start(once, adopt)
           \/ Interrupt \/ FlipKill \/ FlipPause \/ NextSession \/ Crash
           \/ \E t \in Tickers, buy \in BOOLEAN : OtherTrade(t, buy)
  BY <1>1, <1>8 DEF Start, Interrupt, FlipKill, FlipPause, NextSession, Crash, OtherTrade,
     brokerVars
<1>9. CASE UNCHANGED vars
  BY <1>1, <1>9 DEF vars, brokerVars
<1> QED BY <1>2, <1>3, <1>4, <1>5, <1>6, <1>7, <1>8, <1>9
        DEF Next, Runner, Send, WayOut, World

LEMMA OrdStep == ASSUME TypeInv, [Next]_vars PROVE Sends \/ KeepsOrders
<1>1. CASE \E o \in Orders : SendOrder(o) \/ LoseReply(o)
  BY <1>1 DEF Sends, SendOrder, LoseReply, TakeOrder, KeepsOrders, EndsNone, KeysStay
<1> QED BY <1>1, OrdCases

\* The order a step adds, if it adds one.
LEMMA NewOrder ==
    ASSUME TypeInv, NEW o \in batch, NEW st, Accept(o, st)
    PROVE  /\ Len(ord') = Len(ord) + 1 /\ DOMAIN ord' = 1..(Len(ord) + 1)
           /\ ord'[Len(ord')].key = Key(o)
           /\ ord'[Len(ord')].qty = Clamped(o).qty /\ ord'[Len(ord')].st = st
           /\ \A b \in DOMAIN ord : ord'[b] = ord[b]
<1> DEFINE new == [key |-> Key(o), qty |-> Clamped(o).qty, filled |-> 0, st |-> st]
<1>1. ord' = Append(ord, new)
  BY DEF Accept
<1> HIDE DEF new
<1>2. /\ Len(ord') = Len(ord) + 1 /\ DOMAIN ord' = 1..(Len(ord) + 1)
      /\ ord'[Len(ord')] = new
      /\ \A b \in DOMAIN ord : ord'[b] = ord[b]
  BY <1>1, OrdType
<1>3. new.key = Key(o) /\ new.qty = Clamped(o).qty /\ new.st = st
  BY DEF new
<1> QED BY <1>2, <1>3

LEMMA OnlySendsAdd ==
    ASSUME TypeInv, [Next]_vars, Len(ord') > Len(ord)
    PROVE  Sends
BY OrdStep, OrdType DEF KeepsOrders, EndsOne, EndsNone, KeysStay

-----------------------------------------------------------------------------
(* One order per decision *)

LEMMA OnePerKeyStep ==
    ASSUME DedupBroker, TypeInv, OnePerKey, [Next]_vars
    PROVE  OnePerKey'
<1>1. CASE KeepsOrders
  BY <1>1 DEF KeepsOrders, EndsOne, EndsNone, KeysStay, OnePerKey
<1>2. CASE Sends
  <2>1. PICK o \in batch, st \in {"open", "rejected"} : Accept(o, st)
    BY <1>2 DEF Sends
  <2>2. \A b \in DOMAIN ord : ord[b].key # Key(o)
    <3>1. Placed(Key(o)) = {}
      BY <2>1, Zenon DEF Accept, Duplicate
    <3> QED BY <3>1 DEF Placed
  <2>3. /\ Len(ord') = Len(ord) + 1 /\ DOMAIN ord' = 1..(Len(ord) + 1)
        /\ ord'[Len(ord')].key = Key(o)
        /\ \A b \in DOMAIN ord : ord'[b] = ord[b]
    BY <2>1, NewOrder
  <2>4. DOMAIN ord' = DOMAIN ord \cup {Len(ord')}
    BY <2>3, OrdType
  <2> QED BY <2>2, <2>3, <2>4 DEF OnePerKey
<1> QED BY <1>1, <1>2, OrdStep

(* submit_orders with client_order_id: with a broker that refuses an id it    *)
(* has seen, no crash, lost reply, failed write or restart gives one decision *)
(* (session, ticker, side) two orders at the account.                         *)
THEOREM OneOrderPerDecision == DedupBroker => (Spec => []OnePerKey)
<1> SUFFICES ASSUME DedupBroker PROVE Spec => []OnePerKey
  OBVIOUS
<1>1. Init => OnePerKey
  BY DEF Init, OnePerKey
<1>2. TypeInv /\ OnePerKey /\ [Next]_vars => OnePerKey'
  BY OnePerKeyStep
<1> QED BY <1>1, <1>2, TypeInvariant, PTL DEF Spec

(* The abstract specification: with such a broker the runner, its table and   *)
(* the account implement Decisions, step by step.  Each decision is placed or *)
(* refused once over all processes, and what has ended is not reopened.       *)
THEOREM ImplementsDecisions == DedupBroker => (Spec => DecidesOnce)
<1> SUFFICES ASSUME DedupBroker PROVE Spec => DecidesOnce
  OBVIOUS
<1> DEFINE fates == [k \in Keys |-> FateOf(k)]
<1>1. Init => Fates!Init
  BY DEF Init, Fates!Init, FateOf, Placed
<1>2. ASSUME TypeInv, OnePerKey, [Next]_vars
      PROVE  Fates!Next \/ UNCHANGED fates
  <2>1. CASE EndsNone
    <3>1. \A k \in Keys : FateOf(k)' = FateOf(k)
      BY <2>1 DEF EndsNone, KeysStay, FateOf, Placed
    <3> QED BY <3>1
  <2>2. CASE EndsOne
    <3>1. PICK b \in OpenOrders : /\ ord'[b].st = "closed"
                                  /\ \A a \in DOMAIN ord \ {b} : ord'[a].st = ord[a].st
      BY <2>2 DEF EndsOne
    <3>2. KeysStay /\ b \in DOMAIN ord /\ ord[b].st = "open"
      BY <2>2 DEF EndsOne, OpenOrders
    <3>3. PICK d \in Keys : d = ord[b].key
      BY <1>2, <3>2, OrdType DEF BrokerOrders
    <3>4. Placed(d) = {b} /\ Placed(d)' = {b}
      BY <1>2, <3>2, <3>3 DEF Placed, KeysStay, OnePerKey
    <3>5. FateOf(d) = "working" /\ FateOf(d)' = "over"
      BY <3>1, <3>2, <3>4 DEF FateOf
    <3>6. \A k \in Keys \ {d} : FateOf(k)' = FateOf(k)
      <4>1. TAKE k \in Keys \ {d}
      <4>2. Placed(k)' = Placed(k) /\ b \notin Placed(k)
        BY <3>2, <3>3 DEF Placed, KeysStay
      <4>3. \A a \in Placed(k) : ord'[a].st = ord[a].st
        BY <3>1, <4>2 DEF Placed
      <4> QED BY <4>2, <4>3 DEF FateOf
    <3>7. fates' = [fates EXCEPT ![d] = "over"]
      BY <3>3, <3>5, <3>6
    <3> QED BY <3>3, <3>5, <3>7 DEF Fates!Next, Fates!End
  <2>3. CASE Sends
    <3>1. PICK o \in batch, st \in {"open", "rejected"} : Accept(o, st)
      BY <2>3 DEF Sends
    <3>2. PICK d \in Keys : d = Key(o)
      BY <1>2 DEF Key, Keys, Orders, TypeInv, TypeOK, ClockType, BatchType
    <3>3. PICK new \in Nat : new = Len(ord) + 1
      BY <1>2, OrdType
    <3>4. /\ DOMAIN ord' = DOMAIN ord \cup {new} /\ new \notin DOMAIN ord
          /\ ord'[new].key = d /\ ord'[new].st = st
          /\ \A b \in DOMAIN ord : ord'[b] = ord[b]
      <4>1. /\ DOMAIN ord' = 1..(Len(ord) + 1) /\ Len(ord') = Len(ord) + 1
            /\ ord'[Len(ord')].key = d /\ ord'[Len(ord')].st = st
            /\ \A b \in DOMAIN ord : ord'[b] = ord[b]
        BY <1>2, <3>1, <3>2, NewOrder
      <4> QED BY <1>2, <3>3, <4>1, OrdType
    <3>5. Placed(d) = {} /\ Placed(d)' = {new}
      <4>1. Placed(d) = {}
        BY <3>1, <3>2, Zenon DEF Accept, Duplicate
      <4> QED BY <3>4, <4>1 DEF Placed
    <3>6. FateOf(d) = "none" /\ FateOf(d)' = IF st = "open" THEN "working" ELSE "over"
      BY <3>4, <3>5 DEF FateOf
    <3>7. \A k \in Keys \ {d} : FateOf(k)' = FateOf(k)
      <4>1. TAKE k \in Keys \ {d}
      <4>2. Placed(k)' = Placed(k)
        BY <3>4 DEF Placed
      <4>3. \A a \in Placed(k) : ord'[a].st = ord[a].st
        BY <3>4 DEF Placed
      <4> QED BY <4>2, <4>3 DEF FateOf
    <3>8. fates' = [fates EXCEPT ![d] = IF st = "open" THEN "working" ELSE "over"]
      BY <3>6, <3>7
    <3> QED BY <3>6, <3>8 DEF Fates!Next, Fates!Place, Fates!Refuse
  <2> QED BY <1>2, <2>1, <2>2, <2>3, OrdStep DEF KeepsOrders
<1>3. TypeInv /\ OnePerKey /\ [Next]_vars => [Fates!Next]_fates
  BY <1>2
<1>4. Spec => []OnePerKey
  BY OneOrderPerDecision
<1> QED BY <1>1, <1>3, <1>4, TypeInvariant, PTL DEF Spec, DecidesOnce, Fates!Spec

-----------------------------------------------------------------------------
(* The kill switch *)

\* What the batch read of the switch is still true, unless it was engaged since.
KillRead == pc = "send" /\ kill /\ ~lateKill => killed

LEMMA KillReadStep == ASSUME TypeInv, KillRead, [Next]_vars PROVE KillRead'
<1>1. CASE CheckBatch
  BY <1>1 DEF CheckBatch, KillRead, worldVars
<1>2. CASE FlipKill
  BY <1>2 DEF FlipKill, KillRead, procVars, batchVars
<1>3. CASE \E o \in Orders : TakeOrder(o)
  BY <1>3 DEF TakeOrder, KillRead, worldVars, lateVars
<1>4. CASE pc' # "send"
  BY <1>4 DEF KillRead
<1>5. CASE UNCHANGED <<pc, killed, kill, lateKill>>
  BY <1>5 DEF KillRead
<1> QED
  <2>1. CASE Startup \/ Step
    BY <2>1, <1>1, <1>4 DEF Startup, Step, RestoreBook, ReadPositions, FinishReconcile,
       RefuseToTrade, Forget, StepBegin, StepRaises, StepReturns, PollFills, BookFill, MarkBook,
       ReadPause, Decide, EndBatch, SaveBook
  <2>2. CASE Send
    BY <2>2, <1>3 DEF Send, SkipOrder, SendOrder, LoseReply
  <2>3. CASE WayOut
    BY <2>3, <1>4 DEF WayOut, SettlePoll, SettleRound, SettleFails, Forget, SyncBook, ExitOnce,
       StopBegin, CancelOrder, StopEnd
  <2>4. CASE World
    BY <2>4, <1>2, <1>4, <1>5 DEF World, Start, Interrupt, FlipPause, NextSession, Crash, Forget,
       Fill, Expire, OtherTrade, procVars, batchVars, worldVars, lateVars
  <2>5. CASE UNCHANGED vars
    BY <2>5, <1>5 DEF vars, procVars, batchVars, worldVars, lateVars
  <2> QED BY <2>1, <2>2, <2>3, <2>4, <2>5 DEF Next, Runner

(* submit_orders: a kill switch engaged before the batch was checked, however *)
(* late after the gate saw it clear, lets only orders through that shrink the *)
(* position in the book and do not turn it over -- whatever fails around it.  *)
THEOREM KillSwitchStopsEntries == Spec => KillStopsEntries
<1> DEFINE Shrinks == LET o == ord'[Len(ord')] IN
                        IF o.key.buy
                        THEN book[o.key.t] < 0 /\ book[o.key.t] + o.qty <= 0
                        ELSE book[o.key.t] > 0 /\ book[o.key.t] - o.qty >= 0
<1>1. ASSUME TypeInv, KillRead, [Next]_vars, Len(ord') > Len(ord), kill, ~lateKill
      PROVE  Shrinks
  <2>1. PICK o \in batch, st \in {"open", "rejected"} :
           pc = "send" /\ MaySend(o) /\ Accept(o, st)
    BY <1>1, OnlySendsAdd DEF Sends
  <2>2. Reduces(o) /\ killed
    BY <1>1, <2>1 DEF KillRead, MaySend
  <2>3. /\ ord'[Len(ord')].key = Key(o) /\ ord'[Len(ord')].qty = Clamped(o).qty
    BY <1>1, <2>1, NewOrder
  <2>4. /\ o.t \in Tickers /\ o.buy \in BOOLEAN /\ o.qty \in 1..MaxQty
        /\ o = [t |-> o.t, buy |-> o.buy, qty |-> o.qty]
    BY <1>1 DEF TypeInv, TypeOK, BatchType, Orders
  <2>5. book[o.t] \in Int
    BY <1>1, <2>4 DEF TypeInv, TypeOK, BookType, Books
  <2>6. Clamped(o).qty = IF Holding(o.t) < o.qty THEN Holding(o.t) ELSE o.qty
    BY <2>2, <2>4 DEF Clamped
  <2>7. IF o.buy THEN book[o.t] < 0 /\ book[o.t] + Clamped(o).qty <= 0
                 ELSE book[o.t] > 0 /\ book[o.t] - Clamped(o).qty >= 0
    BY <2>2, <2>4, <2>5, <2>6, Ranges DEF Reduces, Holding
  <2> QED BY <2>3, <2>7 DEF Key
<1>2. TypeInv /\ KillRead /\ [Next]_vars
        => (Len(ord') > Len(ord) /\ kill /\ ~lateKill => Shrinks)
  BY <1>1
<1>3. Init => KillRead
  BY DEF Init, KillRead
<1>4. TypeInv /\ KillRead /\ [Next]_vars => KillRead'
  BY KillReadStep
<1> QED BY <1>2, <1>3, <1>4, TypeInvariant, PTL DEF Spec, KillStopsEntries

-----------------------------------------------------------------------------
(* Blocking, whatever fails, and pausing, with a registry that answers *)

\* A blocked runner is not inside a step, but in the batch it could not check.
BlockedIsOut ==
    /\ pc \in {"poll", "book", "pause", "decide", "check", "send"} => ~blocked \/ unread
    /\ unread => pc \in {"send", "stop", "cancel"}

LEMMA BlockedIsOutStep ==
    ASSUME TypeInv, BlockedIsOut, [Next]_vars
    PROVE  BlockedIsOut'
<1>1. CASE ~unread' /\ pc' \notin {"poll", "book", "pause", "decide", "check", "send"}
  BY <1>1 DEF BlockedIsOut
<1>2. CASE ~unread' /\ ~blocked'
  BY <1>2 DEF BlockedIsOut
<1>3. CASE pc' = pc /\ UNCHANGED <<blocked, unread>>
  BY <1>3 DEF BlockedIsOut
<1>4. CASE Startup
  BY <1>1, <1>4 DEF Startup, RestoreBook, ReadPositions, FinishReconcile, RefuseToTrade, Forget,
     lateVars, BlockedIsOut
<1>5. CASE StepBegin
  BY <1>1, <1>2, <1>5 DEF StepBegin, SkipsStep, StepReturns, BlockedIsOut
<1>6. CASE MarkBook
  BY <1>1, <1>2, <1>6 DEF MarkBook, StepReturns, lateVars, BlockedIsOut
<1>7. CASE StepRaises \/ PollFills \/ BookFill \/ ReadPause \/ Decide \/ SaveBook
  BY <1>1, <1>2, <1>3, <1>7 DEF StepRaises, PollFills, Fetch, BookFill, ReadPause, StepReturns,
     Decide, SaveBook, flagVars, lateVars, BlockedIsOut
<1>8. CASE CheckBatch
  BY <1>8 DEF CheckBatch, BlockedIsOut
<1>9. CASE EndBatch
  BY <1>1, <1>9 DEF EndBatch, StepReturns
<1>10. CASE Send
  BY <1>3, <1>10 DEF Send, SkipOrder, SendOrder, LoseReply, TakeOrder, flagVars, lateVars
<1>11. CASE WayOut
  BY <1>1, <1>3, <1>11 DEF WayOut, SettlePoll, Fetch, SettleRound, SettleFails, Forget, SyncBook,
     ExitOnce, StopBegin, CancelOrder, StopEnd, flagVars, lateVars, BlockedIsOut
<1>12. CASE World
  BY <1>1, <1>3, <1>12 DEF World, Start, Interrupt, FlipKill, FlipPause, NextSession, Crash,
     Forget, Fill, Expire, OtherTrade, procVars, flagVars, lateVars, BlockedIsOut
<1>13. CASE UNCHANGED vars
  BY <1>3, <1>13 DEF vars, procVars, flagVars, lateVars
<1> QED BY <1>4, <1>5, <1>6, <1>7, <1>8, <1>9, <1>10, <1>11, <1>12, <1>13 DEF Next, Runner, Step

(* _block: whatever fails and blocks, no order reaches the broker from a      *)
(* blocked runner but those of the batch that found the order table           *)
(* unreadable.  They do go out: the run unreadable_table.                     *)
THEOREM BlockedRunnerSendsNoMore == Spec => BlockedSendsNoMore
<1>1. Init => BlockedIsOut
  BY DEF Init, BlockedIsOut
<1>2. TypeInv /\ BlockedIsOut /\ [Next]_vars => BlockedIsOut'
  BY BlockedIsOutStep
<1>3. TypeInv /\ BlockedIsOut /\ [Next]_vars => (Len(ord') > Len(ord) => ~blocked \/ unread)
  BY OnlySendsAdd DEF Sends, BlockedIsOut
<1> QED BY <1>1, <1>2, <1>3, TypeInvariant, PTL DEF Spec, BlockedSendsNoMore

\* Past the reading of the pause flag, a pause is one that came later.
PauseRead == /\ pc \in {"decide", "check", "send"} /\ paused => latePause
             /\ row = "none" => ~paused

LEMMA RowStays ==
    ASSUME PauseRead, NEW status \in {"running", "blocked", "stopped"}, UpsertRow(status),
           UNCHANGED paused
    PROVE  row' = "none" => ~paused'
BY DEF PauseRead, UpsertRow

LEMMA PauseReadStep ==
    ASSUME "db" \notin Faults, TypeInv, PauseRead, [Next]_vars
    PROVE  PauseRead'
<1>1. CASE UNCHANGED <<row, paused>> /\ pc' \notin {"decide", "check", "send"}
  BY <1>1 DEF PauseRead
<1>2. CASE UNCHANGED <<row, paused, latePause>> /\ pc \in {"decide", "check", "send"}
  BY <1>2 DEF PauseRead
<1>3. CASE Startup
  BY <1>1, <1>3, RowStays DEF Startup, RestoreBook, ReadPositions, FinishReconcile,
     RefuseToTrade, Forget, dbVars, PauseRead
<1>4. CASE StepBegin
  BY <1>1, <1>4, RowStays DEF StepBegin, StepReturns, PauseRead
<1>5. CASE ReadPause
  BY <1>5 DEF ReadPause, Fails, PauseFlag, StepReturns, PauseRead, dbVars
<1>6. CASE StepRaises \/ PollFills \/ BookFill \/ MarkBook \/ EndBatch \/ SaveBook
  BY <1>1, <1>6 DEF StepRaises, PollFills, Fetch, BookFill, MarkBook, StepReturns, EndBatch,
     SaveBook, dbVars
<1>7. CASE Decide \/ CheckBatch
  BY <1>2, <1>7 DEF Decide, CheckBatch, dbVars, lateVars
<1>8. CASE Send
  BY <1>2, <1>8 DEF Send, SkipOrder, SendOrder, LoseReply, TakeOrder, dbVars, lateVars
<1>9. CASE WayOut
  BY <1>1, <1>9, RowStays DEF WayOut, SettlePoll, Fetch, SettleRound, SettleFails, Forget,
     SyncBook, ExitOnce, StopBegin, CancelOrder, StopEnd, dbVars, PauseRead
<1>10. CASE FlipPause
  BY <1>10 DEF FlipPause, PauseRead, procVars
<1>11. CASE World /\ ~FlipPause
  BY <1>1, <1>2, <1>11 DEF World, Start, Interrupt, FlipKill, NextSession, Crash,
     Forget, Fill, Expire, OtherTrade, procVars, dbVars, lateVars, PauseRead
<1>12. CASE UNCHANGED vars
  BY <1>12 DEF vars, procVars, dbVars, lateVars, PauseRead
<1> QED BY <1>3, <1>4, <1>5, <1>6, <1>7, <1>8, <1>9, <1>10, <1>11, <1>12
        DEF Next, Runner, Step

(* _is_paused: with a registry that answers, a pause written to the table     *)
(* before the step read it keeps the step from sending, in whatever process   *)
(* it was written and however often the runner was restarted since.           *)
THEOREM PauseStopsOrders == "db" \notin Faults => (Spec => PauseHolds)
<1> SUFFICES ASSUME "db" \notin Faults PROVE Spec => PauseHolds
  OBVIOUS
<1>1. Init => PauseRead
  BY DEF Init, PauseRead
<1>2. TypeInv /\ PauseRead /\ [Next]_vars => PauseRead'
  BY PauseReadStep
<1>3. TypeInv /\ PauseRead /\ [Next]_vars => (Len(ord') > Len(ord) => ~paused \/ latePause)
  BY OnlySendsAdd DEF Sends, PauseRead
<1> QED BY <1>1, <1>2, <1>3, TypeInvariant, PTL DEF Spec, PauseHolds

-----------------------------------------------------------------------------
(* Idempotency across restarts, with a registry that answers *)

\* The cached key set holds every placed key of the sessions it was loaded for,
\* and the key of every order sent in this step.
CacheHoldsTable ==
    /\ \A x \in rows : ~x.rejected /\ x.key.s \in loaded => x.key \in seenKeys
    /\ \A x \in sent : x.key \in seenKeys
    /\ pc = "send" => today \in loaded
    /\ pc \in {"down", "restore"} => sent = {}

LEMMA CacheStep ==
    ASSUME "db" \notin Faults, TypeInv, CacheHoldsTable, [Next]_vars
    PROVE  CacheHoldsTable'
<1>1. CASE Forget /\ UNCHANGED rows
  BY <1>1 DEF Forget, CacheHoldsTable
<1>2. CASE /\ UNCHANGED <<rows, seenKeys, loaded, today, sent>>
           /\ pc' \notin {"down", "restore", "send"} \/ pc' = pc
  BY <1>2 DEF CacheHoldsTable
<1>3. CASE RestoreBook
  <2>1. seenKeys' = PlacedKeys(session) /\ loaded' = {session} /\ UNCHANGED <<rows, sent>>
    BY <1>3 DEF RestoreBook, Fails, dbVars, batchVars
  <2> QED BY <1>3, <2>1 DEF RestoreBook, PlacedKeys, CacheHoldsTable
<1>4. CASE ReadPositions \/ FinishReconcile
  BY <1>1, <1>2, <1>4 DEF ReadPositions, FinishReconcile, RefuseToTrade, idemVars, clockVars,
     batchVars
<1>5. CASE StepBegin
  BY <1>5 DEF StepBegin, StepReturns, idemVars, batchVars, CacheHoldsTable
<1>6. CASE StepRaises \/ PollFills \/ BookFill \/ MarkBook \/ ReadPause \/ Decide \/ SaveBook
  BY <1>2, <1>6 DEF StepRaises, PollFills, Fetch, BookFill, MarkBook, ReadPause, StepReturns,
     Decide, SaveBook, idemVars, clockVars, batchVars, dbVars
<1>7. CASE CheckBatch
  <2>1. \/ today \in loaded /\ UNCHANGED <<seenKeys, loaded>>
        \/ loaded' = loaded \cup {today} /\ seenKeys' = seenKeys \cup PlacedKeys(today)
    BY <1>7 DEF CheckBatch, Fails, idemVars
  <2>2. UNCHANGED <<rows, sent, today>> /\ pc' = "send"
    BY <1>7 DEF CheckBatch, dbVars, clockVars
  <2> QED BY <2>1, <2>2 DEF PlacedKeys, CacheHoldsTable
<1>8. CASE EndBatch
  <2>1. /\ rows' = rows \cup sent /\ sent' = {} /\ UNCHANGED <<seenKeys, loaded>>
        /\ pc' \in {"settle", "save"}
    BY <1>8 DEF EndBatch, Fails, StepReturns, idemVars
  <2> QED BY <2>1 DEF CacheHoldsTable
<1>9. CASE \E o \in Orders : SkipOrder(o) \/ LoseReply(o)
  BY <1>2, <1>9 DEF SkipOrder, LoseReply, TakeOrder, dbVars, clockVars
<1>10. CASE \E o \in Orders : SendOrder(o)
  <2>1. PICK o \in Orders : SendOrder(o)
    BY <1>10
  <2>2. /\ seenKeys' = seenKeys \cup {Key(o)}
        /\ \A x \in sent' : x \in sent \/ x.key = Key(o)
        /\ UNCHANGED <<rows, loaded, today, pc>>
    BY <2>1 DEF SendOrder, TakeOrder, dbVars, clockVars
  <2> QED BY <2>1, <2>2 DEF SendOrder, TakeOrder, CacheHoldsTable
<1>11. CASE WayOut
  BY <1>1, <1>2, <1>11 DEF WayOut, SettlePoll, Fetch, SettleRound, SettleFails, SyncBook,
     ExitOnce, StopBegin, CancelOrder, StopEnd, idemVars, clockVars, batchVars, dbVars
<1>12. CASE \E once \in Modes, adopt \in Adopts : Start(once, adopt)
  BY <1>12 DEF Start, idemVars, clockVars, batchVars, dbVars, CacheHoldsTable
<1>13. CASE Interrupt \/ Crash
  BY <1>1, <1>2, <1>13 DEF Interrupt, Crash, idemVars, clockVars, batchVars, dbVars
<1>14. CASE UNCHANGED <<procVars, rows>>
  BY <1>2, <1>14 DEF procVars, idemVars, clockVars, batchVars
<1>15. CASE World
  BY <1>12, <1>13, <1>14, <1>15 DEF World, FlipKill, FlipPause, NextSession, Fill, Expire,
     OtherTrade, dbVars
<1>16. CASE UNCHANGED vars
  BY <1>14, <1>16 DEF vars, dbVars
<1> QED BY <1>3, <1>4, <1>5, <1>6, <1>7, <1>8, <1>9, <1>10, <1>11, <1>15, <1>16
        DEF Next, Runner, Startup, Step, Send

\* Rows are added to `sent` by SendOrder only.
LEMMA SentGrows ==
    ASSUME TypeInv, [Next]_vars, NEW r \in sent', r \notin sent
    PROVE  \E o \in Orders : SendOrder(o) /\ r.key = Key(o)
<1>1. CASE sent' \subseteq sent
  BY <1>1
<1>2. CASE \E o \in Orders : SendOrder(o)
  BY <1>2 DEF SendOrder
<1>3. CASE Startup \/ Step
  BY <1>1, <1>3 DEF Startup, Step, RestoreBook, ReadPositions, FinishReconcile, RefuseToTrade,
     Forget, StepBegin, StepRaises, PollFills, Fetch, BookFill, MarkBook, ReadPause, Decide,
     CheckBatch, EndBatch, SaveBook, batchVars
<1>4. CASE \E o \in Orders : SkipOrder(o) \/ LoseReply(o)
  BY <1>1, <1>4 DEF SkipOrder, LoseReply
<1>5. CASE WayOut
  BY <1>1, <1>5 DEF WayOut, SettlePoll, Fetch, SettleRound, SettleFails, Forget, SyncBook,
     ExitOnce, StopBegin, CancelOrder, StopEnd, batchVars
<1>6. CASE World
  BY <1>1, <1>6 DEF World, Start, Interrupt, FlipKill, FlipPause, NextSession, Crash, Forget,
     Fill, Expire, OtherTrade, procVars, batchVars
<1>7. CASE UNCHANGED vars
  BY <1>1, <1>7 DEF vars, procVars, batchVars
<1> QED BY <1>2, <1>3, <1>4, <1>5, <1>6, <1>7 DEF Next, Runner, Send

(* submit_orders and _load_idem_keys: with a registry that answers, an order  *)
(* the table holds as placed is never handed to the broker again, by this     *)
(* process or by a later one -- whatever else fails.                          *)
THEOREM PlacedOrdersAreNotResent == "db" \notin Faults => (Spec => NoRefire)
<1> SUFFICES ASSUME "db" \notin Faults PROVE Spec => NoRefire
  OBVIOUS
<1>1. Init => CacheHoldsTable
  BY DEF Init, CacheHoldsTable
<1>2. TypeInv /\ CacheHoldsTable /\ [Next]_vars => CacheHoldsTable'
  BY CacheStep
<1>3. ASSUME TypeInv, CacheHoldsTable, [Next]_vars
      PROVE  \A r \in sent' \ sent : \A x \in rows : x.rejected \/ x.key # r.key
  <2>1. TAKE r \in sent' \ sent
  <2>2. TAKE x \in rows
  <2>3. PICK o \in Orders : SendOrder(o) /\ r.key = Key(o)
    BY <1>3, SentGrows
  <2>4. r.key \notin seenKeys /\ r.key.s \in loaded
    BY <1>3, <2>3 DEF SendOrder, TakeOrder, MaySend, Key, CacheHoldsTable
  <2> QED BY <1>3, <2>4 DEF CacheHoldsTable
<1>4. TypeInv /\ CacheHoldsTable /\ [Next]_vars
        => \A r \in sent' \ sent : \A x \in rows : x.rejected \/ x.key # r.key
  BY <1>3
<1> QED BY <1>1, <1>2, <1>4, TypeInvariant, PTL DEF Spec, NoRefire

-----------------------------------------------------------------------------
(* Foreign orders *)

\* The ids reconcile compares with are ids of the table.
KnownIsStored == pc \in {"positions", "orders"} => known \subseteq StoredIds

OwnOrders == KnownIsStored /\ NoForeignOrders

LEMMA OwnOrdersStep ==
    ASSUME "db" \notin Faults, "lost_reply" \notin Faults, TypeInv, OwnOrders, [Next]_vars
    PROVE  OwnOrders'
<1>1. CASE KeepsOrders /\ ~Trading' /\ pc' \notin {"positions", "orders"}
  BY <1>1 DEF OwnOrders, KnownIsStored, NoForeignOrders
<1>2. CASE /\ KeepsOrders /\ (Trading' => Trading) /\ UNCHANGED <<cfg, known>>
           /\ pc' \in {"positions", "orders"} => pc \in {"positions", "orders"}
           /\ rows \subseteq rows' /\ rows \cup sent \subseteq rows' \cup sent'
  <2>1. OpenOrders' \subseteq OpenOrders
    BY <1>2 DEF KeepsOrders, EndsOne, EndsNone, KeysStay, OpenOrders
  <2>2. KnownIsStored'
    BY <1>2 DEF OwnOrders, KnownIsStored, StoredIds
  <2> QED BY <1>2, <2>1, <2>2 DEF OwnOrders, NoForeignOrders
<1>3. CASE RestoreBook
  <2>1. known' = StoredIds /\ pc' = "positions" /\ UNCHANGED rows
    BY <1>3 DEF RestoreBook, Fails, dbVars
  <2> QED BY <2>1 DEF OwnOrders, KnownIsStored, NoForeignOrders, Trading, StoredIds
<1>4. CASE FinishReconcile
  <2>1. CASE Forget
    BY <2>1, <1>4 DEF Forget, OwnOrders, KnownIsStored, NoForeignOrders, Trading
  <2>2. CASE (Agreed \/ cfg.adopt) /\ pc' = "idle" /\ UNCHANGED cfg
    <3>1. cfg.adopt \/ OpenOrders \subseteq StoredIds
      BY <1>4, <2>2 DEF FinishReconcile, Agreed, OwnOrders, KnownIsStored
    <3>2. OpenOrders' = OpenOrders /\ UNCHANGED rows
      BY <1>4 DEF FinishReconcile, brokerVars, OpenOrders
    <3> QED BY <2>2, <3>1, <3>2 DEF OwnOrders, KnownIsStored, NoForeignOrders, StoredIds
  <2> QED BY <1>4, <2>1, <2>2 DEF FinishReconcile, RefuseToTrade
<1>5. CASE \E o \in Orders : SendOrder(o)
  <2>1. PICK o \in Orders : SendOrder(o)
    BY <1>5
  <2>2. TakeOrder(o) /\ o \in batch /\ UNCHANGED <<pc, cfg, known, rows>>
    BY <2>1 DEF SendOrder, TakeOrder, dbVars
  <2>3. PICK b \in 1..(Len(ord) + 1), st \in {"open", "rejected", "closed"} :
          /\ \/ b = Len(ord) + 1 /\ Accept(o, st)
             \/ UNCHANGED ord
          /\ sent' = sent \cup {[bid |-> b, key |-> Key(o), rejected |-> st = "rejected"]}
    BY <2>1 DEF SendOrder
  <2>4. OpenOrders' \subseteq OpenOrders \cup {b}
    <3>1. CASE b = Len(ord) + 1 /\ Accept(o, st)
      <4>1. DOMAIN ord' = DOMAIN ord \cup {b} /\ \A a \in DOMAIN ord : ord'[a] = ord[a]
        <5>1. /\ DOMAIN ord' = 1..(Len(ord) + 1)
              /\ \A a \in DOMAIN ord : ord'[a] = ord[a]
          BY <2>2, <3>1, NewOrder
        <5> QED BY <3>1, <5>1, OrdType
      <4> QED BY <4>1 DEF OpenOrders
    <3>2. CASE UNCHANGED ord
      BY <3>2 DEF OpenOrders
    <3> QED BY <2>3, <3>1, <3>2
  <2>5. sent \subseteq sent' /\ \E r \in sent' : r.bid = b
    <3> DEFINE new == [bid |-> b, key |-> Key(o), rejected |-> st = "rejected"]
    <3>1. new \in sent' /\ new.bid = b
      BY <2>3
    <3> QED BY <2>3, <3>1
  <2>6. Trading' = Trading
    BY <2>2 DEF Trading
  <2> QED BY <2>2, <2>4, <2>5, <2>6 DEF OwnOrders, KnownIsStored, NoForeignOrders, StoredIds
<1>6. CASE \E o \in Orders : SkipOrder(o) \/ LoseReply(o)
  <2>1. PICK o \in Orders : SkipOrder(o)
    BY <1>6 DEF LoseReply, Fails
  <2>2. KeepsOrders /\ UNCHANGED <<pc, cfg, known, rows, sent>>
    BY <2>1 DEF SkipOrder, TakeOrder, KeepsOrders, EndsNone, KeysStay, dbVars
  <2> QED BY <1>2, <2>2 DEF Trading
<1>7. KeepsOrders \/ \E o \in Orders : SendOrder(o)
  BY OrdCases DEF LoseReply, Fails
<1>8. CASE ReadPositions
  BY <1>1, <1>2, <1>5, <1>7, <1>8 DEF ReadPositions, RefuseToTrade, Forget, Trading,
     idemVars, batchVars
<1>9. CASE Step
  BY <1>2, <1>5, <1>7, <1>9 DEF Step, StepBegin, StepRaises, StepReturns, PollFills, Fetch,
     BookFill, MarkBook, ReadPause, Decide, CheckBatch, EndBatch, SaveBook, Fails, Trading,
     idemVars, batchVars, dbVars
<1>10. CASE WayOut
  BY <1>1, <1>2, <1>5, <1>7, <1>10 DEF WayOut, SettlePoll, Fetch, SettleRound, SettleFails,
     Forget, SyncBook, ExitOnce, StopBegin, CancelOrder, StopEnd, Trading,
     idemVars, batchVars, dbVars
<1>11. CASE World
  BY <1>1, <1>2, <1>5, <1>7, <1>11 DEF World, Start, Interrupt, FlipKill, FlipPause,
     NextSession, Crash, Forget, Fill, Expire, OtherTrade, Trading, procVars, idemVars,
     batchVars, dbVars
<1>12. CASE UNCHANGED vars
  BY <1>2, <1>5, <1>7, <1>12 DEF vars, procVars, idemVars, batchVars, dbVars, Trading
<1> QED BY <1>3, <1>4, <1>5, <1>6, <1>8, <1>9, <1>10, <1>11, <1>12
        DEF Next, Runner, Startup, Send

(* reconcile, unknown_open_order: when the registry answers and no answer of  *)
(* the broker is lost, a runner that was not started to adopt trades beside   *)
(* no working order that is not in its table.  Crashes are not assumed away:  *)
(* an order sent before one is foreign to the next process, which refuses.    *)
THEOREM TradesBesideOwnOrdersOnly ==
    "db" \notin Faults /\ "lost_reply" \notin Faults => (Spec => []NoForeignOrders)
<1> SUFFICES ASSUME "db" \notin Faults, "lost_reply" \notin Faults
             PROVE  Spec => []NoForeignOrders
  OBVIOUS
<1>1. Init => OwnOrders
  BY DEF Init, OwnOrders, KnownIsStored, NoForeignOrders, Trading
<1>2. TypeInv /\ OwnOrders /\ [Next]_vars => OwnOrders'
  BY OwnOrdersStep
<1>3. OwnOrders => NoForeignOrders
  BY DEF OwnOrders
<1> QED BY <1>1, <1>2, <1>3, TypeInvariant, PTL DEF Spec

-----------------------------------------------------------------------------
(* No fill is lost or booked twice                                           *)

\* The watermark is never ahead of the log, nor of the time a poll is made at;
\* what was booked is in the log; and what a poll returned is gone when the loop
\* over it is.
PollInv ==
    /\ wm <= Len(log) /\ seenFills \subseteq DOMAIN log
    /\ pc = "poll" => wm <= now /\ now <= Len(log)
    /\ pc \notin {"book", "settlebook", "settlelast", "stop", "cancel"} => raw = {}

Entries == [t: Tickers, dq: Int]

LEMMA LogKept == ASSUME TypeInv, [Next]_vars PROVE log \in Seq(Entries) /\ log' \in Seq(Entries)
BY NextType DEF TypeInv, TypeOK, BrokerType, Entries

\* The log only grows.
LEMMA LogLonger == ASSUME TypeInv, [Next]_vars PROVE Len(log) <= Len(log') /\ DOMAIN log \subseteq DOMAIN log'
<1>1. ASSUME NEW e \in Entries, log' = Append(log, e) PROVE Len(log) <= Len(log')
  BY <1>1, LogKept
<1>2. ASSUME log' = log PROVE Len(log) <= Len(log')
  BY <1>2, LogKept
<1>3. ASSUME NEW b \in DOMAIN ord, NEW n \in 0..MaxQty, Close(b, n) PROVE Len(log) <= Len(log')
  <2>1. [t |-> ord[b].key.t, dq |-> Signed(ord[b].key.buy, n)] \in Entries
    BY OrdType DEF BrokerOrders, Keys, Signed, Entries
  <2> QED BY <1>1, <1>2, <1>3, <2>1 DEF Close
<1>4. CASE CancelOrder
  <2>1. PICK b \in cancels : log' = log \/ Close(b, ord[b].filled)
    BY <1>4 DEF CancelOrder
  <2>2. b \in DOMAIN ord /\ ord[b].filled \in 0..MaxQty
    BY OrdType DEF TypeInv, TypeOK, CancelType, BrokerOrders
  <2> QED BY <1>2, <1>3, <2>1, <2>2
<1>5. ASSUME NEW b \in DOMAIN ord, Fill(b) PROVE Len(log) <= Len(log')
  <2>1. PICK n \in (ord[b].filled + 1)..ord[b].qty : log' = log \/ Close(b, n)
    BY <1>5 DEF Fill
  <2>2. ord[b].filled \in 0..MaxQty /\ ord[b].qty \in 1..MaxQty
    BY OrdType DEF BrokerOrders
  <2>3. n \in 0..MaxQty
    BY <2>2, Ranges
  <2> QED BY <1>2, <1>3, <2>1, <2>3
<1>6. ASSUME NEW b \in DOMAIN ord, Expire(b) PROVE Len(log) <= Len(log')
  <2>1. ord[b].filled \in 0..MaxQty
    BY OrdType DEF BrokerOrders
  <2> QED BY <1>3, <1>6, <2>1 DEF Expire
<1>7. ASSUME NEW t \in Tickers, NEW buy \in BOOLEAN, OtherTrade(t, buy) PROVE Len(log) <= Len(log')
  <2>1. [t |-> t, dq |-> Signed(buy, 1)] \in Entries
    BY DEF Signed, Entries
  <2> QED BY <1>1, <1>7, <2>1 DEF OtherTrade
<1>8. CASE Startup \/ Step \/ Send \/ UNCHANGED vars
  BY <1>2, <1>8 DEF Startup, RestoreBook, ReadPositions, FinishReconcile, Step, StepBegin, StepRaises,
     PollFills, Fetch, BookFill, MarkBook, ReadPause, Decide, CheckBatch, EndBatch, SaveBook, Send,
     SkipOrder, SendOrder, LoseReply, TakeOrder, brokerVars, vars
<1>9. CASE SettlePoll \/ SettleRound \/ SettleFails \/ SyncBook \/ ExitOnce \/ StopBegin \/ StopEnd
  BY <1>2, <1>9 DEF SettlePoll, Fetch, SettleRound, SettleFails, SyncBook, ExitOnce, StopBegin, StopEnd, brokerVars
<1>10. ASSUME NEW once \in Modes, NEW adopt \in Adopts, Start(once, adopt) PROVE Len(log) <= Len(log')
  BY <1>2, <1>10 DEF Start, brokerVars
<1>11. CASE Interrupt \/ FlipKill \/ FlipPause \/ NextSession \/ Crash
  BY <1>2, <1>11 DEF Interrupt, FlipKill, FlipPause, NextSession, Crash, brokerVars
<1>12. Len(log) <= Len(log')
  BY <1>4, <1>5, <1>6, <1>7, <1>8, <1>9, <1>10, <1>11 DEF Next, Runner, WayOut, World
<1> QED BY <1>12, LogKept

LEMMA PollStep == ASSUME TypeInv, PollInv, [Next]_vars PROVE PollInv'
<1>0. /\ Len(log) <= Len(log') /\ DOMAIN log \subseteq DOMAIN log'
      /\ Len(log) \in Nat /\ Len(log') \in Nat /\ wm \in Nat /\ now \in Nat
      /\ raw \subseteq DOMAIN log
  BY LogLonger, LogKept DEF TypeInv, TypeOK, ClockType, PollType
<1>1. ASSUME UNCHANGED pollVars, pc' # "poll" \/ UNCHANGED <<pc, now>>,
             pc' \in {"book", "settlebook", "settlelast", "stop", "cancel"} \/ raw = {}
      PROVE  PollInv'
  BY <1>0, <1>1 DEF PollInv, pollVars
<1>2. ASSUME UNCHANGED pollVars, UNCHANGED pc, UNCHANGED now PROVE PollInv'
  BY <1>0, <1>2 DEF PollInv, pollVars
<1>3. ASSUME Forget PROVE PollInv'
  BY <1>0, <1>3 DEF Forget, PollInv
<1>4. CASE \E once \in Modes, adopt \in Adopts : Start(once, adopt)
  BY <1>1, <1>4 DEF Start, PollInv
<1>5. CASE RestoreBook \/ MarkBook \/ SettleRound
  BY <1>1, <1>5 DEF RestoreBook, MarkBook, StepReturns, SettleRound, PollInv
<1>6. CASE ReadPositions
  BY <1>1, <1>3, <1>6 DEF ReadPositions, RefuseToTrade, PollInv
<1>7. CASE FinishReconcile
  <2>1. CASE RefuseToTrade
    BY <1>3, <2>1 DEF RefuseToTrade
  <2>2. CASE wm' = Len(log) /\ pc' = "idle" /\ UNCHANGED <<raw, seenFills>> /\ pc = "orders"
    BY <1>0, <2>2 DEF PollInv
  <2> QED BY <1>7, <2>1, <2>2 DEF FinishReconcile
<1>8. CASE StepBegin
  <2>1. UNCHANGED pollVars /\ pc = "idle" /\ now' = Len(log)
    BY <1>8 DEF StepBegin
  <2>2. raw = {} /\ raw' = {} /\ wm' = wm /\ seenFills' = seenFills
    BY <2>1 DEF PollInv, pollVars
  <2> QED BY <1>0, <2>1, <2>2 DEF PollInv
<1>9. CASE StepRaises
  BY <1>1, <1>9 DEF StepRaises, PollInv
<1>10. ASSUME NEW at \in Nat, Fetch(at), at <= Len(log), pc' \in {"book", "settlebook", "settlelast"}
       PROVE  PollInv'
  BY <1>0, <1>10 DEF Fetch, PollInv
<1>11. CASE PollFills
  BY <1>0, <1>10, <1>11 DEF PollFills, PollInv
<1>12. CASE SettlePoll
  BY <1>0, <1>10, <1>12 DEF SettlePoll
<1>13. CASE BookFill
  <2>1. PICK i \in raw : /\ raw' = raw \ {i} /\ seenFills' = seenFills \cup {i}
    BY <1>13 DEF BookFill
  <2>2. pc' = pc /\ wm' = wm /\ pc \in {"book", "settlebook", "settlelast"}
    BY <1>13 DEF BookFill
  <2> QED BY <1>0, <2>1, <2>2 DEF PollInv
<1>14. CASE ReadPause \/ Decide \/ CheckBatch \/ EndBatch
  BY <1>1, <1>14 DEF ReadPause, Decide, CheckBatch, EndBatch, StepReturns, PollInv
<1>15. CASE SaveBook \/ SyncBook \/ StopBegin \/ Interrupt
  BY <1>1, <1>15 DEF SaveBook, SyncBook, StopBegin, Interrupt, PollInv
<1>16. CASE Send
  BY <1>2, <1>16 DEF Send, SkipOrder, SendOrder, LoseReply, TakeOrder, clockVars
<1>17. CASE SettleFails
  BY <1>1, <1>3, <1>17 DEF SettleFails, PollInv
<1>18. CASE ExitOnce \/ StopEnd \/ Crash
  BY <1>3, <1>18 DEF ExitOnce, StopEnd, Crash
<1>19. CASE CancelOrder
  BY <1>2, <1>19 DEF CancelOrder, clockVars
<1>20. CASE FlipKill \/ FlipPause \/ NextSession \/ UNCHANGED vars
            \/ (\E b \in DOMAIN ord : Fill(b) \/ Expire(b))
            \/ (\E t \in Tickers, buy \in BOOLEAN : OtherTrade(t, buy))
  <2>1. UNCHANGED procVars
    BY <1>20 DEF FlipKill, FlipPause, NextSession, Fill, Expire, OtherTrade, vars
  <2> QED BY <1>2, <2>1 DEF procVars, clockVars
<1> QED BY <1>4, <1>5, <1>6, <1>7, <1>8, <1>9, <1>11, <1>12, <1>13, <1>14, <1>15, <1>16, <1>17, <1>18, <1>19, <1>20
        DEF Next, Runner, Startup, Step, WayOut, World

\* The functions whose totals Drift takes, of a set of places in a log, and of
\* the open orders of an account.
Moved(e, t) == IF e.t = t THEN e.dq ELSE 0
FillsOf(U, l, t) == [i \in U |-> Moved(l[i], t)]
OpenOf(o) == {b \in DOMAIN o : o[b].st = "open"}
Part(x, t) == IF x.key.t = t THEN Signed(x.key.buy, x.filled) ELSE 0
PartsOf(o, t) == [b \in OpenOf(o) |-> Part(o[b], t)]

LEMMA SignedInt ==
    ASSUME NEW buy, NEW n \in Int, NEW m \in Int
    PROVE  /\ Signed(buy, n) \in Int /\ Signed(buy, 0) = 0
           /\ Signed(buy, n - m) = Signed(buy, n) - Signed(buy, m)
<1>1. CASE buy
  <2>1. Signed(buy, n) = n /\ Signed(buy, m) = m /\ Signed(buy, n - m) = n - m /\ Signed(buy, 0) = 0
    BY <1>1, Zenon DEF Signed
  <2> QED BY <2>1
<1>2. CASE ~buy
  <2>1. /\ Signed(buy, n) = -n /\ Signed(buy, m) = -m /\ Signed(buy, n - m) = -(n - m)
        /\ Signed(buy, 0) = -0
    BY <1>2, Zenon DEF Signed
  <2> QED BY <2>1
<1> QED BY <1>1, <1>2

LEMMA FillsOfType ==
    ASSUME NEW l \in Seq(Entries), NEW U, U \subseteq DOMAIN l, NEW t
    PROVE  IsFiniteSet(U) /\ FillsOf(U, l, t) \in [U -> Int]
<1>1. DOMAIN l = 1..Len(l) /\ Len(l) \in Nat /\ 1 \in Int
  OBVIOUS
<1>2. IsFiniteSet(DOMAIN l)
  BY <1>1, FS_Interval
<1>3. IsFiniteSet(U)
  BY <1>2, FS_Subset
<1>4. ASSUME NEW i \in U PROVE Moved(l[i], t) \in Int
  <2>1. l[i] \in Entries
    BY <1>1
  <2> QED BY <2>1 DEF Moved, Entries
<1> QED BY <1>3, <1>4 DEF FillsOf

\* An order closed: one place more.
LEMMA FillsAppend ==
    ASSUME NEW l \in Seq(Entries), NEW e \in Entries, NEW U, U \subseteq DOMAIN l, NEW t
    PROVE  Total(FillsOf(U \cup {Len(l) + 1}, Append(l, e), t)) = Total(FillsOf(U, l, t)) + Moved(e, t)
<1> DEFINE k == Len(l) + 1
           h == Append(l, e)
<1>1. Len(l) \in Nat /\ DOMAIN l = 1..Len(l) /\ h \in Seq(Entries) /\ DOMAIN h = 1..k
  OBVIOUS
<1>2. k \notin U /\ h[k] = e /\ U \cup {k} \subseteq DOMAIN h
  BY <1>1
<1>3. \A i \in U : h[i] = l[i]
  BY <1>1
<1> HIDE DEF k, h
<1>4. IsFiniteSet(U) /\ FillsOf(U, l, t) \in [U -> Int]
  BY FillsOfType
<1>5. FillsOf(U \cup {k}, h, t) \in [U \cup {k} -> Int]
  BY <1>1, <1>2, FillsOfType
<1>6. FillsOf(U \cup {k}, h, t)[k] = Moved(e, t)
  BY <1>2 DEF FillsOf
<1>7. IsFiniteSet(U \cup {k}) /\ k \in U \cup {k}
  BY <1>4, FS_AddElement
<1>8. Without(FillsOf(U \cup {k}, h, t), k) = FillsOf(U, l, t)
  BY <1>2, <1>3 DEF FillsOf, Without
<1> QED BY <1>5, <1>6, <1>7, <1>8, TotalSplit DEF k, h

\* A fill booked: one place less.
LEMMA FillsBooked ==
    ASSUME NEW l \in Seq(Entries), NEW U, U \subseteq DOMAIN l, NEW t, NEW i \in U
    PROVE  Total(FillsOf(U, l, t)) = Total(FillsOf(U \ {i}, l, t)) + Moved(l[i], t)
<1>1. IsFiniteSet(U) /\ FillsOf(U, l, t) \in [U -> Int]
  BY FillsOfType
<1>2. Without(FillsOf(U, l, t), i) = FillsOf(U \ {i}, l, t) /\ FillsOf(U, l, t)[i] = Moved(l[i], t)
  BY DEF FillsOf, Without
<1> QED BY <1>1, <1>2, TotalSplit

LEMMA PartsOfType ==
    ASSUME NEW o \in Seq(BrokerOrders), NEW t
    PROVE  IsFiniteSet(OpenOf(o)) /\ PartsOf(o, t) \in [OpenOf(o) -> Int]
<1>1. DOMAIN o = 1..Len(o) /\ Len(o) \in Nat /\ 1 \in Int
  OBVIOUS
<1>2. IsFiniteSet(DOMAIN o)
  BY <1>1, FS_Interval
<1>3. IsFiniteSet(OpenOf(o))
  BY <1>2, FS_Subset DEF OpenOf
<1>4. ASSUME NEW b \in OpenOf(o) PROVE Part(o[b], t) \in Int
  <2>1. o[b] \in BrokerOrders
    BY <1>1 DEF OpenOf
  <2>2. o[b].filled \in Int
    BY <2>1, Ranges DEF BrokerOrders
  <2> QED BY <2>2, SignedInt DEF Part
<1> QED BY <1>3, <1>4 DEF PartsOf

\* A working order ends.
LEMMA PartsClosed ==
    ASSUME NEW o \in Seq(BrokerOrders), NEW t, NEW b \in OpenOf(o), NEW n
    PROVE  Total(PartsOf(o, t))
             = Total(PartsOf([o EXCEPT ![b].st = "closed", ![b].filled = n], t)) + Part(o[b], t)
<1> DEFINE h == [o EXCEPT ![b].st = "closed", ![b].filled = n]
<1>1. IsFiniteSet(OpenOf(o)) /\ PartsOf(o, t) \in [OpenOf(o) -> Int]
  BY PartsOfType
<1>2. b \in DOMAIN o /\ o[b] \in BrokerOrders
  BY DEF OpenOf
<1>3. DOMAIN h = DOMAIN o /\ h[b].st = "closed" /\ \A a \in DOMAIN o \ {b} : h[a] = o[a]
  BY <1>2 DEF BrokerOrders
<1> HIDE DEF h
<1>4. OpenOf(h) = OpenOf(o) \ {b}
  BY <1>3 DEF OpenOf
<1>5. PartsOf(h, t) = Without(PartsOf(o, t), b)
  BY <1>3, <1>4 DEF PartsOf, Without, OpenOf
<1>6. PartsOf(o, t)[b] = Part(o[b], t)
  BY DEF PartsOf
<1> QED BY <1>1, <1>5, <1>6, TotalSplit DEF h

\* A working order fills by a part.
LEMMA PartsFilled ==
    ASSUME NEW o \in Seq(BrokerOrders), NEW t, NEW b \in OpenOf(o), NEW n \in 0..MaxQty
    PROVE  Total(PartsOf([o EXCEPT ![b].filled = n], t))
             = Total(PartsOf(o, t)) - Part(o[b], t)
                 + (IF o[b].key.t = t THEN Signed(o[b].key.buy, n) ELSE 0)
<1> DEFINE h == [o EXCEPT ![b].filled = n]
           S == OpenOf(o)
<1>1. b \in DOMAIN o /\ o[b] \in BrokerOrders
  BY DEF OpenOf
<1>2. /\ DOMAIN h = DOMAIN o /\ h[b].st = o[b].st /\ h[b].key = o[b].key /\ h[b].filled = n
      /\ \A a \in DOMAIN o \ {b} : h[a] = o[a]
  BY <1>1 DEF BrokerOrders
<1>3. h \in Seq(BrokerOrders)
  <2> DEFINE y == [o[b] EXCEPT !.filled = n]
  <2>1. y \in BrokerOrders
    BY <1>1 DEF BrokerOrders
  <2>2. h = [o EXCEPT ![b] = y]
    OBVIOUS
  <2> HIDE DEF y, h
  <2> QED BY <1>1, <2>1, <2>2
<1> HIDE DEF h
<1>4. OpenOf(h) = S
  BY <1>1, <1>2 DEF OpenOf
<1>5. IsFiniteSet(S) /\ PartsOf(o, t) \in [S -> Int]
  BY PartsOfType
<1>6. PartsOf(h, t) \in [S -> Int]
  BY <1>3, <1>4, PartsOfType
<1>7. \A a \in S \ {b} : PartsOf(h, t)[a] = PartsOf(o, t)[a]
  BY <1>2, <1>4 DEF PartsOf, OpenOf
<1>8. /\ PartsOf(o, t)[b] = Part(o[b], t)
      /\ PartsOf(h, t)[b] = IF o[b].key.t = t THEN Signed(o[b].key.buy, n) ELSE 0
  BY <1>2, <1>4 DEF PartsOf, Part
<1>9. Total(PartsOf(h, t)) = Total(PartsOf(o, t)) - PartsOf(o, t)[b] + PartsOf(h, t)[b]
  BY <1>5, <1>6, <1>7, TotalStep
<1> QED BY <1>8, <1>9 DEF h

\* The account takes an order, none of it filled.
LEMMA PartsSent ==
    ASSUME NEW o \in Seq(BrokerOrders), NEW t, NEW x \in BrokerOrders, x.filled = 0
    PROVE  Total(PartsOf(Append(o, x), t)) = Total(PartsOf(o, t))
<1> DEFINE h == Append(o, x)
           k == Len(o) + 1
<1>1. Len(o) \in Nat /\ DOMAIN o = 1..Len(o) /\ h \in Seq(BrokerOrders) /\ DOMAIN h = 1..k
  OBVIOUS
<1>2. h[k] = x /\ DOMAIN h = DOMAIN o \cup {k} /\ k \notin DOMAIN o
  BY <1>1
<1>3. \A a \in DOMAIN o : h[a] = o[a]
  BY <1>1
<1> HIDE DEF h, k
<1>4. IsFiniteSet(OpenOf(o)) /\ PartsOf(o, t) \in [OpenOf(o) -> Int]
  BY PartsOfType
<1>5. Total(PartsOf(o, t)) \in Int
  BY <1>4, TotalType
<1>6. CASE x.st = "open"
  <2>1. OpenOf(h) = OpenOf(o) \cup {k} /\ k \notin OpenOf(o)
    BY <1>2, <1>3, <1>6 DEF OpenOf
  <2>2. PartsOf(h, t) \in [OpenOf(o) \cup {k} -> Int]
    BY <1>1, <2>1, PartsOfType
  <2>3. \A a \in OpenOf(o) : PartsOf(h, t)[a] = PartsOf(o, t)[a]
    BY <1>3, <2>1 DEF PartsOf, OpenOf
  <2>4. PartsOf(h, t)[k] = 0
    BY <1>2, <2>1 DEF PartsOf, Part, Signed
  <2>5. Total(PartsOf(h, t)) = Total(PartsOf(o, t)) + PartsOf(h, t)[k]
    BY <1>4, <2>1, <2>2, <2>3, TotalMoreOf DEF OneKeyMore
  <2> QED BY <1>5, <2>4, <2>5 DEF h
<1>7. CASE x.st # "open"
  <2>1. OpenOf(h) = OpenOf(o)
    BY <1>2, <1>3, <1>7 DEF OpenOf
  <2>2. PartsOf(h, t) = PartsOf(o, t)
    BY <1>3, <2>1 DEF PartsOf, OpenOf
  <2> QED BY <2>2 DEF h
<1> QED BY <1>6, <1>7

\* What Drift reads, before a step and after it.
LEMMA DriftReads ==
    ASSUME NEW t
    PROVE  /\ ClosedFills(t) = FillsOf(Unbooked, log, t)
           /\ ClosedFills(t)' = FillsOf(Unbooked', log', t)
           /\ WorkingFills(t) = PartsOf(ord, t) /\ WorkingFills(t)' = PartsOf(ord', t)
           /\ OpenOrders = OpenOf(ord)
BY DEF ClosedFills, FillsOf, Moved, WorkingFills, PartsOf, Part, OpenOf, OpenOrders

LEMMA DriftTypes ==
    ASSUME TypeInv, PollInv, [Next]_vars, NEW t \in Tickers
    PROVE  /\ Unbooked \subseteq DOMAIN log /\ Unbooked' \subseteq DOMAIN log'
           /\ Total(ClosedFills(t)) \in Int /\ Total(WorkingFills(t)) \in Int
           /\ Total(ClosedFills(t)') \in Int /\ Total(WorkingFills(t)') \in Int
           /\ pos[t] \in Int /\ book[t] \in Int /\ pos'[t] \in Int /\ book'[t] \in Int
<1>1. TypeInv'
  BY NextType
<1>2. Unbooked \subseteq DOMAIN log /\ Unbooked' \subseteq DOMAIN log'
  BY <1>1 DEF Unbooked, TypeInv, TypeOK, PollType
<1>3. log \in Seq(Entries) /\ log' \in Seq(Entries)
  BY LogKept
<1>4. ord \in Seq(BrokerOrders) /\ ord' \in Seq(BrokerOrders)
  BY <1>1 DEF TypeInv, TypeOK, BrokerType
<1>5. Total(FillsOf(Unbooked, log, t)) \in Int /\ Total(FillsOf(Unbooked', log', t)) \in Int
  <2>1. /\ IsFiniteSet(Unbooked) /\ FillsOf(Unbooked, log, t) \in [Unbooked -> Int]
        /\ IsFiniteSet(Unbooked') /\ FillsOf(Unbooked', log', t) \in [Unbooked' -> Int]
    BY <1>2, <1>3, FillsOfType
  <2> QED BY <2>1, TotalType
<1>6. Total(PartsOf(ord, t)) \in Int /\ Total(PartsOf(ord', t)) \in Int
  <2>1. /\ IsFiniteSet(OpenOf(ord)) /\ PartsOf(ord, t) \in [OpenOf(ord) -> Int]
        /\ IsFiniteSet(OpenOf(ord')) /\ PartsOf(ord', t) \in [OpenOf(ord') -> Int]
    BY <1>4, PartsOfType
  <2> QED BY <2>1, TotalType
<1>7. pos[t] \in Int /\ book[t] \in Int /\ pos'[t] \in Int /\ book'[t] \in Int
  BY <1>1 DEF TypeInv, TypeOK, BookType, BrokerType, Books
<1> QED BY <1>2, <1>5, <1>6, <1>7, DriftReads

\* An order closes, or somebody else's does: one fill more to be booked.
LEMMA LogGrows ==
    ASSUME TypeInv, PollInv, NEW e \in Entries, log' = Append(log, e), UNCHANGED pollVars,
           NEW t \in Tickers
    PROVE  Total(ClosedFills(t)') = Total(ClosedFills(t)) + Moved(e, t)
<1>1. log \in Seq(Entries) /\ Len(log) \in Nat /\ DOMAIN log = 1..Len(log)
  <2>1. log \in Seq(Entries)
    BY DEF TypeInv, TypeOK, BrokerType, Entries
  <2> QED BY <2>1
<1>2. DOMAIN log' = DOMAIN log \cup {Len(log) + 1} /\ Len(log) + 1 \notin DOMAIN log
  BY <1>1
<1>3. wm \in Nat /\ wm <= Len(log) /\ seenFills \subseteq DOMAIN log
  BY DEF PollInv, TypeInv, TypeOK, PollType
<1>4. Unbooked' = Unbooked \cup {Len(log) + 1}
  BY <1>1, <1>2, <1>3 DEF Unbooked, pollVars
<1>5. Unbooked \subseteq DOMAIN log
  BY DEF Unbooked, TypeInv, TypeOK, PollType
<1>6. Total(FillsOf(Unbooked \cup {Len(log) + 1}, Append(log, e), t))
        = Total(FillsOf(Unbooked, log, t)) + Moved(e, t)
  BY <1>1, <1>5, FillsAppend
<1> QED BY <1>4, <1>6, DriftReads

\* A working order ends: what had filled of it is a fill to be booked now, with
\* what filled at the last.
LEMMA CloseShifts ==
    ASSUME TypeInv, PollInv, [Next]_vars, NEW b \in OpenOrders, NEW n \in 0..MaxQty, Close(b, n),
           UNCHANGED pollVars, NEW t \in Tickers
    PROVE  Total(ClosedFills(t)') + Total(WorkingFills(t)')
             = Total(ClosedFills(t)) + Total(WorkingFills(t)) - Part(ord[b], t)
                 + (IF ord[b].key.t = t THEN Signed(ord[b].key.buy, n) ELSE 0)
<1> DEFINE more == IF ord[b].key.t = t THEN Signed(ord[b].key.buy, n) ELSE 0
           h == [ord EXCEPT ![b].st = "closed", ![b].filled = n]
<1>1. ord \in Seq(BrokerOrders) /\ b \in OpenOf(ord) /\ ord[b] \in BrokerOrders /\ n \in Int
  BY OrdType, Ranges DEF OpenOf, OpenOrders
<1>2. Total(PartsOf(ord, t)) = Total(PartsOf(h, t)) + Part(ord[b], t)
  BY <1>1, PartsClosed
<1>3. ord' = h
  BY DEF Close
<1>4. Total(WorkingFills(t)) = Total(WorkingFills(t)') + Part(ord[b], t)
  <2> HIDE DEF h
  <2> QED BY <1>2, <1>3, DriftReads
<1>5. Total(ClosedFills(t)') = Total(ClosedFills(t)) + more
  <2>1. CASE n = 0
    <3>1. log' = log /\ Unbooked' = Unbooked
      BY <2>1 DEF Close, Unbooked, pollVars
    <3>2. ClosedFills(t)' = ClosedFills(t)
      BY <3>1, DriftReads
    <3>3. more = 0
      BY <2>1, SignedInt
    <3> QED BY <3>2, <3>3, DriftTypes
  <2>2. CASE n # 0
    <3> DEFINE e == [t |-> ord[b].key.t, dq |-> Signed(ord[b].key.buy, n)]
    <3>1. log' = Append(log, e)
      BY <2>2 DEF Close
    <3>2. e \in Entries /\ Moved(e, t) = more
      BY <1>1, SignedInt DEF Entries, BrokerOrders, Keys, Moved
    <3> HIDE DEF e, more
    <3> QED BY <3>1, <3>2, LogGrows
  <2> QED BY <2>1, <2>2
<1>6. more \in Int /\ Part(ord[b], t) \in Int
  <2>1. ord[b].filled \in Int
    BY <1>1, Ranges DEF BrokerOrders
  <2> QED BY <1>1, <2>1, SignedInt DEF Part
<1> HIDE DEF more
<1>7. Total(ClosedFills(t)') + Total(WorkingFills(t)')
        = Total(ClosedFills(t)) + Total(WorkingFills(t)) - Part(ord[b], t) + more
  BY <1>4, <1>5, <1>6, DriftTypes
<1> QED BY <1>7 DEF more

\* A step that moves neither the book nor the account, nor what is to be booked.
LEMMA DriftKept ==
    ASSUME UNCHANGED <<pos, book, ord, log>>, Unbooked' = Unbooked, NEW t \in Tickers
    PROVE  Drift(t)' = Drift(t)
<1>1. ClosedFills(t)' = ClosedFills(t) /\ WorkingFills(t)' = WorkingFills(t)
  BY DriftReads
<1> QED BY <1>1 DEF Drift

\* The polls move the watermark up, over nothing that is not in their hands.
LEMMA FetchKeeps ==
    ASSUME TypeInv, PollInv, NEW at \in Nat, Fetch(at), wm <= at, raw = {}
    PROVE  Unbooked' = Unbooked
<1>1. wm \in Nat /\ \A i \in DOMAIN log : i \in Nat
  BY LogType DEF TypeInv, TypeOK, PollType
<1>2. raw' = FreshFills /\ wm' = at /\ UNCHANGED <<log, seenFills>>
  BY DEF Fetch, brokerVars
<1>3. Unbooked' = {i \in DOMAIN log : i > at /\ i \notin seenFills} \cup FreshFills
  BY <1>2 DEF Unbooked
<1>4. {i \in DOMAIN log : i > at /\ i \notin seenFills} \subseteq FreshFills
  BY <1>1 DEF FreshFills, LandedSince
<1> QED BY <1>3, <1>4 DEF FreshFills, LandedSince, Unbooked

LEMMA BookFillDrift ==
    ASSUME TypeInv, PollInv, [Next]_vars, BookFill, NEW t \in Tickers
    PROVE  Drift(t)' = Drift(t)
<1>1. PICK i \in raw : /\ raw' = raw \ {i} /\ seenFills' = seenFills \cup {i}
                       /\ book' = [book EXCEPT ![log[i].t] = @ + log[i].dq]
  BY DEF BookFill
<1>2. UNCHANGED <<pos, ord, log, wm>>
  BY DEF BookFill, brokerVars
<1>3. log \in Seq(Entries) /\ i \in Unbooked /\ Unbooked \subseteq DOMAIN log /\ log[i] \in Entries
  BY LogKept, LogType DEF Unbooked, TypeInv, TypeOK, PollType, Entries
<1>4. Unbooked' = Unbooked \ {i}
  BY <1>1, <1>2 DEF Unbooked
<1>5. Total(FillsOf(Unbooked, log, t)) = Total(FillsOf(Unbooked \ {i}, log, t)) + Moved(log[i], t)
  BY <1>3, FillsBooked
<1>6. Total(ClosedFills(t)) = Total(ClosedFills(t)') + Moved(log[i], t)
  BY <1>2, <1>4, <1>5, DriftReads
<1>7. WorkingFills(t)' = WorkingFills(t)
  BY <1>2, DriftReads
<1>8. book'[t] = book[t] + Moved(log[i], t) /\ Moved(log[i], t) \in Int
  BY <1>1, <1>3 DEF Moved, Entries, TypeInv, TypeOK, BookType, Books
<1>9. pos'[t] = pos[t]
  BY <1>2
<1> QED BY <1>6, <1>7, <1>8, <1>9, DriftTypes DEF Drift

LEMMA SendDrift ==
    ASSUME TypeInv, PollInv, [Next]_vars, Send, NEW t \in Tickers
    PROVE  Drift(t)' = Drift(t)
<1>1. UNCHANGED <<pos, book, log>> /\ Unbooked' = Unbooked
  BY DEF Send, SkipOrder, SendOrder, LoseReply, TakeOrder, bookVars, pollVars, Unbooked
<1>2. CASE UNCHANGED ord
  BY <1>1, <1>2, DriftKept
<1>3. CASE \E o \in Orders, st \in {"open", "rejected", "closed"} : TakeOrder(o) /\ MaySend(o) /\ Accept(o, st)
  <2>1. PICK o \in Orders, st \in {"open", "rejected", "closed"} : TakeOrder(o) /\ MaySend(o) /\ Accept(o, st)
    BY <1>3
  <2> DEFINE new == [key |-> Key(o), qty |-> Clamped(o).qty, filled |-> 0, st |-> st]
  <2>2. ord' = Append(ord, new)
    BY <2>1 DEF Accept
  <2>3. new \in BrokerOrders /\ new.filled = 0
    BY <2>1, TakeOrderType, ClampedQty, Ranges DEF BrokerOrders
  <2> HIDE DEF new
  <2>4. ord \in Seq(BrokerOrders)
    BY OrdType
  <2>5. Total(PartsOf(Append(ord, new), t)) = Total(PartsOf(ord, t))
    BY <2>3, <2>4, PartsSent
  <2>6. Total(WorkingFills(t)') = Total(WorkingFills(t))
    BY <2>2, <2>5, DriftReads
  <2>7. ClosedFills(t)' = ClosedFills(t)
    BY <1>1, DriftReads
  <2> QED BY <1>1, <2>6, <2>7 DEF Drift
<1> QED BY <1>2, <1>3 DEF Send, SkipOrder, SendOrder, LoseReply

LEMMA FillDrift ==
    ASSUME TypeInv, PollInv, [Next]_vars, NEW b \in DOMAIN ord, Fill(b), NEW t \in Tickers
    PROVE  Drift(t)' = Drift(t)
<1>1. PICK n \in (ord[b].filled + 1)..ord[b].qty :
        /\ \/ Close(b, n)
           \/ ord' = [ord EXCEPT ![b].filled = n] /\ UNCHANGED log
        /\ pos' = [pos EXCEPT ![ord[b].key.t] = @ + Signed(ord[b].key.buy, n - ord[b].filled)]
  BY DEF Fill
<1> DEFINE buy == ord[b].key.buy
           was == ord[b].filled
           more == IF ord[b].key.t = t THEN Signed(buy, n) ELSE 0
<1>2. ord[b] \in BrokerOrders /\ ord \in Seq(BrokerOrders) /\ b \in OpenOrders /\ b \in OpenOf(ord)
  BY OrdType, DriftReads DEF Fill
<1>3. was \in 0..MaxQty /\ ord[b].qty \in 1..MaxQty /\ ord[b].key.t \in Tickers
  BY <1>2 DEF BrokerOrders, Keys
<1>4. n \in 0..MaxQty /\ n \in Int /\ was \in Int
  BY <1>3, Ranges
<1>5. UNCHANGED pollVars /\ UNCHANGED book
  BY DEF Fill, procVars, bookVars
<1>6. Signed(buy, n) \in Int /\ Signed(buy, was) \in Int /\ Signed(buy, n - was) = Signed(buy, n) - Signed(buy, was)
  BY <1>4, SignedInt
<1>7. more \in Int /\ Part(ord[b], t) \in Int
  BY <1>6 DEF Part
<1>8. pos'[t] = pos[t] - Part(ord[b], t) + more
  <2>1. pos \in [Tickers -> Int]
    BY DEF TypeInv, TypeOK, BrokerType, Books
  <2>2. CASE ord[b].key.t = t
    <3>1. pos'[t] = pos[t] + Signed(buy, n - was)
      BY <1>1, <1>3, <2>1, <2>2
    <3>2. Part(ord[b], t) = Signed(buy, was) /\ more = Signed(buy, n)
      BY <2>2 DEF Part
    <3> QED BY <1>6, <2>1, <3>1, <3>2
  <2>3. CASE ord[b].key.t # t
    <3>1. pos'[t] = pos[t]
      BY <1>1, <2>1, <2>3
    <3>2. Part(ord[b], t) = 0 /\ more = 0
      BY <2>3 DEF Part
    <3> QED BY <2>1, <3>1, <3>2
  <2> QED BY <2>2, <2>3
<1>9. Total(ClosedFills(t)') + Total(WorkingFills(t)')
        = Total(ClosedFills(t)) + Total(WorkingFills(t)) - Part(ord[b], t) + more
  <2>1. CASE Close(b, n)
    BY <1>2, <1>4, <1>5, <2>1, CloseShifts
  <2>2. CASE ord' = [ord EXCEPT ![b].filled = n] /\ UNCHANGED log
    <3>1. Total(PartsOf([ord EXCEPT ![b].filled = n], t)) = Total(PartsOf(ord, t)) - Part(ord[b], t) + more
      BY <1>2, <1>4, PartsFilled
    <3>2. Total(WorkingFills(t)') = Total(WorkingFills(t)) - Part(ord[b], t) + more
      <4> HIDE DEF more
      <4> QED BY <2>2, <3>1, DriftReads
    <3>3. Unbooked' = Unbooked
      BY <1>5, <2>2 DEF Unbooked, pollVars
    <3>4. ClosedFills(t)' = ClosedFills(t)
      BY <2>2, <3>3, DriftReads
    <3> HIDE DEF more
    <3> QED BY <1>7, <3>2, <3>4, DriftTypes
  <2> QED BY <1>1, <2>1, <2>2
<1> HIDE DEF more
<1>10. book'[t] = book[t]
  BY <1>5
<1> QED BY <1>7, <1>8, <1>9, <1>10, DriftTypes DEF Drift

LEMMA ExpireDrift ==
    ASSUME TypeInv, PollInv, [Next]_vars, NEW b \in DOMAIN ord, Expire(b), NEW t \in Tickers
    PROVE  Drift(t)' = Drift(t)
<1>1. b \in OpenOrders /\ Close(b, ord[b].filled) /\ UNCHANGED <<pos, book, pollVars>>
  BY DEF Expire, procVars, bookVars
<1>2. ord[b].filled \in 0..MaxQty
  BY OrdType DEF BrokerOrders
<1>3. Total(ClosedFills(t)') + Total(WorkingFills(t)')
        = Total(ClosedFills(t)) + Total(WorkingFills(t)) - Part(ord[b], t)
            + (IF ord[b].key.t = t THEN Signed(ord[b].key.buy, ord[b].filled) ELSE 0)
  BY <1>1, <1>2, CloseShifts
<1>4. Part(ord[b], t) = IF ord[b].key.t = t THEN Signed(ord[b].key.buy, ord[b].filled) ELSE 0
  BY DEF Part
<1>5. Part(ord[b], t) \in Int
  BY <1>2, Ranges, SignedInt DEF Part
<1>6. Total(ClosedFills(t)') + Total(WorkingFills(t)') = Total(ClosedFills(t)) + Total(WorkingFills(t))
  BY <1>3, <1>4, <1>5, DriftTypes
<1> QED BY <1>1, <1>6, DriftTypes DEF Drift

LEMMA OtherDrift ==
    ASSUME TypeInv, PollInv, [Next]_vars, NEW k \in Tickers, NEW buy \in BOOLEAN,
           OtherTrade(k, buy), NEW t \in Tickers
    PROVE  Drift(t)' = Drift(t)
<1> DEFINE e == [t |-> k, dq |-> Signed(buy, 1)]
<1>1. /\ log' = Append(log, e) /\ pos' = [pos EXCEPT ![k] = @ + Signed(buy, 1)]
      /\ UNCHANGED <<book, ord, pollVars>>
  BY DEF OtherTrade, procVars, bookVars
<1>2. Signed(buy, 1) \in Int
  BY SignedInt
<1>3. e \in Entries /\ Moved(e, t) = IF k = t THEN Signed(buy, 1) ELSE 0
  BY <1>2 DEF Entries, Moved
<1>4. pos'[t] = pos[t] + (IF k = t THEN Signed(buy, 1) ELSE 0)
  BY <1>1, <1>2 DEF TypeInv, TypeOK, BrokerType, Books
<1> HIDE DEF e
<1>5. Total(ClosedFills(t)') = Total(ClosedFills(t)) + Moved(e, t)
  BY <1>1, <1>3, LogGrows
<1>6. WorkingFills(t)' = WorkingFills(t)
  BY <1>1, DriftReads
<1>7. pos'[t] = pos[t] + Moved(e, t) /\ Moved(e, t) \in Int
  BY <1>2, <1>3, <1>4
<1> QED BY <1>1, <1>5, <1>6, <1>7, DriftTypes DEF Drift

LEMMA DriftStep ==
    ASSUME TypeInv, PollInv, [Next]_vars, Trading, Trading', NEW t \in Tickers
    PROVE  Drift(t)' = Drift(t)
<1>1. CASE UNCHANGED <<book, brokerVars, pollVars>>
  BY <1>1, DriftKept DEF brokerVars, pollVars, Unbooked
<1>2. CASE PollFills
  <2>1. Fetch(now) /\ now \in Nat /\ wm <= now /\ raw = {}
    BY <1>2 DEF PollFills, PollInv, TypeInv, TypeOK, ClockType
  <2> QED BY <2>1, FetchKeeps, DriftKept DEF Fetch, bookVars, brokerVars
<1>3. CASE SettlePoll
  <2>1. Fetch(Len(log)) /\ Len(log) \in Nat /\ wm <= Len(log) /\ raw = {}
    BY <1>3, LogType DEF SettlePoll, PollInv
  <2> QED BY <2>1, FetchKeeps, DriftKept DEF Fetch, bookVars, brokerVars
<1>4. CASE Startup
  BY <1>4 DEF Startup, RestoreBook, ReadPositions, FinishReconcile, Trading
<1>5. CASE Step /\ ~PollFills
  BY <1>1, <1>5, BookFillDrift DEF Step, StepBegin, StepRaises, MarkBook, ReadPause, Decide,
     CheckBatch, EndBatch, SaveBook, bookVars
<1>6. CASE Send
  BY <1>6, SendDrift
<1>7. CASE WayOut /\ ~SettlePoll
  BY <1>1, <1>7 DEF WayOut, SettleRound, SettleFails, Forget, SyncBook, ExitOnce, StopBegin,
     CancelOrder, StopEnd, Trading, bookVars
<1>8. CASE \E once \in Modes, adopt \in Adopts : Start(once, adopt)
  BY <1>8 DEF Start, Trading
<1>9. CASE Interrupt \/ Crash
  BY <1>9 DEF Interrupt, Crash, Forget, Trading
<1>10. CASE FlipKill \/ FlipPause \/ NextSession \/ UNCHANGED vars
  BY <1>1, <1>10 DEF FlipKill, FlipPause, NextSession, vars, procVars, bookVars
<1>11. CASE \E b \in DOMAIN ord : Fill(b) \/ Expire(b)
  BY <1>11, FillDrift, ExpireDrift
<1>12. CASE \E k \in Tickers, buy \in BOOLEAN : OtherTrade(k, buy)
  BY <1>12, OtherDrift
<1> QED BY <1>2, <1>3, <1>4, <1>5, <1>6, <1>7, <1>8, <1>9, <1>10, <1>11, <1>12
        DEF Next, Runner, World

(* _poll_fills: with its moving watermark and _seen_fills every closed order  *)
(* of the account is booked exactly once.  From the moment trading starts     *)
(* until the process leaves the loop, no step of anybody moves the book away  *)
(* from the account or back, whatever fills, part by part, expires, is traded *)
(* by somebody else or fails.                                                 *)
THEOREM NoFillIsLostOrDoubled == Spec => NoFillLostOrDoubled
<1>1. Init => PollInv
  BY DEF Init, PollInv
<1>2. TypeInv /\ PollInv /\ [Next]_vars => PollInv'
  BY PollStep
<1>3. TypeInv /\ PollInv /\ [Next]_vars
        => (Trading /\ Trading' => \A t \in Tickers : Drift(t)' = Drift(t))
  BY DriftStep
<1> QED BY <1>1, <1>2, <1>3, TypeInvariant, PTL DEF Spec, NoFillLostOrDoubled

=============================================================================
