----------------------------- MODULE LiveRunner -----------------------------
(* The live/paper runner of lab/live/runner.py with what it is run against:  *)
(* the broker account, the registry (order table, saved book, pause flag),   *)
(* the kill switch, and the operator.  One action per handler, cut wherever  *)
(* the code gives way to somebody else: a broker call, a registry read, the  *)
(* reading of the kill switch.  Between two actions the process may die, an  *)
(* order may fill, and the operator may act.                                 *)
(*                                                                           *)
(* Data is kept to what the properties tell apart.  A position is a signed   *)
(* number of shares; prices, cash and weights are left out, so the strategy  *)
(* and the risk gate appear as "some set of orders, none under the kill      *)
(* switch".  Time is a position in the log of closed orders: that is all     *)
(* poll_fills(since) can see of it.                                          *)
(*                                                                           *)
(* An operator named ...Mutant is its namesake with a plausible bug in it; a *)
(* property is worth stating only if it fails with one of them in place.     *)
EXTENDS Integers, Sequences, FiniteSets, Sums

CONSTANTS
    Tickers,      \* the universe
    MaxQty,       \* largest order, in shares
    Sessions,     \* number of trading sessions
    MaxErrors,    \* max_consecutive_errors
    Modes,        \* values of `once` the operator starts the runner with
    Adopts,       \* values of `adopt` the operator starts the runner with
    DedupBroker,  \* the broker refuses a client_order_id it has seen
    Faults,       \* what may go wrong or interfere, from FaultKinds
    MaxOrders,    \* bound: orders the account ever holds
    MaxFills,     \* bound: closed orders in the account's log
    MaxFaults     \* bound: crashes, failed registry calls and lost replies

FaultKinds == {"crash", "db", "lost_reply", "outage", "step_error", "stale",
               "ruin", "reject", "partial", "startup_fill", "other_trade",
               "kill", "pause", "interrupt"}

ASSUME ConstantsAssumption ==
    /\ MaxQty \in Nat \ {0}
    /\ Sessions \in Nat \ {0}
    /\ MaxErrors \in Nat \ {0}
    /\ Modes \subseteq BOOLEAN
    /\ Adopts \subseteq BOOLEAN
    /\ DedupBroker \in BOOLEAN
    /\ Faults \subseteq FaultKinds
    /\ MaxOrders \in Nat
    /\ MaxFills \in Nat
    /\ MaxFaults \in Nat

-----------------------------------------------------------------------------
(* Data *)

\* Order.make_idem_key: (strategy, session, ticker, side), one strategy here.
Keys == [s: 1..Sessions, t: Tickers, buy: BOOLEAN]

\* What _build_orders hands to submit_orders.
Orders == [t: Tickers, buy: BOOLEAN, qty: 1..MaxQty]

\* An order as the account holds it; its broker id is its place in `ord`.
BrokerOrders == [key: Keys, qty: 1..MaxQty, filled: 0..MaxQty,
                 st: {"open", "closed", "rejected"}]

\* A row of the `orders` table.
Rows == [bid: Nat, key: Keys, rejected: BOOLEAN]

Books == [Tickers -> Int]
Flat == [t \in Tickers |-> 0]

Signed(buy, n) == IF buy THEN n ELSE -n

VARIABLES
    \* the process; all of it is lost when the process ends
    pc,          \* where start/step/stop is
    cfg,         \* [once, adopt]
    book,        \* Portfolio: shares per ticker
    remote,      \* what broker.positions() returned, until reconcile ends
    known,       \* broker ids of the persisted orders, until reconcile ends
    seenKeys,    \* _idem_by_session, its sets merged
    loaded,      \* the sessions _idem_by_session has an entry for
    now, today,  \* the step's time (a log position, until polled) and session
    wm,          \* _last_fill_poll, as a log position
    raw,         \* fills the broker returned and the loop has still to book
    seenFills,   \* _seen_fills
    blocked, pausedMem, errors,   \* self.blocked, self.paused, self._errors
    batch,       \* orders of this step still to send
    sent,        \* rows of this step still to persist
    killed,      \* the kill switch as submit_orders read it
    cancels,     \* open orders stop() has still to cancel
    \* the registry
    rows, saved, row, paused,  \* no saved book is a flat one
    \* the broker account
    ord, pos, log,
    \* the outside world
    session, kill, faults,
    \* history, read by properties only
    lateKill,    \* the switch was engaged after the batch read it
    latePause,   \* the pause was set after the step read it
    unread       \* the batch being sent is the one that found its table unreadable

bookVars   == <<book, remote>>
idemVars   == <<known, seenKeys, loaded>>
pollVars   == <<wm, raw, seenFills>>
clockVars  == <<now, today>>
flagVars   == <<blocked, pausedMem, errors>>
batchVars  == <<batch, sent, killed>>
procVars   == <<pc, cfg, bookVars, idemVars, clockVars, pollVars, flagVars,
                batchVars, cancels>>
dbVars     == <<rows, saved, row, paused>>
brokerVars == <<ord, pos, log>>
worldVars  == <<session, kill>>
lateVars   == <<lateKill, latePause, unread>>
vars == <<procVars, dbVars, brokerVars, worldVars, faults, lateVars>>

PCs == {"down", "restore", "positions", "orders", "idle", "poll", "book",
        "pause", "decide", "check", "send", "save", "settle", "settlebook",
        "settlelast", "sync", "exit", "stop", "cancel"}

\* The types, group by group.
ControlType == pc \in PCs /\ cfg \in [once: BOOLEAN, adopt: BOOLEAN]
BookType == book \in Books /\ remote \in Books
IdemType == known \subseteq Nat /\ seenKeys \subseteq Keys /\ loaded \subseteq 1..Sessions
ClockType == now \in Nat /\ today \in 1..Sessions
PollType == wm \in Nat /\ raw \subseteq DOMAIN log /\ seenFills \subseteq Nat
FlagType == blocked \in BOOLEAN /\ pausedMem \in BOOLEAN
ErrorType == errors \in 0..MaxErrors
BatchType == batch \subseteq Orders /\ sent \subseteq Rows /\ killed \in BOOLEAN
CancelType == cancels \subseteq DOMAIN ord
DbType == /\ rows \subseteq Rows /\ saved \in Books /\ paused \in BOOLEAN
          /\ row \in {"none", "running", "blocked", "stopped"}
BrokerType == /\ ord \in Seq(BrokerOrders) /\ pos \in Books
              /\ log \in Seq([t: Tickers, dq: Int])
WorldType == session \in 1..Sessions /\ kill \in BOOLEAN
FaultType == faults \in 0..MaxFaults
LateType == lateKill \in BOOLEAN /\ latePause \in BOOLEAN /\ unread \in BOOLEAN

(* The one type invariant: every variable of the process, the registry, the   *)
(* account and the world keeps its range; raw and cancels name orders that    *)
(* exist, and the error count never passes max_consecutive_errors.            *)
TypeOK == /\ ControlType /\ BookType /\ IdemType /\ ClockType /\ PollType /\ FlagType
          /\ ErrorType /\ BatchType /\ CancelType /\ DbType /\ BrokerType /\ WorldType
          /\ FaultType /\ LateType

-----------------------------------------------------------------------------
(* Helpers *)

OpenOrders == {b \in DOMAIN ord : ord[b].st = "open"}

\* A failing call uses up one of MaxFaults; NoFault is the call that works.
Fails(kind) == kind \in Faults /\ faults < MaxFaults /\ faults' = faults + 1
NoFault == UNCHANGED faults

\* _upsert_live_row swallows a registry failure.
UpsertRow(status) ==
    \/ row' = status /\ NoFault
    \/ UNCHANGED row /\ Fails("db")

\* A process that is not running has no memory.
Forget ==
    /\ pc' = "down" /\ cfg' = [once |-> FALSE, adopt |-> FALSE]
    /\ book' = Flat /\ remote' = Flat
    /\ known' = {} /\ seenKeys' = {} /\ loaded' = {}
    /\ now' = 0 /\ today' = 1
    /\ wm' = 0 /\ raw' = {} /\ seenFills' = {}
    /\ blocked' = FALSE /\ pausedMem' = FALSE /\ errors' = 0
    /\ batch' = {} /\ sent' = {} /\ killed' = FALSE
    /\ cancels' = {}
    /\ lateKill' = FALSE /\ latePause' = FALSE /\ unread' = FALSE

\* Where the caller of step() goes when it returns.
StepReturns == pc' = IF cfg.once THEN "settle" ELSE "save"

\* Fills known to poll_fills that the loop has not booked.
Unbooked == {i \in DOMAIN log : i > wm /\ i \notin seenFills} \cup raw

Init ==
    /\ pc = "down" /\ cfg = [once |-> FALSE, adopt |-> FALSE]
    /\ book = Flat /\ remote = Flat
    /\ known = {} /\ seenKeys = {} /\ loaded = {}
    /\ now = 0 /\ today = 1
    /\ wm = 0 /\ raw = {} /\ seenFills = {}
    /\ blocked = FALSE /\ pausedMem = FALSE /\ errors = 0
    /\ batch = {} /\ sent = {} /\ killed = FALSE
    /\ cancels = {}
    /\ rows = {} /\ saved = Flat /\ row = "none" /\ paused = FALSE
    /\ ord = <<>> /\ pos = Flat /\ log = <<>>
    /\ session = 1 /\ kill = FALSE /\ faults = 0
    /\ lateKill = FALSE /\ latePause = FALSE /\ unread = FALSE

-----------------------------------------------------------------------------
(* Startup: start() and reconcile() *)

\* `lab paper start`: refused under the kill switch; a new process, whose
\* start() registers the run.
Start(once, adopt) ==
    /\ pc = "down" /\ ~kill
    /\ pc' = "restore" /\ cfg' = [once |-> once, adopt |-> adopt]
    /\ UNCHANGED <<bookVars, idemVars, clockVars, pollVars, flagVars, batchVars,
                   cancels, dbVars, brokerVars, worldVars, faults, lateVars>>

\* The non-rejected keys of one session: _load_idem_keys.
PlacedKeysMutant(s) == {}
PlacedKeys(s) == {r.key : r \in {x \in rows : ~x.rejected /\ x.key.s = s}}

StoredIds == {r.bid : r \in rows}

\* restore_book, and the _known_order_ids that reconcile is called with.  Any
\* of the three reads may fail: no book is a cold start, no ids are known, and
\* the cached key set of the session stays empty (and the runner blocks itself, until
\* reconcile finds nothing wrong and unblocks it).
RestoreBook ==
    /\ pc = "restore"
    /\ pc' = "positions"
    /\ loaded' = {session}
    /\ \/ /\ book' = saved /\ known' = StoredIds /\ seenKeys' = PlacedKeys(session)
          /\ NoFault /\ UNCHANGED blocked
       \/ /\ book' = Flat /\ known' = StoredIds /\ seenKeys' = PlacedKeys(session)
          /\ Fails("db") /\ UNCHANGED blocked
       \/ /\ book' = saved /\ known' = {} /\ seenKeys' = PlacedKeys(session)
          /\ Fails("db") /\ UNCHANGED blocked
       \/ /\ book' = saved /\ known' = StoredIds /\ seenKeys' = {}
          /\ Fails("db") /\ blocked' = TRUE
    /\ UNCHANGED <<cfg, remote, clockVars, pollVars, pausedMem, errors, batchVars,
                   cancels, dbVars, brokerVars, worldVars, lateVars>>

\* _block and the "blocked" row; start() returns and the command exits.
RefuseToTrade == UpsertRow("blocked") /\ Forget

\* reconcile, first call: broker.positions().  A broker that does not answer
\* is a diff no one can acknowledge.
ReadPositions ==
    /\ pc = "positions"
    /\ \/ /\ pc' = "orders" /\ remote' = pos
          /\ UNCHANGED <<cfg, book, idemVars, clockVars, pollVars, flagVars,
                         batchVars, cancels, row, faults, lateVars>>
       \/ "outage" \in Faults /\ RefuseToTrade
    /\ UNCHANGED <<rows, saved, paused, brokerVars, worldVars>>

\* No position diff of any kind, and no unknown_open_order.
AgreedMutant == remote = book
Agreed == remote = book /\ OpenOrders \subseteq known

\* reconcile, second call: broker.open_orders(), the verdict, and the rest of
\* start(): adopt_broker_state when the operator acknowledged, the watermark
\* _last_fill_poll = utcnow(), the "running" row.
FinishReconcile ==
    /\ pc = "orders"
    /\ \/ /\ Agreed \/ cfg.adopt
          /\ book' = remote /\ remote' = Flat /\ known' = {}
          /\ wm' = Len(log)
          /\ blocked' = FALSE
          /\ UpsertRow("running")
          /\ pc' = "idle"
          /\ UNCHANGED <<cfg, seenKeys, loaded, clockVars, raw, seenFills, pausedMem,
                         errors, batchVars, cancels, lateVars>>
       \/ /\ ~Agreed /\ ~cfg.adopt
          /\ RefuseToTrade
       \/ "outage" \in Faults /\ RefuseToTrade
    /\ UNCHANGED <<rows, saved, paused, brokerVars, worldVars>>

-----------------------------------------------------------------------------
(* The loop body: step() *)

\* A blocked runner skips its steps.
SkipsStepMutant == FALSE
SkipsStep == blocked

\* Up to the stale-data guard: `now` is the step's timestamp.
StepBegin ==
    /\ pc = "idle"
    /\ now' = Len(log) /\ today' = session
    /\ latePause' = FALSE
    /\ \/ /\ SkipsStep
          /\ StepReturns /\ UNCHANGED <<blocked, row, faults>>
       \/ /\ ~SkipsStep
          /\ pc' = "poll" /\ UNCHANGED <<blocked, row, faults>>
       \/ /\ ~SkipsStep /\ "stale" \in Faults
          /\ blocked' = TRUE /\ UpsertRow("blocked") /\ StepReturns
    /\ UNCHANGED <<cfg, bookVars, idemVars, pollVars, pausedMem, errors, batchVars,
                   cancels, rows, saved, paused, brokerVars, worldVars, lateKill, unread>>

\* The error count, and when it ends the loop.
CountErrorMutant == 1
CountError == errors + 1
GivesUp == CountError >= MaxErrors

\* An exception anywhere in step(): counted by start(), and the loop gives up
\* after max_consecutive_errors; a one-shot run exits without saving the book.
StepRaises ==
    /\ \/ pc \in {"idle", "decide"} /\ ~blocked /\ "step_error" \in Faults
       \/ pc = "poll" /\ "outage" \in Faults
    /\ errors' = CountError
    /\ pc' = IF cfg.once THEN "exit" ELSE IF GivesUp THEN "stop" ELSE "idle"
    /\ UNCHANGED <<cfg, bookVars, idemVars, clockVars, pollVars, blocked, pausedMem,
                   batchVars, cancels, dbVars, brokerVars, worldVars, faults, lateVars>>

\* What the account answers to poll_fills(since): its docstring, "fills that
\* landed since".  The adapter hands `since` to the account's own filter `after`,
\* which is not part of the repository and may go by another time of an order.
LandedSince(at) == {i \in DOMAIN log : i > at}

\* What the loop of _poll_fills does not skip: not booked by an earlier,
\* overlapping poll.
FreshFillsMutant == LandedSince(wm)
FreshFills == {i \in LandedSince(wm) : i \notin seenFills}

\* The answer of broker.poll_fills(since=_last_fill_poll); the watermark moves
\* to the time the caller passed in, not to the end of what was returned.
Fetch(at) ==
    /\ raw' = FreshFills
    /\ wm' = at /\ now' = 0
    /\ UNCHANGED <<cfg, bookVars, idemVars, today, seenFills, flagVars, batchVars,
                   cancels, dbVars, brokerVars, worldVars, faults, lateVars>>

PollFills == pc = "poll" /\ pc' = "book" /\ Fetch(now)

\* The loop of _poll_fills: each fresh fill is booked, oldest first.
BookFill ==
    /\ pc \in {"book", "settlebook", "settlelast"}
    /\ \E i \in raw :
         /\ \A j \in raw : i <= j
         /\ raw' = raw \ {i}
         /\ seenFills' = seenFills \cup {i}
         /\ book' = [book EXCEPT ![log[i].t] = @ + log[i].dq]
    /\ UNCHANGED <<pc, cfg, remote, idemVars, clockVars, wm, flagVars, batchVars,
                   cancels, dbVars, brokerVars, worldVars, faults, lateVars>>

\* Fills booked: mark the book; a book worth nothing or less blocks trading,
\* this time without a word in the live_strategies row.
MarkBook ==
    /\ pc = "book" /\ raw = {}
    /\ \/ pc' = "pause" /\ UNCHANGED blocked
       \/ "ruin" \in Faults /\ blocked' = TRUE /\ StepReturns
    /\ UNCHANGED <<cfg, bookVars, idemVars, clockVars, pollVars, pausedMem, errors,
                   batchVars, cancels, dbVars, brokerVars, worldVars, faults, lateVars>>

PauseFlagMutant == pausedMem
PauseFlag == IF row = "none" THEN pausedMem ELSE paused

\* _is_paused reads the flag from the table, and falls back on memory.
ReadPause ==
    /\ pc = "pause"
    /\ \/ pausedMem' = PauseFlag /\ NoFault
       \/ UNCHANGED pausedMem /\ Fails("db")
    /\ IF pausedMem' THEN StepReturns ELSE pc' = "decide"
    /\ UNCHANGED <<cfg, bookVars, idemVars, clockVars, pollVars, blocked, errors,
                   batchVars, cancels, dbVars, brokerVars, worldVars, lateVars>>

\* on_bar, gate.evaluate and _build_orders: at most one order per ticker, of
\* any side and size, and none when the gate sees the kill switch.
Decide ==
    /\ pc = "decide"
    /\ batch' \in {B \in SUBSET Orders :
                     /\ \A o, p \in B : o.t = p.t => o = p
                     /\ kill => B = {}}
    /\ pc' = "check"
    /\ UNCHANGED <<cfg, bookVars, idemVars, clockVars, pollVars, flagVars, sent,
                   killed, cancels, dbVars, brokerVars, worldVars, faults, lateVars>>

-----------------------------------------------------------------------------
(* The order batch: submit_orders() *)

Key(o) == [s |-> today, t |-> o.t, buy |-> o.buy]

\* Before the loop: the session's keys (read once per session and process) and
\* the kill switch.  An unreadable order table blocks the runner, with an empty
\* key set in the cache, and this batch goes on.
CheckBatch ==
    /\ pc = "check"
    /\ killed' = kill
    /\ \/ today \in loaded /\ UNCHANGED <<idemVars, blocked, faults, unread>>
       \/ /\ today \notin loaded
          /\ loaded' = loaded \cup {today} /\ UNCHANGED known
          /\ \/ /\ seenKeys' = seenKeys \cup PlacedKeys(today)
                /\ UNCHANGED <<blocked, unread>> /\ NoFault
             \/ UNCHANGED seenKeys /\ blocked' = TRUE /\ unread' = TRUE /\ Fails("db")
    /\ pc' = "send"
    /\ UNCHANGED <<cfg, bookVars, clockVars, pollVars, pausedMem, errors, batch, sent,
                   cancels, dbVars, brokerVars, worldVars, lateKill, latePause>>

\* _kill_switch_allows: under the switch, only an order that reduces the
\* position the book holds, and no larger than that position.
Reduces(o) == IF o.buy THEN book[o.t] < 0 ELSE book[o.t] > 0
Holding(t) == IF book[t] < 0 THEN -book[t] ELSE book[t]
Clamped(o) == IF killed /\ Holding(o.t) < o.qty
              THEN [o EXCEPT !.qty = Holding(o.t)] ELSE o
MaySendMutant(o) == Key(o) \notin seenKeys
MaySend(o) == Key(o) \notin seenKeys /\ (killed => Reduces(o))

\* The account knows an order under this key already: client_order_id is taken.
Placed(k) == {b \in DOMAIN ord : ord[b].key = k}
DuplicateMutant(o) == FALSE
Duplicate(o) == DedupBroker /\ Placed(Key(o)) # {}

\* The account takes the order, or takes it and rejects it.
Accept(o, st) ==
    /\ ~Duplicate(o) /\ Len(ord) < MaxOrders
    /\ ord' = Append(ord, [key |-> Key(o), qty |-> Clamped(o).qty,
                           filled |-> 0, st |-> st])

\* An order leaves the batch; what else submit_orders does with it follows.
TakeOrder(o) ==
    /\ pc = "send" /\ o \in batch
    /\ batch' = batch \ {o}
    /\ UNCHANGED <<pc, cfg, bookVars, known, loaded, clockVars, pollVars, flagVars,
                   killed, cancels, dbVars, pos, log, worldVars, lateVars>>

\* Skipped as a duplicate, refused under the kill switch, or refused by the
\* broker call raising: nothing is recorded, so nothing stops a later attempt.
SkipOrder(o) ==
    /\ TakeOrder(o)
    /\ UNCHANGED <<seenKeys, sent, ord, faults>>

\* broker.submit returns: a new order, or for a key the account knows the order
\* it already holds, however that one ended.
SendOrder(o) ==
    /\ TakeOrder(o) /\ MaySend(o)
    /\ \E b \in 1..(Len(ord) + 1), st \in {"open", "rejected", "closed"} :
         /\ \/ /\ b = Len(ord) + 1 /\ Accept(o, st)
               /\ st = "open" \/ (st = "rejected" /\ "reject" \in Faults)
            \/ /\ Duplicate(o) /\ b \in Placed(Key(o)) /\ st = ord[b].st
               /\ UNCHANGED ord
         /\ sent' = sent \cup {[bid |-> b, key |-> Key(o),
                                rejected |-> st = "rejected"]}
    /\ seenKeys' = seenKeys \cup {Key(o)}
    /\ NoFault

\* The account takes the order and the answer is lost: the call raises, and the
\* runner books the order as refused.
LoseReply(o) ==
    /\ TakeOrder(o) /\ MaySend(o)
    /\ Accept(o, "open") /\ Fails("lost_reply")
    /\ UNCHANGED <<seenKeys, sent>>

\* After the loop: note_orders, _persist_orders for the whole batch at once,
\* the decision record, and the end of step().
EndBatch ==
    /\ pc = "send" /\ batch = {}
    /\ \/ rows' = rows \cup sent /\ NoFault
       \/ UNCHANGED rows /\ sent # {} /\ Fails("db")
    /\ sent' = {} /\ killed' = FALSE /\ lateKill' = FALSE /\ unread' = FALSE
    /\ StepReturns
    /\ UNCHANGED <<cfg, bookVars, idemVars, clockVars, pollVars, flagVars, batch,
                   cancels, saved, row, paused, brokerVars, worldVars, latePause>>

-----------------------------------------------------------------------------
(* Between steps, and the ways out *)

\* _save_book is an UPDATE: it needs the row, and a failure is swallowed.
WriteBook(b) ==
    \/ saved' = (IF row = "none" THEN saved ELSE b) /\ NoFault
    \/ UNCHANGED saved /\ Fails("db")

\* The step returned: the error count starts again and the book is saved.
SaveBook ==
    /\ pc = "save"
    /\ errors' = 0 /\ WriteBook(book) /\ pc' = "idle"
    /\ UNCHANGED <<cfg, bookVars, idemVars, clockVars, pollVars, blocked, pausedMem,
                   batchVars, cancels, rows, row, paused, brokerVars, worldVars, lateVars>>

\* settle() in a one-shot run.  One round is open_orders() and _poll_fills; a
\* round that saw no working order is the last one, as is the one the deadline
\* falls into.
SettlePoll ==
    /\ pc = "settle"
    /\ pc' = IF OpenOrders = {} THEN "settlelast" ELSE "settlebook"
    /\ Fetch(Len(log))

SettleRound ==
    /\ raw = {}
    /\ \/ pc = "settlebook" /\ pc' \in {"settle", "sync"}
       \/ pc = "settlelast" /\ pc' = "sync"
    /\ UNCHANGED <<cfg, bookVars, idemVars, clockVars, pollVars, flagVars, batchVars,
                   cancels, dbVars, brokerVars, worldVars, faults, lateVars>>

\* A dead broker ends the wait when open_orders() fails; when poll_fills fails
\* the exception leaves start() and with it the process, nothing saved and the
\* row still "running".
SettleFails ==
    /\ pc = "settle" /\ "outage" \in Faults
    /\ \/ /\ pc' = "sync"
          /\ UNCHANGED <<cfg, bookVars, idemVars, clockVars, pollVars, flagVars,
                         batchVars, cancels, lateVars>>
       \/ Forget
    /\ UNCHANGED <<dbVars, brokerVars, worldVars, faults>>

\* sync_book_from_broker and _save_book: the book becomes what the account holds
\* (or stays, if the account does not answer) and is saved.
SyncBook ==
    /\ pc = "sync"
    /\ book' \in {pos} \cup {b \in {book} : "outage" \in Faults}
    /\ WriteBook(book')
    /\ pc' = "exit"
    /\ UNCHANGED <<cfg, remote, idemVars, clockVars, pollVars, flagVars, batchVars,
                   cancels, rows, row, paused, brokerVars, worldVars, lateVars>>

\* stop(cancel_open=False): working orders stay at the broker.
ExitOnce ==
    /\ pc = "exit"
    /\ UpsertRow("stopped") /\ Forget
    /\ UNCHANGED <<rows, saved, paused, brokerVars, worldVars>>

\* The clock is exhausted, or the operator interrupts: wherever it was, the
\* process drops what it was doing and runs stop().
Interrupt ==
    /\ "interrupt" \in Faults /\ pc \notin {"down", "stop", "cancel"}
    /\ pc' = "stop"
    /\ UNCHANGED <<cfg, bookVars, idemVars, clockVars, pollVars, flagVars, batchVars,
                   cancels, dbVars, brokerVars, worldVars, faults, lateVars>>

\* stop(): cancel every open order of the account, best effort.
StopBegin ==
    /\ pc = "stop"
    /\ cancels' \in {OpenOrders} \cup {c \in {{}} : "outage" \in Faults}
    /\ pc' = "cancel"
    /\ UNCHANGED <<cfg, bookVars, idemVars, clockVars, pollVars, flagVars, batchVars,
                   dbVars, brokerVars, worldVars, faults, lateVars>>

\* An order ends, with `n` shares of it filled: the log of closed orders grows
\* by one entry for the whole of it, if any of it was filled.
Close(b, n) ==
    /\ ord' = [ord EXCEPT ![b].st = "closed", ![b].filled = n]
    /\ IF n = 0 THEN UNCHANGED log
       ELSE log' = Append(log, [t |-> ord[b].key.t,
                                dq |-> Signed(ord[b].key.buy, n)])

CancelOrder ==
    /\ pc = "cancel"
    /\ \E b \in cancels :
         /\ cancels' = cancels \ {b}
         /\ IF ord[b].st = "open"
            THEN Close(b, ord[b].filled) \/ ("outage" \in Faults /\ UNCHANGED <<ord, log>>)
            ELSE UNCHANGED <<ord, log>>
    /\ UNCHANGED <<pc, cfg, bookVars, idemVars, clockVars, pollVars, flagVars,
                   batchVars, dbVars, pos, worldVars, faults, lateVars>>

StopEnd ==
    /\ pc = "cancel" /\ cancels = {}
    /\ UpsertRow("stopped") /\ Forget
    /\ UNCHANGED <<rows, saved, paused, brokerVars, worldVars>>

-----------------------------------------------------------------------------
(* The account, the operator, and the machine *)

\* The account may move while the runner is between broker.positions() and its
\* watermark only if Faults says so.
MayFill == pc = "orders" => "startup_fill" \in Faults

\* Bound: an order that starts to fill takes a place in the log.
Room == Len(log) + Cardinality({b \in OpenOrders : ord[b].filled > 0}) < MaxFills

Fill(b) ==
    /\ MayFill /\ b \in OpenOrders /\ (Room \/ ord[b].filled > 0)
    /\ LET k == ord[b].key IN
       \E n \in (ord[b].filled + 1)..ord[b].qty :
         /\ IF n = ord[b].qty THEN Close(b, n)
            ELSE /\ "partial" \in Faults
                 /\ ord' = [ord EXCEPT ![b].filled = n] /\ UNCHANGED log
         /\ pos' = [pos EXCEPT ![k.t] = @ + Signed(k.buy, n - ord[b].filled)]
    /\ UNCHANGED <<procVars, dbVars, worldVars, faults, lateVars>>

\* A day order that does not fill expires; a human may also cancel it.
Expire(b) ==
    /\ b \in OpenOrders /\ Close(b, ord[b].filled)
    /\ UNCHANGED <<procVars, dbVars, pos, worldVars, faults, lateVars>>

\* Somebody else trades on the same account.
OtherTrade(t, buy) ==
    /\ MayFill /\ "other_trade" \in Faults /\ Room
    /\ log' = Append(log, [t |-> t, dq |-> Signed(buy, 1)])
    /\ pos' = [pos EXCEPT ![t] = @ + Signed(buy, 1)]
    /\ UNCHANGED <<procVars, dbVars, ord, worldVars, faults, lateVars>>

\* killswitch.engage and release, from any process.
FlipKill ==
    /\ "kill" \in Faults /\ kill' = ~kill
    /\ lateKill' = (~kill /\ pc = "send")
    /\ UNCHANGED <<procVars, dbVars, brokerVars, session, faults, latePause, unread>>

\* `lab paper stop` and the console's pause and resume write the table.
FlipPause ==
    /\ "pause" \in Faults /\ row # "none" /\ paused' = ~paused
    /\ latePause' = (~paused /\ pc \in {"decide", "check", "send"})
    /\ UNCHANGED <<procVars, rows, saved, row, brokerVars, worldVars, faults, lateKill, unread>>

NextSession ==
    /\ session < Sessions /\ session' = session + 1
    /\ UNCHANGED <<procVars, dbVars, brokerVars, kill, faults, lateVars>>

\* The process dies where it stands.
Crash ==
    /\ pc # "down" /\ Fails("crash") /\ Forget
    /\ UNCHANGED <<dbVars, brokerVars, worldVars>>

Startup == RestoreBook \/ ReadPositions \/ FinishReconcile
Step == StepBegin \/ StepRaises \/ PollFills \/ BookFill \/ MarkBook \/ ReadPause
        \/ Decide \/ CheckBatch \/ EndBatch \/ SaveBook
Send == \E o \in Orders : SkipOrder(o) \/ SendOrder(o) \/ LoseReply(o)
WayOut == SettlePoll \/ SettleRound \/ SettleFails \/ SyncBook \/ ExitOnce
          \/ StopBegin \/ CancelOrder \/ StopEnd

\* What the process does by itself, once started.
Runner == Startup \/ Step \/ Send \/ WayOut

World ==
    \/ \E once \in Modes, adopt \in Adopts : Start(once, adopt)
    \/ Interrupt \/ FlipKill \/ FlipPause \/ NextSession \/ Crash
    \/ \E b \in DOMAIN ord : Fill(b) \/ Expire(b)
    \/ \E t \in Tickers, buy \in BOOLEAN : OtherTrade(t, buy)

Next == Runner \/ World

Spec == Init /\ [][Next]_vars

\* A started process keeps running: nothing in start() waits for anybody.
FairSpec == Spec /\ WF_vars(Runner)

-----------------------------------------------------------------------------
(* Properties *)

Trading == pc \in {"idle", "poll", "book", "pause", "decide", "check", "send",
                   "save", "settle", "settlebook", "settlelast"}

\* The shares of a ticker in the fills that are not booked, and in what has
\* filled of orders that are not closed.
ClosedFills(t) == [i \in Unbooked |-> IF log[i].t = t THEN log[i].dq ELSE 0]
WorkingFills(t) ==
    [b \in OpenOrders |-> IF ord[b].key.t = t THEN Signed(ord[b].key.buy, ord[b].filled) ELSE 0]

\* Shares the account holds that the book neither shows nor will be told about:
\* what is booked, what a poll will still return, and what has filled of orders
\* that are not closed yet, taken from the position.
Drift(t) == pos[t] - book[t] - Total(ClosedFills(t)) - Total(WorkingFills(t))

(* _poll_fills with its moving watermark and _seen_fills books every closed   *)
(* order of the account exactly once: from the moment trading starts until    *)
(* the process leaves the loop, no step of anybody moves the book away from   *)
(* the account or back.                                                       *)
NoFillLostOrDoubled ==
    [][Trading /\ Trading' => \A t \in Tickers : Drift(t)' = Drift(t)]_vars

(* submit_orders, _load_idem_keys: an order the table holds as placed is not  *)
(* handed to the broker again, by this process or by a later one.             *)
NoRefire ==
    [][\A r \in sent' \ sent : \A x \in rows : x.rejected \/ x.key # r.key]_vars

(* The idempotency the adapter completes with client_order_id: whatever       *)
(* crashes, lost replies and registry failures there were, one decision       *)
(* (session, ticker, side) never has two orders at the account.               *)
OnePerKey == \A a, b \in DOMAIN ord : ord[a].key = ord[b].key => a = b

\* What the account shows of a decision.
FateOf(k) == IF Placed(k) = {} THEN "none"
             ELSE IF \E b \in Placed(k) : ord[b].st = "open" THEN "working" ELSE "over"

(* The whole of the runner, the account and the table implement Decisions: a  *)
(* decision becomes an order at most once over all processes, and no step     *)
(* reopens it.                                                                *)
Fates == INSTANCE Decisions WITH Decision <- Keys, fate <- [k \in Keys |-> FateOf(k)]
DecidesOnce == Fates!Spec

(* reconcile, unknown_open_order: a runner that did not adopt trades beside   *)
(* no working order that is not its own.                                      *)
NoForeignOrders ==
    Trading /\ ~cfg.adopt =>
        \A b \in OpenOrders : \E r \in rows \cup sent : r.bid = b

(* submit_orders: a kill switch engaged before the batch was checked, however *)
(* late after the gate saw it clear, lets only orders through that shrink the *)
(* position in the book and do not turn it over.                              *)
KillStopsEntries ==
    [][Len(ord') > Len(ord) /\ kill /\ ~lateKill =>
         LET o == ord'[Len(ord')] IN
           IF o.key.buy THEN book[o.key.t] < 0 /\ book[o.key.t] + o.qty <= 0
                        ELSE book[o.key.t] > 0 /\ book[o.key.t] - o.qty >= 0]_vars

(* _is_paused: a pause written to the table before the step read it stops the *)
(* step from sending anything, in whatever process wrote it and even when the *)
(* runner was restarted in between.                                           *)
PauseHolds == [][Len(ord') > Len(ord) => ~paused \/ latePause]_vars

(* _block: once trading is blocked no order reaches the broker.  The code      *)
(* breaks this in one place: an order table that submit_orders cannot read    *)
(* blocks the runner, and the batch goes out.                                 *)
BlockedSendsNothing == [][Len(ord') > Len(ord) => ~blocked]_vars

(* What holds of _block whatever fails, and after any number of restarts: an  *)
(* order that reaches the broker from a blocked runner is of the very batch   *)
(* that found the order table unreadable; the next batch does not begin.      *)
BlockedSendsNoMore == [][Len(ord') > Len(ord) => ~blocked \/ unread]_vars

(* A closed order the runner has not booked is booked, or the runner blocks   *)
(* or ends: max_consecutive_errors keeps a failing poll from going on for     *)
(* ever.                                                                      *)
FillsGetBooked ==
    \A i \in 1..MaxFills :
        (Trading /\ i \in Unbooked) ~> (i \in seenFills \/ blocked \/ ~Trading)
=============================================================================
