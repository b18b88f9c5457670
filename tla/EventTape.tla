----------------------------- MODULE EventTape -------------------------------
(* The event journal and its readers: whoever has something to tell appends  *)
(* to the log (registry/journal.py, live/alerts.py); a WebSocket tails it    *)
(* from a cursor (api/ws.py); the console seeds its tape over REST and then  *)
(* opens the socket (routes_live.py, useLiveEvents.ts). An event is its id   *)
(* and its kind, its seq the place in the log.                               *)
EXTENDS Integers, Sequences, FiniteSets, FiniteSetsExt, SequencesExt

CONSTANTS
    Limits,      \* rows per read
    RingSize,    \* rows the console's tape holds
    MaxDrops,    \* bound: sockets that break
    MaxEvents    \* bound: events that are told

TapeAssumption ==
    Limits \subseteq Nat \ {0} /\ RingSize \in Nat \ {0} /\ MaxDrops \in Nat /\ MaxEvents \in Nat

VARIABLES
    log,         \* the events table
    told,        \* appends tried
    brake,       \* the gate's breaker is tripped
    heard,       \* and its alert reached the log: auxiliary
    reader,      \* who tails: filter, limit, first cursor, console or not
    cursor,      \* last seq the reader noted
    seen,        \* seqs of the frames that reached it, in order
    socket,      \* "closed" or "open"
    pump,        \* the server's cursor of this socket
    wire,        \* frames under way
    page,        \* the console's seed: rows read, its latest_seq not yet
    ring,        \* the console's tape
    skipped,     \* rows a seed noted without having read them: auxiliary
    drops        \* sockets broken so far

tapeVars == <<log, told, brake, heard, reader, cursor, seen, socket, pump, wire, page, ring, skipped, drops>>
tailVars == <<reader, cursor, seen, socket, pump, wire, page, ring, skipped, drops>>

Kinds == {"fill", "breaker"}
NoPage == [read |-> FALSE, rows |-> {}]
Largest(S) == IF S = {} THEN 0 ELSE Max(S)

Init ==
    /\ log = <<>> /\ told = 0 /\ brake = FALSE /\ heard = FALSE
    /\ reader \in [kinds: {Kinds, {"fill"}}, limit: Limits, console: BOOLEAN]
    /\ reader.console => reader.kinds = Kinds
    /\ cursor = 0 /\ seen = <<>> /\ socket = IF reader.console THEN "seeding" ELSE "closed"
    /\ pump = 0 /\ wire = <<>> /\ page = NoPage /\ ring = {} /\ skipped = {} /\ drops = 0

(* Mutant: an event told again replaces the one in the log.                  *)
Replaced(id, kind) == Append(SelectSeq(log, LAMBDA e : e.id # id), [id |-> id, kind |-> kind])
(* append: an id that is in the log already changes nothing, so the tail of  *)
(* a runner that crashed may be told again. A log that cannot be written is  *)
(* the caller's to live with: alerts go on without.                          *)
Appended(id, kind) ==
    IF \E i \in DOMAIN log : log[i].id = id THEN log ELSE Append(log, [id |-> id, kind |-> kind])

(* Ids are taken in order; one that is taken already is told again.          *)
Tell ==
    /\ told < MaxEvents /\ told' = told + 1
    /\ \E id \in 1..(Len(log) + 1) : log' = Appended(id, "fill")
    /\ UNCHANGED <<brake, heard, tailVars>>

(* The breaker trips and the runner raises its alert once; the alert's       *)
(* payload has a reason and no `tripped`.                                    *)
Trip(written) ==
    /\ told < MaxEvents /\ told' = told + 1 /\ ~brake /\ brake' = TRUE
    /\ log' = IF written THEN Appended(Len(log) + 1, "breaker") ELSE log
    /\ heard' = written
    /\ UNCHANGED tailVars

(* A new session, or the operator, arms it again; nobody tells.              *)
Rearm == brake /\ brake' = FALSE /\ heard' = FALSE /\ UNCHANGED <<log, told, tailVars>>

-----------------------------------------------------------------------------
(* tail: rows after the cursor that pass the filter, the oldest first.       *)
Matching(from) == {i \in DOMAIN log : i > from /\ log[i].kind \in reader.kinds}
Place(i, S) == Cardinality({j \in S : j < i})
Oldest(S, n) == {i \in S : Place(i, S) < n}
InOrder(S) == [k \in 1..Cardinality(S) |-> CHOOSE i \in S : Place(i, S) = k - 1]
Batch(from) == InOrder(Oldest(Matching(from), reader.limit))

(* The reader connects with the last seq it noted.                           *)
Connect ==
    /\ socket = "closed" /\ socket' = "open" /\ pump' = cursor /\ wire' = <<>>
    /\ UNCHANGED <<log, told, brake, heard, reader, cursor, seen, page, ring, skipped, drops>>

(* Mutant: a poll leaves the cursor at the head of the log.                  *)
AtHead(rows) == Len(log)
(* The cursor moves over the rows that were returned and no others.          *)
OverRows(rows) == IF rows = <<>> THEN pump ELSE rows[Len(rows)]

Poll ==
    /\ socket = "open" /\ wire = <<>> /\ Batch(pump) # <<>>
    /\ wire' = Batch(pump) /\ pump' = OverRows(Batch(pump))
    /\ UNCHANGED <<log, told, brake, heard, reader, cursor, seen, socket, page, ring, skipped, drops>>

(* The newest RingSize rows.                                                 *)
Trim(S) == {i \in S : Cardinality({j \in S : j > i}) < RingSize}

Receive ==
    /\ socket = "open" /\ wire # <<>>
    /\ wire' = SubSeq(wire, 2, Len(wire))
    /\ cursor' = Max({cursor, wire[1]})
    /\ IF reader.console THEN ring' = Trim(ring \cup {wire[1]}) /\ UNCHANGED seen
       ELSE seen' = Append(seen, wire[1]) /\ UNCHANGED ring
    /\ UNCHANGED <<log, told, brake, heard, reader, socket, pump, page, skipped, drops>>

(* The socket breaks; what was under way is lost. The console polls again    *)
(* over REST while it has none.                                              *)
Drop ==
    /\ socket = "open" /\ drops < MaxDrops /\ drops' = drops + 1
    /\ wire' = <<>> /\ pump' = 0
    /\ socket' \in IF reader.console THEN {"seeding", "closed"} ELSE {"closed"}
    /\ UNCHANGED <<log, told, brake, heard, reader, cursor, seen, page, ring, skipped>>

(* live_events reads a page from the cursor on, and after it the head of the *)
(* log; the console notes both and opens the socket there.                   *)
SeedRows ==
    /\ socket = "seeding" /\ ~page.read
    /\ page' = [read |-> TRUE, rows |-> Oldest(Matching(cursor), reader.limit)]
    /\ UNCHANGED <<log, told, brake, heard, reader, cursor, seen, socket, pump, wire, ring, skipped, drops>>
SeedHead ==
    /\ socket = "seeding" /\ page.read
    /\ cursor' = Max({cursor, Len(log)})
    /\ ring' = Trim(ring \cup page.rows)
    /\ skipped' = skipped \cup ((cursor + 1)..Len(log) \ page.rows)
    /\ page' = NoPage /\ socket' = "closed"
    /\ UNCHANGED <<log, told, brake, heard, reader, seen, pump, wire, drops>>

Next ==
    \/ Tell \/ Trip(TRUE) \/ Trip(FALSE) \/ Rearm \/ Connect \/ Poll \/ Receive \/ Drop \/ SeedRows \/ SeedHead

-----------------------------------------------------------------------------
(* Resuming by seq costs nothing: a reader that reconnects with the last seq *)
(* it received has, across every broken socket, every matching event up to   *)
(* that seq, once, in order, and whatever rows its filter or limit left out. *)
ResumeExactly ==
    ~reader.console =>
        /\ \A k \in 1..(Len(seen) - 1) : seen[k] < seen[k + 1]
        /\ ToSet(seen) = {i \in Matching(0) : i <= cursor}

(* Mutant: an event without `tripped` reads as armed.                        *)
TrippedIfSaid == FALSE
(* _breaker_state: by the last breaker event, tripped unless it says not.    *)
ShownTripped == \E i \in DOMAIN log : log[i].kind = "breaker"

(* A brake that is on shows as on, once its alert is in the log.             *)
BrakeIsShown == (brake /\ heard) => ShownTripped

(* The log only grows: no seq is ever given to another event, whatever is    *)
(* told twice.                                                               *)
LogOnlyGrows == [][IsPrefix(log, log')]_log

(* The console's tape: whatever breaks, nothing the log has is missing        *)
(* between its oldest and its newest row but for what a seed skipped, which   *)
(* notes the head of the log after reading one page.                         *)
GapsAreSeeds ==
    \A i \in DOMAIN log : (i <= cursor /\ \E j \in ring : j < i) => i \in ring \cup skipped
=============================================================================
