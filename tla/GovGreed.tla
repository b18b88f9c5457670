------------------------------ MODULE GovGreed ------------------------------
(* The signal vendor's client and its daily pull: one request at a time, each *)
(* tried a few times, every answer saved before it is read. Three list calls, *)
(* then a look-up for the first tickers of the first list. Time is in days.   *)
EXTENDS Integers, Sequences, FiniteSets, SequencesExt

CONSTANTS
    MaxRetries,  \* attempts of one request, the first included
    TopN,        \* tickers looked up after the lists
    LastDay,     \* bound: days of the run
    MaxTears,    \* bound: deaths in the middle of a save
    Bodies       \* for an endpoint, the bodies it may answer: sequences of records

RetriesAssumption == MaxRetries \in Nat \ {0}
TopNAssumption == TopN \in Nat
(* A body is a list of records: a ticker or none, times in days or none.      *)
BodiesAssumption ==
    /\ LastDay \in Nat \ {0} /\ MaxTears \in Nat
    /\ \A k \in {"signal", "herd", "prediction", "insider"} : \A body \in Bodies[k] :
          /\ body \in Seq(ToSet(body))
          /\ \A r \in ToSet(body) : {r.traded, r.filed, r.disclosed} \subseteq Nat

VARIABLES
    today,
    raw,       \* the saved answers of each day and endpoint, in file order
    todo,      \* requests the pull has still to make; <<>> when it is not running
    attempt,   \* attempts made of the first of them
    calls,     \* requests sent by this client
    events,    \* events normalized so far
    pull,      \* "idle", "running", "done": how the day's pull stands
    last,      \* last_pull: what the finished pull reports
    fetched,   \* the day another process last asked the lists, 0 before
    other,     \* and the events it came back with
    tears

gov == <<today, raw, todo, attempt, calls, events, pull, last, fetched, other, tears>>
client == <<todo, attempt, calls, events, pull, last>>

Lists == <<"signal", "herd", "prediction">>
(* The endpoints in the order of their file names.                            *)
Files == <<"insider", "herd", "prediction", "signal">>
Request(k, t) == [kind |-> k, ticker |-> t]
(* An answer the vendor refused is saved as well: it has no ticker, no date.  *)
Problem == [ticker |-> "", id |-> "", traded |-> 0, filed |-> 0, disclosed |-> 0, score |-> 0]
Snapshot(at, body, asked) == [at |-> at, body |-> body, asked |-> asked, torn |-> FALSE]
Half == [at |-> 0, body |-> <<>>, asked |-> "", torn |-> TRUE]

---------------------------------------------------------------------------
(* One record of a body. A record without a ticker takes the one asked for;   *)
(* one without a date is dropped.                                             *)
Ticker(r, asked) == IF r.ticker = "" THEN asked ELSE r.ticker
EventTime(r) == IF r.traded = 0 THEN r.filed ELSE r.traded
Disclosure(r) == IF r.disclosed = 0 THEN r.filed ELSE r.disclosed
Later(a, b) == IF a > b THEN a ELSE b
(* Mutant: known when disclosed, whenever it was fetched.                     *)
KnownWhenDisclosed(r, at) == Later(Disclosure(r), EventTime(r))

(* Known when fetched, or disclosed if that is later, never before it happened. *)
Knowledge(r, at) == Later(Later(at, Disclosure(r)), EventTime(r))
Usable(r, asked) == Ticker(r, asked) # "" /\ EventTime(r) # 0
(* The identity leaves out scores and the other times: they move from one     *)
(* pull to the next.                                                          *)
Uid(r, kind, asked) == <<kind, Ticker(r, asked), EventTime(r), r.id>>
Event(r, kind, at, asked) ==
    [uid |-> Uid(r, kind, asked), ticker |-> Ticker(r, asked), event |-> EventTime(r),
     know |-> Knowledge(r, at), score |-> r.score]
(* What a list has at the places I, in their order.                           *)
Sublist(s, I) ==
    [k \in 1..Cardinality(I) |-> s[CHOOSE i \in I : Cardinality({j \in I : j < i}) = k - 1]]
Normalize(body, kind, at, asked) ==
    Sublist([i \in DOMAIN body |-> Event(body[i], kind, at, asked)],
            {i \in DOMAIN body : Usable(body[i], asked)})

(* The first n distinct tickers of a list, in the vendor's order.             *)
Firsts(body) ==
    {i \in DOMAIN body : body[i].ticker \notin {""} \cup {body[j].ticker : j \in 1..(i - 1)}}
TopTickers(body) ==
    LET seen == Sublist([i \in DOMAIN body |-> body[i].ticker], Firsts(body))
    IN  SubSeq(seen, 1, IF Len(seen) < TopN THEN Len(seen) ELSE TopN)

(* What is read back of a file: up to the first half-written answer. (What    *)
(* follows one may also end the whole reading: see the README.)               *)
Readable(file) ==
    LET cut == {i \in 1..Len(file) : file[i].torn}
    IN  SubSeq(file, 1, IF cut = {} THEN Len(file) ELSE (CHOOSE i \in cut : \A j \in cut : i <= j) - 1)
(* Mutant: the ticker asked for is not among the saved parameters.            *)
RereadUnasked(day, kind) ==
    LET file == Readable(raw[day][kind])
    IN  UNION {ToSet(Normalize(file[i].body, kind, file[i].at, "")) : i \in DOMAIN file}

Reread(day, kind) ==
    LET file == Readable(raw[day][kind])
    IN  UNION {ToSet(Normalize(file[i].body, kind, file[i].at, file[i].asked)) : i \in DOMAIN file}
(* replay(): the snapshots of a day, normalized again.                        *)
Replay(day) == UNION {Reread(day, k) : k \in ToSet(Files)}

---------------------------------------------------------------------------
Init ==
    /\ today = 1 /\ raw = [d \in 1..LastDay |-> [k \in ToSet(Files) |-> <<>>]]
    /\ todo = <<>> /\ attempt = 0 /\ calls = 0 /\ events = <<>> /\ pull = "idle"
    /\ last = [ok |-> TRUE, aborted |-> FALSE, calls |-> 0, events |-> 0]
    /\ fetched = 0 /\ other = <<>> /\ tears = 0

(* lab govgreed pull: a client of its own, the three lists ahead.             *)
Pull ==
    /\ pull = "idle"
    /\ pull' = "running" /\ todo' = [i \in 1..3 |-> Request(Lists[i], "")]
    /\ attempt' = 0 /\ calls' = 0 /\ events' = <<>>
    /\ last' = [ok |-> TRUE, aborted |-> FALSE, calls |-> 0, events |-> 0]
    /\ UNCHANGED <<today, raw, fetched, other, tears>>

Save(kind, entry) == raw' = [raw EXCEPT ![today][kind] = Append(@, entry)]
(* A 429 is a burst to wait out, or the end of the day's quota.               *)
Burst(code, after) == code = "BURST" \/ (code # "DAILY" /\ after = "short")
Send == pull = "running" /\ todo # <<>> /\ calls' = calls + 1
        /\ UNCHANGED <<today, fetched, other, tears>>

(* Mutant: one attempt too many.                                              *)
RetryOnceMore ==
    IF attempt < MaxRetries
    THEN attempt' = attempt + 1 /\ UNCHANGED <<todo, last>>
    ELSE attempt' = 0 /\ todo' = Tail(todo) /\ last' = [last EXCEPT !.ok = FALSE]

(* The next attempt of the same request, or the failure of the step: noted,   *)
(* and the pull goes on.                                                      *)
RetryOrSkip ==
    IF attempt + 1 < MaxRetries
    THEN attempt' = attempt + 1 /\ UNCHANGED <<todo, last>>
    ELSE attempt' = 0 /\ todo' = Tail(todo) /\ last' = [last EXCEPT !.ok = FALSE]

Lost == Send /\ RetryOrSkip /\ UNCHANGED <<raw, events, pull>>
(* A server error, or a burst.                                                *)
Again == Send /\ RetryOrSkip /\ Save(todo[1].kind, Snapshot(today, <<Problem>>, todo[1].ticker))
         /\ UNCHANGED <<events, pull>>
Server == Again
Throttled == \E code \in {"BURST", "DAILY", "other"}, after \in {"none", "short", "long"} :
    Burst(code, after) /\ Again
(* Any other refusal is not tried again.                                      *)
Refused ==
    /\ Send /\ Save(todo[1].kind, Snapshot(today, <<Problem>>, todo[1].ticker))
    /\ attempt' = 0 /\ todo' = Tail(todo) /\ last' = [last EXCEPT !.ok = FALSE]
    /\ UNCHANGED <<events, pull>>
(* Mutant: the quota taken for an error of the step.                          *)
QuotaSkipsStep ==
    \E code \in {"BURST", "DAILY", "other"}, after \in {"none", "short", "long"} :
    /\ ~Burst(code, after)
    /\ Send /\ Save(todo[1].kind, Snapshot(today, <<Problem>>, todo[1].ticker))
    /\ attempt' = 0 /\ todo' = Tail(todo) /\ last' = [last EXCEPT !.ok = FALSE, !.aborted = TRUE]
    /\ UNCHANGED <<events, pull>>

(* The quota is gone: stop, and keep what there is.                           *)
QuotaGone ==
    \E code \in {"BURST", "DAILY", "other"}, after \in {"none", "short", "long"} :
    /\ ~Burst(code, after)
    /\ Send /\ Save(todo[1].kind, Snapshot(today, <<Problem>>, todo[1].ticker))
    /\ attempt' = 0 /\ todo' = <<>> /\ last' = [last EXCEPT !.ok = FALSE, !.aborted = TRUE]
    /\ UNCHANGED <<events, pull>>
(* The key is refused: the exception leaves the pull, nothing is returned.    *)
KeyRefused ==
    /\ Send /\ Save(todo[1].kind, Snapshot(today, <<Problem>>, todo[1].ticker))
    /\ attempt' = 0 /\ todo' = <<>> /\ events' = <<>> /\ pull' = "over" /\ UNCHANGED last
Answered ==
    /\ Send /\ attempt' = 0 /\ UNCHANGED <<pull, last>>
    /\ \E body \in Bodies[todo[1].kind] :
        /\ Save(todo[1].kind, Snapshot(today, body, todo[1].ticker))
        /\ events' = events \o Normalize(body, todo[1].kind, today, todo[1].ticker)
        /\ LET top == IF todo[1].kind = "signal" THEN TopTickers(body) ELSE <<>>
           IN  todo' = Tail(todo) \o [i \in 1..Len(top) |-> Request("insider", top[i])]

(* The pull's report, in last_pull and in the raw store.                      *)
Report ==
    /\ pull = "running" /\ todo = <<>>
    /\ pull' = "done" /\ last' = [last EXCEPT !.calls = calls, !.events = Len(events)]
    /\ UNCHANGED <<today, raw, todo, attempt, calls, events, fetched, other, tears>>

(* The process dies while an answer is appended to its file.                  *)
Tear ==
    /\ pull = "running" /\ todo # <<>> /\ tears < MaxTears
    /\ Save(todo[1].kind, Half) /\ tears' = tears + 1
    /\ pull' = "idle" /\ todo' = <<>> /\ attempt' = 0 /\ calls' = 0 /\ events' = <<>>
    /\ UNCHANGED <<today, last, fetched, other>>

(* lab pull --source govgreed, another process: the three lists or nothing,   *)
(* and only what happened by now. The first n of them answer.                 *)
Fetch ==
    \E n \in 0..3, body \in Bodies["signal"] \X Bodies["herd"] \X Bodies["prediction"] :
    LET got(i) == Normalize(body[i], Lists[i], today, "")
        asked(k) == \E i \in 1..n : Lists[i] = k
    IN  /\ fetched # today /\ fetched' = today
        /\ raw' = [raw EXCEPT ![today] = [k \in ToSet(Files) |->
                IF asked(k) THEN Append(@[k], Snapshot(today, body[CHOOSE i \in 1..3 : Lists[i] = k], ""))
                            ELSE @[k]]]
        /\ other' = IF n < 3 THEN <<>>
                    ELSE LET all == got(1) \o got(2) \o got(3)
                         IN  Sublist(all, {i \in DOMAIN all : all[i].event <= today})
        /\ UNCHANGED <<client, today, tears>>

(* A day ends when nothing runs.                                              *)
NextDay ==
    /\ pull # "running" /\ today < LastDay /\ today' = today + 1
    /\ pull' = "idle" /\ todo' = <<>> /\ attempt' = 0 /\ calls' = 0 /\ events' = <<>>
    /\ other' = <<>> /\ UNCHANGED <<raw, last, fetched, tears>>

Requests == Lost \/ Server \/ Throttled \/ Refused \/ QuotaGone \/ KeyRefused \/ Answered
Next == Pull \/ Requests \/ Report \/ Tear \/ Fetch \/ NextDay

---------------------------------------------------------------------------
TypeOK ==
    /\ today \in 1..LastDay /\ attempt \in 0..(MaxRetries - 1) /\ tears \in 0..MaxTears
    /\ pull \in {"idle", "running", "done", "over"}
    /\ \A i \in 1..Len(todo) : todo[i].kind \in ToSet(Files)

(* A pull never sends more than the budget of its three lists and its         *)
(* look-ups, every request tried its number of times at most.                 *)
BudgetKept == calls <= MaxRetries * (3 + TopN)

(* Nothing is sent once the quota is gone, or once the key was refused: the   *)
(* pull only reports.                                                         *)
QuotaEndsThePull == [][last.aborted /\ pull = "running" => calls' = calls]_gov

(* What a pull returns is what its own snapshots give when they are read      *)
(* again, the tickers asked for and the times of fetching included, and       *)
(* refused answers give nothing.                                              *)
PullIsReplayed ==
    tears = 0 =>
        /\ ToSet(events) \subseteq Replay(today)
        /\ pull = "done" /\ fetched # today => Replay(today) = ToSet(events)
=============================================================================
