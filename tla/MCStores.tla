------------------------------ MODULE MCStores -------------------------------
(* What the lab keeps and reads back, and when. One system is chosen once,   *)
(* the others stay at their start: a day of the vendor's client with every   *)
(* answer a request may get; the daily pulls and the table two processes     *)
(* write them to; the reads of a strategy; the run registry with its         *)
(* archives and the library; the findings; the event journal and its tapes;  *)
(* runs that are run again; the indicator cache; the trials a result answers *)
(* for; the daily task; the wall clock.                                      *)
EXTENDS Integers, Sequences, FiniteSets, TLC

CONSTANTS
    MaxRetries, TopN, LastDay, MaxTears, MaxDeaths,
    Open, Close, BarStep, LastTime, MaxBars, Closes, NaN,
    Processes, MaxRuns, MaxCode, MaxDeletes, MaxEdits,
    Authors, MaxFindings, MaxUpdates,
    Limits, RingSize, MaxDrops, MaxEvents,
    MaxNew, MaxWrites,
    Askers, MaxVersion, MaxKills, MaxClears,
    MaxLooks, MaxAsks, MaxGone, Claims,
    MaxDays, MaxOutages, MaxFailures, MaxStaleSessions,
    Intervals, DecideAt, MaxFires,
    Bodies, Parts, Stock, Process, Spellings, Entries, FirstDays, Starts

VARIABLES
    half,
    today, raw, todo, attempt, calls, events, pull, last, fetched, other, tears,
    disk, at, rows, merged, doomed, target, kept, hurt, deaths,
    vendor, frame, sigs, now, full, raised,
    file, newest, w, runs, archive, header, hand, ran, raced, edited, deleted,
    claims, read, named, reopened, late,
    log, told, brake, heard, reader, cursor, seen, socket, pump, wire, page, ring, skipped, drops,
    shelf, code, writes, queue, listed, doing, report, made,
    version, entries, temps, ask, kills, clears,
    looks, gone, asks, answer,
    since, time, up, missed, task, due, begun, served, stored, decisions, outages, failures,
    interval, began, fires

gov == <<today, raw, todo, attempt, calls, events, pull, last, fetched, other, tears>>
store == <<disk, at, rows, merged, doomed, target, kept, hurt, deaths>>
view == <<vendor, frame, sigs, now, full, raised>>
registry == <<file, newest, w, runs, archive, header, hand, ran, raced, edited, deleted>>
findings == <<claims, read, named, reopened, late>>
tape == <<log, told, brake, heard, reader, cursor, seen, socket, pump, wire, page, ring, skipped, drops>>
feed == <<gov, store, view>>
journals == <<findings, tape>>
again == <<shelf, code, writes, queue, listed, doing, report, made>>
cache == <<version, entries, temps, ask, kills, clears>>
trials == <<looks, gone, asks, answer>>
daily == <<since, time, up, missed, task, due, begun, served, stored, decisions, outages, failures>>
wall == <<interval, began, fires>>

(* Processes are interchangeable.                                             *)
Symmetry == Permutations(Processes)

Writers == {"cron", "hand"}
(* A fact disclosed later than it is first listed, restated by the next list; *)
(* one dated ahead; a record without a ticker, and one without a date.        *)
Rec(t, i, traded, filed, disclosed, score) ==
    [ticker |-> t, id |-> i, traded |-> traded, filed |-> filed, disclosed |-> disclosed, score |-> score]
SomeBodies ==
    [signal |-> {<<>>, <<Rec("X", "a", 1, 0, 2, 1), Rec("", "c", 1, 0, 0, 1)>>,
                 <<Rec("X", "a", 1, 0, 2, 2), Rec("Y", "b", 0, 3, 0, 1)>>},
     herd |-> {<<Rec("Y", "", 0, 0, 1, 1)>>},
     prediction |-> {<<>>},
     insider |-> {<<Rec("", "", 1, 0, 0, 1)>>}]
TwoParts == <<"X", "Y">>
PartOf(r) == r.ticker

(* A run in the workspace and two in the library, two of them stale; two     *)
(* threads of one process, two spellings of one set of parameters.           *)
SomeStock == <<[path |-> "ws", stale |-> TRUE], [path |-> "lib", stale |-> FALSE], [path |-> "lib", stale |-> TRUE]>>
OneProcess == [x \in Askers |-> 1]
EitherOrder == "n,f" :> "f,n" @@ "f,n" :> "f,n"
(* Two strategies on one holdout, one of them listing its tickers otherwise  *)
(* and at another hour; other holdouts; paper runs.                          *)
Entry(name, kind, tickers, date, hour) ==
    [name |-> name, kind |-> kind, holdout |-> [tickers |-> tickers, date |-> date, hour |-> hour]]
SomeEntries == {Entry("momo", "backtest", <<"A", "B">>, 1, 0), Entry("momo", "paper", <<"A", "B">>, 1, 0),
            Entry("momo", "backtest", <<"A">>, 1, 0), Entry("twin", "backtest", <<"B", "A">>, 1, 9),
            Entry("twin", "backtest", <<"A", "B">>, 2, 0), Entry("twin", "paper", <<"A", "B">>, 1, 0)}
(* Days before a weekend with a holiday behind it, and before one at its     *)
(* front; moments before, at and after a fire, a close and a holiday, and    *)
(* the first of a lifetime of years.                                         *)
Cal == INSTANCE Calendar
SomeDays == {Cal!Date(2025, 8, 28), Cal!Date(2026, 4, 1)}
At(y, m, d, minute) == Cal!Date(y, m, d) * 1440 + minute
SomeStarts == {At(2025, 6, 17, 600), At(2025, 6, 19, 575), At(2025, 6, 20, 570), At(2025, 12, 31, 960),
           At(2026, 4, 1, 575), At(2021, 12, 30, 100)} \cup {At(y, 1, 1, 0) : y \in 1990..2060}

G == INSTANCE GovGreed
S == INSTANCE Store
P == INSTANCE PointInTime
R == INSTANCE RunRegistry WITH rows <- runs
F == INSTANCE Findings
T == INSTANCE EventTape
A == INSTANCE Rerun WITH Paths <- {"ws", "lib"}
C == INSTANCE IndicatorCache
K == INSTANCE Trials
D == INSTANCE DailyTask WITH log <- decisions
W == INSTANCE WallClock

(* Every ticker the vendor may name has a partition.                          *)
PartsAssumption ==
    /\ Parts \in Seq(G!ToSet(Parts)) /\ "" \notin G!ToSet(Parts)
    /\ \A k \in {"signal", "herd", "prediction", "insider"} : \A body \in Bodies[k] :
          \A r \in G!ToSet(body) : r.ticker \in {""} \cup G!ToSet(Parts)
ASSUME StoresAssumption ==
    /\ G!RetriesAssumption /\ G!TopNAssumption /\ G!BodiesAssumption /\ PartsAssumption /\ P!SessionAssumption
    /\ R!RegistryAssumption /\ F!FindingsAssumption /\ T!TapeAssumption
    /\ A!RerunAssumption /\ C!CacheAssumption /\ K!TrialsAssumption
    /\ D!TaskAssumption /\ W!ClockAssumption

(* govgreed pull writes what its pull returned; the other process what it     *)
(* fetched.                                                                   *)
CronWrites ==
    /\ pull = "done" /\ S!Write("cron", events) /\ pull' = "over" /\ events' = <<>>
    /\ UNCHANGED <<today, raw, todo, attempt, calls, last, fetched, other, tears>>
HandWrites ==
    /\ other # <<>> /\ S!Write("hand", other) /\ other' = <<>>
    /\ UNCHANGED <<today, raw, todo, attempt, calls, events, pull, last, fetched, tears>>

(* A death while the first answer is saved leaves what follows behind a torn  *)
(* one.                                                                       *)
Day == G!Pull \/ G!Requests \/ G!Report \/ (calls = 0 /\ G!Tear)
Feeds ==
    \/ (G!Pull \/ G!Answered \/ G!Report \/ G!NextDay) /\ UNCHANGED store
    \/ fetched = 0 /\ G!Fetch /\ UNCHANGED store
    \/ CronWrites \/ HandWrites
    \/ \E x \in Writers : S!Step(x) /\ UNCHANGED gov

Init ==
    /\ half \in {"client", "feed", "reads", "registry", "findings", "tape",
                 "rerun", "cache", "trials", "daily", "clock"}
    /\ G!Init /\ S!Init /\ R!Init /\ F!Init
    /\ IF half = "reads" THEN P!Init
       ELSE /\ vendor = {} /\ frame = <<>> /\ sigs = <<>> /\ now = 0
            /\ full = [n \in P!Indicators |-> <<>>] /\ raised = FALSE
    /\ T!Init
    /\ half # "tape" => reader = [kinds |-> T!Kinds, limit |-> 1, console |-> FALSE]
    /\ A!Init /\ C!Init /\ K!Init
    /\ D!Init /\ (half # "daily" => since = Cal!Date(2026, 4, 1))
    /\ W!Init /\ (half # "clock" => began = At(2026, 4, 1, 575) /\ interval = 1440)
Kept == half \in {"client", "feed", "reads", "registry", "findings", "tape"}
Stores ==
    \/ half = "client" /\ Day /\ UNCHANGED <<store, view, registry, journals>>
    \/ half = "feed" /\ Feeds /\ UNCHANGED <<view, registry, journals>>
    \/ half = "reads" /\ P!Next /\ UNCHANGED <<gov, store, registry, journals>>
    \/ half = "registry" /\ R!Next /\ UNCHANGED <<feed, journals>>
    \/ half = "findings" /\ F!Next /\ UNCHANGED <<feed, registry, tape>>
    \/ half = "tape" /\ T!Next /\ UNCHANGED <<feed, registry, findings>>
Times ==
    \/ half = "rerun" /\ A!Next /\ UNCHANGED <<cache, trials, daily, wall>>
    \/ half = "cache" /\ C!Next /\ UNCHANGED <<again, trials, daily, wall>>
    \/ half = "trials" /\ K!Next /\ UNCHANGED <<again, cache, daily, wall>>
    \/ half = "daily" /\ D!Next /\ UNCHANGED <<again, cache, trials, wall>>
    \/ half = "clock" /\ W!Next /\ UNCHANGED <<again, cache, trials, daily>>
Next ==
    /\ UNCHANGED half
    /\ \/ Kept /\ Stores /\ UNCHANGED <<again, cache, trials, daily, wall>>
       \/ ~Kept /\ Times /\ UNCHANGED <<feed, registry, journals>>
Spec == Init /\ [][Next]_<<half, feed, registry, journals, again, cache, trials, daily, wall>>

(* Whatever two writers and a death between them do to the table, a row of it *)
(* is what a saved answer gives when it is read again, and it says it was     *)
(* known no earlier than that answer was fetched.                             *)
RowsAreSnapshots ==
    tears = 0 => \A r \in S!Rows : \E d \in 1..LastDay, k \in {"signal", "herd", "prediction", "insider"} :
        d <= r.know /\ r \in G!Reread(d, k)

(* The vendor's data is asked for within the budget, a day read again from    *)
(* what was saved gives what the pull gave, every row of the table is a       *)
(* snapshot of a saved answer, and a partition keeps what was written to it,  *)
(* each fact once - unless a writer died between removing its files and       *)
(* moving the new one in, or two writers were at it together: such a          *)
(* partition is exempt from then on, the others are not.                      *)
DataIsKept ==
    /\ G!TypeOK /\ S!TypeOK /\ G!BudgetKept /\ G!PullIsReplayed
    /\ S!NothingLost /\ S!OneRowPerFact /\ RowsAreSnapshots

(* What a strategy reads at a moment was known by then: bars restated later,  *)
(* indicators computed once over a whole history and events laid on bars      *)
(* included.                                                                  *)
ReadsAreCausal == P!TypeOK /\ P!WindowIsKnowable /\ P!SliceIsRecompute /\ P!AlignedIsNewest

(* A run of the registry leads to the code that ran, whatever became of the   *)
(* file, is promoted as that code, and counts as a look at its holdout,       *)
(* finished, deleted or dead; a sweep of reruns tells of each one it tried;   *)
(* an update of a finding keeps what it said, and a claim that was replaced   *)
(* stays so.                                                                  *)
RegistryIsKept ==
    /\ R!AttemptsDistinct /\ R!LooksStayCounted /\ R!OkHasItsCode
    /\ R!PromotedIsWhatRan /\ R!GoneCodeIsFound /\ A!SweepTellsOfAll
    /\ F!HistoryIsKept /\ F!ReplacedStaysOut

(* A console that reconnects misses no event it would have been shown but     *)
(* those of its first page, and never shows a tripped brake as armed.         *)
TapeIsWhole == T!ResumeExactly /\ T!GapsAreSeeds /\ T!BrakeIsShown

(* A series from the cache is the one a computation over today's data gives,  *)
(* whatever processes write and clear beside it, and lies under the key of    *)
(* its parameters in any spelling.                                            *)
CacheIsTrue == C!GivenIsComputed /\ C!EntriesUnderTheirKey

(* The daily task decides on bars only a few sessions old, and on one pulled  *)
(* before its session had closed only in a run that goes on past that close;  *)
(* a machine that is on has begun a run for the newest trigger. The wall      *)
(* clock fires for every moment and each close over a lifetime of sessions,   *)
(* holidays by the moon included.                                             *)
DecisionsAreOnTime ==
    /\ D!RunningBarsCrossTheClose /\ D!MissingAreFew /\ D!UpHasRun
    /\ W!NoFireMissed /\ W!CloseIsFired /\ W!EasterIsAfterTheMoon

(* Nothing written down is taken back: a spent quota ends the pull, the log   *)
(* only grows, a rerun leaves the runs before it, and the number of trials a  *)
(* family is charged with covers its looks and never falls.                   *)
RecordsOnlyGrow ==
    /\ G!QuotaEndsThePull /\ T!LogOnlyGrows /\ A!OldRunsStay
    /\ K!TrialsCoverLooks /\ K!TrialsNeverFall
=============================================================================
