------------------------------ MODULE DailyTask -------------------------------
(* The daily task that `lab paper schedule` writes (cli.py): on weekdays the *)
(* script pulls bars and, if that worked, decides once. The machine may be   *)
(* off at the trigger, pulls fail, and the vendor may be late with a session *)
(* but never takes back one it has served. A day has three times: before the *)
(* trigger, from the trigger to the close of the session, after it. The      *)
(* trigger is 09:35, or with --at another hour of the session.               *)
EXTENDS Calendar

CONSTANTS
    FirstDays,           \* days the task may be installed on
    MaxDays,             \* bound: days it is watched for
    MaxOutages,          \* bound: times the machine goes off
    MaxFailures,         \* bound: pulls that fail
    MaxStaleSessions     \* the runner's limit

TaskAssumption ==
    /\ \A d \in FirstDays : d \in Nat /\ d > 400 /\ IsTradingDay(d)
    /\ MaxDays \in Nat /\ MaxOutages \in Nat /\ MaxFailures \in Nat
    /\ MaxStaleSessions \in Nat \ {0}

VARIABLES
    since,       \* the first session pulled
    time,        \* <<day, 0 before the trigger, 1 in the session, 2 after the close>>
    up,          \* is the machine on?
    missed,      \* a trigger came while it was not
    task,        \* the run of the script: what it does, when it began and when it pulled
    due, begun,  \* the day of the newest trigger; of the newest that a run began for or during
    served,      \* the newest session the vendor has served
    stored,      \* session -> its bar in the store is "final" or still "running"
    log,         \* the newest decision, if any: when, when its run pulled, the sessions read
    outages, failures

daily == <<since, time, up, missed, task, due, begun, served, stored, log, outages, failures>>

Today == time[1]
(* Sessions of which there may be a bar, and those whose bar has ended: the  *)
(* adapters date a daily bar's knowledge at the close, ended or not.         *)
Begun == {s \in TradingDays(since, Today) : s < Today \/ time[2] >= 1}
Knowable == {s \in Begun : s < Today \/ time[2] = 2}

-----------------------------------------------------------------------------
(* Mutant: a task that is not told to make up for what it missed.            *)
NoSettings == [startWhenAvailable |-> FALSE]
(* The settings the task is registered with.                                 *)
Settings == [startWhenAvailable |-> TRUE]

(* Mutant: the script without its `if errorlevel 1`.                         *)
AfterPullAnyway(ok) == "decide"
(* The script: pull, and decide if that worked.                              *)
AfterPull(ok) == IF ok THEN "decide" ELSE "none"

NoTask == [does |-> "none", began |-> <<0, 0>>, pulled |-> <<0, 0>>]
Run(t) == [does |-> "pull", began |-> t, pulled |-> t]
Goes(does) == IF does = "none" THEN NoTask ELSE [task EXCEPT !.does = does, !.pulled = time]

(* Mutant: neither the bar's session nor today's counts.                     *)
StaleBothEnds(last, today) == IF today <= last THEN 0 ELSE Cardinality(TradingDays(last, today)) - 2
(* stale_sessions: sessions since the newest bar, whose own does not count.  *)
StaleSessions(last, today) == IF today <= last THEN 0 ELSE Cardinality(TradingDays(last, today)) - 1

Init ==
    /\ since \in FirstDays /\ time = <<since, 2>>
    /\ up = TRUE /\ missed = FALSE /\ task = NoTask /\ due = since /\ begun = since
    /\ served = since /\ stored = [s \in {since} |-> "final"] /\ log = {}
    /\ outages = 0 /\ failures = 0

(* The scheduler. A run takes an hour at most: it may go on past the next     *)
(* time of day, decided or not, and has ended before the one after that.     *)
After(t) == IF t[2] = 2 THEN <<t[1] + 1, 0>> ELSE <<t[1], t[2] + 1>>
Survivors == {NoTask} \cup (IF task.began = time THEN {task} ELSE {})
Ends == UNCHANGED <<since, up, served, stored, log, outages, failures>>
Tick ==
    /\ time[2] # 0 /\ Today - since < MaxDays
    /\ time' = After(time) /\ task' \in Survivors /\ UNCHANGED <<missed, due, begun>> /\ Ends
(* A run that is still under way at the trigger keeps another from beginning. *)
Trigger ==
    /\ time[2] = 0 /\ Weekday(Today) < 5
    /\ time' = After(time) /\ due' = Today
    /\ \/ up /\ task' = Run(time') /\ begun' = Today /\ missed' = FALSE
       \/ task # NoTask /\ task' = task /\ task.began = time /\ begun' = Today /\ UNCHANGED missed
       \/ ~up /\ missed' = Settings.startWhenAvailable /\ UNCHANGED <<task, begun>>
    /\ Ends
Weekend ==
    /\ time[2] = 0 /\ Weekday(Today) >= 5
    /\ time' = After(time) /\ task' \in Survivors /\ UNCHANGED <<missed, due, begun>> /\ Ends
GoesOff ==
    /\ up /\ outages < MaxOutages
    /\ up' = FALSE /\ task' = NoTask /\ outages' = outages + 1
    /\ UNCHANGED <<since, time, missed, due, begun, served, stored, log, failures>>
(* However many triggers came while it was off, one run begins.              *)
ComesUp ==
    /\ ~up /\ up' = TRUE
    /\ IF missed THEN task' = Run(time) /\ begun' = due /\ missed' = FALSE
       ELSE UNCHANGED <<task, begun, missed>>
    /\ UNCHANGED <<since, time, due, served, stored, log, outages, failures>>

(* pull: everything the vendor serves, or nothing at all. The session under  *)
(* way may be among it.                                                      *)
Pull ==
    /\ task.does = "pull"
    /\ \E newest \in {s \in Begun : s >= served} \cup {served} :
        /\ served' = newest
        /\ stored' = [s \in TradingDays(since, newest) |-> IF s \in Knowable THEN "final" ELSE "running"]
    /\ task' = Goes(AfterPull(TRUE))
    /\ UNCHANGED <<since, time, up, missed, due, begun, log, outages, failures>>
PullFails ==
    /\ task.does = "pull" /\ failures < MaxFailures /\ failures' = failures + 1
    /\ task' = Goes(AfterPull(FALSE))
    /\ UNCHANGED <<since, time, up, missed, due, begun, served, stored, log, outages>>

(* paper start --once: refused when the newest bar is too old.               *)
Readable == {s \in DOMAIN stored : s \in Knowable}
Newest(S) == CHOOSE s \in S : \A u \in S : u <= s
Fresh == Readable # {} /\ StaleSessions(Newest(Readable), Today) <= MaxStaleSessions
Decide ==
    /\ task.does = "decide" /\ task' = NoTask
    /\ log' = IF Fresh
              THEN {[at |-> time, pulled |-> task.pulled,
                     read |-> [s \in Readable |-> stored[s]], closed |-> Knowable]}
              ELSE log
    /\ UNCHANGED <<since, time, up, missed, due, begun, served, stored, outages, failures>>

Next == Tick \/ Trigger \/ Weekend \/ GoesOff \/ ComesUp \/ Pull \/ PullFails \/ Decide

-----------------------------------------------------------------------------
(* A bar is dated known at the close whenever it was pulled, and only a later *)
(* pull ends it. What was pulled in its session is decided on by no later    *)
(* run, and by its own only where that began before the close and decided    *)
(* after it; every other decision is on final bars.                          *)
RunningBarsCrossTheClose ==
    \A e \in log : \A s \in DOMAIN e.read :
        e.read[s] = "running" => e.pulled = <<s, 1>> /\ e.at = <<s, 2>>

(* What a decision does not know is bounded: in a session the limit less one *)
(* of the sessions that closed before it, the limit otherwise, over weekends *)
(* and holidays and however late the vendor is.                              *)
MissingAreFew ==
    \A e \in log :
        Cardinality(e.closed \ DOMAIN e.read) <=
            IF e.at[2] < 2 /\ IsTradingDay(e.at[1]) THEN MaxStaleSessions - 1 ELSE MaxStaleSessions

(* A machine that is on has begun a run since the newest trigger, or had one *)
(* under way at it, however many days it was off; the run may still fail.    *)
UpHasRun == up => begun = due
=============================================================================
