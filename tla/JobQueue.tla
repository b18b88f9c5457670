------------------------------ MODULE JobQueue ------------------------------
(* Background jobs of lab/mcp/jobs.py: the MCP server's queue, the records   *)
(* under data/jobs, and the detached worker processes.  The server answers   *)
(* one tool call at a time; what interleaves with it are the workers, which  *)
(* write the same records without a lock, and its own death.                 *)
(*                                                                           *)
(* A record is what the two sides read of it: the status and   *)
(* whether it names a result.  A running record always has its worker's pid; *)
(* arguments, times and messages are left out, and so are a pid the system   *)
(* has given to another process and two _patch calls that meet in the one    *)
(* .tmp file.  An operator named ...Mutant is its namesake with a plausible bug.   *)
EXTENDS Naturals, Sequences, FiniteSetsExt, SequencesExt

CONSTANTS
    Jobs,         \* ids that can be submitted
    NoJob,        \* none of them
    Cap,          \* JobQueue.cap
    SlowStart,    \* a worker is not done before its launch has been recorded
    CanDie,       \* a worker may die without a word
    CanCancel,    \* clients cancel jobs
    MaxRestarts   \* bound: how often the server dies and is started again

ASSUME QueueAssumption ==
    /\ IsFiniteSet(Jobs) /\ NoJob \notin Jobs
    /\ Cap \in Nat \ {0}
    /\ SlowStart \in BOOLEAN /\ CanDie \in BOOLEAN /\ CanCancel \in BOOLEAN
    /\ MaxRestarts \in Nat

TERMINAL == {"done", "failed", "cancelled", "lost"}

Records == [st: {"none", "queued", "running"} \cup TERMINAL, res: BOOLEAN]
NoRecord == [st |-> "none", res |-> FALSE]

VARIABLES
    rec,        \* data/jobs/<job>.json
    result,     \* the jobs that have a .result.json
    pending,    \* _pending
    running,    \* the jobs _running has a process for
    pc,         \* where the tool call in progress is
    job,        \* the job it is about, or that _pump is launching
    after,      \* what follows _pump
    launched,   \* [job, seen]: the launch _pump is recording
    worker,     \* where each worker is
    seen,       \* the record as the worker's _patch read it
    restarts

serverVars == <<pending, running, pc, job, after, launched>>
diskVars == <<rec, result>>
workerVars == <<worker, seen>>
vars == <<serverVars, diskVars, workerVars, restarts>>

NoLaunch == [job |-> NoJob, seen |-> NoRecord]

Alive(j) == worker[j] \in {"working", "done", "failed", "patchdone", "patchfailed"}
Working == {j \in Jobs : Alive(j)}

DiskType == rec \in [Jobs -> Records] /\ result \subseteq Jobs
QueueType == pending \in Seq(Jobs) /\ running \subseteq Jobs
CallType ==
    /\ pc \in {"idle", "reap", "pump", "launch", "record", "check", "look", "kill", "killpid"}
    /\ job \in Jobs \cup {NoJob}
    /\ after \in {"return", "status", "check", "cancel"}
    /\ launched \in [job: Jobs \cup {NoJob}, seen: Records]
WorkerType ==
    /\ worker \in [Jobs -> {"none", "working", "done", "failed", "patchdone",
                            "patchfailed", "gone"}]
    /\ seen \in [Jobs -> Records]
CountType == Cardinality(running) <= Cap /\ restarts \in 0..MaxRestarts

(* The values of the variables, and _running within the cap: the queue's own  *)
(* count of its processes.                                                    *)
TypeOK == DiskType /\ QueueType /\ CallType /\ WorkerType /\ CountType

Init ==
    /\ rec = [j \in Jobs |-> NoRecord] /\ result = {}
    /\ pending = <<>> /\ running = {}
    /\ pc = "idle" /\ job = NoJob /\ after = "return" /\ launched = NoLaunch
    /\ worker = [j \in Jobs |-> "none"]
    /\ seen = [j \in Jobs |-> NoRecord]
    /\ restarts = 0

-----------------------------------------------------------------------------
(* Tool calls *)

\* submit: the record is written, the job queued; _pump and status follow.
Submit(j) ==
    /\ pc = "idle" /\ rec[j].st = "none"
    /\ rec' = [rec EXCEPT ![j].st = "queued"]
    /\ pending' = Append(pending, j)
    /\ pc' = "reap" /\ job' = j /\ after' = "status"
    /\ UNCHANGED <<result, running, launched, workerVars, restarts>>

\* status (and with it result and list): _pump, then a look at the record.
Status(j) ==
    /\ pc = "idle" /\ rec[j].st # "none"
    /\ pc' = "reap" /\ job' = j /\ after' = "check"
    /\ UNCHANGED <<pending, running, launched, diskVars, workerVars, restarts>>

\* cancel: a pending job leaves the queue; a process of this server is taken
\* out of _running, and killed if poll() finds it alive; for everything else
\* status decides, and a worker it finds alive is killed by its pid.
Cancel(j) ==
    /\ CanCancel /\ pc = "idle" /\ rec[j].st # "none"
    /\ job' = j
    /\ \/ /\ \E k \in 1..Len(pending) :
                pending[k] = j /\ pending' = RemoveAt(pending, k)
          /\ rec' = [rec EXCEPT ![j].st = "cancelled"]
          /\ UNCHANGED <<pc, after, running>>
       \/ /\ j \in running /\ j \notin Range(pending) /\ Alive(j)
          /\ running' = running \ {j}
          /\ pc' = "kill" /\ UNCHANGED <<pending, rec, after>>
       \/ /\ j \notin Range(pending) /\ ~(j \in running /\ Alive(j))
          /\ running' = running \ {j}
          /\ pc' = "reap" /\ after' = "cancel" /\ UNCHANGED <<pending, rec>>
    /\ UNCHANGED <<launched, result, workerVars, restarts>>

\* terminate() and wait(): whatever the worker had come to since poll(), the
\* record now says cancelled.  _pump follows, and its room is used.
Kill ==
    /\ pc = "kill"
    /\ worker' = [worker EXCEPT ![job] = "gone"]
    /\ rec' = [rec EXCEPT ![job].st = "cancelled"]
    /\ pc' = "reap" /\ after' = "return"
    /\ UNCHANGED <<seen, result, pending, running, job, launched, restarts>>

\* _pid_alive, _kill_pid: the worker of an earlier server.
KillPid ==
    /\ pc = "killpid"
    /\ IF Alive(job)
       THEN /\ worker' = [worker EXCEPT ![job] = "gone"]
            /\ rec' = [rec EXCEPT ![job].st = "cancelled"]
       ELSE UNCHANGED <<worker, rec>>
    /\ pc' = "idle"
    /\ UNCHANGED <<seen, result, pending, running, job, after, launched, restarts>>

-----------------------------------------------------------------------------
(* _pump *)

\* The processes poll() finds finished.
ExitedMutant == running
UnpolledMutant == {}
Exited == {j \in running : ~Alive(j)}

\* What _reap leaves of the records: one that still says it runs has failed.
Reaped == [j \in Jobs |-> IF j \in Exited /\ rec[j].st = "running"
                          THEN [rec[j] EXCEPT !.st = "failed"] ELSE rec[j]]

\* _reap: the finished processes are forgotten.
Reap ==
    /\ pc = "reap" /\ pc' = "pump"
    /\ running' = running \ Exited
    /\ rec' = Reaped
    /\ UNCHANGED <<pending, job, after, launched, result, workerVars, restarts>>

\* Room in the cap.
RoomMutant == Cardinality(running) <= Cap
Room == Cardinality(running) < Cap

\* The oldest pending job is started: Popen, nothing written yet.
Launch ==
    /\ pc = "pump" /\ pending # <<>> /\ Room
    /\ pending' = Tail(pending)
    /\ IF rec[Head(pending)].st = "queued"
       THEN /\ worker' = [worker EXCEPT ![Head(pending)] = "working"]
            /\ launched' = [NoLaunch EXCEPT !.job = Head(pending)]
            /\ pc' = "launch"
       ELSE UNCHANGED <<worker, launched, pc>>
    /\ UNCHANGED <<running, job, after, diskVars, seen, restarts>>

\* _patch(path, status="running", pid=...), first half: the record is read.
ReadLaunched ==
    /\ pc = "launch"
    /\ launched' = [launched EXCEPT !.seen = rec[launched.job]]
    /\ pc' = "record"
    /\ UNCHANGED <<pending, running, job, after, diskVars, workerVars, restarts>>

\* Second half: it is replaced, and the process is the server's.
RecordLaunched ==
    /\ pc = "record"
    /\ rec' = [rec EXCEPT ![launched.job] =
                 [launched.seen EXCEPT !.st = "running"]]
    /\ running' = running \cup {launched.job}
    /\ launched' = NoLaunch
    /\ pc' = "pump"
    /\ UNCHANGED <<pending, job, after, result, workerVars, restarts>>

\* The loop ends: nothing pending, or no room.
PumpEnds ==
    /\ pc = "pump" /\ (pending = <<>> \/ ~Room)
    /\ CASE after = "status" -> pc' = "reap" /\ after' = "check"
         [] after \in {"check", "cancel"} -> pc' = "check" /\ UNCHANGED after
         [] OTHER -> pc' = "idle" /\ UNCHANGED after
    /\ UNCHANGED <<pending, running, job, launched, diskVars, workerVars, restarts>>

\* A process of this server: _reap will see to it.
OwnedMutant == FALSE
Owned == job \in running

\* status reads the record: one that runs without a process of this server has
\* a worker to look for.
Check ==
    /\ pc = "check"
    /\ pc' = IF rec[job].st = "running" /\ ~Owned THEN "look" ELSE "idle"
    /\ UNCHANGED <<pending, running, job, after, launched, diskVars, workerVars, restarts>>

\* A worker that is gone is not coming back: the job is lost.
LookForWorker ==
    /\ pc = "look"
    /\ IF Alive(job)
       THEN pc' = (IF after = "cancel" THEN "killpid" ELSE "idle") /\ UNCHANGED rec
       ELSE pc' = "idle" /\ rec' = [rec EXCEPT ![job].st = "lost"]
    /\ UNCHANGED <<pending, running, job, after, launched, result, workerVars, restarts>>

-----------------------------------------------------------------------------
(* The worker: _child *)

\* A worker may finish only when SlowStart allows it.
MayFinish(j) == SlowStart => launched.job # j

\* The tool returned: the result file is written.
ResultsMutant(j) == result
Results(j) == result \cup {j}

Finish(j) ==
    /\ worker[j] = "working" /\ MayFinish(j)
    /\ result' = Results(j)
    /\ worker' = [worker EXCEPT ![j] = "done"]
    /\ UNCHANGED <<serverVars, rec, seen, restarts>>

\* The tool raised.
Raise(j) ==
    /\ worker[j] = "working" /\ MayFinish(j)
    /\ worker' = [worker EXCEPT ![j] = "failed"]
    /\ UNCHANGED <<serverVars, diskVars, seen, restarts>>

\* _patch(rec_path, ...): the record is read, and replaced.
ReadOwn(j) ==
    /\ worker[j] \in {"done", "failed"}
    /\ seen' = [seen EXCEPT ![j] = rec[j]]
    /\ worker' = [worker EXCEPT ![j] = IF @ = "done" THEN "patchdone" ELSE "patchfailed"]
    /\ UNCHANGED <<serverVars, diskVars, restarts>>

WriteOwn(j) ==
    /\ worker[j] \in {"patchdone", "patchfailed"}
    /\ rec' = [rec EXCEPT ![j] =
                 IF worker[j] = "patchdone" THEN [seen[j] EXCEPT !.st = "done", !.res = TRUE]
                 ELSE [seen[j] EXCEPT !.st = "failed"]]
    /\ worker' = [worker EXCEPT ![j] = "gone"]
    /\ seen' = [seen EXCEPT ![j] = NoRecord]
    /\ UNCHANGED <<serverVars, result, restarts>>

\* Killed from outside, out of memory, a crash in native code.
Die(j) ==
    /\ CanDie /\ Alive(j)
    /\ worker' = [worker EXCEPT ![j] = "gone"]
    /\ UNCHANGED <<serverVars, diskVars, seen, restarts>>

\* _pending of a new server.
FreshPending == <<>>

\* The server dies, wherever it was, and is started again with an empty queue;
\* the workers are detached and stay.
Restart ==
    /\ restarts < MaxRestarts /\ restarts' = restarts + 1
    /\ pending' = FreshPending /\ running' = {}
    /\ pc' = "idle" /\ job' = NoJob /\ after' = "return" /\ launched' = NoLaunch
    /\ UNCHANGED <<diskVars, workerVars>>

Server ==
    \/ Kill \/ KillPid \/ Reap \/ Launch \/ ReadLaunched \/ RecordLaunched \/ PumpEnds
    \/ Check \/ LookForWorker

Worker(j) == Finish(j) \/ Raise(j) \/ ReadOwn(j) \/ WriteOwn(j)

Next ==
    \/ Server \/ Restart
    \/ \E j \in Jobs : Submit(j) \/ Status(j) \/ Cancel(j) \/ Worker(j) \/ Die(j)

Spec == Init /\ [][Next]_vars

\* A tool call runs to its end, a worker's tool returns or raises, and clients
\* keep asking for the jobs they submitted: nothing else moves the queue.
FairSpec ==
    /\ Spec /\ WF_vars(Server)
    /\ \A j \in Jobs : WF_vars(Worker(j)) /\ SF_vars(Status(j))

-----------------------------------------------------------------------------
(* Properties *)

(* _child: "Writes the result file, then the record" -- a job that says it is *)
(* done has its result on disk, whoever wrote the record last.                *)
DoneHasResult == \A j \in Jobs : rec[j].st = "done" => rec[j].res /\ j \in result

(* _pump, status, cancel: a record that says a job is over is never the       *)
(* record of a worker still computing.                                        *)
OverMeansOver ==
    \A j \in Jobs : rec[j].st \in TERMINAL => worker[j] # "working"

(* A job is computed at most once, over every restart and however it is       *)
(* polled and cancelled: none is launched that had a worker, or is over.      *)
StartedOnce ==
    [][\A j \in Jobs : launched'.job = j /\ launched.job # j
         => worker[j] = "none" /\ rec[j].st = "queued"]_vars

(* LAB_MCP_MAX_JOBS: no more workers than the cap.                            *)
CapHolds == Cardinality(Working) <= Cap

(* TERMINAL: a job that is over stays what it was.                            *)
OverStays ==
    [][\A j \in Jobs : rec[j].st \in TERMINAL => rec'[j].st = rec[j].st]_vars

(* "a finished job survives ... the server being restarted": a record that    *)
(* says done goes on saying so.                                               *)
FinishedSurvives ==
    [][\A j \in Jobs : rec[j].st = "done" => rec'[j].st = "done"]_vars

(* "the ones past the cap wait their turn": a submitted job ends.             *)
JobsEnd == \A j \in Jobs : rec[j].st = "queued" ~> rec[j].st \in TERMINAL
=============================================================================
