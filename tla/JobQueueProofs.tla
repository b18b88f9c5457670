--------------------------- MODULE JobQueueProofs ---------------------------
(* Theorems about JobQueue, for every set of jobs, every cap, and any number *)
(* of deaths, cancellations and restarts.                                    *)
EXTENDS JobQueue, SequenceTheorems, FiniteSetTheorems, TLAPS

\* The queue holds jobs nothing has been started for, each of them once.
Waiting ==
    /\ \A k \in 1..Len(pending) :
          worker[pending[k]] = "none" /\ rec[pending[k]].st = "queued"
    /\ \A k, l \in 1..Len(pending) : pending[k] = pending[l] => k = l

\* What is known of the jobs the server is busy with: the launched job has its
\* worker and its room, the killed one had a worker, and the one whose worker
\* is looked for is no longer in the queue.
Busy ==
    /\ pc # "idle" => job \in Jobs
    /\ pc \in {"launch", "record"} => launched.job \in Jobs /\ worker[launched.job] # "none"
    /\ pc = "kill" => worker[job] # "none"
    /\ pc = "look" => rec[job].st \notin {"none", "queued"}

RoomKept == pc \in {"launch", "record"} => Cardinality(running) < Cap

\* A worker belongs to a submitted job, and is done when its result is stored.
Workers ==
    /\ \A j \in Jobs : rec[j].st = "none" => worker[j] = "none"
    /\ \A j \in Jobs : worker[j] \in {"done", "patchdone"} => j \in result

QueueInv == TypeOK /\ Waiting /\ Busy /\ RoomKept /\ Workers /\ DoneHasResult /\ OverMeansOver

LEMMA NoRecordType == NoRecord \in Records /\ NoLaunch \in [job: Jobs \cup {NoJob}, seen: Records]
BY DEF NoRecord, NoLaunch, Records

\* The queue is left alone, and so are the jobs in it.
LEMMA WaitingKept ==
    ASSUME QueueType, Waiting, pending' = pending,
           \A j \in Jobs : worker[j] = "none" /\ rec[j].st = "queued"
             => worker'[j] = "none" /\ rec'[j].st = "queued"
    PROVE  Waiting'
<1>1. \A k \in 1..Len(pending) : pending[k] \in Jobs
  BY ElementOfSeq DEF QueueType
<1> QED BY <1>1 DEF Waiting

\* Elements of a sequence with one taken out.
LEMMA Without ==
    ASSUME NEW s \in Seq(Jobs), NEW k \in 1..Len(s)
    PROVE  /\ RemoveAt(s, k) \in Seq(Jobs)
           /\ Len(RemoveAt(s, k)) = Len(s) - 1
           /\ \A l \in 1..(Len(s) - 1) : RemoveAt(s, k)[l] = IF l < k THEN s[l] ELSE s[l + 1]
<1> DEFINE a == SubSeq(s, 1, k - 1)
           b == SubSeq(s, k + 1, Len(s))
<1>0. Len(s) \in Nat /\ k \in Int
  BY LenProperties
<1>1. \A i \in 1..Len(s) : s[i] \in Jobs
  BY ElementOfSeq
<1>2. a \in Seq(Jobs) /\ Len(a) = k - 1 /\ \A i \in 1..(k - 1) : a[i] = s[i]
  <2>1. \A i \in 1..(k - 1) : s[i] \in Jobs
    BY <1>0, <1>1
  <2> QED BY <1>0, <2>1, SubSeqProperties
<1>3. b \in Seq(Jobs) /\ Len(b) = Len(s) - k /\ \A i \in 1..(Len(s) - k) : b[i] = s[k + i]
  <2>1. \A i \in (k + 1)..Len(s) : s[i] \in Jobs
    BY <1>0, <1>1
  <2>2. /\ b \in Seq(Jobs)
        /\ Len(b) = IF k + 1 <= Len(s) THEN Len(s) - (k + 1) + 1 ELSE 0
        /\ \A i \in 1..(Len(s) - (k + 1) + 1) : b[i] = s[k + 1 + i - 1]
    BY <1>0, <2>1, SubSeqProperties
  <2> QED BY <1>0, <2>2
<1>4. RemoveAt(s, k) = a \o b
  BY DEF RemoveAt
<1> HIDE DEF a, b
<1>5. /\ a \o b \in Seq(Jobs) /\ Len(a \o b) = Len(a) + Len(b)
      /\ \A i \in 1..(Len(a) + Len(b)) : (a \o b)[i] = IF i <= Len(a) THEN a[i] ELSE b[i - Len(a)]
  BY <1>2, <1>3, ConcatProperties
<1>6. Len(a) + Len(b) = Len(s) - 1
  BY <1>0, <1>2, <1>3
<1>7. ASSUME NEW l \in 1..(Len(s) - 1)
      PROVE  (a \o b)[l] = IF l < k THEN s[l] ELSE s[l + 1]
  <2>1. CASE l < k
    BY <1>0, <1>2, <1>5, <1>6, <2>1
  <2>2. CASE ~(l < k)
    <3>1. l - Len(a) \in 1..(Len(s) - k) /\ k + (l - Len(a)) = l + 1 /\ ~(l <= Len(a))
      BY <1>0, <1>2, <2>2
    <3> QED BY <1>3, <1>5, <1>6, <2>2, <3>1
  <2> QED BY <2>1, <2>2
<1> QED BY <1>4, <1>5, <1>6, <1>7

\* The records.
LEMMA DiskStep == ASSUME QueueInv, Next PROVE DiskType'
<1> USE DEF QueueInv, TypeOK, DiskType
<1>0. CASE UNCHANGED diskVars
  BY <1>0 DEF diskVars
<1>1. ASSUME NEW j \in Jobs, NEW s \in {"queued", "running"} \cup TERMINAL,
             rec' = [rec EXCEPT ![j].st = s], result' = result
      PROVE  DiskType'
  BY <1>1 DEF Records
<1>2. CASE \E j \in Jobs : Submit(j) \/ Cancel(j)
  BY <1>0, <1>1, <1>2 DEF Submit, Cancel, diskVars, TERMINAL
<1>3. CASE Kill \/ KillPid \/ LookForWorker
  BY <1>0, <1>1, <1>3 DEF Kill, KillPid, LookForWorker, diskVars, TERMINAL, Busy
<1>4. CASE Reap
  BY <1>4 DEF Reap, Reaped, Records, TERMINAL
<1>5. CASE RecordLaunched
  BY <1>5 DEF RecordLaunched, Records, Busy, CallType
<1>6. CASE \E j \in Jobs : Finish(j)
  BY <1>6 DEF Finish, Results
<1>7. CASE \E j \in Jobs : WriteOwn(j)
  <2>1. PICK j \in Jobs : WriteOwn(j)
    BY <1>7
  <2>2. seen[j] \in Records
    BY DEF WorkerType
  <2>3. [seen[j] EXCEPT !.st = "done", !.res = TRUE] \in Records
    BY <2>2 DEF Records, TERMINAL
  <2>4. [seen[j] EXCEPT !.st = "failed"] \in Records
    BY <2>2 DEF Records, TERMINAL
  <2> QED BY <2>1, <2>3, <2>4 DEF WriteOwn
<1>8. CASE Launch \/ ReadLaunched \/ PumpEnds \/ Check \/ Restart
  BY <1>0, <1>8 DEF Launch, ReadLaunched, PumpEnds, Check, Restart
<1>9. CASE \E j \in Jobs : Status(j) \/ Raise(j) \/ ReadOwn(j) \/ Die(j)
  BY <1>0, <1>9 DEF Status, Raise, ReadOwn, Die, diskVars
<1> QED BY <1>2, <1>3, <1>4, <1>5, <1>6, <1>7, <1>8, <1>9 DEF Next, Server, Worker

\* The queue and the processes.
LEMMA QueueStep == ASSUME QueueInv, Next PROVE QueueType'
<1> USE DEF QueueInv, TypeOK, QueueType
<1>0. CASE UNCHANGED <<pending, running>>
  BY <1>0
<1>1. ASSUME NEW j \in Jobs, Submit(j) PROVE QueueType'
  BY <1>1, AppendProperties DEF Submit
<1>2. ASSUME NEW j \in Jobs, Cancel(j) PROVE QueueType'
  BY <1>2, Without DEF Cancel
<1>3. CASE Launch
  BY <1>3, HeadTailProperties DEF Launch
<1>4. CASE RecordLaunched
  BY <1>4 DEF RecordLaunched, Busy
<1>5. CASE Reap
  BY <1>5 DEF Reap
<1>6. CASE Restart
  BY <1>6, EmptySeq DEF Restart, FreshPending
<1>7. CASE Kill \/ KillPid \/ ReadLaunched \/ PumpEnds \/ Check \/ LookForWorker
  BY <1>0, <1>7 DEF Kill, KillPid, ReadLaunched, PumpEnds, Check, LookForWorker
<1>8. ASSUME NEW j \in Jobs, Status(j) \/ Worker(j) \/ Die(j) PROVE QueueType'
  BY <1>0, <1>8 DEF Status, Worker, Finish, Raise, ReadOwn, WriteOwn, Die, serverVars
<1> QED BY <1>1, <1>2, <1>3, <1>4, <1>5, <1>6, <1>7, <1>8 DEF Next, Server

\* The tool call in progress.
LEMMA CallStep == ASSUME QueueInv, Next PROVE CallType'
<1> USE DEF QueueInv, TypeOK, CallType
<1>1. ASSUME NEW j \in Jobs, Submit(j) \/ Status(j) \/ Cancel(j) PROVE CallType'
  BY <1>1 DEF Submit, Status, Cancel
<1>2. CASE Kill \/ KillPid \/ Reap \/ Check \/ LookForWorker
  BY <1>2 DEF Kill, KillPid, Reap, Check, LookForWorker
<1>3. CASE PumpEnds
  BY <1>3 DEF PumpEnds
<1>4. CASE Launch
  <2>1. Head(pending) \in Jobs
    BY <1>4, HeadTailProperties DEF Launch, QueueType
  <2> QED BY <1>4, <2>1, NoRecordType DEF Launch, NoLaunch
<1>5. CASE ReadLaunched
  BY <1>5 DEF ReadLaunched, Busy, DiskType
<1>6. CASE RecordLaunched \/ Restart
  BY <1>6, NoRecordType DEF RecordLaunched, Restart
<1>7. ASSUME NEW j \in Jobs, Worker(j) \/ Die(j) PROVE CallType'
  BY <1>7 DEF Worker, Finish, Raise, ReadOwn, WriteOwn, Die, serverVars
<1> QED BY <1>1, <1>2, <1>3, <1>4, <1>5, <1>6, <1>7 DEF Next, Server

\* The workers.
LEMMA WorkerStep == ASSUME QueueInv, Next PROVE WorkerType'
<1> USE DEF QueueInv, TypeOK, WorkerType
<1>0. CASE UNCHANGED workerVars
  BY <1>0 DEF workerVars
<1>1. CASE Kill \/ KillPid
  BY <1>1 DEF Kill, KillPid
<1>2. CASE Launch
  BY <1>2 DEF Launch
<1>3. ASSUME NEW j \in Jobs, Finish(j) \/ Raise(j) \/ Die(j) PROVE WorkerType'
  BY <1>3 DEF Finish, Raise, Die
<1>4. ASSUME NEW j \in Jobs, ReadOwn(j) PROVE WorkerType'
  BY <1>4 DEF ReadOwn, DiskType
<1>5. ASSUME NEW j \in Jobs, WriteOwn(j) PROVE WorkerType'
  BY <1>5, NoRecordType DEF WriteOwn
<1>6. CASE Reap \/ ReadLaunched \/ RecordLaunched \/ PumpEnds \/ Check \/ LookForWorker \/ Restart
  BY <1>0, <1>6 DEF Reap, ReadLaunched, RecordLaunched, PumpEnds, Check, LookForWorker, Restart
<1>7. ASSUME NEW j \in Jobs, Submit(j) \/ Status(j) \/ Cancel(j) PROVE WorkerType'
  BY <1>0, <1>7 DEF Submit, Status, Cancel
<1> QED BY <1>1, <1>2, <1>3, <1>4, <1>5, <1>6, <1>7 DEF Next, Server, Worker

\* The processes stay within the cap: a launch has its room until it is
\* recorded, because nothing else takes a process meanwhile.
LEMMA CountStep == ASSUME QueueInv, Next PROVE CountType' /\ RoomKept'
<1> USE DEF QueueInv, TypeOK, CountType, RoomKept
<1>0. IsFiniteSet(running) /\ Cardinality(running) \in Nat /\ Cap \in Nat /\ 0 < Cap
  <2>1. IsFiniteSet(running)
    BY FS_Subset, QueueAssumption DEF QueueType
  <2> QED BY <2>1, FS_CardinalityType, QueueAssumption
<1>1. CASE running' = running /\ restarts' = restarts
           /\ (pc' \notin {"launch", "record"} \/ pc \in {"launch", "record"} \/ Room)
  BY <1>1 DEF Room
<1>2. CASE running' \subseteq running /\ restarts' = restarts /\ pc' \notin {"launch", "record"}
  <2>1. Cardinality(running') <= Cardinality(running) /\ Cardinality(running') \in Nat
    BY <1>0, <1>2, FS_Subset, FS_CardinalityType
  <2> QED BY <1>0, <1>2, <2>1
<1>3. CASE RecordLaunched
  <2>1. Cardinality(running) < Cap
    BY <1>3 DEF RecordLaunched
  <2>2. Cardinality(running') \in {Cardinality(running), Cardinality(running) + 1}
    BY <1>0, <1>3, FS_AddElement DEF RecordLaunched
  <2>3. pc' = "pump" /\ restarts' = restarts
    BY <1>3 DEF RecordLaunched
  <2> QED BY <1>0, <2>1, <2>2, <2>3
<1>4. CASE Restart
  BY <1>0, <1>4, FS_EmptySet, QueueAssumption DEF Restart
<1>5. ASSUME NEW j \in Jobs, Submit(j) \/ Status(j) \/ Worker(j) \/ Die(j)
      PROVE  CountType' /\ RoomKept'
  BY <1>1, <1>5 DEF Submit, Status, Worker, Finish, Raise, ReadOwn, WriteOwn, Die, serverVars
<1>6. ASSUME NEW j \in Jobs, Cancel(j) PROVE CountType' /\ RoomKept'
  BY <1>2, <1>6 DEF Cancel
<1>7. CASE Kill \/ KillPid \/ ReadLaunched \/ Check \/ LookForWorker
  BY <1>1, <1>7 DEF Kill, KillPid, ReadLaunched, Check, LookForWorker
<1>8. CASE PumpEnds \/ Launch
  BY <1>1, <1>8 DEF PumpEnds, Launch
<1>9. CASE Reap
  BY <1>2, <1>9 DEF Reap
<1> QED BY <1>3, <1>4, <1>5, <1>6, <1>7, <1>8, <1>9 DEF Next, Server

\* What is pending stays untouched: only Launch starts a worker, and every
\* write to a record is to one that has a worker or has just left the queue.
LEMMA WaitingStep == ASSUME QueueInv, Next PROVE Waiting'
<1> USE DEF QueueInv, TypeOK
<1>q. pending \in Seq(Jobs) /\ Len(pending) \in Nat /\ \A k \in 1..Len(pending) : pending[k] \in Jobs
  BY LenProperties, ElementOfSeq DEF QueueType
<1>0. CASE UNCHANGED <<pending, rec, worker>>
  BY <1>0 DEF Waiting
<1>1. ASSUME NEW j \in Jobs, Submit(j) PROVE Waiting'
  <2>1. /\ pending' = Append(pending, j) /\ worker' = worker
        /\ rec' = [rec EXCEPT ![j].st = "queued"]
        /\ rec[j].st = "none" /\ worker[j] = "none"
    BY <1>1 DEF Submit, workerVars, Workers
  <2>2. /\ Len(pending') = Len(pending) + 1 /\ pending'[Len(pending) + 1] = j
        /\ \A k \in 1..Len(pending) : pending'[k] = pending[k]
    BY <1>q, <2>1, AppendProperties
  <2>3. \A k \in 1..Len(pending) : pending[k] # j
    BY <2>1 DEF Waiting
  <2>4. rec'[j].st = "queued" /\ \A i \in Jobs \ {j} : rec'[i] = rec[i]
    BY <2>1 DEF DiskType, Records
  <2>5. ASSUME NEW k \in 1..Len(pending')
        PROVE  worker'[pending'[k]] = "none" /\ rec'[pending'[k]].st = "queued"
    BY <1>q, <2>1, <2>2, <2>3, <2>4 DEF Waiting
  <2>6. ASSUME NEW k \in 1..Len(pending'), NEW l \in 1..Len(pending'), pending'[k] = pending'[l]
        PROVE  k = l
    BY <1>q, <2>2, <2>3, <2>6 DEF Waiting
  <2> QED BY <2>5, <2>6 DEF Waiting
<1>2. ASSUME NEW j \in Jobs, Cancel(j) PROVE Waiting'
  <2>1. CASE UNCHANGED <<pending, rec>>
    BY <1>0, <1>2, <2>1 DEF Cancel, workerVars
  <2>2. ASSUME NEW k \in 1..Len(pending), pending[k] = j, pending' = RemoveAt(pending, k),
               rec' = [rec EXCEPT ![j].st = "cancelled"]
        PROVE  Waiting'
    <3>0. worker' = worker
      BY <1>2 DEF Cancel, workerVars
    <3>1. /\ Len(pending') = Len(pending) - 1
          /\ \A l \in 1..(Len(pending) - 1) :
                pending'[l] = IF l < k THEN pending[l] ELSE pending[l + 1]
      BY <1>q, <2>2, Without
    <3>2. \A i \in Jobs \ {j} : rec'[i] = rec[i]
      BY <2>2 DEF DiskType
    <3>3. ASSUME NEW l \in 1..Len(pending')
          PROVE  \E m \in 1..Len(pending) : m # k /\ pending'[l] = pending[m]
                    /\ m = (IF l < k THEN l ELSE l + 1)
      BY <1>q, <3>1
    <3>4. ASSUME NEW l \in 1..Len(pending')
          PROVE  worker'[pending'[l]] = "none" /\ rec'[pending'[l]].st = "queued"
      <4>1. PICK m \in 1..Len(pending) : m # k /\ pending'[l] = pending[m]
        BY <3>3
      <4>2. pending[m] \in Jobs \ {j}
        BY <1>q, <2>2, <4>1 DEF Waiting
      <4> QED BY <3>0, <3>2, <4>1, <4>2 DEF Waiting
    <3>5. ASSUME NEW l \in 1..Len(pending'), NEW i \in 1..Len(pending'), pending'[l] = pending'[i]
          PROVE  l = i
      <4>1. PICK m \in 1..Len(pending) : pending'[l] = pending[m]
                /\ m = (IF l < k THEN l ELSE l + 1)
        BY <3>3
      <4>2. PICK n \in 1..Len(pending) : pending'[i] = pending[n]
                /\ n = (IF i < k THEN i ELSE i + 1)
        BY <3>3
      <4>3. m = n
        BY <3>5, <4>1, <4>2 DEF Waiting
      <4> QED BY <1>q, <3>1, <4>1, <4>2, <4>3
    <3> QED BY <3>4, <3>5 DEF Waiting
  <2> QED BY <1>2, <2>1, <2>2 DEF Cancel
<1>3. CASE Launch
  <2>1. /\ pending # <<>> /\ pending' = Tail(pending) /\ rec' = rec
        /\ \A i \in Jobs \ {Head(pending)} : worker'[i] = worker[i]
    BY <1>3 DEF Launch, WorkerType, diskVars
  <2>2. /\ Len(pending') = Len(pending) - 1
        /\ \A k \in 1..Len(pending') : pending'[k] = pending[k + 1]
    BY <1>q, <2>1, HeadTailProperties
  <2>3. Head(pending) = pending[1] /\ 1 \in 1..Len(pending)
    BY <1>q, <2>1, EmptySeq
  <2>4. ASSUME NEW k \in 1..Len(pending')
        PROVE  worker'[pending'[k]] = "none" /\ rec'[pending'[k]].st = "queued"
    <3>1. k + 1 \in 1..Len(pending) /\ k + 1 # 1
      BY <1>q, <2>2
    <3>2. pending[k + 1] \in Jobs \ {Head(pending)}
      BY <1>q, <2>3, <3>1 DEF Waiting
    <3> QED BY <2>1, <2>2, <3>1, <3>2 DEF Waiting
  <2>5. ASSUME NEW k \in 1..Len(pending'), NEW l \in 1..Len(pending'), pending'[k] = pending'[l]
        PROVE  k = l
    <3>1. k + 1 \in 1..Len(pending) /\ l + 1 \in 1..Len(pending)
      BY <1>q, <2>2
    <3>2. k + 1 = l + 1
      BY <2>2, <2>5, <3>1 DEF Waiting
    <3> QED BY <1>q, <2>2, <3>2
  <2> QED BY <2>4, <2>5 DEF Waiting
<1>4. CASE Restart
  BY <1>4 DEF Restart, FreshPending, Waiting
<1>5. CASE pending' = pending /\ \A j \in Jobs : worker[j] = "none" /\ rec[j].st = "queued"
             => worker'[j] = "none" /\ rec'[j].st = "queued"
  BY <1>5, WaitingKept
<1>6. CASE Kill
  BY <1>5, <1>6 DEF Kill, Busy, DiskType, WorkerType
<1>7. CASE KillPid
  BY <1>5, <1>7 DEF KillPid, Busy, DiskType, WorkerType, Alive
<1>8. CASE Reap
  BY <1>5, <1>8 DEF Reap, Reaped, workerVars
<1>9. CASE RecordLaunched
  BY <1>5, <1>9 DEF RecordLaunched, Busy, DiskType, workerVars
<1>10. CASE LookForWorker
  BY <1>5, <1>10 DEF LookForWorker, Busy, DiskType, workerVars
<1>11. ASSUME NEW j \in Jobs, Worker(j) \/ Die(j) PROVE Waiting'
  BY <1>5, <1>11 DEF Worker, Finish, Raise, ReadOwn, WriteOwn, Die, Alive, DiskType, WorkerType, diskVars, serverVars
<1>12. CASE ReadLaunched \/ PumpEnds \/ Check
  BY <1>0, <1>12 DEF ReadLaunched, PumpEnds, Check, diskVars, workerVars
<1>13. ASSUME NEW j \in Jobs, Status(j) PROVE Waiting'
  BY <1>0, <1>13 DEF Status, diskVars, workerVars
<1> QED BY <1>1, <1>2, <1>3, <1>4, <1>6, <1>7, <1>8, <1>9, <1>10, <1>11, <1>12, <1>13 DEF Next, Server

\* What the call in progress knows of its jobs stays true whatever the workers do.
LEMMA BusyStep == ASSUME QueueInv, Next PROVE Busy'
<1> USE DEF QueueInv, TypeOK, Busy
<1>1. ASSUME NEW j \in Jobs, Submit(j) \/ Status(j) \/ Cancel(j) PROVE Busy'
  BY <1>1 DEF Submit, Status, Cancel, Alive, workerVars
<1>2. CASE Launch
  <2>1. Head(pending) \in Jobs
    BY <1>2, HeadTailProperties DEF Launch, QueueType
  <2> QED BY <1>2, <2>1 DEF Launch, NoLaunch, WorkerType
<1>3. CASE ReadLaunched
  BY <1>3 DEF ReadLaunched, CallType, workerVars
<1>4. CASE PumpEnds
  BY <1>4 DEF PumpEnds
<1>5. CASE Check
  BY <1>5 DEF Check, diskVars
<1>6. CASE Kill \/ KillPid \/ Reap \/ RecordLaunched \/ LookForWorker \/ Restart
  BY <1>6 DEF Kill, KillPid, Reap, RecordLaunched, LookForWorker, Restart
<1>7. ASSUME NEW j \in Jobs, Finish(j) \/ Raise(j) \/ ReadOwn(j) \/ Die(j) PROVE Busy'
  BY <1>7 DEF Finish, Raise, ReadOwn, Die, Alive, WorkerType, diskVars, serverVars
<1>8. ASSUME NEW j \in Jobs, WriteOwn(j) PROVE Busy'
  <2>1. rec'[j].st \in {"done", "failed"} /\ \A i \in Jobs \ {j} : rec'[i] = rec[i]
    BY <1>8 DEF WriteOwn, DiskType, WorkerType, Records
  <2>2. worker'[j] = "gone" /\ \A i \in Jobs \ {j} : worker'[i] = worker[i]
    BY <1>8 DEF WriteOwn, WorkerType
  <2> QED BY <1>8, <2>1, <2>2 DEF WriteOwn, serverVars
<1> QED BY <1>1, <1>2, <1>3, <1>4, <1>5, <1>6, <1>7, <1>8 DEF Next, Server, Worker

\* A result is stored before its worker is done, and never taken away.
LEMMA WorkersStep == ASSUME QueueInv, Next PROVE Workers'
<1> USE DEF QueueInv, TypeOK, Workers
<1>0. CASE UNCHANGED diskVars /\ UNCHANGED worker
  BY <1>0 DEF diskVars
<1>1. ASSUME NEW j \in Jobs, NEW s \in {"queued", "running"} \cup TERMINAL,
             rec' = [rec EXCEPT ![j].st = s], result' = result, worker' = worker
      PROVE  Workers'
  BY <1>1 DEF Records, DiskType, TERMINAL
<1>2. CASE \E j \in Jobs : Submit(j) \/ Cancel(j)
  <2>1. PICK j \in Jobs : Submit(j) \/ Cancel(j)
    BY <1>2
  <2>2. result' = result /\ worker' = worker
    BY <2>1 DEF Submit, Cancel, workerVars
  <2>3. CASE rec[j].st = "none" /\ rec' = [rec EXCEPT ![j].st = "queued"]
    BY <2>2, <2>3 DEF DiskType, Records
  <2>4. CASE rec' = [rec EXCEPT ![j].st = "cancelled"]
    BY <2>2, <2>4, <1>1 DEF TERMINAL
  <2>5. CASE rec' = rec
    BY <2>2, <2>5, <1>0 DEF diskVars
  <2> QED BY <2>1, <2>3, <2>4, <2>5 DEF Submit, Cancel
<1>3. CASE Kill \/ KillPid
  <2>1. job \in Jobs /\ result' = result
    BY <1>3 DEF Kill, KillPid, Busy
  <2>2. CASE rec' = [rec EXCEPT ![job].st = "cancelled"] /\ worker' = [worker EXCEPT ![job] = "gone"]
    BY <2>1, <2>2 DEF DiskType, WorkerType, Records
  <2>3. CASE UNCHANGED <<worker, rec>>
    BY <2>1, <2>3
  <2> QED BY <1>3, <2>2, <2>3 DEF Kill, KillPid
<1>4. CASE LookForWorker
  <2>1. CASE rec' = rec
    BY <1>0, <1>4, <2>1 DEF LookForWorker, diskVars, workerVars
  <2>2. CASE rec' = [rec EXCEPT ![job].st = "lost"]
    BY <1>1, <1>4, <2>2 DEF LookForWorker, workerVars, TERMINAL, Busy
  <2> QED BY <1>4, <2>1, <2>2 DEF LookForWorker
<1>5. CASE Reap
  BY <1>5 DEF Reap, Reaped, workerVars, DiskType, Records
<1>6. CASE RecordLaunched
  BY <1>6 DEF RecordLaunched, workerVars, Busy, DiskType, CallType, Records
<1>7. CASE Launch
  <2>1. CASE UNCHANGED <<worker>>
    BY <1>0, <1>7, <2>1 DEF Launch, diskVars
  <2>2. CASE rec[Head(pending)].st = "queued" /\ worker' = [worker EXCEPT ![Head(pending)] = "working"]
    BY <1>7, <2>2 DEF Launch, diskVars, WorkerType
  <2> QED BY <1>7, <2>1, <2>2 DEF Launch
<1>8. ASSUME NEW j \in Jobs, Finish(j) PROVE Workers'
  BY <1>8 DEF Finish, Results, WorkerType
<1>9. ASSUME NEW j \in Jobs, Raise(j) \/ ReadOwn(j) \/ Die(j) PROVE Workers'
  BY <1>9 DEF Raise, ReadOwn, Die, Alive, WorkerType, diskVars
<1>10. ASSUME NEW j \in Jobs, WriteOwn(j) PROVE Workers'
  <2>1. rec'[j].st # "none" /\ \A i \in Jobs \ {j} : rec'[i] = rec[i]
    BY <1>10 DEF WriteOwn, DiskType, WorkerType, Records
  <2>2. worker'[j] = "gone" /\ \A i \in Jobs \ {j} : worker'[i] = worker[i]
    BY <1>10 DEF WriteOwn, WorkerType
  <2> QED BY <1>10, <2>1, <2>2 DEF WriteOwn
<1>11. CASE ReadLaunched \/ PumpEnds \/ Check \/ Restart
  BY <1>0, <1>11 DEF ReadLaunched, PumpEnds, Check, Restart, workerVars
<1>12. ASSUME NEW j \in Jobs, Status(j) PROVE Workers'
  BY <1>0, <1>12 DEF Status, workerVars
<1> QED BY <1>2, <1>3, <1>4, <1>5, <1>6, <1>7, <1>8, <1>9, <1>10, <1>11, <1>12 DEF Next, Server, Worker

\* A record comes to say that its job is over when there is no worker
\* computing it, and that it is done when the result is stored.
LEMMA OverStep == ASSUME QueueInv, Next PROVE DoneHasResult' /\ OverMeansOver'
<1> USE DEF QueueInv, TypeOK, DoneHasResult, OverMeansOver
<1>0. CASE UNCHANGED diskVars /\ \A j \in Jobs : worker'[j] = "working" => worker[j] = "working"
  BY <1>0 DEF diskVars
<1>1. ASSUME NEW j \in Jobs, NEW s \in {"queued", "running", "failed", "cancelled", "lost"},
             rec' = [rec EXCEPT ![j].st = s], result' = result,
             s \in TERMINAL => worker'[j] # "working",
             \A i \in Jobs : worker'[i] = "working" => worker[i] = "working"
      PROVE  DoneHasResult' /\ OverMeansOver'
  <2>1. rec'[j].st = s /\ \A i \in Jobs \ {j} : rec'[i] = rec[i]
    BY <1>1 DEF DiskType, Records
  <2>2. \A i \in Jobs : rec'[i].st = "done" => i # j
    BY <2>1
  <2>3. DoneHasResult'
    BY <1>1, <2>1, <2>2
  <2>4. OverMeansOver'
    BY <1>1, <2>1
  <2> QED BY <2>3, <2>4
<1>2. ASSUME NEW j \in Jobs, Submit(j) PROVE DoneHasResult' /\ OverMeansOver'
  BY <1>1, <1>2 DEF Submit, workerVars, TERMINAL
<1>3. ASSUME NEW j \in Jobs, Cancel(j) PROVE DoneHasResult' /\ OverMeansOver'
  <2>1. worker' = worker /\ result' = result
    BY <1>3 DEF Cancel, workerVars
  <2>2. CASE rec' = rec
    BY <1>0, <2>1, <2>2 DEF diskVars
  <2>3. ASSUME NEW k \in 1..Len(pending), pending[k] = j, rec' = [rec EXCEPT ![j].st = "cancelled"]
        PROVE  DoneHasResult' /\ OverMeansOver'
    <3>1. worker'[j] # "working"
      BY <2>1, <2>3 DEF Waiting
    <3> QED BY <1>1, <2>1, <2>3, <3>1
  <2> QED BY <1>3, <2>2, <2>3 DEF Cancel
<1>4. CASE Kill \/ KillPid
  <2>1. job \in Jobs /\ result' = result
    BY <1>4 DEF Kill, KillPid, Busy
  <2>2. CASE rec' = [rec EXCEPT ![job].st = "cancelled"] /\ worker' = [worker EXCEPT ![job] = "gone"]
    <3>1. worker'[job] # "working" /\ \A i \in Jobs : worker'[i] = "working" => worker[i] = "working"
      BY <2>1, <2>2 DEF WorkerType
    <3> QED BY <1>1, <2>1, <2>2, <3>1
  <2>3. CASE UNCHANGED <<worker, rec>>
    BY <1>0, <2>1, <2>3 DEF diskVars
  <2> QED BY <1>4, <2>2, <2>3 DEF Kill, KillPid
<1>5. CASE LookForWorker
  <2>1. CASE rec' = rec
    BY <1>0, <1>5, <2>1 DEF LookForWorker, diskVars, workerVars
  <2>2. CASE ~Alive(job) /\ rec' = [rec EXCEPT ![job].st = "lost"]
    BY <1>1, <1>5, <2>2 DEF LookForWorker, workerVars, Busy, Alive
  <2> QED BY <1>5, <2>1, <2>2 DEF LookForWorker
<1>6. CASE Reap
  <2>1. worker' = worker /\ result' = result
    BY <1>6 DEF Reap, workerVars
  <2>2. ASSUME NEW j \in Jobs
        PROVE  rec'[j] = rec[j] \/ (rec'[j].st = "failed" /\ ~Alive(j))
    BY <1>6 DEF Reap, Reaped, Exited, DiskType, Records
  <2>3. DoneHasResult'
    BY <2>1, <2>2
  <2>4. OverMeansOver'
    BY <2>1, <2>2 DEF Alive
  <2> QED BY <2>3, <2>4
<1>7. CASE RecordLaunched
  <2>1. launched.job \in Jobs /\ worker' = worker /\ result' = result
    BY <1>7 DEF RecordLaunched, Busy, workerVars
  <2>2. rec'[launched.job].st = "running" /\ \A i \in Jobs \ {launched.job} : rec'[i] = rec[i]
    BY <1>7, <2>1 DEF RecordLaunched, DiskType, CallType, Records
  <2>3. \A i \in Jobs : rec'[i].st \in TERMINAL => i # launched.job
    BY <2>2 DEF TERMINAL
  <2>4. DoneHasResult'
    BY <2>1, <2>2, <2>3 DEF TERMINAL
  <2>5. OverMeansOver'
    BY <2>1, <2>2, <2>3
  <2> QED BY <2>4, <2>5
<1>8. CASE Launch
  <2>1. CASE UNCHANGED worker
    BY <1>0, <1>8, <2>1 DEF Launch
  <2>2. CASE rec[Head(pending)].st = "queued" /\ worker' = [worker EXCEPT ![Head(pending)] = "working"]
    BY <1>8, <2>2 DEF Launch, diskVars, WorkerType, TERMINAL
  <2> QED BY <1>8, <2>1, <2>2 DEF Launch
<1>9. ASSUME NEW j \in Jobs, Finish(j) PROVE DoneHasResult' /\ OverMeansOver'
  BY <1>9 DEF Finish, Results, WorkerType
<1>10. ASSUME NEW j \in Jobs, Raise(j) \/ ReadOwn(j) \/ Die(j)
       PROVE  DoneHasResult' /\ OverMeansOver'
  BY <1>0, <1>10 DEF Raise, ReadOwn, Die, Alive, WorkerType, diskVars
<1>11. ASSUME NEW j \in Jobs, WriteOwn(j) PROVE DoneHasResult' /\ OverMeansOver'
  <2>1. rec'[j].st = "done" => rec'[j].res /\ j \in result
    BY <1>11 DEF WriteOwn, DiskType, WorkerType, Records, Workers
  <2>2. worker'[j] = "gone" /\ \A i \in Jobs \ {j} : worker'[i] = worker[i]
    BY <1>11 DEF WriteOwn, WorkerType
  <2>3. result' = result /\ \A i \in Jobs \ {j} : rec'[i] = rec[i]
    BY <1>11 DEF WriteOwn, DiskType
  <2> QED BY <2>1, <2>2, <2>3
<1>12. CASE ReadLaunched \/ PumpEnds \/ Check \/ Restart
  BY <1>0, <1>12 DEF ReadLaunched, PumpEnds, Check, Restart, workerVars
<1>13. ASSUME NEW j \in Jobs, Status(j) PROVE DoneHasResult' /\ OverMeansOver'
  BY <1>0, <1>13 DEF Status, workerVars
<1> QED BY <1>2, <1>3, <1>4, <1>5, <1>6, <1>7, <1>8, <1>9, <1>10, <1>11, <1>12, <1>13 DEF Next, Server, Worker

-----------------------------------------------------------------------------
(* The inductive invariant of JobQueue: types, what is pending, what the call *)
(* in progress relies on, and the order in which a worker stores and records. *)
THEOREM QueueInvariant == Spec => []QueueInv
<1>1. Init => QueueInv
  <2>1. ASSUME Init PROVE DiskType /\ WorkerType /\ CallType /\ QueueType
    BY <2>1, NoRecordType, EmptySeq
       DEF Init, DiskType, WorkerType, CallType, QueueType
  <2>2. ASSUME Init PROVE CountType /\ RoomKept
    BY <2>2, FS_EmptySet, QueueAssumption DEF Init, CountType, RoomKept
  <2>3. ASSUME Init PROVE Waiting /\ Busy /\ Workers /\ DoneHasResult /\ OverMeansOver
    BY <2>3 DEF Init, Waiting, Busy, Workers, DoneHasResult, OverMeansOver, NoRecord, TERMINAL
  <2> QED BY <2>1, <2>2, <2>3 DEF QueueInv, TypeOK
<1>2. QueueInv /\ [Next]_vars => QueueInv'
  <2>1. ASSUME QueueInv, Next PROVE QueueInv'
    BY <2>1, DiskStep, QueueStep, CallStep, WorkerStep, CountStep, WaitingStep, BusyStep,
       WorkersStep, OverStep DEF QueueInv, TypeOK
  <2>2. ASSUME QueueInv, UNCHANGED vars PROVE QueueInv'
    BY <2>2 DEF QueueInv, TypeOK, DiskType, QueueType, CallType, WorkerType, CountType,
       Waiting, Busy, RoomKept, Workers, DoneHasResult, OverMeansOver, Alive,
       vars, serverVars, diskVars, workerVars
  <2> QED BY <2>1, <2>2
<1> QED BY <1>1, <1>2, PTL DEF Spec

(* The variables keep their types, and the server never counts more processes *)
(* than the cap (_pump's loop condition against _reap and cancel).            *)
THEOREM QueueTypeCorrect == Spec => []TypeOK
BY QueueInvariant, PTL DEF QueueInv

(* _child's order of writing holds through every crossing of the two _patch   *)
(* calls: a record that says done has its result.                             *)
THEOREM ResultsAreThere == Spec => []DoneHasResult
BY QueueInvariant, PTL DEF QueueInv

(* No record says that a job is over while a worker still computes it.        *)
THEOREM OverIsOver == Spec => []OverMeansOver
BY QueueInvariant, PTL DEF QueueInv

(* _pump launches a job at most once, whatever was cancelled, lost or         *)
(* restarted before: what is pending never had a worker.                      *)
THEOREM LaunchedOnce == Spec => StartedOnce
<1> DEFINE Once == \A j \in Jobs : launched'.job = j /\ launched.job # j
                      => worker[j] = "none" /\ rec[j].st = "queued"
<1>1. ASSUME QueueInv, Next PROVE Once
  <2>0. CASE launched' = launched \/ launched' = NoLaunch
    BY <2>0, QueueAssumption DEF NoLaunch
  <2>1. CASE Launch
    <3>1. Len(pending) \in Nat /\ Head(pending) = pending[1] /\ 1 \in 1..Len(pending)
      BY <1>1, <2>1, LenProperties, EmptySeq DEF QueueInv, TypeOK, QueueType, Launch
    <3>2. worker[Head(pending)] = "none" /\ rec[Head(pending)].st = "queued"
      BY <1>1, <3>1 DEF QueueInv, Waiting
    <3>3. launched' = launched \/ launched'.job = Head(pending)
      BY <2>1 DEF Launch, NoLaunch
    <3> QED BY <3>2, <3>3
  <2>2. CASE ReadLaunched
    <3>1. launched'.job = launched.job
      BY <1>1, <2>2 DEF ReadLaunched, QueueInv, TypeOK, CallType
    <3> QED BY <3>1
  <2>3. CASE Kill \/ KillPid \/ Reap \/ RecordLaunched \/ PumpEnds \/ Check \/ LookForWorker \/ Restart
    BY <2>0, <2>3 DEF Kill, KillPid, Reap, RecordLaunched, PumpEnds, Check, LookForWorker, Restart
  <2>4. ASSUME NEW j \in Jobs, Submit(j) \/ Status(j) \/ Cancel(j) \/ Worker(j) \/ Die(j)
        PROVE  Once
    BY <2>0, <2>4 DEF Submit, Status, Cancel, Worker, Finish, Raise, ReadOwn, WriteOwn, Die, serverVars
  <2> QED BY <1>1, <2>1, <2>2, <2>3, <2>4 DEF Next, Server
<1>2. QueueInv /\ [Next]_vars => [Once]_vars
  BY <1>1
<1> QED BY <1>2, QueueInvariant, PTL DEF Spec, StartedOnce

-----------------------------------------------------------------------------
(* One server *)

\* A server that was never started again knows its workers: those it has in
\* _running, the one it is launching, and the one it is killing.
OwnWorkers ==
    /\ pc \in {"launch", "record"} => Working \subseteq running \cup {launched.job}
    /\ pc = "kill" => Working \subseteq running \cup {job} /\ Cardinality(running \cup {job}) <= Cap
    /\ pc \notin {"launch", "record", "kill"} => Working \subseteq running

LEMMA OwnStep == ASSUME MaxRestarts = 0, QueueInv, OwnWorkers, [Next]_vars PROVE OwnWorkers'
<1> USE DEF QueueInv, TypeOK
<1>0. /\ running \subseteq Jobs /\ IsFiniteSet(running) /\ worker \in [Jobs -> {"none", "working", "done", "failed", "patchdone", "patchfailed", "gone"}]
      /\ pending \in Seq(Jobs) /\ Cardinality(running) <= Cap
  <2>1. running \subseteq Jobs /\ IsFiniteSet(Jobs)
    BY QueueAssumption DEF QueueType
  <2>2. IsFiniteSet(running)
    BY <2>1, FS_Subset
  <2> QED BY <2>1, <2>2 DEF QueueType, WorkerType, CountType
<1>1. ASSUME Working' \subseteq Working, UNCHANGED <<running, pc, job, launched>> PROVE OwnWorkers'
  BY <1>1, Zenon DEF OwnWorkers
<1>2. ASSUME Working' \subseteq Working, UNCHANGED <<running, job, launched>>,
             pc \notin {"launch", "record", "kill"}, pc' \notin {"launch", "record", "kill"}
      PROVE  OwnWorkers'
  <2>1. Working \subseteq running
    BY <1>2 DEF OwnWorkers
  <2> QED BY <1>2, <2>1 DEF OwnWorkers
<1>3. ASSUME worker' = worker PROVE Working' = Working
  BY <1>3 DEF Working, Alive
<1>4. ASSUME NEW j \in Jobs, Submit(j) \/ Status(j) PROVE OwnWorkers'
  <2>1. worker' = worker /\ running' = running /\ pc = "idle" /\ pc' = "reap"
    BY <1>4 DEF Submit, Status, workerVars
  <2>2. Working \subseteq running
    BY <2>1 DEF OwnWorkers
  <2> QED BY <1>3, <2>1, <2>2 DEF OwnWorkers
<1>5. ASSUME NEW j \in Jobs, Cancel(j) PROVE OwnWorkers'
  <2>1. worker' = worker /\ pc = "idle" /\ job' = j
    BY <1>5 DEF Cancel, workerVars
  <2>2. Working \subseteq running /\ Working' = Working
    BY <1>3, <2>1 DEF OwnWorkers
  <2>3. CASE UNCHANGED <<pc, running>>
    BY <2>1, <2>2, <2>3 DEF OwnWorkers
  <2>4. CASE j \in running /\ running' = running \ {j} /\ pc' = "kill"
    <3>1. running' \cup {job'} = running
      BY <2>1, <2>4
    <3>2. Working' \subseteq running' \cup {job'} /\ Cardinality(running' \cup {job'}) <= Cap
      BY <1>0, <2>2, <3>1
    <3> QED BY <2>4, <3>2 DEF OwnWorkers
  <2>5. CASE ~(j \in running /\ Alive(j)) /\ running' = running \ {j} /\ pc' = "reap"
    <3>1. Working \subseteq running \ {j}
      BY <2>2, <2>5 DEF Working
    <3> QED BY <2>2, <2>5, <3>1 DEF OwnWorkers
  <2> QED BY <1>5, <2>3, <2>4, <2>5 DEF Cancel
<1>6. CASE Kill
  <2>1. /\ pc = "kill" /\ pc' = "reap" /\ running' = running
        /\ worker' = [worker EXCEPT ![job] = "gone"]
    BY <1>6 DEF Kill
  <2>2. Working \subseteq running \cup {job}
    BY <2>1 DEF OwnWorkers
  <2>3. Working' \subseteq Working \ {job}
    BY <1>0, <2>1 DEF Working, Alive
  <2> QED BY <2>1, <2>2, <2>3 DEF OwnWorkers
<1>7. CASE KillPid
  <2>1. pc = "killpid" /\ pc' = "idle" /\ UNCHANGED <<running, job, launched>>
    BY <1>7 DEF KillPid
  <2>2. worker' = worker \/ worker' = [worker EXCEPT ![job] = "gone"]
    BY <1>7 DEF KillPid
  <2>3. Working' \subseteq Working
    BY <1>0, <2>2 DEF Working, Alive
  <2> QED BY <1>2, <2>1, <2>3
<1>8. CASE Reap
  <2>1. pc = "reap" /\ pc' = "pump" /\ running' = running \ Exited /\ worker' = worker
    BY <1>8 DEF Reap, workerVars
  <2>2. Working \subseteq running
    BY <2>1 DEF OwnWorkers
  <2>3. Working \subseteq running \ Exited
    BY <2>2 DEF Working, Exited
  <2> QED BY <1>3, <2>1, <2>3 DEF OwnWorkers
<1>9. CASE Launch
  <2>1. pc = "pump" /\ UNCHANGED <<running, job>>
    BY <1>9 DEF Launch
  <2>2. Working \subseteq running
    BY <2>1 DEF OwnWorkers
  <2>3. CASE UNCHANGED <<worker, launched, pc>>
    BY <1>1, <1>3, <2>1, <2>3
  <2>4. CASE /\ worker' = [worker EXCEPT ![Head(pending)] = "working"]
             /\ launched' = [NoLaunch EXCEPT !.job = Head(pending)] /\ pc' = "launch"
    <3>1. launched'.job = Head(pending)
      BY <2>4 DEF NoLaunch
    <3>2. Working' \subseteq Working \cup {Head(pending)}
      BY <1>0, <2>4 DEF Working, Alive
    <3> QED BY <2>1, <2>2, <2>4, <3>1, <3>2 DEF OwnWorkers
  <2> QED BY <1>9, <2>3, <2>4 DEF Launch
<1>10. CASE ReadLaunched
  <2>1. /\ pc = "launch" /\ pc' = "record" /\ worker' = worker /\ UNCHANGED <<running, job>>
        /\ launched' = [launched EXCEPT !.seen = rec[launched.job]]
    BY <1>10 DEF ReadLaunched, workerVars
  <2>2. launched'.job = launched.job
    BY <2>1 DEF CallType
  <2> QED BY <1>3, <2>1, <2>2 DEF OwnWorkers
<1>11. CASE RecordLaunched
  <2>1. pc = "record" /\ pc' = "pump" /\ worker' = worker /\ running' = running \cup {launched.job}
    BY <1>11 DEF RecordLaunched, workerVars
  <2> QED BY <1>3, <2>1 DEF OwnWorkers
<1>12. CASE PumpEnds \/ Check \/ LookForWorker
  <2>1. /\ worker' = worker /\ UNCHANGED <<running, job, launched>>
        /\ pc \in {"pump", "check", "look"} /\ pc' \in {"idle", "reap", "check", "look", "killpid"}
    BY <1>12 DEF PumpEnds, Check, LookForWorker, workerVars
  <2> QED BY <1>2, <1>3, <2>1
<1>13. ASSUME NEW j \in Jobs, Worker(j) \/ Die(j) PROVE OwnWorkers'
  <2>1. UNCHANGED <<running, pc, job, launched>>
    BY <1>13 DEF Worker, Finish, Raise, ReadOwn, WriteOwn, Die, serverVars
  <2>2. Working' \subseteq Working
    BY <1>0, <1>13 DEF Worker, Finish, Raise, ReadOwn, WriteOwn, Die, Working, Alive
  <2> QED BY <1>1, <2>1, <2>2
<1>14. CASE Restart
  BY <1>14 DEF Restart, CountType
<1>15. CASE UNCHANGED vars
  BY <1>1, <1>3, <1>15 DEF vars, serverVars, workerVars
<1> QED BY <1>4, <1>5, <1>6, <1>7, <1>8, <1>9, <1>10, <1>11, <1>12, <1>13, <1>14, <1>15 DEF Next, Server

(* LAB_MCP_MAX_JOBS bounds the workers of a server that is not restarted,     *)
(* whatever is cancelled and however workers end: what _running does not hold *)
(* is the one worker being launched, for which there was room, or the one     *)
(* being killed, which just left it. A restart forgets the workers it left.   *)
THEOREM CapBoundsWorkers ==
    ASSUME MaxRestarts = 0
    PROVE  Spec => []CapHolds
<1>1. Init => OwnWorkers
  BY DEF Init, OwnWorkers, Working, Alive
<1>2. QueueInv /\ OwnWorkers /\ [Next]_vars => OwnWorkers'
  BY OwnStep
<1>3. QueueInv /\ OwnWorkers => CapHolds
  <2> SUFFICES ASSUME QueueInv, OwnWorkers PROVE Cardinality(Working) <= Cap
    BY DEF CapHolds
  <2>1. running \subseteq Jobs /\ IsFiniteSet(running) /\ Cardinality(running) \in Nat /\ Cap \in Nat
    <3>1. running \subseteq Jobs
      BY DEF QueueInv, TypeOK, QueueType
    <3>2. IsFiniteSet(running)
      BY <3>1, FS_Subset, QueueAssumption
    <3> QED BY <3>1, <3>2, FS_CardinalityType, QueueAssumption
  <2>2. ASSUME NEW S, IsFiniteSet(S), Working \subseteq S, Cardinality(S) <= Cap
        PROVE  Cardinality(Working) <= Cap
    <3>1. Cardinality(Working) <= Cardinality(S) /\ IsFiniteSet(Working)
      BY <2>2, FS_Subset
    <3>2. Cardinality(Working) \in Nat /\ Cardinality(S) \in Nat
      BY <2>2, <3>1, FS_CardinalityType
    <3> QED BY <2>1, <2>2, <3>1, <3>2
  <2>3. ASSUME NEW x PROVE IsFiniteSet(running \cup {x}) /\ Cardinality(running \cup {x}) <= Cardinality(running) + 1
    <3>1. IsFiniteSet(running \cup {x})
      BY <2>1, FS_AddElement
    <3>2. Cardinality(running \cup {x}) = IF x \in running THEN Cardinality(running) ELSE Cardinality(running) + 1
      BY <2>1, FS_AddElement
    <3>3. Cardinality(running \cup {x}) <= Cardinality(running) + 1
      BY <2>1, <3>2
    <3> QED BY <3>1, <3>3
  <2>4. CASE pc \in {"launch", "record"}
    <3>1. Cardinality(running) < Cap
      BY <2>4 DEF QueueInv, RoomKept
    <3>2. /\ IsFiniteSet(running \cup {launched.job})
          /\ Cardinality(running \cup {launched.job}) <= Cardinality(running) + 1
      BY <2>3
    <3>3. Cardinality(running \cup {launched.job}) \in Nat
      BY <3>2, FS_CardinalityType
    <3>4. Cardinality(running \cup {launched.job}) <= Cap
      BY <2>1, <3>1, <3>2, <3>3
    <3> QED BY <2>2, <2>4, <3>2, <3>4 DEF OwnWorkers
  <2>5. CASE pc = "kill"
    BY <2>2, <2>3, <2>5 DEF OwnWorkers
  <2>6. CASE pc \notin {"launch", "record", "kill"}
    BY <2>1, <2>2, <2>6 DEF OwnWorkers, QueueInv, TypeOK, CountType
  <2> QED BY <2>4, <2>5, <2>6
<1> QED BY <1>1, <1>2, <1>3, QueueInvariant, PTL DEF Spec

-----------------------------------------------------------------------------
(* One server and nobody who cancels *)

\* The job being launched has a record nobody has written since it was queued;
\* a record that says a job runs has its process in _running, so that no worker
\* is looked for; and a record that says a job is over has no worker left.
LaunchIsQueued ==
    pc \in {"launch", "record"} =>
        rec[launched.job].st = "queued" /\ worker[launched.job] \in {"working", "gone"}
RunningIsOwned == \A j \in Jobs : rec[j].st = "running" => j \in running
OverIsLeft == \A j \in Jobs : rec[j].st \in TERMINAL => ~Alive(j)
Steady == pc \notin {"kill", "killpid", "look"} /\ LaunchIsQueued /\ RunningIsOwned /\ OverIsLeft

LEMMA SteadyStep ==
    ASSUME MaxRestarts = 0, SlowStart = TRUE, CanCancel = FALSE, QueueInv, Steady, [Next]_vars
    PROVE  Steady' /\ \A j \in Jobs : rec[j].st \in TERMINAL => rec'[j].st = rec[j].st
<1> USE DEF QueueInv, TypeOK
<1>0. /\ rec \in [Jobs -> Records] /\ running \subseteq Jobs /\ pending \in Seq(Jobs)
      /\ worker \in [Jobs -> {"none", "working", "done", "failed", "patchdone", "patchfailed", "gone"}]
      /\ \A j \in Jobs : rec[j].st \in {"none", "queued", "running"} \cup TERMINAL
  BY DEF DiskType, QueueType, WorkerType, Records
<1>1. ASSUME UNCHANGED <<rec, running, worker>>, pc' \notin {"kill", "killpid", "look"},
             pc' \in {"launch", "record"} => pc \in {"launch", "record"} /\ launched'.job = launched.job
      PROVE  Steady' /\ \A j \in Jobs : rec[j].st \in TERMINAL => rec'[j].st = rec[j].st
  <2>1. LaunchIsQueued'
    BY <1>1 DEF Steady, LaunchIsQueued
  <2>2. RunningIsOwned' /\ OverIsLeft'
    BY <1>1 DEF Steady, RunningIsOwned, OverIsLeft, Alive
  <2> QED BY <1>1, <2>1, <2>2 DEF Steady
<1>2. ASSUME NEW j \in Jobs, Submit(j)
      PROVE  Steady' /\ \A i \in Jobs : rec[i].st \in TERMINAL => rec'[i].st = rec[i].st
  <2>1. /\ pc' = "reap" /\ rec[j].st = "none" /\ worker' = worker /\ running' = running
        /\ rec' = [rec EXCEPT ![j].st = "queued"]
    BY <1>2 DEF Submit, workerVars
  <2>2. rec'[j].st = "queued" /\ \A i \in Jobs \ {j} : rec'[i] = rec[i]
    BY <1>0, <2>1 DEF Records
  <2>3. LaunchIsQueued' /\ RunningIsOwned' /\ OverIsLeft'
    BY <2>1, <2>2 DEF Steady, LaunchIsQueued, RunningIsOwned, OverIsLeft, Alive, TERMINAL
  <2> QED BY <2>1, <2>2, <2>3 DEF Steady, TERMINAL
<1>3. ASSUME NEW j \in Jobs, Status(j)
      PROVE  Steady' /\ \A i \in Jobs : rec[i].st \in TERMINAL => rec'[i].st = rec[i].st
  BY <1>1, <1>3 DEF Status, diskVars, workerVars
<1>4. CASE Reap
  <2>1. pc' = "pump" /\ worker' = worker /\ running' = running \ Exited /\ rec' = Reaped
    BY <1>4 DEF Reap, workerVars
  <2>2. \A j \in Jobs : rec'[j].st = IF j \in Exited /\ rec[j].st = "running" THEN "failed" ELSE rec[j].st
    BY <1>0, <2>1 DEF Reaped, Records
  <2>3. LaunchIsQueued'
    BY <2>1 DEF LaunchIsQueued
  <2>4. RunningIsOwned'
    BY <2>1, <2>2 DEF Steady, RunningIsOwned
  <2>5. OverIsLeft'
    BY <2>1, <2>2 DEF Steady, OverIsLeft, Exited, Alive
  <2> QED BY <2>1, <2>2, <2>3, <2>4, <2>5 DEF Steady, TERMINAL
<1>5. CASE Launch
  <2>1. CASE UNCHANGED <<worker, launched, pc>>
    BY <1>1, <1>5, <2>1 DEF Launch, diskVars, Steady
  <2>2. CASE /\ rec[Head(pending)].st = "queued"
             /\ worker' = [worker EXCEPT ![Head(pending)] = "working"]
             /\ launched' = [NoLaunch EXCEPT !.job = Head(pending)] /\ pc' = "launch"
    <3>1. launched'.job = Head(pending) /\ rec' = rec /\ running' = running /\ Head(pending) \in Jobs
      BY <1>5, <2>2, HeadTailProperties, <1>0 DEF Launch, diskVars, NoLaunch
    <3>2. LaunchIsQueued'
      BY <1>0, <2>2, <3>1 DEF LaunchIsQueued
    <3>3. RunningIsOwned'
      BY <3>1 DEF Steady, RunningIsOwned
    <3>4. OverIsLeft'
      BY <1>0, <2>2, <3>1 DEF Steady, OverIsLeft, Alive, TERMINAL
    <3> QED BY <2>2, <3>1, <3>2, <3>3, <3>4 DEF Steady
  <2> QED BY <1>5, <2>1, <2>2 DEF Launch
<1>6. CASE ReadLaunched
  <2>1. pc = "launch" /\ pc' = "record" /\ UNCHANGED <<rec, running, worker>>
    BY <1>6 DEF ReadLaunched, diskVars, workerVars
  <2>2. launched'.job = launched.job
    BY <1>6 DEF ReadLaunched, CallType
  <2> QED BY <1>1, <2>1, <2>2
<1>7. CASE RecordLaunched
  <2> DEFINE l == launched.job
  <2>1. /\ pc = "record" /\ pc' = "pump" /\ worker' = worker /\ running' = running \cup {l} /\ l \in Jobs
        /\ rec' = [rec EXCEPT ![l] = [launched.seen EXCEPT !.st = "running"]]
    BY <1>7 DEF RecordLaunched, workerVars, Busy
  <2>2. rec'[l].st = "running" /\ \A i \in Jobs \ {l} : rec'[i] = rec[i]
    BY <1>0, <2>1 DEF CallType, Records
  <2>3. rec[l].st = "queued"
    BY <2>1 DEF Steady, LaunchIsQueued
  <2> HIDE DEF l
  <2>4. LaunchIsQueued' /\ RunningIsOwned' /\ OverIsLeft'
    BY <2>1, <2>2 DEF Steady, LaunchIsQueued, RunningIsOwned, OverIsLeft, Alive, TERMINAL
  <2> QED BY <2>1, <2>2, <2>3, <2>4 DEF Steady, TERMINAL
<1>8. CASE PumpEnds
  BY <1>1, <1>8 DEF PumpEnds, diskVars, workerVars
<1>9. CASE Check
  <2>1. pc = "check" /\ job \in Jobs
    BY <1>9 DEF Check, Busy
  <2>2. ~(rec[job].st = "running" /\ ~Owned)
    BY <2>1 DEF Steady, RunningIsOwned, Owned
  <2> QED BY <1>1, <1>9, <2>2 DEF Check, diskVars, workerVars
<1>10. CASE Kill \/ KillPid \/ LookForWorker
  BY <1>10 DEF Kill, KillPid, LookForWorker, Steady
<1>11. ASSUME NEW j \in Jobs, Finish(j) \/ Raise(j) \/ ReadOwn(j) \/ Die(j)
       PROVE  Steady' /\ \A i \in Jobs : rec[i].st \in TERMINAL => rec'[i].st = rec[i].st
  <2>1. UNCHANGED <<rec, running, pc, launched>>
    BY <1>11 DEF Finish, Raise, ReadOwn, Die, serverVars, diskVars
  <2>2. \A i \in Jobs : Alive(i)' => Alive(i)
    BY <1>0, <1>11 DEF Finish, Raise, ReadOwn, Die, Alive
  <2>3. pc \in {"launch", "record"} => worker'[launched.job] \in {"working", "gone"}
    <3> SUFFICES ASSUME pc \in {"launch", "record"} PROVE worker'[launched.job] \in {"working", "gone"}
      OBVIOUS
    <3>1. worker[launched.job] \in {"working", "gone"}
      BY DEF Steady, LaunchIsQueued
    <3>2. CASE Finish(j) \/ Raise(j)
      <4>1. launched.job # j
        BY <3>2, Zenon DEF Finish, Raise, MayFinish
      <4>2. worker' = [worker EXCEPT ![j] = "done"] \/ worker' = [worker EXCEPT ![j] = "failed"]
        BY <3>2, Zenon DEF Finish, Raise
      <4>3. launched.job \in Jobs
        BY DEF Busy
      <4>4. worker'[launched.job] = worker[launched.job]
        BY <1>0, <4>1, <4>2, <4>3
      <4> QED BY <3>1, <4>4, Zenon
    <3>3. CASE ReadOwn(j)
      BY <1>0, <3>1, <3>3 DEF ReadOwn
    <3>4. CASE Die(j)
      BY <1>0, <3>1, <3>4 DEF Die
    <3> QED BY <1>11, <3>2, <3>3, <3>4
  <2>4. LaunchIsQueued' /\ RunningIsOwned' /\ OverIsLeft'
    BY <2>1, <2>2, <2>3 DEF Steady, LaunchIsQueued, RunningIsOwned, OverIsLeft
  <2> QED BY <2>1, <2>4 DEF Steady
<1>12. ASSUME NEW j \in Jobs, WriteOwn(j)
       PROVE  Steady' /\ \A i \in Jobs : rec[i].st \in TERMINAL => rec'[i].st = rec[i].st
  <2>1. /\ UNCHANGED <<running, pc, launched>> /\ worker[j] \in {"patchdone", "patchfailed"}
        /\ worker' = [worker EXCEPT ![j] = "gone"]
    BY <1>12 DEF WriteOwn, serverVars
  <2>2. rec'[j].st \in {"done", "failed"} /\ \A i \in Jobs \ {j} : rec'[i] = rec[i]
    BY <1>0, <1>12 DEF WriteOwn, WorkerType, Records
  <2>3. Alive(j) /\ rec[j].st \notin TERMINAL /\ (pc \in {"launch", "record"} => launched.job # j)
    BY <2>1 DEF Alive, Steady, OverIsLeft, LaunchIsQueued
  <2>4. LaunchIsQueued'
    BY <1>0, <2>1, <2>2, <2>3 DEF Steady, LaunchIsQueued, Busy
  <2>5. RunningIsOwned' /\ OverIsLeft'
    BY <1>0, <2>1, <2>2 DEF Steady, RunningIsOwned, OverIsLeft, Alive
  <2> QED BY <2>1, <2>2, <2>3, <2>4, <2>5 DEF Steady
<1>13. CASE Restart
  BY <1>13 DEF Restart, CountType
<1>14. ASSUME NEW j \in Jobs, Cancel(j) PROVE FALSE
  BY <1>14 DEF Cancel
<1>15. CASE UNCHANGED vars
  BY <1>1, <1>15 DEF vars, serverVars, diskVars, workerVars, Steady
<1> QED BY <1>2, <1>3, <1>4, <1>5, <1>6, <1>7, <1>8, <1>9, <1>10, <1>11, <1>12, <1>13, <1>14, <1>15
        DEF Next, Server, Worker

(* A job that is over stays what it was, with one server, clients that only   *)
(* ask, and workers that are not done before their launch is recorded. Each   *)
(* of the three is needed: a restart calls a finished job lost, cancel writes *)
(* over what a worker just wrote, and so does the record of a launch.         *)
THEOREM OverForGood ==
    ASSUME MaxRestarts = 0, SlowStart = TRUE, CanCancel = FALSE
    PROVE  Spec => OverStays
<1>1. Init => Steady
  BY DEF Init, Steady, LaunchIsQueued, RunningIsOwned, OverIsLeft, NoRecord, TERMINAL
<1>2. QueueInv /\ Steady /\ [Next]_vars => Steady'
  BY SteadyStep
<1>3. QueueInv /\ Steady /\ [Next]_vars => [\A j \in Jobs : rec[j].st \in TERMINAL => rec'[j].st = rec[j].st]_vars
  BY SteadyStep
<1> QED BY <1>1, <1>2, <1>3, QueueInvariant, PTL DEF Spec, OverStays
=============================================================================
