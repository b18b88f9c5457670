--------------------------- MODULE RegistryProofs ---------------------------
(* Theorems about MCStores: what the registry keeps - its runs with their     *)
(* code and their count, the reruns of a sweep, the findings - for any number *)
(* of processes, runs, versions, deletions, edits, clients and claims; and    *)
(* when decisions are made: the calendar of any year, the wall clock and the  *)
(* daily task.                                                                *)
EXTENDS MCStores, FiniteSetTheorems, SequenceTheorems, WellFoundedInduction, TLAPS

all == <<half, feed, registry, journals, again, cache, trials, daily, wall>>

-----------------------------------------------------------------------------
(* The run registry and its archives                                          *)

LEMMA RegistrySteps == [Next]_all => [R!Next]_R!vars
<1>1. Stores => [R!Next]_R!vars
  BY DEF Stores, registry, R!vars, R!table, R!library
<1>2. UNCHANGED registry => UNCHANGED R!vars
  BY DEF registry, R!vars, R!table, R!library
<1> QED BY <1>1, <1>2 DEF Next, all, registry, R!vars

LEMMA CardinalityR == \A V : R!Cardinality(V) = Cardinality(V)
BY DEF R!Cardinality, Cardinality

Steps == {"idle", "imported", "loaded", "running", "archiving", "archived"}
Doing == [at : Steps, path : R!Paths, ran : Nat, source : Nat, run : Nat]
Rows == [run : R!RunIds, path : R!Paths, attempt : Nat, status : {"running", "ok", "error"}]

FileType == file \in [R!Paths -> Nat] /\ newest \in Nat
WorkType == w \in [Processes -> Doing]
RowType ==
    /\ runs \subseteq Rows /\ IsFiniteSet(runs)
    /\ ran \in [R!RunIds -> Nat]
    /\ archive \in [R!RunIds -> [hash : Nat, source : Nat]]
    /\ {raced, edited, deleted} \subseteq SUBSET R!RunIds
LibraryType == header \in 0..MaxRuns /\ hand \in BOOLEAN
RegistryType == FileType /\ WorkType /\ RowType /\ LibraryType

Started == {r \in R!RunIds : ran[r] # 0}

(* Ids are given out in order, and what has no run has left no trace.         *)
IdsInOrder == \E k \in 0..MaxRuns : Started = 1..k
TracesAreOfRuns ==
    /\ \A x \in runs : x.run \in Started
    /\ deleted \subseteq Started /\ raced \subseteq Started
    /\ header # 0 => header \in Started
    /\ \A r \in R!RunIds \ Started : archive[r] = R!NoArchive

(* A process holds a version that exists; once registered it is the run's,    *)
(* and what was read back is what was executed unless the two raced.          *)
Loads(p) == w[p].at # "idle" => w[p].ran # 0
Reads(p) == w[p].at \in {"loaded", "running", "archiving", "archived"} => w[p].source # 0
Holds(p) == w[p].at \in {"running", "archiving", "archived"} =>
    /\ w[p].run \in Started /\ ran[w[p].run] = w[p].ran
    /\ w[p].run \notin raced => w[p].source = w[p].ran
Archives(p) ==
    /\ w[p].at \in {"archiving", "archived"} => archive[w[p].run].hash # 0
    /\ w[p].at = "archived" => archive[w[p].run].source # 0
WorkInv == \A p \in Processes : Loads(p) /\ Reads(p) /\ Holds(p) /\ Archives(p)

(* What an archive says of a run that did not race is what the run executed;  *)
(* an edit reaches the source and not the hash.                               *)
HashIsTrue == \A r \in R!RunIds \ raced : archive[r].hash \in {0, ran[r]}
SourceIsTrue == \A r \in R!RunIds \ (raced \cup edited) : archive[r].source \in {0, ran[r]}
OkIsArchived == \A x \in runs :
    x.status = "ok" => archive[x.run].hash # 0 /\ archive[x.run].source # 0

CodeInv ==
    /\ RegistryType /\ IdsInOrder /\ TracesAreOfRuns
    /\ WorkInv /\ HashIsTrue /\ SourceIsTrue /\ OkIsArchived /\ R!PromotedIsWhatRan

LEMMA CodeInit == R!RegistryAssumption /\ R!Init => CodeInv
<1> SUFFICES ASSUME R!RegistryAssumption, R!Init PROVE CodeInv
  OBVIOUS
<1>1. RegistryType
  <2>1. FileType
    BY DEF R!Init, FileType
  <2>5. LibraryType
    <3>1. 0 \in 0..MaxRuns
      BY DEF R!RegistryAssumption
    <3> QED BY <3>1, Zenon DEF R!Init, LibraryType
  <2>2. R!Idle \in Doing
    BY DEF R!Idle, Doing, Steps, R!Paths
  <2>3. WorkType
    BY <2>2 DEF R!Init, WorkType
  <2>4. RowType
    BY FS_EmptySet DEF R!Init, RowType, R!NoArchive
  <2> QED BY <2>1, <2>3, <2>4, <2>5 DEF RegistryType
<1>2. Started = {} /\ Started = 1..0 /\ 0 \in 0..MaxRuns
  BY DEF R!RegistryAssumption, R!Init, Started
<1>3. IdsInOrder
  BY <1>2 DEF IdsInOrder
<1>4. TracesAreOfRuns
  BY DEF R!Init, TracesAreOfRuns
<1>5. WorkInv
  BY DEF R!Init, WorkInv, Loads, Reads, Holds, Archives, R!Idle
<1>6. HashIsTrue /\ SourceIsTrue /\ OkIsArchived /\ R!PromotedIsWhatRan
  BY DEF R!Init, HashIsTrue, SourceIsTrue, OkIsArchived, R!PromotedIsWhatRan, R!NoArchive
<1> QED BY <1>1, <1>3, <1>4, <1>5, <1>6 DEF CodeInv

(* The id a new run gets is free, and has left no trace.                      *)
NewId == 1 + R!Cardinality({i \in R!RunIds : ran[i] # 0})
LEMMA NewIdIsFree ==
    ASSUME R!RegistryAssumption, CodeInv, NewId <= MaxRuns
    PROVE  /\ NewId \in R!RunIds \ Started /\ Started \cup {NewId} = 1..NewId
           /\ archive[NewId] = R!NoArchive
<1>1. PICK k \in 0..MaxRuns : Started = 1..k
  BY DEF CodeInv, IdsInOrder
<1>2. Cardinality(Started) = k
  BY <1>1, FS_Interval DEF R!RegistryAssumption
<1>3. NewId = k + 1
  BY <1>2, CardinalityR DEF NewId, Started
<1> QED BY <1>1, <1>3 DEF CodeInv, TracesAreOfRuns, R!RunIds, R!RegistryAssumption

(* A row that is closed is the row it was but for its status.                 *)
Ended(x, r, status) == IF x.run = r THEN [x EXCEPT !.status = status] ELSE x
LEMMA CloseRow ==
    ASSUME NEW x \in Rows, NEW r, NEW status \in {"ok", "error"}
    PROVE  LET y == Ended(x, r, status)
           IN  /\ y \in Rows /\ y.run = x.run /\ y.path = x.path /\ y.attempt = x.attempt
               /\ y.status = IF x.run = r THEN status ELSE x.status
BY DEF Ended, Rows

LEMMA FinishRows ==
    ASSUME RowType, NEW r \in R!RunIds, NEW status \in {"ok", "error"}, R!Finish(r, status)
    PROVE  /\ runs' \subseteq Rows /\ IsFiniteSet(runs')
           /\ runs' = {Ended(x, r, status) : x \in runs}
           /\ \A y \in runs' : \E x \in runs :
                  /\ y.run = x.run /\ y.path = x.path /\ y.attempt = x.attempt
                  /\ y.status = IF x.run = r THEN status ELSE x.status
<1> DEFINE f == [x \in runs |-> Ended(x, r, status)]
<1>1. runs' = {Ended(x, r, status) : x \in runs}
  BY DEF R!Finish, Ended
<1>2. f \in Surjection(runs, runs')
  BY <1>1 DEF Surjection
<1>3. IsFiniteSet(runs')
  BY <1>2, FS_Surjection DEF RowType
<1>4. \A x \in runs : x \in Rows
  BY DEF RowType
<1>5. ASSUME NEW y \in runs'
      PROVE  /\ y \in Rows
             /\ \E x \in runs : /\ y.run = x.run /\ y.path = x.path /\ y.attempt = x.attempt
                                /\ y.status = IF x.run = r THEN status ELSE x.status
  <2>1. PICK x \in runs : y = Ended(x, r, status)
    BY <1>1, <1>5
  <2> QED BY <1>4, <2>1, CloseRow
<1> QED BY <1>1, <1>3, <1>5

LEMMA CodeStep == R!RegistryAssumption /\ CodeInv /\ [R!Next]_R!vars => CodeInv'
<1> SUFFICES ASSUME R!RegistryAssumption, CodeInv, [R!Next]_R!vars PROVE CodeInv'
  OBVIOUS
<1> DEFINE Same == UNCHANGED <<runs, archive, ran, raced, deleted, edited>>
<1>0. /\ MaxRuns \in Nat /\ RegistryType /\ IdsInOrder /\ TracesAreOfRuns /\ WorkInv
      /\ HashIsTrue /\ SourceIsTrue /\ OkIsArchived /\ R!PromotedIsWhatRan
  BY DEF R!RegistryAssumption, CodeInv
<1>1. ASSUME Same PROVE /\ RowType' /\ IdsInOrder' /\ HashIsTrue' /\ SourceIsTrue' /\ OkIsArchived'
                        /\ Started' = Started
  BY <1>0, <1>1 DEF RegistryType, RowType, IdsInOrder, HashIsTrue, SourceIsTrue, OkIsArchived, Started
<1>2. ASSUME UNCHANGED <<file, header, hand>>, ran' = ran, raced' = raced
      PROVE R!PromotedIsWhatRan'
  BY <1>0, <1>2 DEF R!PromotedIsWhatRan
<1>3. ASSUME NEW p \in Processes, NEW d \in Doing, w' = [w EXCEPT ![p] = d], Same,
             UNCHANGED <<file, newest, header, hand>>,
             Loads(p)', Reads(p)', Holds(p)', Archives(p)'
      PROVE CodeInv'
  <2>1. /\ WorkType' /\ FileType' /\ LibraryType'
    BY <1>0, <1>3 DEF RegistryType, WorkType, FileType, LibraryType
  <2>2. WorkInv'
    <3> SUFFICES ASSUME NEW q \in Processes, q # p
                 PROVE  Loads(q)' /\ Reads(q)' /\ Holds(q)' /\ Archives(q)'
      BY <1>3 DEF WorkInv
    <3>1. w'[q] = w[q]
      BY <1>0, <1>3 DEF RegistryType, WorkType
    <3> QED BY <1>0, <1>1, <1>3, <3>1 DEF WorkInv, Loads, Reads, Holds, Archives
  <2>3. TracesAreOfRuns'
    BY <1>0, <1>1, <1>3 DEF TracesAreOfRuns
  <2> QED BY <1>1, <1>2, <1>3, <2>1, <2>2, <2>3 DEF CodeInv, RegistryType
<1>4. ASSUME NEW p \in Processes, NEW path \in R!Paths, R!Import(p, path) PROVE CodeInv'
  <2> DEFINE d == [R!Idle EXCEPT !.at = "imported", !.path = path, !.ran = file[path]]
  <2>1. /\ d \in Doing /\ d.at = "imported" /\ d.ran = file[path]
    BY <1>0, <1>4 DEF R!Idle, Doing, Steps, RegistryType, FileType, R!Paths
  <2>2. /\ w' = [w EXCEPT ![p] = d] /\ w'[p] = d /\ Same /\ UNCHANGED <<file, newest, header, hand>>
        /\ file[path] # 0
    BY <1>0, <1>4 DEF R!Import, R!table, R!library, RegistryType, WorkType
  <2> QED BY <1>3, <2>1, <2>2 DEF Loads, Reads, Holds, Archives
<1>5. ASSUME NEW p \in Processes, R!ReadSource(p) PROVE CodeInv'
  <2>1. CASE file[w[p].path] = 0
    <3>1. /\ R!Idle \in Doing /\ R!Idle.at = "idle"
      BY DEF R!Idle, Doing, Steps, R!Paths
    <3>2. /\ w' = [w EXCEPT ![p] = R!Idle] /\ w'[p] = R!Idle /\ Same /\ UNCHANGED <<file, newest, header, hand>>
      BY <1>0, <1>5, <2>1 DEF R!ReadSource, R!table, R!library, RegistryType, WorkType
    <3> QED BY <1>3, <3>1, <3>2 DEF Loads, Reads, Holds, Archives
  <2>2. CASE file[w[p].path] # 0
    <3> DEFINE d == [w[p] EXCEPT !.at = "loaded", !.source = file[w[p].path]]
    <3>1. w[p] \in Doing /\ w[p].at = "imported" /\ file[w[p].path] \in Nat
      BY <1>0, <1>5 DEF R!ReadSource, RegistryType, WorkType, FileType, Doing
    <3>2. d \in Doing /\ d.at = "loaded" /\ d.source = file[w[p].path] /\ d.ran = w[p].ran
      BY <3>1 DEF Doing, Steps
    <3>3. /\ w' = [w EXCEPT ![p] = d] /\ w'[p] = d /\ Same /\ UNCHANGED <<file, newest, header, hand>>
      BY <1>0, <1>5, <2>2 DEF R!ReadSource, R!table, R!library, RegistryType, WorkType
    <3>4. w[p].ran # 0
      BY <1>0, <3>1 DEF WorkInv, Loads
    <3> QED BY <1>3, <2>2, <3>1, <3>2, <3>3, <3>4 DEF Loads, Reads, Holds, Archives
  <2> QED BY <2>1, <2>2
<1>6. ASSUME NEW p \in Processes, R!Register(p) PROVE CodeInv'
  <2> DEFINE r == NewId
             x == [run |-> r, path |-> w[p].path, attempt |-> R!Prior(w[p].path) + 1, status |-> "running"]
             d == [w[p] EXCEPT !.at = "running", !.run = r]
  <2>1. /\ w[p].at = "loaded" /\ r <= MaxRuns /\ runs' = runs \cup {x}
        /\ ran' = [ran EXCEPT ![r] = w[p].ran]
        /\ raced' = IF w[p].ran # w[p].source THEN raced \cup {r} ELSE raced
        /\ w' = [w EXCEPT ![p] = d]
        /\ UNCHANGED <<file, newest, archive, deleted, header, hand, edited>>
    BY <1>6 DEF R!Register, NewId, R!library
  <2>2. /\ r \in R!RunIds \ Started /\ Started \cup {r} = 1..r /\ archive[r] = R!NoArchive
    BY <1>0, <2>1, NewIdIsFree
  <2>3. w[p] \in Doing /\ w[p].ran # 0 /\ w[p].source # 0
    BY <1>0, <2>1 DEF RegistryType, WorkType, WorkInv, Loads, Reads
  <2>4. /\ d \in Doing /\ d.at = "running" /\ d.run = r /\ d.ran = w[p].ran /\ d.source = w[p].source
    <3>1. r \in Nat
      BY <1>0, <2>2 DEF R!RunIds
    <3> HIDE DEF r
    <3> QED BY <2>3, <3>1 DEF Doing, Steps
  <2>5. ran \in [R!RunIds -> Nat] /\ ran' \in [R!RunIds -> Nat] /\ ran'[r] = w[p].ran
        /\ \A i \in R!RunIds : i # r => ran'[i] = ran[i]
    BY <1>0, <2>1, <2>2, <2>3 DEF RegistryType, RowType, Doing
  <2>6. Started' = Started \cup {r}
    BY <2>2, <2>3, <2>5 DEF Started
  <2>7. x \in Rows
    <3>1. IsFiniteSet({y \in runs : y.path = w[p].path})
      BY <1>0, FS_Subset DEF RegistryType, RowType
    <3>2. R!Prior(w[p].path) \in Nat
      BY <3>1, FS_CardinalityType, CardinalityR DEF R!Prior
    <3> QED BY <2>2, <2>3, <3>2 DEF Rows, Doing
  <2>8. RowType'
    <3>1. runs' \subseteq Rows /\ IsFiniteSet(runs')
      BY <1>0, <2>1, <2>7, FS_AddElement DEF RegistryType, RowType
    <3>2. {raced', edited', deleted'} \subseteq SUBSET R!RunIds
      BY <1>0, <2>1, <2>2 DEF RegistryType, RowType
    <3> QED BY <1>0, <2>1, <2>5, <3>1, <3>2 DEF RegistryType, RowType
  <2>9. FileType' /\ WorkType' /\ LibraryType'
    BY <1>0, <2>1, <2>4 DEF RegistryType, FileType, WorkType, LibraryType
  <2>10. IdsInOrder'
    <3>1. r \in 0..MaxRuns /\ Started' = 1..r
      BY <1>0, <2>1, <2>2, <2>6 DEF R!RunIds
    <3> QED BY <1>0, <2>1, <3>1 DEF IdsInOrder
  <2>11. TracesAreOfRuns'
    BY <1>0, <2>1, <2>2, <2>6 DEF TracesAreOfRuns
  <2>12. WorkInv'
    <3> SUFFICES ASSUME NEW q \in Processes PROVE Loads(q)' /\ Reads(q)' /\ Holds(q)' /\ Archives(q)'
      BY DEF WorkInv
    <3>1. CASE q = p
      <4>1. w'[q] = d
        BY <1>0, <2>1, <3>1 DEF RegistryType, WorkType
      <4>2. r \notin raced' => d.source = d.ran
        BY <2>1, <2>4
      <4> HIDE DEF d
      <4>3. Loads(q)' /\ Reads(q)' /\ Archives(q)'
        BY <2>3, <2>4, <4>1 DEF Loads, Reads, Archives
      <4>4. Holds(q)'
        BY <2>4, <2>5, <2>6, <4>1, <4>2 DEF Holds
      <4> QED BY <4>3, <4>4
    <3>2. CASE q # p
      <4>1. w'[q] = w[q] /\ Loads(q) /\ Reads(q) /\ Holds(q) /\ Archives(q)
        BY <1>0, <2>1, <3>2 DEF RegistryType, WorkType, WorkInv
      <4>2. Holds(q)'
        BY <2>1, <2>2, <2>5, <2>6, <4>1 DEF Holds, Started
      <4> QED BY <2>1, <4>1, <4>2 DEF Loads, Reads, Archives
    <3> QED BY <3>1, <3>2
  <2>13. HashIsTrue'
    BY <1>0, <2>1, <2>2, <2>5 DEF HashIsTrue, R!NoArchive
  <2>14. SourceIsTrue'
    BY <1>0, <2>1, <2>2, <2>5 DEF SourceIsTrue, R!NoArchive
  <2>15. OkIsArchived'
    BY <1>0, <2>1 DEF OkIsArchived
  <2>16. R!PromotedIsWhatRan'
    BY <1>0, <2>1, <2>2, <2>5 DEF R!PromotedIsWhatRan, TracesAreOfRuns, Started
  <2> QED BY <2>8, <2>9, <2>10, <2>11, <2>12, <2>13, <2>14, <2>15, <2>16 DEF CodeInv, RegistryType
<1>7. ASSUME NEW p \in Processes, R!LoopRaises(p) \/ R!FinishOk(p) PROVE CodeInv'
  <2> DEFINE r == w[p].run
  <2>1. PICK status \in {"ok", "error"} :
          /\ R!Finish(r, status) /\ w' = [w EXCEPT ![p] = R!Idle]
          /\ w[p].at \in {"running", "archived"} /\ (status = "ok" => w[p].at = "archived")
          /\ UNCHANGED <<file, newest, archive, ran, raced, deleted, header, hand, edited>>
    BY <1>7 DEF R!LoopRaises, R!FinishOk, R!library
  <2>2. /\ r \in R!RunIds /\ r \in Started
        /\ status = "ok" => archive[r].hash # 0 /\ archive[r].source # 0
    BY <1>0, <2>1 DEF WorkInv, Holds, Archives, Started
  <2>3. /\ runs' \subseteq Rows /\ IsFiniteSet(runs')
        /\ \A y \in runs' : \E x \in runs :
               y.run = x.run /\ y.status = IF x.run = r THEN status ELSE x.status
    BY <1>0, <2>1, <2>2, FinishRows DEF RegistryType
  <2>4. Started' = Started
    BY <2>1 DEF Started
  <2>5. /\ R!Idle \in Doing /\ R!Idle.at = "idle"
    BY DEF R!Idle, Doing, Steps, R!Paths
  <2>6. RegistryType'
    BY <1>0, <2>1, <2>3, <2>5 DEF RegistryType, FileType, WorkType, RowType, LibraryType
  <2>7. IdsInOrder' /\ HashIsTrue' /\ SourceIsTrue' /\ R!PromotedIsWhatRan'
    BY <1>0, <2>1, <2>4 DEF IdsInOrder, HashIsTrue, SourceIsTrue, R!PromotedIsWhatRan
  <2>8. TracesAreOfRuns'
    BY <1>0, <2>1, <2>3, <2>4 DEF TracesAreOfRuns
  <2>9. WorkInv'
    <3> SUFFICES ASSUME NEW q \in Processes PROVE Loads(q)' /\ Reads(q)' /\ Holds(q)' /\ Archives(q)'
      BY DEF WorkInv
    <3>1. w'[q] = IF q = p THEN R!Idle ELSE w[q]
      BY <1>0, <2>1 DEF RegistryType, WorkType
    <3> QED BY <1>0, <2>1, <2>4, <2>5, <3>1 DEF WorkInv, Loads, Reads, Holds, Archives
  <2>10. OkIsArchived'
    BY <1>0, <2>1, <2>2, <2>3 DEF OkIsArchived
  <2> QED BY <2>6, <2>7, <2>8, <2>9, <2>10 DEF CodeInv
<1>8. ASSUME NEW p \in Processes, R!ArchiveConfig(p) \/ R!ArchiveSource(p) PROVE CodeInv'
  <2> DEFINE r == w[p].run
  <2>1. /\ w[p] \in Doing /\ w[p].at \in {"running", "archiving"}
        /\ UNCHANGED <<file, newest, runs, ran, raced, deleted, header, hand, edited>>
    BY <1>0, <1>8 DEF R!ArchiveConfig, R!ArchiveSource, R!library, RegistryType, WorkType
  <2>2. /\ r \in Started /\ r \in R!RunIds /\ ran[r] = w[p].ran /\ w[p].source # 0
        /\ r \notin raced => w[p].source = ran[r]
    BY <1>0, <2>1 DEF WorkInv, Holds, Reads, Started
  <2>3. archive \in [R!RunIds -> [hash : Nat, source : Nat]] /\ w[p].source \in Nat
    BY <1>0, <2>1 DEF RegistryType, RowType, Doing
  <2>4. PICK d \in Doing :
          /\ w' = [w EXCEPT ![p] = d]
          /\ d.run = r /\ d.ran = w[p].ran /\ d.source = w[p].source
          /\ d.at = IF w[p].at = "running" THEN "archiving" ELSE "archived"
    <3>1. [w[p] EXCEPT !.at = "archiving"] \in Doing /\ [w[p] EXCEPT !.at = "archived"] \in Doing
      BY <2>1 DEF Doing, Steps
    <3> QED BY <1>8, <2>1, <3>1 DEF R!ArchiveConfig, R!ArchiveSource, Doing
  <2>5. /\ archive' \in [R!RunIds -> [hash : Nat, source : Nat]]
        /\ \A i \in R!RunIds : i # r => archive'[i] = archive[i]
        /\ w[p].at = "running" =>
               archive'[r].hash = w[p].source /\ archive'[r].source = archive[r].source
        /\ w[p].at = "archiving" =>
               archive'[r].hash = archive[r].hash /\ archive'[r].source = w[p].source
    BY <1>8, <2>2, <2>3 DEF R!ArchiveConfig, R!ArchiveSource
  <2>6. Started' = Started
    BY <2>1 DEF Started
  <2>7. RegistryType'
    BY <1>0, <2>1, <2>4, <2>5 DEF RegistryType, FileType, WorkType, RowType, LibraryType
  <2>8. IdsInOrder' /\ R!PromotedIsWhatRan'
    BY <1>0, <2>1, <2>6 DEF IdsInOrder, R!PromotedIsWhatRan
  <2>9. TracesAreOfRuns'
    BY <1>0, <2>1, <2>2, <2>5, <2>6 DEF TracesAreOfRuns
  <2>10. HashIsTrue' /\ SourceIsTrue'
    BY <1>0, <2>1, <2>2, <2>5 DEF HashIsTrue, SourceIsTrue
  <2>11. \A i \in R!RunIds : /\ archive[i].hash # 0 => archive'[i].hash # 0
                             /\ archive[i].source # 0 => archive'[i].source # 0
    BY <2>1, <2>2, <2>5
  <2>12. OkIsArchived'
    BY <1>0, <2>1, <2>11 DEF OkIsArchived, TracesAreOfRuns, Started
  <2>13. WorkInv'
    <3> SUFFICES ASSUME NEW q \in Processes PROVE Loads(q)' /\ Reads(q)' /\ Holds(q)' /\ Archives(q)'
      BY DEF WorkInv
    <3>1. CASE q = p
      <4>1. w'[q] = d
        BY <1>0, <2>4, <3>1 DEF RegistryType, WorkType
      <4>2. Loads(p) /\ Reads(p) /\ Holds(p) /\ Archives(p)
        BY <1>0 DEF WorkInv
      <4> QED BY <2>1, <2>2, <2>4, <2>5, <2>6, <4>1, <4>2 DEF Loads, Reads, Holds, Archives
    <3>2. CASE q # p
      <4>1. w'[q] = w[q] /\ Loads(q) /\ Reads(q) /\ Holds(q) /\ Archives(q)
        BY <1>0, <2>4, <3>2 DEF RegistryType, WorkType, WorkInv
      <4> QED BY <2>1, <2>6, <2>11, <4>1 DEF Loads, Reads, Holds, Archives, Started
    <3> QED BY <3>1, <3>2
  <2> QED BY <2>7, <2>8, <2>9, <2>10, <2>12, <2>13 DEF CodeInv
<1>9. ASSUME NEW p \in Processes, R!Lose(p) PROVE CodeInv'
  <2>1. /\ R!Idle \in Doing /\ R!Idle.at = "idle"
    BY DEF R!Idle, Doing, Steps, R!Paths
  <2>2. /\ w' = [w EXCEPT ![p] = R!Idle] /\ w'[p] = R!Idle /\ Same /\ UNCHANGED <<file, newest, header, hand>>
    BY <1>0, <1>9 DEF R!Lose, R!table, R!library, RegistryType, WorkType
  <2> QED BY <1>3, <2>1, <2>2 DEF Loads, Reads, Holds, Archives
<1>10. ASSUME R!Rewrite \/ R!Clean PROVE CodeInv'
  <2>1. /\ UNCHANGED <<w, header, hand>> /\ Same
        /\ file' \in [R!Paths -> Nat] /\ file'["lib"] = file["lib"] /\ newest' \in Nat
    BY <1>0, <1>10 DEF R!Rewrite, R!Clean, R!table, R!library, RegistryType, FileType, R!Paths
  <2>2. RegistryType' /\ WorkInv' /\ TracesAreOfRuns' /\ R!PromotedIsWhatRan'
    BY <1>0, <1>1, <2>1 DEF RegistryType, FileType, WorkType, LibraryType, WorkInv, Loads, Reads, Holds,
       Archives, TracesAreOfRuns, R!PromotedIsWhatRan
  <2> QED BY <1>1, <2>1, <2>2 DEF CodeInv
<1>11. ASSUME R!Delete PROVE CodeInv'
  <2>1. PICK x \in runs :
          /\ runs' = runs \ {x} /\ deleted' = deleted \cup {x.run}
          /\ UNCHANGED <<file, newest, w, archive, ran, raced, header, hand, edited>>
    BY <1>11 DEF R!Delete, R!library
  <2>2. Started' = Started /\ x.run \in Started
    BY <1>0, <2>1 DEF Started, TracesAreOfRuns
  <2>3. RowType'
    <3>1. IsFiniteSet(runs')
      BY <1>0, <2>1, FS_RemoveElement DEF RegistryType, RowType
    <3>2. deleted' \subseteq R!RunIds
      BY <1>0, <2>1, <2>2 DEF RegistryType, RowType, Started
    <3> QED BY <1>0, <2>1, <3>1, <3>2 DEF RegistryType, RowType
  <2>4. FileType' /\ WorkType' /\ LibraryType'
    BY <1>0, <2>1 DEF RegistryType, FileType, WorkType, LibraryType
  <2>5. IdsInOrder' /\ TracesAreOfRuns'
    BY <1>0, <2>1, <2>2 DEF IdsInOrder, TracesAreOfRuns
  <2>6. WorkInv' /\ HashIsTrue' /\ SourceIsTrue' /\ OkIsArchived' /\ R!PromotedIsWhatRan'
    BY <1>0, <2>1, <2>2 DEF WorkInv, Loads, Reads, Holds, Archives, HashIsTrue, SourceIsTrue,
       OkIsArchived, R!PromotedIsWhatRan
  <2> QED BY <2>3, <2>4, <2>5, <2>6 DEF CodeInv, RegistryType
<1>12. ASSUME R!EditArchive PROVE CodeInv'
  <2>1. PICK r \in R!RunIds :
          /\ archive[r].source # 0 /\ edited' = edited \cup {r} /\ newest' = newest + 1
          /\ archive' = [archive EXCEPT ![r].source = newest + 1]
          /\ UNCHANGED <<file, w, runs, ran, raced, deleted, header, hand>>
    BY <1>12 DEF R!EditArchive, R!library
  <2>2. archive \in [R!RunIds -> [hash : Nat, source : Nat]] /\ newest \in Nat
    BY <1>0 DEF RegistryType, RowType, FileType
  <2>3. /\ archive' \in [R!RunIds -> [hash : Nat, source : Nat]]
        /\ \A i \in R!RunIds : i # r => archive'[i] = archive[i]
        /\ archive'[r].hash = archive[r].hash /\ archive'[r].source # 0
    BY <2>1, <2>2
  <2>4. Started' = Started /\ r \in Started
    BY <1>0, <2>1 DEF Started, TracesAreOfRuns, R!NoArchive
  <2>5. RegistryType'
    BY <1>0, <2>1, <2>2, <2>3 DEF RegistryType, FileType, WorkType, RowType, LibraryType
  <2>6. IdsInOrder' /\ TracesAreOfRuns' /\ R!PromotedIsWhatRan'
    BY <1>0, <2>1, <2>3, <2>4 DEF IdsInOrder, TracesAreOfRuns, R!PromotedIsWhatRan
  <2>7. HashIsTrue' /\ SourceIsTrue'
    BY <1>0, <2>1, <2>3 DEF HashIsTrue, SourceIsTrue
  <2>8. \A i \in R!RunIds : /\ archive[i].hash # 0 => archive'[i].hash # 0
                            /\ archive[i].source # 0 => archive'[i].source # 0
    BY <2>1, <2>3
  <2>9. OkIsArchived'
    BY <1>0, <2>1, <2>8 DEF OkIsArchived, TracesAreOfRuns, Started
  <2>10. WorkInv'
    BY <1>0, <2>1, <2>4, <2>8 DEF WorkInv, Loads, Reads, Holds, Archives, Started
  <2> QED BY <2>5, <2>6, <2>7, <2>9, <2>10 DEF CodeInv
<1>13. ASSUME NEW r \in R!RunIds, NEW force \in BOOLEAN, NEW config \in BOOLEAN, R!Promote(r, force, config)
       PROVE CodeInv'
  <2>1. /\ archive[r].hash # 0 /\ archive[r].source = archive[r].hash
        /\ file' = [file EXCEPT !["lib"] = archive[r].source]
        /\ header' = IF config THEN r ELSE header
        /\ hand' = IF config THEN FALSE ELSE hand \/ file["lib"] # archive[r].source
        /\ UNCHANGED <<newest, w>> /\ Same
    BY <1>13 DEF R!Promote, R!RunSource, R!table
  <2>2. /\ r \in Started /\ r \in 0..MaxRuns /\ archive[r].source \in Nat
        /\ r \notin raced => archive[r].source = ran[r]
    BY <1>0, <2>1 DEF TracesAreOfRuns, R!NoArchive, HashIsTrue, RegistryType, RowType, R!RunIds
  <2>3. FileType' /\ WorkType' /\ LibraryType'
    <3>1. "lib" \in R!Paths /\ file \in [R!Paths -> Nat] /\ newest \in Nat
      BY <1>0 DEF R!Paths, RegistryType, FileType
    <3>2. FileType'
      BY <2>1, <2>2, <3>1 DEF FileType
    <3>3. LibraryType'
      BY <1>0, <2>1, <2>2 DEF RegistryType, LibraryType
    <3> QED BY <1>0, <2>1, <3>2, <3>3 DEF RegistryType, WorkType
  <2>4. WorkInv' /\ TracesAreOfRuns'
    BY <1>0, <1>1, <2>1, <2>2 DEF WorkInv, Loads, Reads, Holds, Archives, TracesAreOfRuns
  <2>5. R!PromotedIsWhatRan'
    <3>1. file'["lib"] = archive[r].source
      BY <1>0, <2>1 DEF RegistryType, FileType, R!Paths
    <3> QED BY <1>0, <2>1, <2>2, <3>1 DEF R!PromotedIsWhatRan
  <2> QED BY <1>1, <2>1, <2>3, <2>4, <2>5 DEF CodeInv, RegistryType
<1>14. ASSUME NEW overwrite \in BOOLEAN, R!StrategyWrite(overwrite) PROVE CodeInv'
  <2>1. /\ newest' = newest + 1 /\ file' = [file EXCEPT !["lib"] = newest + 1]
        /\ hand' = TRUE /\ UNCHANGED <<w, header>> /\ Same
    BY <1>14 DEF R!StrategyWrite, R!table
  <2>2. RegistryType' /\ R!PromotedIsWhatRan'
    <3>3. "lib" \in R!Paths /\ file \in [R!Paths -> Nat] /\ newest \in Nat
      BY <1>0 DEF R!Paths, RegistryType, FileType
    <3>4. FileType'
      BY <2>1, <3>3 DEF FileType
    <3>1. FileType' /\ WorkType'
      BY <1>0, <2>1, <3>4 DEF RegistryType, WorkType
    <3>2. LibraryType' /\ R!PromotedIsWhatRan'
      BY <1>0, <2>1, Zenon DEF RegistryType, LibraryType, R!PromotedIsWhatRan
    <3> QED BY <1>1, <2>1, <3>1, <3>2 DEF RegistryType
  <2>3. WorkInv' /\ TracesAreOfRuns'
    BY <1>0, <1>1, <2>1 DEF WorkInv, Loads, Reads, Holds, Archives, TracesAreOfRuns
  <2> QED BY <1>1, <2>1, <2>2, <2>3 DEF CodeInv
<1>15. ASSUME UNCHANGED R!vars PROVE CodeInv'
  <2>1. UNCHANGED <<file, newest, w, header, hand>> /\ Same
    BY <1>15 DEF R!vars, R!table, R!library
  <2>2. RegistryType' /\ WorkInv' /\ TracesAreOfRuns'
    BY <1>0, <1>1, <2>1 DEF RegistryType, FileType, WorkType, LibraryType, WorkInv, Loads, Reads, Holds,
       Archives, TracesAreOfRuns
  <2> QED BY <1>1, <1>2, <2>1, <2>2 DEF CodeInv
<1> QED BY <1>4, <1>5, <1>6, <1>7, <1>8, <1>9, <1>10, <1>11, <1>12, <1>13, <1>14, <1>15 DEF R!Next, R!Step

-----------------------------------------------------------------------------
(* Every run recorded as ok has an archive with the code it executed, hashed  *)
(* as that code, unless its file was rewritten in the moment between its      *)
(* execution and its reading back, or the archive was edited.                 *)
LEMMA OkRunsHaveTheirCode == CodeInv => R!OkHasItsCode
<1> SUFFICES ASSUME CodeInv, NEW x \in runs, x.status = "ok", x.run \notin raced \cup edited
             PROVE  archive[x.run] = [hash |-> ran[x.run], source |-> ran[x.run]]
  BY DEF R!OkHasItsCode
<1>1. x.run \in R!RunIds
  BY DEF CodeInv, TracesAreOfRuns, Started
<1>2. archive[x.run] \in [hash : Nat, source : Nat]
  BY <1>1 DEF CodeInv, RegistryType, RowType
<1>3. archive[x.run].hash = ran[x.run] /\ archive[x.run].source = ran[x.run]
  BY <1>1 DEF CodeInv, HashIsTrue, SourceIsTrue, OkIsArchived
<1> QED BY <1>2, <1>3

(* When the file of such a run is gone, what is audited, perturbed or tested  *)
(* in its name is the code it executed.                                       *)
LEMMA GoneCodeIsInTheArchive == CodeInv => R!GoneCodeIsFound
<1> SUFFICES ASSUME CodeInv, NEW x \in runs, x.status = "ok", file[x.path] = 0,
                    x.run \notin raced \cup edited
             PROVE  R!CodeOf(x) = ran[x.run]
  BY DEF R!GoneCodeIsFound
<1>1. x.run \in R!RunIds
  BY DEF CodeInv, TracesAreOfRuns, Started
<1>2. archive[x.run].source = ran[x.run] /\ archive[x.run].source # 0
  BY <1>1 DEF CodeInv, SourceIsTrue, OkIsArchived
<1> QED BY <1>2 DEF R!CodeOf

(* Library code under a config that names its run is what that run executed:  *)
(* neither an edited archive nor another file at the recorded path is         *)
(* promoted, unless the run raced its file, or somebody wrote over the file.  *)
LEMMA PromotedCodeIsWhatRan == CodeInv => R!PromotedIsWhatRan
BY DEF CodeInv

-----------------------------------------------------------------------------
(* The counts *)

RowsOf(path) == {y \in runs : y.path = path}
Attempts(Y) == {y.attempt : y \in Y}
RunsApart ==
    /\ \A x, y \in runs : x.run = y.run => x = y
    /\ \A x \in runs : x.run \notin deleted
Counted == Cardinality(runs) + Cardinality(deleted) = Cardinality(Started)
InTurn == deleted = {} => \A path \in R!Paths : Attempts(RowsOf(path)) = 1..Cardinality(RowsOf(path))
CountInv == RunsApart /\ Counted /\ InTurn

LEMMA RowsAreFinite ==
    ASSUME R!RegistryAssumption, CodeInv, NEW path
    PROVE  /\ IsFiniteSet(runs) /\ IsFiniteSet(RowsOf(path))
           /\ IsFiniteSet(deleted) /\ IsFiniteSet(Started)
           /\ {Cardinality(runs), Cardinality(RowsOf(path)), Cardinality(deleted),
               Cardinality(Started)} \subseteq Nat
<1>1. IsFiniteSet(R!RunIds)
  BY FS_Interval DEF R!RegistryAssumption, R!RunIds
<1>2. deleted \subseteq R!RunIds /\ Started \subseteq R!RunIds /\ RowsOf(path) \subseteq runs
  BY DEF CodeInv, TracesAreOfRuns, Started, RowsOf
<1>3. IsFiniteSet(runs)
  BY DEF CodeInv, RegistryType, RowType
<1>4. IsFiniteSet(deleted) /\ IsFiniteSet(Started) /\ IsFiniteSet(RowsOf(path))
  BY <1>1, <1>2, <1>3, FS_Subset
<1> QED BY <1>3, <1>4, FS_CardinalityType

(* V are the rows of Y, each closed if it is of run r; no two rows of Y are   *)
(* of one run.                                                                *)
Closed(Y, V, r, status) ==
    /\ \A x \in Y : Ended(x, r, status) \in V
    /\ \A y \in V : \E x \in Y : y = Ended(x, r, status)
Apart(Y) == \A x, y \in Y : x.run = y.run => x = y

(* Closing rows changes neither how many there are nor which attempts.        *)
LEMMA CloseCounts ==
    ASSUME NEW Y, Y \subseteq Rows, IsFiniteSet(Y), Apart(Y),
           NEW r, NEW status \in {"ok", "error"}, NEW V, Closed(Y, V, r, status)
    PROVE  Cardinality(V) = Cardinality(Y) /\ Attempts(V) = Attempts(Y)
<1> USE DEF Apart, Closed
<1> DEFINE f == [x \in Y |-> Ended(x, r, status)]
<1>1. \A x \in Y : Ended(x, r, status).run = x.run /\ Ended(x, r, status).attempt = x.attempt
  BY CloseRow
<1>2. f \in Surjection(Y, V)
  BY DEF Surjection
<1>3. f \in Injection(Y, V)
  <2>1. f \in [Y -> V]
    OBVIOUS
  <2>2. ASSUME NEW x \in Y, NEW y \in Y, f[x] = f[y] PROVE x = y
    <3>1. f[x].run = x.run /\ f[y].run = y.run
      BY <1>1
    <3> QED BY <2>2, <3>1
  <2>3. IsInjective(f)
    BY <2>2 DEF IsInjective
  <2> QED BY <2>1, <2>3 DEF Injection
<1>4. Cardinality(V) = Cardinality(Y)
  BY <1>2, <1>3, FS_Surjection
<1>5. Attempts(V) = Attempts(Y)
  BY <1>1 DEF Attempts
<1> QED BY <1>4, <1>5

LEMMA CountInit == R!RegistryAssumption /\ R!Init => CountInv
<1> SUFFICES ASSUME R!RegistryAssumption, R!Init PROVE CountInv
  OBVIOUS
<1>1. runs = {} /\ deleted = {} /\ Started = {}
  BY DEF R!Init, Started
<1>2. \A path : RowsOf(path) = {} /\ Attempts(RowsOf(path)) = {}
  BY <1>1 DEF RowsOf, Attempts
<1> QED BY <1>1, <1>2, FS_EmptySet DEF CountInv, RunsApart, Counted, InTurn

LEMMA CountStep == R!RegistryAssumption /\ CodeInv /\ CountInv /\ [R!Next]_R!vars => CountInv'
<1> SUFFICES ASSUME R!RegistryAssumption, CodeInv, CountInv, [R!Next]_R!vars PROVE CountInv'
  OBVIOUS
<1>0. RunsApart /\ Counted /\ InTurn /\ TracesAreOfRuns /\ runs \subseteq Rows
  BY DEF CountInv, CodeInv, RegistryType, RowType
<1>1. ASSUME UNCHANGED <<runs, deleted, ran>> PROVE CountInv'
  BY <1>0, <1>1 DEF CountInv, RunsApart, Counted, InTurn, Started, RowsOf, Attempts
<1>2. ASSUME NEW p \in Processes, R!Register(p) PROVE CountInv'
  <2> DEFINE r == NewId
             x == [run |-> r, path |-> w[p].path, attempt |-> R!Prior(w[p].path) + 1, status |-> "running"]
  <2>1. /\ r <= MaxRuns /\ runs' = runs \cup {x} /\ ran' = [ran EXCEPT ![r] = w[p].ran]
        /\ UNCHANGED deleted /\ w[p].at = "loaded"
    BY <1>2 DEF R!Register, NewId
  <2>2. r \in R!RunIds \ Started
    BY <2>1, NewIdIsFree
  <2>3. Started' = Started \cup {r}
    <3>1. w[p].ran # 0 /\ ran \in [R!RunIds -> Nat]
      BY <2>1 DEF CodeInv, WorkInv, Loads, RegistryType, RowType
    <3> QED BY <2>1, <2>2, <3>1 DEF Started
  <2>4. x.run = r /\ x \notin runs /\ r \notin deleted
    BY <1>0, <2>2 DEF TracesAreOfRuns
  <2>5. RunsApart'
    BY <1>0, <2>1, <2>2, <2>4 DEF RunsApart, TracesAreOfRuns
  <2>6. Counted'
    <3>1. /\ IsFiniteSet(runs) /\ IsFiniteSet(Started)
          /\ Cardinality(runs) \in Nat /\ Cardinality(deleted) \in Nat /\ Cardinality(Started) \in Nat
      BY RowsAreFinite
    <3>2. Cardinality(runs') = Cardinality(runs) + 1
      BY <2>1, <2>4, <3>1, FS_AddElement
    <3>3. Cardinality(Started') = Cardinality(Started) + 1
      BY <2>2, <2>3, <3>1, FS_AddElement
    <3>4. Cardinality(deleted') = Cardinality(deleted)
      BY <2>1
    <3> QED BY <1>0, <3>1, <3>2, <3>3, <3>4 DEF Counted
  <2>7. ASSUME NEW path \in R!Paths, deleted = {}
        PROVE  Attempts(RowsOf(path)') = 1..Cardinality(RowsOf(path)')
    <3>1. /\ Attempts(RowsOf(path)) = 1..Cardinality(RowsOf(path)) /\ Cardinality(RowsOf(path)) \in Nat
          /\ IsFiniteSet(RowsOf(path))
      BY <1>0, <2>7, RowsAreFinite DEF InTurn
    <3>2. CASE path = w[p].path
      <4>1. RowsOf(path)' = RowsOf(path) \cup {x} /\ x \notin RowsOf(path)
        BY <2>1, <2>4, <3>2 DEF RowsOf
      <4>2. Cardinality(RowsOf(path)') = Cardinality(RowsOf(path)) + 1
        BY <3>1, <4>1, FS_AddElement
      <4>3. x.attempt = Cardinality(RowsOf(path)) + 1
        BY <3>2, CardinalityR DEF R!Prior, RowsOf
      <4>4. Attempts(RowsOf(path)') = Attempts(RowsOf(path)) \cup {x.attempt}
        BY <4>1 DEF Attempts
      <4> QED BY <3>1, <4>2, <4>3, <4>4
    <3>3. CASE path # w[p].path
      <4>1. RowsOf(path)' = RowsOf(path)
        BY <2>1, <3>3 DEF RowsOf
      <4> QED BY <3>1, <4>1 DEF Attempts
    <3> QED BY <3>2, <3>3
  <2>8. InTurn'
    BY <2>1, <2>7 DEF InTurn
  <2> QED BY <2>5, <2>6, <2>8 DEF CountInv
<1>3. ASSUME NEW p \in Processes, R!LoopRaises(p) \/ R!FinishOk(p) PROVE CountInv'
  <2>1. PICK status \in {"ok", "error"} :
          /\ R!Finish(w[p].run, status) /\ UNCHANGED <<ran, deleted>>
          /\ w[p].at \in {"running", "archived"}
    BY <1>3 DEF R!LoopRaises, R!FinishOk
  <2> DEFINE r == w[p].run
  <2>2. runs' = {Ended(x, r, status) : x \in runs} /\ Started' = Started
    BY <2>1 DEF R!Finish, Ended, Started
  <2>3. \A x \in runs : /\ Ended(x, r, status).run = x.run
                        /\ Ended(x, r, status).path = x.path
    BY <1>0, CloseRow
  <2>4. RunsApart'
    BY <1>0, <2>1, <2>2, <2>3 DEF RunsApart
  <2>5. Counted'
    <3>1. IsFiniteSet(runs) /\ Apart(runs)
      BY <1>0, RowsAreFinite DEF RunsApart, Apart
    <3>2. Closed(runs, runs', r, status)
      BY <2>2 DEF Closed
    <3>3. Cardinality(runs') = Cardinality(runs)
      BY <1>0, <3>1, <3>2, CloseCounts
    <3> QED BY <1>0, <2>1, <2>2, <3>3 DEF Counted
  <2>6. ASSUME NEW path \in R!Paths
        PROVE  /\ Attempts(RowsOf(path)') = Attempts(RowsOf(path))
               /\ Cardinality(RowsOf(path)') = Cardinality(RowsOf(path))
    <3>1. RowsOf(path)' = {Ended(x, r, status) : x \in RowsOf(path)}
      BY <2>2, <2>3 DEF RowsOf
    <3>2. RowsOf(path) \subseteq Rows /\ Apart(RowsOf(path))
      BY <1>0 DEF RowsOf, RunsApart, Apart
    <3>3. IsFiniteSet(RowsOf(path))
      BY RowsAreFinite
    <3>4. Closed(RowsOf(path), RowsOf(path)', r, status)
      BY <3>1 DEF Closed
    <3>5. /\ Cardinality(RowsOf(path)') = Cardinality(RowsOf(path))
          /\ Attempts(RowsOf(path)') = Attempts(RowsOf(path))
      BY <3>2, <3>3, <3>4, CloseCounts
    <3> QED BY <3>5
  <2>7. InTurn'
    BY <1>0, <2>1, <2>6 DEF InTurn
  <2> QED BY <2>4, <2>5, <2>7 DEF CountInv
<1>4. ASSUME R!Delete PROVE CountInv'
  <2>1. PICK x \in runs : runs' = runs \ {x} /\ deleted' = deleted \cup {x.run} /\ UNCHANGED ran
    BY <1>4 DEF R!Delete
  <2>2. Started' = Started /\ x.run \notin deleted
    BY <1>0, <2>1 DEF Started, RunsApart
  <2>3. RunsApart'
    BY <1>0, <2>1 DEF RunsApart
  <2>4. Counted'
    <3>1. /\ IsFiniteSet(runs) /\ IsFiniteSet(deleted)
          /\ Cardinality(runs) \in Nat /\ Cardinality(deleted) \in Nat
      BY RowsAreFinite
    <3>2. Cardinality(runs') = Cardinality(runs) - 1
      BY <2>1, <3>1, FS_RemoveElement
    <3>3. Cardinality(deleted') = Cardinality(deleted) + 1
      BY <2>1, <2>2, <3>1, FS_AddElement
    <3> QED BY <1>0, <2>2, <3>1, <3>2, <3>3 DEF Counted
  <2>5. InTurn'
    BY <2>1 DEF InTurn
  <2> QED BY <2>3, <2>4, <2>5 DEF CountInv
<1>5. ASSUME NEW p \in Processes,
             \/ \E path \in R!Paths : R!Import(p, path)
             \/ R!ReadSource(p) \/ R!ArchiveConfig(p) \/ R!ArchiveSource(p) \/ R!Lose(p)
      PROVE  UNCHANGED <<runs, deleted, ran>>
  BY <1>5 DEF R!Import, R!ReadSource, R!ArchiveConfig, R!ArchiveSource, R!Lose, R!table
<1>6. ASSUME \/ R!Rewrite \/ R!Clean \/ R!EditArchive
             \/ \E r \in R!RunIds, force, config \in BOOLEAN : R!Promote(r, force, config)
             \/ \E overwrite \in BOOLEAN : R!StrategyWrite(overwrite)
             \/ UNCHANGED R!vars
      PROVE  UNCHANGED <<runs, deleted, ran>>
  BY <1>6 DEF R!Rewrite, R!Clean, R!EditArchive, R!Promote, R!StrategyWrite, R!vars, R!table
<1> QED BY <1>1, <1>2, <1>3, <1>4, <1>5, <1>6 DEF R!Next, R!Step

(* Every run that was started is counted, but for the rows an operator        *)
(* deleted: dying, raising or still running takes no look at the holdout back.*)
LEMMA LooksAreCounted == CountInv => R!LooksStayCounted
BY CardinalityR DEF CountInv, Counted, R!LooksStayCounted, R!FamilyAttempts, Started

(* Attempts are numbered from one without a gap, for each file, as long as no *)
(* row is deleted: create() counts inside the transaction of its insert.      *)
LEMMA AttemptsAreInTurn == CountInv => R!AttemptsDistinct
BY CardinalityR DEF CountInv, InTurn, Attempts, RowsOf, R!AttemptsDistinct, R!Prior

-----------------------------------------------------------------------------
(* Runs that are run again                                                    *)

LEMMA AgainSteps == [Next]_all => [A!Next]_again
BY DEF Times, Next, all, again

LEMMA CardinalityA == \A V : A!Cardinality(V) = Cardinality(V)
BY DEF A!Cardinality, Cardinality

(* NewestFirst lists each run of a finite set once: a run stands where the    *)
(* number of newer ones puts it, and no two have equally many.                *)
LEMMA NewestFirstLists ==
    ASSUME NEW Y \in SUBSET Nat, IsFiniteSet(Y)
    PROVE  /\ A!NewestFirst(Y) \in Seq(Y) /\ Len(A!NewestFirst(Y)) = Cardinality(Y)
           /\ \A r \in Y : \E i \in 1..Cardinality(Y) : A!NewestFirst(Y)[i] = r
<1> DEFINE n == Cardinality(Y)
           Newer(r) == {x \in Y : x > r}
           f == [r \in Y |-> Cardinality(Newer(r)) + 1]
<1>1. n \in Nat /\ IsFiniteSet(1..n) /\ Cardinality(1..n) = n
  BY FS_CardinalityType, FS_Interval
<1>2. ASSUME NEW r \in Y
      PROVE  /\ IsFiniteSet(Newer(r)) /\ Cardinality(Newer(r)) \in Nat /\ Cardinality(Newer(r)) < n
             /\ A!NewerThan(r, Y) = Cardinality(Newer(r))
  <2>1. IsFiniteSet(Newer(r)) /\ Cardinality(Newer(r)) <= n /\ (Cardinality(Newer(r)) = n => Newer(r) = Y)
    BY FS_Subset
  <2>2. Newer(r) # Y
    BY DEF Newer
  <2> QED BY <1>1, <2>1, <2>2, FS_CardinalityType, CardinalityA DEF A!NewerThan
<1>3. ASSUME NEW r \in Y, NEW q \in Y, r < q PROVE Cardinality(Newer(q)) < Cardinality(Newer(r))
  <2>1. Newer(q) \subseteq Newer(r) /\ Newer(q) # Newer(r)
    <3>1. r \in Nat /\ q \in Nat /\ \A x \in Y : x \in Nat
      OBVIOUS
    <3>2. Newer(q) \subseteq Newer(r)
      <4> SUFFICES ASSUME NEW x \in Newer(q) PROVE x \in Newer(r)
        BY Zenon
      <4>1. x \in Y /\ x > q /\ x \in Nat
        BY <3>1
      <4> QED BY <1>3, <3>1, <4>1
    <3>3. q \in Newer(r) /\ q \notin Newer(q)
      BY <1>3, <3>1
    <3> HIDE DEF Newer
    <3> QED BY <3>2, <3>3
  <2>2. Cardinality(Newer(q)) <= Cardinality(Newer(r)) /\ Cardinality(Newer(q)) # Cardinality(Newer(r))
    BY <1>2, <2>1, FS_Subset
  <2> QED BY <1>2, <2>2
<1>4. f \in Injection(Y, 1..n)
  <2>1. f \in [Y -> 1..n]
    BY <1>1, <1>2
  <2>2. ASSUME NEW r \in Y, NEW q \in Y, f[r] = f[q] PROVE r = q
    BY <1>2, <1>3, <2>2
  <2> QED BY <2>1, <2>2 DEF Injection, IsInjective
<1>5. f \in Surjection(Y, 1..n)
  BY <1>1, <1>4, FS_Injection
<1>f. \A r \in Y : f[r] = Cardinality(Newer(r)) + 1
  OBVIOUS
<1> HIDE DEF f, Newer, n
<1>6. \A i \in 1..n : \E r \in Y : A!NewerThan(r, Y) = i - 1
  <2> SUFFICES ASSUME NEW i \in 1..n PROVE \E r \in Y : A!NewerThan(r, Y) = i - 1
    OBVIOUS
  <2>1. PICK r \in Y : f[r] = i
    BY <1>5 DEF Surjection
  <2>2. Cardinality(Newer(r)) = i - 1
    BY <1>1, <1>2, <1>f, <2>1
  <2> QED BY <1>2, <2>2
<1>7. A!NewestFirst(Y) = [i \in 1..n |-> CHOOSE r \in Y : A!NewerThan(r, Y) = i - 1]
  BY CardinalityA DEF A!NewestFirst, n
<1>8. A!NewestFirst(Y) \in [1..n -> Y] /\ \A i \in 1..n : A!NewerThan(A!NewestFirst(Y)[i], Y) = i - 1
  BY <1>6, <1>7
<1>9. ASSUME NEW r \in Y PROVE A!NewestFirst(Y)[f[r]] = r /\ f[r] \in 1..n
  <2>1. f[r] \in 1..n /\ A!NewerThan(r, Y) = f[r] - 1
    <3>1. f[r] = Cardinality(Newer(r)) + 1 /\ A!NewerThan(r, Y) = Cardinality(Newer(r))
      BY <1>2, <1>f
    <3>2. Cardinality(Newer(r)) \in Nat /\ Cardinality(Newer(r)) < n
      BY <1>2
    <3> QED BY <1>1, <3>1, <3>2
  <2>2. A!NewestFirst(Y)[f[r]] \in Y /\ A!NewerThan(A!NewestFirst(Y)[f[r]], Y) = f[r] - 1
    BY <1>8, <2>1
  <2>3. PICK q \in Y : q = A!NewestFirst(Y)[f[r]]
    BY <2>2
  <2>4. f[q] = f[r]
    BY <1>1, <1>2, <1>f, <2>1, <2>2, <2>3
  <2> QED BY <1>4, <2>1, <2>3, <2>4 DEF Injection, IsInjective
<1>10. A!NewestFirst(Y) \in Seq(Y) /\ Len(A!NewestFirst(Y)) = n
  BY <1>1, <1>8
<1> QED BY <1>9, <1>10 DEF n

(* The runs there are have ids up to the last one made.                       *)
Fates == {"skipped", "rerun", "failed"}
ShelfType ==
    /\ made \in Nat /\ DOMAIN shelf \subseteq 1..(Len(Stock) + made)
    /\ queue \in Seq(Nat \ {0}) /\ report \in Seq((Nat \ {0}) \X Fates)
    /\ doing \in Nat /\ listed \subseteq Nat \ {0} /\ IsFiniteSet(listed)
(* What a sweep set out to do lies before it, is in hand or was told.         *)
InHand == IF doing = 0 THEN {} ELSE {doing}
Ahead == {queue[i] : i \in 1..Len(queue)}
Told == {report[i][1] : i \in 1..Len(report)}
NoneIsLost ==
    /\ Ahead \cup InHand \cup Told = listed
    /\ Len(queue) + (IF doing = 0 THEN 0 ELSE 1) + Len(report) = Cardinality(listed)
SweepInv == ShelfType /\ NoneIsLost

LEMMA SweepInit == A!RerunAssumption /\ A!Init => SweepInv
<1> SUFFICES ASSUME A!RerunAssumption, A!Init PROVE SweepInv
  OBVIOUS
<1>1. Len(Stock) \in Nat /\ DOMAIN Stock = 1..Len(Stock)
  BY DEF A!RerunAssumption
<1>2. /\ DOMAIN shelf = 1..Len(Stock) /\ made = 0 /\ queue = <<>> /\ report = <<>> /\ doing = 0 /\ listed = {}
  BY <1>1 DEF A!Init
<1>3. ShelfType
  BY <1>1, <1>2, FS_EmptySet DEF ShelfType
<1>4. NoneIsLost
  BY <1>2, FS_EmptySet DEF NoneIsLost, Ahead, InHand, Told
<1> QED BY <1>3, <1>4 DEF SweepInv

(* A run is told of: the one in hand, or the first of those ahead.            *)
LEMMA Telling ==
    ASSUME ShelfType, NEW r \in Nat \ {0}, NEW what \in Fates, A!Tell(r, what)
    PROVE  /\ report' \in Seq((Nat \ {0}) \X Fates) /\ Len(report') = Len(report) + 1
           /\ Told' = Told \cup {r}
<1> DEFINE t == <<r, what>>
<1>1. report' = Append(report, t) /\ t \in (Nat \ {0}) \X Fates /\ t[1] = r
  BY DEF A!Tell
<1> HIDE DEF t
<1>2. /\ report' \in Seq((Nat \ {0}) \X Fates) /\ Len(report') = Len(report) + 1 /\ Len(report) \in Nat
      /\ \A i \in 1..Len(report) : report'[i] = report[i]
      /\ report'[Len(report) + 1] = t
  BY <1>1 DEF ShelfType
<1> QED BY <1>1, <1>2 DEF Told

LEMMA Taking ==
    ASSUME ShelfType, queue # <<>>, queue' = Tail(queue)
    PROVE  /\ Head(queue) \in Nat \ {0}
           /\ queue' \in Seq(Nat \ {0}) /\ Len(queue') = Len(queue) - 1
           /\ Ahead = Ahead' \cup {Head(queue)}
<1>1. /\ queue \in Seq(Nat \ {0}) /\ Len(queue) \in Nat \ {0} /\ Head(queue) = queue[1]
  BY DEF ShelfType
<1>2. /\ queue' \in Seq(Nat \ {0}) /\ Len(queue') = Len(queue) - 1
      /\ \A i \in 1..Len(queue') : queue'[i] = queue[i + 1]
  BY <1>1
<1>3. \A i \in 2..Len(queue) : i - 1 \in 1..Len(queue') /\ queue[i] = queue'[i - 1]
  BY <1>1, <1>2
<1>4. Ahead \subseteq Ahead' \cup {Head(queue)}
  BY <1>1, <1>2, <1>3 DEF Ahead
<1>5. Ahead' \subseteq Ahead /\ Head(queue) \in Ahead
  BY <1>1, <1>2 DEF Ahead
<1> QED BY <1>1, <1>2, <1>4, <1>5

(* The id of a new run is none of those there are, and the others stay.       *)
LEMMA NewRunAdds ==
    ASSUME A!RerunAssumption, ShelfType, NEW r, shelf' = A!NewRun(r), made' = made + 1
    PROVE  /\ made' \in Nat /\ DOMAIN shelf' \subseteq 1..(Len(Stock) + made')
           /\ \A x \in DOMAIN shelf : shelf'[x] = shelf[x]
<1>1. Len(Stock) \in Nat
  BY DEF A!RerunAssumption
<1>2. A!NewId \notin DOMAIN shelf /\ A!NewId \in 1..(Len(Stock) + made')
  BY <1>1 DEF A!NewId, ShelfType
<1> QED BY <1>1, <1>2 DEF A!NewRun, ShelfType

LEMMA SweepStep == A!RerunAssumption /\ SweepInv /\ [A!Next]_again => SweepInv'
<1> SUFFICES ASSUME A!RerunAssumption, SweepInv, [A!Next]_again PROVE SweepInv'
  OBVIOUS
<1>0. ShelfType /\ NoneIsLost /\ Len(Stock) \in Nat
  BY DEF SweepInv, A!RerunAssumption
<1>t. /\ made \in Nat /\ DOMAIN shelf \subseteq 1..(Len(Stock) + made)
      /\ queue \in Seq(Nat \ {0}) /\ report \in Seq((Nat \ {0}) \X Fates)
      /\ doing \in Nat /\ listed \subseteq Nat \ {0} /\ IsFiniteSet(listed)
      /\ Len(queue) \in Nat /\ Len(report) \in Nat
  BY <1>0 DEF ShelfType
<1>n. /\ Ahead \cup InHand \cup Told = listed
      /\ Len(queue) + (IF doing = 0 THEN 0 ELSE 1) + Len(report) = Cardinality(listed)
  BY <1>0 DEF NoneIsLost
<1>1. ASSUME UNCHANGED <<queue, listed, doing, report>>,
             made' \in Nat, DOMAIN shelf' \subseteq 1..(Len(Stock) + made')
      PROVE  SweepInv'
  BY <1>0, <1>1 DEF SweepInv, ShelfType, NoneIsLost, Ahead, InHand, Told
<1>2. ASSUME NEW r, A!RerunOne(r) PROVE SweepInv'
  BY <1>0, <1>1, <1>2, NewRunAdds DEF A!RerunOne, A!sweeping
<1>3. ASSUME A!SweepStale PROVE SweepInv'
  <2> DEFINE Y == A!StaleRuns
  <2>1. /\ listed = {} /\ listed' = Y /\ queue' = A!NewestFirst(Y)
        /\ UNCHANGED <<shelf, doing, report, made>> /\ Y \subseteq DOMAIN shelf
    BY <1>3 DEF A!SweepStale, A!StaleRuns
  <2>2. Y \in SUBSET Nat /\ Y \subseteq Nat \ {0} /\ IsFiniteSet(Y)
    <3>1. IsFiniteSet(1..(Len(Stock) + made))
      BY <1>0, <1>t, FS_Interval
    <3>2. Y \subseteq 1..(Len(Stock) + made)
      BY <1>t, <2>1
    <3>3. Y \subseteq Nat \ {0}
      BY <1>0, <1>t, <3>2
    <3> QED BY <3>1, <3>2, <3>3, FS_Subset
  <2> HIDE DEF Y
  <2>3. /\ queue' \in Seq(Y) /\ Len(queue') = Cardinality(Y)
        /\ \A r \in Y : \E i \in 1..Cardinality(Y) : queue'[i] = r
    BY <2>1, <2>2, NewestFirstLists
  <2>4. Len(queue) = 0 /\ Len(report) = 0 /\ doing = 0
    BY <1>t, <1>n, <2>1, FS_EmptySet
  <2>5. ShelfType'
    BY <1>t, <2>1, <2>2, <2>3 DEF ShelfType
  <2>6. Ahead' = Y
    BY <2>3 DEF Ahead
  <2>7. NoneIsLost'
    <3>1. Told' = {} /\ InHand' = {}
      BY <2>1, <2>4 DEF Told, InHand
    <3> QED BY <2>1, <2>3, <2>4, <2>6, <3>1, FS_CardinalityType, <2>2 DEF NoneIsLost
  <2> QED BY <2>5, <2>7 DEF SweepInv
<1>4. ASSUME A!SkipRun PROVE SweepInv'
  <2>1. /\ queue # <<>> /\ doing = 0 /\ A!Tell(Head(queue), "skipped") /\ queue' = Tail(queue)
        /\ UNCHANGED <<shelf, listed, doing, made>>
    BY <1>4 DEF A!SkipRun
  <2>2. /\ Head(queue) \in Nat \ {0} /\ queue' \in Seq(Nat \ {0}) /\ Len(queue') = Len(queue) - 1
        /\ Ahead = Ahead' \cup {Head(queue)}
    BY <1>0, <2>1, Taking
  <2>3. /\ report' \in Seq((Nat \ {0}) \X Fates) /\ Len(report') = Len(report) + 1
        /\ Told' = Told \cup {Head(queue)}
    BY <1>0, <2>1, <2>2, Telling DEF Fates
  <2>4. ShelfType'
    BY <1>t, <2>1, <2>2, <2>3 DEF ShelfType
  <2>5. InHand' = InHand
    BY <2>1 DEF InHand
  <2>6. NoneIsLost'
    BY <1>t, <1>n, <2>1, <2>2, <2>3, <2>5 DEF NoneIsLost
  <2> QED BY <2>4, <2>6 DEF SweepInv
<1>5. ASSUME A!StartRun PROVE SweepInv'
  <2>1. /\ queue # <<>> /\ doing = 0 /\ shelf' = A!NewRun(Head(queue)) /\ made' = made + 1
        /\ doing' = Head(queue) /\ queue' = Tail(queue) /\ UNCHANGED <<listed, report>>
    BY <1>5 DEF A!StartRun
  <2>2. /\ Head(queue) \in Nat \ {0} /\ queue' \in Seq(Nat \ {0}) /\ Len(queue') = Len(queue) - 1
        /\ Ahead = Ahead' \cup {Head(queue)}
    BY <1>0, <2>1, Taking
  <2>3. made' \in Nat /\ DOMAIN shelf' \subseteq 1..(Len(Stock) + made')
    BY <1>0, <2>1, NewRunAdds
  <2>4. ShelfType'
    BY <1>t, <2>1, <2>2, <2>3 DEF ShelfType
  <2>5. InHand = {} /\ InHand' = {Head(queue)} /\ Told' = Told
    BY <2>1, <2>2 DEF InHand, Told
  <2>6. NoneIsLost'
    BY <1>t, <1>n, <2>1, <2>2, <2>5 DEF NoneIsLost
  <2> QED BY <2>4, <2>6 DEF SweepInv
<1>6. ASSUME A!RunEnds \/ A!RunFails PROVE SweepInv'
  <2>1. PICK what \in Fates : /\ doing # 0 /\ A!Tell(doing, what) /\ doing' = 0
                               /\ UNCHANGED <<shelf, listed, queue, made>>
    BY <1>6 DEF A!RunEnds, A!RunFails, Fates
  <2>2. /\ report' \in Seq((Nat \ {0}) \X Fates) /\ Len(report') = Len(report) + 1
        /\ Told' = Told \cup {doing}
    BY <1>0, <1>t, <2>1, Telling
  <2>3. ShelfType'
    BY <1>t, <2>1, <2>2 DEF ShelfType
  <2>4. InHand = {doing} /\ InHand' = {} /\ Ahead' = Ahead
    BY <2>1 DEF InHand, Ahead
  <2>5. NoneIsLost'
    BY <1>t, <1>n, <2>1, <2>2, <2>4 DEF NoneIsLost
  <2> QED BY <2>3, <2>5 DEF SweepInv
<1>7. ASSUME NEW r, A!Delete(r) PROVE SweepInv'
  BY <1>t, <1>1, <1>7 DEF A!Delete, A!sweeping
<1>8. ASSUME NEW p \in {"ws", "lib"}, A!Write(p) \/ A!Unlink(p) PROVE SweepInv'
  BY <1>t, <1>1, <1>8 DEF A!Write, A!Unlink, A!sweeping
<1>9. ASSUME UNCHANGED again PROVE SweepInv'
  BY <1>t, <1>1, <1>9 DEF again
<1> QED BY <1>2, <1>3, <1>4, <1>5, <1>6, <1>7, <1>8, <1>9 DEF A!Next

LEMMA SweptIsTold == SweepInv => A!SweepTellsOfAll
<1> SUFFICES ASSUME SweepInv, queue = <<>>, doing = 0
             PROVE  {report[i][1] : i \in DOMAIN report} = listed /\ Len(report) = A!Cardinality(listed)
  BY DEF A!SweepTellsOfAll
<1>1. DOMAIN report = 1..Len(report) /\ Len(report) \in Nat
  BY DEF SweepInv, ShelfType
<1>2. Ahead = {} /\ InHand = {} /\ Told = listed /\ Len(report) = Cardinality(listed)
  <2>1. Len(queue) = 0 /\ Ahead = {} /\ InHand = {}
    BY DEF Ahead, InHand
  <2> QED BY <1>1, <2>1 DEF SweepInv, NoneIsLost
<1> QED BY <1>1, <1>2, CardinalityA DEF Told

-----------------------------------------------------------------------------
(* The findings                                                               *)

LEMMA FindingSteps == [Next]_all => [F!Next]_F!findingsVars
<1>1. Stores => [F!Next]_F!findingsVars
  BY DEF Stores, journals, findings, F!findingsVars
<1>2. UNCHANGED journals => UNCHANGED F!findingsVars
  BY DEF journals, findings, F!findingsVars
<1> QED BY <1>1, <1>2 DEF Next, all, journals, findings, F!findingsVars

LEMMA CardinalityF == \A V : F!Cardinality(V) = Cardinality(V)
BY DEF F!Cardinality, Cardinality

Statuses == {"open", "superseded", "confirmed"}
Lines == [from : Statuses, to : Statuses, note : Nat]
Claim == [status : Statuses, history : Seq(Lines), by : Nat]
Updates == [id : Nat, row : Claim, to : {"same", "confirmed"}]

FindingType ==
    /\ claims \in Seq(Claim) /\ named \in Seq(SUBSET Nat) /\ Len(named) = Len(claims)
    /\ \A i \in 1..Len(named) : IsFiniteSet(named[i])
    /\ read \in [Authors -> Updates]
    /\ \A a \in Authors : read[a].id \in 0..Len(claims)

(* A claim stands where its last line left it, or was superseded since.       *)
Stands(i) ==
    LET h == claims[i].history
    IN  h # <<>> => claims[i].status \in {h[Len(h)].to, "superseded"}
FindingInv ==
    /\ FindingType /\ F!HistoryIsKept /\ F!ReplacedStaysOut
    /\ \A i \in F!Ids \ late : Stands(i)

LEMMA FindingInit == F!Init => FindingInv
<1> SUFFICES ASSUME F!Init PROVE FindingInv
  OBVIOUS
<1>1. F!NoUpdate \in Updates /\ F!NoUpdate.id = 0
  BY DEF F!NoUpdate, Updates, Claim, Statuses
<1>2. F!Ids = {}
  BY DEF F!Init, F!Ids
<1> QED BY <1>1, <1>2 DEF F!Init, FindingInv, FindingType, F!HistoryIsKept, F!ReplacedStaysOut

(* What is true of one claim: its part of the invariant.                      *)
ClaimInv(i) ==
    LET h == claims[i].history
    IN  /\ {h[k].note : k \in DOMAIN h} = named[i]
        /\ \A k \in 1..(Len(h) - 1) : h[k + 1].from \in {h[k].to, "superseded"}
        /\ Stands(i)
        /\ (claims[i].by # 0 /\ claims[i].status # "superseded") => i \in reopened

LEMMA ClaimByClaim == FindingInv <=> FindingType /\ \A i \in F!Ids \ late : ClaimInv(i)
BY DEF FindingInv, ClaimInv, F!HistoryIsKept, F!ReplacedStaysOut, F!Digest

LEMMA FindingStep == FindingInv /\ [F!Next]_F!findingsVars => FindingInv'
<1> SUFFICES ASSUME FindingInv, [F!Next]_F!findingsVars PROVE FindingInv'
  OBVIOUS
<1>0. FindingType /\ \A i \in F!Ids \ late : ClaimInv(i)
  BY ClaimByClaim
<1>t. /\ claims \in Seq(Claim) /\ named \in Seq(SUBSET Nat) /\ Len(named) = Len(claims)
      /\ \A i \in 1..Len(named) : IsFiniteSet(named[i])
      /\ read \in [Authors -> Updates] /\ \A a \in Authors : read[a].id \in 0..Len(claims)
  BY <1>0 DEF FindingType
<1>p. FindingInv' <=> FindingType' /\ \A i \in F!Ids' \ late' : ClaimInv(i)'
  BY ClaimByClaim DEF FindingInv, ClaimInv, F!HistoryIsKept, F!ReplacedStaysOut, F!Digest
<1>1. ASSUME NEW old \in 0..MaxFindings, F!Record(old) PROVE FindingInv'
  <2> DEFINE n == Len(claims)
             new == [status |-> "open", history |-> <<>>, by |-> 0]
             shut == [claims[old] EXCEPT !.status = "superseded", !.by = n + 1]
  <2>1. /\ old \in 0..n
        /\ claims' = [i \in 1..(n + 1) |-> IF i > n THEN new ELSE IF i = old THEN shut ELSE claims[i]]
        /\ named' = Append(named, {}) /\ reopened' = reopened \ {old}
        /\ read' = read /\ late' = late
    BY <1>1 DEF F!Record, F!NoUpdate
  <2>2. n \in Nat /\ \A i \in 1..n : claims[i] \in Claim
    BY <1>t
  <2>3. new \in Claim
    BY DEF Claim, Statuses
  <2>4. old # 0 => /\ shut \in Claim /\ shut.history = claims[old].history
                   /\ shut.status = "superseded"
    <3> SUFFICES ASSUME old # 0 PROVE shut \in Claim /\ shut.history = claims[old].history
                                      /\ shut.status = "superseded"
      OBVIOUS
    <3>1. PICK c \in Claim : c = claims[old]
      BY <2>1, <2>2
    <3>2. shut = [c EXCEPT !.status = "superseded", !.by = n + 1]
      BY <3>1
    <3> HIDE DEF shut, n
    <3>3. n + 1 \in Nat /\ c \in Claim
      BY <2>2, <3>1
    <3>4. shut.history = c.history /\ shut.status = "superseded" /\ shut.by = n + 1
      BY <3>2, <3>3 DEF Claim
    <3>5. shut \in Claim
      BY <3>2, <3>3 DEF Claim, Statuses
    <3> QED BY <3>1, <3>4, <3>5
  <2> HIDE DEF new, shut, n
  <2>5. \A i \in 1..(n + 1) : (IF i > n THEN new ELSE IF i = old THEN shut ELSE claims[i]) \in Claim
    BY <2>1, <2>2, <2>3, <2>4
  <2>6. claims' \in Seq(Claim) /\ Len(claims') = n + 1
    BY <2>1, <2>2, <2>5
  <2>7. /\ named' \in Seq(SUBSET Nat) /\ Len(named') = n + 1
        /\ \A i \in 1..n : named'[i] = named[i]
        /\ named'[n + 1] = {}
    BY <1>t, <2>1 DEF n
  <2>8. FindingType'
    BY <1>t, <2>1, <2>2, <2>6, <2>7, FS_EmptySet DEF FindingType, n
  <2>9. ASSUME NEW i \in F!Ids', i \notin late PROVE ClaimInv(i)'
    <3>1. i \in 1..(n + 1) /\ claims'[i] = IF i > n THEN new ELSE IF i = old THEN shut ELSE claims[i]
      BY <2>1, <2>6, <2>9 DEF F!Ids
    <3>2. CASE i = n + 1
      <4>1. claims'[i] = new /\ named'[i] = {}
        BY <2>2, <2>7, <3>1, <3>2
      <4>2. new.history = <<>> /\ new.by = 0
        BY DEF new
      <4> QED BY <4>1, <4>2 DEF ClaimInv, Stands
    <3>3. CASE i \in 1..n
      <4>1. ClaimInv(i) /\ named'[i] = named[i]
        BY <1>0, <2>7, <2>9, <3>3 DEF F!Ids, n
      <4>2. CASE i = old
        <5>1. /\ claims'[i].history = claims[i].history /\ claims'[i].status = "superseded"
          BY <2>2, <2>4, <3>1, <3>3, <4>2
        <5> QED BY <4>1, <5>1 DEF ClaimInv, Stands
      <4>3. CASE i # old
        <5>1. claims'[i] = claims[i] /\ (i \in reopened => i \in reopened')
          BY <2>1, <2>2, <3>1, <3>3, <4>3
        <5> QED BY <4>1, <5>1 DEF ClaimInv, Stands
      <4> QED BY <4>2, <4>3
    <3> QED BY <2>2, <3>1, <3>2, <3>3
  <2> QED BY <1>p, <2>1, <2>8, <2>9
<1>2. ASSUME NEW a \in Authors, NEW i \in F!Ids, NEW to \in {"same", "confirmed"}, F!ReadRow(a, i, to)
      PROVE  FindingInv'
  <2> DEFINE u == [id |-> i, row |-> claims[i], to |-> to]
  <2>1. read' = [read EXCEPT ![a] = u] /\ UNCHANGED <<claims, named, reopened, late>>
    BY <1>2 DEF F!ReadRow
  <2>2. u \in Updates /\ u.id \in 0..Len(claims)
    BY <1>t DEF Updates, F!Ids
  <2> HIDE DEF u
  <2>3. FindingType'
    BY <1>t, <2>1, <2>2 DEF FindingType
  <2> QED BY <1>0, <1>p, <2>1, <2>3 DEF ClaimInv, Stands, F!Ids
<1>3. ASSUME NEW a \in Authors, F!WriteRow(a) PROVE FindingInv'
  <2>0. PICK i \in 0..Len(claims) : i = read[a].id
    BY <1>t
  <2> DEFINE row == read[a].row
             to == F!NewStatus(row, read[a].to)
             note == F!Answered + 1
             line == [from |-> row.status, to |-> to, note |-> note]
             next == [claims[i] EXCEPT !.status = to, !.history = Append(row.history, line)]
  <2>1. /\ i # 0 /\ claims' = [claims EXCEPT ![i] = next]
        /\ named' = [named EXCEPT ![i] = named[i] \cup {note}]
        /\ reopened' = (IF read[a].to = "same" THEN reopened ELSE reopened \cup {i})
        /\ late' = (IF claims[i] # row THEN late \cup {i} ELSE late)
        /\ read' = [read EXCEPT ![a] = F!NoUpdate]
    BY <1>3, <2>0 DEF F!WriteRow, F!Entered, F!Reading
  <2>2. /\ read[a] \in Updates /\ i \in 1..Len(claims) /\ claims[i] \in Claim /\ named[i] \in SUBSET Nat
    BY <1>t, <2>0, <2>1
  <2>3. row \in Claim /\ to \in Statuses
    BY <2>2 DEF Updates, F!NewStatus, Claim, Statuses
  <2>4. note \in Nat
    <3>1. DOMAIN named = 1..Len(named) /\ IsFiniteSet(1..Len(named))
      BY <1>t, FS_Interval
    <3>2. IsFiniteSet({named[k] : k \in 1..Len(named)})
      <4> DEFINE Y == {named[k] : k \in 1..Len(named)}
                 f == [k \in 1..Len(named) |-> named[k]]
      <4>1. f \in Surjection(1..Len(named), Y)
        BY DEF Surjection
      <4> HIDE DEF f
      <4> QED BY <3>1, <4>1, FS_Surjection
    <3>3. IsFiniteSet(UNION {named[k] : k \in 1..Len(named)})
      BY <1>t, <3>2, FS_UNION
    <3>4. F!Answered = Cardinality(UNION {named[k] : k \in 1..Len(named)})
      BY <3>1, CardinalityF DEF F!Answered
    <3> QED BY <3>3, <3>4, FS_CardinalityType
  <2>5. line \in Lines /\ line.from = row.status /\ line.to = to /\ line.note = note
    BY <2>3, <2>4 DEF Lines, Claim
  <2>6. /\ next \in Claim /\ next.status = to /\ next.by = claims[i].by
        /\ next.history = Append(row.history, line)
    <3> HIDE DEF line, to
    <3>1. Append(row.history, line) \in Seq(Lines)
      BY <2>3, <2>5 DEF Claim
    <3> QED BY <2>2, <2>3, <3>1 DEF Claim
  <2> HIDE DEF row, to, note, line, next
  <2>7. /\ claims' \in Seq(Claim) /\ Len(claims') = Len(claims)
        /\ claims'[i] = next /\ \A k \in 1..Len(claims) : k # i => claims'[k] = claims[k]
    BY <1>t, <2>1, <2>2, <2>6
  <2>8. /\ named' \in Seq(SUBSET Nat) /\ Len(named') = Len(named)
        /\ named'[i] = named[i] \cup {note} /\ \A k \in 1..Len(named) : k # i => named'[k] = named[k]
    BY <1>t, <2>1, <2>2, <2>4
  <2>9. \A k \in 1..Len(named') : IsFiniteSet(named'[k])
    <3>1. IsFiniteSet(named[i] \cup {note})
      BY <1>t, <2>2, FS_AddElement
    <3> QED BY <1>t, <2>8, <3>1
  <2>10. FindingType'
    <3>1. F!NoUpdate \in Updates /\ F!NoUpdate.id = 0
      BY DEF F!NoUpdate, Updates, Claim, Statuses
    <3>2. read' \in [Authors -> Updates] /\ \A b \in Authors : read'[b].id \in 0..Len(claims)
      BY <1>t, <2>1, <3>1
    <3> QED BY <1>t, <2>7, <2>8, <2>9, <3>2 DEF FindingType
  <2>11. ASSUME NEW k \in F!Ids', k \notin late' PROVE ClaimInv(k)'
    <3>1. k \in F!Ids \ late /\ k \in 1..Len(claims) /\ ClaimInv(k)
      BY <1>0, <2>1, <2>7, <2>11 DEF F!Ids
    <3>2. CASE k # i
      <4>1. claims'[k] = claims[k] /\ named'[k] = named[k] /\ (k \in reopened => k \in reopened')
        BY <1>t, <2>1, <2>7, <2>8, <3>1, <3>2
      <4> QED BY <3>1, <4>1 DEF ClaimInv, Stands
    <3>3. CASE k = i
      <4> DEFINE h == claims[i].history
                 g == claims'[i].history
      <4>1. claims[i] = row
        BY <2>1, <2>11, <3>3
      <4>2. h \in Seq(Lines) /\ g = Append(h, line) /\ claims'[i].status = to
        BY <2>2, <2>6, <2>7, <4>1 DEF Claim
      <4>3. /\ {h[m].note : m \in DOMAIN h} = named[i]
            /\ \A m \in 1..(Len(h) - 1) : h[m + 1].from \in {h[m].to, "superseded"}
            /\ h # <<>> => claims[i].status \in {h[Len(h)].to, "superseded"}
            /\ (claims[i].by # 0 /\ claims[i].status # "superseded") => i \in reopened
        BY <3>1, <3>3 DEF ClaimInv, Stands
      <4>4. /\ Len(h) \in Nat /\ Len(g) = Len(h) + 1 /\ DOMAIN h = 1..Len(h) /\ DOMAIN g = 1..Len(g)
            /\ \A m \in 1..Len(h) : g[m] = h[m]
            /\ g[Len(g)] = line
        <5> HIDE DEF h, g
        <5> QED BY <4>2, <2>5
      <4>5. {g[m].note : m \in DOMAIN g} = {h[m].note : m \in DOMAIN h} \cup {note}
        <5> HIDE DEF h, g
        <5> QED BY <2>5, <4>4
      <4>6. \A m \in 1..(Len(g) - 1) : g[m + 1].from \in {g[m].to, "superseded"}
        <5>1. h # <<>> => line.from \in {h[Len(h)].to, "superseded"}
          BY <2>5, <4>1, <4>3
        <5>2. Len(h) > 0 => h # <<>>
          BY <4>4
        <5> HIDE DEF h, g
        <5> QED BY <4>3, <4>4, <5>1, <5>2
      <4>7. Stands(i)'
        <5>1. claims'[i].status = g[Len(g)].to
          BY <2>5, <4>2, <4>4
        <5> QED BY <5>1 DEF Stands
      <4>8. (claims'[i].by # 0 /\ claims'[i].status # "superseded") => i \in reopened'
        <5>1. claims'[i].by = claims[i].by
          BY <2>6, <2>7
        <5>2. read[a].to = "same" => to = claims[i].status
          BY <4>1 DEF to, row, F!NewStatus
        <5> QED BY <2>1, <4>2, <4>3, <5>1, <5>2
      <4>9. {g[m].note : m \in DOMAIN g} = named'[i]
        BY <2>8, <4>3, <4>5
      <4> QED BY <3>3, <4>6, <4>7, <4>8, <4>9 DEF ClaimInv
    <3> QED BY <3>2, <3>3
  <2> QED BY <1>p, <2>10, <2>11
<1>4. ASSUME UNCHANGED F!findingsVars PROVE FindingInv'
  BY <1>0, <1>p, <1>4 DEF F!findingsVars, FindingType, ClaimInv, Stands, F!Ids
<1> QED BY <1>1, <1>2, <1>3, <1>4 DEF F!Next

-----------------------------------------------------------------------------
(* All three together                                                         *)

RegistryInv == CodeInv /\ CountInv /\ SweepInv /\ FindingInv

LEMMA RegistryInvariant == Spec => []RegistryInv
<1>1. Init => RegistryInv
  BY StoresAssumption, CodeInit, CountInit, SweepInit, FindingInit DEF Init, StoresAssumption, RegistryInv
<1>2. RegistryInv /\ [Next]_all => RegistryInv'
  BY StoresAssumption, RegistrySteps, AgainSteps, FindingSteps, CodeStep, CountStep, SweepStep, FindingStep
     DEF StoresAssumption, RegistryInv
<1> QED BY <1>1, <1>2, PTL DEF Spec, all

(* A run of the registry leads to the code it executed, whatever became of    *)
(* its file, is promoted as that code and counts as a look at its holdout     *)
(* however it ended; attempts are numbered in turn; a sweep of reruns tells   *)
(* of every run it set out to repeat, whichever of them fail or go meanwhile; *)
(* a finding keeps each note it was given in an unbroken history, and one     *)
(* that was replaced is not read as current until somebody says so.           *)
THEOREM RegistryIsAlwaysKept == Spec => []RegistryIsKept
<1>1. RegistryInv => RegistryIsKept
  BY OkRunsHaveTheirCode, GoneCodeIsInTheArchive, PromotedCodeIsWhatRan, LooksAreCounted,
     AttemptsAreInTurn, SweptIsTold
     DEF RegistryInv, RegistryIsKept, FindingInv
<1> QED BY <1>1, RegistryInvariant, PTL

-----------------------------------------------------------------------------
(* The trials a result answers for                                            *)

LEMMA TrialSteps == [Next]_all => [K!Next]_trials
BY DEF Times, Next, all, trials

LEMMA CardinalityK == \A V : K!Cardinality(V) = Cardinality(V)
BY DEF K!Cardinality, Cardinality

LEMMA MaxOfTwo ==
    ASSUME NEW a \in Nat, NEW b \in Nat
    PROVE  K!Max({a, b}) = IF a >= b THEN a ELSE b
<1>1. \E x \in {a, b} : \A y \in {a, b} : x >= y
  OBVIOUS
<1> QED BY <1>1 DEF K!Max

LEMMA MaxOfThree ==
    ASSUME NEW a \in Nat, NEW b \in Nat, NEW c \in Nat
    PROVE  /\ K!Max({a, b, c}) \in Nat
           /\ K!Max({a, b, c}) >= a /\ K!Max({a, b, c}) >= b /\ K!Max({a, b, c}) >= c
           /\ K!Max({a, b, c}) \in {a, b, c}
<1>1. \E x \in {a, b, c} : \A y \in {a, b, c} : x >= y
  OBVIOUS
<1>2. K!Max({a, b, c}) \in {a, b, c} /\ \A y \in {a, b, c} : K!Max({a, b, c}) >= y
  BY <1>1 DEF K!Max
<1> QED BY <1>2

Looks == [run : Nat, of : Entries, status : {"running", "ok", "error"}]
TrialType ==
    /\ looks \subseteq Looks /\ IsFiniteSet(looks) /\ gone \in Nat
    /\ answer \in [claim : Nat, trials : Nat, gone : Nat] /\ answer.gone <= gone
(* Runs are numbered in the order they come, with those that were deleted.    *)
Numbered ==
    /\ \A x \in looks : x.run \in 1..(Cardinality(looks) + gone)
    /\ \A x, y \in looks : x.run = y.run => x = y
(* While no row goes, what a result answers for covers its last answer.       *)
Tries(x) == {1, Cardinality(K!Family(x)), Cardinality(K!SameHoldout(x))}
StillCovers ==
    answer # K!NoAnswer =>
        /\ Cardinality(looks) + gone >= 1
        /\ answer.gone = gone => \A x \in looks : x.run = 1 =>
               answer.trials <= answer.claim \/ \E n \in Tries(x) : answer.trials <= n
TrialInv == TrialType /\ Numbered /\ StillCovers

LEMMA TriesAreFinite ==
    ASSUME TrialType, NEW x
    PROVE  /\ IsFiniteSet(K!Family(x)) /\ IsFiniteSet(K!SameHoldout(x))
           /\ Cardinality(K!Family(x)) \in Nat /\ Cardinality(K!SameHoldout(x)) \in Nat
           /\ Cardinality(looks) \in Nat
<1>1. K!Family(x) \subseteq looks /\ K!SameHoldout(x) \subseteq looks /\ IsFiniteSet(looks)
  BY DEF K!Family, K!SameHoldout, TrialType
<1> QED BY <1>1, FS_Subset, FS_CardinalityType

LEMMA TrialInit == K!Init => TrialInv
<1> SUFFICES ASSUME K!Init PROVE TrialInv
  OBVIOUS
<1>1. looks = {} /\ gone = 0 /\ answer = K!NoAnswer
  BY DEF K!Init
<1> QED BY <1>1, FS_EmptySet DEF TrialInv, TrialType, Numbered, StillCovers, K!NoAnswer

(* A question about the first run: there is but one of that number.           *)
LEMMA Asked ==
    ASSUME K!TrialsAssumption, TrialInv, NEW x \in looks, NEW claim \in Claims, K!Deflate(x, claim)
    PROVE  /\ x.run = 1 /\ \A y \in looks : y.run = 1 => y = x
           /\ answer' \in [claim : Nat, trials : Nat, gone : Nat]
           /\ answer'.claim = claim /\ answer'.gone = gone
           /\ answer'.trials >= claim /\ answer'.trials >= 1
           /\ answer'.trials >= Cardinality(K!Family(x))
           /\ answer'.trials >= Cardinality(K!SameHoldout(x))
           /\ answer'.trials = claim \/ answer'.trials \in Tries(x)
           /\ looks' = looks /\ gone' = gone
<1>1. /\ x.run = 1 /\ looks' = looks /\ gone' = gone /\ claim \in Nat /\ gone \in Nat
      /\ answer' = [claim |-> claim, trials |-> K!Max({1, K!Counted(claim, x)}), gone |-> gone]
  BY DEF K!Deflate, K!TrialsAssumption, TrialInv, TrialType
<1>2. \A y \in looks : y.run = 1 => y = x
  BY <1>1 DEF TrialInv, Numbered
<1> DEFINE a == Cardinality(K!Family(x))
           b == Cardinality(K!SameHoldout(x))
           c == K!Counted(claim, x)
<1>3. a \in Nat /\ b \in Nat
  BY TriesAreFinite DEF TrialInv
<1>4. c = K!Max({claim, a, b})
  BY CardinalityK DEF K!Counted
<1>5. c \in Nat /\ c >= claim /\ c >= a /\ c >= b /\ c \in {claim, a, b}
  <2> HIDE DEF a, b, c
  <2> QED BY <1>1, <1>3, <1>4, MaxOfThree
<1>6. K!Max({1, c}) = IF 1 >= c THEN 1 ELSE c
  BY <1>5, MaxOfTwo
<1>7. answer'.trials = (IF 1 >= c THEN 1 ELSE c) /\ answer'.claim = claim /\ answer'.gone = gone
  BY <1>1, <1>6
<1>8. answer' \in [claim : Nat, trials : Nat, gone : Nat]
  BY <1>1, <1>5, <1>6
<1>9. Tries(x) = {1, a, b}
  BY DEF Tries
<1> HIDE DEF a, b, c
<1>10. answer'.trials >= a /\ answer'.trials >= b /\ answer'.trials >= claim /\ answer'.trials >= 1
  BY <1>1, <1>3, <1>5, <1>7
<1>11. answer'.trials = claim \/ answer'.trials \in {1, a, b}
  BY <1>5, <1>7
<1> QED BY <1>1, <1>2, <1>7, <1>8, <1>9, <1>10, <1>11 DEF a, b

(* Rows of the same entries as before, and as many, are as many tries.        *)
LEMMA TriesGrow ==
    ASSUME TrialType, IsFiniteSet(looks'), looks \subseteq looks', NEW x
    PROVE  /\ Cardinality(K!Family(x)) <= Cardinality(K!Family(x)')
           /\ Cardinality(K!SameHoldout(x)) <= Cardinality(K!SameHoldout(x)')
<1>1. /\ K!Family(x) \subseteq K!Family(x)' /\ K!SameHoldout(x) \subseteq K!SameHoldout(x)'
      /\ K!Family(x)' \subseteq looks' /\ K!SameHoldout(x)' \subseteq looks'
  BY DEF K!Family, K!SameHoldout
<1>2. IsFiniteSet(K!Family(x)') /\ IsFiniteSet(K!SameHoldout(x)')
  BY <1>1, FS_Subset
<1> QED BY <1>1, <1>2, FS_Subset

(* One row takes the place of another: as many as before.                     *)
LEMMA SwapCounts ==
    ASSUME NEW Y, IsFiniteSet(Y), NEW x \in Y, NEW z, z \notin Y \ {x}
    PROVE  IsFiniteSet((Y \ {x}) \cup {z}) /\ Cardinality((Y \ {x}) \cup {z}) = Cardinality(Y)
<1>1. Cardinality(Y) \in Nat /\ IsFiniteSet(Y \ {x}) /\ Cardinality(Y \ {x}) = Cardinality(Y) - 1
  BY FS_RemoveElement, FS_CardinalityType
<1>2. /\ IsFiniteSet((Y \ {x}) \cup {z})
      /\ Cardinality((Y \ {x}) \cup {z}) = Cardinality(Y \ {x}) + 1
  BY <1>1, FS_AddElement
<1> QED BY <1>1, <1>2

LEMMA TrialStep == K!TrialsAssumption /\ TrialInv /\ [K!Next]_trials => TrialInv'
<1> SUFFICES ASSUME K!TrialsAssumption, TrialInv, [K!Next]_trials PROVE TrialInv'
  OBVIOUS
<1>0. TrialType /\ Numbered /\ StillCovers
  BY DEF TrialInv
<1>t. /\ looks \subseteq Looks /\ IsFiniteSet(looks) /\ gone \in Nat /\ Cardinality(looks) \in Nat
      /\ answer \in [claim : Nat, trials : Nat, gone : Nat] /\ answer.gone <= gone
  BY <1>0, FS_CardinalityType DEF TrialType
<1>a. answer.claim \in Nat /\ answer.trials \in Nat /\ answer.gone \in Nat
  BY <1>t
<1>1. ASSUME NEW entry \in Entries, K!Register(entry) PROVE TrialInv'
  <2> DEFINE z == [run |-> K!Registered + 1, of |-> entry, status |-> "running"]
  <2>1. looks' = looks \cup {z} /\ gone' = gone /\ answer' = answer
    BY <1>1 DEF K!Register
  <2>2. K!Registered = Cardinality(looks) + gone
    BY CardinalityK DEF K!Registered
  <2>3. z.run = Cardinality(looks) + gone + 1 /\ z \in Looks
    BY <1>t, <2>2 DEF Looks
  <2> HIDE DEF z
  <2>4. z \notin looks
    BY <1>0, <1>t, <2>3 DEF Numbered
  <2>5. IsFiniteSet(looks') /\ Cardinality(looks') = Cardinality(looks) + 1
    BY <1>t, <2>1, <2>4, FS_AddElement
  <2>6. TrialType'
    BY <1>t, <2>1, <2>3, <2>5 DEF TrialType
  <2>7. Numbered'
    BY <1>0, <1>t, <2>1, <2>3, <2>5 DEF Numbered
  <2>8. StillCovers'
    <3> SUFFICES ASSUME answer # K!NoAnswer, answer.gone = gone, NEW x \in looks', x.run = 1,
                        ~(answer.trials <= answer.claim)
                 PROVE  \E n \in Tries(x)' : answer.trials <= n
      BY <1>0, <1>t, <2>1, <2>5 DEF StillCovers, K!NoAnswer
    <3>1. x \in looks
      BY <1>0, <1>t, <2>1, <2>3 DEF StillCovers
    <3>2. PICK n \in Tries(x) : answer.trials <= n
      BY <1>0, <3>1 DEF StillCovers
    <3>3. /\ Cardinality(K!Family(x)) <= Cardinality(K!Family(x)')
          /\ Cardinality(K!SameHoldout(x)) <= Cardinality(K!SameHoldout(x)')
      BY <1>0, <2>1, <2>5, TriesGrow
    <3>4. /\ Cardinality(K!Family(x)) \in Nat /\ Cardinality(K!SameHoldout(x)) \in Nat
          /\ Cardinality(K!Family(x)') \in Nat /\ Cardinality(K!SameHoldout(x)') \in Nat
      BY <1>0, <2>6, TriesAreFinite, FS_CardinalityType, FS_Subset DEF TrialType, K!Family, K!SameHoldout
    <3> QED BY <1>a, <3>2, <3>3, <3>4 DEF Tries
  <2> QED BY <2>6, <2>7, <2>8 DEF TrialInv
<1>2. ASSUME NEW x \in looks, NEW status \in {"ok", "error"}, K!Finish(x, status) PROVE TrialInv'
  <2> DEFINE z == [x EXCEPT !.status = status]
  <2>1. looks' = (looks \ {x}) \cup {z} /\ gone' = gone /\ answer' = answer
    BY <1>2 DEF K!Finish
  <2>2. x \in Looks /\ z \in Looks /\ z.run = x.run /\ z.of = x.of
    BY <1>t DEF Looks
  <2> HIDE DEF z
  <2>3. z \notin looks \ {x}
    BY <1>0, <2>2 DEF Numbered
  <2>4. IsFiniteSet(looks') /\ Cardinality(looks') = Cardinality(looks)
    BY <1>t, <2>1, <2>3, SwapCounts
  <2>5. TrialType'
    BY <1>t, <2>1, <2>2, <2>4 DEF TrialType
  <2>6. Numbered'
    BY <1>0, <2>1, <2>2, <2>4 DEF Numbered
  <2>7. ASSUME NEW y PROVE /\ Cardinality(K!Family(y)') = Cardinality(K!Family(y))
                           /\ Cardinality(K!SameHoldout(y)') = Cardinality(K!SameHoldout(y))
    <3>1. IsFiniteSet(K!Family(y)) /\ IsFiniteSet(K!SameHoldout(y))
      BY <1>0, TriesAreFinite
    <3>2. K!Family(y)' = IF x \in K!Family(y) THEN (K!Family(y) \ {x}) \cup {z} ELSE K!Family(y)
      BY <2>1, <2>2 DEF K!Family
    <3>3. K!SameHoldout(y)' = IF x \in K!SameHoldout(y) THEN (K!SameHoldout(y) \ {x}) \cup {z}
                              ELSE K!SameHoldout(y)
      BY <2>1, <2>2 DEF K!SameHoldout
    <3>4. K!Family(y) \subseteq looks /\ K!SameHoldout(y) \subseteq looks
      BY DEF K!Family, K!SameHoldout
    <3>5. Cardinality(K!Family(y)') = Cardinality(K!Family(y))
      BY <2>3, <3>1, <3>2, <3>4, SwapCounts
    <3>6. Cardinality(K!SameHoldout(y)') = Cardinality(K!SameHoldout(y))
      BY <2>3, <3>1, <3>3, <3>4, SwapCounts
    <3> QED BY <3>5, <3>6
  <2>8. ASSUME NEW y PROVE Tries(y)' = Tries(y)
    BY <2>7 DEF Tries
  <2>9. Tries(z) = Tries(x)
    BY <2>2 DEF Tries, K!Family, K!SameHoldout
  <2>10. StillCovers'
    BY <1>0, <2>1, <2>2, <2>4, <2>8, <2>9 DEF StillCovers, K!NoAnswer
  <2> QED BY <2>5, <2>6, <2>10 DEF TrialInv
<1>3. ASSUME NEW x \in looks, K!Forget(x) PROVE TrialInv'
  <2>1. looks' = looks \ {x} /\ gone' = gone + 1 /\ answer' = answer
    BY <1>3 DEF K!Forget
  <2>2. IsFiniteSet(looks') /\ Cardinality(looks') = Cardinality(looks) - 1
    BY <1>t, <2>1, FS_RemoveElement
  <2>3. TrialType'
    BY <1>t, <1>a, <2>1, <2>2 DEF TrialType
  <2>4. Numbered'
    BY <1>0, <1>t, <2>1, <2>2 DEF Numbered
  <2>5. StillCovers'
    BY <1>0, <1>t, <1>a, <2>1, <2>2 DEF StillCovers, K!NoAnswer
  <2> QED BY <2>3, <2>4, <2>5 DEF TrialInv
<1>4. ASSUME NEW x \in looks, NEW claim \in Claims, K!Deflate(x, claim) PROVE TrialInv'
  <2>1. /\ x.run = 1 /\ \A y \in looks : y.run = 1 => y = x
        /\ answer' \in [claim : Nat, trials : Nat, gone : Nat]
        /\ answer'.claim = claim /\ answer'.gone = gone
        /\ answer'.trials = claim \/ answer'.trials \in Tries(x)
        /\ looks' = looks /\ gone' = gone
    BY <1>0, <1>4, Asked DEF TrialInv
  <2>2. TrialType' /\ Numbered'
    BY <1>0, <1>t, <2>1 DEF TrialType, Numbered
  <2>3. Cardinality(looks) + gone >= 1
    BY <1>0, <1>t, <2>1 DEF Numbered
  <2>4. /\ Tries(x)' = Tries(x) /\ \A n \in Tries(x) : n \in Nat
    <3>1. K!Family(x)' = K!Family(x) /\ K!SameHoldout(x)' = K!SameHoldout(x)
      BY <2>1 DEF K!Family, K!SameHoldout
    <3> QED BY <1>0, <3>1, TriesAreFinite DEF Tries
  <2>5. claim \in Nat /\ (answer'.trials <= claim \/ \E n \in Tries(x) : answer'.trials <= n)
    BY <2>1, <2>4 DEF K!TrialsAssumption
  <2>6. StillCovers'
    BY <2>1, <2>3, <2>4, <2>5 DEF StillCovers
  <2> QED BY <2>2, <2>6 DEF TrialInv
<1>5. ASSUME UNCHANGED trials PROVE TrialInv'
  BY <1>0, <1>5 DEF trials, TrialInv, TrialType, Numbered, StillCovers, Tries, K!Family, K!SameHoldout, K!NoAnswer
<1> QED BY <1>1, <1>2, <1>3, <1>4, <1>5 DEF K!Next

(* The number a question is answered with covers every look there is.         *)
LEMMA AnswerCovers ==
    ASSUME K!TrialsAssumption, TrialInv, [K!Next]_trials
    PROVE  \A x \in looks : (x.run = 1 /\ asks' # asks) =>
               /\ answer'.trials >= answer'.claim
               /\ answer'.trials >= K!Cardinality({y \in looks : y.of.name = x.of.name})
               /\ answer'.trials >= K!Cardinality({y \in looks :
                      y.of.kind = "backtest" /\ K!SameData(y.of.holdout, x.of.holdout)})
<1> SUFFICES ASSUME NEW x \in looks, x.run = 1, asks' # asks
             PROVE  /\ answer'.trials >= answer'.claim
                    /\ answer'.trials >= K!Cardinality({y \in looks : y.of.name = x.of.name})
                    /\ answer'.trials >= K!Cardinality({y \in looks :
                           y.of.kind = "backtest" /\ K!SameData(y.of.holdout, x.of.holdout)})
  OBVIOUS
<1>1. PICK z \in looks, claim \in Claims : K!Deflate(z, claim)
  BY DEF K!Next, K!Register, K!Finish, K!Forget, trials
<1>2. z = x
  BY <1>1, Asked
<1>3. /\ answer'.claim = claim /\ answer'.trials >= claim
      /\ answer'.trials >= Cardinality(K!Family(x)) /\ answer'.trials >= Cardinality(K!SameHoldout(x))
  BY <1>1, <1>2, Asked
<1>4. K!Family(x) = {y \in looks : y.of.name = x.of.name}
  BY DEF K!Family
<1>5. K!SameHoldout(x) = {y \in looks : y.of.kind = "backtest" /\ K!SameData(y.of.holdout, x.of.holdout)}
  BY DEF K!SameHoldout, K!Key, K!SameData
<1> QED BY <1>3, <1>4, <1>5, CardinalityK

(* Asking again, nothing deleted and nothing taken back, is answered with as  *)
(* many or more.                                                              *)
LEMMA AnswerNeverFalls ==
    ASSUME K!TrialsAssumption, TrialInv, [K!Next]_trials,
           answer # K!NoAnswer, answer'.gone = answer.gone,
           answer'.claim >= answer.claim \/ answer.trials > answer.claim
    PROVE  answer'.trials >= answer.trials
<1>t. answer.claim \in Nat /\ answer.trials \in Nat /\ gone \in Nat
  BY DEF TrialInv, TrialType
<1>1. CASE answer' = answer
  BY <1>t, <1>1
<1>2. CASE answer' # answer
  <2>1. PICK z \in looks, claim \in Claims : K!Deflate(z, claim)
    BY <1>2 DEF K!Next, K!Register, K!Finish, K!Forget, trials
  <2>2. /\ z.run = 1 /\ answer'.claim = claim /\ answer'.gone = gone
        /\ answer' \in [claim : Nat, trials : Nat, gone : Nat]
        /\ answer'.trials >= claim /\ answer'.trials >= 1
        /\ answer'.trials >= Cardinality(K!Family(z)) /\ answer'.trials >= Cardinality(K!SameHoldout(z))
    BY <2>1, Asked
  <2>3. answer'.trials \in Nat /\ claim \in Nat
    BY <2>2 DEF K!TrialsAssumption
  <2>4. answer.trials <= answer.claim \/ \E n \in Tries(z) : answer.trials <= n
    BY <2>2 DEF TrialInv, StillCovers
  <2>5. \A n \in Tries(z) : n \in Nat /\ answer'.trials >= n
    BY <2>2, TriesAreFinite DEF Tries, TrialInv
  <2> QED BY <1>t, <2>2, <2>3, <2>4, <2>5
<1> QED BY <1>1, <1>2

-----------------------------------------------------------------------------
(* The pulls, the event journal, and the runs before a rerun                  *)

LEMMA FeedSteps == [Next]_all => [Day \/ Feeds]_gov
<1>1. Stores => (Day \/ Feeds) \/ UNCHANGED gov
  BY DEF Stores, feed, gov
<1>2. UNCHANGED feed => UNCHANGED gov
  BY DEF feed
<1> QED BY <1>1, <1>2 DEF Next, all

LEMMA TapeSteps == [Next]_all => [T!Next]_tape
<1>1. Stores => (T!Next \/ UNCHANGED tape)
  BY DEF Stores, journals
<1>2. UNCHANGED journals => UNCHANGED tape
  BY DEF journals
<1> QED BY <1>1, <1>2 DEF Next, all

(* After the quota is gone nothing is left to ask.                            *)
NothingToAsk == "aborted" \in DOMAIN last /\ (last.aborted /\ pull = "running" => todo = <<>>)

LEMMA RetryKeeps == "aborted" \in DOMAIN last /\ G!RetryOrSkip =>
                        "aborted" \in DOMAIN last' /\ last'.aborted = last.aborted
BY DEF G!RetryOrSkip

LEMMA QuotaStep ==
    ASSUME NothingToAsk, [Next]_all
    PROVE  NothingToAsk' /\ (last.aborted /\ pull = "running" => calls' = calls)
<1>0. "aborted" \in DOMAIN last /\ (last.aborted /\ pull = "running" => todo = <<>>)
  BY DEF NothingToAsk
<1>1. ASSUME UNCHANGED <<pull, todo, calls>>, "aborted" \in DOMAIN last', last'.aborted = last.aborted
      PROVE  NothingToAsk' /\ (last.aborted /\ pull = "running" => calls' = calls)
  BY <1>0, <1>1 DEF NothingToAsk
<1>2. ASSUME "aborted" \in DOMAIN last', pull' # "running", pull # "running" \/ ~last.aborted \/ calls' = calls
      PROVE  NothingToAsk' /\ (last.aborted /\ pull = "running" => calls' = calls)
  BY <1>0, <1>2 DEF NothingToAsk
<1>3. CASE G!Pull
  BY <1>3 DEF G!Pull, NothingToAsk
<1>4. CASE G!Requests
  <2>1. pull = "running" /\ todo # <<>> /\ ~last.aborted
    BY <1>0, <1>4 DEF G!Requests, G!Lost, G!Server, G!Again, G!Throttled, G!Refused, G!QuotaGone, G!KeyRefused,
       G!Answered, G!Send
  <2>2. CASE G!Lost \/ G!Again
    BY <1>0, <2>1, <2>2, RetryKeeps DEF G!Lost, G!Again, NothingToAsk
  <2>3. CASE G!Refused
    BY <1>0, <2>1, <2>3 DEF G!Refused, NothingToAsk
  <2>4. CASE G!QuotaGone
    BY <1>0, <2>1, <2>4 DEF G!QuotaGone, NothingToAsk
  <2>5. CASE G!KeyRefused
    BY <1>0, <2>1, <2>5 DEF G!KeyRefused, NothingToAsk
  <2>6. CASE G!Answered
    BY <1>0, <2>1, <2>6 DEF G!Answered, NothingToAsk
  <2> QED BY <1>4, <2>2, <2>3, <2>4, <2>5, <2>6 DEF G!Requests, G!Server, G!Throttled
<1>5. CASE G!Report
  BY <1>0, <1>2, <1>5 DEF G!Report
<1>6. CASE G!Tear
  BY <1>0, <1>2, <1>6 DEF G!Tear
<1>7. CASE CronWrites \/ HandWrites
  BY <1>0, <1>1, <1>2, <1>7 DEF CronWrites, HandWrites
<1>8. CASE G!Fetch
  BY <1>0, <1>1, <1>8 DEF G!Fetch, G!client
<1>9. CASE G!NextDay
  BY <1>0, <1>2, <1>9 DEF G!NextDay
<1>10. CASE UNCHANGED gov
  BY <1>0, <1>1, <1>10 DEF gov
<1>11. Day => G!Pull \/ G!Requests \/ G!Report \/ G!Tear
  BY DEF Day
<1>12. Feeds => G!Pull \/ G!Requests \/ G!Report \/ G!NextDay \/ G!Fetch \/ CronWrites \/ HandWrites
                \/ UNCHANGED gov
  BY DEF Feeds, G!Requests
<1> QED BY <1>3, <1>4, <1>5, <1>6, <1>7, <1>8, <1>9, <1>10, <1>11, <1>12, FeedSteps

(* An event is told at the end of the log, or was there.                      *)
LogType == log \in Seq([id : Int, kind : T!Kinds])

LEMMA LogStep == LogType /\ [T!Next]_tape => LogType' /\ T!IsPrefix(log, log')
<1> SUFFICES ASSUME LogType, [T!Next]_tape PROVE LogType' /\ T!IsPrefix(log, log')
  OBVIOUS
<1>1. CASE log' = log
  BY <1>1 DEF LogType, T!IsPrefix
<1>2. ASSUME NEW id \in Int, NEW kind \in T!Kinds, log' = T!Appended(id, kind), log' # log
      PROVE  LogType' /\ T!IsPrefix(log, log')
  <2> DEFINE e == [id |-> id, kind |-> kind]
  <2>1. log' = Append(log, e) /\ e \in [id : Int, kind : T!Kinds]
    BY <1>2 DEF T!Appended
  <2> HIDE DEF e
  <2>2. LogType' /\ Len(log) \in Nat /\ Len(log') = Len(log) + 1 /\ \A i \in 1..Len(log) : log'[i] = log[i]
    BY <2>1 DEF LogType
  <2>3. SubSeq(log, 1, Len(log)) = SubSeq(log', 1, Len(log))
    BY <2>2 DEF LogType
  <2> QED BY <2>2, <2>3 DEF T!IsPrefix
<1>3. ASSUME T!Tell PROVE LogType' /\ T!IsPrefix(log, log')
  BY <1>1, <1>2, <1>3 DEF T!Tell, T!Kinds, LogType
<1>4. ASSUME NEW written \in BOOLEAN, T!Trip(written) PROVE LogType' /\ T!IsPrefix(log, log')
  BY <1>1, <1>2, <1>4 DEF T!Trip, T!Kinds, LogType
<1>5. ASSUME T!Rearm \/ T!Connect \/ T!Poll \/ T!Receive \/ T!Drop \/ T!SeedRows \/ T!SeedHead \/ UNCHANGED tape
      PROVE  log' = log
  BY <1>5 DEF T!Rearm, T!Connect, T!Poll, T!Receive, T!Drop, T!SeedRows, T!SeedHead, tape
<1> QED BY <1>1, <1>3, <1>4, <1>5 DEF T!Next

LEMMA OldRunsStayAsTheyWere ==
    ASSUME A!RerunAssumption, SweepInv, [A!Next]_again
    PROVE  \A x \in DOMAIN shelf : x \in DOMAIN shelf' => shelf'[x] = shelf[x]
<1>1. ASSUME NEW r, shelf' = A!NewRun(r), made' = made + 1
      PROVE  \A x \in DOMAIN shelf : shelf'[x] = shelf[x]
  BY <1>1, NewRunAdds DEF SweepInv
<1>2. CASE A!StartRun \/ \E r : A!RerunOne(r)
  BY <1>1, <1>2 DEF A!StartRun, A!RerunOne
<1>3. CASE \E r : A!Delete(r)
  BY <1>3 DEF A!Delete
<1>4. CASE UNCHANGED shelf
  BY <1>4
<1> QED BY <1>2, <1>3, <1>4 DEF A!Next, A!Write, A!Unlink, A!SweepStale, A!SkipRun, A!RunEnds, A!RunFails, again

RecordInv == RegistryInv /\ TrialInv /\ NothingToAsk /\ LogType

(* Nothing written down is taken back: once the quota is spent the pull sends *)
(* nothing more, the log of events only grows, a rerun leaves the runs before *)
(* it as they were, and the number of trials a result is charged with covers  *)
(* every look at its data and never falls while no row is deleted.            *)
THEOREM RecordsOnlyEverGrow == Spec => RecordsOnlyGrow
<1>1. Init => RecordInv
  <2>1. Init => RegistryInv
    BY StoresAssumption, CodeInit, CountInit, SweepInit, FindingInit DEF Init, StoresAssumption, RegistryInv
  <2>2. Init => TrialInv
    BY TrialInit DEF Init
  <2>3. Init => NothingToAsk /\ LogType
    BY DEF Init, G!Init, T!Init, NothingToAsk, LogType
  <2> QED BY <2>1, <2>2, <2>3 DEF RecordInv
<1>2. RecordInv /\ [Next]_all => RecordInv'
  <2>1. RegistryInv /\ [Next]_all => RegistryInv'
    BY StoresAssumption, RegistrySteps, AgainSteps, FindingSteps, CodeStep, CountStep, SweepStep, FindingStep
       DEF StoresAssumption, RegistryInv
  <2>2. TrialInv /\ [Next]_all => TrialInv'
    BY StoresAssumption, TrialSteps, TrialStep DEF StoresAssumption
  <2>3. NothingToAsk /\ [Next]_all => NothingToAsk'
    BY QuotaStep
  <2>4. LogType /\ [Next]_all => LogType'
    BY TapeSteps, LogStep
  <2> QED BY <2>1, <2>2, <2>3, <2>4 DEF RecordInv
<1>3. RecordInv /\ [Next]_all => [last.aborted /\ pull = "running" => calls' = calls]_G!gov
  BY QuotaStep DEF RecordInv
<1>4. RecordInv /\ [Next]_all => [T!IsPrefix(log, log')]_log
  BY TapeSteps, LogStep DEF RecordInv
<1>5. RecordInv /\ [Next]_all =>
        [\A r \in DOMAIN shelf : r \in DOMAIN shelf' => shelf'[r] = shelf[r]]_<<shelf, code, writes, A!sweeping, made>>
  BY StoresAssumption, AgainSteps, OldRunsStayAsTheyWere DEF RecordInv, RegistryInv, StoresAssumption
<1>6. RecordInv /\ [Next]_all =>
        [\A x \in looks : (x.run = 1 /\ asks' # asks) =>
            /\ answer'.trials >= answer'.claim
            /\ answer'.trials >= K!Cardinality({y \in looks : y.of.name = x.of.name})
            /\ answer'.trials >= K!Cardinality({y \in looks :
                   y.of.kind = "backtest" /\ K!SameData(y.of.holdout, x.of.holdout)})]_<<looks, gone, asks, answer>>
  BY StoresAssumption, TrialSteps, AnswerCovers DEF RecordInv, StoresAssumption
<1>7. RecordInv /\ [Next]_all =>
        [(answer # K!NoAnswer /\ answer'.gone = answer.gone
          /\ (answer'.claim >= answer.claim \/ answer.trials > answer.claim))
            => answer'.trials >= answer.trials]_<<looks, gone, asks, answer>>
  BY StoresAssumption, TrialSteps, AnswerNeverFalls DEF RecordInv, StoresAssumption
<1> QED BY <1>1, <1>2, <1>3, <1>4, <1>5, <1>6, <1>7, PTL
        DEF Spec, all, RecordsOnlyGrow, G!QuotaEndsThePull, T!LogOnlyGrows, A!OldRunsStay,
            K!TrialsCoverLooks, K!TrialsNeverFall

-----------------------------------------------------------------------------
(* The calendar *)

LEMMA YearLength ==
    ASSUME NEW y \in Nat \ {0}
    PROVE  /\ Cal!BeforeYear(y) \in Nat
           /\ Cal!BeforeYear(y + 1) = Cal!BeforeYear(y) + 365 + (IF Cal!Leap(y) THEN 1 ELSE 0)
BY DEF Cal!BeforeYear, Cal!Leap

LEMMA YearsAscend ==
    ASSUME NEW y \in Nat \ {0}, NEW z \in Nat \ {0}, y < z
    PROVE  Cal!BeforeYear(y + 1) <= Cal!BeforeYear(z)
BY DEF Cal!BeforeYear

LEMMA YearsLinear ==
    ASSUME NEW y \in Nat \ {0}
    PROVE  365 * (y - 1) <= Cal!BeforeYear(y) /\ Cal!BeforeYear(y) <= 366 * (y - 1)
BY DEF Cal!BeforeYear

LEMMA LeastOf ==
    ASSUME NEW Cand, Cand \subseteq Nat, Cand # {}
    PROVE  \E x \in Cand : \A y \in Cand : x <= y
<1>1. PICK x \in Cand : \A y \in Cand : ~ (<<y, x>> \in OpToRel(<, Nat))
  BY NatLessThanWellFounded, WFMin
<1>2. \A y \in Cand : ~(y < x)
  BY <1>1 DEF OpToRel
<1> QED BY <1>2

(* Every day is in a year.                                                    *)
LEMMA DayHasYear ==
    ASSUME NEW d \in Nat \ {0}
    PROVE  /\ Cal!Year(d) \in Nat \ {0}
           /\ Cal!BeforeYear(Cal!Year(d)) < d /\ d <= Cal!BeforeYear(Cal!Year(d) + 1)
<1> DEFINE Cand == {y \in Nat \ {0} : d <= Cal!BeforeYear(y + 1)}
           I == (d \div 366)..(d \div 365 + 1)
<1>1. d \in Cand
  <2>1. d + 1 \in Nat \ {0}
    OBVIOUS
  <2>2. 365 * ((d + 1) - 1) <= Cal!BeforeYear(d + 1) /\ Cal!BeforeYear(d + 1) \in Nat
    <3> HIDE DEF Cand, I
    <3> QED BY <2>1, YearsLinear, YearLength, Zenon
  <2> QED BY <2>2
<1>2. PICK y \in Cand : \A z \in Cand : y <= z
  BY <1>1, LeastOf
<1>3. Cal!BeforeYear(y) < d
  <2>1. CASE y = 1
    <3>1. Cal!BeforeYear(1) = 0
      BY DEF Cal!BeforeYear
    <3> QED BY <2>1, <3>1
  <2>2. CASE y # 1
    <3>1. y - 1 \in Nat \ {0} /\ y - 1 \notin Cand
      BY <1>2, <2>2
    <3>2. Cal!BeforeYear(y) \in Nat
      BY <1>2, YearLength
    <3> QED BY <3>1, <3>2
  <2> QED BY <2>1, <2>2
<1>4. y \in I
  <2>0. y \in Nat \ {0} /\ y + 1 \in Nat \ {0}
    BY <1>2
  <2>1. /\ 365 * (y - 1) <= Cal!BeforeYear(y) /\ Cal!BeforeYear(y + 1) <= 366 * ((y + 1) - 1)
        /\ Cal!BeforeYear(y) \in Nat /\ Cal!BeforeYear(y + 1) \in Nat
    <3> HIDE DEF Cand, I
    <3>1. 365 * (y - 1) <= Cal!BeforeYear(y) /\ Cal!BeforeYear(y) \in Nat
      BY <2>0, YearsLinear, YearLength, Zenon
    <3>2. Cal!BeforeYear(y + 1) <= 366 * ((y + 1) - 1) /\ Cal!BeforeYear(y + 1) \in Nat
      BY <2>0, YearsLinear, YearLength, Zenon
    <3> QED BY <3>1, <3>2
  <2>2. 365 * (y - 1) < d /\ d <= 366 * y
    BY <1>2, <1>3, <2>1
  <2> QED BY <2>2
<1>5. Cal!Year(d) \in I /\ Cal!BeforeYear(Cal!Year(d)) < d /\ d <= Cal!BeforeYear(Cal!Year(d) + 1)
  <2> DEFINE Fits(z) == Cal!BeforeYear(z) < d /\ d <= Cal!BeforeYear(z + 1)
  <2>1. \E z \in I : Fits(z)
    BY <1>2, <1>3, <1>4
  <2>2. Cal!Year(d) = CHOOSE z \in I : Fits(z)
    BY DEF Cal!Year
  <2> HIDE DEF Fits, I
  <2>3. Cal!Year(d) \in I /\ Fits(Cal!Year(d))
    BY <2>1, <2>2
  <2> QED BY <2>3 DEF Fits
<1>6. Cal!Year(d) # 0
  <2>1. Cal!BeforeYear(1) = 0
    BY DEF Cal!BeforeYear
  <2> QED BY <1>5, <2>1
<1> QED BY <1>5, <1>6

LEMMA YearIsOnly ==
    ASSUME NEW d \in Nat \ {0}, NEW y \in Nat \ {0}, Cal!BeforeYear(y) < d, d <= Cal!BeforeYear(y + 1)
    PROVE  Cal!Year(d) = y
<1>1. /\ Cal!Year(d) \in Nat \ {0} 
      /\ Cal!BeforeYear(Cal!Year(d)) < d /\ d <= Cal!BeforeYear(Cal!Year(d) + 1)
  BY DayHasYear
<1>2. /\ Cal!BeforeYear(Cal!Year(d)) \in Nat /\ Cal!BeforeYear(Cal!Year(d) + 1) \in Nat
      /\ Cal!BeforeYear(y) \in Nat /\ Cal!BeforeYear(y + 1) \in Nat
  BY <1>1, YearLength
<1>3. /\ Cal!Year(d) < y => Cal!BeforeYear(Cal!Year(d) + 1) <= Cal!BeforeYear(y)
      /\ y < Cal!Year(d) => Cal!BeforeYear(y + 1) <= Cal!BeforeYear(Cal!Year(d))
  BY <1>1, YearsAscend
<1> QED BY <1>1, <1>2, <1>3

(* The day of the year of each holiday, in order.                             *)
LEMMA EasterInSpring ==
    ASSUME NEW y \in Nat \ {0}
    PROVE  Cal!Easter(y) \in Cal!BeforeYear(y) + 74 .. Cal!BeforeYear(y) + 120
<1> DEFINE a == y % 19
           b == y \div 100
           c == y % 100
           g == (b - (b + 8) \div 25 + 1) \div 3
           h == (19 * a + b - (b \div 4) - g + 15) % 30
           l == (32 + 2 * (b % 4) + 2 * (c \div 4) - h - (c % 4)) % 7
           m == (a + 11 * h + 22 * l) \div 451
           sum == h + l - 7 * m + 114
<1>1. a \in 0..18 /\ h \in 0..29 /\ l \in 0..6 /\ Cal!BeforeYear(y) \in Nat
  BY YearLength
<1>2. Cal!Easter(y) = Cal!Date(y, sum \div 31, (sum % 31) + 1)
  BY DEF Cal!Easter
<1> HIDE DEF a, h, l
<1>3. m \in 0..1
  BY <1>1
<1>4. sum \in 107..149
  BY <1>1, <1>3
<1> HIDE DEF sum
<1>5. \/ sum \div 31 = 3 /\ (sum % 31) + 1 \in 15..31
      \/ sum \div 31 = 4 /\ (sum % 31) + 1 \in 1..26
  BY <1>4
<1> DEFINE day == (sum % 31) + 1
<1>6. CASE sum \div 31 = 3 /\ day \in 15..31
  BY <1>1, <1>2, <1>6 DEF Cal!Date, Cal!BeforeMonth
<1>7. CASE sum \div 31 = 4 /\ day \in 1..26
  BY <1>1, <1>2, <1>7 DEF Cal!Date, Cal!BeforeMonth
<1> QED BY <1>5, <1>6, <1>7

LEMMA NthInWeek ==
    ASSUME NEW y \in Nat \ {0}, NEW m \in 1..12, NEW weekday \in 0..6, NEW k \in 1..4
    PROVE  Cal!NthWeekday(y, m, weekday, k) \in Cal!Date(y, m, 1) + 7 * (k - 1) .. Cal!Date(y, m, 1) + 7 * (k - 1) + 6
<1>1. Cal!Date(y, m, 1) \in Int
  BY YearLength DEF Cal!Date, Cal!BeforeMonth
<1> DEFINE f == Cal!Date(y, m, 1)
<1>2. Cal!Weekday(f) \in Int
  BY <1>1 DEF Cal!Weekday
<1>3. (weekday - Cal!Weekday(f)) % 7 \in 0..6
  BY <1>2
<1>4. Cal!NthWeekday(y, m, weekday, k) = f + ((weekday - Cal!Weekday(f)) % 7) + 7 * (k - 1)
  BY DEF Cal!NthWeekday
<1> HIDE DEF f
<1>5. Cal!NthWeekday(y, m, weekday, k) \in f + 7 * (k - 1) .. f + 7 * (k - 1) + 6
  BY <1>1, <1>3, <1>4 DEF f
<1> QED BY <1>5 DEF f

LEMMA HolidaysOfYear ==
    ASSUME NEW y \in Nat \ {0}, NEW h \in Cal!MarketHolidays(y)
    PROVE  LET b == Cal!BeforeYear(y) IN
           \/ h = Cal!Observed(Cal!Date(y, 1, 1)) /\ h \in b .. b + 2
           \/ h = Cal!NthWeekday(y, 1, 0, 3) /\ h \in b + 15 .. b + 21
           \/ h = Cal!NthWeekday(y, 2, 0, 3) /\ h \in b + 46 .. b + 52
           \/ h = Cal!Easter(y) - 2 /\ h \in b + 72 .. b + 118
           \/ h = Cal!LastWeekday(y, 5, 0) /\ h \in b + 145 .. b + 152
           \/ h = Cal!Observed(Cal!Date(y, 6, 19)) /\ h \in b + 169 .. b + 172
           \/ h = Cal!Observed(Cal!Date(y, 7, 4)) /\ h \in b + 184 .. b + 187
           \/ h = Cal!NthWeekday(y, 9, 0, 1) /\ h \in b + 244 .. b + 251
           \/ h = Cal!NthWeekday(y, 11, 3, 4) /\ h \in b + 326 .. b + 333
           \/ h = Cal!Observed(Cal!Date(y, 12, 25)) /\ h \in b + 358 .. b + 361
<1> DEFINE b == Cal!BeforeYear(y)
           x == IF Cal!Leap(y) THEN 1 ELSE 0
<1>1. b \in Nat /\ x \in 0..1
  BY YearLength
<1>2. /\ Cal!Date(y, 1, 1) = b + 1 /\ Cal!Date(y, 2, 1) = b + 32
      /\ Cal!Date(y, 5, 31) = b + x + 151 /\ Cal!Date(y, 6, 19) = b + x + 170 /\ Cal!Date(y, 7, 4) = b + x + 185
      /\ Cal!Date(y, 9, 1) = b + x + 244 /\ Cal!Date(y, 11, 1) = b + x + 305 /\ Cal!Date(y, 12, 25) = b + x + 359
  BY <1>1 DEF Cal!Date, Cal!BeforeMonth
<1>3. Cal!Easter(y) \in b + 74 .. b + 120
  BY EasterInSpring
<1>4. Cal!LastWeekday(y, 5, 0) \in Cal!Date(y, 5, 31) - 6 .. Cal!Date(y, 5, 31)
  <2> DEFINE e == Cal!Date(y, 5, 31)
  <2>1. Cal!Lengths(y)[5] = 31
    BY DEF Cal!Lengths
  <2>2. Cal!LastWeekday(y, 5, 0) = e - ((Cal!Weekday(e) - 0) % 7)
    BY <2>1, Zenon DEF Cal!LastWeekday
  <2>3. e \in Int
    BY <1>1, <1>2
  <2> HIDE DEF e
  <2>4. Cal!Weekday(e) \in Int
    BY <2>3 DEF Cal!Weekday
  <2>5. Cal!LastWeekday(y, 5, 0) \in e - 6 .. e
    BY <2>2, <2>3, <2>4
  <2> QED BY <2>5 DEF e
<1> HIDE DEF b, x
<1>5. /\ Cal!NthWeekday(y, 1, 0, 3) \in b + 15 .. b + 21 /\ Cal!NthWeekday(y, 2, 0, 3) \in b + 46 .. b + 52
      /\ Cal!NthWeekday(y, 9, 0, 1) \in b + x + 244 .. b + x + 250
      /\ Cal!NthWeekday(y, 11, 3, 4) \in b + x + 326 .. b + x + 332
  <2>1. /\ Cal!NthWeekday(y, 1, 0, 3) \in Cal!Date(y, 1, 1) + 7 * (3 - 1) .. Cal!Date(y, 1, 1) + 7 * (3 - 1) + 6
        /\ Cal!NthWeekday(y, 2, 0, 3) \in Cal!Date(y, 2, 1) + 7 * (3 - 1) .. Cal!Date(y, 2, 1) + 7 * (3 - 1) + 6
        /\ Cal!NthWeekday(y, 9, 0, 1) \in Cal!Date(y, 9, 1) + 7 * (1 - 1) .. Cal!Date(y, 9, 1) + 7 * (1 - 1) + 6
        /\ Cal!NthWeekday(y, 11, 3, 4) \in Cal!Date(y, 11, 1) + 7 * (4 - 1) .. Cal!Date(y, 11, 1) + 7 * (4 - 1) + 6
    <3>1. /\ 1 \in 1..12 /\ 2 \in 1..12 /\ 9 \in 1..12 /\ 11 \in 1..12 /\ 0 \in 0..6 /\ 3 \in 0..6
          /\ 1 \in 1..4 /\ 3 \in 1..4 /\ 4 \in 1..4
      OBVIOUS
    <3> QED BY <3>1, NthInWeek, Zenon
  <2> QED BY <1>1, <1>2, <2>1
<1>6. /\ Cal!Observed(b + 1) \in b .. b + 2 /\ Cal!Observed(b + x + 170) \in b + x + 169 .. b + x + 171
      /\ Cal!Observed(b + x + 185) \in b + x + 184 .. b + x + 186
      /\ Cal!Observed(b + x + 359) \in b + x + 358 .. b + x + 360
  BY <1>1 DEF Cal!Weekday, Cal!Observed
<1>7. Cal!LastWeekday(y, 5, 0) \in b + x + 145 .. b + x + 151
  BY <1>1, <1>2, <1>4
<1>8. \/ h = Cal!Observed(Cal!Date(y, 1, 1)) \/ h = Cal!NthWeekday(y, 1, 0, 3) \/ h = Cal!NthWeekday(y, 2, 0, 3)
      \/ h = Cal!Easter(y) - 2 \/ h = Cal!LastWeekday(y, 5, 0) \/ h = Cal!Observed(Cal!Date(y, 6, 19))
      \/ h = Cal!Observed(Cal!Date(y, 7, 4)) \/ h = Cal!NthWeekday(y, 9, 0, 1)
      \/ h = Cal!NthWeekday(y, 11, 3, 4) \/ h = Cal!Observed(Cal!Date(y, 12, 25))
  <2>1. \/ h \in {Cal!Observed(Cal!Date(y, 1, 1)), Cal!Observed(Cal!Date(y, 7, 4)), Cal!Observed(Cal!Date(y, 12, 25))}
        \/ h \in IF y < 2022 THEN {} ELSE {Cal!Observed(Cal!Date(y, 6, 19))}
        \/ h \in {Cal!NthWeekday(y, 1, 0, 3), Cal!NthWeekday(y, 2, 0, 3), Cal!Easter(y) - 2,
                 Cal!LastWeekday(y, 5, 0), Cal!NthWeekday(y, 9, 0, 1), Cal!NthWeekday(y, 11, 3, 4)}
    BY DEF Cal!MarketHolidays
  <2> QED BY <2>1
<1> HIDE DEF b
<1> QED BY <1>1, <1>2, <1>3, <1>5, <1>6, <1>7, <1>8 DEF b

LEMMA HolidaysApart ==
    ASSUME NEW y \in Nat \ {0}, NEW g \in Cal!MarketHolidays(y), NEW h \in Cal!MarketHolidays(y)
    PROVE  /\ g \in Int /\ h \in Int /\ h # g + 1 
           /\ h <= Cal!BeforeYear(y) + 361
<1>1. Cal!BeforeYear(y) \in Nat
  BY YearLength
<1> QED BY <1>1, HolidaysOfYear

(* Of two weekdays in a row at least one is a session.                        *)
LEMMA SessionOfTwo ==
    ASSUME NEW d \in Nat \ {0}, Cal!Weekday(d) < 4
    PROVE  Cal!IsTradingDay(d) \/ Cal!IsTradingDay(d + 1)
<1> DEFINE y == Cal!Year(d)
<1>1. y \in Nat \ {0} /\ Cal!BeforeYear(y) < d /\ d <= Cal!BeforeYear(y + 1)
  BY DayHasYear
<1>2. /\ Cal!BeforeYear(y) \in Nat /\ Cal!BeforeYear(y + 1) \in Nat /\ Cal!BeforeYear(y) + 365 <= Cal!BeforeYear(y + 1)
      /\ Cal!BeforeYear(y + 1) < Cal!BeforeYear(y + 1 + 1) /\ Cal!BeforeYear(y + 1 + 1) \in Nat
  <2>1. y + 1 \in Nat \ {0} /\ y + 1 + 1 \in Nat \ {0}
    BY <1>1
  <2> HIDE DEF y
  <2>2. /\ Cal!BeforeYear(y + 1) = Cal!BeforeYear(y) + 365 + (IF Cal!Leap(y) THEN 1 ELSE 0)
        /\ Cal!BeforeYear(y) \in Nat
    BY <1>1, YearLength
  <2> DEFINE z == y + 1
  <2>3. /\ Cal!BeforeYear(z + 1) = Cal!BeforeYear(z) + 365 + (IF Cal!Leap(z) THEN 1 ELSE 0)
        /\ Cal!BeforeYear(z) \in Nat /\ Cal!BeforeYear(z + 1) \in Nat
    BY <2>1, YearLength
  <2> QED BY <2>2, <2>3
<1>3. Cal!Weekday(d) \in 0..3 /\ Cal!Weekday(d + 1) \in 1..4
  BY DEF Cal!Weekday
<1> HIDE DEF y
<1>4. CASE d < Cal!BeforeYear(y + 1)
  <2>1. Cal!Year(d + 1) = y
    BY <1>1, <1>2, <1>4, YearIsOnly
  <2>2. d \notin Cal!MarketHolidays(y) \/ d + 1 \notin Cal!MarketHolidays(y)
    BY <1>1, HolidaysApart
  <2> QED BY <1>3, <2>1, <2>2 DEF Cal!IsTradingDay, y
<1>5. CASE d = Cal!BeforeYear(y + 1)
  <2>1. d \notin Cal!MarketHolidays(y)
    BY <1>1, <1>2, <1>5, HolidaysApart
  <2> QED BY <1>3, <2>1 DEF Cal!IsTradingDay, y
<1> QED BY <1>1, <1>2, <1>4, <1>5

(* The next session is a session, at most a week away, and none is before it. *)
LEMMA NextSession ==
    ASSUME NEW d \in Nat
    PROVE  /\ Cal!NextTradingDay(d) \in d + 1 .. d + 7
           /\ Cal!IsTradingDay(Cal!NextTradingDay(d))
           /\ \A e \in d + 1 .. Cal!NextTradingDay(d) - 1 : ~Cal!IsTradingDay(e)
<1> DEFINE Cand == {e \in d + 1 .. d + 7 : Cal!IsTradingDay(e)}
           Fits(e) == Cal!IsTradingDay(e) /\ \A f \in d + 1 .. e - 1 : ~Cal!IsTradingDay(f)
<1>1. Cand # {}
  <2>1. \E e \in d + 1 .. d + 6 : Cal!Weekday(e) < 4
    <3>1. \/ Cal!Weekday(d + 1) < 4 \/ Cal!Weekday(d + 2) < 4 \/ Cal!Weekday(d + 3) < 4 \/ Cal!Weekday(d + 4) < 4
      BY DEF Cal!Weekday
    <3> QED BY <3>1
  <2>2. PICK e \in d + 1 .. d + 6 : Cal!Weekday(e) < 4
    BY <2>1
  <2>3. e \in Nat \ {0}
    OBVIOUS
  <2>4. Cal!IsTradingDay(e) \/ Cal!IsTradingDay(e + 1)
    BY <2>2, <2>3, SessionOfTwo
  <2> QED BY <2>4
<1>2. PICK e \in Cand : \A f \in Cand : e <= f
  <2>1. Cand \subseteq Nat
    OBVIOUS
  <2> QED BY <1>1, <2>1, LeastOf
<1>3. Fits(e)
  BY <1>2
<1>4. Cal!NextTradingDay(d) = CHOOSE z \in d + 1 .. d + 7 : Fits(z)
  BY DEF Cal!NextTradingDay
<1>5. e \in d + 1 .. d + 7
  OBVIOUS
<1> HIDE DEF Fits
<1>6. Cal!NextTradingDay(d) \in d + 1 .. d + 7 /\ Fits(Cal!NextTradingDay(d))
  BY <1>3, <1>4, <1>5
<1> QED BY <1>6 DEF Fits

(* The lunar correction, counted in threes of 25 and in eights of 25.         *)
LEMMA LunarCorrection ==
    ASSUME NEW b \in Nat
    PROVE  (b - (b + 8) \div 25 + 1) \div 3 = (8 * (b + 1) + 5) \div 25
<1>1. PICK q \in Nat, r \in 0..24 : b + 8 = 25 * q + r
  <2>1. (b + 8) \div 25 \in Nat /\ (b + 8) % 25 \in 0..24 /\ b + 8 = 25 * ((b + 8) \div 25) + ((b + 8) % 25)
    OBVIOUS
  <2> QED BY <2>1
<1>2. (b + 8) \div 25 = q
  BY <1>1
<1>3. b - q + 1 = 3 * (8 * q) + (r - 7) /\ 8 * (b + 1) + 5 = 25 * (8 * q) + (8 * r - 51)
  BY <1>1
<1>4. (b - q + 1) \div 3 = 8 * q + (r - 7) \div 3
  BY <1>3
<1>5. (8 * (b + 1) + 5) \div 25 = 8 * q + (8 * r - 51) \div 25
  BY <1>3
<1>6. (r - 7) \div 3 = (8 * r - 51) \div 25
  OBVIOUS
<1> QED BY <1>2, <1>4, <1>5, <1>6

LEMMA SolarCorrection ==
    ASSUME NEW b \in Nat
    PROVE  b - b \div 4 = (3 * (b + 1)) \div 4
OBVIOUS

LEMMA EpactOfMoon ==
    ASSUME NEW a \in 0..18, NEW k \in Int
    PROVE  LET h == (19 * a + k + 15) % 30
               age == (11 * a + 38 - k) % 30
           IN  h \in 0..29 /\ age = IF h <= 23 THEN 23 - h ELSE 53 - h
<1> DEFINE u == 19 * a + k + 15
           h == u % 30
           q == u \div 30
<1>1. u \in Int /\ h \in 0..29 /\ q \in Int /\ u = 30 * q + h
  OBVIOUS
<1>2. 11 * a + 38 - k = 30 * (a - q) + (53 - h)
  BY <1>1
<1> HIDE DEF h, q
<1>3. (30 * (a - q) + (53 - h)) % 30 = IF h <= 23 THEN 23 - h ELSE 53 - h
  BY <1>1
<1> QED BY <1>1, <1>2, <1>3 DEF h

(* The weekday of the moon, by the century and by the year alone.             *)
LEMMA SundayOfMoon ==
    ASSUME NEW y \in Nat, NEW h \in 0..29
    PROVE  LET b == y \div 100
               c == y % 100
               l == (32 + 2 * (b % 4) + 2 * (c \div 4) - h - (c % 4)) % 7
               sundays == (5 * y) \div 4 - ((3 * (b + 1)) \div 4 - 12) - 10
           IN  l \in 0..6 /\ (sundays + h) % 7 = 6 - l
<1> DEFINE b == y \div 100
           c == y % 100
           B == b \div 4
           e == b % 4
           i == c \div 4
           k == c % 4
           l == (32 + 2 * e + 2 * i - h - k) % 7
           sundays == (5 * y) \div 4 - ((3 * (b + 1)) \div 4 - 12) - 10
<1>1. /\ b \in Nat /\ c \in 0..99 /\ y = 100 * b + c
      /\ B \in Nat /\ e \in 0..3 /\ b = 4 * B + e
      /\ i \in 0..24 /\ k \in 0..3 /\ c = 4 * i + k
  OBVIOUS
<1> HIDE DEF b, c, B, e, i, k
<1>2. (5 * y) \div 4 = 125 * b + 5 * i + k
  BY <1>1
<1>3. (3 * (b + 1)) \div 4 = 3 * B + e
  BY <1>1
<1>4. sundays = 497 * B + 124 * e + 5 * i + k + 2
  BY <1>1, <1>2, <1>3
<1>5. l \in 0..6
  BY <1>1
<1> DEFINE n == 32 + 2 * e + 2 * i - h - k
<1>6. PICK q \in Int : n = 7 * q + l
  <2>1. n \in Int /\ l = n % 7
    BY <1>1
  <2> HIDE DEF n, l
  <2>2. n \div 7 \in Int /\ n = 7 * (n \div 7) + l
    BY <2>1
  <2> QED BY <2>2
<1>7. sundays + h = 7 * (71 * B + 18 * e + i - q + 4) + (6 - l)
  BY <1>1, <1>4, <1>6
<1> HIDE DEF l, sundays
<1>8. (sundays + h) % 7 = 6 - l
  <2> DEFINE z == 71 * B + 18 * e + i - q + 4
  <2>1. z \in Int /\ sundays + h = 7 * z + (6 - l)
    BY <1>1, <1>7
  <2> HIDE DEF z
  <2> QED BY <1>5, <2>1
<1> QED BY <1>5, <1>8 DEF l, sundays, b, c, e, i, k

LEMMA EasterByTheMoon ==
    ASSUME NEW y \in Nat \ {0}
    PROVE  LET golden == (y % 19) + 1
               century == y \div 100 + 1
               sundays == (5 * y) \div 4 - ((3 * century) \div 4 - 12) - 10
               age == (11 * golden + 20 + ((8 * century + 5) \div 25 - 5) - ((3 * century) \div 4 - 12)) % 30
               epact == IF age = 24 \/ (age = 25 /\ golden > 11) THEN age + 1 ELSE age
               moon == IF 44 - epact < 21 THEN 74 - epact ELSE 44 - epact
           IN  Cal!Easter(y) = Cal!Date(y, 3, 1) + moon + 6 - ((sundays + moon) % 7)
<1> DEFINE a == y % 19
           b == y \div 100
           c == y % 100
           g == (b - (b + 8) \div 25 + 1) \div 3
           s == (3 * (b + 1)) \div 4
           h == (19 * a + b - (b \div 4) - g + 15) % 30
           l == (32 + 2 * (b % 4) + 2 * (c \div 4) - h - (c % 4)) % 7
           m == (a + 11 * h + 22 * l) \div 451
           sum == h + l - 7 * m + 114
           sundays == (5 * y) \div 4 - (s - 12) - 10
           age == (11 * (a + 1) + 20 + ((8 * (b + 1) + 5) \div 25 - 5) - (s - 12)) % 30
           epact == IF age = 24 \/ (age = 25 /\ a + 1 > 11) THEN age + 1 ELSE age
           moon == IF 44 - epact < 21 THEN 74 - epact ELSE 44 - epact
<1>1. a \in 0..18 /\ b \in Nat /\ g \in Int /\ s \in Nat
  OBVIOUS
<1>2. g = (8 * (b + 1) + 5) \div 25 /\ b - b \div 4 = s
  <2>1. b \in Nat
    OBVIOUS
  <2> HIDE DEF b
  <2> QED BY <2>1, LunarCorrection, SolarCorrection
<1>3. h = (19 * a + (s - g) + 15) % 30 /\ age = (11 * a + 38 - (s - g)) % 30
  <2> HIDE DEF a, b, g, s
  <2>1. 19 * a + b - (b \div 4) - g + 15 = 19 * a + (s - g) + 15
    BY <1>1, <1>2
  <2>2. 11 * (a + 1) + 20 + (g - 5) - (s - 12) = 11 * a + 38 - (s - g)
    BY <1>1
  <2> QED BY <1>2, <2>1, <2>2
<1>4. h \in 0..29 /\ age = IF h <= 23 THEN 23 - h ELSE 53 - h
  <2>1. s - g \in Int
    BY <1>1
  <2> HIDE DEF a, h, age, g, s
  <2> QED BY <1>1, <1>3, <2>1, EpactOfMoon
<1>5. l \in 0..6 /\ (sundays + h) % 7 = 6 - l
  <2>1. y \in Nat
    OBVIOUS
  <2> HIDE DEF h
  <2> QED BY <1>4, <2>1, SundayOfMoon
<1>6. sundays \in Int
  BY <1>1
<1>7. Cal!Easter(y) = Cal!Date(y, sum \div 31, (sum % 31) + 1)
  BY DEF Cal!Easter
<1> HIDE DEF a, b, c, g, s, h, l, sundays, age
<1>8. m = IF l = 6 /\ (h = 29 \/ (h = 28 /\ a >= 11)) THEN 1 ELSE 0
  BY <1>1, <1>4, <1>5
<1>9. moon = IF h = 29 \/ (h = 28 /\ a >= 11) THEN 20 + h ELSE 21 + h
  BY <1>1, <1>4
<1>10. moon + 6 - ((sundays + moon) % 7) = 21 + h + l - 7 * m
  <2> HIDE DEF m, moon
  <2>1. PICK q \in Int : sundays + h = 7 * q + (6 - l)
    <3> DEFINE u == sundays + h
    <3>1. u \in Int /\ u % 7 = 6 - l
      BY <1>4, <1>5, <1>6
    <3> HIDE DEF u
    <3>2. u \div 7 \in Int /\ u = 7 * (u \div 7) + (6 - l)
      BY <3>1
    <3> QED BY <3>2 DEF u
  <2>2. CASE h = 29 \/ (h = 28 /\ a >= 11)
    <3>1. sundays + moon = 7 * q + (26 - l) /\ moon = 20 + h
      BY <1>1, <1>4, <1>5, <1>6, <1>9, <2>1, <2>2
    <3>2. (7 * q + (26 - l)) % 7 = IF l = 6 THEN 6 ELSE 5 - l
      BY <1>5
    <3> QED BY <1>4, <1>5, <1>8, <2>2, <3>1, <3>2
  <2>3. CASE ~(h = 29 \/ (h = 28 /\ a >= 11))
    <3>1. sundays + moon = 7 * q + (27 - l) /\ moon = 21 + h
      BY <1>1, <1>4, <1>5, <1>6, <1>9, <2>1, <2>3
    <3>2. (7 * q + (27 - l)) % 7 = 6 - l
      BY <1>5
    <3> QED BY <1>4, <1>5, <1>8, <2>3, <3>1, <3>2
  <2> QED BY <2>2, <2>3
<1>11. sum \in 107..149 /\ sum - 93 = 21 + h + l - 7 * m
  <2> HIDE DEF m
  <2> QED BY <1>4, <1>5, <1>8
<1>12. Cal!Date(y, 3, 1) = Cal!BeforeYear(y) + Cal!BeforeMonth(y, 3) + 1
  BY DEF Cal!Date
<1>13. Cal!Easter(y) = Cal!Date(y, 3, 1) + (sum - 93)
  <2> HIDE DEF sum
  <2>1. Cal!BeforeYear(y) \in Nat
    BY YearLength
  <2>2. CASE sum < 124
    <3>1. sum \div 31 = 3 /\ sum % 31 = sum - 93
      BY <1>11, <2>2
    <3> QED BY <1>7, <1>11, <2>1, <3>1 DEF Cal!Date, Cal!BeforeMonth
  <2>3. CASE sum >= 124
    <3>1. sum \div 31 = 4 /\ sum % 31 = sum - 124
      BY <1>11, <2>3
    <3> QED BY <1>7, <1>11, <2>1, <3>1 DEF Cal!Date, Cal!BeforeMonth
  <2> QED BY <1>11, <2>2, <2>3
<1>14. Cal!Easter(y) = Cal!Date(y, 3, 1) + moon + 6 - ((sundays + moon) % 7)
  <2>1. Cal!Date(y, 3, 1) \in Int
    BY YearLength DEF Cal!Date, Cal!BeforeMonth
  <2>2. moon \in Int
    BY <1>4, <1>9
  <2>3. (sundays + moon) % 7 \in Int
    BY <1>6, <2>2
  <2> HIDE DEF sum, moon, m
  <2> QED BY <1>10, <1>11, <1>13, <2>1, <2>2, <2>3
<1> QED BY <1>14 DEF a, b, s, sundays, age

(* The clock's calendar is the one calendar.                                  *)
LEMMA CalendarOfClock ==
    /\ \A y, m, d : W!Date(y, m, d) = Cal!Date(y, m, d)
    /\ \A d : W!Year(d) = Cal!Year(d)
    /\ \A y : W!Easter(y) = Cal!Easter(y)
    /\ \A d : W!IsTradingDay(d) <=> Cal!IsTradingDay(d)
    /\ \A d : W!NextTradingDay(d) = Cal!NextTradingDay(d)
    /\ \A a, b : W!TradingDays(a, b) = Cal!TradingDays(a, b)
<1>1. ASSUME NEW y PROVE W!Leap(y) = Cal!Leap(y) /\ W!BeforeYear(y) = Cal!BeforeYear(y)
  BY DEF W!Leap, Cal!Leap, W!BeforeYear, Cal!BeforeYear
<1>2. ASSUME NEW y, NEW m, NEW d PROVE W!Date(y, m, d) = Cal!Date(y, m, d)
  BY DEF W!Date, Cal!Date, W!BeforeMonth, Cal!BeforeMonth, W!BeforeYear, Cal!BeforeYear, W!Leap, Cal!Leap
<1>3. ASSUME NEW d PROVE W!Year(d) = Cal!Year(d)
  BY DEF W!Year, Cal!Year, W!BeforeYear, Cal!BeforeYear
<1>4. ASSUME NEW y PROVE W!Easter(y) = Cal!Easter(y)
  BY <1>2, Zenon DEF W!Easter, Cal!Easter
<1>5. ASSUME NEW d PROVE W!Weekday(d) = Cal!Weekday(d) /\ W!Observed(d) = Cal!Observed(d)
  BY Zenon DEF W!Weekday, Cal!Weekday, W!Observed, Cal!Observed
<1>6. ASSUME NEW y, NEW m, NEW weekday, NEW n PROVE W!NthWeekday(y, m, weekday, n) = Cal!NthWeekday(y, m, weekday, n)
  BY <1>2, <1>5, Zenon DEF W!NthWeekday, Cal!NthWeekday
<1>7. ASSUME NEW y, NEW m, NEW weekday PROVE W!LastWeekday(y, m, weekday) = Cal!LastWeekday(y, m, weekday)
  <2>1. W!Lengths(y) = Cal!Lengths(y)
    BY <1>1, Zenon DEF W!Lengths, Cal!Lengths
  <2> QED BY <1>2, <1>5, <2>1, Zenon DEF W!LastWeekday, Cal!LastWeekday
<1>8. ASSUME NEW y PROVE W!MarketHolidays(y) = Cal!MarketHolidays(y)
  <2>1. {W!Observed(W!Date(y, 1, 1)), W!Observed(W!Date(y, 7, 4)), W!Observed(W!Date(y, 12, 25))}
        = {Cal!Observed(Cal!Date(y, 1, 1)), Cal!Observed(Cal!Date(y, 7, 4)), Cal!Observed(Cal!Date(y, 12, 25))}
    BY <1>2, <1>5
  <2>2. (IF y < 2022 THEN {} ELSE {W!Observed(W!Date(y, 6, 19))})
        = (IF y < 2022 THEN {} ELSE {Cal!Observed(Cal!Date(y, 6, 19))})
    BY <1>2, <1>5
  <2>3. {W!NthWeekday(y, 1, 0, 3), W!NthWeekday(y, 2, 0, 3), W!Easter(y) - 2,
         W!LastWeekday(y, 5, 0), W!NthWeekday(y, 9, 0, 1), W!NthWeekday(y, 11, 3, 4)}
        = {Cal!NthWeekday(y, 1, 0, 3), Cal!NthWeekday(y, 2, 0, 3), Cal!Easter(y) - 2,
           Cal!LastWeekday(y, 5, 0), Cal!NthWeekday(y, 9, 0, 1), Cal!NthWeekday(y, 11, 3, 4)}
    BY <1>4, <1>6, <1>7
  <2> QED BY <2>1, <2>2, <2>3 DEF W!MarketHolidays, Cal!MarketHolidays
<1>9. ASSUME NEW d PROVE W!IsTradingDay(d) <=> Cal!IsTradingDay(d)
  BY <1>3, <1>5, <1>8, Zenon DEF W!IsTradingDay, Cal!IsTradingDay
<1>10. ASSUME NEW d PROVE W!NextTradingDay(d) = Cal!NextTradingDay(d)
  BY <1>9 DEF W!NextTradingDay, Cal!NextTradingDay
<1>11. ASSUME NEW a, NEW b PROVE W!TradingDays(a, b) = Cal!TradingDays(a, b)
  BY <1>9 DEF W!TradingDays, Cal!TradingDays
<1> QED BY <1>2, <1>3, <1>4, <1>9, <1>10, <1>11

-----------------------------------------------------------------------------
(* The wall clock, over any number of fires. *)

(* A moment a clock is to fire at, and the next one after a moment.           *)
DueAt(t) == W!IsTradingDay(W!Day(t)) /\ t \in W!Due(W!Day(t))
NextDue(r, t) == r < t /\ DueAt(t) /\ \A u \in Nat : DueAt(u) /\ r < u => t <= u

FireType == interval \in Nat \ {0} /\ began \in Nat \ {0} /\ 1440 <= began /\ fires \in Seq(Nat)
FiresInTurn == \A i \in 1..Len(fires) : NextDue(IF i = 1 THEN began ELSE fires[i - 1], fires[i])
NoneLeftOut ==
    fires # <<>> =>
        /\ \A i \in 1..Len(fires) : began < fires[i] /\ fires[i] <= fires[Len(fires)]
        /\ \A u \in Nat : DueAt(u) /\ began < u /\ u <= fires[Len(fires)] => \E i \in 1..Len(fires) : fires[i] = u
ClockInv == FireType /\ FiresInTurn /\ NoneLeftOut

LEMMA SessionAfter ==
    ASSUME NEW d \in Nat
    PROVE  /\ W!NextTradingDay(d) \in d + 1 .. d + 7
           /\ W!IsTradingDay(W!NextTradingDay(d))
           /\ \A e \in d + 1 .. W!NextTradingDay(d) - 1 : ~W!IsTradingDay(e)
<1> DEFINE n == Cal!NextTradingDay(d)
<1>1. W!NextTradingDay(d) = n
  BY CalendarOfClock, Zenon
<1>2. \A e : W!IsTradingDay(e) <=> Cal!IsTradingDay(e)
  BY CalendarOfClock, Zenon
<1>3. /\ n \in d + 1 .. d + 7 /\ Cal!IsTradingDay(n)
      /\ \A e \in d + 1 .. n - 1 : ~Cal!IsTradingDay(e)
  BY NextSession, Zenon
<1> HIDE DEF n
<1> QED BY <1>1, <1>2, <1>3

LEMMA DayAdvances ==
    ASSUME NEW u \in Nat, NEW v \in Nat
    PROVE  W!Day(u) \in Nat /\ W!Day(v) \in Nat /\ (u <= v => W!Day(u) <= W!Day(v))
BY DEF W!Day

LEMMA DueOnItsDay ==
    ASSUME W!ClockAssumption, NEW d \in Nat, NEW t \in W!Due(d)
    PROVE  t \in Nat /\ W!Day(t) = d
<1>1. DecideAt \in 0..1439
  BY DEF W!ClockAssumption
<1>2. \/ t = d * 1440 + DecideAt
      \/ t \in d * 1440 + 570 .. d * 1440 + 960
  BY DEF W!Due, W!Boundaries, W!Minute, W!OpensAt, W!ClosesAt
<1> QED BY <1>1, <1>2 DEF W!Day

LEMMA NextDailyIsNext ==
    ASSUME W!ClockAssumption, NEW r \in Nat, interval \in Nat, interval >= 1440
    PROVE  W!NextDailyFire(r) \in Nat /\ NextDue(r, W!NextDailyFire(r))
<1> DEFINE d == W!Day(r)
           n == W!NextTradingDay(d)
           mark(x) == x * 1440 + DecideAt
<1>1. DecideAt \in 0..1439 /\ d \in Nat /\ d * 1440 <= r /\ r < d * 1440 + 1440
  BY DEF W!ClockAssumption, W!Day
<1>2. n \in d + 1 .. d + 7 /\ W!IsTradingDay(n) /\ \A e \in d + 1 .. n - 1 : ~W!IsTradingDay(e)
  <2>1. d \in Nat
    BY <1>1
  <2> HIDE DEF d
  <2> QED BY <2>1, SessionAfter
<1>3. \A x \in Nat : W!Due(x) = {mark(x)}
  BY DEF W!Due, W!Minute
<1>4. ASSUME NEW x \in Nat PROVE W!Day(mark(x)) = x /\ mark(x) \in Nat
  BY <1>1 DEF W!Day
<1>5. ASSUME NEW u \in Nat, DueAt(u), r < u
      PROVE  W!Day(u) \in Nat /\ W!Day(u) >= d /\ W!IsTradingDay(W!Day(u)) /\ u = mark(W!Day(u))
  <2>1. W!Day(u) \in Nat /\ W!Day(u) >= d
    BY <1>5, <1>1 DEF W!Day
  <2> QED BY <1>3, <1>5, <2>1 DEF DueAt
<1>6. W!NextDailyFire(r) = IF mark(d) <= r \/ ~W!IsTradingDay(d) THEN mark(n) ELSE mark(d)
  BY DEF W!NextDailyFire, W!Minute
<1> HIDE DEF d, n
<1>7. CASE mark(d) <= r \/ ~W!IsTradingDay(d)
  <2>1. W!NextDailyFire(r) = mark(n)
    BY <1>6, <1>7
  <2>2. n \in Nat /\ r < mark(n) /\ DueAt(mark(n)) /\ mark(n) \in Nat
    BY <1>1, <1>2, <1>3, <1>4 DEF DueAt
  <2>3. ASSUME NEW u \in Nat, DueAt(u), r < u PROVE mark(n) <= u
    <3>1. W!Day(u) # d
      BY <1>5, <1>7, <2>3
    <3>2. W!Day(u) >= n
      BY <1>1, <1>2, <1>5, <2>3, <3>1
    <3> QED BY <1>1, <1>2, <1>5, <2>3, <3>2
  <2> QED BY <2>1, <2>2, <2>3 DEF NextDue
<1>8. CASE ~(mark(d) <= r \/ ~W!IsTradingDay(d))
  <2>1. W!NextDailyFire(r) = mark(d)
    BY <1>6, <1>8
  <2>2. r < mark(d) /\ DueAt(mark(d)) /\ mark(d) \in Nat
    BY <1>1, <1>3, <1>4, <1>8 DEF DueAt
  <2>3. ASSUME NEW u \in Nat, DueAt(u), r < u PROVE mark(d) <= u
    BY <1>1, <1>5, <2>3
  <2> QED BY <2>1, <2>2, <2>3 DEF NextDue
<1> QED BY <1>7, <1>8

LEMMA NextIntradayIsNext ==
    ASSUME W!ClockAssumption, NEW r \in Nat, interval \in Nat \ {0}, interval < 1440, ~W!Raises
    PROVE  W!NextIntradayFire(r) \in Nat /\ NextDue(r, W!NextIntradayFire(r))
<1> DEFINE d == W!Day(r)
           n == W!NextTradingDay(d)
           first(Cand) == CHOOSE t \in Cand : \A u \in Cand : t <= u
           ahead == {t \in IF W!IsTradingDay(d) THEN W!Boundaries(d) ELSE {} : t > r}
<1>1. d \in Nat /\ d * 1440 <= r /\ r < d * 1440 + 1440
  BY DEF W!Day
<1>2. n \in d + 1 .. d + 7 /\ W!IsTradingDay(n) /\ \A e \in d + 1 .. n - 1 : ~W!IsTradingDay(e)
  <2>1. d \in Nat
    BY <1>1
  <2> HIDE DEF d
  <2> QED BY <2>1, SessionAfter
<1>3. \A x : W!Due(x) = W!Boundaries(x)
  BY DEF W!Due
<1>4. ASSUME NEW x \in Nat, NEW t \in W!Boundaries(x) PROVE W!Day(t) = x /\ t \in Nat /\ x * 1440 < t /\ t < x * 1440 + 1440
  <2>1. t \in x * 1440 + 570 .. x * 1440 + 960
    BY DEF W!Boundaries, W!Minute, W!OpensAt, W!ClosesAt
  <2> QED BY <2>1 DEF W!Day
<1>5. ASSUME NEW u \in Nat, DueAt(u), r < u
      PROVE  W!Day(u) \in Nat /\ W!Day(u) >= d /\ W!IsTradingDay(W!Day(u)) /\ u \in W!Boundaries(W!Day(u))
  <2>1. W!Day(u) \in Nat /\ W!Day(u) >= d
    BY <1>5, <1>1 DEF W!Day
  <2> QED BY <1>3, <1>5, <2>1 DEF DueAt
<1>6. ASSUME NEW Cand, Cand \subseteq Nat, Cand # {} PROVE first(Cand) \in Cand /\ \A u \in Cand : first(Cand) <= u
  <2>1. \E t \in Cand : \A u \in Cand : t <= u
    <3> HIDE DEF d, n, ahead, first
    <3> QED BY <1>6, LeastOf
  <2>2. first(Cand) = CHOOSE t \in Cand : \A u \in Cand : t <= u
    OBVIOUS
  <2> HIDE DEF first
  <2> QED BY <2>1, <2>2
<1>7. W!NextIntradayFire(r) = IF ahead # {} THEN first(ahead) ELSE first(W!Boundaries(n))
  BY DEF W!NextIntradayFire
<1> HIDE DEF d, n, first
<1>8. CASE ahead # {}
  <2>1. ahead \subseteq Nat /\ W!IsTradingDay(d) /\ ahead = {t \in W!Boundaries(d) : t > r}
    BY <1>1, <1>4, <1>8
  <2> DEFINE f == first(ahead)
  <2>2. f \in ahead /\ \A u \in ahead : f <= u
    BY <1>6, <1>8, <2>1
  <2>3. f \in Nat /\ r < f /\ DueAt(f) /\ f \in W!Boundaries(d)
    BY <1>1, <1>3, <1>4, <2>1, <2>2 DEF DueAt
  <2>4. ASSUME NEW u \in Nat, DueAt(u), r < u PROVE f <= u
    <3>1. CASE W!Day(u) = d
      BY <1>5, <2>1, <2>2, <2>4, <3>1
    <3>2. CASE W!Day(u) # d
      <4> DEFINE e == W!Day(u)
      <4>1. e \in Nat /\ e > d /\ u \in W!Boundaries(e)
        BY <1>1, <1>5, <2>4, <3>2
      <4>2. e * 1440 < u /\ f < d * 1440 + 1440
        BY <1>1, <1>4, <2>3, <4>1
      <4> HIDE DEF e, f
      <4> QED BY <1>1, <2>3, <4>1, <4>2
    <3> QED BY <3>1, <3>2
  <2> QED BY <1>7, <1>8, <2>3, <2>4 DEF NextDue
<1>9. CASE ahead = {}
  <2>1. W!Boundaries(n) \subseteq Nat /\ W!Boundaries(n) # {}
    <3>1. interval <= 390
      BY DEF W!Raises, W!OpensAt, W!ClosesAt
    <3>2. n * 1440 + 570 + interval \in W!Boundaries(n)
      <4>1. (n * 1440 + 570 + interval) - (n * 1440 + 570) = interval /\ interval % interval = 0
        BY <1>2
      <4> QED BY <1>2, <3>1, <4>1 DEF W!Boundaries, W!Minute, W!OpensAt, W!ClosesAt
    <3> QED BY <1>1, <1>2, <1>4, <3>2
  <2> DEFINE f == first(W!Boundaries(n))
  <2>2. f \in W!Boundaries(n) /\ \A u \in W!Boundaries(n) : f <= u
    BY <1>6, <2>1
  <2>3. f \in Nat /\ n \in Nat /\ n * 1440 < f /\ f < n * 1440 + 1440 /\ W!Day(f) = n
    BY <1>1, <1>2, <1>4, <2>2
  <2>4. r < f /\ DueAt(f)
    BY <1>1, <1>2, <1>3, <2>2, <2>3 DEF DueAt
  <2>5. ASSUME NEW u \in Nat, DueAt(u), r < u PROVE f <= u
    <3>1. W!Day(u) # d
      BY <1>5, <1>9, <2>5
    <3>2. W!Day(u) >= n
      BY <1>1, <1>2, <1>5, <2>5, <3>1
    <3>3. CASE W!Day(u) = n
      BY <1>5, <2>2, <2>5, <3>3
    <3>4. CASE W!Day(u) > n
      <4> DEFINE e == W!Day(u)
      <4>1. e \in Nat /\ e > n /\ u \in W!Boundaries(e)
        BY <1>5, <2>5, <3>4
      <4>2. e * 1440 < u
        BY <1>4, <4>1
      <4> HIDE DEF e, f
      <4> QED BY <2>3, <4>1, <4>2
    <3> QED BY <1>1, <1>2, <1>5, <2>5, <3>2, <3>3, <3>4
  <2> QED BY <1>7, <1>9, <2>3, <2>4, <2>5 DEF NextDue
<1> QED BY <1>8, <1>9

LEMMA ClockInit == W!ClockAssumption /\ W!Init => ClockInv
BY DEF W!ClockAssumption, W!Init, ClockInv, FireType, FiresInTurn, NoneLeftOut

LEMMA ClockStep == W!ClockAssumption /\ ClockInv /\ [W!Next]_<<interval, began, fires>> => ClockInv'
<1> SUFFICES ASSUME W!ClockAssumption, ClockInv, [W!Next]_<<interval, began, fires>> PROVE ClockInv'
  OBVIOUS
<1>0. FireType /\ FiresInTurn /\ NoneLeftOut
  BY DEF ClockInv
<1>1. CASE W!Fire
  <2> DEFINE k == Len(fires)
             r == IF fires = <<>> THEN began ELSE fires[k]
             t == W!NextFire(r)
  <2>1. ~W!Raises /\ fires' = Append(fires, t) /\ UNCHANGED <<interval, began>>
    BY <1>1 DEF W!Fire
  <2>2. k \in Nat /\ (fires = <<>> <=> k = 0) /\ r \in Nat
    BY <1>0 DEF FireType
  <2>3. t \in Nat /\ NextDue(r, t)
    <3>1. CASE interval >= 1440
      <4>1. t = W!NextDailyFire(r)
        BY <3>1 DEF W!NextFire
      <4>2. interval \in Nat
        BY <1>0 DEF FireType
      <4> HIDE DEF r, t
      <4> QED BY <2>2, <3>1, <4>1, <4>2, NextDailyIsNext
    <3>2. CASE interval < 1440
      <4>1. interval \in Nat \ {0} /\ ~(interval >= 1440)
        BY <1>0, <3>2 DEF FireType
      <4>2. t = W!NextIntradayFire(r)
        BY <4>1 DEF W!NextFire
      <4> HIDE DEF r, t
      <4> QED BY <2>1, <2>2, <3>2, <4>1, <4>2, NextIntradayIsNext
    <3> QED BY <1>0, <3>1, <3>2 DEF FireType
  <2>4. \A u : DueAt(u)' <=> DueAt(u)
    BY <2>1 DEF DueAt, W!Due, W!Boundaries
  <2> HIDE DEF t
  <2>5. FireType'
    BY <1>0, <2>1, <2>3 DEF FireType
  <2>6. /\ Len(fires') = k + 1 /\ fires'[k + 1] = t /\ \A i \in 1..k : fires'[i] = fires[i] /\ fires[i] \in Nat
        /\ fires' # <<>>
    BY <1>0, <2>1, <2>3 DEF FireType
  <2>7. FiresInTurn'
    <3> SUFFICES ASSUME NEW i \in 1..k + 1
                 PROVE  NextDue(IF i = 1 THEN began ELSE fires'[i - 1], fires'[i])
      BY <2>1, <2>4, <2>6 DEF FiresInTurn, NextDue
    <3>1. CASE i \in 1..k
      BY <1>0, <2>2, <2>6, <3>1 DEF FiresInTurn
    <3>2. CASE i = k + 1
      <4>1. r = IF i = 1 THEN began ELSE fires'[i - 1]
        BY <2>2, <2>6, <3>2
      <4> QED BY <2>3, <2>6, <3>2, <4>1
    <3> QED BY <2>2, <3>1, <3>2
  <2>8. NoneLeftOut'
    <3>1. began <= r /\ r < t
      BY <1>0, <2>2, <2>3 DEF NoneLeftOut, NextDue, FireType
    <3>2. ASSUME NEW i \in 1..k + 1 PROVE began < fires'[i] /\ fires'[i] <= t
      BY <1>0, <2>2, <2>3, <2>6, <3>1 DEF NoneLeftOut, FireType
    <3>3. ASSUME NEW u \in Nat, DueAt(u), began < u, u <= t PROVE \E i \in 1..k + 1 : fires'[i] = u
      <4>1. CASE r < u
        <5>1. u = t
          BY <2>3, <3>3, <4>1 DEF NextDue
        <5> QED BY <2>2, <2>6, <5>1
      <4>2. CASE u <= r
        <5>1. fires # <<>>
          BY <1>0, <3>3, <4>2 DEF FireType
        <5>2. PICK i \in 1..k : fires[i] = u
          BY <1>0, <3>3, <4>2, <5>1 DEF NoneLeftOut
        <5> QED BY <2>2, <2>6, <5>2
      <4> QED BY <2>2, <4>1, <4>2
    <3> QED BY <2>1, <2>4, <2>6, <3>2, <3>3 DEF NoneLeftOut
  <2> QED BY <2>5, <2>7, <2>8 DEF ClockInv
<1>2. CASE UNCHANGED <<interval, began, fires>>
  <2>1. \A u : DueAt(u)' <=> DueAt(u)
    BY <1>2 DEF DueAt, W!Due, W!Boundaries
  <2>2. FireType' /\ FiresInTurn' /\ NoneLeftOut'
    BY <1>0, <1>2, <2>1 DEF FireType, FiresInTurn, NextDue, NoneLeftOut
  <2> QED BY <2>2 DEF ClockInv
<1> QED BY <1>1, <1>2 DEF W!Next

LEMMA ClockGood == W!ClockAssumption /\ ClockInv => W!NoFireMissed /\ W!CloseIsFired /\ W!EasterIsAfterTheMoon
<1> SUFFICES ASSUME W!ClockAssumption, ClockInv PROVE W!NoFireMissed /\ W!CloseIsFired /\ W!EasterIsAfterTheMoon
  OBVIOUS
<1>0. FireType /\ FiresInTurn /\ NoneLeftOut
  BY DEF ClockInv
<1> DEFINE k == Len(fires)
           newestFire == fires[k]
           Moments == {t \in UNION {W!Due(d) : d \in W!TradingDays(W!Day(began), W!Day(newestFire))} : began < t /\ t <= newestFire}
<1>1. k \in Nat /\ (fires = <<>> <=> k = 0) /\ \A i \in 1..k : fires[i] \in Nat
  BY <1>0 DEF FireType
<1>2. W!NoFireMissed
  <2> SUFFICES ASSUME fires # <<>>
               PROVE  (\A i \in 2..k : fires[i - 1] < fires[i]) /\ {fires[i] : i \in 1..k} = Moments
    BY DEF W!NoFireMissed
  <2>1. ASSUME NEW i \in 2..k PROVE fires[i - 1] < fires[i]
    BY <1>0, <1>1 DEF FiresInTurn, NextDue
  <2>2. newestFire \in Nat /\ W!Day(began) \in Nat /\ W!Day(newestFire) \in Nat
    BY <1>0, <1>1 DEF FireType, W!Day
  <2>3. ASSUME NEW i \in 1..k PROVE fires[i] \in Moments
    <3> DEFINE t == fires[i]
    <3>1. t \in Nat /\ DueAt(t) /\ began < t /\ t <= newestFire
      BY <1>0, <1>1 DEF FiresInTurn, NextDue, NoneLeftOut
    <3>2. W!Day(t) \in W!Day(began) .. W!Day(newestFire)
      BY <1>0, <2>2, <3>1 DEF FireType, W!Day
    <3> QED BY <3>1, <3>2 DEF DueAt, W!TradingDays
  <2>4. ASSUME NEW t \in Moments PROVE t \in {fires[i] : i \in 1..k}
    <3>1. PICK d \in W!TradingDays(W!Day(began), W!Day(newestFire)) : t \in W!Due(d)
      BY <2>4
    <3>2. d \in Nat /\ W!IsTradingDay(d)
      BY <2>2 DEF W!TradingDays
    <3>3. t \in Nat /\ DueAt(t) /\ began < t /\ t <= newestFire
      BY <3>1, <3>2, DueOnItsDay DEF DueAt
    <3> QED BY <1>0, <3>3 DEF NoneLeftOut
  <2> HIDE DEF Moments
  <2> QED BY <2>1, <2>3, <2>4
<1>3. W!CloseIsFired
  <2> SUFFICES ASSUME NEW i \in 2..k, interval < 1440, 390 % interval = 0, W!Day(fires[i - 1]) < W!Day(fires[i])
               PROVE  fires[i - 1] = W!Minute(W!Day(fires[i - 1]), W!ClosesAt)
    BY DEF W!CloseIsFired
  <2> DEFINE t == fires[i - 1]
             d == W!Day(t)
             close == d * 1440 + 960
  <2>1. t \in Nat /\ DueAt(t) /\ NextDue(t, fires[i]) /\ fires[i] \in Nat /\ d \in Nat
    BY <1>0, <1>1 DEF FiresInTurn, NextDue, W!Day
  <2>2. W!Due(d) = W!Boundaries(d) /\ interval \in Nat \ {0}
    BY <1>0 DEF W!Due, FireType
  <2>3. t <= close /\ W!IsTradingDay(d)
    BY <2>1, <2>2 DEF DueAt, W!Boundaries, W!Minute, W!ClosesAt, W!OpensAt
  <2>4. close \in Nat /\ W!Day(close) = d
    <3>1. d \in Nat
      BY <2>1
    <3> HIDE DEF d
    <3> QED BY <3>1 DEF W!Day
  <2>5. close \in W!Boundaries(d)
    <3>1. close - (d * 1440 + 570) = 390
      BY <2>1
    <3> QED BY <2>1, <3>1 DEF W!Boundaries, W!Minute, W!ClosesAt, W!OpensAt
  <2>6. DueAt(close)
    BY <2>2, <2>3, <2>4, <2>5 DEF DueAt
  <2>7. ~(t < close)
    <3> SUFFICES ASSUME t < close PROVE FALSE
      OBVIOUS
    <3>1. fires[i] <= close
      BY <2>1, <2>4, <2>6 DEF NextDue
    <3>2. W!Day(fires[i]) <= W!Day(close)
      <4>1. close \in Nat /\ fires[i] \in Nat
        BY <2>1, <2>4
      <4> HIDE DEF close
      <4> QED BY <3>1, <4>1, DayAdvances
    <3>3. W!Day(fires[i]) \in Nat
      BY <2>1 DEF W!Day
    <3> HIDE DEF close, d, t
    <3> QED BY <2>1, <2>4, <3>2, <3>3 DEF d, t
  <2> HIDE DEF close
  <2>8. t = close
    BY <2>1, <2>3, <2>4, <2>7
  <2> QED BY <2>8 DEF close, W!Minute, W!ClosesAt
<1>4. W!EasterIsAfterTheMoon
  <2>1. CASE fires = <<>>
    BY <2>1 DEF W!EasterIsAfterTheMoon
  <2>2. CASE fires # <<>>
    <3> DEFINE y == W!Year(W!Day(fires[1]))
    <3>1. fires[1] \in Nat /\ began < fires[1] /\ 1440 <= began /\ began \in Nat
      BY <1>0, <1>1, <2>2 DEF NoneLeftOut, FireType
    <3>2. W!Day(fires[1]) \in Nat \ {0}
      BY <3>1 DEF W!Day
    <3>3. y \in Nat \ {0}
      BY <3>2, DayHasYear, CalendarOfClock
    <3>4. W!Easter(y) = Cal!Easter(y) /\ W!Date(y, 3, 1) = Cal!Date(y, 3, 1)
      BY CalendarOfClock, Zenon
    <3> DEFINE MoonRule(e, d) ==
          LET golden == (y % 19) + 1
              century == y \div 100 + 1
              sundays == (5 * y) \div 4 - ((3 * century) \div 4 - 12) - 10
              age == (11 * golden + 20 + ((8 * century + 5) \div 25 - 5) - ((3 * century) \div 4 - 12)) % 30
              epact == IF age = 24 \/ (age = 25 /\ golden > 11) THEN age + 1 ELSE age
              moon == IF 44 - epact < 21 THEN 74 - epact ELSE 44 - epact
          IN  e = d + moon + 6 - ((sundays + moon) % 7)
    <3>5. W!EasterIsAfterTheMoon <=> MoonRule(W!Easter(y), W!Date(y, 3, 1))
      BY <2>2 DEF W!EasterIsAfterTheMoon
    <3>6. MoonRule(Cal!Easter(y), Cal!Date(y, 3, 1))
      <4> HIDE DEF y
      <4> QED BY <3>3, EasterByTheMoon, Zenon
    <3> HIDE DEF MoonRule, y
    <3> QED BY <3>4, <3>5, <3>6, Zenon
  <2> QED BY <2>1, <2>2
<1> QED BY <1>2, <1>3, <1>4

-----------------------------------------------------------------------------
(* The daily task, for any number of days, outages and failed pulls. *)

LEMMA DailySteps == [Next]_all => [D!Next]_D!daily
<1>1. Times => [D!Next]_D!daily
  BY DEF Times, daily, D!daily
<1>2. UNCHANGED daily => UNCHANGED D!daily
  BY DEF daily, D!daily
<1> QED BY <1>1, <1>2 DEF Next, all, daily, D!daily

LEMMA CardinalityD == \A V : D!Cardinality(V) = Cardinality(V)
BY DEF D!Cardinality, Cardinality

(* The newest of the sessions that are read.                                  *)
LEMMA NewestOf ==
    ASSUME NEW V, V \subseteq Nat, V # {}, NEW top \in Nat, \A s \in V : s <= top
    PROVE  D!Newest(V) \in V /\ \A s \in V : s <= D!Newest(V)
<1> DEFINE Behind == {top - s : s \in V}
<1>1. Behind \subseteq Nat /\ Behind # {}
  <2>1. PICK s \in V : TRUE
    OBVIOUS
  <2>2. top - s \in Behind
    OBVIOUS
  <2>3. \A u \in V : top - u \in Nat
    <3> SUFFICES ASSUME NEW u \in V PROVE top - u \in Nat
      OBVIOUS
    <3>1. u \in Nat /\ u <= top
      OBVIOUS
    <3> QED BY <3>1
  <2>4. Behind \subseteq Nat
    BY <2>3
  <2> HIDE DEF Behind
  <2> QED BY <2>2, <2>4
<1>2. PICK x \in Behind : \A y \in Behind : x <= y
  BY <1>1, LeastOf
<1>3. PICK s \in V : x = top - s
  BY <1>2
<1>4. \A u \in V : u <= s
  <2> SUFFICES ASSUME NEW u \in V PROVE u <= s
    OBVIOUS
  <2>1. top - u \in Behind
    OBVIOUS
  <2>2. top - s <= top - u
    BY <1>2, <1>3, <2>1
  <2>3. u \in Nat /\ s \in Nat
    OBVIOUS
  <2> QED BY <2>2, <2>3
<1> QED BY <1>3, <1>4 DEF D!Newest

Readings == UNION {[V -> {"final", "running"}] : V \in SUBSET Nat}
Hours == Nat \X (0..2)
Decision == [at : Hours, pulled : Hours, read : Readings, closed : SUBSET Nat]
Tasks == [does : {"none", "pull", "decide"}, began : Hours, pulled : Hours]
DailyType ==
    /\ since \in Nat /\ time \in Nat \X (0..2) /\ since <= time[1]
    /\ served \in Nat /\ stored \in [D!TradingDays(since, served) -> {"final", "running"}]
    /\ decisions \in SUBSET Decision /\ task \in Tasks

(* A machine that is off runs nothing and owes a run for the newest trigger,  *)
(* or has begun one; what is on owes none.                                    *)
RunIsOwed ==
    /\ task.does # "none" => up
    /\ up => begun = due /\ ~missed
    /\ ~up => missed \/ begun = due
    /\ {up, missed} \subseteq BOOLEAN
(* A run sees the time of day change once at most; it pulled before or since, *)
(* and what is not final was not known when it did.                           *)
IsOver(x, t) == x < t[1] \/ (x = t[1] /\ t[2] = 2)
RunIsShort ==
    /\ task.does # "none" => time \in {task.began, D!After(task.began)}
    /\ task.does = "decide" => /\ task.pulled \in {task.began, time}
                              /\ \A x \in DOMAIN stored : stored[x] = "final" \/ ~IsOver(x, task.pulled)
DailyInv == DailyType /\ RunIsOwed /\ RunIsShort /\ D!RunningBarsCrossTheClose /\ D!MissingAreFew

LEMMA DailyInit == D!TaskAssumption /\ D!Init => DailyInv
<1> SUFFICES ASSUME D!TaskAssumption, D!Init PROVE DailyInv
  OBVIOUS
<1>1. since \in Nat /\ D!IsTradingDay(since)
  BY DEF D!TaskAssumption, D!Init
<1>2. D!TradingDays(since, since) = {since}
  BY <1>1 DEF D!TradingDays
<1>3. DailyType
  BY <1>1, <1>2 DEF D!Init, DailyType, D!NoTask, Tasks, Hours
<1>4. RunIsOwed /\ RunIsShort
  BY DEF D!Init, RunIsOwed, RunIsShort, D!NoTask
<1>5. D!RunningBarsCrossTheClose /\ D!MissingAreFew
  BY DEF D!Init, D!RunningBarsCrossTheClose, D!MissingAreFew
<1> QED BY <1>3, <1>4, <1>5 DEF DailyInv

LEMMA KnowableType ==
    ASSUME DailyType
    PROVE  /\ D!Knowable \subseteq Nat /\ D!Readable \subseteq D!Knowable
           /\ \A s \in D!Knowable : s \in since..time[1] /\ D!IsTradingDay(s)
           /\ \A s \in D!Knowable : s = time[1] => time[2] = 2
           /\ \A s \in D!Knowable \ D!Readable : s > served
           /\ \A s \in D!Readable : s <= served
<1>1. since \in Nat /\ time[1] \in Nat /\ served \in Nat /\ DOMAIN stored = D!TradingDays(since, served)
  BY DEF DailyType
<1>2. D!Knowable \subseteq D!TradingDays(since, time[1]) /\ \A s \in D!Knowable : s < time[1] \/ time[2] = 2
  BY DEF D!Knowable, D!Begun, D!Today
<1>3. D!Readable = {s \in D!TradingDays(since, served) : s \in D!Knowable}
  BY <1>1 DEF D!Readable
<1> QED BY <1>1, <1>2, <1>3 DEF D!TradingDays

(* A decision that is not refused misses few of the sessions that have ended. *)
LEMMA FewAreMissing ==
    ASSUME D!TaskAssumption, DailyType, D!Fresh
    PROVE  Cardinality(D!Knowable \ D!Readable) <=
               IF time[2] < 2 /\ D!IsTradingDay(time[1]) THEN MaxStaleSessions - 1 ELSE MaxStaleSessions
<1> DEFINE t == time[1]
           top == D!Newest(D!Readable)
           Missing == D!Knowable \ D!Readable
           Cand == D!TradingDays(top, t)
<1>1. t \in Nat /\ since \in Nat /\ time[2] \in 0..2 /\ MaxStaleSessions \in Nat \ {0} /\ served \in Nat
  BY DEF DailyType, D!TaskAssumption
<1>2. D!Readable # {} /\ (t <= top \/ Cardinality(Cand) - 1 <= MaxStaleSessions)
  BY CardinalityD DEF D!Fresh, D!StaleSessions, D!Today
<1>3. top \in D!Readable /\ top \in D!Knowable /\ top \in Nat
  <2>1. D!Readable \subseteq Nat /\ \A s \in D!Readable : s <= t
    BY <1>1, KnowableType
  <2>2. top \in D!Readable
    BY <1>1, <1>2, <2>1, NewestOf
  <2> HIDE DEF top
  <2> QED BY <2>1, <2>2, KnowableType
<1>4. top <= served /\ since <= top /\ top <= t /\ D!IsTradingDay(top) /\ (top = t => time[2] = 2)
  <2> HIDE DEF top
  <2> QED BY <1>1, <1>3, KnowableType
<1>5. \A s \in Missing : s \in Nat /\ s > top /\ s <= t /\ D!IsTradingDay(s) /\ (s = t => time[2] = 2)
  <2> HIDE DEF top
  <2> QED BY <1>1, <1>3, <1>4, KnowableType
<1> HIDE DEF top, Missing
<1>6. CASE t <= top
  <2>1. Missing = {}
    BY <1>1, <1>3, <1>5, <1>6
  <2>2. Cardinality(Missing) = 0
    BY <2>1, FS_EmptySet
  <2> QED BY <1>1, <2>2 DEF Missing
<1>7. CASE ~(t <= top)
  <2>1. Cand \subseteq top..t /\ IsFiniteSet(top..t)
    <3>1. Cand \subseteq top..t
      BY DEF D!TradingDays
    <3>2. top \in Int /\ t \in Int
      BY <1>1, <1>3
    <3> HIDE DEF Cand, t
    <3> QED BY <3>1, <3>2, FS_Interval
  <2>2. IsFiniteSet(Cand) /\ top \in Cand
    BY <1>1, <1>3, <1>4, <2>1, FS_Subset DEF D!TradingDays
  <2>3. IsFiniteSet(Cand \ {top}) /\ Cardinality(Cand \ {top}) = Cardinality(Cand) - 1 /\ Cardinality(Cand) \in Nat
    BY <2>2, FS_RemoveElement, FS_CardinalityType
  <2>4. Missing \subseteq Cand \ {top}
    BY <1>1, <1>3, <1>5 DEF D!TradingDays
  <2>5. CASE ~(time[2] < 2 /\ D!IsTradingDay(t))
    <3>1. Cardinality(Missing) <= Cardinality(Cand \ {top})
      BY <2>3, <2>4, FS_Subset
    <3>2. Cardinality(Missing) \in Nat
      BY <2>3, <2>4, FS_Subset, FS_CardinalityType
    <3> QED BY <1>1, <1>2, <1>7, <2>3, <2>5, <3>1, <3>2 DEF Missing
  <2>6. CASE time[2] < 2 /\ D!IsTradingDay(t)
    <3>1. t \in Cand \ {top} /\ Missing \subseteq (Cand \ {top}) \ {t}
      BY <1>1, <1>3, <1>4, <1>5, <1>7, <2>4, <2>6 DEF D!TradingDays
    <3>2. IsFiniteSet((Cand \ {top}) \ {t}) /\ Cardinality((Cand \ {top}) \ {t}) = Cardinality(Cand) - 2
      <4>1. \A U : IsFiniteSet(U) /\ t \in U => IsFiniteSet(U \ {t}) /\ Cardinality(U \ {t}) = Cardinality(U) - 1
        BY FS_RemoveElement
      <4> HIDE DEF Cand, t
      <4> QED BY <2>3, <3>1, <4>1
    <3>3. Cardinality(Missing) <= Cardinality((Cand \ {top}) \ {t}) /\ Cardinality(Missing) \in Nat
      BY <3>1, <3>2, FS_Subset, FS_CardinalityType
    <3> QED BY <1>1, <1>2, <1>7, <2>3, <2>6, <3>2, <3>3 DEF Missing
  <2> QED BY <2>5, <2>6
<1> QED BY <1>6, <1>7

(* What a short run reads and is not final, it pulled in its session and      *)
(* decides on after the close.                                                *)
LEMMA RunningCrosses ==
    ASSUME DailyType, RunIsShort, task.does = "decide", NEW x \in D!Readable, stored[x] = "running"
    PROVE  task.pulled = <<x, 1>> /\ time = <<x, 2>>
<1>0. x \in D!Knowable
  BY DEF D!Readable
<1>1. x \in Nat /\ IsOver(x, time)
  <2>1. x \in Nat
    BY <1>0, KnowableType
  <2>2. x \in D!Begun /\ (x < time[1] \/ time[2] = 2)
    BY <1>0 DEF D!Knowable, D!Today
  <2>3. x <= time[1] /\ time[1] \in Nat
    BY <1>0, KnowableType DEF DailyType
  <2> QED BY <2>1, <2>2, <2>3 DEF IsOver
<1>2. ~IsOver(x, task.pulled)
  BY DEF RunIsShort, D!Readable
<1>3. task.pulled = task.began /\ time = D!After(task.began)
  BY <1>1, <1>2 DEF RunIsShort
<1>4. task.began \in Nat \X (0..2)
  BY DEF DailyType, Tasks, Hours
<1>5. PICK d1 \in Nat, h1 \in 0..2 : task.began = <<d1, h1>>
  BY <1>4
<1>6. CASE h1 = 2
  BY <1>1, <1>2, <1>3, <1>5, <1>6 DEF IsOver, D!After
<1>7. CASE h1 # 2
  BY <1>1, <1>2, <1>3, <1>5, <1>7 DEF IsOver, D!After
<1> QED BY <1>6, <1>7

(* The time of day changes: a run goes on if it had not seen it change yet.   *)
LEMMA TimePasses ==
    ASSUME DailyType, RunIsShort, time' = D!After(time), task' \in D!Survivors,
           UNCHANGED <<since, served, stored, decisions>>
    PROVE  DailyType' /\ RunIsShort' /\ (task'.does # "none" => task' = task)
<1>1. time' \in Hours /\ since <= time'[1] /\ time \in Hours
  BY DEF DailyType, D!After, Hours
<1>2. task' \in Tasks /\ D!NoTask.does = "none"
  BY DEF DailyType, D!Survivors, D!NoTask, Tasks, Hours
<1>3. DailyType'
  BY <1>1, <1>2 DEF DailyType, Hours
<1>4. task'.does # "none" => task' = task /\ task.began = time
  BY <1>2 DEF D!Survivors
<1>5. RunIsShort'
  BY <1>4 DEF RunIsShort
<1> QED BY <1>3, <1>4, <1>5

(* A run begins at the time it is.                                            *)
LEMMA RunBegins ==
    ASSUME NEW t \in Hours
    PROVE  /\ D!Run(t) \in Tasks /\ D!Run(t).does = "pull" /\ D!Run(t).began = t
           /\ D!NoTask \in Tasks /\ D!NoTask.does = "none"
BY DEF D!Run, D!NoTask, Tasks, Hours

LEMMA DailyStep == D!TaskAssumption /\ DailyInv /\ [D!Next]_D!daily => DailyInv'
<1> SUFFICES ASSUME D!TaskAssumption, DailyInv, [D!Next]_D!daily PROVE DailyInv'
  OBVIOUS
<1>0. DailyType /\ RunIsOwed /\ RunIsShort /\ D!RunningBarsCrossTheClose /\ D!MissingAreFew
  BY DEF DailyInv
<1>a. /\ time \in Hours /\ time[1] \in Nat /\ time[2] \in 0..2 /\ since \in Nat /\ since <= time[1]
      /\ task \in Tasks
  BY <1>0 DEF DailyType, Hours
<1>b. decisions' = decisions => (D!RunningBarsCrossTheClose /\ D!MissingAreFew)'
  BY <1>0 DEF D!RunningBarsCrossTheClose, D!MissingAreFew
<1>c. D!NoTask \in Tasks /\ D!NoTask.does = "none"
  BY <1>a, RunBegins
<1>d. D!After(time) \in Hours /\ since <= D!After(time)[1]
  BY <1>a DEF D!After, Hours
<1>1. CASE D!Tick \/ D!Weekend
  <2>1. time' = D!After(time) /\ task' \in D!Survivors
        /\ UNCHANGED <<since, up, served, stored, decisions, missed, due, begun>>
    BY <1>1 DEF D!Tick, D!Weekend, D!Ends
  <2>2. DailyType' /\ RunIsShort' /\ (task'.does # "none" => task' = task)
    BY <1>0, <2>1, TimePasses
  <2>3. RunIsOwed'
    BY <1>0, <2>1, <2>2 DEF RunIsOwed
  <2> QED BY <1>b, <2>1, <2>2, <2>3 DEF DailyInv
<1>2. CASE D!Trigger
  <2>1. time' = D!After(time) /\ due' = D!Today /\ UNCHANGED <<since, up, served, stored, decisions>>
    BY <1>2 DEF D!Trigger, D!Ends
  <2>2. CASE up /\ task' = D!Run(time') /\ begun' = D!Today /\ missed' = FALSE
    <3>1. task' \in Tasks /\ task'.does = "pull" /\ task'.began = time'
      BY <1>d, <2>1, <2>2, RunBegins
    <3>2. DailyType'
      BY <1>0, <1>d, <2>1, <3>1 DEF DailyType, Hours
    <3>3. RunIsShort'
      BY <3>1 DEF RunIsShort
    <3>4. RunIsOwed'
      BY <1>0, <2>1, <2>2 DEF RunIsOwed
    <3> QED BY <1>b, <2>1, <3>2, <3>3, <3>4 DEF DailyInv
  <2>3. CASE task # D!NoTask /\ task' = task /\ task.began = time /\ begun' = D!Today /\ UNCHANGED missed
    <3>1. task' \in D!Survivors
      BY <2>3 DEF D!Survivors
    <3>2. DailyType' /\ RunIsShort'
      BY <1>0, <2>1, <3>1, TimePasses
    <3>3. RunIsOwed'
      BY <1>0, <2>1, <2>3 DEF RunIsOwed
    <3> QED BY <1>b, <2>1, <3>2, <3>3 DEF DailyInv
  <2>4. CASE ~up /\ missed' = D!Settings.startWhenAvailable /\ UNCHANGED <<task, begun>>
    <3>1. task.does = "none" /\ missed' = TRUE
      BY <1>0, <2>4 DEF RunIsOwed, D!Settings
    <3>2. DailyType' /\ RunIsShort'
      BY <1>0, <1>d, <2>1, <2>4, <3>1 DEF DailyType, Hours, RunIsShort
    <3>3. RunIsOwed'
      BY <1>0, <2>1, <2>4, <3>1 DEF RunIsOwed
    <3> QED BY <1>b, <2>1, <3>2, <3>3 DEF DailyInv
  <2> QED BY <1>2, <2>2, <2>3, <2>4 DEF D!Trigger
<1>4. CASE D!GoesOff
  <2>1. DailyType' /\ RunIsShort'
    BY <1>0, <1>c, <1>4 DEF D!GoesOff, DailyType, RunIsShort
  <2>2. RunIsOwed'
    BY <1>0, <1>c, <1>4 DEF D!GoesOff, RunIsOwed
  <2> QED BY <1>b, <1>4, <2>1, <2>2 DEF DailyInv, D!GoesOff
<1>5. CASE D!ComesUp
  <2>1. UNCHANGED <<since, time, due, served, stored, decisions>> /\ ~up /\ up' = TRUE
    BY <1>5 DEF D!ComesUp
  <2>2. CASE missed /\ task' = D!Run(time) /\ begun' = due /\ missed' = FALSE
    <3>1. task' \in Tasks /\ task'.does = "pull" /\ task'.began = time'
      BY <1>a, <2>1, <2>2, RunBegins
    <3>2. DailyType' /\ RunIsShort'
      BY <1>0, <2>1, <3>1 DEF DailyType, RunIsShort
    <3>3. RunIsOwed'
      BY <1>0, <2>1, <2>2 DEF RunIsOwed
    <3> QED BY <1>b, <2>1, <3>2, <3>3 DEF DailyInv
  <2>3. CASE ~missed /\ UNCHANGED <<task, begun, missed>>
    <3>1. DailyType' /\ RunIsShort'
      BY <1>0, <2>1, <2>3 DEF DailyType, RunIsShort
    <3>2. RunIsOwed'
      BY <1>0, <2>1, <2>3 DEF RunIsOwed
    <3> QED BY <1>b, <2>1, <3>1, <3>2 DEF DailyInv
  <2>4. IF missed THEN task' = D!Run(time) /\ begun' = due /\ missed' = FALSE
        ELSE UNCHANGED <<task, begun, missed>>
    BY <1>5 DEF D!ComesUp
  <2> QED BY <2>2, <2>3, <2>4, Zenon
<1>6. CASE D!Pull
  <2>1. PICK newest1 \in {x \in D!Begun : x >= served} \cup {served} :
            /\ served' = newest1
            /\ stored' = [x \in D!TradingDays(since, newest1) |-> IF x \in D!Knowable THEN "final" ELSE "running"]
    BY <1>6 DEF D!Pull
  <2>2. newest1 \in Nat
    BY <1>0, <1>a, <2>1 DEF D!Begun, D!TradingDays, D!Today, DailyType
  <2>3. /\ task' = [task EXCEPT !.does = "decide", !.pulled = time]
        /\ UNCHANGED <<since, time, up, missed, due, begun, decisions, outages, failures>>
        /\ task.does = "pull"
    BY <1>6 DEF D!Pull, D!AfterPull, D!Goes
  <2>t. task' \in Tasks /\ task'.does = "decide" /\ task'.pulled = time /\ task'.began = task.began
    BY <1>a, <2>3 DEF Tasks
  <2>4. DailyType'
    BY <1>0, <2>1, <2>2, <2>3, <2>t DEF DailyType
  <2>5. RunIsOwed'
    BY <1>0, <2>3 DEF RunIsOwed
  <2>6. ASSUME NEW x \in D!TradingDays(since, newest1), x \notin D!Knowable PROVE ~IsOver(x, time)
    BY <1>a, <2>6 DEF D!Knowable, D!Begun, D!TradingDays, D!Today, IsOver
  <2>7. RunIsShort'
    BY <1>0, <2>1, <2>3, <2>t, <2>6 DEF RunIsShort
  <2> QED BY <1>b, <2>3, <2>4, <2>5, <2>7 DEF DailyInv
<1>7. CASE D!PullFails
  <2>1. task' = D!NoTask /\ UNCHANGED <<since, time, up, missed, due, begun, served, stored, decisions>>
    BY <1>7 DEF D!PullFails, D!AfterPull, D!Goes
  <2>2. DailyType' /\ RunIsOwed' /\ RunIsShort'
    BY <1>0, <1>c, <2>1 DEF DailyType, RunIsOwed, RunIsShort
  <2> QED BY <1>b, <2>1, <2>2 DEF DailyInv
<1>8. CASE D!Decide
  <2> DEFINE entry == [at |-> time, pulled |-> task.pulled, read |-> [x \in D!Readable |-> stored[x]],
                       closed |-> D!Knowable]
  <2>1. task.does = "decide" /\ task' = D!NoTask
        /\ UNCHANGED <<since, time, up, missed, due, begun, served, stored>>
    BY <1>8 DEF D!Decide
  <2>2. RunIsOwed' /\ RunIsShort'
    BY <1>0, <1>c, <2>1 DEF RunIsOwed, RunIsShort
  <2>3. CASE ~D!Fresh
    <3>1. decisions' = decisions
      BY <1>8, <2>3 DEF D!Decide
    <3>2. DailyType'
      BY <1>0, <1>c, <2>1, <3>1 DEF DailyType
    <3> QED BY <1>b, <2>2, <3>1, <3>2 DEF DailyInv
  <2>4. CASE D!Fresh
    <3>1. decisions' = {entry}
      BY <1>8, <2>4 DEF D!Decide
    <3>2. entry \in Decision
      <4>1. D!Readable \in SUBSET Nat /\ D!Knowable \in SUBSET Nat
        BY <1>0, KnowableType
      <4>2. D!Readable \subseteq DOMAIN stored
        BY DEF D!Readable
      <4>3. [x \in D!Readable |-> stored[x]] \in [D!Readable -> {"final", "running"}]
        BY <1>0, <4>2 DEF DailyType
      <4>4. [x \in D!Readable |-> stored[x]] \in Readings
        BY <4>1, <4>3 DEF Readings
      <4>5. time \in Hours /\ task.pulled \in Hours
        BY <1>a DEF Tasks
      <4> QED BY <4>1, <4>4, <4>5 DEF Decision
    <3>4. DailyType'
      <4> HIDE DEF entry
      <4> QED BY <1>0, <1>c, <2>1, <3>1, <3>2 DEF DailyType
    <3>5. D!RunningBarsCrossTheClose'
      <4> DEFINE crosses(e) == \A x \in DOMAIN e.read : e.read[x] = "running" => e.pulled = <<x, 1>> /\ e.at = <<x, 2>>
      <4>1. crosses(entry)
        BY <1>0, <2>1, RunningCrosses
      <4>2. (\A e \in decisions' : crosses(e)) => D!RunningBarsCrossTheClose'
        BY DEF D!RunningBarsCrossTheClose
      <4> HIDE DEF crosses, entry
      <4> QED BY <3>1, <4>1, <4>2
    <3>6. D!MissingAreFew'
      <4> DEFINE few(e) == D!Cardinality(e.closed \ DOMAIN e.read) <=
            IF e.at[2] < 2 /\ D!IsTradingDay(e.at[1]) THEN MaxStaleSessions - 1 ELSE MaxStaleSessions
      <4>1. few(entry)
        BY <1>0, <2>4, FewAreMissing, CardinalityD
      <4>2. (\A e \in decisions' : few(e)) => D!MissingAreFew'
        BY DEF D!MissingAreFew
      <4> HIDE DEF few, entry
      <4> QED BY <3>1, <4>1, <4>2
    <3> QED BY <2>2, <3>4, <3>5, <3>6 DEF DailyInv
  <2> QED BY <2>3, <2>4
<1>9. CASE UNCHANGED D!daily
  <2>1. DailyType' /\ RunIsOwed' /\ RunIsShort'
    BY <1>0, <1>9 DEF D!daily, DailyType, RunIsOwed, RunIsShort
  <2> QED BY <1>b, <1>9, <2>1 DEF DailyInv, D!daily
<1> QED BY <1>1, <1>2, <1>4, <1>5, <1>6, <1>7, <1>8, <1>9 DEF D!Next

LEMMA ClockSteps == [Next]_all => [W!Next]_<<interval, began, fires>>
<1>1. Times => [W!Next]_<<interval, began, fires>>
  BY DEF Times, wall
<1>2. UNCHANGED wall => UNCHANGED <<interval, began, fires>>
  BY DEF wall
<1> QED BY <1>1, <1>2 DEF Next, all, wall

(* The daily task decides few sessions behind, and takes a bar pulled in its  *)
(* session only in a run that pulled it before the close and decided after    *)
(* it; a machine that is on has begun a run for the newest trigger; the clock *)
(* fires for every moment and close, holidays by the moon included: in any    *)
(* year, for any number of days and fires, outages and failed pulls, any bar  *)
(* length and any limit.                                                      *)
THEOREM DecisionsAreOnTimeAlways == Spec => []DecisionsAreOnTime
<1>1. Init => DailyInv /\ ClockInv
  <2> SUFFICES ASSUME Init PROVE DailyInv /\ ClockInv
    OBVIOUS
  <2>1. D!TaskAssumption /\ W!ClockAssumption
    BY StoresAssumption DEF StoresAssumption
  <2>2. D!Init /\ W!Init
    BY DEF Init
  <2> QED BY <2>1, <2>2, DailyInit, ClockInit
<1>2. DailyInv /\ ClockInv /\ [Next]_all => (DailyInv /\ ClockInv)'
  BY StoresAssumption, DailySteps, DailyStep, ClockSteps, ClockStep DEF StoresAssumption
<1>3. DailyInv /\ ClockInv => DecisionsAreOnTime
  <2>1. DailyInv => D!RunningBarsCrossTheClose /\ D!MissingAreFew /\ D!UpHasRun
    BY DEF DailyInv, RunIsOwed, D!UpHasRun
  <2>2. W!ClockAssumption
    BY StoresAssumption DEF StoresAssumption
  <2> QED BY <2>1, <2>2, ClockGood DEF DecisionsAreOnTime
<1> QED BY <1>1, <1>2, <1>3, PTL DEF Spec, all
=============================================================================
