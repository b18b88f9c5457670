---------------------------- MODULE RunRegistry -----------------------------
(* The run registry and what hangs on it: processes load a strategy file,    *)
(* register a run, run it, archive it and close it; others rewrite the file, *)
(* delete a run, edit an archive, promote a run into the library or look a   *)
(* run's code up to audit it. All of it works on one family: the runs of one *)
(* strategy name, whatever file they came from.                              *)
EXTENDS Integers, FiniteSets

CONSTANTS
    Processes,     \* processes that run backtests
    MaxRuns,       \* bound: runs registered
    MaxCode,       \* bound: versions of the strategy's source
    MaxDeletes,    \* bound: rows deleted
    MaxEdits       \* bound: archives edited by hand

RegistryAssumption ==
    MaxRuns \in Nat /\ MaxCode \in Nat \ {0} /\ MaxDeletes \in Nat /\ MaxEdits \in Nat

VARIABLES
    file,       \* "ws" and "lib": the source version in the file, 0 when there is none
    newest,     \* the last version written
    w,          \* process -> what it is doing
    rows,       \* the runs table
    archive,    \* run id -> its artifact directory
    header,     \* the run the library's config names in its first line, 0 for none
    hand,       \* the library file was written over since: auxiliary
    ran,        \* run id -> the version it executed: auxiliary
    raced,      \* runs whose file changed while it was loaded: auxiliary
    edited,     \* archives edited by hand: auxiliary
    deleted     \* ids of deleted rows: auxiliary

table == <<rows, archive, ran, raced, deleted>>
library == <<header, hand>>
vars == <<file, newest, w, table, library, edited>>

Paths == {"ws", "lib"}
RunIds == 1..MaxRuns
Idle == [at |-> "idle", path |-> "ws", ran |-> 0, source |-> 0, run |-> 0]
NoArchive == [hash |-> 0, source |-> 0]

Row(r) == CHOOSE x \in rows : x.run = r
Has(r) == \E x \in rows : x.run = r

(* Mutant: only runs that ended well are counted.                            *)
PriorOk(path) == Cardinality({x \in rows : x.path = path /\ x.status = "ok"})
(* create() counts the runs of the strategy and config inside the            *)
(* transaction of its insert; the config names the file.                     *)
Prior(path) == Cardinality({x \in rows : x.path = path})
(* Mutant: runs without numbers are left out.                                *)
FamilyFinished == Cardinality({x \in rows : x.status # "running"})
(* family_attempts: every run of the strategy whatever its config.           *)
FamilyAttempts == Cardinality(rows)

-----------------------------------------------------------------------------
Init ==
    /\ file = [p \in Paths |-> IF p = "ws" THEN 1 ELSE 0] /\ newest = 1
    /\ w = [p \in Processes |-> Idle] /\ rows = {}
    /\ archive = [r \in RunIds |-> NoArchive] /\ header = 0 /\ hand = FALSE
    /\ ran = [r \in RunIds |-> 0] /\ raced = {} /\ edited = {} /\ deleted = {}

(* _write_strategy of a research session: the file is rewritten in place.    *)
Rewrite ==
    /\ newest < MaxCode /\ newest' = newest + 1
    /\ file' = [file EXCEPT !["ws"] = newest + 1]
    /\ UNCHANGED <<w, table, library, edited>>

(* The workspace is cleaned up.                                              *)
Clean ==
    /\ file["ws"] # 0 /\ file' = [file EXCEPT !["ws"] = 0]
    /\ UNCHANGED <<newest, w, table, library, edited>>

(* load_strategy: the module is executed, and its source is read after that. *)
Import(p, path) ==
    /\ w[p].at = "idle" /\ file[path] # 0
    /\ w' = [w EXCEPT ![p] = [Idle EXCEPT !.at = "imported", !.path = path, !.ran = file[path]]]
    /\ UNCHANGED <<file, newest, table, library, edited>>

ReadSource(p) ==
    /\ w[p].at = "imported"
    /\ w' = [w EXCEPT ![p] = IF file[w[p].path] = 0 THEN Idle
                             ELSE [w[p] EXCEPT !.at = "loaded", !.source = file[w[p].path]]]
    /\ UNCHANGED <<file, newest, table, library, edited>>

Register(p) ==
    LET r == 1 + Cardinality({i \in RunIds : ran[i] # 0})
    IN /\ w[p].at = "loaded" /\ r <= MaxRuns
       /\ rows' = rows \cup
              {[run |-> r, path |-> w[p].path, attempt |-> Prior(w[p].path) + 1, status |-> "running"]}
       /\ ran' = [ran EXCEPT ![r] = w[p].ran]
       /\ raced' = IF w[p].ran # w[p].source THEN raced \cup {r} ELSE raced
       /\ w' = [w EXCEPT ![p] = [w[p] EXCEPT !.at = "running", !.run = r]]
       /\ UNCHANGED <<file, newest, archive, deleted, library, edited>>

(* finish(): the row takes the status; a row deleted meanwhile raises.       *)
Finish(r, status) ==
    rows' = {IF x.run = r THEN [x EXCEPT !.status = status] ELSE x : x \in rows}

(* Something raised in the bar loop: the run is recorded as an error.        *)
LoopRaises(p) ==
    /\ w[p].at = "running" /\ Finish(w[p].run, "error") /\ w' = [w EXCEPT ![p] = Idle]
    /\ UNCHANGED <<file, newest, archive, ran, raced, deleted, library, edited>>

(* The bars are through; metrics.json and config.json are written first, the *)
(* second with the hash of the source that was read.                         *)
ArchiveConfig(p) ==
    /\ w[p].at = "running"
    /\ archive' = [archive EXCEPT ![w[p].run].hash = w[p].source]
    /\ w' = [w EXCEPT ![p].at = "archiving"]
    /\ UNCHANGED <<file, newest, rows, ran, raced, deleted, library, edited>>

(* Mutant: what the file holds now is archived.                              *)
ArchivePath(p) ==
    /\ w[p].at = "archiving"
    /\ archive' = [archive EXCEPT ![w[p].run].source = file[w[p].path]]
    /\ w' = [w EXCEPT ![p].at = "archived"]
    /\ UNCHANGED <<file, newest, rows, ran, raced, deleted, library, edited>>

ArchiveSource(p) ==
    /\ w[p].at = "archiving"
    /\ archive' = [archive EXCEPT ![w[p].run].source = w[p].source]
    /\ w' = [w EXCEPT ![p].at = "archived"]
    /\ UNCHANGED <<file, newest, rows, ran, raced, deleted, library, edited>>

FinishOk(p) ==
    /\ w[p].at = "archived" /\ Finish(w[p].run, "ok") /\ w' = [w EXCEPT ![p] = Idle]
    /\ UNCHANGED <<file, newest, archive, ran, raced, deleted, library, edited>>

(* The process dies, or raises outside the loop: an on_start that fails, a   *)
(* warm-up that ate every bar, a disk or a journal that refuses. Nothing     *)
(* closes the row.                                                           *)
Lose(p) ==
    /\ w[p].at # "idle" /\ w' = [w EXCEPT ![p] = Idle]
    /\ UNCHANGED <<file, newest, table, library, edited>>

(* `lab runs delete`: the row goes, the artifacts stay.                      *)
Delete ==
    /\ Cardinality(deleted) < MaxDeletes
    /\ \E x \in rows : rows' = rows \ {x} /\ deleted' = deleted \cup {x.run}
    /\ UNCHANGED <<file, newest, w, archive, ran, raced, library, edited>>

EditArchive ==
    /\ Cardinality(edited) < MaxEdits /\ newest < MaxCode /\ newest' = newest + 1
    /\ \E r \in RunIds :
          /\ archive[r].source # 0 /\ edited' = edited \cup {r}
          /\ archive' = [archive EXCEPT ![r].source = newest + 1]
    /\ UNCHANGED <<file, w, rows, ran, raced, deleted, library>>

(* Mutant: no look at the recorded hash.                                     *)
AnySource(r) == archive[r].hash # 0 /\ archive[r].source # 0
(* read_run_source: archived, and hashing to what was recorded.              *)
RunSource(r) ==
    /\ archive[r].hash # 0 /\ archive[r].source # 0
    /\ archive[r].source = archive[r].hash

(* promote_run into the library: refused over different code or over a       *)
(* config, unless forced; without a config the one there keeps its header.   *)
Promote(r, force, config) ==
    /\ RunSource(r)
    /\ force \/ file["lib"] \in {0, archive[r].source}
    /\ force \/ ~config \/ header = 0
    /\ file' = [file EXCEPT !["lib"] = archive[r].source]
    /\ header' = IF config THEN r ELSE header
    /\ hand' = IF config THEN FALSE ELSE hand \/ file["lib"] # archive[r].source
    /\ UNCHANGED <<newest, w, table, edited>>

(* strategy_write: a new file, or one overwritten knowingly; its config and  *)
(* the header in it stay.                                                    *)
StrategyWrite(overwrite) ==
    /\ newest < MaxCode
    /\ overwrite \/ file["lib"] = 0
    /\ newest' = newest + 1 /\ file' = [file EXCEPT !["lib"] = newest + 1]
    /\ hand' = TRUE
    /\ UNCHANGED <<w, table, header, edited>>

(* Mutant: the library before the archive.                                   *)
LibraryFirst(x) ==
    IF file[x.path] # 0 THEN file[x.path]
    ELSE IF file["lib"] # 0 THEN file["lib"]
    ELSE archive[x.run].source
(* _strategy_path_for: the path the run recorded, while there is a file      *)
(* there; then its archive; then the library.                                *)
CodeOf(x) ==
    IF file[x.path] # 0 THEN file[x.path]
    ELSE IF archive[x.run].source # 0 THEN archive[x.run].source
    ELSE file["lib"]

Step(p) ==
    \/ \E path \in Paths : Import(p, path)
    \/ ReadSource(p) \/ Register(p) \/ LoopRaises(p) \/ ArchiveConfig(p)
    \/ ArchiveSource(p) \/ FinishOk(p) \/ Lose(p)

Next ==
    \/ \E p \in Processes : Step(p)
    \/ Rewrite \/ Clean \/ Delete \/ EditArchive
    \/ \E r \in RunIds, force, config \in BOOLEAN : Promote(r, force, config)
    \/ \E overwrite \in BOOLEAN : StrategyWrite(overwrite)
Spec == Init /\ [][Next]_vars

-----------------------------------------------------------------------------
(* Two processes never get the same attempt of one strategy and config, and  *)
(* no number is skipped, as long as none of those runs was deleted.          *)
AttemptsDistinct ==
    deleted = {} =>
        \A path \in Paths :
            {x.attempt : x \in {y \in rows : y.path = path}} = 1..Prior(path)

(* A look counts from its start: whoever died, failed or is still running    *)
(* stays in the family's count, and so does every run whose numbers are on   *)
(* disk, but for the rows an operator deleted.                               *)
LooksStayCounted ==
    FamilyAttempts + Cardinality(deleted) = Cardinality({r \in RunIds : ran[r] # 0})

(* A run recorded as ok has its code in its archive: the code it executed,   *)
(* whatever became of the file since, unless the file changed in the moment  *)
(* between executing it and reading it back, or the archive was edited.      *)
OkHasItsCode ==
    \A x \in rows :
        (x.status = "ok" /\ x.run \notin raced \cup edited) =>
            archive[x.run] = [hash |-> ran[x.run], source |-> ran[x.run]]

(* The library code under a config that says which run it was promoted from  *)
(* is what that run executed: an edited archive is not promoted, and neither *)
(* is whatever now lies at the recorded path. Excepted: a run that raced its *)
(* file, and a file written over by hand or promoted without its config.     *)
PromotedIsWhatRan ==
    (header # 0 /\ ~hand /\ header \notin raced) => file["lib"] = ran[header]

(* When the file a run recorded is gone, what is perturbed or tested in its  *)
(* name is the code it executed, if it got as far as an archive.             *)
GoneCodeIsFound ==
    \A x \in rows :
        (x.status = "ok" /\ file[x.path] = 0 /\ x.run \notin raced \cup edited) =>
            CodeOf(x) = ran[x.run]
=============================================================================
