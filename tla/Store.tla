------------------------------- MODULE Store --------------------------------
(* The event table on disk: one directory of files per partition, rewritten   *)
(* whole by whoever writes to it. A process writes its rows partition by      *)
(* partition: read what is there, stage the merged file outside the table,    *)
(* remove the files there, move the staged one in.                            *)
EXTENDS Integers, Sequences, FiniteSets, SequencesExt

CONSTANTS
    Writers,     \* processes that may write at the same time
    Parts,       \* the partitions, in the order they are written
    PartOf(_),   \* the partition of a row: its source, ticker and year
    MaxDeaths    \* bound: writers killed

VARIABLES
    disk,     \* partition -> file number -> its rows
    at,       \* writer -> "idle", "read", "list" or "swap"
    rows,     \* writer -> rows it has still to write
    merged,   \* writer -> the staged file
    doomed,   \* writer -> files it has found, then those it has listed and will remove
    target,   \* writer -> the number its file will take
    kept,     \* partition -> uids once placed there, an auxiliary variable
    hurt,     \* partitions a writer died in the middle of, or two were at: auxiliary
    deaths

store == <<disk, at, rows, merged, doomed, target, kept, hurt, deaths>>

Uids(R) == {r.uid : r \in R}
(* Mutant: nothing dropped.                                                   *)
KeepAll(old, new) == old \cup new

(* drop_duplicates, the last one kept.                                        *)
Over(old, new) == new \cup {r \in old : r.uid \notin Uids(new)}
LastOf(batch) ==
    {batch[i] : i \in {j \in 1..Len(batch) :
        \A k \in (j + 1)..Len(batch) : batch[k].uid # batch[j].uid}}

(* The partition a writer is on: the first one it has rows for.               *)
PartIndex(R) == CHOOSE i \in 1..Len(Parts) :
    /\ \E r \in R : PartOf(r) = Parts[i]
    /\ \A j \in 1..(i - 1) : \A r \in R : PartOf(r) # Parts[j]
Part(w) == Parts[PartIndex(rows[w])]
Mine(w) == {r \in rows[w] : PartOf(r) = Part(w)}
Files(p) == DOMAIN disk[p]
(* The files of a partition, each over those with a smaller number.           *)
Combined(p) ==
    UNION {{r \in disk[p][f] : \A g \in Files(p) : g > f => r.uid \notin Uids(disk[p][g])} : f \in Files(p)}
NextIndex(p) == IF Files(p) = {} THEN 0 ELSE 1 + CHOOSE n \in Files(p) : \A m \in Files(p) : m <= n
(* What a query returns: every row of every file.                             *)
Stored(p) == UNION {disk[p][f] : f \in Files(p)}
Rows == UNION {Stored(p) : p \in ToSet(Parts)}

Writing(w) == at[w] \in {"list", "swap"}
(* The partition of a writer when another is at it.                           *)
Met(w) == {Part(v) : v \in {x \in Writers \ {w} : Writing(x) /\ Part(x) = Part(w)}}

---------------------------------------------------------------------------
Init ==
    /\ disk = [p \in ToSet(Parts) |-> <<>>]
    /\ at = [w \in Writers |-> "idle"] /\ rows = [w \in Writers |-> {}]
    /\ merged = [w \in Writers |-> {}] /\ doomed = [w \in Writers |-> {}]
    /\ target = [w \in Writers |-> 0]
    /\ kept = [p \in ToSet(Parts) |-> {}] /\ hurt = {} /\ deaths = 0

(* write_events: an empty frame writes nothing, a row known before it         *)
(* happened refuses the whole frame.                                          *)
Write(w, batch) ==
    /\ at[w] = "idle"
    /\ IF batch # <<>> /\ \A i \in 1..Len(batch) : batch[i].know >= batch[i].event
       THEN rows' = [rows EXCEPT ![w] = LastOf(batch)] /\ at' = [at EXCEPT ![w] = "read"]
       ELSE UNCHANGED <<rows, at>>
    /\ UNCHANGED <<disk, merged, doomed, target, kept, hurt, deaths>>

(* Mutant: what is on disk is not read back.                                  *)
ReadNothing(w) ==
    /\ at[w] = "read" /\ at' = [at EXCEPT ![w] = "list"]
    /\ merged' = [merged EXCEPT ![w] = Mine(w)]
    /\ doomed' = [doomed EXCEPT ![w] = Files(Part(w))]
    /\ hurt' = hurt \cup Met(w)
    /\ UNCHANGED <<disk, rows, target, kept, deaths>>

Read(w) ==
    /\ at[w] = "read" /\ at' = [at EXCEPT ![w] = "list"]
    /\ merged' = [merged EXCEPT ![w] = Over(Combined(Part(w)), Mine(w))]
    (* Only a partition with files is rewritten; the others get a file more.  *)
    /\ doomed' = [doomed EXCEPT ![w] = Files(Part(w))]
    /\ hurt' = hurt \cup Met(w)
    /\ UNCHANGED <<disk, rows, target, kept, deaths>>

(* The merged file is staged; then the files to remove are listed, or the     *)
(* next number is taken.                                                      *)
List(w) ==
    /\ at[w] = "list" /\ at' = [at EXCEPT ![w] = "swap"]
    /\ IF doomed[w] = {}
       THEN target' = [target EXCEPT ![w] = NextIndex(Part(w))] /\ UNCHANGED doomed
       ELSE /\ target' = [target EXCEPT ![w] = 0]
            /\ doomed' = [doomed EXCEPT ![w] = Files(Part(w))]
    /\ UNCHANGED <<disk, rows, merged, kept, hurt, deaths>>

Reset(w) ==
    /\ at' = [at EXCEPT ![w] = "idle"] /\ rows' = [rows EXCEPT ![w] = {}]
    /\ merged' = [merged EXCEPT ![w] = {}] /\ doomed' = [doomed EXCEPT ![w] = {}]
    /\ target' = [target EXCEPT ![w] = 0]

(* The next listed file is removed; when another writer was faster the removal     *)
(* raises, the staged file is dropped and the rest of the frame is not        *)
(* written.                                                                   *)
Drop(w) ==
    /\ at[w] = "swap" /\ doomed[w] # {}
    /\ IF Min(doomed[w]) \in Files(Part(w))
       THEN /\ disk' = [disk EXCEPT ![Part(w)] = [f \in Files(Part(w)) \ {Min(doomed[w])} |-> @[f]]]
            /\ doomed' = [doomed EXCEPT ![w] = @ \ {Min(@)}]
            /\ UNCHANGED <<at, rows, merged, target>>
       ELSE Reset(w) /\ UNCHANGED disk
    /\ UNCHANGED <<kept, hurt, deaths>>

Place(w) ==
    /\ at[w] = "swap" /\ doomed[w] = {}
    /\ disk' = [disk EXCEPT ![Part(w)] =
           [f \in Files(Part(w)) \cup {target[w]} |-> IF f = target[w] THEN merged[w] ELSE @[f]]]
    /\ kept' = [kept EXCEPT ![Part(w)] = @ \cup Uids(merged[w])]
    /\ IF rows[w] = Mine(w)
       THEN Reset(w)
       ELSE /\ rows' = [rows EXCEPT ![w] = @ \ Mine(w)] /\ at' = [at EXCEPT ![w] = "read"]
            /\ merged' = [merged EXCEPT ![w] = {}] /\ target' = [target EXCEPT ![w] = 0]
            /\ UNCHANGED doomed
    /\ UNCHANGED <<hurt, deaths>>

(* The process is killed: its staged file stays outside the table, the rest   *)
(* of its rows are gone.                                                      *)
Die(w) ==
    /\ at[w] # "idle" /\ deaths < MaxDeaths /\ deaths' = deaths + 1
    /\ hurt' = hurt \cup (IF at[w] = "swap" THEN {Part(w)} ELSE {})
    /\ Reset(w) /\ UNCHANGED <<disk, kept>>

Step(w) == Read(w) \/ List(w) \/ Drop(w) \/ Place(w) \/ Die(w)

---------------------------------------------------------------------------
TypeOK ==
    /\ at \in [Writers -> {"idle", "read", "list", "swap"}]
    /\ \A w \in Writers : at[w] # "idle" => rows[w] # {}

(* The facts of a partition, with those its writer has in hand to put back.   *)
Held(p) ==
    Uids(Stored(p)) \cup UNION {Uids(merged[w]) : w \in {v \in Writers : at[v] = "swap" /\ Part(v) = p}}
(* Rows leave a partition only into the hands of the writer that is putting   *)
(* them back - except a partition that a writer died in the middle of, or     *)
(* that two were at. No other partition pays for it, then or later. That one  *)
(* may lose its rows, "atomic rewrites" (parquet_io.py:77) or not: its files  *)
(* are removed before the merged one is moved in.                             *)
NothingLost == \A p \in ToSet(Parts) \ hurt : kept[p] \subseteq Held(p)

(* One row per fact: a re-pull restates an event, it does not count it twice, *)
(* within a file and over the files of a partition, with the same exception.  *)
OneRowPerFact == \A r, q \in Rows : PartOf(r) \notin hurt /\ r.uid = q.uid => r = q
=============================================================================
