------------------------------ MODULE Findings ------------------------------
(* What the lab concluded (registry/findings.py): a table of claims with a   *)
(* status, notes and runs, written by several clients at once. A record and  *)
(* its supersession are one transaction; an update reads the row outside of  *)
(* its transaction and then writes the whole row back.                       *)
EXTENDS Integers, Sequences, FiniteSets

CONSTANTS
    Authors,       \* clients that write findings
    MaxFindings,   \* bound: findings recorded
    MaxUpdates     \* bound: updates of all findings

FindingsAssumption == MaxFindings \in Nat \ {0} /\ MaxUpdates \in Nat

VARIABLES
    claims,   \* the findings table, in the order of recording
    read,     \* client -> the row its update has read, and the status it names
    named,    \* per finding: the notes of its answered updates, auxiliary
    reopened, \* replaced findings whose status was named since, auxiliary
    late      \* findings written over a change their update had not read, auxiliary

findingsVars == <<claims, read, named, reopened, late>>

NoUpdate == [id |-> 0, row |-> [status |-> "open", history |-> <<>>, by |-> 0], to |-> "same"]
Ids == 1..Len(claims)
Answered == Cardinality(UNION {named[i] : i \in DOMAIN named})
Reading == {a \in Authors : read[a].id # 0}

Init ==
    /\ claims = <<>> /\ read = [a \in Authors |-> NoUpdate]
    /\ named = <<>> /\ reopened = {} /\ late = {}

(* record: what it supersedes must exist, and takes its status in the same   *)
(* transaction, with no line in its history.                                 *)
Record(supersedes) ==
    /\ Len(claims) < MaxFindings /\ supersedes \in 0..Len(claims)
    /\ claims' =
           [i \in 1..(Len(claims) + 1) |->
               IF i > Len(claims) THEN NoUpdate.row
               ELSE IF i = supersedes
               THEN [claims[i] EXCEPT !.status = "superseded", !.by = Len(claims) + 1]
               ELSE claims[i]]
    /\ named' = Append(named, {})
    /\ reopened' = reopened \ {supersedes}
    /\ UNCHANGED <<read, late>>

(* update reads the row outside of its transaction.                          *)
ReadRow(a, i, to) ==
    /\ read[a].id = 0 /\ Answered + Cardinality(Reading) < MaxUpdates
    /\ read' = [read EXCEPT ![a] = [id |-> i, row |-> claims[i], to |-> to]]
    /\ UNCHANGED <<claims, named, reopened, late>>

(* Mutant: the history is replaced by the new line.                          *)
OnlyLast(row, line) == <<line>>
Entered(row, line) == Append(row.history, line)

(* Mutant: an update that names no status opens the claim.                   *)
OrOpen(row, to) == IF to = "same" THEN "open" ELSE to
NewStatus(row, to) == IF to = "same" THEN row.status ELSE to

(* and writes it back whole.                                                 *)
WriteRow(a) ==
    LET i == read[a].id
        row == read[a].row
        to == NewStatus(row, read[a].to)
        note == Answered + 1
    IN /\ a \in Reading
       /\ claims' = [claims EXCEPT
              ![i].status = to,
              ![i].history = Entered(row, [from |-> row.status, to |-> to, note |-> note])]
       /\ named' = [named EXCEPT ![i] = @ \cup {note}]
       /\ reopened' = IF read[a].to = "same" THEN reopened ELSE reopened \cup {i}
       /\ late' = IF claims[i] # row THEN late \cup {i} ELSE late
       /\ read' = [read EXCEPT ![a] = NoUpdate]

(* search and digest: what is superseded is left out unless asked for.       *)
Digest == {i \in Ids : claims[i].status # "superseded"}

Next ==
    \/ \E old \in 0..MaxFindings : Record(old)
    \/ \E a \in Authors, i \in Ids, to \in {"same", "confirmed"} : ReadRow(a, i, to)
    \/ \E a \in Authors : WriteRow(a)

-----------------------------------------------------------------------------
(* The history of a claim is kept: every answered note is in it, and each    *)
(* line starts where the one before it ended, but for claims that two        *)
(* clients changed at once, and for the step into superseded.                *)
HistoryIsKept ==
    \A i \in Ids \ late :
        LET h == claims[i].history
        IN /\ {h[k].note : k \in DOMAIN h} = named[i]
           /\ \A k \in 1..(Len(h) - 1) : h[k + 1].from \in {h[k].to, "superseded"}

(* A claim another one replaced is read as current again only if somebody    *)
(* named a status for it since: a note or a run added to it leaves it out.   *)
ReplacedStaysOut ==
    \A i \in Ids \ late :
        (claims[i].by # 0 /\ i \in Digest) => i \in reopened
=============================================================================
