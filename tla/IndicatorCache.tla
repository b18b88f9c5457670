---------------------------- MODULE IndicatorCache ----------------------------
(* The indicator cache on disk (indicators/cache.py): threads of several     *)
(* processes ask for an indicator over the frame they read, by parameters    *)
(* they spell as they like; the store is restated, processes die, somebody   *)
(* clears the directory. A series is what it was computed from: parameters   *)
(* and a version of the data.                                                *)
EXTENDS Integers, FiniteSets

CONSTANTS
    Askers,        \* threads that ask
    Process,       \* asker -> its process; a temporary file is named after that
    Spellings,     \* spelling of parameters -> their canonical form
    MaxVersion,    \* bound: restatements of the data
    MaxKills,      \* bound: processes that die
    MaxClears      \* bound: times the cache is cleared

CacheAssumption ==
    /\ \A a \in Askers : a \in DOMAIN Process
    /\ DOMAIN Spellings # {}
    /\ MaxVersion \in Nat \ {0} /\ MaxKills \in Nat /\ MaxClears \in Nat

VARIABLES
    version,   \* data_version of the store
    entries,   \* files under their keys: the series and who still writes it
    temps,     \* temporary files, under <<process, key>>: the same
    ask,       \* asker -> [at, spelling, version, got]
    kills, clears
cacheVars == <<version, entries, temps, ask, kills, clears>>

Value(spelling, v) == <<Spellings[spelling], v>>
(* What the parameters may be spelled as, as they stand in a key.            *)
Keys == (DOMAIN Spellings \cup {Spellings[p] : p \in DOMAIN Spellings}) \X (1..MaxVersion)

(* Mutant: the version of the data is not in the key.                        *)
KeyUnversioned(spelling, v) == <<Spellings[spelling], 1>>
(* Mutant: the parameters as they were spelled.                              *)
KeyAsSpelled(spelling, v) == <<spelling, v>>
(* cache_key: the canonical parameters and the version of the data.          *)
Key(spelling, v) == <<Spellings[spelling], v>>

None == [of |-> <<>>, open |-> {}]
Calm == [at |-> "calm", spelling |-> CHOOSE p \in DOMAIN Spellings : TRUE, version |-> 1, got |-> <<>>]
Mine(a) == Key(ask[a].spelling, ask[a].version)
Computed(a) == Value(ask[a].spelling, ask[a].version)
Temp(a) == <<Process[a], Mine(a)>>

Init ==
    /\ version = 1
    /\ entries = [k \in Keys |-> None]
    /\ temps = [t \in {Process[a] : a \in Askers} \X Keys |-> None]
    /\ ask = [a \in Askers |-> Calm] /\ kills = 0 /\ clears = 0

Goes(a, at) == ask' = [ask EXCEPT ![a].at = at]
Returns(a, value) == ask' = [ask EXCEPT ![a].at = "done", ![a].got = value]

(* A caller has read the bars and their version, and calls cached_indicator. *)
Ask(a, spelling) ==
    /\ ask[a].at \in {"calm", "done"}
    /\ ask' = [ask EXCEPT ![a] = [at |-> "get", spelling |-> spelling, version |-> version, got |-> <<>>]]
    /\ UNCHANGED <<version, entries, temps, kills, clears>>

(* Mutant: whatever the file holds is returned.                              *)
ReadableAny(e) == e # None
(* A file somebody still writes, or died writing, cannot be read.            *)
Readable(e) == e # None /\ e.open = {}
(* get: a hit.                                                               *)
Hit(a) ==
    /\ ask[a].at = "get" /\ Readable(entries[Mine(a)])
    /\ Returns(a, entries[Mine(a)].of)
    /\ UNCHANGED <<version, entries, temps, kills, clears>>

(* No entry, or one that cannot be read and is dropped: it is computed.      *)
Miss(a) ==
    /\ ask[a].at = "get" /\ ~Readable(entries[Mine(a)])
    /\ entries' = [entries EXCEPT ![Mine(a)] = None]
    /\ Goes(a, "write") /\ UNCHANGED <<version, temps, kills, clears>>

(* put: the temporary file is begun, ended and renamed over the entry, and a *)
(* temporary file that is still there is unlinked. Two threads of a process  *)
(* have one name for it, so each may rename or unlink what the other writes; *)
(* what is written goes to the file wherever it was renamed to.              *)
Begin(a) ==
    /\ ask[a].at = "write"
    /\ temps' = [temps EXCEPT ![Temp(a)] = [of |-> Computed(a), open |-> @.open \cup {a}]]
    /\ Goes(a, "writing") /\ UNCHANGED <<version, entries, kills, clears>>
Closed(e, S, left) == IF e.open \cap S = {} THEN e ELSE [e EXCEPT !.open = (@ \ S) \cup left]
End(a) ==
    /\ ask[a].at = "writing"
    /\ temps' = [t \in DOMAIN temps |-> Closed(temps[t], {a}, {})]
    /\ entries' = [k \in Keys |-> Closed(entries[k], {a}, {})]
    /\ Goes(a, "replace") /\ UNCHANGED <<version, kills, clears>>
Replace(a) ==
    /\ ask[a].at = "replace"
    /\ IF temps[Temp(a)] = None
       THEN Goes(a, "raised") /\ UNCHANGED <<entries, temps>>
       ELSE /\ entries' = [entries EXCEPT ![Mine(a)] = temps[Temp(a)]]
            /\ temps' = [temps EXCEPT ![Temp(a)] = None]
            /\ Goes(a, "replaced")
    /\ UNCHANGED <<version, kills, clears>>
Unlink(a) ==
    /\ ask[a].at \in {"replaced", "raised"}
    /\ temps' = [temps EXCEPT ![Temp(a)] = None]
    /\ IF ask[a].at = "replaced" THEN Returns(a, Computed(a)) ELSE Goes(a, "calm")
    /\ UNCHANGED <<version, entries, kills, clears>>

Restate ==
    /\ version < MaxVersion /\ version' = version + 1
    /\ UNCHANGED <<entries, temps, ask, kills, clears>>

(* Whoever dies writing leaves a file that nobody will end.                  *)
Kill(p) ==
    LET dead == {a \in Askers : Process[a] = p}
    IN /\ kills < MaxKills /\ kills' = kills + 1
       /\ ask' = [a \in Askers |-> IF a \in dead THEN Calm ELSE ask[a]]
       /\ temps' = [t \in DOMAIN temps |-> Closed(temps[t], dead, {"dead"})]
       /\ entries' = [k \in Keys |-> Closed(entries[k], dead, {"dead"})]
       /\ UNCHANGED <<version, clears>>

(* clear: of one indicator, or of all, and then the temporary files too.     *)
Clear(all) ==
    /\ clears < MaxClears /\ clears' = clears + 1
    /\ entries' = [k \in Keys |-> None]
    /\ temps' = IF all THEN [t \in DOMAIN temps |-> None] ELSE temps
    /\ UNCHANGED <<version, ask, kills>>

Next ==
    \/ \E a \in Askers :
          \/ \E spelling \in DOMAIN Spellings : Ask(a, spelling)
          \/ Hit(a) \/ Miss(a) \/ Begin(a) \/ End(a) \/ Replace(a) \/ Unlink(a)
    \/ Restate
    \/ \E a \in Askers : Kill(Process[a])
    \/ \E all \in BOOLEAN : Clear(all)
Spec == Init /\ [][Next]_cacheVars

-----------------------------------------------------------------------------
(* What a caller is given is what computing it over the frame it read would  *)
(* have given: never a series of data that was restated, of other parameters *)
(* or of a file somebody was still writing, even where two threads of one    *)
(* process write the same temporary file.                                    *)
GivenIsComputed ==
    \A a \in Askers : ask[a].at = "done" => ask[a].got = Computed(a)

(* An entry is under the key of what it holds, and one spelling of the       *)
(* parameters finds what another one stored.                                 *)
EntriesUnderTheirKey ==
    \A k \in Keys : Readable(entries[k]) => \A p \in DOMAIN Spellings, v \in 1..MaxVersion :
        Value(p, v) = entries[k].of => Key(p, v) = k
=============================================================================
