------------------------------ MODULE Research ------------------------------
(* One research session of lab/agent/research.py: sittings that come and go  *)
(* and may crash, session.json, the workspace the model writes strategies    *)
(* into, the agent_calls ledger and the runs the registry keeps. Time is     *)
(* counted in minutes; a turn's time, that of its backtests included, passes *)
(* while its model answers.                                                  *)
(* No experiment that has a run is contaminated (_run_experiment refuses     *)
(* those), so the refusal of a contaminated pick is left out.                *)
EXTENDS ModelCall

CONSTANTS
    Library,        \* strategy file -> what its code is: "plain" or "llm"
    Asked,          \* LAB_AGENT_PROVIDER
    MaxCalls, Budget, MaxMinutes, MaxExperiments,   \* ResearchConfig
    FailureLimit,     \* consecutive failures that end a sitting: 3
    CheckNeighbours,  \* neighbourhood_runs > 0
    Writes,         \* what the model writes: subset of {"plain", "llm"} (bound)
    MaxCrashes      \* bound

Files == DOMAIN Library
NoRun == 0
MaxRuns == MaxExperiments * (MaxCrashes + 1)
Unknown == MaxRuns + 1    \* a run id the model made up

LimitsAssumption ==
    /\ MaxCalls \in Nat \ {0} /\ Budget \in Nat \ {0} /\ MaxMinutes \in Nat \ {0}
    /\ FailureLimit \in Nat \ {0} /\ MaxExperiments \in Nat /\ MaxCrashes \in Nat
    /\ CheckNeighbours \in BOOLEAN /\ Writes \subseteq {"plain", "llm"}

VARIABLES
    pc,        \* where the sitting is
    s,         \* the session in memory
    disk,      \* session.json
    client,    \* the backend of the sitting
    failures,  \* consecutive_failures
    minutes,   \* since the sitting started
    room,      \* the situation of this turn leaves room for another
    call,      \* what the model sent
    made,      \* the experiment being recorded
    ws,        \* workspace file -> its code
    stop,      \* the STOP file exists
    ledger,    \* agent_calls of this session: how many, their cost, how many linked to a run
    runs,      \* registry: the runs of this session, in order
    crashes

vars == <<pc, s, disk, client, failures, minutes, room, call, made, ws, stop, ledger, runs, crashes>>

NoFile == "none"
NoCall == [ok |-> FALSE, limit |-> FALSE, input |-> Nothing]
Fresh == [saved |-> FALSE, calls |-> 0, spend |-> 0, minutes |-> 0, exps |-> <<>>,
          neighbours |-> <<>>, challenged |-> FALSE, status |-> "running", because |-> "", pick |-> NoRun]

(* The code a name stands for: the workspace shadows the library.            *)
Code(f) == IF ws[f] # NoFile THEN ws[f] ELSE Library[f]
(* _is_llm_strategy: its backtest would measure what the model remembers.    *)
Contaminated(f) == Code(f) = "llm"

-----------------------------------------------------------------------------
(* Payloads: RESEARCH_ACTION_TOOL, with fields left out or made up.          *)

Act(a, f, r) == [action |-> a, strategy |-> f, run |-> r]
Payloads ==
    {Act("backtest", f, NoRun) : f \in Files \cup {NoFile}}
    \cup {Act("write", f, NoRun) : f \in Files}
    \cup {Act("note", NoFile, NoRun)}
    \cup {Act("finish", NoFile, r) : r \in {NoRun, Unknown} \cup 1..Len(runs)}

(* validate_action: known action, and the fields that action needs.          *)
Valid(p) ==
    /\ p # Nothing
    /\ p.action \in {"backtest", "write"} => p.strategy # NoFile
    /\ p.action = "finish" => p.run # NoRun

-----------------------------------------------------------------------------
Init ==
    /\ pc = "off" /\ s = Fresh /\ disk = Fresh /\ client = NoBackend /\ failures = 0
    /\ minutes = 0 /\ room = FALSE /\ call = NoCall /\ made = <<>>
    /\ ws = [f \in Files |-> NoFile] /\ stop = FALSE
    /\ ledger = [calls |-> 0, spend |-> 0, linked |-> 0] /\ runs = <<>> /\ crashes = 0

Saved(t) == [t EXCEPT !.saved = TRUE]

(* run_research up to its loop: load the session, or make one.               *)
LoadedMutant == [disk EXCEPT !.status = "running", !.because = "", !.exps = <<>>]
Loaded == [disk EXCEPT !.status = "running", !.because = ""]
Opened == IF disk.saved THEN Loaded ELSE Fresh

(* The command, with the kill switch released: a backend or no sitting.      *)
Start ==
    /\ pc = "off"
    /\ \E usable \in SUBSET Backends :
        /\ Resolve(Asked, usable) # NoBackend
        /\ client' = Resolve(Asked, usable)
    /\ s' = Opened
    /\ pc' = "top" /\ failures' = 0 /\ minutes' = 0
    /\ UNCHANGED <<disk, room, call, made, ws, stop, ledger, runs, crashes>>

(* The console's stop: a file, and nothing that removes it.                  *)
Stop ==
    /\ ~stop /\ stop' = TRUE
    /\ UNCHANGED <<pc, s, disk, client, failures, minutes, room, call, made, ws, ledger, runs, crashes>>

Elapsed == s.minutes + minutes
StopReason ==
    IF Elapsed >= MaxMinutes THEN "time_limit"
    ELSE IF s.spend >= Budget THEN "budget"
    ELSE IF s.calls >= MaxCalls THEN "call_limit"
    ELSE IF Len(s.exps) >= MaxExperiments THEN "experiment_limit"
    ELSE IF stop THEN "stopped_by_operator"
    ELSE ""
HasRoomMutant == TRUE
HasRoom == MaxCalls - s.calls > 2 /\ MaxMinutes - Elapsed > 2

(* The top of the loop: the situation of this turn, and whether to go on.    *)
Top ==
    /\ pc = "top"
    /\ room' = HasRoom
    /\ IF StopReason = "" THEN pc' = "ask" /\ UNCHANGED s
       ELSE pc' = "close" /\ s' = [s EXCEPT !.because = StopReason]
    /\ UNCHANGED <<disk, client, failures, minutes, call, made, ws, stop, ledger, runs,
                   crashes>>

(* record_call and link_call: a row for the exchange, failed or not, before  *)
(* the session counts it; the row is pointed at the run once there is one.   *)
Recorded(c) == [ledger EXCEPT !.calls = ledger.calls + 1, !.spend = ledger.spend + c.cost]
Linked == [ledger EXCEPT !.linked = ledger.linked + Cardinality({i \in DOMAIN made : made[i].ok})]

(* call_tool: the ledger's row first, then the session's own counters.       *)
CountedMutant(c) == IF c.ok THEN 1 ELSE 0
Counted(c) == 1
ChargedMutant(c) == IF c.ok THEN c.cost ELSE 0
Charged(c) == c.cost
Ask ==
    /\ pc = "ask"
    /\ \E c \in Calls(client, Payloads), dt \in 0..1 :
        /\ call' = [ok |-> c.ok, limit |-> c.limit, input |-> c.input] /\ minutes' = minutes + dt
        /\ ledger' = Recorded(c)
        /\ s' = [s EXCEPT !.calls = s.calls + Counted(c), !.spend = s.spend + Charged(c)]
    /\ pc' = "answered"
    /\ UNCHANGED <<disk, client, failures, room, made, ws, stop, runs, crashes>>

(* A limit ends the sitting; it is not a failure.                            *)
LimitReached ==
    /\ pc = "answered" /\ ~call.ok /\ call.limit
    /\ s' = [s EXCEPT !.because = "rate_limit"] /\ pc' = "close" /\ call' = NoCall
    /\ UNCHANGED <<disk, client, failures, minutes, room, made, ws, stop, ledger, runs, crashes>>

(* A failed call or an invalid action: too many in a row end the sitting. The   *)
(* loop goes on without a save.                                              *)
EnoughMutant == failures >= FailureLimit
Enough == failures + 1 >= FailureLimit
Fail ==
    /\ pc = "answered" /\ ~call.limit /\ (~call.ok \/ ~Valid(call.input))
    /\ failures' = failures + 1
    /\ IF Enough
       THEN /\ s' = [s EXCEPT !.because = IF call.ok THEN "invalid_actions" ELSE "model_errors"]
            /\ pc' = "close"
       ELSE pc' = "top" /\ UNCHANGED s
    /\ call' = NoCall
    /\ UNCHANGED <<disk, client, minutes, room, made, ws, stop, ledger, runs, crashes>>

Handles(a) ==
    /\ pc = "answered" /\ call.ok /\ Valid(call.input) /\ call.input.action = a
    /\ failures' = 0

(* The end of a completed turn.                                              *)
SaveTurnMutant(t) == UNCHANGED disk
SaveTurn(t) == disk' = Saved(t)

(* note, inspect and review change nothing but the turns.                    *)
Note ==
    /\ Handles("note")
    /\ SaveTurn(s) /\ pc' = "top" /\ call' = NoCall
    /\ UNCHANGED <<s, client, minutes, room, made, ws, stop, ledger, runs, crashes>>

Write ==
    /\ Handles("write")
    /\ \E kind \in Writes : ws' = [ws EXCEPT ![call.input.strategy] = kind]
    /\ SaveTurn(s) /\ pc' = "top" /\ call' = NoCall
    /\ UNCHANGED <<s, client, minutes, room, made, stop, ledger, runs, crashes>>

(* _run_experiment: a strategy with a model in it is refused; a run that     *)
(* ends is in the registry before the session knows of it.                   *)
Experiment(f, run, ok) ==
    [file |-> f, run |-> run, ok |-> ok,
     variant |-> Cardinality({i \in DOMAIN s.exps : s.exps[i].file = f}) + 1]
Backtest ==
    /\ Handles("backtest")
    /\ LET f == call.input.strategy IN
        \/ /\ ~Contaminated(f)
           /\ runs' = Append(runs, f)
           /\ made' = <<Experiment(f, Len(runs) + 1, TRUE)>>
        \/ /\ UNCHANGED runs            \* refused, or the backtest raises
           /\ made' = <<Experiment(f, NoRun, FALSE)>>
    /\ pc' = "ran" /\ call' = NoCall
    /\ UNCHANGED <<s, disk, client, minutes, room, ws, stop, ledger, crashes>>
Looks(t) == Cardinality({i \in DOMAIN t.exps : t.exps[i].ok})
Record ==
    /\ pc = "ran"
    /\ s' = [s EXCEPT !.exps = s.exps \o made]
    /\ ledger' = Linked
    /\ SaveTurn(s') /\ made' = <<>> /\ pc' = "top"
    /\ UNCHANGED <<client, failures, minutes, room, call, ws, stop, runs, crashes>>

(* finish: the first one that names a run of this session has its            *)
(* neighbourhood run, by the strategy's name, and saved.                     *)
Chosen(r) == {i \in DOMAIN s.exps : s.exps[i].run = r}
Finish ==
    /\ Handles("finish")
    /\ LET r == call.input.run IN
        IF CheckNeighbours /\ Chosen(r) # {} /\ s.neighbours = <<>>
        THEN LET f == s.exps[CHOOSE i \in Chosen(r) : TRUE].file IN
             /\ \E fragile \in IF ~Contaminated(f) THEN BOOLEAN ELSE {FALSE} :
                    s' = [s EXCEPT !.neighbours = <<[of |-> r, fragile |-> fragile]>>]
             /\ disk' = Saved(s')
        ELSE UNCHANGED <<s, disk>>
    /\ pc' = "judge"
    /\ UNCHANGED <<client, minutes, room, call, made, ws, stop, ledger, runs, crashes>>

(* A fragile pick is refused once, if the turn found room for another; the   *)
(* refusal is not saved. Else the pick stands.                               *)
Fragile == s.neighbours # <<>> /\ s.neighbours[1].fragile
Refuse ==
    /\ pc = "judge" /\ CheckNeighbours /\ Chosen(call.input.run) # {}
    /\ Fragile /\ ~s.challenged /\ room
    /\ s' = [s EXCEPT !.challenged = TRUE] /\ pc' = "top" /\ call' = NoCall
    /\ UNCHANGED <<disk, client, failures, minutes, room, made, ws, stop, ledger, runs, crashes>>
Accept ==
    /\ pc = "judge"
    /\ ~(CheckNeighbours /\ Chosen(call.input.run) # {} /\ Fragile /\ ~s.challenged /\ room)
    /\ s' = [s EXCEPT !.pick = call.input.run, !.because = "satisfied"]
    /\ pc' = "close" /\ call' = NoCall
    /\ UNCHANGED <<disk, client, failures, minutes, room, made, ws, stop, ledger, runs, crashes>>

Over == pc' = "off" /\ client' = NoBackend /\ failures' = 0 /\ minutes' = 0 /\ room' = FALSE

(* After the loop: the clock, the status, the last save.                     *)
Close ==
    /\ pc = "close"
    /\ s' = [s EXCEPT !.minutes = Elapsed,
                      !.status = IF s.because = "satisfied" THEN "finished" ELSE "stopped"]
    /\ disk' = Saved(s') /\ Over
    /\ UNCHANGED <<call, made, ws, stop, ledger, runs, crashes>>

(* The process dies between two steps and its memory is gone.                *)
Crash ==
    /\ pc # "off" /\ crashes < MaxCrashes
    /\ Over /\ s' = Fresh /\ crashes' = crashes + 1 /\ made' = <<>> /\ call' = NoCall
    /\ UNCHANGED <<disk, ws, stop, ledger, runs>>

Sitting ==
    \/ Top \/ Ask \/ LimitReached \/ Fail \/ Note \/ Write \/ Backtest \/ Record
    \/ Finish \/ Refuse \/ Accept \/ Close
Next == Start \/ Stop \/ Sitting \/ Crash
Spec == Init /\ [][Next]_vars

-----------------------------------------------------------------------------
TypeOK ==
    /\ pc \in {"off", "top", "ask", "answered", "ran", "judge", "close"}
    /\ {s.calls, s.spend, s.minutes, disk.calls, disk.spend, ledger.calls, ledger.spend} \subseteq Nat
    /\ failures \in 0..FailureLimit /\ minutes \in Nat /\ room \in BOOLEAN
    /\ ws \in [Files -> {NoFile, "plain", "llm"}] /\ crashes \in 0..MaxCrashes
    /\ \A i \in 1..Len(runs) : runs[i] \in Files

(* What a crash can make a session forget. Failed calls and the refusal of a *)
(* fragile pick are not saved, and a refusal sets the failures back to none; *)
(* one more call may be in hand.                                             *)
LostPerCrash == 2 * (FailureLimit - 1) + 2

(* The calls that are really made for a session, over all its sittings, stay *)
(* within max_calls where nothing crashed; each crash may add LostPerCrash,  *)
(* as _stop_reason looks at the session's own count, never at the ledger.    *)
CallsBounded == ledger.calls <= MaxCalls + LostPerCrash * crashes

(* What is spent on a session may pass its budget, by less than the price of *)
(* one call where nothing crashed, as what a call costs is not known when    *)
(* what was spent is compared with the budget (_stop_reason says it "never   *)
(* overshoots", research.py:1453-1454; it does). Each crash may add the price *)
(* of LostPerCrash calls.                                                    *)
MaxPrice == CHOOSE p \in Prices : \A q \in Prices : q <= p
SpendBounded == ledger.spend < Budget + MaxPrice * (1 + LostPerCrash * crashes)

(* The holdout is read by every run. Where nothing crashed each of them is   *)
(* an experiment of the session; each crash may make it forget one. variant  *)
(* numbers and the warnings on tuning count these.                           *)
LooksCounted ==
    IF pc = "off" THEN Len(runs) <= Looks(disk) + crashes
    ELSE Len(runs) <= Looks(s) + Len(made) + crashes

(* A session can be resumed: its file never loses an experiment or a call.   *)
IsPrefixOf(a, b) == Len(a) <= Len(b) /\ a = SubSeq(b, 1, Len(a))
SessionGrows ==
    [][disk.calls <= disk'.calls /\ IsPrefixOf(disk.exps, disk'.exps) /\ (disk.saved => disk'.saved)]_vars

(* A fragile pick is sent back only while there are calls left to answer in. *)
RefusalLeavesCalls ==
    [][pc = "judge" /\ pc' = "top" => s.calls + 2 <= MaxCalls]_vars
=============================================================================
