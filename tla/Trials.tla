-------------------------------- MODULE Trials --------------------------------
(* How many looks a Sharpe ratio is corrected for (deflated_sharpe in        *)
(* mcp/tools_validate.py, over registry/runs.py): runs are registered, fail, *)
(* end and are deleted while somebody asks, now and again, how many tries a  *)
(* result must answer for.                                                   *)
EXTENDS Integers, FiniteSets, FiniteSetsExt

CONSTANTS
    Entries,      \* runs there may be: name, kind, and the holdout they read, its
                  \* tickers as listed, its date and its hour
    MaxLooks,     \* bound: runs registered
    MaxAsks,      \* bound: questions
    MaxGone,      \* bound: rows deleted
    Claims        \* trials a caller may name

TrialsAssumption ==
    /\ MaxLooks \in Nat /\ MaxAsks \in Nat /\ MaxGone \in Nat /\ Claims \subseteq Nat

VARIABLES
    looks,     \* the runs table
    gone,      \* rows deleted
    asks,      \* questions so far
    answer     \* the last answer about the first run

NoAnswer == [claim |-> 0, trials |-> 0, gone |-> 0]
Init == looks = {} /\ gone = 0 /\ asks = 0 /\ answer = NoAnswer

Registered == Cardinality(looks) + gone
Register(entry) ==
    /\ Registered < MaxLooks
    /\ looks' = looks \cup {[run |-> Registered + 1, of |-> entry, status |-> "running"]}
    /\ UNCHANGED <<gone, asks, answer>>

Finish(x, status) ==
    /\ x.status = "running"
    /\ looks' = (looks \ {x}) \cup {[x EXCEPT !.status = status]}
    /\ UNCHANGED <<gone, asks, answer>>

Forget(x) ==
    /\ gone < MaxGone /\ looks' = looks \ {x} /\ gone' = gone + 1
    /\ UNCHANGED <<asks, answer>>

-----------------------------------------------------------------------------
(* Mutant: runs that ended well.                                             *)
FamilyOk(x) == {y \in looks : y.of.name = x.of.name /\ y.status # "error"}
(* family_attempts: all of the name, whatever their config and their end.    *)
Family(x) == {y \in looks : y.of.name = x.of.name}

(* Mutant: the tickers as they were listed.                                  *)
KeyAsListed(h) == <<h.tickers, h.date>>
(* The key of _same_holdout_runs: tickers sorted, dates without the hour.    *)
Key(h) == <<{h.tickers[i] : i \in DOMAIN h.tickers}, h.date>>
SameHoldout(x) == {y \in looks : y.of.kind = "backtest" /\ Key(y.of.holdout) = Key(x.of.holdout)}

(* Mutant: who names a number is believed.                                   *)
BelieveCaller(claim, x) ==
    IF claim > 0 THEN claim ELSE Max({Cardinality(Family(x)), Cardinality(SameHoldout(x))})
Counted(claim, x) == Max({claim, Cardinality(Family(x)), Cardinality(SameHoldout(x))})

(* deflated_sharpe with a run_id; one trial at least.                        *)
Deflate(x, claim) ==
    /\ x.run = 1 /\ asks < MaxAsks /\ asks' = asks + 1
    /\ answer' = [claim |-> claim, trials |-> Max({1, Counted(claim, x)}), gone |-> gone]
    /\ UNCHANGED <<looks, gone>>

Next ==
    \/ \E entry \in Entries : Register(entry)
    \/ \E x \in looks :
          \/ \E status \in {"ok", "error"} : Finish(x, status)
          \/ Forget(x)
          \/ \E claim \in Claims : Deflate(x, claim)

-----------------------------------------------------------------------------
SameData(h, g) ==
    /\ {h.tickers[i] : i \in DOMAIN h.tickers} = {g.tickers[i] : i \in DOMAIN g.tickers}
    /\ h.date = g.date

(* A result answers for every look there was when it is asked: each run of   *)
(* its name, failed and unfinished ones too, each backtest under any other   *)
(* name that read the same data however its tickers were listed, and what    *)
(* the caller owns up to.                                                    *)
TrialsCoverLooks ==
    [][\A x \in looks : (x.run = 1 /\ asks' # asks) =>
          /\ answer'.trials >= answer'.claim
          /\ answer'.trials >= Cardinality({y \in looks : y.of.name = x.of.name})
          /\ answer'.trials >= Cardinality({y \in looks :
                 y.of.kind = "backtest" /\ SameData(y.of.holdout, x.of.holdout)})]_<<looks, gone, asks, answer>>

(* Asking again never gets a kinder answer, unless rows were deleted since   *)
(* or the caller takes a claim back: naming a number raises the count and    *)
(* never lowers it.                                                          *)
TrialsNeverFall ==
    [][(answer # NoAnswer /\ answer'.gone = answer.gone
        /\ (answer'.claim >= answer.claim \/ answer.trials > answer.claim))
          => answer'.trials >= answer.trials]_<<looks, gone, asks, answer>>
=============================================================================
