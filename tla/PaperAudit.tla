------------------------------ MODULE PaperAudit ------------------------------
(* Paper trading beside its own backtest (mcp/tools_live.py): the decisions  *)
(* of a strategy's paper runs are stitched into one curve, a backtest starts *)
(* flat on the first of their sessions, and a verdict says whether the one   *)
(* tracks the other. A decision falls in the session of a day, after it has  *)
(* opened, or in the evening, when the date of the journal is the next one.  *)
EXTENDS Integers, FiniteSets, FiniteSetsExt

CONSTANTS
    LastDay,     \* bound: days of paper trading
    MaxPaper,    \* bound: paper runs
    MaxSteps,    \* bound: decisions
    MaxResets,   \* bound: books thrown away
    Stores,      \* days the store may have bars of
    Lookback,    \* days of bars before the first session (lookback_days)
    MinSteps     \* min_steps

AuditAssumption ==
    /\ LastDay \in Nat /\ MaxPaper \in Nat \ {0} /\ MaxSteps \in Nat /\ MaxResets \in Nat
    /\ Lookback \in Nat \ {0} /\ MinSteps \in Nat /\ \A s \in Stores : s \subseteq Int

VARIABLES
    clock,     \* half days passed
    paper,     \* paper runs registered, the newest one last
    journal,   \* decisions: run, at, equity "cash" or "other", reset
    flat,      \* the next run to start finds no stored book
    resets,    \* books thrown away
    audit      \* what live_vs_backtest said

NoAudit == [verdict |-> "none"]

Init ==
    /\ clock = 2 /\ paper = 0 /\ journal = {} /\ flat = FALSE /\ resets = 0
    /\ audit = NoAudit

(* The date of a decision, in UTC; the session of day d opens just before    *)
(* the half day 2 * d, and its bar is stamped then.                          *)
Date(at) == (at + 1) \div 2
Open(d) == 2 * d

Wait ==
    /\ audit = NoAudit /\ clock < 2 * LastDay + 1 /\ clock' = clock + 1
    /\ UNCHANGED <<paper, journal, flat, resets, audit>>

(* A run decides once and ends, or goes on beside the next one; a fresh book *)
(* is worth the starting cash until it has traded, and may be so again.      *)
Decide(run) ==
    /\ audit = NoAudit /\ Cardinality(journal) < MaxSteps
    /\ run \in 1..(paper + 1) /\ run <= MaxPaper /\ (flat => run = paper + 1)
    /\ \A s \in journal : s.at # clock
    /\ \E worth \in IF flat \/ journal = {} THEN {"cash"} ELSE {"cash", "other"} :
           journal' = journal \cup {[run |-> run, at |-> clock, reset |-> flat, equity |-> worth]}
    /\ paper' = IF run > paper THEN run ELSE paper
    /\ flat' = FALSE
    /\ UNCHANGED <<clock, resets, audit>>

(* Somebody deletes the stored book.                                         *)
ThrowBook ==
    /\ audit = NoAudit /\ resets < MaxResets /\ journal # {} /\ ~flat
    /\ resets' = resets + 1 /\ flat' = TRUE
    /\ UNCHANGED <<clock, paper, journal, audit>>

-----------------------------------------------------------------------------
(* The decisions asked for: of one run, or of all of the strategy (0), from  *)
(* a moment on.                                                              *)
StepsOf(of, cut) == {s \in journal : of \in {0, s.run} /\ s.at >= cut}
Dates(S) == {Date(s.at) : s \in S}
(* Mutant: in the order of the runs, not of time.                            *)
LastByRun(S, d) ==
    CHOOSE s \in S : Date(s.at) = d /\ \A o \in S : Date(o.at) = d =>
        (o.run < s.run \/ (o.run = s.run /\ o.at <= s.at))
(* One point a date: the last decision of all.                               *)
LastOf(S, d) ==
    CHOOSE s \in S : Date(s.at) = d /\ \A o \in S : Date(o.at) = d => o.at <= s.at

(* Mutant: the first session's own bar goes to the warm-up too.              *)
BeforeOrOn(stamps, first) == {d \in stamps : d <= first}
(* The bars before the first session are the warm-up.                        *)
Before(stamps, first) == {d \in stamps : d < first}

(* Each session with the next one of a curve.                                *)
Pairs(S) == {p \in S \X S : p[1] < p[2] /\ \A d \in S : ~(p[1] < d /\ d < p[2])}
(* Mutant: each curve's returns before they are aligned.                     *)
ReturnsApart(live, bars) == [live |-> Pairs(live), backtest |-> Pairs(bars)]
(* Per-session returns, over the sessions both curves have.                  *)
ReturnsOf(live, bars) ==
    LET both == Pairs(live \cap bars) IN [live |-> both, backtest |-> both]

(* Mutant: the last session is not looked at.                                *)
ResetsButLast(points, cash) ==
    {d \in DOMAIN points : cash /\ d # Min(DOMAIN points) /\ d # Max(DOMAIN points)
                           /\ points[d].equity = "cash"}
(* A point after the first that is worth exactly the starting cash, if the   *)
(* newest run names a cash and it is what the others began with too.         *)
Resets(points, cash) ==
    {d \in DOMAIN points : cash /\ d # Min(DOMAIN points) /\ points[d].equity = "cash"}

PointsOf(S) == [d \in Dates(S) |-> LastOf(S, d)]

(* The bars the backtest is given: from the lookback before the first point  *)
(* to a day after the last one, by the clock. The session after the last     *)
(* point is among them where the store has it.                               *)
Window(store, points) ==
    {d \in store : /\ Open(d) > points[Min(DOMAIN points)].at - 2 * Lookback
                   /\ Open(d) <= points[Max(DOMAIN points)].at + 2}

(* live_vs_backtest over the points of the runs asked for and what the store *)
(* has; the returns agree or not, the books hold the same names or not. The  *)
(* returns are of the sessions both have, totals and names of all it traded. *)
Compare(of, points, store, cash, agree) ==
    LET stamps == Window(store, points)
        traded == stamps \ Before(stamps, Min(DOMAIN points))
        both == DOMAIN points \cap traded
        judged == Cardinality(both) >= MinSteps
        unlike == ~agree.names \/ (~agree.returns /\ Cardinality(both) >= 4 /\ judged)
    IN IF traded = {}
       THEN audit' = [verdict |-> "raised"]
       ELSE audit' =
              [verdict |-> IF ~judged THEN "short"
                           ELSE IF unlike \/ Resets(points, cash) # {} THEN "diverges" ELSE "tracks",
               of |-> of, store |-> store, points |-> points, traded |-> traded, cash |-> cash,
               returns |-> ReturnsOf(DOMAIN points, traded)]

Audit ==
    /\ audit = NoAudit
    /\ \E of \in 0..paper, cut \in {0, 5} : StepsOf(of, 0) # {} /\
          \E points \in {PointsOf(StepsOf(of, cut))} :
             IF Cardinality(DOMAIN points) < 2
             THEN audit' = [verdict |-> "fewer"]
             ELSE \E store \in Stores, cash \in BOOLEAN, agree \in [names: BOOLEAN, returns: BOOLEAN] :
                     Compare(of, points, store, cash, agree)
    /\ UNCHANGED <<clock, paper, journal, flat, resets>>

Next == Wait \/ (\E run \in 1..MaxPaper : Decide(run)) \/ ThrowBook \/ Audit

-----------------------------------------------------------------------------
Said == audit.verdict \in {"short", "diverges", "tracks"}

(* The backtest starts where the paper run did: it trades no bar from before *)
(* the first session that is compared, and it has that session's own bar as  *)
(* soon as the store does, however many bars of the lookback there are.      *)
FlatFromFirstSession ==
    Said =>
        LET first == Min(DOMAIN audit.points)
        IN /\ \A d \in audit.traded : d >= first
           /\ first \in audit.store => first \in audit.traded

(* A session is the book that was carried overnight: no decision of that     *)
(* date is later than the one compared, whichever of the stitched runs made  *)
(* it.                                                                       *)
LastDecisionCounts ==
    Said =>
        \A d \in DOMAIN audit.points : \A s \in journal :
            (audit.of \in {0, s.run} /\ Date(s.at) = d) => s.at <= audit.points[d].at

(* A return of one curve is compared to a return of the other over the same  *)
(* sessions, also where a day has no decision or no bar. The totals need not *)
(* be of the same sessions: the code adds a day to the last decision, and    *)
(* the session that opens within it is traded as well.                       *)
ReturnsSpanTheSame ==
    Said => audit.returns.live = audit.returns.backtest

(* A verdict that the paper run tracks its backtest has no compared session  *)
(* after the first whose decision was the first of a fresh book, as long as  *)
(* the newest run names the cash books start with. A fresh book that decided *)
(* again by the end of that date is not seen: that decision is the compared  *)
(* one, and its equity need no longer be the starting cash.                  *)
TracksOneBook ==
    Said /\ audit.verdict = "tracks" /\ audit.cash =>
        \A d \in DOMAIN audit.points \ {Min(DOMAIN audit.points)} : ~audit.points[d].reset
=============================================================================
