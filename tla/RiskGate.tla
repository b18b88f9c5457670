----------------------------- MODULE RiskGate -------------------------------
(* RiskGate of lab/risk/gate.py and its use by the runners: roll_day on a    *)
(* bar, evaluate on the intents a strategy left (one for each ticker), and   *)
(* note_orders on the orders that were sent of those built.                  *)
(*                                                                           *)
(* Evaluating happens one intent at a time, so that what the batch has come  *)
(* to is a state.  The portfolio is whatever the bar finds: nothing says     *)
(* that an approved order was filled.  trip and reset are a human's.         *)
EXTENDS GateRules

CONSTANTS
    Targets,      \* fractions a strategy asks for
    Equities,     \* equities in dollars a bar finds
    Portfolios,   \* weights a bar finds
    Sessions,     \* bound: days 1..Sessions
    MaxCharged,   \* bound: orders sent in a session, exits among them
    MaxRestarts   \* bound: how often a live runner is started again

ASSUME GateAssumption ==
    /\ Targets \subseteq Int /\ Equities \subseteq Nat \ {0}
    /\ Portfolios \subseteq [Tickers -> Int]
    /\ Sessions \in Nat \ {0} /\ MaxCharged \in Nat /\ MaxRestarts \in Nat

VARIABLES
    day, orders_today, day_start_equity,   \* GateState; day 0 is None
    breaker,                               \* breaker_tripped and its reason
    exited,                                \* day of the last reduction, or 0
    session,                               \* today
    pc, equity, portfolio, weights, budget, killed, judged, orders,  \* evaluate
    restarts,
    \* What really happened to this gate, whatever it remembers:
    entries,      \* orders of the session that were not exits, of any gate
    opening,      \* the equity the session began with, or 0
    lossSeen,     \* the session has been at its loss limit
    halted,       \* tripped by a human, and not reset
    sold          \* day of the last sell of a ticker, or 0

stateVars == <<day, orders_today, day_start_equity, breaker, exited>>
batchVars == <<equity, portfolio, weights, budget, killed, judged, orders>>
historyVars == <<entries, opening, lossSeen, halted, sold>>
vars == <<stateVars, batchVars, historyVars, session, pc, restarts>>

Days == 0..Sessions
BuiltOrders == [ticker: Tickers, delta: Int \ {0}, entry: BOOLEAN]

(* The one type invariant. *)
TypeOK ==
    /\ day \in Days /\ session \in 1..Sessions
    /\ orders_today \in Nat /\ day_start_equity \in Equities \cup {0}
    /\ breaker \in {"clear", "daily_loss", "manual"}
    /\ exited \in [Tickers -> Days] /\ sold \in [Tickers -> Days]
    /\ pc \in {"bar", "judge"} /\ equity \in Equities \cup {0}
    /\ portfolio \in [Tickers -> Int] /\ weights \in [Tickers -> Int]
    /\ budget \in Nat /\ killed \in BOOLEAN
    /\ judged \subseteq Tickers /\ orders \subseteq BuiltOrders
    /\ restarts \in 0..MaxRestarts
    /\ entries \in Nat /\ opening \in Equities \cup {0}
    /\ lossSeen \in BOOLEAN /\ halted \in BOOLEAN

Never == [t \in Tickers |-> 0]

FreshState ==
    /\ day' = 0 /\ orders_today' = 0 /\ day_start_equity' = 0
    /\ breaker' = "clear" /\ exited' = Never

Init ==
    /\ day = 0 /\ orders_today = 0 /\ day_start_equity = 0
    /\ breaker = "clear" /\ exited = Never
    /\ session = 1 /\ pc = "bar" /\ restarts = 0
    /\ equity = 0 /\ portfolio = Never /\ weights = Never
    /\ budget = 0 /\ killed = FALSE /\ judged = {} /\ orders = {}
    /\ entries = 0 /\ opening = 0 /\ lossSeen = FALSE /\ halted = FALSE /\ sold = Never

-----------------------------------------------------------------------------
(* The session *)

\* The reductions a roll keeps.
KeptMutant == [t \in Tickers |-> IF session - exited[t] < Limits.cooldown_days - 1 THEN exited[t] ELSE 0]
Kept == [t \in Tickers |-> IF session - exited[t] <= Limits.cooldown_days THEN exited[t] ELSE 0]

\* The breaker a new session starts with.
ReArmedMutant == "clear"
ReArmed == IF breaker = "daily_loss" THEN "clear" ELSE breaker

\* roll_day up to the breaker it leaves.
RollDay(e) ==
    LET rolled == day # 0 /\ day # session
    IN  /\ day' = session
        /\ orders_today' = IF rolled THEN 0 ELSE orders_today
        /\ day_start_equity' =
             IF rolled \/ (day = 0 /\ day_start_equity = 0) THEN e ELSE day_start_equity
        /\ exited' = IF rolled THEN Kept ELSE exited

Rolled == IF day # 0 /\ day # session THEN ReArmed ELSE breaker

\* A bar on which the runner only rolls: paused, or no strategy hook.
RollOnly(e) ==
    /\ pc = "bar" /\ RollDay(e) /\ breaker' = Rolled
    /\ opening' = IF opening = 0 THEN e ELSE opening
    /\ UNCHANGED <<batchVars, entries, lossSeen, halted, sold, session, pc, restarts>>

NextSession ==
    /\ pc = "bar" /\ session < Sessions
    /\ session' = session + 1
    /\ entries' = 0 /\ opening' = 0 /\ lossSeen' = FALSE
    /\ UNCHANGED <<stateVars, batchVars, halted, sold, pc, restarts>>

Trip ==
    /\ pc = "bar" /\ breaker' = "manual" /\ halted' = TRUE
    /\ UNCHANGED <<day, orders_today, day_start_equity, exited, batchVars,
                   entries, opening, lossSeen, sold, session, pc, restarts>>

\* reset clears the breaker and the whole session, and so does the history.
Reset ==
    /\ pc = "bar" /\ FreshState
    /\ entries' = 0 /\ opening' = 0 /\ lossSeen' = FALSE /\ halted' = FALSE /\ sold' = Never
    /\ UNCHANGED <<batchVars, session, pc, restarts>>

\* A live runner ends and is started again: LiveRunner.__init__ makes a gate.
Restart ==
    /\ restarts < MaxRestarts /\ restarts' = restarts + 1
    /\ FreshState /\ pc' = "bar"
    /\ equity' = 0 /\ portfolio' = Never /\ weights' = Never
    /\ budget' = 0 /\ killed' = FALSE /\ judged' = {} /\ orders' = {}
    /\ opening' = 0 /\ lossSeen' = FALSE /\ halted' = FALSE /\ sold' = Never
    /\ UNCHANGED <<entries, session>>

-----------------------------------------------------------------------------
(* evaluate *)

\* Everything before the loop over the intents.
Evaluate(e, p, kill) ==
    /\ pc = "bar" /\ pc' = "judge"
    /\ RollDay(e)
    /\ breaker' = IF Rolled = "clear" /\ LossLimit(e, day_start_equity')
                  THEN "daily_loss" ELSE Rolled
    /\ equity' = e /\ portfolio' = p /\ weights' = p /\ killed' = kill
    /\ budget' = NotBelowZero(Limits.max_orders_per_day - orders_today')
    /\ judged' = {} /\ orders' = {}
    /\ opening' = IF opening = 0 THEN e ELSE opening
    /\ lossSeen' = (lossSeen \/ LossLimit(e, opening'))
    /\ UNCHANGED <<entries, halted, sold, session, restarts>>

\* The rules in the state's hands: the breaker, the lists and the cooldown.
Refused(t) == breaker # "clear" \/ Unlisted(t) \/ Cooling(exited[t], session)

\* The budget after an order that moves something.
Spent == NotBelowZero(budget - 1)

\* What a verdict leaves for the next one to see.
SeenMutant(t, approved) == weights
Seen(t, approved) == [weights EXCEPT ![t] = approved]

\* The loop: one intent, and the order _build_orders makes of its verdict.
Judge(t, target) ==
    /\ pc = "judge" /\ t \notin judged
    /\ LET v == Verdict(t, target, weights, equity, budget, killed, Refused(t))
           delta == v.approved - portfolio[t]
       IN  /\ weights' = Seen(t, v.approved)
           /\ budget' = IF ~v.block /\ v.approved # weights[t] THEN Spent ELSE budget
           /\ orders' = IF v.block \/ delta = 0 THEN orders
                        ELSE orders \cup {[ticker |-> t, delta |-> delta,
                                           entry |-> ~IsExit(target * equity, weights[t])]}
    /\ judged' = judged \cup {t}
    /\ UNCHANGED <<stateVars, historyVars, equity, portfolio, killed, session, pc, restarts>>

\* note_orders on the orders that were sent: not one is charged if all were
\* refused, skipped as duplicates, or came to no share.
ChargedMutant(sent) == orders_today
Charged(sent) == orders_today + Cardinality(sent)

NoteOrders(sent) ==
    LET reduced == {o.ticker : o \in {x \in sent : x.delta < 0}}
        Stamped(f) == [t \in Tickers |-> IF t \in reduced THEN session ELSE f[t]]
    IN  /\ pc = "judge" /\ pc' = "bar"
        /\ orders_today + Cardinality(sent) <= MaxCharged
        /\ orders_today' = Charged(sent)
        /\ exited' = Stamped(exited) /\ sold' = Stamped(sold)
        /\ entries' = entries + Cardinality({o \in sent : o.entry})
        /\ equity' = 0 /\ portfolio' = Never /\ weights' = Never
        /\ budget' = 0 /\ killed' = FALSE /\ judged' = {} /\ orders' = {}
        /\ UNCHANGED <<day, day_start_equity, breaker, opening, lossSeen, halted,
                       session, restarts>>

Next ==
    \/ \E e \in Equities : RollOnly(e)
    \/ \E e \in Equities, p \in Portfolios, kill \in BOOLEAN : Evaluate(e, p, kill)
    \/ \E t \in Tickers, target \in Targets : Judge(t, target)
    \/ \E sent \in SUBSET orders : NoteOrders(sent)
    \/ NextSession \/ Trip \/ Reset \/ Restart

Spec == Init /\ [][Next]_vars

-----------------------------------------------------------------------------
(* Properties *)

\* The portfolio when every order built so far is filled.
Built(t) == {o \in orders : o.ticker = t}
After == [t \in Tickers |-> IF Built(t) = {} THEN portfolio[t]
                           ELSE portfolio[t] + (CHOOSE o \in Built(t) : TRUE).delta]

\* A batch may keep what the market made of the portfolio, not add to it.
Within(before, now, cap) == now <= cap \/ now <= before

Sectors == {Sector[t] : t \in Tickers} \ {NoSector}

(* "a basket cannot slip past a portfolio-level cap one name at a time": at   *)
(* any point of a batch, in any order of entries, exits, flips and blocks,    *)
(* what it comes to is within the gross and the sector cap, or no more than   *)
(* the bar found.                                                             *)
ExposureWithinCaps ==
    /\ Within(Gross(portfolio, Tickers), Gross(After, Tickers),
              Limits.max_gross_exposure * equity)
    /\ \A s \in Sectors : Within(Gross(portfolio, InSector(s)), Gross(After, InSector(s)),
                                 Limits.max_sector_pct * equity)

(* The same of the positions held, in all and of a sector.                    *)
PositionsWithinCaps ==
    /\ Within(Cardinality(Open(portfolio, Tickers)), Cardinality(Open(After, Tickers)),
              Limits.max_positions)
    /\ \A s \in Sectors : Within(Cardinality(Open(portfolio, InSector(s))),
                                 Cardinality(Open(After, InSector(s))),
                                 Limits.max_sector_positions)

(* evaluate's caps together: whatever a batch asks for and in whatever order, *)
(* what it comes to is within each of them, or no further out than it was.    *)
WithinCaps == ExposureWithinCaps /\ PositionsWithinCaps

SameGate == restarts = 0

(* max_orders_per_day: over all the batches of a session, and whatever exits  *)
(* were sent between, a gate lets no more entries be sent than the budget.    *)
EntriesWithinBudget == SameGate => entries <= Limits.max_orders_per_day

(* The breaker: once an evaluation has found the session at its loss limit,   *)
(* no entry is built until the next session, even if the equity comes back;   *)
(* once a human has tripped it, until a human resets it.                      *)
BreakerHolds == \A o \in orders : o.entry => ~lossSeen /\ ~halted

(* cooldown_days: no entry into a ticker within the cooldown of its last      *)
(* sell, whatever roll_day has forgotten since.                               *)
CooldownHolds == \A o \in orders : o.entry => ~Cooling(sold[o.ticker], session)

(* "a sector with no room left blocks rather than approving nothing": an      *)
(* intent that is not an exit never closes the position it is about.          *)
EntriesKeepPositions ==
    \A o \in orders : o.entry => portfolio[o.ticker] + o.delta # 0
=============================================================================
