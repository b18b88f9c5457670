----------------------------- MODULE GateRules ------------------------------
(* The rules of lab/risk/gate.py as operators.                               *)
(*                                                                           *)
(* A weight is the value of a position in 1/Grain dollars, as are the two    *)
(* notional limits, and a target is a fraction of the equity in 1/Grain, so  *)
(* it is worth target * equity.  The float tolerance is left out, and so are *)
(* rule names and details: a verdict is whether it blocks, and the approved  *)
(* weight.                                                                   *)
EXTENDS Integers, FiniteSets

CONSTANTS
    Tickers,
    Sector,    \* sector of each ticker
    NoSector,  \* of a ticker whose sector is not known
    Grain,     \* fractions are multiples of 1/Grain
    Limits     \* RiskLimits

RiskLimits ==
    [max_position_pct: Nat \ {0}, max_position_notional: Nat \ {0},
     max_positions: Nat, max_sector_positions: Nat, max_sector_pct: Nat \ {0},
     max_gross_exposure: Nat \ {0}, max_daily_loss_pct: Nat \ {0},
     max_orders_per_day: Nat, min_order_notional: Nat,
     allowlist: SUBSET Tickers, denylist: SUBSET Tickers, cooldown_days: Nat]

ASSUME RulesAssumption ==
    /\ IsFiniteSet(Tickers) /\ Grain \in Nat \ {0}
    /\ Limits \in RiskLimits
    /\ DOMAIN Sector = Tickers

Magnitude(x) == IF x < 0 THEN -x ELSE x
Sign(x) == IF x < 0 THEN -1 ELSE 1
NotBelowZero(x) == IF x < 0 THEN 0 ELSE x

\* What positions come to, long or short: a sum, written as the number of
\* their units so that what is known of finite sets applies to it.
Units(w, S) == UNION {{t} \X (1..Magnitude(w[t])) : t \in S}
Gross(w, S) == Cardinality(Units(w, S))
Open(w, S) == {t \in S : w[t] # 0}
InSector(s) == {t \in Tickers : Sector[t] = s}

-----------------------------------------------------------------------------
(* What a verdict is made of *)

\* _is_exit: to nothing, or the same side and smaller.
IsExit(target, current) ==
    \/ target = 0
    \/ /\ current # 0 /\ (target > 0) = (current > 0)
       /\ Magnitude(target) < Magnitude(current)

\* _check_breaker: the loss of the session has come to its limit.
LossLimit(equity, base) == (base - equity) * Grain >= Limits.max_daily_loss_pct * base

\* The cooldown of a reduction on day `last`; 0 is never.
Cooling(last, session) == last # 0 /\ session - last < Limits.cooldown_days

\* denylist, allowlist.
Unlisted(t) ==
    \/ t \in Limits.denylist
    \/ Limits.allowlist # {} /\ t \notin Limits.allowlist

\* max_positions and sector_positions: a new name needs a slot.
Peers(t, w) == Open(w, InSector(Sector[t]) \ {t})

NoSlotMutant(t, w) ==
    /\ w[t] = 0
    /\ \/ Cardinality(Open(w, Tickers)) > Limits.max_positions
       \/ Sector[t] # NoSector /\ Cardinality(Peers(t, w)) > Limits.max_sector_positions

NoSlot(t, w) ==
    /\ w[t] = 0
    /\ \/ Cardinality(Open(w, Tickers)) >= Limits.max_positions
       \/ Sector[t] # NoSector /\ Cardinality(Peers(t, w)) >= Limits.max_sector_positions

\* What the caps leave for a position, at most.
SectorRoom(t, w, equity) ==
    Limits.max_sector_pct * equity - Gross(w, InSector(Sector[t]) \ {t})

GrossRoom(t, w, equity) ==
    Limits.max_gross_exposure * equity - Gross(w, Tickers \ {t})

\* clip: no more than what is allowed, which is never less than nothing.
ClipTo(allowed, x) == IF NotBelowZero(allowed) < x THEN NotBelowZero(allowed) ELSE x

\* position_cap and position_notional.
Sized(x, equity) ==
    ClipTo(Limits.max_position_notional, ClipTo(Limits.max_position_pct * equity, x))

\* sector_pct: a ticker of no known sector is exempt.
InItsSector(t, x, w, equity) ==
    IF Sector[t] = NoSector THEN x ELSE ClipTo(SectorRoom(t, w, equity), x)

\* The clips in their order, on what is asked for.
Clipped(t, target, w, equity) ==
    LET sized == Sized(Magnitude(target) * equity, equity)
    IN  Sign(target) * ClipTo(GrossRoom(t, w, equity), InItsSector(t, sized, w, equity))

\* max_orders_per_day and min_notional: what the order would come to.
Unordered(t, target, approved, w, equity, budget) ==
    LET moved == Magnitude(approved - w[t])
    IN  /\ moved > 0 \/ approved # target * equity
        /\ \/ moved > 0 /\ budget = 0
           \/ moved < Limits.min_order_notional

\* _evaluate_one.  A block approves the weight there is.
Verdict(t, target, w, equity, budget, killed, refused) ==
    LET approved == Clipped(t, target, w, equity)
    IN  CASE ~killed /\ IsExit(target * equity, w[t]) ->
               [block |-> FALSE, approved |-> target * equity]
          [] ~IsExit(target * equity, w[t]) /\ ~killed /\ ~refused /\ ~NoSlot(t, w)
               /\ ~Unordered(t, target, approved, w, equity, budget) ->
               [block |-> FALSE, approved |-> approved]
          [] OTHER -> [block |-> TRUE, approved |-> w[t]]
=============================================================================
