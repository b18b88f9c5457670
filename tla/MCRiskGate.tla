----------------------------- MODULE MCRiskGate -----------------------------
(* RiskGate on three tickers: a and b share a sector, that of c is unknown.  *)
EXTENDS RiskGate, TLC

CONSTANTS a, b, c

SomeSectors == (a :> "tech") @@ (b :> "tech") @@ (c :> NoSector)

\* In quarters: half the equity per position, and 7 of them, three quarters per
\* sector and all of it in gross; a loss of a quarter trips the breaker.
SomeLimits ==
    [max_position_pct |-> 2, max_position_notional |-> 7,
     max_positions |-> 2, max_sector_positions |-> 1,
     max_sector_pct |-> 3, max_gross_exposure |-> 4, max_daily_loss_pct |-> 1,
     max_orders_per_day |-> 2, min_order_notional |-> 1,
     allowlist |-> {}, denylist |-> {}, cooldown_days |-> 2]

SomeTargets == {-1, 0, 3}

\* Nothing held; one name; a short beside a long; more than every cap allows.
Books(x, y, z) == (a :> x) @@ (b :> y) @@ (c :> z)
SomePortfolios ==
    {Books(0, 0, 0), Books(4, 0, 0), Books(-4, 0, 12), Books(12, 8, 4)}

\* A held name beside one that fills their sector, and a wish to add to it.
SectorLimits == [SomeLimits EXCEPT !.max_sector_positions = 2]
FullSector == {Books(4, 12, 0)}
=============================================================================
