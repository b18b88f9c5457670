SPECIFICATION Spec
CONSTANTS
    a = a
    b = b
    c = c
    Tickers = {a, b, c}
    Sector <- SomeSectors
    NoSector = "none"
    Grain = 4
    Limits <- SomeLimits
    Targets <- SomeTargets
    Equities = {3, 4}
    Portfolios <- SomePortfolios
    Sessions = 3
    MaxCharged = 3
    MaxRestarts = 1
INVARIANTS WithinCaps EntriesWithinBudget BreakerHolds CooldownHolds
