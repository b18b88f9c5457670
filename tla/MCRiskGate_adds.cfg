SPECIFICATION Spec
CONSTANTS
    a = a
    b = b
    c = c
    Tickers = {a, b, c}
    Sector <- SomeSectors
    NoSector = "none"
    Grain = 4
    Limits <- SectorLimits
    Targets = {3}
    Equities = {4}
    Portfolios <- FullSector
    Sessions = 1
    MaxCharged = 3
    MaxRestarts = 0
INVARIANTS EntriesKeepPositions
