SPECIFICATION Spec
CONSTANTS
    MaxRetries = 2
    TopN = 1
    LastDay = 2
    MaxTears = 1
    MaxDeaths = 1
    Open = 2
    Close = 5
    BarStep = 1
    LastTime = 6
    MaxBars = 3
    Closes = {1, 2}
    NaN = NaN
    Processes = {p1, p2}
    MaxRuns = 2
    MaxCode = 2
    MaxDeletes = 1
    MaxEdits = 1
    Authors = {u1, u2}
    MaxFindings = 3
    MaxUpdates = 3
    Limits = {1, 2}
    RingSize = 3
    MaxDrops = 2
    MaxEvents = 5
    MaxNew = 3
    MaxWrites = 2
    Askers = {"a", "b"}
    MaxVersion = 2
    MaxKills = 1
    MaxClears = 1
    MaxLooks = 3
    MaxAsks = 2
    MaxGone = 1
    Claims = {0, 2}
    MaxDays = 6
    MaxOutages = 1
    MaxFailures = 1
    MaxStaleSessions = 2
    Intervals = {60, 130, 390, 400, 1440}
    DecideAt = 575
    MaxFires = 8
    Bodies <- SomeBodies
    Parts <- TwoParts
    Stock <- SomeStock
    Process <- OneProcess
    Spellings <- EitherOrder
    Entries <- SomeEntries
    FirstDays <- SomeDays
    Starts <- SomeStarts
SYMMETRY Symmetry
CHECK_DEADLOCK FALSE
INVARIANTS
    DataIsKept
    ReadsAreCausal
    RegistryIsKept
    TapeIsWhole
    CacheIsTrue
    DecisionsAreOnTime
PROPERTIES
    RecordsOnlyGrow
