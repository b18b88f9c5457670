SPECIFICATION Spec
CONSTANTS
    Prices = {2}
    Nothing = Nothing
    Asked = "claude_code"
    MaxCalls = 5
    Budget = 3
    MaxMinutes = 3
    MaxExperiments = 2
    FailureLimit = 2
    CheckNeighbours = TRUE
    Writes = {"llm"}
    MaxCrashes = 1
    Backend = "openai"
    Freeform = TRUE
    Iterations = 4
    LoopBudget = 5
    Knobs = {0, 1}
    Universe = {"AAPL", "MSFT"}
    MaxPositions = 1
    MaxPct = 2
    AgentBudget = 2
    Sessions = 3
    MaxRestarts = 1
    RunBudgets = {0, 1, 2, 3, 4}
    Scores = {59, 60, 66, 110}
    Base = 100
    Returns = {0, 100}
    BaseReturn = 100
    Shares = {0, 50}
    MaxUnits = 14
    Requests = {0, 1, 2, 3}
    MinBlockUnits = 3
    DefaultWindows = 4
    Points = {1, 2, 3}
    MaxSweep = {2, 9}
    None = None
    Warmups = {0, 1, 9}
    NPeriods = {1, 3, 4}
    MaxSamples = 2
    Levels = {1, 2, 3}
    Gaps = {1, 3}
    MaxCurve = 6
    Names = {"A", "B", "C", "D"}
    MaxTrades = 3
    MaxLines = 2
    WorstDrawdowns = 1
    TopTickers = 1
    WorstTickers = 1
    LastDay = 3
    MaxPaper = 2
    MaxSteps = 4
    MaxResets = 1
    Lookback = 2
    MinSteps = 3
    Alert = 3
    MaxVariants = 5
    ParamSets <- SomeParams
    Library <- OneStrategy
    Specs <- SomeSpecs
    Tables <- SomeTables
    Ratios <- SomeRatios
    Benches <- SomeBenches
    SweepScores <- TwoScores
    Tests <- SomeTests
    Pnls <- SomePnls
    Stores <- SomeStores
    Variants <- SomeVariants
CHECK_DEADLOCK FALSE
INVARIANTS
    LineageIsWhatRan
    ModelIsWalledIn
    ReportIsEarned
    WindowsAreApart
    LuckIsTested
    SweepIsWhole
    DigestIsTrue
    AuditIsOfOneBook
PROPERTIES
    SessionIsKept
