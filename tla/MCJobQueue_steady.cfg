SPECIFICATION FairSpec
CONSTANTS
    Jobs = {j1, j2, j3}
    NoJob = NoJob
    j1 = j1
    j2 = j2
    j3 = j3
    Cap = 2
    SlowStart = TRUE
    CanDie = TRUE
    CanCancel = FALSE
    MaxRestarts = 0
INVARIANTS CapHolds
PROPERTIES OverStays JobsEnd
