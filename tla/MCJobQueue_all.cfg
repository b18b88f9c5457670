SPECIFICATION Spec
CONSTANTS
    Jobs = {j1, j2, j3}
    NoJob = NoJob
    j1 = j1
    j2 = j2
    j3 = j3
    Cap = 2
    SlowStart = FALSE
    CanDie = TRUE
    CanCancel = TRUE
    MaxRestarts = 1
INVARIANTS DoneHasResult OverMeansOver
SYMMETRY Symmetry
