SPECIFICATION Spec
CONSTANTS
    Jobs = {j1, j2}
    NoJob = NoJob
    j1 = j1
    j2 = j2
    Cap = 1
    SlowStart = TRUE
    CanDie = FALSE
    CanCancel = FALSE
    MaxRestarts = 1
PROPERTIES FinishedSurvives
SYMMETRY Symmetry
