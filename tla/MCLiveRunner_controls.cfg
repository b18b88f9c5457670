SPECIFICATION Spec
CONSTANTS
    Tickers = {a}
    a = a
    MaxQty = 2
    Sessions = 2
    MaxErrors = 1
    Modes <- Either
    Adopts <- Never
    DedupBroker = TRUE
    Faults <- ControlFaults
    MaxOrders = 2
    MaxFills = 2
    MaxFaults = 1
INVARIANTS NoForeignOrders
PROPERTIES NoRefire KillStopsEntries PauseHolds 
