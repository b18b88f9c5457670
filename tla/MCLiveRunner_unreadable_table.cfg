SPECIFICATION Spec
CONSTANTS
    Tickers = {a}
    a = a
    MaxQty = 1
    Sessions = 2
    MaxErrors = 1
    Modes <- Either
    Adopts <- Never
    DedupBroker = TRUE
    Faults <- BlockFaults
    MaxOrders = 1
    MaxFills = 1
    MaxFaults = 1
PROPERTIES BlockedSendsNothing
