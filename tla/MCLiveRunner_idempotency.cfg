SPECIFICATION Spec
CONSTANTS
    Tickers = {a}
    a = a
    MaxQty = 1
    Sessions = 1
    MaxErrors = 1
    Modes <- Either
    Adopts <- Either
    DedupBroker = TRUE
    Faults <- IdempotencyFaults
    MaxOrders = 2
    MaxFills = 1
    MaxFaults = 2
INVARIANTS OnePerKey
PROPERTIES DecidesOnce 
