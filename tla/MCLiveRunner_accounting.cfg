SPECIFICATION FairSpec
CONSTANTS
    Tickers = {a}
    a = a
    MaxQty = 2
    Sessions = 1
    MaxErrors = 2
    Modes <- Either
    Adopts <- Either
    DedupBroker = TRUE
    Faults <- AccountingFaults
    MaxOrders = 1
    MaxFills = 2
    MaxFaults = 1
PROPERTIES NoFillLostOrDoubled FillsGetBooked
