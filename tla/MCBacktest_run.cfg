SPECIFICATION Spec
CONSTANTS
    Tickers = {a}
    a = a
    PerOrder = 1
    PerShare = 0
    MinCommission = 0
    Modes <- BothModes
    Warmup = 1
    LimitOrders = TRUE
    VolumeCap = TRUE
    Halts = TRUE
    Bars = 4
    BarsPerSession = 2
    Prices = {1, 3}
    MaxQty = 2
    MaxOrders = 3
INVARIANTS BookAddsUp PositionIsItsFills DecidesOnSettledBook EveryOrderIsCharged
PROPERTIES NoLookAhead DecidesOnce
