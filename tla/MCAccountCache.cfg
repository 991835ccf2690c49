SPECIFICATION FairSpec
CONSTANTS
    btc = btc
    eth = eth
    dynamic = dynamic
    Assets <- MCAssets
    Btc = btc
    Dynamic = dynamic
    Quantities <- MCQuantities
    InitialCash = 3
    UsesLimit = TRUE
    AllocationPct = 100
    Reserve = 0
    MaxSingleOrder = 3
    MaxPosition = 2
    MinInterval = 1
    Misread = 2
    MaxOrders = 3
    MaxFaults = 1
    MaxTime = 1
INVARIANTS
    CacheExact
    OrdersFunded
PROPERTIES
    PositionCapped
    CacheHeals
CHECK_DEADLOCK FALSE
