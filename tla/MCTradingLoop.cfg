SPECIFICATION FairSpec
CONSTANTS
    Cooldown = 1
    StaleAfter = 1
    ExitBlock = 1
    LossPause <- MCLossPause
    PoorPause = 2
    DayLen = 3
    MaxTrades = 2
    MaxLoss = 1
    Start = 4
    MaxTime = 6
    MaxQueue = 2
    MaxSignals = 4
    SharedBus = TRUE
    MaxExecutions = 2
INVARIANTS
    TypeOK
    PositionAgrees
    TotalsAgree
    PriceKept
PROPERTIES
    EverySignalAnswered
CHECK_DEADLOCK FALSE
