SPECIFICATION BacktestSpec
CONSTANTS
    Engines <- MCEngines
    Lowest = 3
    Lots <- MCLots
    StopLoss = 2
    Breakeven = 2
    Trigger = 3
    Distance = 1
    TakeProfit = 4
    PartialAt = 1
    Cost = 1
    Atrs <- MCAtrs
    AtrStop = 2
    AtrTrigger = 1
    AtrDistance = 1
    MaxHold = 3
    StaleAfter = 2
    StaleGain = 1
    Cooldown = 1
    LongCooldown = 2
    MaxTrades = 2
    MaxLoss = 4
    Day = 3
    MaxBars = 4
INVARIANTS
    BacktestTypes
    Reconciles
    FillsAreReal
    ProfitLocked
PROPERTIES
    StopHolds
    LossesRest
CHECK_DEADLOCK FALSE
