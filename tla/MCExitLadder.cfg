SPECIFICATION FairSpec
CONSTANTS
    StopLoss = 2
    Breakeven = 2
    Trigger = 3
    Distance = 2
    TakeProfit = 4
    Fee = 1
    Atrs <- MCAtrs
    AtrStop <- MCAtrStop
    AtrTrigger <- MCAtrTrigger
    AtrDistance <- MCAtrDistance
    MaxHold = 2
    StaleAge = 1
    StaleGain = 1
    Spread = 1
    Prices <- MCPrices
    Slips <- MCSlips
    MaxTrades = 1
    MaxRestarts = 1
INVARIANTS
    StopHeld
    BreakevenProtects
PROPERTIES
    RestartKeepsStop
    StopOutPauses
    EveryTradeEnds
CHECK_DEADLOCK FALSE
