SPECIFICATION FairSpec
CONSTANTS
    Symbols = {a, b}
    Cash = Cash
    Prices <- TwoPrices
    StopPct = 50
    Interval = 2
    Configs <- AllConfigs
    MaxFaults = 2
PROPERTIES
    TradeSpacing
    StopJustified
    Heals
