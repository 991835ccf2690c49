SPECIFICATION Spec
CONSTANTS
    DailyTrades = 1
    GiveUp = 2
    MaxInstants = 3
    MaxDay = 2
    MaxOrders = 2
    MaxPending = 2
    MaxRestarts = 1
    MaxExecutions = 2
    MaxAdrift = 1
    MaxBacks = 1
INVARIANTS
    Loadable
    
    DayLimitKept
PROPERTIES
    RestsKept
CHECK_DEADLOCK FALSE
