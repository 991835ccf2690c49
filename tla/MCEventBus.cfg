SPECIFICATION FairSpec
CONSTANTS
    signal = signal
    ticker = ticker
    All = All
    EventTypes <- MCEventTypes
    Interest <- MCInterest
    Capacity = 2
    MaxSubs = 2
    MaxEvents = 4
INVARIANTS
    DeliveredExactly
PROPERTIES
    EventuallyDispatched
    ImplementsMailboxes
CHECK_DEADLOCK FALSE
