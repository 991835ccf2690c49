SPECIFICATION FairEntrySpec
CONSTANTS
    Quantity = 2
    MaxPolls = 2
    MaxRetries = 2
    MaxFaults = 3
INVARIANTS
    EntryTypes
    ExcessExplained
    NeverOverstated
PROPERTIES
    EntryEnds
CHECK_DEADLOCK FALSE
