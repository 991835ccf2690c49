SPECIFICATION FairSpec
CONSTANTS
    Modes <- MCModes
    SeveralSymbols = TRUE
    ReconnectInterval = 1
    MaxReconnect = 12
    ConnectTimeout = 6
    HeartbeatInterval = 6
    HeartbeatTimeout = 12
    AliveThreshold = 18
    MaxFailures = 5
INVARIANTS
    Resumes
    LiveKept
PROPERTIES
    BackoffKept
    Recovers
