SPECIFICATION Spec
CONSTANTS
    Callers = {order, sync}
    Retries = 1
    Pause = 1
    Default = 2
    MaxTime = 3
    MaxBan = 3
INVARIANTS
    OnlyStragglers
    RepeatedForFailuresOnly
CHECK_DEADLOCK FALSE
