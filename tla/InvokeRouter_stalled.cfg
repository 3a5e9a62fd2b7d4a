SPECIFICATION Spec
CONSTANTS
    Ids = {i1}
    MaxCalls = 1
    MaxNexts = 2
    MaxReqs = 1
    MaxReserves = 0
    MaxFaults = 0
    MaxSize = 1
    CacheSize = 1
CHECK_DEADLOCK FALSE
PROPERTY TimeoutEndsInvoke
