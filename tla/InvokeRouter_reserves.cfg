SPECIFICATION Spec
CONSTANTS
    Ids = {i1}
    MaxCalls = 2
    MaxNexts = 2
    MaxReqs = 0
    MaxReserves = 2
    MaxFaults = 2
    MaxSize = 2
    CacheSize = 1
CHECK_DEADLOCK FALSE
INVARIANT PoolConserved
PROPERTY ImplementsDispatch
PROPERTY InvokesEnd
