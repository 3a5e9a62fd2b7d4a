\* Two calls and two workers with one post between them, or two posts for one call.
SPECIFICATION Spec
CONSTANTS
    Ids = {i1}
    MaxCalls = 2
    MaxNexts = 2
    MaxReqs = 2
    MaxReserves = 1
    MaxFaults = 1
    MaxSize = 2
    CacheSize = 1
CONSTRAINT Load
CHECK_DEADLOCK FALSE
INVARIANT AcceptedIsAnswer
INVARIANT PoolConserved
PROPERTY ImplementsDispatch
PROPERTY InvokesEnd
PROPERTY PostsAnswered
