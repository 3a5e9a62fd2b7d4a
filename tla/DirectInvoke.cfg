SPECIFICATION Spec
CONSTANTS
    Requests = {1, 2}
    Resets = {1}
    MaxReserves = 2
    Headers <- SomeHeaders
    Sizes = {2}
    MaxPayloadSize = 2
    MaxInt = 3
    Capacity = 1
    Refill = 1
    MaxFaults = 1
CHECK_DEADLOCK FALSE
INVARIANT CompleteIsWhole
PROPERTY ResetEnds
