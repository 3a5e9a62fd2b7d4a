\* Whatever callers, hot reloading and the scheduler do.
SPECIFICATION Spec
CONSTANTS
    Calls = {1, 2}
    Slow = {}
    MaxReloads = 1
    MaxCrashes = 0
    MainAwaits = FALSE
    Overlap = TRUE
    Prompt = FALSE
INVARIANTS
    OneReply
    SenderHasReceiver
VIEW Readable
CHECK_DEADLOCK FALSE
