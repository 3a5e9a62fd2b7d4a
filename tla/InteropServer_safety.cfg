\* LocalStack: Invoke after AwaitInitialized, one call after the other.
SPECIFICATION FairSpec
CONSTANTS
    Calls = {1, 2}
    Slow = {1, 2}
    MaxReloads = 0
    MaxCrashes = 1
    MainAwaits = TRUE
    Overlap = FALSE
    Prompt = TRUE
INVARIANTS
    ReplyToOwner
    AnsweredUnlessTimedOut
    ReturnedMeansClosed
    NoPanic
PROPERTIES
    InvokesExcludeResets
    InvokeReturns
CHECK_DEADLOCK FALSE
