SPECIFICATION FairSpec
CONSTANTS
    ExtAgents = {e1}
    IntAgents = {i1}
    Rt = Rt
    Resetters = {r1}
    Subscriptions <- InvokeAndShutdown
    MaxAgentsLimit = 65535
    MaxAgentsAllowed = 10
    MaxInvokes = 2
    MaxResets = 1
    MaxCrashes = 1
    Exclusive = TRUE
    StaleHandlers = FALSE
    SlowExits = FALSE
CHECK_DEADLOCK FALSE
INVARIANT CountsAccepted
PROPERTY HandlerReturns
