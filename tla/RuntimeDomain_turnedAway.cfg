SPECIFICATION FairSpec
CONSTANTS
    ExtAgents = {}
    IntAgents = {i1}
    Rt = Rt
    Resetters = {r1}
    Subscriptions <- InvokeAndShutdown
    MaxAgentsLimit = 65535
    MaxAgentsAllowed = 10
    MaxInvokes = 1
    MaxResets = 1
    MaxCrashes = 0
    Exclusive = TRUE
    StaleHandlers = FALSE
    SlowExits = FALSE
PROPERTY InitCountsEveryAgent
CHECK_DEADLOCK FALSE
