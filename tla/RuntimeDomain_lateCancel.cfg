SPECIFICATION FairSpec
CONSTANTS
    ExtAgents = {e1}
    IntAgents = {}
    Rt = Rt
    Resetters = {r1}
    Subscriptions <- InvokeAndShutdown
    MaxAgentsLimit = 65535
    MaxAgentsAllowed = 10
    MaxInvokes = 1
    MaxResets = 2
    MaxCrashes = 0
    Exclusive = TRUE
    StaleHandlers = FALSE
    SlowExits = FALSE
PROPERTY ResetAlwaysCompletes
CHECK_DEADLOCK FALSE
