SPECIFICATION Spec
CONSTANTS
    ExtAgents = {e1}
    IntAgents = {}
    Rt = Rt
    Resetters = {r1}
    Subscriptions <- InvokeAndShutdown
    MaxAgentsLimit = 65535
    MaxAgentsAllowed = 10
    MaxInvokes = 1
    MaxResets = 0
    MaxCrashes = 1
    Exclusive = TRUE
    StaleHandlers = FALSE
    SlowExits = FALSE
PROPERTY InlineInitStartsFresh
CHECK_DEADLOCK FALSE
