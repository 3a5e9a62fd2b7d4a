SPECIFICATION FairSpec
CONSTANTS
    ExtAgents = {e1}
    IntAgents = {}
    Rt = Rt
    Resetters = {r1}
    Subscriptions <- InvokeAndShutdown
    MaxAgentsLimit = 65535
    MaxAgentsAllowed = 10
    MaxInvokes = 2
    MaxResets = 2
    MaxCrashes = 1
    Exclusive = TRUE
    StaleHandlers = FALSE
    SlowExits = FALSE
PROPERTY InvokeOkMeansReady
PROPERTY EventOnlyWhenInvoked
PROPERTY ResetCompletes
CHECK_DEADLOCK FALSE
PROPERTY CanceledHandlerReturns
