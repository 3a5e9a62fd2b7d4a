SPECIFICATION Spec
CONSTANTS
    ExtAgents = {e1}
    IntAgents = {}
    Rt = Rt
    Resetters = {r1, r2}
    Subscriptions <- InvokeAndShutdown
    MaxAgentsLimit = 65535
    MaxAgentsAllowed = 10
    MaxInvokes = 1
    MaxResets = 2
    MaxCrashes = 1
    Exclusive = TRUE
    StaleHandlers = TRUE
    SlowExits = TRUE
CHECK_DEADLOCK FALSE
SYMMETRY ResetterSymmetry
INVARIANT GatesSound
INVARIANT InitDoneMeansReady
INVARIANT ResetKillsGeneration
INVARIANT NoNilRuntime
INVARIANT CancelSticks
PROPERTY CrashReported
PROPERTY CanceledNeverOk
PROPERTY ImplementsSandbox
