\* Shutdowns from every side, with an internal extension and a name that collides.
SPECIFICATION Spec
CONSTANTS
    e1 = e1
    e2 = e2
    n1 = n1
    Agents = {e1, e2}
    Internals = {n1}
    MaxAgentsAllowed = 2
    MaxAgentsLimit = 4
    Signals = TRUE
    Invokes = FALSE
    MaxFaults = 1
CONSTRAINT OneLaunched
SYMMETRY Alike
INVARIANTS SeenProcessesStopped CrashNamed
PROPERTIES InitOkMeansReady
CHECK_DEADLOCK FALSE
