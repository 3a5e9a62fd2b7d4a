\* The kill of an unsubscribed extension after the deadline of the shutdown sends no signal.
SPECIFICATION Spec
CONSTANTS
    e1 = e1
    e2 = e2
    n1 = n1
    Agents = {e1}
    Internals = {}
    MaxAgentsAllowed = 1
    MaxAgentsLimit = 3
    Signals = TRUE
    Invokes = FALSE
    MaxFaults = 1
INVARIANT UnsubscribedKilled
CHECK_DEADLOCK FALSE
