\* The end of the program, with an invoke under way.
SPECIFICATION Spec
CONSTANTS
    e1 = e1
    e2 = e2
    n1 = n1
    Agents = {e1}
    Internals = {}
    MaxAgentsAllowed = 1
    MaxAgentsLimit = 3
    Signals = TRUE
    Invokes = TRUE
    MaxFaults = 1
PROPERTIES ProgramEnds
CHECK_DEADLOCK FALSE
