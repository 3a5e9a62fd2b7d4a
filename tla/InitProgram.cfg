SPECIFICATION Spec
CONSTANTS
    Confs <- AllConfs
    MaxReloads = 1
    MaxInvokes = 1
    MaxFaults = 1
CHECK_DEADLOCK FALSE
INVARIANT ReadyAfterRelease
INVARIANT InitErrorIsOwn
INVARIANT ColdStartOnce
PROPERTY MainDecides
