SPECIFICATION Spec
CONSTANTS
    Confs <- ReloadConf
    MaxReloads = 0
    MaxInvokes = 0
    MaxFaults = 1
CHECK_DEADLOCK FALSE
PROPERTY SignalEnds
