SPECIFICATION Spec
CONSTANTS
    root = root
    sub = sub
    f = f
    g = g
    Folders = {root, sub}
    Files = {f, g}
    Root = root
    Below <- TreeBelow
    ChanCap = 1
    MaxEdits = 2
    MaxFaults = 1
CHECK_DEADLOCK FALSE
PROPERTY ChangesReload
