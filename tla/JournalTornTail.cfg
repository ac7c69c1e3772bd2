CONSTANTS
    Inode = {i1, i2, i3}
    NoFile = NoFile
    HasSnapshot = FALSE
    Torn = TRUE
    MaxCommands = 4
    MaxCrashes = 0
    MaxOutages = 1
SPECIFICATION Spec
INVARIANT StartSucceeds
CHECK_DEADLOCK FALSE
