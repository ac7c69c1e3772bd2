CONSTANTS
    Inode = {i1, i2, i3}
    NoFile = NoFile
    HasSnapshot = TRUE
    Torn = TRUE
    MaxCommands = 3
    MaxCrashes = 2
    MaxOutages = 3
SPECIFICATION Spec
INVARIANT TypeOK
INVARIANT Durability
INVARIANT AppliedOnce
CHECK_DEADLOCK FALSE
