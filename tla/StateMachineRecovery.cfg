CONSTANTS
    K = 2
    Prefix <- WholePrefix
    Value = {v}
    NoValue = NoValue
    MaxLeases = 2
    Grain = 4
    Commands <- All
    Deadline = {8, 16}
    HasSnapshot = TRUE
    MaxRev = 4
SPECIFICATION Spec
INVARIANT TypeOK
 
INVARIANT LeaseIndexSound
 
INVARIANT SnapshotAccepted
 
 
CHECK_DEADLOCK FALSE
