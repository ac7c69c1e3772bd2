CONSTANTS
    MaxLeases = 6
    MaxSaved = 4
    Deadline = {1, 2, 3}
SPECIFICATION Spec
INVARIANT HeapSound
PROPERTY ImplementsLeaseTable
CHECK_DEADLOCK FALSE
