CONSTANTS
    v = v
    K = 2
    Prefix <- NoPrefix
    Value = {v}
    NoValue = NoValue
    MaxLeases = 4
    Grain = 4
    Node = {n1, n2, n3}
    Command <- Mixed
    Deadline = {9, 15}
    Faults = {"disk", "lock", "term", "restart"}
    MaxLog = 3
    MaxFaults = 1
SYMMETRY Symmetry
SPECIFICATION Spec
INVARIANT ReplicasAgree
INVARIANT ReadsAgree
CHECK_DEADLOCK FALSE
