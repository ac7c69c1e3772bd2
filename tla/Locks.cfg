CONSTANTS
    Node = {n1}
    Leader = n1
    Owner = {o1, o2}
    LockKey = {k1}
    TTL = 2
    MaxLeases = 2
    MaxNow = 4
    Restarts = TRUE
    None = None
SPECIFICATION FairSpec
 
INVARIANT TakenIsKnown
 
PROPERTY ImplementsLockService
PROPERTY AbandonedLockFreed
CHECK_DEADLOCK FALSE
