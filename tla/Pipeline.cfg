CONSTANTS
    Client = {c0, c1}
    Cleaner = c0
    Locking = {}
    Foreign = Foreign
    Free = Free
    ApplyCap = 1
    MaxTerms = 1
    MaxForeign = 1
    MaxLog = 3
    Stops = TRUE
SPECIFICATION FairSpec
INVARIANT NoAnswerLost
INVARIANT NoWaiterLeaks
INVARIANT AppliedInOrder
INVARIANT NothingUnderWay
PROPERTY ShutdownReturns
PROPERTY EverybodyIsServed
CHECK_DEADLOCK FALSE
