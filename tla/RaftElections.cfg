CONSTANTS
    N = 2
    Electable = {1, 2}
    Mortal = {2}
    MaxTerm = 2
    MaxCommands = 1
    MaxInFlight = 1
    MaxRestarts = 1
SPECIFICATION Spec
CONSTRAINT RestartsInFirstTerm
CONSTRAINT FewVotesInFlight
INVARIANT TypeOK
INVARIANT NoFutureEntries
PROPERTY PromisesKept
CHECK_DEADLOCK FALSE
