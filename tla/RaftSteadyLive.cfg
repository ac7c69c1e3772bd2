CONSTANTS
    N = 2
    Electable = {1}
    Mortal = {}
    MaxTerm = 1
    MaxCommands = 3
    MaxInFlight = 1
    MaxRestarts = 0
SPECIFICATION FairSteadySpec
PROPERTY LaterEntriesAppliedEverywhere
CHECK_DEADLOCK FALSE
