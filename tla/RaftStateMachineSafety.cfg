CONSTANTS
    N = 3
    Electable = {1, 2}
    Mortal = {}
    MaxTerm = 1
    MaxCommands = 2
    MaxInFlight = 2
    MaxRestarts = 0
SPECIFICATION Spec
INVARIANT StateMachineSafety
CHECK_DEADLOCK FALSE
