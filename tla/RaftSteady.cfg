CONSTANTS
    N = 2
    Electable = {1}
    Mortal = {2}
    MaxTerm = 1
    MaxCommands = 2
    MaxInFlight = 2
    MaxRestarts = 0
SPECIFICATION SteadySpec
INVARIANT MatchIndexSound
INVARIANT LogsAgree
INVARIANT StateMachineSafety
INVARIANT CommittedIsReplicated
PROPERTY CommitMonotone
CHECK_DEADLOCK FALSE
