SPECIFICATION FairSpec
CONSTANTS
    UID = {u1, u2}
    Duration = 1
    MaxTime = 1
INVARIANTS
    ConvergedUIDIsQuiet
    NoLostPoke
PROPERTIES
    PauseReturns
    RunReturns
