SPECIFICATION FairSpec
CONSTANTS
    Programs <- AllPrograms
    MaxVal = 2
    MaxChanges = 2
INVARIANTS
    ReferencesHaveOwners
    GraphFollowsInputs
    TableIsCurrent
PROPERTIES
    ComesToRest
    RunReturns
