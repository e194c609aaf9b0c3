SPECIFICATION FairSpec
CONSTANTS
    Host = {"a", "b"}
    None = None
    Order <- const_Order
    Persist = {}
    TTL = {"b"}
    MaxCount = 1
    MaxSwaps = 1
    MaxFaults = 1
CHECK_DEADLOCK FALSE
INVARIANTS
    DecisionFitsVotes
PROPERTIES
    NoChurn
    StepsDown
    VotesArrive
