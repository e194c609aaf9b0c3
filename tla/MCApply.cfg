SPECIFICATION FairSpec
CONSTANTS
    Vertex <- MCVertex
    SemaId <- MCSemaId
    Sema <- MCSema
    SemaSize <- MCSemaSize
    Value = {v1, v2}
    Nil = Nil
    Hosts = {h1, h2}
    MaxSends = 1
    MaxSwaps = 2
    MaxFaults = 2
CHECK_DEADLOCK FALSE
INVARIANTS
    NotificationKept
    ReceivesLastValue
    ExportsFollowGraph
PROPERTIES
    ComesToRest
