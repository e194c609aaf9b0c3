SPECIFICATION Spec
CONSTANTS
    Vertex <- MCVertex
    SemaId <- MCSemaId
    Sema <- MCSema
    SemaSize <- MCSemaSize
    Value = {v1, v2}
    Nil = Nil
    Hosts = {h1}
    MaxSends = 1
    MaxSwaps = 0
    MaxFaults = 1
CHECK_DEADLOCK FALSE
INVARIANT ExportsAreCurrent
