SPECIFICATION Spec
CONSTANTS
    a = a
    b = b
    c = c
    Vertex <- ChainVertex
    Edge <- ChainEdge
    Notify <- ChainEdge
    Refreshable = {b}
    Noop = {}
    Hidden = {}
    WallClock = FALSE
    MaxEvents = 2
INVARIANTS
    PendingUntilServed
