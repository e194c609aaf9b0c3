SPECIFICATION FairSpec
CONSTANTS
    a = a
    b = b
    c = c
    Vertex <- JoinVertex
    Edge <- JoinEdge
    Notify <- JoinEdge
    Refreshable = {c}
    Noop = {}
    Hidden = {}
    WallClock = FALSE
    MaxEvents = 0
PROPERTIES
    EveryGraphConverges
