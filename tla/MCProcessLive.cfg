SPECIFICATION FairSpec
CONSTANTS
    a = a
    b = b
    c = c
    Vertex <- RowVertex
    Edge <- RowEdge
    Notify = {}
    Refreshable = {}
    Noop = {c}
    Hidden = {c}
    WallClock = FALSE
    MaxEvents = 0
PROPERTIES
    Converges
