SPECIFICATION FairSpec
CONSTANTS
    n1 = n1
    n2 = n2
    k1 = k1
    k2 = k2
    Name = {n1, n2}
    Kind = {k1, k2}
    KindOf <- OwnKind
    Background = {k1}
    Rewatch = {n2}
    MaxLoads = 2
CHECK_DEADLOCK FALSE
INVARIANTS
    NoPanicUnlessFailed
    CommitIsExclusive
    BackgroundCoversWatch
    GraphInstalled
PROPERTIES
    RetriesSurviveReplacement
    ShutdownCompletes
