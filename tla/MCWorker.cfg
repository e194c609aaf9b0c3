SPECIFICATION Spec
CONSTANTS
    Mode = "watch"
    Retry = 1
    Inherited <- InheritedSpent
    Delay = TRUE
    RetryReset = TRUE
    Limited = TRUE
    Noop = FALSE
    Refreshable = TRUE
INVARIANTS
    RestartNeverOverlaps
    NoSwallowedChange
    IdleIsClean
    InterruptReaches
PROPERTIES
    RetryOnlyOnFailure
    IsVertex
