SPECIFICATION Spec
CONSTANTS
    Mode = "watch"
    Retry = 1
    Inherited <- InheritedNone
    Delay = FALSE
    RetryReset = FALSE
    Limited = TRUE
    Noop = FALSE
    Refreshable = FALSE
INVARIANTS
    InitialEventStarts
