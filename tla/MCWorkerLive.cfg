SPECIFICATION FairSpec
CONSTANTS
    Mode = "watch"
    Retry <- Forever
    Inherited <- InheritedNone
    Delay = FALSE
    RetryReset = FALSE
    Limited = FALSE
    Noop = FALSE
    Refreshable = FALSE
PROPERTIES
    PauseReturns
    RemoveReturns
