SPECIFICATION Spec
CONSTANTS
    Res <- Four
    Kinds <- FourKinds
    MaxNotify = 1
    MaxAuto = 1
CHECK_DEADLOCK FALSE
INVARIANTS
    UserNotifyKept
