SPECIFICATION FairSpec
CONSTANTS
    Host = {"a", "b"}
    None = None
    Order <- const_Order
    Persist = {}
    TTL = {"b"}
    MaxCount = 1
    MaxSwaps = 1
    MaxFaults = 0

PROPERTIES SomeoneIsElected
CHECK_DEADLOCK FALSE
