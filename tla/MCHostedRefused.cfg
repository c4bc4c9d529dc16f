SPECIFICATION Spec
CONSTANTS
    Rails = {"hyperswitch"}
    Orders <- MCOrders
    MaxSessions = 2
    Ids <- MCIds
    Dedup = FALSE
INVARIANT RefusedOnlyIfRefunded
CHECK_DEADLOCK FALSE
