SPECIFICATION Spec
CONSTANTS
    Rails = {"mollie"}
    Orders <- TwoOrders
    MaxSessions = 2
    Ids <- MCIds
    Dedup = TRUE
INVARIANT DropsOnlyRepeats
CHECK_DEADLOCK FALSE
