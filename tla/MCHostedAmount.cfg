SPECIFICATION Spec
CONSTANTS
    Rails = {"paypal", "stripe"}
    Orders <- MCOrders
    MaxSessions = 2
    Ids <- MCIds
    Dedup = FALSE
INVARIANT AskedIsQuoted
CHECK_DEADLOCK FALSE
