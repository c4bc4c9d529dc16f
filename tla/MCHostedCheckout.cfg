SPECIFICATION Spec
CONSTANTS
    Rails <- AllRails
    Orders <- MCOrders
    MaxSessions = 2
    Ids <- MCIds
    Dedup = FALSE
INVARIANTS
    TypeOK
    BookedIsPaid
    AskedIsRequested
    OneSessionPerReference
    RefundIsReal

CHECK_DEADLOCK FALSE
PROPERTY PaidIsBooked
