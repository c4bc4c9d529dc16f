SPECIFICATION Spec
CONSTANTS
    Requests <- MCRequests
    Foreign <- MCForeign
    Window = 1
    MaxHeight = 2
    MaxSends = 2
    MaxReceipts = 1
INVARIANTS
    TypeOK
    VerifiedIsPaid
    OnePaymentOneReceipt
PROPERTY VerifiedStays
CHECK_DEADLOCK FALSE
