SPECIFICATION Spec
CONSTANTS
    Requests <- MCRequests
    Foreign <- MCForeign
    Window = 1
    MaxHeight = 2
    MaxSends = 2
    MaxReceipts = 1
INVARIANT OneReferencePerTransaction
CHECK_DEADLOCK FALSE
