CONSTANTS
    Calls = {c1, c2}
    Jobs <- MCJobs
    Own = "own"
    Foreign <- MCForeign
    Blank = ""
    Addresses = {"d1", "d2"}
    MaxAmount = 2
    MaxOperations = 2
    MaxSeq = 2
SPECIFICATION FairSpec
INVARIANTS
    TypeOK
    ReceiptIsProof
    VerifiedIsPaid
    OnePaymentOneReceipt
    PaidAtMostOncePerCall
PROPERTY EveryCallReturns
CHECK_DEADLOCK FALSE
