CONSTANTS
    BaseSeq = 1
    Count = 3
    Step = 3
    Gap = 2
    MaxSeq = 6
    MaxNow = 6
SPECIFICATION FairSpec
INVARIANTS
    TypeOK
    InOrder
    Spaced
    ToldIsSafe
PROPERTIES
    NothingAfterCancel
    CancelTakesHold
    ImplementsStandingOrder
CHECK_DEADLOCK FALSE
