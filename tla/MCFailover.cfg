CONSTANTS
    Rails <- MCRails
    Class <- MCRailClass
    Final = "NonCustodialFinal"
    Id <- MCId
    ForeignId = "elsewhere"
    Accepts <- MCAccepts
    Requests <- MCRequests
    WellFormed <- MCWellFormed
    Orders <- MCOrders
    NoClass = NoClass
    NoError = NoError
SPECIFICATION FairSpec
INVARIANTS
    TypeOK
    SingleClass
    CrossClassReport
    ErrorMeansExhausted
    FirstSuccessWins
    ReceiptsReachTheirIssuer
PROPERTY EveryCallReturns
