CONSTANTS
    Threads = {t1, t2}
    Configs <- MCConfigs
    RailOf <- MCRailOf
    Refused = "refused"
    MaxHandles = 2
SPECIFICATION FairSpec
INVARIANTS
    TypeOK
    HandleNamesItsRail
    ClosedStaysClosed
    ErrTellsThisCall
PROPERTY NoDeadHandle
