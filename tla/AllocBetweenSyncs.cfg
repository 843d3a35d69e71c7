CONSTANTS
    ctl = ctl
    api = api
    s1 = s1
    s2 = s2
    r1 = r1
    r2 = r2
    c1 = c1
    c2 = c2
    None = None
    Procs <- Api
    RestProc = api
    Servers <- TwoServers
    Draining <- NoServers
    Requests <- TwoRequests
    Expiring <- OneRequest
    Selector <- NoSelectors
    Calls <- OneCall
    LostReplies = FALSE
    MaxLag = 2
    MaxFaults = 1
    Syncing <- NoProcs
    MaxCrashes = 0
SPECIFICATION Spec
INVARIANTS
    TypeOK
    ExclusiveUse
    EveryLendAccounted
PROPERTIES
    LentAsPromised
SYMMETRY ServerSymmetry
CHECK_DEADLOCK FALSE
