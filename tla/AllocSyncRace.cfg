CONSTANTS
    ctl = ctl
    api = api
    s1 = s1
    s2 = s2
    r1 = r1
    r2 = r2
    c1 = c1
    c2 = c2
    None = None
    Procs <- Api
    RestProc = api
    Servers <- OneServer
    Draining <- NoServers
    Requests <- NoRequests
    Expiring <- NoRequests
    Selector <- NoSelectors
    Calls <- TwoCalls
    LostReplies = FALSE
    MaxLag = 2
    MaxFaults = 0
    Syncing <- Api
    MaxCrashes = 0
SPECIFICATION Spec
INVARIANTS
    ExclusiveUse
CHECK_DEADLOCK FALSE
