CONSTANTS
    ctl = ctl
    api = api
    s1 = s1
    s2 = s2
    r1 = r1
    r2 = r2
    c1 = c1
    c2 = c2
    None = None
    Procs <- Both
    RestProc = api
    Servers <- TwoServers
    Draining <- LastServer
    Requests <- OneRequest
    Expiring <- NoRequests
    Selector <- NoSelectors
    Calls <- NoCalls
    LostReplies = FALSE
    MaxLag = 2
    MaxFaults = 0
    Syncing <- Ctl
    MaxCrashes = 0
SPECIFICATION FairSpec
PROPERTIES
    ReleasedComesBack
CHECK_DEADLOCK FALSE
