CONSTANTS
    ctl = ctl
    api = api
    s1 = s1
    s2 = s2
    r1 = r1
    r2 = r2
    c1 = c1
    c2 = c2
    None = None
    Procs <- Both
    RestProc = api
    Servers <- TwoServers
    Draining <- NoServers
    Requests <- OneRequest
    Expiring <- OneRequest
    Selector <- MatchesOne
    Calls <- NoCalls
    LostReplies = TRUE
    MaxLag = 2
    MaxFaults = 1
    Syncing <- NoProcs
    MaxCrashes = 1
SPECIFICATION FairSpec
PROPERTIES
    DecidedOnce
    EventuallyDecided
CHECK_DEADLOCK FALSE
