CONSTANTS
    s1 = s1
    s2 = s2
    None = None
    Servers <- OneServer
    ApiServer = FALSE
    CacheLag = FALSE
    OtherFleet = "same"
    SlowScrape = TRUE
    MayFail <- QueryListOrAssignFails
    MaxJoining = 2
    MaxFaults = 2
    MaxCrashes = 1
    Timeout = 2
    Interval = 1
    ForceTime = 3
SPECIFICATION FairSpec
PROPERTIES
    NoMatchLost
    DeadlineKept
    DrainsAsPromised
    DrainingIsReclaimed
