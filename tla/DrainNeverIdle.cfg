CONSTANTS
    s1 = s1
    s2 = s2
    None = None
    Servers <- OneServer
    ApiServer = FALSE
    CacheLag = FALSE
    OtherFleet = "none"
    SlowScrape = FALSE
    MayFail <- NothingFails
    MaxJoining = 2
    MaxFaults = 0
    MaxCrashes = 0
    Timeout = 1
    Interval = 1
    ForceTime = 2
SPECIFICATION ShrinkingSpec
PROPERTIES
    UnusedIsDrained
