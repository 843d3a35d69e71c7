CONSTANTS
    s1 = s1
    s2 = s2
    None = None
    Servers <- OneServer
    ApiServer = TRUE
    CacheLag = TRUE
    OtherFleet = "elsewhere"
    SlowScrape = FALSE
    MayFail <- AnyCallFails
    MaxJoining = 1
    MaxFaults = 1
    MaxCrashes = 1
    Timeout = 2
    Interval = 1
    ForceTime = 2
SPECIFICATION Spec
INVARIANTS
    TypeOK
PROPERTIES
    DrainTimeGiven
