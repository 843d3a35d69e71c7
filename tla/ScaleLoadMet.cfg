CONSTANTS
    TargetValue = 1
    BufferTarget = 1
    MinReplicas = 1
    MaxReplicas = 2
    MaxPlayers = 2
    AuxValues <- NoPressure
    Threshold = 2
    OpenTime = 1
    ScaleUpTicks = 1
    ScaleDownTicks = 1
    CacheLag = TRUE
    MayFreeze = FALSE
    MaxReopened = 1
    MaxFaults = 2
SPECIFICATION FairSpec
INVARIANTS
    BreakerCountsConsecutive
PROPERTIES
    LoadIsMet
