CONSTANTS
    TargetValue = 1
    BufferTarget = 1
    MinReplicas = 1
    MaxReplicas = 3
    MaxPlayers = 2
    AuxValues <- SomePressure
    Threshold = 2
    OpenTime = 2
    ScaleUpTicks = 1
    ScaleDownTicks = 1
    CacheLag = FALSE
    MayFreeze = TRUE
    MaxReopened = 1
    MaxFaults = 3
SPECIFICATION Spec
INVARIANTS
    TypeOK
    NeverAboveMax
PROPERTIES
    BreakerPauses
