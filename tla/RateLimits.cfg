CONSTANTS
    RequestsPerSecond = 3
    Unit = 5
    Window = 10
SPECIFICATION FairSpec
INVARIANTS
    TypeOK
    WindowBound
PROPERTIES
    RefinesBucket
    StillServed
