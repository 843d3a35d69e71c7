CONSTANTS
    f1 = f1
    Fleets <- MCFleets
    Servers <- MCServers
    Timeouts <- MCTimeouts
    MaxIdle = 2
    MaxCount = 2
SPECIFICATION RRSpec
INVARIANTS
    TypeOK
    AlwaysServed
    NotReturnedAgain
    IdleMeansUnused
    DrainsLeastUsed
    RoundRobinRotates
