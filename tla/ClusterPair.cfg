SPECIFICATION FairSpec
CONSTANTS
    Ids = {1, 2}
    Subjects = {1}
    Addrs <- MCAddrs
    Incs <- MCIncs
    SuspectAge = 2
    DeadAge = 3
    CleanupAge = 4
    MaxLag = 1
    MaxStep = 0
    HbPeriod = 1
    ScanPeriod = 1
    GossipPeriod = 1
    GossipCapacity = 1
    MaxDelay = 1
    RestartDelay = 0
    MaxLoss = 1
    MaxStarts <- MCMaxStarts
    Clocks <- MaybeWrapping
    Restarting = {1, 2}
    Stoppable = {1, 2}
INVARIANTS
    TypeOK
    NoFalseSuspicion
PROPERTIES
    EachIsNode RunningFound 
