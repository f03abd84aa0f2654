SPECIFICATION FairSpec
CONSTANTS
    Ids = {1, 2, 3}
    Subjects = {1}
    Addrs <- MCAddrs
    Incs <- MCIncs
    SuspectAge = 1
    DeadAge = 4
    CleanupAge = 7
    MaxLag = 0
    MaxStep = 0
    HbPeriod = 1
    ScanPeriod = 1
    GossipPeriod = 3
    GossipCapacity = 1
    MaxDelay = 0
    RestartDelay = 0
    MaxLoss = 0
    MaxStarts <- MCMaxStarts
    Clocks <- Monotone
    Restarting = {}
    Stoppable = {1}
PROPERTIES DeadForgotten
