SPECIFICATION FairSpec
CONSTANTS
    Ids = {1, 2, 3}
    Addrs = {udp, ctl}
    Incs = {1, 2}
    SuspectAge = 1
    DeadAge = 2
    CleanupAge = 3
    MaxLag = 1
    MaxStep = 1
    Self = 2
INVARIANTS
    TypeOK
    SelfNotListed
    OneStar
PROPERTIES
    HearsayIsWeak
    ScanElects
    SilentPeerDemoted
