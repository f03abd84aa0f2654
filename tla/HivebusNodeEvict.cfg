SPECIFICATION SpecWithoutLeave
CONSTANTS
    Ids = {1, 2}
    Addrs = {udp, ctl}
    Incs = {1, 2}
    SuspectAge = 0
    DeadAge = 1
    CleanupAge = 3
    MaxLag = 1
    MaxStep = 0
    Self = 2
PROPERTY StaleOnlyRemoved
