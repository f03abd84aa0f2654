SPECIFICATION Spec
CONSTANTS
    Ids = {1, 2}
    Addrs = {udp}
    Incs = {1}
    SuspectAge = 0
    DeadAge = 1
    CleanupAge = 2
    MaxLag = 0
    MaxStep = 0
    Self = 2
    Backlog = 1
INVARIANT TypeOK
PROPERTIES
    ScreenSettles
    FailureShown
    QuitHonoured
