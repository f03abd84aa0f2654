SPECIFICATION Spec
CONSTANTS
    Transfers = {t1}
    FileBlocks = 4
    BlockMod = 8
    MaxRetries = 3
    Overtaking = 1
    MaxDups = 1
INVARIANTS
    TypeOK
    CompleteIsDelivered
    TrafficBounded
    GivenUpForCause
CHECK_DEADLOCK FALSE
