SPECIFICATION FairSpec
CONSTANTS
    Transfers = {t1, t2}
    FileBlocks = 4
    BlockMod = 2
    MaxRetries = 2
    Overtaking = 0
    MaxDups = 0
INVARIANTS
    StoredIsPrefix
    CompleteIsDelivered
PROPERTY TransferEnds
CHECK_DEADLOCK FALSE
