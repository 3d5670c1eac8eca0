CONSTANTS
    NoView = NoView
    Shards = {s0}
    TxBlocks = {2, 3, 5}
    RestoreEvery = 2
    MaxHeight = 5
    MaxCrashes = 2
    MarkUnreadable = FALSE
SPECIFICATION FairSpec
CHECK_DEADLOCK FALSE
INVARIANTS
    TypeOK
    Restorable
    MarkIsBacked
    OneBlockAhead
    RepeatsAreRestarts
    ShownInTime
PROPERTIES
    RestoreKeepsState
    CatchesUp
