SPECIFICATION Spec
CONSTANTS
    PageLimit = 8
    MaxStamp = 6
    MaxTree = 2
    MaxFault = 0
    GrowFloor = 1
    GrowCap = 2
    InlineCap = 4
    OverflowCap = 2
    ListCap = 4
    CompactMin = 2
    CompactGrowth = 1
INVARIANTS
    PublishedReadable
    FloorIntact
    FreeListDisjoint
    PendingExact
CHECK_DEADLOCK FALSE
