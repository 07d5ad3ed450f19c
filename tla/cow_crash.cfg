SPECIFICATION Spec
CONSTANTS
    PageLimit = 7
    MaxStamp = 4
    MaxTree = 2
    MaxFault = 2
    GrowFloor = 1
    GrowCap = 2
    InlineCap = 2
    OverflowCap = 2
    ListCap = 4
    CompactMin = 2
    CompactGrowth = 1
INVARIANTS
    TypeOK
    RecoveryNeverFails
    PublishedReadable
    FloorIntact
    FreeListDisjoint
PROPERTIES
    KeepsGuarantee
CHECK_DEADLOCK FALSE
