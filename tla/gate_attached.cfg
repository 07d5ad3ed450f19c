SPECIFICATION Spec
CONSTANTS
    Holders = {h1, h2}
    PageLimit = 7
    MaxStamp = 4
    MaxTree = 1
    Writable = {"main", "att"}
    Limited = {"main"}
    Limit = 4
SYMMETRY Symmetry
INVARIANTS
    PinnedSnapshotsStable
    PublishedRootsReadable
    PrecheckIsFinal
    GenerationGate
    UngatedListDead
CHECK_DEADLOCK FALSE
