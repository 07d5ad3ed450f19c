SPECIFICATION Spec
CONSTANTS
    Holders = {h1, h2}
    PageLimit = 7
    MaxStamp = 5
    MaxTree = 2
    Writable = {"main"}
    Limited = {"main"}
    Limit = 5
SYMMETRY Symmetry
INVARIANTS
    TypeOK
    PinnedSnapshotsStable
    PublishedRootsReadable
    GenerationGate
CHECK_DEADLOCK FALSE
