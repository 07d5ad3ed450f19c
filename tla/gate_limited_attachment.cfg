SPECIFICATION Spec
CONSTANTS
    Holders = {h1, h2}
    PageLimit = 7
    MaxStamp = 4
    MaxTree = 1
    Writable = {"main", "att"}
    Limited = {"att"}
    Limit = 4
SYMMETRY Symmetry
INVARIANT PinnedSnapshotsStable
CHECK_DEADLOCK FALSE
