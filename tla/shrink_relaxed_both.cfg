SPECIFICATION Spec
CONSTANTS
    GrowFloor = 2
    GrowCap = 4
    MaxPages = 20
    RelaxedBoth = TRUE
INVARIANT AllocatedCoversNewest
