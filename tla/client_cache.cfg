SPECIFICATION Spec
CONSTANTS
    Pages = {1, 2, 3}
    First = 1
    Readers = {r1, r2}
    Writer = w
    Window = 1
    Capacity = 2
    Prompt = TRUE
    MaxTree = 2
    MaxTxid = 3
INVARIANTS
    TypeOK
    ReadsItsSnapshot
    PinDiscipline
    CacheIsAdopted
SYMMETRY Symmetry
