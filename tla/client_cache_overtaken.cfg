SPECIFICATION Spec
CONSTANTS
    Pages = {1, 2, 3}
    First = 1
    Readers = {r1, r2}
    Writer = w
    Window = 1
    Capacity = 1
    Prompt = FALSE
    MaxTree = 1
    MaxTxid = 4
SYMMETRY Symmetry
INVARIANT
    ReadsItsSnapshot
