--------------------------- MODULE MCSnapshotGate ---------------------------
(* SnapshotGate on small instances; the holders are interchangeable.       *)
EXTENDS SnapshotGate, TLC

Symmetry == Permutations(Holders)

=============================================================================
