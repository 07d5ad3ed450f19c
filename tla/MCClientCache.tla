---------------------------- MODULE MCClientCache ----------------------------
(* ClientCache on small instances; the reading threads are interchangeable. *)
EXTENDS ClientCache, TLC

Symmetry == Permutations(Readers)

=============================================================================
