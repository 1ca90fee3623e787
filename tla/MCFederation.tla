---------------------------- MODULE MCFederation ----------------------------
(* Small instances of Federation. *)
EXTENDS Federation, TLC

Symmetry == Permutations(Worker)
=============================================================================
