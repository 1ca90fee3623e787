--------------------------- MODULE MCReliableClient ---------------------------
(* Small instances of ReliableClient. *)
EXTENDS ReliableClient, TLC

Symmetry == Permutations(Caller)
=============================================================================
