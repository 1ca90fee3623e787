-------------------------- MODULE MCSessionRuntime --------------------------
(***************************************************************************)
(* Small instances of SessionRuntime: three entities, one of which callers *)
(* may give a role of its own.                                             *)
(***************************************************************************)
EXTENDS SessionRuntime, TLC

CONSTANTS e1, e2, e3, lead, participant

MCEntity == {e1, e2, e3}
MCRole == {lead, participant}
MCAssignments == {NoRoles, [NoRoles EXCEPT ![e1] = {lead}], [NoRoles EXCEPT ![e3] = {participant}]}

Symmetry == Permutations(Worker)
=============================================================================
