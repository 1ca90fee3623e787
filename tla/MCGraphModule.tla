---------------------------- MODULE MCGraphModule ----------------------------
(***************************************************************************)
(* A small instance of GraphModule: one member with two memberships.  One  *)
(* thread runs for ever, two run two requests at a time.                   *)
(***************************************************************************)
EXTENDS GraphModule, TLC

MCKey == Id \cup {Org}
MCRow == Membership \cup Kind \cup Organization \cup Event \cup Outcome

Symmetry == Permutations(Thread) \cup Permutations(Role)
=============================================================================
