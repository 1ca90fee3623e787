-------------------------- MODULE MCActivityRestart --------------------------
(***************************************************************************)
(* Small instances of ActivityRestart.  Two bodies tell apart everything   *)
(* the orchestrator does: one names both entities and runs a handler, the  *)
(* other names one and is only recorded.                                   *)
(***************************************************************************)
EXTENDS ActivityRestart, TLC

CONSTANTS runs, waits, owner, initiator

MCBody == {runs, waits}
MCHandled == {runs}
MCEntity == {owner, initiator}
MCParties == runs :> {owner, initiator} @@ waits :> {owner}

WorkerSymmetry == Permutations(Worker)
Symmetry == Permutations(Worker) \cup Permutations(Activity)
=============================================================================
