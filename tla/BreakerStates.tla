--------------------------- MODULE BreakerStates ---------------------------
(***************************************************************************)
(* The circuit breaker its one caller sees: closed, open for the recovery  *)
(* timeout, then half open until the next call decides.                    *)
(***************************************************************************)
VARIABLE circuit

Init == circuit = "closed"

Trip == circuit = "closed" /\ circuit' = "open"
Cooldown == circuit = "open" /\ circuit' = "half-open"
Probe == circuit = "half-open" /\ circuit' \in {"closed", "open"}

Next == Trip \/ Cooldown \/ Probe

Spec == Init /\ [][Next]_circuit
=============================================================================
