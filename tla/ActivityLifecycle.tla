-------------------------- MODULE ActivityLifecycle --------------------------
(***************************************************************************)
(* What ActivityEngine promises about the activities of a server: each one *)
(* is created once, as submitted, and from then on changes state only by   *)
(* a call its current state accepts, one call at a time.  ActivityRuntime  *)
(* is the program that has to implement this with a store whose reads and  *)
(* writes are separate steps.                                              *)
(***************************************************************************)
EXTENDS ActivityStates

CONSTANT Activity

VARIABLE state

Init == state = [a \in Activity |-> "absent"]

\* One whole engine call: read, check, write.
Perform(a, c) ==
  /\ Accepts(c, state[a])
  /\ state' = [state EXCEPT ![a] = c.goal]

Next == \E a \in Activity, c \in Call : Perform(a, c)

Spec == Init /\ [][Next]_state

=============================================================================
