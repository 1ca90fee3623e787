-------------------------- MODULE SessionLifecycle --------------------------
(***************************************************************************)
(* What SessionEngine promises about one session: it is created once, with *)
(* two participants or more; from then on it changes state only along the  *)
(* table, gains participants or loses one; and nothing touches it once it  *)
(* is closed or failed.  SessionRuntime has to implement this, and         *)
(* ActivityRuntime assumes it of the session its starts are validated on.  *)
(***************************************************************************)
EXTENDS SessionStates

CONSTANT Entity

VARIABLE session

NoSession == [state |-> "absent", participants |-> {}]

Init == session = NoSession

Create ==
  \E members \in SUBSET Entity :
    /\ session = NoSession
    /\ \E d, e \in members : d # e
    /\ session' = [state |-> "active", participants |-> members]

Update ==
  \E goal \in SessionState, joining \in SUBSET Entity :
    /\ session.state \in SessionState \ ClosedState
    /\ goal \in {session.state} \cup SessionTransitions[session.state]
    /\ session' = [state |-> goal, participants |-> session.participants \cup joining]

Leave ==
  \E e \in Entity :
    /\ session.state \in SessionState \ ClosedState
    /\ session' = [session EXCEPT !.participants = @ \ {e}]

Next == Create \/ Update \/ Leave

Spec == Init /\ [][Next]_session
=============================================================================
