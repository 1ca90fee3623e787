---------------------------- MODULE SessionStates ----------------------------
(***************************************************************************)
(* The session states and transition table of runtime/session_engine.py.   *)
(***************************************************************************)

SessionState == {"created", "active", "paused", "closing", "closed", "failed"}

\* The states leave() and update() refuse to touch.
ClosedState == {"closed", "failed"}

\* _ALLOWED_SESSION_TRANSITIONS
SessionTransitions ==
  [s \in SessionState |->
     CASE s = "created" -> {"active", "closing", "closed", "failed"}
       [] s = "active"  -> {"paused", "closing", "closed", "failed"}
       [] s = "paused"  -> {"active", "closing", "closed", "failed"}
       [] s = "closing" -> {"closed", "failed"}
       [] OTHER         -> {}]

=============================================================================
