--------------------------- MODULE ActivityStates ---------------------------
(***************************************************************************)
(* The life cycle that runtime/activity_engine.py gives an activity, as    *)
(* constant operators: the states, the transition table, and for each      *)
(* operation of ActivityEngine the states it accepts.                      *)
(*                                                                         *)
(* An engine call is a record [op, goal]: the ActivityEngine method and    *)
(* the state it writes when it does not raise.  "absent" is what           *)
(* ActivityStore.get returns for an id that was never put.                 *)
(***************************************************************************)

ActivityState == {"submitted", "working", "input_required", "auth_required",
                  "completed", "failed", "canceled", "rejected"}

TerminalState == {"completed", "failed", "canceled", "rejected"}

MaybeState == ActivityState \cup {"absent"}

\* _ALLOWED_TRANSITIONS, as the set of the states each state may move to.
AllowedTransitions ==
  [s \in ActivityState |->
     CASE s = "submitted"      -> {"working", "canceled", "rejected"}
       [] s = "working"        -> {"input_required", "auth_required", "completed",
                                   "failed", "canceled", "rejected"}
       [] s = "input_required" -> {"working", "canceled"}
       [] s = "auth_required"  -> {"working", "canceled", "rejected"}
       [] OTHER                -> {}]

\* The states complete() accepts: its own list, not the table.
Completable == {"submitted", "working", "input_required", "auth_required"}

\* Every call of an ActivityEngine method that writes.
Call == [op : {"start"}, goal : {"submitted"}]
          \cup [op : {"transition"}, goal : ActivityState]
          \cup [op : {"complete"}, goal : {"completed"}]
          \cup [op : {"fail"}, goal : {"failed"}]
          \cup [op : {"cancel"}, goal : {"canceled"}]

StartCall == [op |-> "start", goal |-> "submitted"]
TransitionCall(s) == [op |-> "transition", goal |-> s]
CompleteCall == [op |-> "complete", goal |-> "completed"]
FailCall == [op |-> "fail", goal |-> "failed"]
CancelCall == [op |-> "cancel", goal |-> "canceled"]

(* Deviation for a mutation run: cancel() forgets that an activity has ended. *)
AcceptsAnyCancel(c, s) ==
  \/ c.op = "start" /\ s = "absent"
  \/ c.op = "transition" /\ s # "absent" /\ c.goal \in AllowedTransitions[s]
  \/ c.op = "complete" /\ s \in Completable
  \/ c.op \in {"fail", "cancel"} /\ s # "absent"

(***************************************************************************)
(* Whether a method that finds the activity in state s goes on to put it:  *)
(* start raises ALREADY_EXISTS for an id it finds; every other method      *)
(* raises NOT_FOUND for one it does not find; transition consults the      *)
(* table, complete and cancel their own lists, and fail nothing.           *)
(***************************************************************************)
Accepts(c, s) ==
  \/ c.op = "start" /\ s = "absent"
  \/ c.op = "transition" /\ s # "absent" /\ c.goal \in AllowedTransitions[s]
  \/ c.op = "complete" /\ s \in Completable
  \/ c.op = "fail" /\ s # "absent"
  \/ c.op = "cancel" /\ s # "absent" /\ s \notin TerminalState

=============================================================================
