------------------------------ MODULE EventLog ------------------------------
(***************************************************************************)
(* EventEngine.publish over an EventStore: an event goes to the log of its *)
(* session and then, with no lock over the two, to the log of its activity *)
(* if it has one.                                                          *)
(*                                                                         *)
(* An append is one step where it is atomic.  Over the in-memory stores it *)
(* is for threads: each store has its lock, and what a crash would leave   *)
(* is gone.  Over SQLite it is for requests one at a time (SqliteStores,   *)
(* AloneInv in SqliteProofs): what has returned is on the disk, what has   *)
(* raised is not.  Threads over SQLite, whose puts may be rolled back      *)
(* after they have returned, are no host of this module.                   *)
(***************************************************************************)
EXTENDS Naturals, Sequences, SequencesExt, FiniteSets

CONSTANTS
  Publisher,    \* requests that publish, one event after the other
  Activity,     \* activities of the one session
  NoActivity,   \* the activity_id of an event of the session
  MaxEvents,    \* bound on the events
  MaxCrashes,   \* bound on the crashes
  MaxFailures   \* bound on the accesses that raise

ASSUME ActivityAssumption == NoActivity \notin Activity
ASSUME BoundAssumption == MaxEvents \in Nat /\ MaxCrashes \in Nat /\ MaxFailures \in Nat

VARIABLES
  host,      \* "threads" over the in-memory stores, or requests one at a time,
             \* "alone", over SQLite; once and for all
  session,   \* the session's log
  activity,  \* each activity's log
  pc,        \* where each publisher is
  event,     \* the event it publishes
  begun,     \* events begun
  crashes, failures

vars == <<host, session, activity, pc, event, begun, crashes, failures>>

Event == [n : 1 .. MaxEvents, activity : Activity \cup {NoActivity}]
NoEvent == [n |-> 0]

Host == {"threads", "alone"}

\* Types of the variables.
TypeOK ==
  /\ host \in Host
  /\ session \in Seq(Event) /\ Len(session) <= begun
  /\ activity \in [Activity -> Seq(Event)]
  /\ pc \in [Publisher -> {"idle", "session", "activity"}]
  /\ event \in [Publisher -> Event \cup {NoEvent}]
  /\ begun \in 0 .. MaxEvents /\ crashes \in 0 .. MaxCrashes /\ failures \in 0 .. MaxFailures

Init ==
  /\ host \in Host
  /\ session = <<>> /\ activity = [a \in Activity |-> <<>>]
  /\ pc = [p \in Publisher |-> "idle"]
  /\ event = [p \in Publisher |-> NoEvent]
  /\ begun = 0 /\ crashes = 0 /\ failures = 0

-----------------------------------------------------------------------------
Busy == {p \in Publisher : pc[p] # "idle"}

(* Deviation: another publisher may come between the two appends. *)
MayStepAnytime(p) == TRUE

MayStep(p) == host = "threads" \/ Busy \subseteq {p}

Goto(p, step) == pc' = [pc EXCEPT ![p] = step]

Publish(p) ==
  /\ pc[p] = "idle" /\ begun < MaxEvents
  /\ begun' = begun + 1
  /\ \E a \in Activity \cup {NoActivity} :
       event' = [event EXCEPT ![p] = [n |-> begun + 1, activity |-> a]]
  /\ Goto(p, "session")
  /\ UNCHANGED <<host, session, activity, crashes, failures>>

Return(p) == Goto(p, "idle") /\ event' = [event EXCEPT ![p] = NoEvent]

\* An event of the session is published with that; one of an activity is not yet.
AfterSession(p) ==
  IF event[p].activity = NoActivity THEN Return(p) ELSE Goto(p, "activity") /\ UNCHANGED event

(* Deviation: an activity's event does not go to the session's log. *)
AppendEither(p) ==
  /\ pc[p] = "session"
  /\ session' = IF event[p].activity = NoActivity THEN Append(session, event[p]) ELSE session
  /\ AfterSession(p)
  /\ UNCHANGED <<host, activity, begun, crashes, failures>>

AppendToSession(p) ==
  /\ pc[p] = "session"
  /\ session' = Append(session, event[p])
  /\ AfterSession(p)
  /\ UNCHANGED <<host, activity, begun, crashes, failures>>

AppendToActivity(p) ==
  /\ pc[p] = "activity"
  /\ activity' = [activity EXCEPT ![event[p].activity] = Append(@, event[p])]
  /\ Return(p)
  /\ UNCHANGED <<host, session, begun, crashes, failures>>

\* An access to a store raises and does nothing: the file is locked, the disk full,
\* the value cannot be copied.  The request is over, whatever it was.
Raise(p) ==
  /\ failures < MaxFailures
  /\ failures' = failures + 1
  /\ Return(p)
  /\ UNCHANGED <<host, session, activity, begun, crashes>>

\* The process dies and is started again on the same database.
Crash ==
  /\ host = "alone" /\ crashes < MaxCrashes
  /\ crashes' = crashes + 1
  /\ pc' = [p \in Publisher |-> "idle"]
  /\ event' = [p \in Publisher |-> NoEvent]
  /\ UNCHANGED <<host, session, activity, begun, failures>>

Done == Busy = {} /\ begun = MaxEvents /\ UNCHANGED vars

Work(p) == MayStep(p) /\ (Publish(p) \/ AppendToSession(p) \/ AppendToActivity(p))

Next == Done \/ Crash \/ \E p \in Publisher : Work(p) \/ (MayStep(p) /\ Raise(p))

Spec == Init /\ [][Next]_vars

-----------------------------------------------------------------------------
(* Properties *)

\* A reader of an activity's log gets its events in the order in which a reader of
\* the session's log does.
SameOrder ==
  \A a \in Activity : \A i, j \in DOMAIN activity[a], k, l \in DOMAIN session :
    i < j /\ session[k] = activity[a][i] /\ session[l] = activity[a][j] => k < l

\* An activity's log has nothing that the session's has not, not for a moment, and
\* nothing twice; what it lacks is under way, or a crash or a failure cut it off.
ActivityWithinSession ==
  \A a \in Activity :
    LET underWay == {p \in Publisher : pc[p] = "activity" /\ event[p].activity = a}
        whole == {e \in ToSet(session) : e.activity = a}
    IN
    /\ ToSet(activity[a]) \subseteq whole
    /\ Len(activity[a]) <= Cardinality(whole)
    /\ crashes = 0 /\ failures = 0 =>
         whole = ToSet(activity[a]) \cup {event[p] : p \in underWay}
=============================================================================
