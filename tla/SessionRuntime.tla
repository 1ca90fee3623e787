--------------------------- MODULE SessionRuntime ---------------------------
(***************************************************************************)
(* SessionEngine and the sessions_* methods of FPServer, for one session   *)
(* id and many callers.  An operation is a read of the store with its      *)
(* checks, a write of the edited copy, and the publication of an event.    *)
(* With Scheduler = "threads" these are three steps; AsyncFPServer awaits  *)
(* nothing in between, so that with "eventloop" nobody interleaves.        *)
(***************************************************************************)
EXTENDS SessionStates

CONSTANTS
  Worker,       \* concurrent requests the server runs
  Entity,       \* the registered entities
  Role,         \* role names
  Participant,  \* the role of an entity that is given none
  Assignments,  \* the roles and the roles_patch that callers pass
  Goals,        \* session states that callers of sessions_update ask for
  Durable,      \* TRUE over the SQLite stores, FALSE over the in-memory ones
  Scheduler     \* "threads" or "eventloop"

ASSUME RoleAssumption == /\ Participant \in Role
                         /\ Assignments \subseteq [Entity -> SUBSET Role]
ASSUME GoalAssumption == Goals \subseteq SessionState
ASSUME ModeAssumption == Durable \in BOOLEAN /\ Scheduler \in {"threads", "eventloop"}

VARIABLES
  stored,  \* the session store's entry for the id
  told,    \* state and participants as the events of the log tell them
  pc,      \* where each worker is
  req,     \* the request it serves
  copy     \* the copy of the session it has read

vars == <<stored, told, pc, req, copy>>

\* A roles dict is a function; an entity without an entry has the empty set,
\* which no operation ever stores for one that has.
NoRoles == [e \in Entity |-> {}]
Named(roles) == {e \in Entity : roles[e] # {}}

Session == [state : SessionState, participants : SUBSET Entity, roles : [Entity -> SUBSET Role]]
Absent == [state |-> "absent", participants |-> {}, roles |-> NoRoles]

\* "same" is the update that passes no state.
Request ==
  [op : {"create"}, participants : SUBSET Entity, roles : Assignments]
    \cup [op : {"join"}, entity : Entity, given : SUBSET Role]
    \cup [op : {"leave"}, entity : Entity]
    \cup [op : {"update"}, goal : Goals \cup {"same"}, patch : Assignments]
    \cup [op : {"close"}]
NoRequest == [op |-> "none"]

Told == [state : SessionState \cup {"absent"}, participants : SUBSET Entity]

\* Types of the variables.
TypeOK ==
  /\ stored \in Session \cup {Absent}
  /\ told \in Told
  /\ pc \in [Worker -> {"idle", "load", "put", "emit"}]
  /\ req \in [Worker -> Request \cup {NoRequest}]
  /\ copy \in [Worker -> Session \cup {Absent}]

Init ==
  /\ stored = Absent
  /\ told = [state |-> "absent", participants |-> {}]
  /\ pc = [w \in Worker |-> "idle"]
  /\ req = [w \in Worker |-> NoRequest]
  /\ copy = [w \in Worker |-> Absent]

-----------------------------------------------------------------------------
(* What each operation checks and what it makes of the session. *)

Open(s) == s.state \in SessionState \ ClosedState

Joinable(s) == s.state = "active"

\* A request naming an empty role set or an unregistered entity is refused as
\* well; it never gets past its checks and is left out.
Admits(r, s) ==
  CASE r.op = "create" -> /\ s = Absent
                          /\ \E d, e \in r.participants : d # e
                          /\ Named(r.roles) \subseteq r.participants
    [] r.op = "join"   -> Joinable(s)
    [] r.op = "leave"  -> Open(s)
    [] r.op = "update" -> Open(s) /\ r.goal \in {"same", s.state} \cup SessionTransitions[s.state]
    [] r.op = "close"  -> s.state # "absent" /\ "closed" \in SessionTransitions[s.state]

\* Everybody in members without an entry in roles gets the default one.
WithDefault(roles, members) ==
  [e \in Entity |-> IF e \in members /\ roles[e] = {} THEN {Participant} ELSE roles[e]]

Patched(roles, patch) == [e \in Entity |-> IF patch[e] # {} THEN patch[e] ELSE roles[e]]

Created(r) == [state |-> "active", participants |-> r.participants,
               roles |-> WithDefault(r.roles, r.participants)]

(* Deviation: leave() forgets the roles entry. *)
LeftWithRoles(r, s) == [s EXCEPT !.participants = @ \ {r.entity}]

Left(r, s) == [s EXCEPT !.participants = @ \ {r.entity}, !.roles[r.entity] = {}]

Joined(r, s) ==
  [s EXCEPT !.participants = @ \cup {r.entity},
            !.roles[r.entity] = IF r.given # {} THEN r.given
                                ELSE IF @ = {} THEN {Participant} ELSE @]

(* Deviation: the state passed is written although it is None. *)
UpdatedAlways(r, s) ==
  [state |-> r.goal,
   participants |-> s.participants \cup Named(r.patch),
   roles |-> Patched(s.roles, r.patch)]

Updated(r, s) ==
  [state |-> IF r.goal = "same" THEN s.state ELSE r.goal,
   participants |-> s.participants \cup Named(r.patch),
   roles |-> Patched(s.roles, r.patch)]

Result(r, s) ==
  CASE r.op = "create" -> Created(r)
    [] r.op = "join"   -> Joined(r, s)
    [] r.op = "leave"  -> Left(r, s)
    [] r.op = "update" -> Updated(r, s)
    [] r.op = "close"  -> [s EXCEPT !.state = "closed"]

\* decode_session builds a Session, which raises without participants or roles.
Loads(s) == Durable /\ s # Absent => s.participants # {} /\ s.roles # NoRoles

-----------------------------------------------------------------------------
Busy == {w \in Worker : pc[w] # "idle"}

(* Deviation: another worker may run between the read and the write. *)
MayStepAnytime(w) == TRUE

MayStep(w) == Scheduler = "threads" \/ Busy \subseteq {w}

Goto(w, step) == pc' = [pc EXCEPT ![w] = step]

Return(w) ==
  /\ Goto(w, "idle")
  /\ req' = [req EXCEPT ![w] = NoRequest]
  /\ copy' = [copy EXCEPT ![w] = Absent]

Receive(w) ==
  /\ pc[w] = "idle"
  /\ \E r \in Request : req' = [req EXCEPT ![w] = r]
  /\ Goto(w, "load")
  /\ UNCHANGED <<stored, told, copy>>

\* store.get and the checks.
Load(w) ==
  /\ pc[w] = "load" /\ Loads(stored) /\ Admits(req[w], stored)
  /\ copy' = [copy EXCEPT ![w] = stored]
  /\ Goto(w, "put")
  /\ UNCHANGED <<stored, told, req>>

(* Deviation: close() returns a failed session as it is, too. *)
CloseAgainFailed(w) ==
  /\ pc[w] = "load" /\ Loads(stored)
  /\ req[w].op = "close" /\ stored.state \in ClosedState
  /\ Goto(w, "emit")
  /\ UNCHANGED <<stored, told, req, copy>>

\* close() returns a closed session as it is; sessions_close still publishes.
CloseAgain(w) ==
  /\ pc[w] = "load" /\ Loads(stored)
  /\ req[w].op = "close" /\ stored.state = "closed"
  /\ Goto(w, "emit")
  /\ UNCHANGED <<stored, told, req, copy>>

Refuse(w) ==
  /\ pc[w] = "load"
  /\ ~(Loads(stored) /\ Admits(req[w], stored))
  /\ ~(Loads(stored) /\ req[w].op = "close" /\ stored.state = "closed")
  /\ Return(w)
  /\ UNCHANGED <<stored, told>>

Put(w) ==
  /\ pc[w] = "put"
  /\ stored' = Result(req[w], copy[w])
  /\ Goto(w, "emit")
  /\ UNCHANGED <<told, req, copy>>

\* What the event tells its reader: session.created the participants, joined and
\* left the one who did, updated and closed the state.  An update's roles_patch
\* is in no event.
News(r, s) ==
  CASE r.op = "create" -> [state |-> "active", participants |-> r.participants]
    [] r.op = "join"   -> [told EXCEPT !.participants = @ \cup {r.entity}]
    [] r.op = "leave"  -> [told EXCEPT !.participants = @ \ {r.entity}]
    [] r.op = "update" -> [told EXCEPT !.state = Updated(r, s).state]
    [] r.op = "close"  -> [told EXCEPT !.state = "closed"]

Emit(w) ==
  /\ pc[w] = "emit"
  /\ told' = News(req[w], copy[w])
  /\ Return(w)
  /\ UNCHANGED stored

Work(w) ==
  /\ MayStep(w)
  /\ Receive(w) \/ Load(w) \/ CloseAgain(w) \/ Refuse(w) \/ Put(w) \/ Emit(w)

Next == \E w \in Worker : Work(w)

Spec == Init /\ [][Next]_vars

-----------------------------------------------------------------------------
(* Properties *)

\* Whatever the threads overwrite, the participants of the stored session are
\* exactly the entities that have roles in it.
RolesMatchParticipants == stored.participants = Named(stored.roles)

\* A closed or failed session changes only if the thread that writes it had read
\* it before it was closed.
ReopenedOnlyFromStaleCopy ==
  [][stored.state \in ClosedState /\ stored' # stored =>
       \E w \in Worker : pc[w] = "put" /\ copy[w].state \notin ClosedState]_vars

\* When nobody is inside an operation, the events of the session tell its state,
\* and nobody as a participant who is not one.
LogTellsSession ==
  Busy = {} => told.state = stored.state /\ told.participants \subseteq stored.participants

\* A closed or failed session never changes again.
ClosedIsFinal == [][stored.state \in ClosedState => stored' = stored]_vars

\* A session that is there has a participant.
NeverEmpty == stored # Absent => stored.participants # {}

\* The server implements the abstract life cycle of the session.
Lifecycle == INSTANCE SessionLifecycle
  WITH session <- [state |-> stored.state, participants |-> stored.participants]
LifecycleSpec == Lifecycle!Spec
=============================================================================
