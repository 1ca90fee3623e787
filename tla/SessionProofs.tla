---------------------------- MODULE SessionProofs ----------------------------
(***************************************************************************)
(* Theorems about SessionRuntime for any workers, entities and roles,      *)
(* checked by TLAPS.                                                       *)
(***************************************************************************)
EXTENDS SessionRuntime, TLAPS

Matched(s) == s.participants = Named(s.roles)

\* Which fields a request has is told by its operation.
LEMMA RequestFacts ==
  ASSUME NEW r \in Request
  PROVE  /\ r.op \in {"create", "join", "leave", "update", "close"}
         /\ r.op = "create" => r.participants \in SUBSET Entity /\ r.roles \in [Entity -> SUBSET Role]
         /\ r.op = "join" => r.entity \in Entity /\ r.given \in SUBSET Role
         /\ r.op = "leave" => r.entity \in Entity
         /\ r.op = "update" => /\ r.goal \in SessionState \cup {"same"}
                               /\ r.patch \in [Entity -> SUBSET Role]
  BY RoleAssumption, GoalAssumption DEF Request

\* Only create is admitted when there is no session.
LEMMA AbsentOnlyCreates ==
  ASSUME NEW r \in Request, Admits(r, Absent)
  PROVE  r.op = "create"
  <1> SUFFICES ASSUME r.op # "create" PROVE FALSE
    OBVIOUS
  <1>1. Absent.state = "absent" /\ Absent.state \notin SessionState
    BY DEF Absent, SessionState
  <1>2. ~Open(Absent) /\ ~Joinable(Absent)
    BY <1>1 DEF Open, Joinable
  <1>3. QED
    BY <1>1, <1>2, RequestFacts DEF Admits

\* An admitted operation makes a session in which again exactly the participants
\* have roles: of nothing for create, and of a matched session for the others.
LEMMA ResultFacts ==
  ASSUME NEW r \in Request, NEW s \in Session \cup {Absent}, Admits(r, s), Matched(s)
  PROVE  Result(r, s) \in Session /\ Matched(Result(r, s))
  <1> USE DEF Session, Matched, Named
  <1>1. CASE r.op = "create"
    <2>1. Result(r, s) = Created(r)
      BY <1>1 DEF Result
    <2>2. r.roles \in [Entity -> SUBSET Role] /\ r.participants \in SUBSET Entity
      BY <1>1, RequestFacts
    <2>3. Named(r.roles) \subseteq r.participants
      BY <1>1 DEF Admits
    <2>4. WithDefault(r.roles, r.participants) \in [Entity -> SUBSET Role]
      BY <2>2, RoleAssumption DEF WithDefault
    <2>5. Named(WithDefault(r.roles, r.participants)) = r.participants
      BY <2>2, <2>3, RoleAssumption DEF WithDefault
    <2>6. QED
      BY <2>1, <2>2, <2>4, <2>5 DEF Created, SessionState
  <1>2. s \in Session \/ r.op = "create"
    BY AbsentOnlyCreates
  <1>3. CASE r.op = "join" /\ s \in Session
    <2>1. Result(r, s) = Joined(r, s)
      BY <1>3 DEF Result
    <2>2. r.entity \in Entity /\ r.given \in SUBSET Role
      BY <1>3, RequestFacts
    <2> DEFINE given == IF r.given # {} THEN r.given
                        ELSE IF s.roles[r.entity] = {} THEN {Participant} ELSE s.roles[r.entity]
    <2>3. given \in SUBSET Role /\ given # {}
      BY <1>3, <2>2, RoleAssumption
    <2> HIDE DEF given
    <2>4. /\ Joined(r, s).participants = s.participants \cup {r.entity}
          /\ Joined(r, s).roles = [s.roles EXCEPT ![r.entity] = given]
          /\ Joined(r, s) \in Session
      BY <1>3, <2>2, <2>3 DEF Joined, given
    <2>5. QED
      BY <1>3, <2>1, <2>2, <2>3, <2>4
  <1>4. CASE r.op = "leave" /\ s \in Session
    <2>1. Result(r, s) = Left(r, s)
      BY <1>4 DEF Result
    <2>2. r.entity \in Entity
      BY <1>4, RequestFacts
    <2>3. /\ Left(r, s).participants = s.participants \ {r.entity}
          /\ Left(r, s).roles = [s.roles EXCEPT ![r.entity] = {}]
          /\ Left(r, s) \in Session
      BY <1>4, <2>2 DEF Left
    <2>4. QED
      BY <1>4, <2>1, <2>2, <2>3
  <1>5. CASE r.op = "update" /\ s \in Session
    <2>1. Result(r, s) = Updated(r, s)
      BY <1>5 DEF Result
    <2>2. r.goal \in SessionState \cup {"same"} /\ r.patch \in [Entity -> SUBSET Role]
      BY <1>5, RequestFacts
    <2>3. Patched(s.roles, r.patch) \in [Entity -> SUBSET Role]
      BY <1>5, <2>2 DEF Patched
    <2>4. Named(Patched(s.roles, r.patch)) = s.participants \cup Named(r.patch)
      BY <1>5, <2>2 DEF Patched
    <2>5. Updated(r, s).state \in SessionState
      BY <1>5, <2>2 DEF Updated
    <2>6. QED
      BY <1>5, <2>1, <2>3, <2>4, <2>5 DEF Updated
  <1>6. CASE r.op = "close" /\ s \in Session
    <2>1. Result(r, s) = [s EXCEPT !.state = "closed"]
      BY <1>6 DEF Result
    <2>2. QED
      BY <1>6, <2>1 DEF SessionState
  <1>7. QED
    BY <1>1, <1>2, <1>3, <1>4, <1>5, <1>6, RequestFacts

-----------------------------------------------------------------------------
(***************************************************************************)
(* The invariant behind RolesMatchParticipants speaks of the copies too:   *)
(* what a thread puts is the result of its copy, not of the stored entry.  *)
(***************************************************************************)
CopyInv ==
  /\ stored \in Session \cup {Absent} /\ Matched(stored)
  /\ pc \in [Worker -> {"idle", "load", "put", "emit"}]
  /\ req \in [Worker -> Request \cup {NoRequest}]
  /\ copy \in [Worker -> Session \cup {Absent}]
  /\ \A w \in Worker : /\ Matched(copy[w])
                       /\ pc[w] # "idle" => req[w] \in Request
                       /\ pc[w] = "put" => Admits(req[w], copy[w])

LEMMA CopyInvInit == Init => CopyInv
  BY DEF Init, CopyInv, Matched, Named, Absent, NoRoles

LEMMA CopyInvNext == CopyInv /\ [Next]_vars => CopyInv'
  <1> SUFFICES ASSUME CopyInv, [Next]_vars PROVE CopyInv'
    OBVIOUS
  <1>1. CASE UNCHANGED vars
    BY <1>1 DEF vars, CopyInv, Matched, Named, Admits, Open, Joinable
  <1>2. ASSUME NEW w \in Worker, Work(w) PROVE CopyInv'
    <2>1. CASE Receive(w)
      BY <2>1 DEF Receive, Goto, CopyInv
    <2>2. CASE Load(w)
      BY <2>2 DEF Load, Goto, CopyInv
    <2>3. CASE CloseAgain(w)
      BY <2>3 DEF CloseAgain, Goto, CopyInv
    <2>4. CASE Refuse(w) \/ Emit(w)
      <3>1. Matched(Absent)
        BY DEF Matched, Named, Absent, NoRoles
      <3>2. QED
        BY <2>4, <3>1 DEF Refuse, Emit, Return, Goto, CopyInv
    <2>5. CASE Put(w)
      <3>1. stored' \in Session /\ Matched(stored')
        BY <2>5, ResultFacts DEF Put, CopyInv
      <3>2. QED
        BY <2>5, <3>1 DEF Put, Goto, CopyInv
    <2>6. QED
      BY <1>2, <2>1, <2>2, <2>3, <2>4, <2>5 DEF Work
  <1>3. QED
    BY <1>1, <1>2 DEF Next

\* However the threads overwrite each other's sessions, exactly the participants
\* of the stored session have roles in it.
THEOREM RolesAlwaysMatch == Spec => []RolesMatchParticipants
  <1>1. CopyInv => RolesMatchParticipants
    BY DEF CopyInv, RolesMatchParticipants, Matched
  <1>2. QED
    BY <1>1, CopyInvInit, CopyInvNext, PTL DEF Spec

\* Only Put writes the session store, with the result of an admitted operation.
LEMMA OnlyPutWrites ==
  ASSUME CopyInv, [Next]_vars, stored' # stored
  PROVE  \E w \in Worker : /\ Put(w) /\ MayStep(w)
                           /\ req[w] \in Request /\ Admits(req[w], copy[w])
  <1>1. PICK w \in Worker : Work(w)
    BY DEF Next, vars
  <1>2. Put(w)
    BY <1>1 DEF Work, Receive, Load, CloseAgain, Refuse, Emit
  <1>3. QED
    BY <1>1, <1>2 DEF Work, Put, CopyInv

\* Nothing is admitted on a closed or failed session.
LEMMA NothingOnClosed ==
  ASSUME NEW r \in Request, NEW s, s.state \in ClosedState
  PROVE  ~Admits(r, s)
  <1>1. s # Absent /\ ~Open(s) /\ ~Joinable(s)
    BY DEF Absent, Open, Joinable, ClosedState
  <1>2. SessionTransitions[s.state] = {}
    BY DEF ClosedState, SessionTransitions, SessionState
  <1>3. QED
    BY <1>1, <1>2, RequestFacts DEF Admits

\* Under any scheduler, a closed session is reopened only from a copy that was
\* read before it closed.
THEOREM OnlyStaleCopiesReopen == Spec => ReopenedOnlyFromStaleCopy
  <1>1. ASSUME CopyInv, [Next]_vars, stored.state \in ClosedState, stored' # stored
        PROVE  \E w \in Worker : pc[w] = "put" /\ copy[w].state \notin ClosedState
    BY <1>1, OnlyPutWrites, NothingOnClosed DEF Put
  <1>2. QED
    BY <1>1, CopyInvInit, CopyInvNext, PTL DEF Spec, ReopenedOnlyFromStaleCopy

-----------------------------------------------------------------------------
(* On the event loop the copy a worker puts is still the stored session. *)
LoopInv ==
  /\ \A v, w \in Busy : v = w
  /\ \A w \in Worker : pc[w] = "put" => copy[w] = stored

LEMMA LoopInvInit == Init => LoopInv
  BY DEF Init, LoopInv, Busy

LEMMA LoopInvNext ==
  ASSUME Scheduler = "eventloop", CopyInv, LoopInv, [Next]_vars
  PROVE  LoopInv'
  <1>1. CASE UNCHANGED vars
    BY <1>1 DEF vars, LoopInv, Busy
  <1>2. ASSUME NEW w \in Worker, Work(w) PROVE LoopInv'
    <2>1. \A v \in Worker \ {w} : pc[v] = "idle" /\ pc'[v] = "idle"
      BY <1>2 DEF Work, MayStep, Busy, Receive, Load, CloseAgain, Refuse, Put, Emit, Return,
                  Goto, CopyInv
    <2>2. pc'[w] = "put" => copy'[w] = stored'
      BY <1>2 DEF Work, Receive, Load, CloseAgain, Refuse, Put, Emit, Return, Goto, CopyInv
    <2>3. QED
      BY <2>1, <2>2 DEF LoopInv, Busy
  <1>3. QED
    BY <1>1, <1>2 DEF Next

\* On the event loop a write is one admitted operation on the stored session.
LEMMA LoopWrites ==
  ASSUME Scheduler = "eventloop", CopyInv, LoopInv, [Next]_vars, stored' # stored
  PROVE  \E r \in Request : Admits(r, stored) /\ stored' = Result(r, stored)
  BY OnlyPutWrites DEF Put, LoopInv

\* AsyncFPServer never touches a closed or failed session.
THEOREM LoopClosedIsFinal ==
  ASSUME Scheduler = "eventloop"
  PROVE  Spec => ClosedIsFinal
  <1>1. ASSUME CopyInv, LoopInv, [Next]_vars, stored.state \in ClosedState
        PROVE  stored' = stored
    BY <1>1, LoopWrites, NothingOnClosed
  <1>2. QED
    BY <1>1, CopyInvInit, CopyInvNext, LoopInvInit, LoopInvNext, PTL DEF Spec, ClosedIsFinal

\* One admitted operation is a step of the abstract life cycle.
LEMMA OperationsAreSteps ==
  ASSUME NEW r \in Request, stored \in Session \cup {Absent}, Matched(stored),
         Admits(r, stored), stored' = Result(r, stored)
  PROVE  Lifecycle!Next
  <1> DEFINE s == [state |-> stored.state, participants |-> stored.participants]
             t == [state |-> stored'.state, participants |-> stored'.participants]
  <1>1. CASE r.op = "create"
    <2>1. /\ stored = Absent /\ \E d, e \in r.participants : d # e
          /\ r.participants \in SUBSET Entity
      BY <1>1, RequestFacts DEF Admits
    <2>2. t = [state |-> "active", participants |-> r.participants]
      BY <1>1 DEF Result, Created
    <2>3. Lifecycle!Create
      BY <2>1, <2>2 DEF Lifecycle!Create, Lifecycle!NoSession, Absent
    <2>4. QED
      BY <2>3 DEF Lifecycle!Next
  <1>2. CASE r.op = "leave"
    <2>1. r.entity \in Entity /\ Open(stored)
      BY <1>2, RequestFacts DEF Admits
    <2>2. t = [s EXCEPT !.participants = @ \ {r.entity}]
      <3>1. stored \in Session
        BY <1>2, AbsentOnlyCreates
      <3>2. stored' = Left(r, stored)
        BY <1>2 DEF Result
      <3>3. stored'.state = stored.state /\ stored'.participants = stored.participants \ {r.entity}
        BY <3>1, <3>2 DEF Left, Session
      <3>4. QED
        BY <3>3
    <2>3. Lifecycle!Leave
      BY <2>1, <2>2 DEF Lifecycle!Leave, Open, Lifecycle!SessionState, SessionState,
         Lifecycle!ClosedState, ClosedState
    <2>4. QED
      BY <2>3 DEF Lifecycle!Next
  <1>3. ASSUME NEW goal \in SessionState, NEW joining \in SUBSET Entity,
               Open(stored), goal \in {stored.state} \cup SessionTransitions[stored.state],
               t = [state |-> goal, participants |-> stored.participants \cup joining]
        PROVE  Lifecycle!Next
    <2>1. Lifecycle!Update
      BY <1>3 DEF Lifecycle!Update, Open, Lifecycle!SessionState, SessionState,
         Lifecycle!ClosedState, ClosedState, Lifecycle!SessionTransitions, SessionTransitions
    <2>2. QED
      BY <2>1 DEF Lifecycle!Next
  <1>4. ASSUME r.op # "create" PROVE stored \in Session
    BY <1>4, AbsentOnlyCreates
  <1>5. CASE r.op = "join"
    <2>1. Open(stored) /\ r.entity \in Entity
      BY <1>5, RequestFacts DEF Admits, Joinable, Open, SessionState, ClosedState
    <2>2. stored' = Joined(r, stored)
      BY <1>5 DEF Result
    <2>3. t = [state |-> stored.state, participants |-> stored.participants \cup {r.entity}]
      BY <1>4, <1>5, <2>2 DEF Joined, Session
    <2>4. QED
      BY <1>3, <2>1, <2>3 DEF Open
  <1>6. CASE r.op = "update"
    <2>1. /\ Open(stored) /\ r.patch \in [Entity -> SUBSET Role]
          /\ r.goal \in {"same", stored.state} \cup SessionTransitions[stored.state]
          /\ r.goal \in SessionState \cup {"same"}
      BY <1>6, RequestFacts DEF Admits
    <2>2. stored' = Updated(r, stored)
      BY <1>6 DEF Result
    <2> DEFINE goal == IF r.goal = "same" THEN stored.state ELSE r.goal
    <2>3. t = [state |-> goal, participants |-> stored.participants \cup Named(r.patch)]
      BY <2>2 DEF Updated
    <2>4. /\ goal \in SessionState /\ goal \in {stored.state} \cup SessionTransitions[stored.state]
          /\ Named(r.patch) \in SUBSET Entity
      BY <2>1 DEF Open, Named
    <2> HIDE DEF goal
    <2>5. QED
      BY <1>3, <2>1, <2>3, <2>4
  <1>7. CASE r.op = "close"
    <2>1. "closed" \in SessionTransitions[stored.state]
      BY <1>7 DEF Admits
    <2>2. Open(stored) /\ "closed" \in SessionState
      BY <1>4, <1>7, <2>1 DEF Session, Open, SessionTransitions, SessionState, ClosedState
    <2>3. PICK joining \in SUBSET Entity :
            t = [state |-> "closed", participants |-> stored.participants \cup joining]
      <3>1. t = [state |-> "closed", participants |-> stored.participants]
        BY <1>4, <1>7 DEF Result, Session
      <3>2. {} \in SUBSET Entity /\ stored.participants = stored.participants \cup {}
        OBVIOUS
      <3>3. QED
        BY <3>1, <3>2
    <2>4. "closed" \in {stored.state} \cup SessionTransitions[stored.state]
      BY <2>1
    <2>5. QED
      BY <1>3, <2>2, <2>3, <2>4
  <1>8. QED
    BY <1>1, <1>2, <1>5, <1>6, <1>7, RequestFacts

\* AsyncFPServer implements the abstract life cycle of a session, the one the
\* activity runtime is checked in.
THEOREM LoopImplementsSession ==
  ASSUME Scheduler = "eventloop"
  PROVE  Spec => LifecycleSpec
  <1>1. Init => Lifecycle!Init
    BY DEF Init, Lifecycle!Init, Lifecycle!NoSession, Absent
  <1>2. ASSUME CopyInv, LoopInv, [Next]_vars
        PROVE  Lifecycle!Next \/ UNCHANGED [state |-> stored.state, participants |-> stored.participants]
    <2>1. CASE stored' = stored
      BY <2>1
    <2>2. CASE stored' # stored
      BY <1>2, <2>2, LoopWrites, OperationsAreSteps DEF CopyInv
    <2>3. QED
      BY <2>1, <2>2
  <1>3. QED
    BY <1>1, <1>2, CopyInvInit, CopyInvNext, LoopInvInit, LoopInvNext, PTL
    DEF Spec, LifecycleSpec, Lifecycle!Spec

-----------------------------------------------------------------------------
(***************************************************************************)
(* What the events tell.  A publication comes after the put it is of, with *)
(* the copy that was put; only close() publishes without one.              *)
(***************************************************************************)
Tells(s) == told.state = s.state /\ told.participants \subseteq s.participants

EmitInv ==
  /\ told \in Told
  /\ \A w \in Worker : pc[w] = "emit" => req[w].op = "close" \/ Admits(req[w], copy[w])

\* An event is of a session that is there, and after what it tells the reader knows
\* the session it is of, if it knew the one before.
LEMMA NewsFacts ==
  ASSUME NEW r \in Request, NEW s \in Session \cup {Absent}, told \in Told,
         r.op = "close" \/ Admits(r, s)
  PROVE  /\ News(r, s) \in Told
         /\ Admits(r, s) /\ Tells(s) =>
              /\ News(r, s).state = Result(r, s).state
              /\ News(r, s).participants \subseteq Result(r, s).participants
         /\ r.op = "close" => News(r, s) = [told EXCEPT !.state = "closed"]
  <1>1. r.op # "create" /\ r.op # "close" => s \in Session
    BY AbsentOnlyCreates
  <1>2. CASE r.op = "create"
    BY <1>2, RequestFacts DEF News, Told, Result, Created, SessionState
  <1>3. CASE r.op = "join"
    <2>1. Result(r, s) = Joined(r, s) /\ s \in Session /\ r.entity \in Entity
      BY <1>1, <1>3, RequestFacts DEF Result
    <2>2. /\ Joined(r, s).state = s.state
          /\ Joined(r, s).participants = s.participants \cup {r.entity}
      BY <2>1 DEF Joined, Session
    <2>3. News(r, s) = [told EXCEPT !.participants = @ \cup {r.entity}]
      BY <1>3 DEF News
    <2>4. QED
      BY <1>3, <2>1, <2>2, <2>3 DEF Told, Tells
  <1>4. CASE r.op = "leave"
    <2>1. Result(r, s) = Left(r, s) /\ s \in Session /\ r.entity \in Entity
      BY <1>1, <1>4, RequestFacts DEF Result
    <2>2. /\ Left(r, s).state = s.state
          /\ Left(r, s).participants = s.participants \ {r.entity}
      BY <2>1 DEF Left, Session
    <2>3. News(r, s) = [told EXCEPT !.participants = @ \ {r.entity}]
      BY <1>4 DEF News
    <2>4. QED
      BY <1>4, <2>1, <2>2, <2>3 DEF Told, Tells
  <1>5. CASE r.op = "update"
    <2>1. Result(r, s) = Updated(r, s) /\ s \in Session /\ r.goal \in SessionState \cup {"same"}
      BY <1>1, <1>5, RequestFacts DEF Result
    <2>2. Updated(r, s).state \in SessionState /\ s.participants \subseteq Updated(r, s).participants
      BY <2>1 DEF Updated, Session
    <2>3. News(r, s) = [told EXCEPT !.state = Updated(r, s).state]
      BY <1>5 DEF News
    <2>4. QED
      BY <1>5, <2>1, <2>2, <2>3 DEF Told, Tells
  <1>6. CASE r.op = "close"
    <2>1. News(r, s) = [told EXCEPT !.state = "closed"] /\ Result(r, s) = [s EXCEPT !.state = "closed"]
      BY <1>6 DEF News, Result
    <2>2. /\ Result(r, s).state = "closed" /\ Result(r, s).participants = s.participants
      BY <2>1 DEF Session, Absent
    <2>3. QED
      BY <1>6, <2>1, <2>2 DEF Told, Tells, SessionState
  <1>7. QED
    BY <1>2, <1>3, <1>4, <1>5, <1>6, RequestFacts

LEMMA EmitInvNext ==
  ASSUME CopyInv, EmitInv, [Next]_vars
  PROVE  EmitInv'
  <1>1. CASE UNCHANGED vars
    BY <1>1 DEF vars, EmitInv, Admits, Open, Joinable
  <1>2. ASSUME NEW w \in Worker, Work(w) PROVE EmitInv'
    <2>1. CASE Receive(w) \/ Load(w) \/ Refuse(w)
      BY <2>1 DEF Receive, Load, Refuse, Return, Goto, CopyInv, EmitInv
    <2>2. CASE CloseAgain(w) \/ Put(w)
      BY <2>2 DEF CloseAgain, Put, Goto, CopyInv, EmitInv
    <2>3. CASE Emit(w)
      <3>1. told' = News(req[w], copy[w]) /\ pc[w] = "emit" /\ Return(w)
        BY <2>3 DEF Emit
      <3>2. req[w] \in Request /\ copy[w] \in Session \cup {Absent} /\ told \in Told
        BY <3>1 DEF CopyInv, EmitInv
      <3>3. req[w].op = "close" \/ Admits(req[w], copy[w])
        BY <3>1 DEF EmitInv
      <3>4. told' \in Told
        BY <3>1, <3>2, <3>3, NewsFacts
      <3>5. QED
        BY <3>1, <3>4 DEF Return, Goto, CopyInv, EmitInv
    <2>4. QED
      BY <1>2, <2>1, <2>2, <2>3 DEF Work
  <1>3. QED
    BY <1>1, <1>2 DEF Next

\* Type correctness: whatever the threads overwrite, every session that is stored,
\* copied or told is one, and no event is published of a session that was never there.
THEOREM SessionTypeCorrect == Spec => []TypeOK
  <1>1. Init => EmitInv
    BY DEF Init, EmitInv, Told
  <1>2. CopyInv /\ EmitInv => TypeOK
    BY DEF CopyInv, EmitInv, TypeOK
  <1>3. QED
    BY <1>1, <1>2, CopyInvInit, CopyInvNext, EmitInvNext, PTL DEF Spec

\* On the event loop the log lags behind the store by the one event about to come.
TellInv ==
  /\ (\A w \in Worker : pc[w] # "emit") => Tells(stored)
  /\ \A w \in Worker : pc[w] = "emit" =>
       \/ /\ Admits(req[w], copy[w]) /\ stored = Result(req[w], copy[w])
          /\ Tells(copy[w])
       \/ req[w].op = "close" /\ stored.state = "closed" /\ Tells(stored)

LEMMA TellInvNext ==
  ASSUME Scheduler = "eventloop", CopyInv, EmitInv, LoopInv, TellInv, [Next]_vars
  PROVE  TellInv'
  <1>1. CASE UNCHANGED vars
    BY <1>1 DEF vars, TellInv, Tells, Admits, Open, Joinable
  <1>2. ASSUME NEW w \in Worker, Work(w) PROVE TellInv'
    <2>1. \A v \in Worker \ {w} : pc[v] = "idle" /\ pc'[v] = "idle"
      BY <1>2 DEF Work, MayStep, Busy, Receive, Load, CloseAgain, Refuse, Put, Emit, Return,
                  Goto, CopyInv
    <2>2. CASE Receive(w) \/ Load(w) \/ Refuse(w)
      <3>1. pc[w] # "emit" /\ pc'[w] # "emit" /\ UNCHANGED <<stored, told>>
        BY <2>2 DEF Receive, Load, Refuse, Return, Goto, CopyInv
      <3>2. QED
        BY <2>1, <3>1 DEF TellInv, Tells
    <2>3. CASE CloseAgain(w)
      <3>1. /\ pc[w] # "emit" /\ pc'[w] = "emit" /\ UNCHANGED <<stored, told, req>>
            /\ req[w].op = "close" /\ stored.state = "closed"
        BY <2>3 DEF CloseAgain, Goto, CopyInv
      <3>2. QED
        BY <2>1, <3>1 DEF TellInv, Tells
    <2>4. CASE Put(w)
      <3>1. /\ pc[w] = "put" /\ pc'[w] = "emit" /\ UNCHANGED <<told, req, copy>>
            /\ stored' = Result(req[w], copy[w]) /\ Admits(req[w], copy[w])
            /\ copy[w] = stored
        BY <2>4 DEF Put, Goto, CopyInv, LoopInv
      <3>2. Tells(copy[w])
        BY <2>1, <3>1 DEF TellInv
      <3>3. /\ Admits(req'[w], copy'[w]) /\ stored' = Result(req'[w], copy'[w])
            /\ told'.state = copy'[w].state /\ told'.participants \subseteq copy'[w].participants
        BY <3>1, <3>2 DEF Tells
      <3>4. \A v \in Worker : pc'[v] = "emit" <=> v = w
        BY <2>1, <3>1
      <3>5. QED
        BY <3>3, <3>4 DEF TellInv, Tells
    <2>5. CASE Emit(w)
      <3>1. /\ pc[w] = "emit" /\ pc'[w] = "idle" /\ told' = News(req[w], copy[w])
            /\ UNCHANGED stored /\ req[w] \in Request /\ copy[w] \in Session \cup {Absent}
            /\ told \in Told
        BY <2>5 DEF Emit, Return, Goto, CopyInv, EmitInv
      <3>2. told'.state = stored.state /\ told'.participants \subseteq stored.participants
        <4>1. CASE Admits(req[w], copy[w]) /\ stored = Result(req[w], copy[w]) /\ Tells(copy[w])
          BY <3>1, <4>1, NewsFacts
        <4>2. CASE req[w].op = "close" /\ stored.state = "closed" /\ Tells(stored)
          BY <3>1, <4>2, NewsFacts DEF Told, Tells
        <4>3. QED
          BY <3>1, <4>1, <4>2 DEF TellInv
      <3>3. QED
        BY <2>1, <3>1, <3>2 DEF TellInv, Tells
    <2>6. QED
      BY <1>2, <2>2, <2>3, <2>4, <2>5 DEF Work
  <1>3. QED
    BY <1>1, <1>2 DEF Next

\* Whenever AsyncFPServer is inside no operation, a reader of the session's events
\* knows its state, and takes nobody for a participant who is not one.
THEOREM LoopLogTellsSession ==
  ASSUME Scheduler = "eventloop"
  PROVE  Spec => []LogTellsSession
  <1>1. Init => EmitInv /\ TellInv
    BY DEF Init, EmitInv, Told, TellInv, Tells, Absent
  <1>2. TellInv => LogTellsSession
    BY DEF TellInv, LogTellsSession, Tells, Busy
  <1>3. QED
    BY <1>1, <1>2, CopyInvInit, CopyInvNext, EmitInvNext, LoopInvInit, LoopInvNext, TellInvNext, PTL
    DEF Spec
=============================================================================
