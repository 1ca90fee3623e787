------------------------ MODULE ActivityRuntimeProofs ------------------------
(***************************************************************************)
(* Theorems about ActivityRuntime and ActivityRestart for any workers,     *)
(* activities, keys and bodies, checked by TLAPS: what every server keeps, *)
(* what AsyncFPServer's event loop adds, and what a restart leaves of it.  *)
(***************************************************************************)
EXTENDS ActivityRestart, TLAPS

(***************************************************************************)
(* TypeOK is not inductive: that Put writes a state depends on the worker  *)
(* being inside an engine call by the time it gets there.  Control says    *)
(* what request, call and copy a worker has at each of its steps.          *)
(***************************************************************************)
InStart == {"validate", "check", "policy", "execute", "remember"}
InCall == {"load", "put", "emit"}

Control ==
  \A w \in Worker :
    /\ pc[w] \in InStart => req[w] \in StartRequest
    /\ pc[w] \in InCall => req[w] \in Request /\ call[w] \in Call
    /\ pc[w] \in InCall /\ call[w] \in {StartCall, FailCall} => req[w] \in StartRequest
    /\ pc[w] = "remember" => call[w] \in Call
    /\ pc[w] = "execute" => call[w] \in Call
    /\ pc[w] = "put" => Accepts(call[w], copy[w].state)

TypeInv == TypeOK /\ Control

-----------------------------------------------------------------------------
(* Facts about the constant operators, so that Call and Request stay folded. *)

\* Every engine call the orchestrator makes is a Call, and a Call's goal is a
\* state; only start accepts an id the store does not have.
LEMMA CallFacts ==
  /\ StartCall \in Call /\ CompleteCall \in Call /\ FailCall \in Call /\ CancelCall \in Call
  /\ \A s \in ActivityState : TransitionCall(s) \in Call \ {StartCall, FailCall}
  /\ CompleteCall \notin {StartCall, FailCall} /\ CancelCall \notin {StartCall, FailCall}
  /\ StartCall # FailCall
  /\ \A c \in Call : c.goal \in ActivityState
  /\ \A c \in Call : Accepts(c, "absent") => c = StartCall
  /\ \A c \in Call, s \in ActivityState : Accepts(c, s) => c # StartCall
  /\ \A c \in Call, s \in TerminalState : Accepts(c, s) => c = FailCall
  /\ "working" \in ActivityState /\ "absent" \notin ActivityState
  BY DEF Call, StartCall, CompleteCall, FailCall, CancelCall, TransitionCall, ActivityState,
         Accepts, Completable, AllowedTransitions, TerminalState

\* A request is a start or a change, and its kind tells which.
LEMMA RequestFacts ==
  /\ StartRequest \subseteq Request /\ ChangeRequest \subseteq Request
  /\ \A r \in Request : r.act \in Activity
  /\ \A r \in Request : r.kind = "start" => r \in StartRequest
  /\ \A r \in StartRequest : r.key \in Key \cup {NoKey} /\ r.body \in Body
  /\ \A r \in StartRequest : r.kind = "start"
  /\ \A r \in ChangeRequest : r.call \in Call \ {StartCall, FailCall}
  <1>1. \A r \in ChangeRequest : r.call \in Call \ {StartCall, FailCall}
    BY CallFacts, TargetAssumption DEF ChangeRequest
  <1>2. QED
    BY <1>1 DEF Request, StartRequest, ChangeRequest

LEMMA RecordFacts ==
  /\ Absent \in Record
  /\ \A s \in ActivityState, b \in Body : [state |-> s, body |-> b] \in Record
  /\ \A r \in Record : r.state \in MaybeState
  /\ \A r \in Record : r # Absent => r.state \in ActivityState /\ r.body \in Body
  /\ \A r \in Record : r.state = "absent" <=> r = Absent
  BY CallFacts DEF Record, Absent, MaybeState

-----------------------------------------------------------------------------
LEMMA TypeInvInit == Init => TypeInv
  BY DEF Init, TypeInv, TypeOK, Control, MaybeState, Record, InStart, InCall, Step, SessionState

\* Every step preserves the types and the control of the workers.
LEMMA TypeInvNext == TypeInv /\ [Next]_vars => TypeInv'
  <1> SUFFICES ASSUME TypeInv, [Next]_vars PROVE TypeInv'
    OBVIOUS
  <1> USE DEF TypeInv, TypeOK, Step
  <1>1. CASE UNCHANGED vars
    BY <1>1 DEF vars, Control
  <1>2. CASE ChangeSession
    <2>1. session' \in [state : SessionState, participants : SUBSET Entity]
      BY <1>2, TargetAssumption DEF ChangeSession, UpdateSession, LeaveSession
    <2>2. QED
      BY <1>2, <2>1 DEF ChangeSession, history, Control
  <1>3. ASSUME NEW w \in Worker, Work(w) PROVE TypeInv'
    <2>1. CASE ReceiveStart(w)
      BY <2>1, RequestFacts DEF ReceiveStart, Goto, store, Control, InStart, InCall
    <2>2. CASE ReceiveChange(w)
      BY <2>2, RequestFacts DEF ReceiveChange, Enter, Goto, store, history, Control, InStart, InCall
    <2>3. CASE Validate(w)
      <3>1. CASE Goto(w, "check") /\ UNCHANGED <<req, call, copy, late>>
        BY <2>3, <3>1 DEF Validate, Goto, store, Control, InStart, InCall
      <3>2. CASE Leave(w)
        BY <2>3, <3>2, RecordFacts DEF Validate, Leave, Goto, store, Control, InStart, InCall
      <3>3. QED
        BY <2>3, <3>1, <3>2 DEF Validate, OverBudget
    <2>4. CASE Check(w)
      <3>1. /\ req[w] \in StartRequest
            /\ req[w].act \in Activity /\ req[w].body \in Body
            /\ req[w].key \in Key \cup {NoKey}
        BY <2>4, RequestFacts DEF Check, Control, InStart
      <3>2. Known(req[w].key) =>
              [key |-> req[w].key, body |-> req[w].body, act |-> cache[req[w].key].act] \in Reply
        BY <3>1 DEF Known, Entry, Reply
      <3>3. replies' \subseteq Reply
        BY <2>4, <3>2 DEF Check
      <3>4. TypeOK'
        BY <2>4, <3>3, RecordFacts DEF Check, Leave, Goto, store
      <3>5. Control'
        BY <2>4, <3>1 DEF Check, Leave, Goto, store, Control, InStart, InCall
      <3>6. QED
        BY <3>4, <3>5
    <2>5. CASE Policy(w)
      <3>1. req[w] \in StartRequest /\ StartCall \in Call
        BY <2>5, CallFacts DEF Policy, Control, InStart
      <3>2. TypeOK'
        BY <2>5, <3>1, RecordFacts DEF Policy, Enter, Leave, Goto, store
      <3>3. Control'
        BY <2>5, <3>1, RequestFacts, CallFacts
        DEF Policy, Enter, Leave, Goto, store, Control, InStart, InCall
      <3>4. QED
        BY <3>2, <3>3
    <2>6. CASE Load(w)
      <3>1. /\ req[w] \in Request /\ call[w] \in Call /\ req[w].act \in Activity
            /\ call[w] \in {StartCall, FailCall} => req[w] \in StartRequest
        BY <2>6, RequestFacts DEF Load, Control, InCall
      <3>2. TypeOK'
        BY <2>6, <3>1, RecordFacts DEF Load, Leave, Goto, store
      <3>3. CASE Accepts(call[w], stored[req[w].act].state)
        <4>1. /\ pc' = [pc EXCEPT ![w] = "put"] /\ UNCHANGED <<req, call>>
              /\ copy' = [copy EXCEPT ![w] = stored[req[w].act]]
          BY <2>6, <3>3 DEF Load, Goto
        <4>2. copy'[w].state = stored[req[w].act].state
          BY <4>1
        <4>3. QED
          BY <3>1, <3>2, <3>3, <4>1, <4>2 DEF Control, InStart, InCall
      <3>4. CASE ~Accepts(call[w], stored[req[w].act].state)
        <4>1. /\ pc' = [pc EXCEPT ![w] = "idle"] /\ req' = [req EXCEPT ![w] = NoRequest]
              /\ call' = [call EXCEPT ![w] = NoCall] /\ copy' = [copy EXCEPT ![w] = Absent]
          BY <2>6, <3>4 DEF Load, Leave, Goto
        <4>2. QED
          BY <3>2, <4>1 DEF Control, InStart, InCall
      <3>5. QED
        BY <3>3, <3>4
    <2>7. CASE Put(w)
      BY <2>7, RecordFacts, RequestFacts, CallFacts
      DEF Put, Goto, history, Control, InStart, InCall
    <2>8. CASE EmitChange(w)
      BY <2>8, RecordFacts, RequestFacts, CallFacts
      DEF EmitChange, Publish, Leave, Goto, Control, InStart, InCall, MaybeState
    <2>9. CASE EmitSubmitted(w)
      BY <2>9, RequestFacts, CallFacts
      DEF EmitSubmitted, Publish, Enter, Goto, history, Control, InStart, InCall, MaybeState
    <2>10. CASE EmitWorking(w)
      BY <2>10, RequestFacts, CallFacts
      DEF EmitWorking, Publish, Goto, Control, InStart, InCall, MaybeState
    <2>11. CASE EmitOutcome(w)
      BY <2>11, RequestFacts, CallFacts
      DEF EmitOutcome, Publish, Goto, history, Control, InStart, InCall, MaybeState
    <2>12. CASE Execute(w)
      BY <2>12, RequestFacts, CallFacts
      DEF Execute, Enter, Goto, store, history, Control, InStart, InCall
    <2>13. CASE Abort(w)
      BY <2>13, RecordFacts DEF Abort, Leave, Goto, store, Control, InStart, InCall
    <2>14. CASE Remember(w)
      <3>1. /\ req[w] \in StartRequest /\ call[w] \in Call
            /\ req[w].act \in Activity /\ req[w].body \in Body
            /\ req[w].key \in Key \cup {NoKey} /\ call[w].goal \in ActivityState
        BY <2>14, RequestFacts, CallFacts DEF Remember, Control, InStart
      <3>2. [act |-> req[w].act, body |-> req[w].body, snapshot |-> call[w].goal] \in Entry
        BY <3>1 DEF Entry
      <3>3. cache' \in [Key -> Entry \cup {NoEntry}]
        BY <2>14, <3>2 DEF Remember
      <3>4. replies' \subseteq Reply
        BY <2>14, <3>1 DEF Remember, Reply
      <3>5. QED
        BY <2>14, <3>3, <3>4, RecordFacts DEF Remember, Leave, Goto, Control, InStart, InCall
    <2>15. CASE EncodeFails(w)
      BY <2>15, RecordFacts DEF EncodeFails, Leave, Goto, store, Control, InStart, InCall
    <2>16. QED
      BY <1>3, <2>1, <2>2, <2>3, <2>4, <2>5, <2>6, <2>7, <2>8, <2>9, <2>10, <2>11,
         <2>12, <2>13, <2>14, <2>15 DEF Work, Proceed
  <1>4. QED
    BY <1>1, <1>2, <1>3 DEF Next

\* The variables keep their types, and a worker inside an engine call has a
\* request and a call to go with it.
THEOREM TypeCorrect == Spec => []TypeOK
  <1>1. TypeInv => TypeOK
    BY DEF TypeInv
  <1>2. QED
    BY <1>1, TypeInvInit, TypeInvNext, PTL DEF Spec

-----------------------------------------------------------------------------
(***************************************************************************)
(* Replay.  A reply is given only with the entry of its key in place, and  *)
(* no step removes an entry; so a worker that arrived after the reply      *)
(* finds the entry at its check, however the threads interleave.           *)
(***************************************************************************)
ReplayInv ==
  /\ \A k \in AnsweredKeys : cache[k] # NoEntry
  /\ \A w \in late : pc[w] \in {"validate", "check"} /\ req[w].key \in AnsweredKeys

LEMMA ReplayInvInit == Init => ReplayInv
  BY DEF Init, ReplayInv, AnsweredKeys

LEMMA ReplayInvNext == TypeInv /\ ReplayInv /\ [Next]_vars => ReplayInv'
  <1> SUFFICES ASSUME TypeInv, ReplayInv, [Next]_vars PROVE ReplayInv'
    OBVIOUS
  <1> USE DEF TypeInv, TypeOK
  <1>1. CASE UNCHANGED vars
    BY <1>1 DEF vars, ReplayInv, AnsweredKeys
  <1>2. CASE ChangeSession
    BY <1>2 DEF ChangeSession, history, ReplayInv, AnsweredKeys
  <1>3. ASSUME NEW w \in Worker, Work(w) PROVE ReplayInv'
    <2>1. CASE ReceiveStart(w)
      BY <2>1 DEF ReceiveStart, Goto, store, ReplayInv, AnsweredKeys
    <2>2. CASE ReceiveChange(w)
      BY <2>2 DEF ReceiveChange, Enter, Goto, store, history, ReplayInv, AnsweredKeys
    <2>3. CASE Validate(w)
      BY <2>3 DEF Validate, OverBudget, Leave, Goto, store, ReplayInv, AnsweredKeys
    <2>4. CASE Check(w)
      <3>1. CASE Known(req[w].key)
        <4>1. AnsweredKeys' \subseteq AnsweredKeys \cup {req[w].key}
          BY <2>4, <3>1 DEF Check, AnsweredKeys
        <4>2. AnsweredKeys \subseteq AnsweredKeys'
          BY <2>4, <3>1 DEF Check, AnsweredKeys
        <4>3. cache[req[w].key] # NoEntry
          BY <3>1 DEF Known
        <4>4. QED
          BY <2>4, <3>1, <4>1, <4>2, <4>3 DEF Check, Leave, Goto, store, ReplayInv
      <3>2. CASE ~Known(req[w].key)
        <4>1. w \notin late
          BY <3>2, SentinelAssumption DEF ReplayInv, Known, AnsweredKeys, Reply
        <4>2. QED
          BY <2>4, <3>2, <4>1 DEF Check, Goto, store, ReplayInv, AnsweredKeys
      <3>3. QED
        BY <3>1, <3>2
    <2>5. CASE Policy(w)
      BY <2>5 DEF Policy, Enter, Leave, Goto, store, ReplayInv, AnsweredKeys
    <2>6. CASE Load(w)
      BY <2>6 DEF Load, Leave, Goto, store, ReplayInv, AnsweredKeys
    <2>7. CASE Put(w)
      BY <2>7 DEF Put, Goto, history, ReplayInv, AnsweredKeys
    <2>8. CASE EmitChange(w)
      BY <2>8 DEF EmitChange, Leave, Goto, ReplayInv, AnsweredKeys
    <2>9. CASE EmitSubmitted(w)
      BY <2>9 DEF EmitSubmitted, Enter, Goto, history, ReplayInv, AnsweredKeys
    <2>10. CASE EmitWorking(w)
      BY <2>10 DEF EmitWorking, Goto, ReplayInv, AnsweredKeys
    <2>11. CASE EmitOutcome(w)
      BY <2>11 DEF EmitOutcome, Goto, history, ReplayInv, AnsweredKeys
    <2>12. CASE Execute(w)
      BY <2>12 DEF Execute, Enter, Goto, store, history, ReplayInv, AnsweredKeys
    <2>13. CASE Abort(w)
      BY <2>13 DEF Abort, Leave, Goto, store, ReplayInv, AnsweredKeys
    <2>14. CASE Remember(w)
      <3>1. /\ AnsweredKeys' \subseteq AnsweredKeys \cup {req[w].key}
            /\ AnsweredKeys \subseteq AnsweredKeys'
        <4> DEFINE new == {[key |-> k, body |-> req[w].body, act |-> req[w].act] :
                             k \in {req[w].key} \ {NoKey}}
        <4>1. replies' = replies \cup new
          BY <2>14 DEF Remember
        <4>2. \A r \in new : r.key = req[w].key
          OBVIOUS
        <4> HIDE DEF new
        <4>3. QED
          BY <4>1, <4>2 DEF AnsweredKeys
      <3>2. \A k \in Key : cache'[k] # NoEntry \/ (cache'[k] = cache[k] /\ k # req[w].key)
        BY <2>14 DEF Remember, NoEntry
      <3>3. AnsweredKeys' \subseteq Key
        BY <2>14, TypeInvNext DEF Reply, AnsweredKeys
      <3>4. QED
        BY <2>14, <3>1, <3>2, <3>3 DEF Remember, Leave, Goto, ReplayInv
    <2>15. CASE EncodeFails(w)
      BY <2>15 DEF EncodeFails, Leave, Goto, store, ReplayInv, AnsweredKeys
    <2>16. QED
      BY <1>3, <2>1, <2>2, <2>3, <2>4, <2>5, <2>6, <2>7, <2>8, <2>9, <2>10, <2>11,
         <2>12, <2>13, <2>14, <2>15 DEF Work, Proceed
  <1>4. QED
    BY <1>1, <1>2, <1>3 DEF Next

\* However many threads serve however many requests, a start that arrives after
\* its key was answered never gets past the idempotency check.
THEOREM LateRetriesAreReplayed == Spec => []RetryAfterAnswerIsReplay
  <1>1. ReplayInv => RetryAfterAnswerIsReplay
    BY DEF ReplayInv, RetryAfterAnswerIsReplay
  <1>2. QED
    BY <1>1, TypeInvInit, TypeInvNext, ReplayInvInit, ReplayInvNext, PTL DEF Spec
-----------------------------------------------------------------------------
(***************************************************************************)
(* The writes.  What follows rests on one fact: only Put writes the        *)
(* activity store.                                                         *)
(***************************************************************************)
\* Every step that changes the activity store is one worker's Put, made on a
\* copy that the call it is in accepts.
LEMMA OnlyPutWrites ==
  ASSUME TypeInv, [Next]_vars, stored' # stored
  PROVE  \E w \in Worker :
           /\ Put(w) /\ MayStep(w) /\ Accepts(call[w], copy[w].state)
           /\ req[w] \in Request /\ req[w].act \in Activity /\ call[w] \in Call
           /\ call[w] \in {StartCall, FailCall} => req[w].kind = "start"
  <1>1. PICK w \in Worker : Work(w)
    BY DEF Next, ChangeSession, vars
  <1>2. Put(w)
    BY <1>1 DEF Work, Proceed, ReceiveStart, ReceiveChange, Validate, OverBudget, Check, Policy, Load,
                EncodeFails, EmitChange, EmitSubmitted, EmitWorking, EmitOutcome, Execute,
                Abort, Remember, store
  <1>3. /\ req[w] \in Request /\ call[w] \in Call /\ Accepts(call[w], copy[w].state)
        /\ call[w] \in {StartCall, FailCall} => req[w] \in StartRequest
    BY <1>2 DEF Put, TypeInv, Control, InCall
  <1>4. QED
    BY <1>1, <1>2, <1>3, RequestFacts DEF Work

\* Under any scheduler, an activity takes a step its state does not accept only
\* when the copy of the thread that writes it had gone stale.
THEOREM ChecksHoldOnTheCopy == Spec => IllegalOnlyFromStaleCopy
  <1> DEFINE Step1 == \A a \in Activity :
       stored'[a].state # stored[a].state =>
         \/ \E c \in Call : c.goal = stored'[a].state /\ Accepts(c, stored[a].state)
         \/ \E w \in Worker : /\ pc[w] = "put" /\ req[w].act = a
                             /\ copy[w].state # stored[a].state
  <1>1. ASSUME TypeInv, [Next]_vars PROVE Step1
    <2>1. CASE stored' = stored
      BY <2>1
    <2>2. CASE stored' # stored
      <3>1. PICK w \in Worker : /\ Put(w) /\ Accepts(call[w], copy[w].state)
                                /\ req[w].act \in Activity /\ call[w] \in Call
        BY <1>1, <2>2, OnlyPutWrites
      <3> SUFFICES ASSUME NEW a \in Activity, stored'[a].state # stored[a].state,
                          copy[w].state = stored[a].state
                   PROVE  \E c \in Call : c.goal = stored'[a].state /\ Accepts(c, stored[a].state)
        BY <3>1, <1>1 DEF Put, TypeInv, TypeOK
      <3>2. stored'[a].state = call[w].goal
        BY <3>1, <1>1 DEF Put, TypeInv, TypeOK
      <3>3. QED
        BY <3>1, <3>2
    <2>3. QED
      BY <2>1, <2>2
  <1>2. QED
    BY <1>1, TypeInvInit, TypeInvNext, PTL DEF Spec, IllegalOnlyFromStaleCopy

-----------------------------------------------------------------------------
(***************************************************************************)
(* On the event loop one worker at a time is between two awaits, so what   *)
(* it has read still holds when it writes: the session admits the start it *)
(* admitted, its copy is the stored activity, and the event it is about to *)
(* publish names the stored state.                                         *)
(***************************************************************************)
Fresh(w) ==
  /\ pc[w] = "put" => copy[w] = stored[req[w].act]
  /\ pc[w] = "emit" => stored[req[w].act].state = call[w].goal
  /\ pc[w] \in {"check", "policy"} => SessionAdmits(req[w].body)
  /\ pc[w] \in {"load", "put"} /\ call[w] = StartCall => SessionAdmits(req[w].body)

LogPending(a) == \E w \in Worker : pc[w] = "emit" /\ req[w].act = a

LoopInv ==
  /\ \A v, w \in Busy : v = w
  /\ \A w \in Worker : Fresh(w)

\* What is behind in the log is about to be published.  A crash breaks this.
LogInv ==
  \A a \in Activity : logged[a] = stored[a].state \/ stored[a].state = "completed"
                        \/ LogPending(a)

LEMMA LoopInvInit == Init => LoopInv /\ LogInv
  BY DEF Init, LoopInv, LogInv, Busy, Fresh, Absent

\* What a step of w leaves alone on the loop: every other worker stays at an
\* await, or without a request, and needs nothing to be fresh.
LEMMA OthersWait ==
  ASSUME Scheduler = "eventloop", TypeInv, NEW w \in Worker, Work(w)
  PROVE  /\ \A v \in Worker \ {w} : pc[v] \in {"idle", "execute"} /\ pc'[v] = pc[v]
         /\ pc' \in [Worker -> Step]
         /\ \A v, u \in Busy' : v = u
         /\ \A v \in Worker \ {w} : Fresh(v)'
  <1>1. \A v \in Worker \ {w} : pc[v] \in {"idle", "execute"}
    BY DEF Work, MayStep, Busy
  <1>2. /\ pc' \in [Worker -> Step]
        /\ \A v \in Worker \ {w} : pc'[v] = pc[v]
    BY DEF Work, Proceed, ReceiveStart, ReceiveChange, Validate, OverBudget, Check, Policy, Load, Put,
           EncodeFails, EmitChange, EmitSubmitted, EmitWorking, EmitOutcome, Execute, Abort,
           Remember, Enter, Leave, Goto, TypeInv, TypeOK, Step
  <1>3. QED
    BY <1>1, <1>2 DEF Busy, Fresh

\* One whole step of a worker keeps its own facts fresh.
LEMMA StaysFresh ==
  ASSUME Scheduler = "eventloop", TypeInv, LoopInv, NEW w \in Worker, Work(w)
  PROVE  Fresh(w)'
  <1> USE DEF TypeInv, TypeOK, Fresh, SessionAdmits
  <1>1. CASE ReceiveStart(w)
    BY <1>1 DEF ReceiveStart, Goto
  <1>2. CASE ReceiveChange(w)
    <2>1. PICK r \in ChangeRequest : pc' = [pc EXCEPT ![w] = "load"]
                                   /\ call' = [call EXCEPT ![w] = r.call]
      BY <1>2 DEF ReceiveChange, Enter, Goto
    <2>2. QED
      BY <2>1, RequestFacts
  <1>3. CASE Validate(w)
    BY <1>3 DEF Validate, OverBudget, Leave, Goto, store
  <1>4. CASE Check(w)
    BY <1>4 DEF Check, Leave, Goto, store, LoopInv
  <1>5. CASE Policy(w)
    BY <1>5 DEF Policy, Enter, Leave, Goto, store, LoopInv
  <1>6. CASE Load(w)
    BY <1>6, RequestFacts DEF Load, Leave, Goto, store, LoopInv, Control, InCall
  <1>7. CASE Put(w)
    <2>1. req[w].act \in Activity
      BY <1>7, RequestFacts DEF Put, Control, InCall
    <2>2. QED
      BY <1>7, <2>1 DEF Put, Goto, history
  <1>8. CASE EncodeFails(w)
    BY <1>8 DEF EncodeFails, Leave, Goto
  <1>9. CASE EmitChange(w)
    BY <1>9 DEF EmitChange, Leave, Goto
  <1>10. CASE EmitSubmitted(w)
    BY <1>10, CallFacts DEF EmitSubmitted, Enter, Goto
  <1>11. CASE EmitWorking(w) \/ EmitOutcome(w)
    BY <1>11 DEF EmitWorking, EmitOutcome, Goto
  <1>12. CASE Execute(w)
    BY <1>12, CallFacts DEF Execute, Enter, Goto
  <1>13. CASE Abort(w) \/ Remember(w)
    BY <1>13 DEF Abort, Remember, Leave, Goto
  <1>14. QED
    BY <1>1, <1>2, <1>3, <1>4, <1>5, <1>6, <1>7, <1>8, <1>9, <1>10, <1>11, <1>12, <1>13
    DEF Work, Proceed

\* Every activity's log stays behind only until the event of its worker, or
\* because its result could not be metered.
LEMMA StaysLogged ==
  ASSUME Scheduler = "eventloop", TypeInv, LoopInv, LogInv, NEW w \in Worker, Work(w),
         NEW a \in Activity
  PROVE  (logged[a] = stored[a].state \/ stored[a].state = "completed" \/ LogPending(a))'
  <1> USE DEF TypeInv, TypeOK
  <1>1. LogPending(a) <=> pc[w] = "emit" /\ req[w].act = a
    BY OthersWait DEF LogPending
  <1>2. LogPending(a)' <=> pc'[w] = "emit" /\ req'[w].act = a
    BY OthersWait DEF LogPending
  <1>3. pc[w] = "emit" => /\ req[w].act \in Activity
                          /\ stored[req[w].act].state = call[w].goal
    BY RequestFacts DEF LoopInv, Fresh, Control, InCall
  <1>4. CASE Put(w)
    <2>1. req[w].act \in Activity
      BY <1>4, RequestFacts DEF Put, Control, InCall
    <2>2. QED
      BY <1>1, <1>2, <1>4, <2>1 DEF Put, Goto, history, LogInv
  <1>5. CASE EncodeFails(w)
    BY <1>1, <1>3, <1>5 DEF EncodeFails, store, LogInv, CompleteCall
  <1>6. CASE EmitChange(w)
    BY <1>1, <1>3, <1>6 DEF EmitChange, Publish, LogInv
  <1>7. CASE EmitSubmitted(w)
    BY <1>1, <1>3, <1>7 DEF EmitSubmitted, Publish, LogInv
  <1>8. CASE EmitWorking(w)
    BY <1>1, <1>3, <1>8 DEF EmitWorking, Publish, LogInv
  <1>9. CASE EmitOutcome(w)
    BY <1>1, <1>3, <1>9 DEF EmitOutcome, Publish, LogInv
  <1>10. CASE /\ pc[w] # "emit"
              /\ UNCHANGED <<stored, logged>>
    BY <1>1, <1>10 DEF LogInv
  <1>11. QED
    BY <1>4, <1>5, <1>6, <1>7, <1>8, <1>9, <1>10
    DEF Work, Proceed, ReceiveStart, ReceiveChange, Validate, OverBudget, Check, Policy, Load, Execute,
        Abort, Remember, store

LEMMA LoopInvNext ==
  ASSUME Scheduler = "eventloop", TypeInv, LoopInv, [Next]_vars
  PROVE  LoopInv'
  <1>1. CASE UNCHANGED vars
    BY <1>1 DEF vars, LoopInv, Busy, Fresh, SessionAdmits
  <1>2. CASE ChangeSession
    <2>1. /\ UNCHANGED <<stored, logged, pc, req, call, copy>> /\ Busy = {}
      BY <1>2 DEF ChangeSession
    <2>2. \A v \in Worker : pc[v] \in {"idle", "execute"}
      BY <2>1 DEF Busy
    <2>3. QED
      BY <2>1, <2>2 DEF LoopInv, Busy, Fresh
  <1>3. ASSUME NEW w \in Worker, Work(w) PROVE LoopInv'
    BY <1>3, OthersWait, StaysFresh DEF LoopInv
  <1>4. QED
    BY <1>1, <1>2, <1>3 DEF Next

LEMMA LogInvNext ==
  ASSUME Scheduler = "eventloop", TypeInv, LoopInv, LogInv, [Next]_vars
  PROVE  LogInv'
  <1>1. CASE UNCHANGED vars
    BY <1>1 DEF vars, LogInv, LogPending
  <1>2. CASE ChangeSession
    BY <1>2 DEF ChangeSession, LogInv, LogPending
  <1>3. ASSUME NEW w \in Worker, Work(w) PROVE LogInv'
    BY <1>3, StaysLogged DEF LogInv
  <1>4. QED
    BY <1>1, <1>2, <1>3 DEF Next

-----------------------------------------------------------------------------
\* What one write on the event loop is: a whole engine call on the stored
\* activity, and for a new activity one that its session admits.
LEMMA LoopWrites ==
  ASSUME Scheduler = "eventloop", TypeInv, LoopInv, [Next]_vars, stored' # stored
  PROVE  \E w \in Worker :
           LET a == req[w].act IN
           /\ pc[w] = "put" /\ a \in Activity /\ call[w] \in Call
           /\ Accepts(call[w], stored[a].state)
           /\ call[w] = FailCall => req[w].kind = "start"
           /\ call[w] = StartCall => SessionAdmits(stored'[a].body)
           /\ stored'[a].state = call[w].goal
           /\ call[w] # StartCall => stored'[a].body = stored[a].body
           /\ \A b \in Activity \ {a} : stored'[b] = stored[b]
           /\ stored' \in [Activity -> Record]
  <1>1. PICK w \in Worker :
          /\ Put(w) /\ Accepts(call[w], copy[w].state)
          /\ req[w] \in Request /\ req[w].act \in Activity /\ call[w] \in Call
          /\ call[w] \in {StartCall, FailCall} => req[w].kind = "start"
    BY OnlyPutWrites
  <1>2. copy[w] = stored[req[w].act]
    BY <1>1 DEF Put, LoopInv, Fresh
  <1>3. /\ stored' \in [Activity -> Record]
        /\ stored'[req[w].act].state = call[w].goal
        /\ \A b \in Activity \ {req[w].act} : stored'[b] = stored[b]
        /\ stored'[req[w].act].body =
             IF call[w] = StartCall THEN req[w].body ELSE copy[w].body
    BY <1>1, TypeInvNext DEF Put, TypeInv, TypeOK
  <1>4. call[w] = StartCall => SessionAdmits(req[w].body)
    BY <1>1 DEF Put, LoopInv, Fresh
  <1>5. QED
    BY <1>1, <1>2, <1>3, <1>4 DEF Put, SessionAdmits

\* AsyncFPServer implements the abstract life cycle, whatever its handlers do
\* while they are awaited.
THEOREM LoopImplementsLifecycle ==
  ASSUME Scheduler = "eventloop"
  PROVE  Spec => LifecycleSpec
  <1>1. Init => Lifecycle!Init
    BY DEF Init, Lifecycle!Init, Absent
  <1>2. ASSUME TypeInv, LoopInv, [Next]_vars
        PROVE  Lifecycle!Next \/ UNCHANGED [a \in Activity |-> stored[a].state]
    <2>1. CASE stored' = stored
      BY <2>1
    <2>2. CASE stored' # stored
      <3>1. PICK w \in Worker :
              /\ req[w].act \in Activity /\ call[w] \in Call
              /\ Accepts(call[w], stored[req[w].act].state)
              /\ stored'[req[w].act].state = call[w].goal
              /\ \A b \in Activity \ {req[w].act} : stored'[b] = stored[b]
        BY <1>2, <2>2, LoopWrites
      <3>2. Lifecycle!Accepts(call[w], stored[req[w].act].state)
        BY <3>1 DEF Lifecycle!Accepts, Accepts, Lifecycle!AllowedTransitions,
           AllowedTransitions, Lifecycle!Completable, Completable,
           Lifecycle!TerminalState, TerminalState, Lifecycle!ActivityState, ActivityState
      <3>3. call[w] \in Lifecycle!Call
        BY <3>1 DEF Lifecycle!Call, Call, Lifecycle!ActivityState, ActivityState
      <3>4. Lifecycle!Next
        BY <3>1, <3>2, <3>3 DEF Lifecycle!Next, Lifecycle!Perform
      <3>5. QED
        BY <3>4
    <2>3. QED
      BY <2>1, <2>2
  <1>3. QED
    BY <1>1, <1>2, TypeInvInit, TypeInvNext, LoopInvInit, LoopInvNext, PTL
    DEF Spec, LifecycleSpec, Lifecycle!Spec

\* On the event loop an activity comes into being only while its session admits
\* its owner and its initiator.
THEOREM LoopStartsInAdmittingSession ==
  ASSUME Scheduler = "eventloop"
  PROVE  Spec => StartsInAdmittingSession
  <1>1. ASSUME TypeInv, LoopInv, [Next]_vars
        PROVE  \A a \in Activity :
                 stored[a] = Absent /\ stored'[a] # Absent => SessionAdmits(stored'[a].body)
    <2> SUFFICES ASSUME NEW a \in Activity, stored[a] = Absent, stored'[a] # Absent
                 PROVE  SessionAdmits(stored'[a].body)
      OBVIOUS
    <2>1. PICK w \in Worker :
            /\ call[w] \in Call /\ Accepts(call[w], stored[req[w].act].state)
            /\ call[w] = StartCall => SessionAdmits(stored'[req[w].act].body)
            /\ \A b \in Activity \ {req[w].act} : stored'[b] = stored[b]
      BY <1>1, LoopWrites
    <2>2. a = req[w].act
      BY <2>1
    <2>3. QED
      BY <2>1, <2>2, CallFacts DEF Absent
  <1>2. QED
    BY <1>1, TypeInvInit, TypeInvNext, LoopInvInit, LoopInvNext, PTL
    DEF Spec, StartsInAdmittingSession

\* On the event loop a terminal activity changes only when the start that runs
\* its handler reports that the handler raised.
THEOREM LoopTerminalChanges ==
  ASSUME Scheduler = "eventloop"
  PROVE  Spec => TerminalChangesOnlyByHandlerFailure
  <1>1. ASSUME TypeInv, LoopInv, [Next]_vars
        PROVE  \A a \in Activity :
                 stored[a].state \in TerminalState /\ stored'[a] # stored[a] =>
                   /\ stored'[a].state = "failed"
                   /\ \E w \in Worker : /\ pc[w] = "put" /\ call[w] = FailCall
                                       /\ req[w].kind = "start" /\ req[w].act = a
    <2> SUFFICES ASSUME NEW a \in Activity, stored[a].state \in TerminalState,
                        stored'[a] # stored[a]
                 PROVE  /\ stored'[a].state = "failed"
                        /\ \E w \in Worker : /\ pc[w] = "put" /\ call[w] = FailCall
                                            /\ req[w].kind = "start" /\ req[w].act = a
      OBVIOUS
    <2>1. PICK w \in Worker :
            /\ pc[w] = "put" /\ call[w] \in Call
            /\ Accepts(call[w], stored[req[w].act].state)
            /\ call[w] = FailCall => req[w].kind = "start"
            /\ stored'[req[w].act].state = call[w].goal
            /\ \A b \in Activity \ {req[w].act} : stored'[b] = stored[b]
      BY <1>1, LoopWrites
    <2>2. a = req[w].act
      BY <2>1
    <2>3. call[w] = FailCall
      BY <2>1, <2>2, CallFacts
    <2>4. QED
      BY <2>1, <2>2, <2>3 DEF FailCall
  <1>2. QED
    BY <1>1, TypeInvInit, TypeInvNext, LoopInvInit, LoopInvNext, PTL
    DEF Spec, TerminalChangesOnlyByHandlerFailure

\* On the event loop the log of an activity names its stored state, but for a
\* completion that could not be metered.
THEOREM LoopLogTellsState ==
  ASSUME Scheduler = "eventloop"
  PROVE  Spec => []LogTellsState
  <1>1. LogInv => LogTellsState
    BY DEF LogInv, LogTellsState, LogPending, Busy
  <1>2. QED
    BY <1>1, TypeInvInit, TypeInvNext, LoopInvInit, LoopInvNext, LogInvNext, PTL DEF Spec

-----------------------------------------------------------------------------
(***************************************************************************)
(* Answers.  A start answers with the activity it created or with the one  *)
(* its entry in the guard names.  On the event loop an activity keeps the  *)
(* body it was created with, so whatever was matched with it once still    *)
(* is: entries, answers, and the starts that wait for their handler.       *)
(***************************************************************************)
HoldsBody(s, a, b) == s[a] # Absent /\ s[a].body = b

\* The worker has created the activity of its start.
Created(w) ==
  /\ req[w].kind = "start"
  /\ \/ pc[w] \in {"emit", "execute", "remember"}
     \/ pc[w] \in {"load", "put"} /\ call[w] # StartCall

AnswerInv ==
  /\ \A r \in replies : HoldsBody(stored, r.act, r.body)
  /\ \A k \in Key : cache[k] # NoEntry => HoldsBody(stored, cache[k].act, cache[k].body)
  /\ \A w \in Worker : Created(w) => HoldsBody(stored, req[w].act, req[w].body)

LEMMA AnswerInvInit == Init => AnswerInv
  BY DEF Init, AnswerInv, Created

\* An activity is never taken away and never given another body.
LEMMA BodyIsKept ==
  ASSUME Scheduler = "eventloop", TypeInv, LoopInv, [Next]_vars,
         NEW a \in Activity, NEW b, HoldsBody(stored, a, b)
  PROVE  HoldsBody(stored', a, b)
  <1>1. CASE stored' = stored
    BY <1>1 DEF HoldsBody
  <1>2. CASE stored' # stored
    <2>1. PICK w \in Worker :
            /\ req[w].act \in Activity /\ call[w] \in Call
            /\ Accepts(call[w], stored[req[w].act].state)
            /\ stored'[req[w].act].state = call[w].goal
            /\ call[w] # StartCall => stored'[req[w].act].body = stored[req[w].act].body
            /\ \A c \in Activity \ {req[w].act} : stored'[c] = stored[c]
      BY <1>2, LoopWrites
    <2>2. CASE a = req[w].act
      <3>1. stored[a].state \in ActivityState
        BY RecordFacts DEF TypeInv, TypeOK, HoldsBody
      <3>2. call[w] # StartCall /\ call[w].goal # "absent"
        BY <2>1, <2>2, <3>1, CallFacts
      <3>3. QED
        BY <2>1, <2>2, <3>2 DEF HoldsBody, Absent
    <2>3. QED
      BY <2>1, <2>2 DEF HoldsBody
  <1>3. QED
    BY <1>1, <1>2

\* A worker that comes to have created its activity has just put it.
LEMMA CreatedHolds ==
  ASSUME Scheduler = "eventloop", TypeInv, LoopInv, AnswerInv, NEW w \in Worker, Work(w),
         Created(w)'
  PROVE  HoldsBody(stored', req'[w].act, req'[w].body)
  <1>0. [Next]_vars
    BY DEF Next
  <1> USE DEF TypeInv, TypeOK
  <1>1. CASE Put(w) /\ call[w] = StartCall
    <2>1. /\ req[w].act \in Activity /\ req' = req
          /\ stored'[req[w].act].state = StartCall.goal
          /\ stored'[req[w].act].body = req[w].body
      BY <1>1, RequestFacts DEF Put, Control, InCall
    <2>2. QED
      BY <2>1, CallFacts DEF HoldsBody, Absent
  <1>2. CASE ~(Put(w) /\ call[w] = StartCall)
    <2>1. Created(w) /\ req'[w] = req[w]
      <3>1. CASE ReceiveStart(w) \/ ReceiveChange(w)
        BY <3>1, RequestFacts DEF ReceiveStart, ReceiveChange, Enter, Goto, Created,
           ChangeRequest
      <3>2. CASE Validate(w) \/ Check(w) \/ Policy(w)
        BY <3>2 DEF Validate, OverBudget, Check, Policy, Enter, Leave, Goto, Created
      <3>3. CASE Load(w)
        BY <3>3 DEF Load, Leave, Goto, Created
      <3>4. CASE Put(w)
        BY <3>4, <1>2 DEF Put, Goto, history, Created
      <3>5. CASE EncodeFails(w) \/ EmitChange(w) \/ Abort(w) \/ Remember(w)
        BY <3>5 DEF EncodeFails, EmitChange, Abort, Remember, Leave, Goto, Created
      <3>6. CASE EmitSubmitted(w) \/ EmitWorking(w) \/ EmitOutcome(w)
        BY <3>6 DEF EmitSubmitted, EmitWorking, EmitOutcome, Enter, Goto, history, Created
      <3>7. CASE Execute(w)
        BY <3>7 DEF Execute, Enter, Goto, history, Created, Control
      <3>8. QED
        BY <3>1, <3>2, <3>3, <3>4, <3>5, <3>6, <3>7 DEF Work, Proceed
    <2>2. req[w].act \in Activity
      BY <2>1, RequestFacts DEF Created, NoRequest
    <2>3. QED
      BY <1>0, <2>1, <2>2, BodyIsKept DEF AnswerInv
  <1>3. QED
    BY <1>1, <1>2

LEMMA AnswerInvNext ==
  ASSUME Scheduler = "eventloop", TypeInv, LoopInv, AnswerInv, [Next]_vars
  PROVE  AnswerInv'
  <1> USE DEF TypeInv, TypeOK
  <1>1. CASE UNCHANGED vars
    BY <1>1 DEF vars, AnswerInv, HoldsBody, Created
  <1>2. CASE ChangeSession
    BY <1>2 DEF ChangeSession, history, AnswerInv, HoldsBody, Created
  <1>3. ASSUME NEW w \in Worker, Work(w) PROVE AnswerInv'
    <2>1. \A v \in Worker : Created(v)' => HoldsBody(stored', req'[v].act, req'[v].body)
      <3> SUFFICES ASSUME NEW v \in Worker \ {w}, Created(v)'
                   PROVE  HoldsBody(stored', req'[v].act, req'[v].body)
        BY <1>3, CreatedHolds
      <3>1. /\ pc'[v] = pc[v] /\ req'[v] = req[v] /\ call'[v] = call[v]
        BY <1>3 DEF Work, Proceed, ReceiveStart, ReceiveChange, Validate, OverBudget, Check, Policy,
           Load, Put, EncodeFails, EmitChange, EmitSubmitted, EmitWorking, EmitOutcome, Execute,
           Abort, Remember, Enter, Leave, Goto, history
      <3>2. Created(v) /\ req[v].act \in Activity
        BY <3>1, RequestFacts DEF Created, NoRequest
      <3>3. QED
        BY <3>1, <3>2, BodyIsKept DEF AnswerInv
    <2>2. CASE Check(w) /\ Known(req[w].key)
      <3> DEFINE key == req[w].key
                 replay == [key |-> key, body |-> req[w].body, act |-> cache[key].act]
      <3>1. /\ replies' \subseteq replies \cup {replay}
            /\ replies' # replies => cache[key].body = req[w].body
            /\ cache' = cache /\ stored' = stored
        BY <2>2 DEF Check, SameFingerprint, store
      <3>2. key \in Key /\ cache[key] # NoEntry
        BY <2>2, RequestFacts DEF Check, Known, Control, InStart
      <3>3. HoldsBody(stored, cache[key].act, cache[key].body)
        BY <3>2 DEF AnswerInv
      <3>4. replies' # replies => HoldsBody(stored', replay.act, replay.body)
        BY <3>1, <3>3 DEF HoldsBody
      <3> HIDE DEF replay
      <3>5. \A r \in replies' : HoldsBody(stored', r.act, r.body)
        BY <3>1, <3>4 DEF AnswerInv, HoldsBody
      <3>6. QED
        BY <2>1, <3>1, <3>5 DEF AnswerInv, HoldsBody
    <2>3. CASE Remember(w)
      <3>1. /\ req[w].kind = "start" /\ req[w].act \in Activity
        BY <2>3, RequestFacts DEF Remember, Control, InStart
      <3>2. HoldsBody(stored', req[w].act, req[w].body)
        BY <2>3, <3>1, BodyIsKept DEF Remember, AnswerInv, Created
      <3>3. \A r \in replies' \ replies : r.act = req[w].act /\ r.body = req[w].body
        BY <2>3 DEF Remember
      <3>4. \A k \in Key :
              \/ cache'[k] = cache[k]
              \/ cache'[k].act = req[w].act /\ cache'[k].body = req[w].body
        BY <2>3 DEF Remember
      <3>5. \A r \in replies' : HoldsBody(stored', r.act, r.body)
        BY <3>2, <3>3, <2>3 DEF AnswerInv, HoldsBody, Remember
      <3>6. \A k \in Key : cache'[k] # NoEntry => HoldsBody(stored', cache'[k].act, cache'[k].body)
        BY <3>2, <3>4, <2>3 DEF AnswerInv, HoldsBody, Remember
      <3>7. QED
        BY <2>1, <3>5, <3>6 DEF AnswerInv
    <2>4. CASE UNCHANGED <<replies, cache>>
      <3>1. \A r \in replies : HoldsBody(stored', r.act, r.body)
        BY BodyIsKept DEF AnswerInv, Reply
      <3>2. \A k \in Key : cache[k] # NoEntry => HoldsBody(stored', cache[k].act, cache[k].body)
        BY BodyIsKept DEF AnswerInv, Entry
      <3>3. QED
        BY <2>1, <2>4, <3>1, <3>2 DEF AnswerInv
    <2>5. QED
      BY <1>3, <2>2, <2>3, <2>4
      DEF Work, Proceed, ReceiveStart, ReceiveChange, Validate, OverBudget, Check, Policy, Load, Put,
          EncodeFails, EmitChange, EmitSubmitted, EmitWorking, EmitOutcome, Execute, Abort, store,
          history
  <1>4. QED
    BY <1>1, <1>2, <1>3 DEF Next

\* On the event loop every activity that was returned for a key still has the
\* body its caller sent.
THEOREM LoopAnswersMatch ==
  ASSUME Scheduler = "eventloop"
  PROVE  Spec => []AnswerMatchesRequest
  <1>1. AnswerInv => AnswerMatchesRequest
    BY DEF AnswerInv, AnswerMatchesRequest, HoldsBody
  <1>2. QED
    BY <1>1, TypeInvInit, TypeInvNext, LoopInvInit, LoopInvNext, AnswerInvInit, AnswerInvNext,
       PTL DEF Spec

-----------------------------------------------------------------------------
(***************************************************************************)
(* Restarts.  Requests and entries are gone and the stores are not, so all *)
(* of the above holds in the next process, but for the log: an event that  *)
(* was to be published never will be.                                      *)
(***************************************************************************)
LEMMA RestartKeeps ==
  ASSUME TypeInv, LoopInv, AnswerInv, FreshServer, UNCHANGED <<stored, logged, session>>
  PROVE  TypeInv' /\ LoopInv' /\ AnswerInv'
  <1> USE DEF FreshServer
  <1>1. TypeInv'
    BY DEF TypeInv, TypeOK, Control, InStart, InCall, Step, Record
  <1>2. LoopInv'
    BY DEF LoopInv, Busy, Fresh
  <1>3. AnswerInv'
    BY DEF AnswerInv, HoldsBody, Created
  <1>4. QED
    BY <1>1, <1>2, <1>3

\* Answers given before a crash are still right after it, although the guard is
\* empty and a key may come back with another body.
THEOREM AnswersMatchAcrossRestarts ==
  ASSUME Scheduler = "eventloop"
  PROVE  RestartSpec => []AnswerMatchesRequest
  <1>1. AnswerInv => AnswerMatchesRequest
    BY DEF AnswerInv, AnswerMatchesRequest, HoldsBody
  <1>2. RestartInit => TypeInv /\ LoopInv /\ AnswerInv
    BY TypeInvInit, LoopInvInit, AnswerInvInit DEF RestartInit
  <1>3. ASSUME TypeInv, LoopInv, AnswerInv, [RestartNext]_restartVars
        PROVE  TypeInv' /\ LoopInv' /\ AnswerInv'
    <2>1. [Next]_vars \/ Restart
      BY <1>3 DEF RestartNext, restartVars, vars
    <2>2. QED
      BY <1>3, <2>1, TypeInvNext, LoopInvNext, AnswerInvNext, RestartKeeps DEF Restart
  <1>4. QED
    BY <1>1, <1>2, <1>3, PTL DEF RestartSpec
=============================================================================
