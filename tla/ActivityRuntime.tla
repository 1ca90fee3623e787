--------------------------- MODULE ActivityRuntime ---------------------------
(***************************************************************************)
(* One FPServer working on activities for many callers at once:            *)
(* ActivityStartOrchestrator.start step by step, and activities_update,    *)
(* activities_cancel and activities_complete, all over the same            *)
(* ActivityEngine, session store, event log and IdempotencyGuard.          *)
(*                                                                         *)
(* A Worker is whatever runs one request from its arrival to its answer.   *)
(* With Scheduler = "threads" it is a thread of FPHTTPPublishedServer's    *)
(* ThreadingHTTPServer: no lock is held from one store access to the next, *)
(* so a step is one store access.  With Scheduler = "eventloop" it is a    *)
(* task of AsyncFPServer, which others can interleave with only while it   *)
(* awaits the operation handler.                                           *)
(***************************************************************************)
EXTENDS ActivityStates, SessionStates, FiniteSets

CONSTANTS
  Worker,      \* concurrent requests the server runs
  Activity,    \* activity ids, chosen by the caller or drawn by _new_id
  Key,         \* idempotency keys
  NoKey,       \* a request without one
  Body,        \* what a start fingerprints: session, owner, initiator, operation, payload
  NoBody,      \* the body of an activity that was never put
  Parties,     \* the owner and the initiator a body names
  Handled,     \* bodies whose operation has a handler
  Entity,      \* the entities that may take part in the session
  Targets,     \* activity states that callers of activities_update ask for
  SessionGoals,\* session states that callers of sessions_update and _close ask for
  Scheduler    \* "threads" or "eventloop"

ASSUME SentinelAssumption == NoKey \notin Key /\ NoBody \notin Body
ASSUME BodyAssumption == /\ Parties \in [Body -> SUBSET Entity]
                         /\ Handled \subseteq Body
ASSUME TargetAssumption == /\ Targets \subseteq ActivityState
                           /\ SessionGoals \subseteq SessionState
ASSUME SchedulerAssumption == Scheduler \in {"threads", "eventloop"}

VARIABLES
  stored,    \* the activity store
  logged,    \* the last lifecycle event in every activity's event log
  session,   \* the session store's entry for the one session
  cache,     \* IdempotencyGuard._cache
  pc,        \* where each worker is
  req,       \* the request it serves
  call,      \* the engine call it is in
  copy,      \* the copy of the activity that its last store.get returned
  replies,   \* history: the activities returned for a key and a body
  late,      \* history: workers whose start arrived after a reply for its key
  ran        \* history: activities whose operation handler was run, by key

store == <<stored, logged, session, cache>>
history == <<replies, late, ran>>
vars == <<stored, logged, session, cache, pc, req, call, copy, replies, late, ran>>

StartRequest == [kind : {"start"}, act : Activity, key : Key \cup {NoKey}, body : Body,
                 auto : BOOLEAN]
ChangeRequest == [kind : {"change"}, act : Activity,
                  call : {TransitionCall(s) : s \in Targets} \cup {CancelCall, CompleteCall}]
Request == StartRequest \cup ChangeRequest

NoRequest == [kind |-> "none"]
NoCall == [op |-> "none"]

\* What the store keeps of an activity: its state and what it was started with.
\* (The patch of activities_update, which edits the payload later, is left out.)
Absent == [state |-> "absent", body |-> NoBody]
Record == [state : ActivityState, body : Body] \cup {Absent}

\* _Entry: the fingerprint and the Activity object start was about to return.
NoEntry == [act |-> "none"]
Entry == [act : Activity, body : Body, snapshot : ActivityState]

Reply == [key : Key, body : Body, act : Activity]
AnsweredKeys == {r.key : r \in replies}

Step == {"idle", "validate", "check", "policy", "load", "put", "emit", "execute", "remember"}

\* Types of the variables.
TypeOK ==
  /\ stored \in [Activity -> Record]
  /\ logged \in [Activity -> MaybeState]
  /\ session \in [state : SessionState, participants : SUBSET Entity]
  /\ cache \in [Key -> Entry \cup {NoEntry}]
  /\ pc \in [Worker -> Step]
  /\ req \in [Worker -> Request \cup {NoRequest}]
  /\ call \in [Worker -> Call \cup {NoCall}]
  /\ copy \in [Worker -> Record]
  /\ replies \subseteq Reply
  /\ late \subseteq Worker
  /\ ran \in [Key -> SUBSET Activity]

Init ==
  /\ stored = [a \in Activity |-> Absent]
  /\ logged = [a \in Activity |-> "absent"]
  /\ session = [state |-> "active", participants |-> Entity]
  /\ cache = [k \in Key |-> NoEntry]
  /\ pc = [w \in Worker |-> "idle"]
  /\ req = [w \in Worker |-> NoRequest]
  /\ call = [w \in Worker |-> NoCall]
  /\ copy = [w \in Worker |-> Absent]
  /\ replies = {}
  /\ late = {}
  /\ ran = [k \in Key |-> {}]

-----------------------------------------------------------------------------
\* The workers that are somewhere between two awaits of their coroutine.
Busy == {w \in Worker : pc[w] \notin {"idle", "execute"}}

(* Deviations: the engine locks nothing although tasks may be preempted; a task *)
(* is resumed from its await only after every other handler has come back.      *)
MayStepAnytime(w) == TRUE
MayStepLast(w) ==
  Busy \subseteq {w} /\ (pc[w] = "execute" => \A v \in Worker \ {w} : pc[v] # "execute")

\* A thread may always go on; a task only when no other one holds the loop.
MayStep(w) == Scheduler = "threads" \/ Busy \subseteq {w}

Goto(w, step) == pc' = [pc EXCEPT ![w] = step]

\* Enter an engine call, at its read of the activity.
Enter(w, c) ==
  /\ Goto(w, "load")
  /\ call' = [call EXCEPT ![w] = c]

\* The request is over: returned, or raised an FPError.
Leave(w) ==
  /\ Goto(w, "idle")
  /\ req' = [req EXCEPT ![w] = NoRequest]
  /\ call' = [call EXCEPT ![w] = NoCall]
  /\ copy' = [copy EXCEPT ![w] = Absent]
  /\ late' = late \ {w}

-----------------------------------------------------------------------------
(* Arrivals. *)

\* activities_start: build the ActivityStartRequest, enter the orchestrator.
ReceiveStart(w) ==
  \E r \in StartRequest :
    /\ pc[w] = "idle"
    /\ req' = [req EXCEPT ![w] = r]
    /\ late' = IF r.key \in AnsweredKeys THEN late \cup {w} ELSE late
    /\ Goto(w, "validate")
    /\ UNCHANGED <<store, call, copy, replies, ran>>

\* activities_update, activities_cancel, activities_complete.
ReceiveChange(w) ==
  \E r \in ChangeRequest :
    /\ pc[w] = "idle"
    /\ req' = [req EXCEPT ![w] = r]
    /\ Enter(w, r.call)
    /\ UNCHANGED <<store, copy, history>>

-----------------------------------------------------------------------------
(* ActivityStartOrchestrator.start, up to the creation of the activity. *)

\* What _validate_participants_and_session asks of the session.
SessionAdmits(b) == session.state = "active" /\ Parties[b] \subseteq session.participants

(* Deviation: the participants are not looked at. *)
ValidateStateOnly(w) ==
  /\ pc[w] = "validate"
  /\ \/ /\ session.state = "active"
        /\ Goto(w, "check")
        /\ UNCHANGED <<req, call, copy, late>>
     \/ Leave(w)
  /\ UNCHANGED <<store, replies, ran>>

\* _enforce_token_budget: the session's limit, or an enforcer of the application's,
\* may refuse any request.
OverBudget(w) == Leave(w)

Validate(w) ==
  /\ pc[w] = "validate"
  /\ \/ /\ SessionAdmits(req[w].body)
        /\ Goto(w, "check")
        /\ UNCHANGED <<req, call, copy, late>>
     \/ ~SessionAdmits(req[w].body) /\ Leave(w)
     \/ OverBudget(w)
  /\ UNCHANGED <<store, replies, ran>>

(* Deviations: only finished activities are replayed; the fingerprint is ignored. *)
KnownFinished(key) ==
  key # NoKey /\ cache[key] # NoEntry /\ cache[key].snapshot \in TerminalState
AnyFingerprint(key, body) == TRUE

\* IdempotencyGuard.check: is there an entry, and was it stored for this body?
Known(key) == key # NoKey /\ cache[key] # NoEntry
SameFingerprint(key, body) == cache[key].body = body

\* _check_idempotency: without a key or an entry, run on; otherwise answer with
\* the cached activity, or with CONFLICT when the fingerprints differ.
Check(w) ==
  LET key == req[w].key
      body == req[w].body
      replay == [key |-> key, body |-> body, act |-> cache[key].act]
  IN
  /\ pc[w] = "check"
  /\ IF ~Known(key)
       THEN Goto(w, "policy") /\ UNCHANGED <<req, call, copy, replies, late>>
       ELSE /\ replies' = replies \cup (IF SameFingerprint(key, body) THEN {replay} ELSE {})
            /\ Leave(w)
  /\ UNCHANGED <<store, ran>>

\* The PRE_INVOKE policy hook lets the request pass or denies it.
Policy(w) ==
  /\ pc[w] = "policy"
  /\ \/ Enter(w, StartCall) /\ UNCHANGED <<req, copy, late>>
     \/ Leave(w)
  /\ UNCHANGED <<store, replies, ran>>

-----------------------------------------------------------------------------
(* An engine call: read and check, write. *)

(* Deviation: complete() does not look at the state it found. *)
LoadUnchecked(w) ==
  /\ pc[w] = "load"
  /\ IF call[w] = CompleteCall \/ Accepts(call[w], stored[req[w].act].state)
       THEN /\ copy' = [copy EXCEPT ![w] = stored[req[w].act]]
            /\ Goto(w, "put")
            /\ UNCHANGED <<req, call, late>>
       ELSE Leave(w)
  /\ UNCHANGED <<store, replies, ran>>

Load(w) ==
  /\ pc[w] = "load"
  /\ IF Accepts(call[w], stored[req[w].act].state)
       THEN /\ copy' = [copy EXCEPT ![w] = stored[req[w].act]]
            /\ Goto(w, "put")
            /\ UNCHANGED <<req, call, late>>
       ELSE Leave(w)
  /\ UNCHANGED <<store, replies, ran>>

\* The worker's own copy replaces the entry, whatever the entry is by now.
Put(w) ==
  /\ pc[w] = "put"
  /\ stored' = [stored EXCEPT ![req[w].act] =
                  [state |-> call[w].goal,
                   body  |-> IF call[w] = StartCall THEN req[w].body ELSE copy[w].body]]
  /\ Goto(w, "emit")
  /\ UNCHANGED <<logged, session, cache, req, call, copy, history>>

-----------------------------------------------------------------------------
(* The event after an engine call, and what the request does next. *)

(* Deviations: a failed start publishes nothing; the event is named after the *)
(* operation instead of the state.                                            *)
PublishNoFailure(w) ==
  logged' = IF call[w] = FailCall THEN logged
            ELSE [logged EXCEPT ![req[w].act] = call[w].goal]
PublishOperation(w) == logged' = [logged EXCEPT ![req[w].act] = call[w].op]

Publish(w) == logged' = [logged EXCEPT ![req[w].act] = call[w].goal]

EmitChange(w) ==
  /\ pc[w] = "emit" /\ req[w].kind = "change"
  /\ Publish(w)
  /\ Leave(w)
  /\ UNCHANGED <<stored, session, cache, replies, ran>>

HasHandler(body) == body \in Handled

\* Then _auto_execute_if_possible: on to WORKING, or straight to the answer.
EmitSubmitted(w) ==
  /\ pc[w] = "emit" /\ req[w].kind = "start" /\ call[w] = StartCall
  /\ Publish(w)
  /\ IF req[w].auto /\ HasHandler(req[w].body)
       THEN Enter(w, TransitionCall("working"))
       ELSE Goto(w, "remember") /\ UNCHANGED call
  /\ UNCHANGED <<stored, session, cache, req, copy, history>>

\* Then dispatch.execute is called.
EmitWorking(w) ==
  /\ pc[w] = "emit" /\ req[w].kind = "start" /\ call[w] = TransitionCall("working")
  /\ Publish(w)
  /\ Goto(w, "execute")
  /\ ran' = [k \in Key |-> IF k = req[w].key THEN ran[k] \cup {req[w].act} ELSE ran[k]]
  /\ UNCHANGED <<stored, session, cache, req, call, copy, replies, late>>

EmitOutcome(w) ==
  /\ pc[w] = "emit" /\ req[w].kind = "start" /\ call[w] \in {CompleteCall, FailCall}
  /\ Publish(w)
  /\ Goto(w, "remember")
  /\ UNCHANGED <<stored, session, cache, req, call, copy, history>>

\* A result that cannot be copied or encoded makes the put of complete() raise;
\* one that is no JSON makes the token meter raise, after the put and before the
\* event.  Either way the start ends there.
EncodeFails(w) ==
  /\ call[w] = CompleteCall
  /\ pc[w] = "put" \/ (pc[w] = "emit" /\ req[w].kind = "start")
  /\ Leave(w)
  /\ UNCHANGED <<store, replies, ran>>

-----------------------------------------------------------------------------
(* The operation handler, and the end of start. *)

\* dispatch.execute comes back: with a result, with {"state": "working"}, or
\* with an exception.
Execute(w) ==
  /\ pc[w] = "execute"
  /\ \/ Enter(w, CompleteCall)
     \/ Goto(w, "remember") /\ UNCHANGED call
     \/ Enter(w, FailCall)
  /\ UNCHANGED <<store, req, copy, history>>

\* The task is cancelled in its await: CancelledError is no Exception, so the
\* orchestrator neither fails the activity nor stores a result.
Abort(w) ==
  /\ Scheduler = "eventloop"
  /\ pc[w] = "execute"
  /\ Leave(w)
  /\ UNCHANGED <<store, replies, ran>>

\* idempotency.store, when there is a key, and the answer.
Remember(w) ==
  /\ pc[w] = "remember"
  /\ cache' = [k \in Key |-> IF k = req[w].key
                 THEN [act |-> req[w].act, body |-> req[w].body, snapshot |-> call[w].goal]
                 ELSE cache[k]]
  /\ replies' = replies \cup
       {[key |-> k, body |-> req[w].body, act |-> req[w].act] : k \in {req[w].key} \ {NoKey}}
  /\ Leave(w)
  /\ UNCHANGED <<stored, logged, session, ran>>

-----------------------------------------------------------------------------
(* SessionEngine's operations on the session, each as the one write that   *)
(* the start path can observe; SessionRuntime models them in full.         *)

\* update, close and join: a legal state, and participants added.
UpdateSession ==
  \E s \in SessionGoals \cup {session.state}, joining \in SUBSET Entity :
    /\ session.state \notin ClosedState
    /\ s = session.state \/ s \in SessionTransitions[session.state]
    /\ session' = [state |-> s, participants |-> session.participants \cup joining]

LeaveSession ==
  \E e \in Entity :
    /\ session.state \notin ClosedState
    /\ session' = [session EXCEPT !.participants = @ \ {e}]

ChangeSession ==
  /\ Scheduler = "threads" \/ Busy = {}
  /\ UpdateSession \/ LeaveSession
  /\ UNCHANGED <<stored, logged, cache, pc, req, call, copy, history>>

-----------------------------------------------------------------------------
\* Everything a worker does by itself once it has a request.
Proceed(w) ==
  \/ Validate(w) \/ Check(w) \/ Policy(w)
  \/ Load(w) \/ Put(w) \/ EncodeFails(w)
  \/ EmitChange(w) \/ EmitSubmitted(w) \/ EmitWorking(w) \/ EmitOutcome(w)
  \/ Execute(w) \/ Remember(w)

Work(w) ==
  /\ MayStep(w)
  /\ ReceiveStart(w) \/ ReceiveChange(w) \/ Proceed(w) \/ Abort(w)

Next == ChangeSession \/ \E w \in Worker : Work(w)

Spec == Init /\ [][Next]_vars

(***************************************************************************)
(* A thread is scheduled again and again, and asyncio's ready queue is     *)
(* first-in first-out: a task that can be resumed each time the loop is    *)
(* free is resumed in the end, which takes strong fairness to say.         *)
(* Execute is included: operation handlers return or raise.  Callers and   *)
(* cancellations of tasks are not fair.                                    *)
(***************************************************************************)
FairSpec == Spec /\ \A w \in Worker : SF_vars(MayStep(w) /\ Proceed(w))

-----------------------------------------------------------------------------
(* Properties *)

\* A start that arrives after an activity has been returned for its key never
\* gets past the idempotency check: a late retry is replayed or refused, and
\* neither creates an activity nor runs the operation a second time.
RetryAfterAnswerIsReplay == \A w \in late : pc[w] \in {"validate", "check"}

\* Every activity returned for a key was started with the payload its caller
\* sent: neither a replay nor a reused activity id answers for another request.
AnswerMatchesRequest == \A r \in replies : stored[r.act].body = r.body

\* Whenever the event loop is free, the last lifecycle event of an activity
\* names the state the store has for it, so that a reader of the log and a
\* caller of activities_get agree; only a completed activity may be ahead of
\* its log, when its result could not be metered.
LogTellsState ==
  Busy = {} => \A a \in Activity :
                 logged[a] = stored[a].state \/ stored[a].state = "completed"

\* An activity comes into being only while its session is active and has its
\* owner and its initiator among the participants, whatever sessions_close,
\* _update and _leave do between the arrival of the start and the write.
StartsInAdmittingSession ==
  [][\A a \in Activity :
       stored[a] = Absent /\ stored'[a] # Absent => SessionAdmits(stored'[a].body)]_vars

\* A canceled, completed, rejected or failed activity changes only when the
\* very start that runs its handler reports that the handler raised.
TerminalChangesOnlyByHandlerFailure ==
  [][\A a \in Activity :
       stored[a].state \in TerminalState /\ stored'[a] # stored[a] =>
         /\ stored'[a].state = "failed"
         /\ \E w \in Worker : /\ pc[w] = "put" /\ call[w] = FailCall
                             /\ req[w].kind = "start" /\ req[w].act = a]_vars

\* With any number of threads, an activity takes a step its state does not
\* accept only if the writing thread's copy had gone stale: the check of every
\* engine call is right about the copy it was made on.
IllegalOnlyFromStaleCopy ==
  [][\A a \in Activity :
       stored'[a].state # stored[a].state =>
         \/ \E c \in Call : c.goal = stored'[a].state /\ Accepts(c, stored[a].state)
         \/ \E w \in Worker : /\ pc[w] = "put" /\ req[w].act = a
                             /\ copy[w].state # stored[a].state]_vars

\* A canceled, completed, rejected or failed activity never changes again: the
\* strict life cycle the README announces.
TerminalIsFinal ==
  [][\A a \in Activity :
       stored[a].state \in TerminalState => stored'[a] = stored[a]]_vars

\* Whenever the event loop is free, every completed activity has its
\* activity.completed event, the one that carries its usage and its cost.
CompletionIsLogged ==
  Busy = {} => \A a \in Activity : stored[a].state = "completed" => logged[a] = "completed"

\* The operation handler runs for at most one activity of an idempotency key:
\* the key deduplicates the write.
AtMostOneRunPerKey == \A k \in Key : \A a, b \in ran[k] : a = b

\* Every request is answered, if the handlers it runs come back.
EveryRequestAnswered == \A w \in Worker : (pc[w] # "idle") ~> (pc[w] = "idle")

\* The server implements the abstract life cycle of its activities.
Lifecycle == INSTANCE ActivityLifecycle WITH state <- [a \in Activity |-> stored[a].state]
LifecycleSpec == Lifecycle!Spec
=============================================================================
