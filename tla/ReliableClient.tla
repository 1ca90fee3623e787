--------------------------- MODULE ReliableClient ---------------------------
(***************************************************************************)
(* HTTPJSONRPCClientTransport.call with its RetryPolicy, CircuitBreaker    *)
(* and _KeepAliveConnection, shared by the threads of a client.  Only the  *)
(* connection has a lock; the breaker's fields are read and written by     *)
(* every thread, one access a step here.                                   *)
(***************************************************************************)
EXTENDS Naturals

CONSTANTS
  Caller,       \* threads that call through the transport
  MaxAttempts,  \* RetryPolicy.max_attempts
  Threshold,    \* CircuitBreakerConfig.failure_threshold
  KeepAlive,    \* the transport's keep_alive
  Nobody        \* holds the connection's lock when no caller does

ASSUME PolicyAssumption == MaxAttempts \in Nat \ {0} /\ Threshold \in Nat \ {0}
ASSUME ModeAssumption == KeepAlive \in BOOLEAN /\ Nobody \notin Caller

VARIABLES
  users,     \* the callers that use the transport, once and for all
  failures,  \* _failure_count, which is only compared with the threshold and
             \* so stops counting there
  opened,    \* _opened_at: "never", or "waiting" for the recovery timeout to
             \* pass, or "over" when it has
  wire,      \* who holds the connection's lock
  pc,        \* where each caller is
  attempt,   \* the attempt it is making
  tried,     \* whether post() has sent this attempt's request once
  seen,      \* the _failure_count it has read
  trial,     \* whether it was admitted because the timeout had passed
  healthy,   \* whether the server answers, and answers well
  failed     \* calls that have failed so far, as far as the threshold

vars == <<users, failures, opened, wire, pc, attempt, tried, seen, trial, healthy, failed>>

\* What a RetryPolicy allows, and how far failures matter to a CircuitBreakerConfig.
Attempt == 1 .. MaxAttempts
Failures == 0 .. Threshold

\* Types of the variables.
TypeOK ==
  /\ users \subseteq Caller
  /\ failures \in Failures /\ failed \in Failures
  /\ opened \in {"never", "waiting", "over"}
  /\ wire \in Caller \cup {Nobody}
  /\ pc \in [Caller -> {"idle", "check", "post", "send", "zero", "close",
                        "count", "store", "trip", "open"}]
  /\ attempt \in [Caller -> Attempt]
  /\ tried \in [Caller -> BOOLEAN] /\ trial \in [Caller -> BOOLEAN]
  /\ seen \in [Caller -> Failures]
  /\ healthy \in BOOLEAN

Init ==
  /\ users \in SUBSET Caller \ {{}}
  /\ failures = 0 /\ opened = "never" /\ wire = Nobody
  /\ pc = [c \in Caller |-> "idle"]
  /\ attempt = [c \in Caller |-> 1]
  /\ tried = [c \in Caller |-> FALSE] /\ trial = [c \in Caller |-> FALSE]
  /\ seen = [c \in Caller |-> 0]
  /\ healthy \in BOOLEAN
  /\ failed = 0

OneMore(n) == IF n < Threshold THEN n + 1 ELSE n

Goto(c, step) == pc' = [pc EXCEPT ![c] = step]

-----------------------------------------------------------------------------
(* CircuitBreaker.before_call reads _opened_at twice. *)

\* call() begins.
Enter(c) ==
  /\ c \in users /\ pc[c] = "idle"
  /\ attempt' = [attempt EXCEPT ![c] = 1]
  /\ trial' = [trial EXCEPT ![c] = FALSE]
  /\ Goto(c, IF opened = "never" THEN "post" ELSE "check")
  /\ UNCHANGED <<failures, opened, wire, tried, seen, healthy, failed>>

(* Deviation: an open circuit admits the call at once. *)
AdmittedOpen == opened # "never"

Admitted == opened = "over"

Admit(c) ==
  /\ pc[c] = "check" /\ Admitted
  /\ trial' = [trial EXCEPT ![c] = TRUE]
  /\ Goto(c, "post")
  /\ UNCHANGED <<failures, opened, wire, attempt, tried, seen, healthy, failed>>

\* RATE_LIMITED; or a TypeError, if another thread has closed the circuit meanwhile.
Refuse(c) ==
  /\ pc[c] = "check" /\ ~Admitted
  /\ Goto(c, "idle")
  /\ UNCHANGED <<failures, opened, wire, attempt, tried, seen, trial, healthy, failed>>

-----------------------------------------------------------------------------
(* One attempt. *)

Post(c) ==
  /\ pc[c] = "post" /\ (KeepAlive => wire = Nobody)
  /\ wire' = IF KeepAlive THEN c ELSE wire
  /\ tried' = [tried EXCEPT ![c] = FALSE]
  /\ Goto(c, "send")
  /\ UNCHANGED <<failures, opened, attempt, seen, trial, healthy, failed>>

\* A kept-alive connection that breaks is opened once more.
Reconnect(c) ==
  /\ pc[c] = "send" /\ ~healthy /\ KeepAlive /\ ~tried[c]
  /\ tried' = [tried EXCEPT ![c] = TRUE]
  /\ UNCHANGED <<failures, opened, wire, pc, attempt, seen, trial, healthy, failed>>

Hangup(c) == wire' = IF wire = c THEN Nobody ELSE wire

Succeed(c) ==
  /\ pc[c] = "send" /\ healthy
  /\ Hangup(c)
  /\ Goto(c, "zero")
  /\ UNCHANGED <<failures, opened, attempt, tried, seen, trial, healthy, failed>>

(* Deviation: a retry does not count as an attempt. *)
RetryForEver(c) ==
  /\ pc[c] = "send" /\ ~healthy /\ attempt[c] < MaxAttempts
  /\ Hangup(c)
  /\ Goto(c, "post")
  /\ UNCHANGED <<failures, opened, attempt, tried, seen, trial, healthy, failed>>

\* A retryable status or error, or no connection at all: after the backoff, again,
\* and the breaker is not asked a second time.
Retry(c) ==
  /\ pc[c] = "send" /\ ~healthy /\ attempt[c] < MaxAttempts
  /\ Hangup(c)
  /\ attempt' = [attempt EXCEPT ![c] = @ + 1]
  /\ Goto(c, "post")
  /\ UNCHANGED <<failures, opened, tried, seen, trial, healthy, failed>>

\* The last attempt failed, or the error is not retryable.
Fail(c) ==
  /\ pc[c] = "send" /\ ~healthy
  /\ Hangup(c)
  /\ failed' = OneMore(failed)
  /\ Goto(c, "count")
  /\ UNCHANGED <<failures, opened, attempt, tried, seen, trial, healthy>>

-----------------------------------------------------------------------------
(* record_success and record_failure. *)

Zero(c) ==
  /\ pc[c] = "zero"
  /\ failures' = 0
  /\ Goto(c, "close")
  /\ UNCHANGED <<opened, wire, attempt, tried, seen, trial, healthy, failed>>

(* Deviation: a success only resets the counter. *)
CloseNothing(c) ==
  /\ pc[c] = "close"
  /\ Goto(c, "idle")
  /\ UNCHANGED <<failures, opened, wire, attempt, tried, seen, trial, healthy, failed>>

Close(c) ==
  /\ pc[c] = "close"
  /\ opened' = "never"
  /\ Goto(c, "idle")
  /\ UNCHANGED <<failures, wire, attempt, tried, seen, trial, healthy, failed>>

Count(c) ==
  /\ pc[c] = "count"
  /\ seen' = [seen EXCEPT ![c] = failures]
  /\ Goto(c, "store")
  /\ UNCHANGED <<failures, opened, wire, attempt, tried, trial, healthy, failed>>

(* Deviation: the first failure counts as the last. *)
StoreTwo(c) ==
  /\ pc[c] = "store"
  /\ failures' = OneMore(OneMore(seen[c]))
  /\ Goto(c, "trip")
  /\ UNCHANGED <<opened, wire, attempt, tried, seen, trial, healthy, failed>>

Store(c) ==
  /\ pc[c] = "store"
  /\ failures' = OneMore(seen[c])
  /\ Goto(c, "trip")
  /\ UNCHANGED <<opened, wire, attempt, tried, seen, trial, healthy, failed>>

Trip(c) ==
  /\ pc[c] = "trip"
  /\ Goto(c, IF failures >= Threshold THEN "open" ELSE "idle")
  /\ UNCHANGED <<failures, opened, wire, attempt, tried, seen, trial, healthy, failed>>

Open(c) ==
  /\ pc[c] = "open"
  /\ opened' = "waiting"
  /\ Goto(c, "idle")
  /\ UNCHANGED <<failures, wire, attempt, tried, seen, trial, healthy, failed>>

-----------------------------------------------------------------------------
Proceed(c) ==
  \/ Enter(c) \/ Admit(c) \/ Refuse(c)
  \/ Reconnect(c) \/ Succeed(c) \/ Retry(c) \/ Fail(c)
  \/ Zero(c) \/ Close(c) \/ Count(c) \/ Store(c) \/ Trip(c) \/ Open(c)

\* The recovery timeout passes.
Elapse ==
  /\ opened = "waiting" /\ opened' = "over"
  /\ UNCHANGED <<failures, wire, pc, attempt, tried, seen, trial, healthy, failed>>

\* The server, or the way to it, goes down or comes up.
Weather ==
  /\ healthy' = ~healthy
  /\ UNCHANGED <<failures, opened, wire, pc, attempt, tried, seen, trial, failed>>

Next ==
  /\ Elapse \/ Weather \/ \E c \in Caller : Proceed(c) \/ Post(c)
  /\ UNCHANGED users

Spec == Init /\ [][Next]_vars

(***************************************************************************)
(* Callers call on.  The lock is not fair, but a caller that the others    *)
(* leave it to again and again gets it in the end.  Time passes.           *)
(***************************************************************************)
FairSpec ==
  /\ Spec /\ WF_vars(Elapse /\ UNCHANGED users)
  /\ \A c \in Caller : /\ WF_vars(Proceed(c) /\ UNCHANGED users)
                       /\ SF_vars(Post(c) /\ UNCHANGED users)

-----------------------------------------------------------------------------
(* Properties *)

Alone == \E c \in Caller : users = {c}

\* While the only caller is not in a call, the circuit is open, or on trial, exactly
\* when the threshold has been reached since the last success.
OpenMeansTripped ==
  Alone /\ (\A c \in Caller : pc[c] = "idle") => (opened # "never" <=> failures = Threshold)

\* However the threads' counting interleaves, the circuit opens only after as many
\* failed calls as the threshold says; a retry is no failed call.
NeverTripsEarly == opened # "never" => failed >= Threshold

\* A circuit that is half open admits one call at a time.
HalfOpenAdmitsOne ==
  \A c, d \in Caller :
    (\A x \in {c, d} : trial[x] /\ pc[x] \in {"post", "send"}) => c = d

\* For an only caller the breaker goes through the states of the abstract one.
Breaker == INSTANCE BreakerStates
  WITH circuit <- CASE opened = "never" -> "closed" [] opened = "waiting" -> "open"
                    [] opened = "over" -> "half-open"
BreakerSteps == [][Alone => Breaker!Next]_opened

\* Every call returns: there is an end to its retries.
EveryCallReturns == \A c \in Caller : pc[c] # "idle" ~> pc[c] = "idle"

\* Once the server is up for good, the circuit closes for good.
ClosesAgain == <>[]healthy => <>[](opened = "never")
=============================================================================
