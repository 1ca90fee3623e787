--------------------------- MODULE ActivityRestart ---------------------------
(***************************************************************************)
(* ActivityRuntime over the SQLite stores, with the process stopping at    *)
(* any step and starting again on the same database file.  What the        *)
(* StoreBundle holds survives; the IdempotencyGuard is a dict of the       *)
(* FPServer object and starts empty, and the requests in progress are      *)
(* gone.                                                                   *)
(***************************************************************************)
EXTENDS ActivityRuntime, Naturals

CONSTANT MaxRestarts  \* bound on the restarts of one behaviour

ASSUME RestartAssumption == MaxRestarts \in Nat

VARIABLE restarts

restartVars == <<stored, logged, session, cache, pc, req, call, copy,
                 replies, late, ran, restarts>>

RestartInit == Init /\ restarts = 0

\* What every new FPServer starts with.
FreshServer ==
  /\ cache' = [k \in Key |-> NoEntry]
  /\ pc' = [w \in Worker |-> "idle"]
  /\ req' = [w \in Worker |-> NoRequest]
  /\ call' = [w \in Worker |-> NoCall]
  /\ copy' = [w \in Worker |-> Absent]
  /\ late' = {}
  /\ restarts < MaxRestarts
  /\ restarts' = restarts + 1
  /\ UNCHANGED <<replies, ran>>

(* Deviation: the server is given the in-memory stores. *)
RestartInMemory ==
  /\ FreshServer
  /\ stored' = [a \in Activity |-> Absent]
  /\ logged' = [a \in Activity |-> "absent"]
  /\ session' = session

Restart == FreshServer /\ UNCHANGED <<stored, logged, session>>

RestartNext ==
  \/ Next /\ UNCHANGED restarts
  \/ Restart

RestartSpec == RestartInit /\ [][RestartNext]_restartVars

\* Between restarts, threads and tasks are scheduled as in FairSpec.
FairRestartSpec ==
  /\ RestartSpec
  /\ \A w \in Worker : SF_restartVars(MayStep(w) /\ Proceed(w) /\ UNCHANGED restarts)

-----------------------------------------------------------------------------
\* When no request is in progress, every activity of the store has at least its
\* activity.submitted event in the log.
CreatedActivityIsLogged ==
  Busy = {} => \A a \in Activity : stored[a] # Absent => logged[a] # "absent"
=============================================================================
