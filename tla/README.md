# Foundation Protocol: a verification development in TLA+

This directory specifies the Python SDK of the Foundation Protocol (`src/src/fp`, about 8,800
lines) in TLA+, model-checks it with TLC and proves theorems about it with TLAPS. It is meant to be
read beside the code: every definition that models code names its lines in `PROJECT.json` ("map").
Line numbers below are relative to `src/src/fp` unless they begin with `docs/` or `README.md`.

Contents: 1 the system, 2 the modules, 3 modelling conventions, 4 the runs, 5 fairness, 6 the
proofs, 7 what does not hold, 8 what is not modelled, 9 plan.

## 1. The system

An `FPServer` (`app/server.py`) is a facade over engines and registries, each of which keeps its
objects in a store (`stores/`): dictionaries under a lock (`memory.py`) or tables of one SQLite file
(`sqlite.py`). A store locks one access; **nothing locks a read together with the write that
follows from it**. Whether this matters depends on who calls:

- `AsyncFPServer` (`app/async_server.py`) runs requests as asyncio tasks. Engines are called
  without an await in between, so that tasks interleave only while an operation handler is awaited.
- `FPHTTPPublishedServer` (`transport/http_publish.py`) runs the server in a
  `ThreadingHTTPServer`: a thread per request, which interleave at every store access.

Callers reach a server in process or over `HTTPJSONRPCClientTransport`
(`transport/client_http_jsonrpc.py`), which retries, resends on broken kept-alive connections and
has a circuit breaker. Servers find each other through a `DirectoryService` of signed cards.

| component | state it keeps | operations | what is hard about it | what makes it correct |
|---|---|---|---|---|
| activity engine, start orchestrator (`runtime/activity_engine.py`, `app/activity_orchestrator.py`) | activities, and their events in the log | start (validate, idempotency, policy, create, run handler, complete or fail), update, complete, cancel | a dozen accesses to shared state in a row; other requests during the handler; handlers that raise, are canceled, or return what cannot be metered | legal transitions; log and store agree; started only in an admitting session |
| idempotency guard (`runtime/idempotency.py`) | cache of key, fingerprint, activity; in memory only | check, store | retry before, during and after the first start; restart | a retry is a replay; nobody gets another request's activity |
| dispatch engine, compaction | handlers by operation | execute | awaits application code | - (its outcomes are part of a start) |
| session engine (`runtime/session_engine.py`) | participants, roles, state | create, join, leave, update, close | read, check, write under threads; decoding of what was stored | roles match participants; closed is final; log and store agree |
| event streams, backpressure (`runtime/event_engine.py`, `backpressure.py`) | cursor, acked ids, outstanding count per stream; in memory only | stream, read, resubscribe, ack | lost answers, calls sent twice, shared streams, a full window, a server that comes back without its streams | nothing skipped; unacked bounded; progress |
| event publication, event stores | a log per session, one per activity | publish, replay_from | two appends, crash between them | the logs agree |
| entity and key-value stores (`stores/`) | one table each; over SQLite one connection under all | get, put, list, list_page | transactions that belong to the connection, not to the store that has the lock; a listing while the table changes | nobody reads what may be rolled back; no transaction stays open; a walk is complete and in order |
| organizations, memberships (`graph/memberships.py`, `organizations.py`) | organizations, memberships with roles and status | create; add, remove, grant, revoke | two or three puts per request; edits of stale copies | an organization has its entity; removed stays revoked; no change that was not allowed |
| entity registry, relations | entities, edges | register, create, search | - | - |
| directory (`federation/directory_service.py`) | an entry, a card and a lease per entity | publish, resolve, heartbeat, set_health | expiry against refresh and publication | latest card served; signatures verify; fresh entries stay |
| card signing, published servers, network resolver (`federation/`, `transport/http_publish.py`) | a running server's card | start, stop; sign, verify, fetch | cards that outlive the server they name | a card is as signed; a server that is gone is forgotten in time |
| remote client transport (`transport/reliability.py`, `client_http_jsonrpc.py`) | failure count, opened_at, connection | call, with retries | counters without a lock; outages | breaker trips when it should and closes again; calls return |
| receipts, settlements, disputes (`economy/`, `runtime/modules/economy_module.py`) | receipts, settlements, disputes, keys | issue, verify, create, confirm, dispute | a receipt before its event; a restart, which draws another key; the codec | settlements were allowed; which receipts verify |
| provenance, audit export | policy records | record, audit_bundle | four stores read one after the other | a bundle is consistent |
| policy, governance | - (records above) | enforce at PRE_INVOKE, PRE_SETTLE, PRE_ROLE_CHANGE | recorded before it is enforced | what was denied is not done |
| server transports (HTTP, stdio, SSE, WebSocket, in-process) | connections | parse, dispatch, frame | decides who interleaves | - |
| client facades | - | one call each | - | - |
| security (auth, authz, JWT, mTLS, Ed25519) | - | pure functions | - | - |
| observability | counters | measure | may raise in the middle of a start | - |
| profiles, registries, adapters, quickstart, introspection | configuration | - | - | - |
| protocol models, codec | - | constructors that check | checks that stored data meet again when decoded | what is stored can be loaded |
| skills, scripts | - | tooling | - | - |

How they interact. A start reads the session store (validation), the idempotency cache, the policy
(which writes provenance), the activity store and the event log, calls the application's handler,
and writes activity, log and cache again. Session and membership operations write their table and
then the log. Streams only read the log. Receipts write their table, read the activity store and
write the log. Over SQLite all these tables share a connection, and so its transactions. Audit bundles read the log, provenance, receipts and settlements. The client
transport stands between a consumer and every one of these operations and may repeat each call.

`PROJECT.json` lists 40 hazards of this code at the line where each bites, with the properties that
are about it.

## 2. The modules

| module | what it models | state ↔ code | actions ↔ code |
|---|---|---|---|
| `ActivityStates` | constant operators of the activity state machine | `_ALLOWED_TRANSITIONS`, the states `complete` and `cancel` accept | `Accepts(c, s)`: does the engine method go on to put? |
| `ActivityLifecycle` | *abstract*: one atomic, legal step per engine call | `state` | `Perform` |
| `ActivityRuntime` | a server at work on activities for several requests | `stored` the activity store; `logged` the last event in each activity's log; `session` the session's entry; `cache` the guard; `pc`, `req`, `call`, `copy` a request's place and locals; `replies`, `late`, `ran` history | `Validate`, `Check`, `Policy` the orchestrator up to creation; `Load` and `Put` an engine call; `Emit…` publication and what follows it; `Execute`, `Abort` the handler; `EncodeFails` a result that cannot be stored or metered; `Remember` the end; `ChangeSession` the session engine as a start can see it |
| `ActivityRestart` | the same over SQLite with a process that dies | + `restarts` | `Restart`: stores stay; cache and requests are gone |
| `SessionStates`, `SessionLifecycle` | transition table; *abstract* session | `session` | `Create`, `Update`, `Leave` |
| `SessionRuntime` | SessionEngine and the `sessions_*` methods | `stored`; `told` what the events tell; `copy` | `Receive`, `Load`, `CloseAgain`, `Refuse`, `Put`, `Emit`; the five operations as `Admits` and `Result` |
| `EventStream` | a stream, its window, consumers behind a lossy transport, and restarts of the server | `open`, `cursor`, `outstanding`, `acked` of the engine's stream state and the controller; `held`, `received` on the consumers' side | `Open` is `stream`; `Replay`, `Count`, `Refuse`, `Advance` are `read`; `Resubscribe`, `Ack`; `LoseAnswer`, `AckAgain` the transport; `Restart`, `Unknown` |
| `EventLog` | `EventEngine.publish` | `host` who publishes and over which stores; `session`, `activity` the two logs | `Publish`, `AppendToSession`, `AppendToActivity`; `Raise` an append that fails; `Crash` |
| `Economy` (extends `EventLog`) | receipts, settlements, disputes, provenance, audit bundles, signing keys | `receipts`, `settlements`, `disputes`, `decisions` the stores; `signer` the secret or the process's key pair, whichever its ReceiptService signs with; `bundle` what an export has read | `Issue`, `Find`; `Settle`, `Decide`, `Create`, `Confirm`; `Record`, `Dispute`; `Export`, `Read`, `Answer`; `Fail` an access that raises; `CrashAndRestart`; `Verifies` is `verify` |
| `BreakerStates` | *abstract* circuit breaker | `circuit` | `Trip`, `Cooldown`, `Probe` |
| `ReliableClient` | the client transport shared by threads | `failures`, `opened` the breaker's fields; `wire` the connection's lock; `attempt`, `tried` locals | `Enter`, `Admit`, `Refuse` are `before_call`; `Post`, `Reconnect`, `Succeed`, `Retry`, `Fail` an attempt; `Zero`, `Close` `record_success`; `Count`, `Store`, `Trip`, `Open` `record_failure` |
| `Directory` | the directory's entry of one entity | `entry` the table, `card` and `healthy` the entry objects it refers to | `Publish`, of a card that `Verifies`, `Put`; `Beat`, `Stamp`, `Refresh`; `Resolve`, `Check`, `Pop`, `Answer`; `SetHealth` |
| `Federation` (extends `Directory`) | a published server that is started and stopped, and whose cards are signed and listed | `up`; `ends` the expiry of each start's card; `home` the start that a listed card names | `StartServer`, `StopServer`; `Announce`, `Enlist` a publication of one of these cards; `Consult` the other calls |
| `DurableStore` | *abstract*: what puts into stores promise | `disk`, `put`, `fate` | `Ask`, `Keep`, `Return`, `Raise`, `Crash` |
| `SqliteStores` | the puts of threads into the tables of one SQLite connection | `disk` the file, `view` what the connection shows, `open` its transaction, `step` a put's place in the `with` block | `Ask` takes the store's lock; `Check`, `Begin`, `Execute`, `Leave`, `Return` the block; `Fail`, `Raise` its exception; `CrashStores` |
| `GraphModule` (extends `SqliteStores`) | entities, an organization and its memberships, over SQLite | the tables of `SqliteStores`; `pc`, `req`, `todo` a request | `Receive` (with the policy's record as the first put of a role change), `Find` the look-up of the organization, `Load` with one disjunct per operation, `Refuse`; `PutRow`, `Working`, `Proceed`, `Abandon` the puts of a request one after the other; `Crash` |
| `Paging` | `list_page` with a filter, and the walk of a client | `stored`, `matching`; `cursor`, `at`, `page` of the call | `Ask`, `NextChunk`, `ReturnFull`, `ReturnLast`; `Create`, `Change` by others |
| `MC…` | small instances: definitions for constants, symmetry | | |
| `ActivityRuntimeProofs` (of `ActivityRestart` too), `SessionProofs`, `DirectoryProofs` (of `Federation` too), `PagingProofs`, `EventStreamProofs`, `ReliableClientProofs`, `SqliteProofs` (of `GraphModule` too), `EconomyProofs` (of `EventLog` too) | theorems (section 6) | | |

Composition: `ActivityRestart` extends `ActivityRuntime`, which has the session as a component that
changes as `SessionLifecycle` allows; `Economy` extends `EventLog` and interleaves its own requests
with publications; `EventStream` composes the engine with consumers and with the transport's
resending; `GraphModule` runs the registries over the steps of `SqliteStores`; `Federation` puts a
server that comes and goes next to the `Directory`. Refinement: `ActivityRuntime` implements
`ActivityLifecycle` and `SessionRuntime` implements `SessionLifecycle` (both checked and proved
where operations do not overlap), `ReliableClient` with one caller takes only steps of
`BreakerStates`, and `SqliteStores` implements `DurableStore` (both checked and proved).

## 3. Conventions

- **`Scheduler`** tells who interleaves: "threads" lets another request come in between any two
  store accesses (`FPHTTPPublishedServer`); "eventloop" only where a coroutine awaits
  (`AsyncFPServer`); "serial" in `Directory`, which has no asynchronous server, means calls that do
  not overlap. In `SqliteStores` and `ReliableClient` the
  set of `threads` or `users` is chosen once and for all; `Alone` says that it has one element.
- **`host`** of `EventLog` and `Economy` is drawn once, at the start: "threads" over the in-memory
  stores, each of which copies values in and out under a lock of its own, or "alone" over SQLite,
  which is one request at a time (`AsyncFPServer`, or an application that calls in turn). On either, an access is
  one step that takes place or raises; on the second, `SqliteProofs` shows it (`AloneInv`: what has
  returned is on the disk, what has raised is not). Threads over SQLite are neither, since there a put that has
  returned can still be rolled back (section 7). Receipts, settlements and audits are not in the JSON-RPC method
  table; they are called from operation handlers, which run in the HTTP server's threads, or by the
  application itself.
- **A step is an access to shared state**; in `SqliteStores`, a call of the connection. Checks and computations on a copy belong to the step that
  made it. A refused request is a step that changes nothing but the requester.
- **Data** are model values. A body stands for all that a start fingerprints, a card for the
  publication it comes from and its expiry, an event for its position, a receipt's quantity for whether it was written as an int or a float.
- **History variables** (`replies`, `late`, `ran`, `received`, `steady`, `failed`, `fate`, `home`) record what the
  properties speak of; no guard of the code's actions reads them, save that in `EventStream` a
  resubscribing consumer uses what it has received.
- **Bounds** are constants named `Max…`, in guards only; the sets `Targets`, `Goals`,
  `SessionGoals`, `Assignments` bound what callers ask for.
- **Deviations.** An operator commented `(* Deviation: … *)` is a plausible bug, next to the
  definition it would replace. No action uses one. Substituting it makes TLC report the property
  it is listed with in `PROJECT.json` ("mutants"), which shows that each property of each run can
  fail.

## 4. The runs

| run | instance | checks | states |
|---|---|---|---|
| `activity_loop` | AsyncFPServer; 2 requests, 2 activities, 1 key or none, 2 bodies; updates to working, input_required, rejected; session goals active, paused, closed | `TypeOK`; `AnswerMatchesRequest` (nobody is answered with an activity started for something else); `LogTellsState` (the log names the stored state whenever the loop is free); `StartsInAdmittingSession`; `TerminalChangesOnlyByHandlerFailure`; `LifecycleSpec` (refinement) | 598,916 |
| `activity_threads` | HTTP threads; 2 requests, 1 activity | `RetryAfterAnswerIsReplay` (a start that arrives after its key was answered never gets past the idempotency check); `IllegalOnlyFromStaleCopy` | 1,291,784 |
| `activity_restart` | AsyncFPServer over SQLite, one stop at any step | `AnswerMatchesRequest` across the restart; `EveryRequestAnswered` | 760,264 |
| `session` | SQLite, operations that do not overlap; 3 entities, 2 roles | `TypeOK`; `RolesMatchParticipants`; `LogTellsSession`; `LifecycleSpec` (refinement) | 40,537 |
| `stream` | event loop, 2 consumers of one stream, window 2, limit 2, 5 events, 2 lost reads, 1 lost ack, 1 restart, consumers resubscribe | `NothingSkipped`; `WindowBoundsUnacked`; `DeliveredOnce`; `ArrivesUnlessLost` | 170,087 |
| `client` | 1 or 2 threads, 2 attempts, threshold 2 | `OpenMeansTripped`; `NeverTripsEarly`; `BreakerSteps`; `EveryCallReturns`; `ClosesAgain` | 302,480 |
| `directory` | `Federation`: calls that do not overlap; lease 2, clock to 4, 2 entries, 2 starts of the server | `LatestCardServed`; `SignaturesVerify`; `StoppedServerForgotten` (a signed card lasts no longer than the card of the start it names); `FreshEntryStays` | 1,094,593 |
| `membership` | `GraphModule`: one thread with any number of requests, or two threads with two; 2 membership ids, 1 member, 2 roles; failures and crashes at any step | `RemovedStaysRevoked` (what the log tells of a removal is so on the disk); `OrganizationHasEntity`; `NoDirtyReads`; `NothingLeftOpen`; `OnlyAllowedChanges` (no role change without the policy's record); `DurableSpec` (refinement) | 1,240,060 |
| `economy` | threads over the in-memory stores, or one request at a time over SQLite with 1 crash and restart; 2 requests, 2 events, 1 receipt, 2 records or disputes, 1 access that raises, bundles of 1 event | `ActivityWithinSession`; `EventsComeWithReceipts`; `AllowedBeforeSettled`; `ReceiptsVerify` (exactly which receipts still verify) | 7,193,768 |
| `paging` | 5 ids, pages of 2, creations and changes at any time | `Complete`; `InOrder`; `WalkEnds` | 17,197 |
| `loop_terminal` | as `activity_loop` | finds `TerminalIsFinal` violated | |
| `stream_retry` | 1 consumer, the transport's own retry | finds `NothingSkipped` violated | |

Why the bounds are enough for what the runs ask:

- *Activities.* Every race of this code is between two requests: one holds a copy, an admission or a
  cache miss, and the other makes it stale. Two activities and one key are what it takes to reuse a
  key for another activity and an id for another body; two bodies differ in everything the
  orchestrator tells apart (with and without a handler, one party or two). `activity_threads` has
  one activity because both its properties are about a key's or an activity's own history. One
  restart suffices since nothing that is kept counts restarts. Where a theorem states the property,
  the bounds do not matter at all.
- *Sessions.* Three entities let one join a session of two and let two leave one after the other.
- *Streams.* With window 2 and limit 2 a second delivery overruns the window, is refused, and is
  admitted after an ack; five events fill the window twice more, and one that is lost needs
  the window a second time. One restart comes at any point of this; a second one would find what the
  first left, a server without streams.
- *Client.* With threshold 2 and two attempts, retries and failures are told apart, and a counter
  update can be lost between two threads.
- *Directory.* A clock to 4 with leases of 2 has a card expire, be refreshed in the instant it
  expires, and be published again; two entries are one replacement, and two starts one address that
  is no more.
- *Organizations, SQLite.* A transaction is mixed up by two puts: one begins, the other is caught in
  it, and either ends it. Two requests by two threads make up to three puts each. The invariants
  that speak of a thread alone are checked without a bound on its requests. One member with two
  memberships is what `_find_by_member` has to choose from.
- *Economy.* A bundle of one event ends before the log does; of two records one denies and one
  allows for the same receipt, or a caller writes one that looks like the policy's. One restart separates the receipts of the running
  process from older ones; one failure cuts off any one step of a request.
- *Paging.* Five ids in pages of two give full pages, a page filled from two chunks and a last one.

Deadlock is checked in every run: a server is always ready for another request. `EventLog` has no
run of its own; `Economy`, which extends it, takes all its steps.

### Findings

- `loop_terminal`, a bug: `ActivityEngine.fail` (`runtime/activity_engine.py:102`) writes FAILED
  without looking at the state it found. A start whose handler raises after another request
  canceled or completed the activity takes it out of a terminal state, on the event loop as well as
  with threads. `docs/site/architecture.md:110`: "Activity transitions are validated by a canonical
  state machine." The strongest property that holds is `TerminalChangesOnlyByHandlerFailure`.
- `stream_retry`, a divergence: `EventEngine.read` (`runtime/event_engine.py:76`) moves the cursor
  before its answer has arrived, and `HTTPJSONRPCClientTransport` sends a call again by itself, so
  the events of a lost answer are skipped. `docs/fp-python-sdk-architecture.md:365` promises
  at-least-once delivery. A consumer that resubscribes from what it has received misses nothing,
  which is what the run `stream` shows.

## 5. Fairness

- **Activities** (`FairSpec`, `FairRestartSpec`): strong fairness of `MayStep(w) /\ Proceed(w)` for
  every request. A thread is scheduled again and again; asyncio's ready queue is first-in
  first-out, so that a task that can be resumed whenever the loop is free is resumed in the end,
  although others take the loop in between, which is why weak fairness would not say it. It includes
  that operation handlers come back. Arrivals, cancellations and restarts are not fair, and between
  restarts nothing more is assumed.
- **Streams**: strong fairness of a consumer's calls and of its acks. Reading may disable acking
  again and again, hence strong. Nobody is obliged to publish, to lose an answer or to restart.
- **Client**: weak fairness of a caller's steps, strong fairness of getting the connection's lock
  (an `RLock` is not fair, but a caller that finds it free infinitely often gets it), weak fairness
  of the passing of the recovery timeout. `ClosesAgain` assumes that callers call on and that the
  server is up for good.
- **Paging**: weak fairness of the walk; the store's changes are not fair.

## 6. The proofs

All are checked by TLAPS down to the last leaf and hold for every value of the constants that
meets the `ASSUME`s of the module concerned. Each assumption is a sort or sentinel assumption (sets
of states, a key that is not a key) or the positivity of a size, with three exceptions for the sake
of cardinalities: `Directory` assumes finitely many workers, `Paging` finitely many ids and
`Economy` finitely many publishers. `GraphModule` runs over a store whose tables, keys and rows
include its own, and nothing more is known of them. (A theorem that needs a scheduler says so in an
`ASSUME` of its own.)

Every safety property of a passing run, invariant or action property or refinement, is stated by
one of these theorems.

| theorem | statement |
|---|---|
| `ActivityRuntimeProofs!TypeCorrect` | `Spec => []TypeOK`, any scheduler |
| `LateRetriesAreReplayed` | `Spec => []RetryAfterAnswerIsReplay`, any scheduler |
| `ChecksHoldOnTheCopy` | `Spec => IllegalOnlyFromStaleCopy`, any scheduler |
| `LoopImplementsLifecycle` | on the event loop, `Spec => LifecycleSpec` |
| `LoopStartsInAdmittingSession`, `LoopTerminalChanges`, `LoopLogTellsState` | on the event loop, three properties of `activity_loop` |
| `LoopAnswersMatch`, `AnswersMatchAcrossRestarts` | on the event loop, `AnswerMatchesRequest` of `Spec` and of `RestartSpec`, any number of restarts |
| `SessionProofs!SessionTypeCorrect`, `RolesAlwaysMatch` | `TypeOK`, `RolesMatchParticipants`, any scheduler |
| `OnlyStaleCopiesReopen` | `Spec => ReopenedOnlyFromStaleCopy`, any scheduler |
| `LoopClosedIsFinal`, `LoopLogTellsSession`, `LoopImplementsSession` | where operations do not overlap, `ClosedIsFinal`, `LogTellsSession` and `LifecycleSpec` |
| `DirectoryProofs!TypeCorrect`, `SignaturesAlwaysVerify` | `TypeOK`, `SignaturesVerify`, any scheduler |
| `SerialServesLatest`, `SerialKeepsFresh` | where calls do not overlap, `LatestCardServed` and `FreshEntryStays` |
| `FederationUsesDirectory`, `FederationKeepsDirectory` | `FederationSpec => Spec`, and with it the four properties above in a federation |
| `StoppedServersAreForgotten` | `FederationSpec => []StoppedServerForgotten`, any scheduler |
| `PagingProofs!TypeCorrect`, `WalkIsComplete`, `WalkIsInOrder` | `TypeOK`, `Complete`, `InOrder` |
| `EventStreamProofs!TypeCorrect` | `TypeOK`, any scheduler and recovery: what is outstanding never exceeds the window |
| `WindowIsKept` | `WindowBoundsUnacked`, any scheduler and recovery, any number of consumers |
| `LoopSkipsNothing` | on the event loop with consumers that resubscribe, `NothingSkipped`, whatever is lost or restarted |
| `LoopDeliversOnce` | on the event loop, `DeliveredOnce` |
| `ReliableClientProofs!TypeCorrect`, `CircuitNeverTripsEarly` | `TypeOK`, `NeverTripsEarly`, any number of threads |
| `OpenExactlyWhenTripped`, `ImplementsBreaker` | `OpenMeansTripped`; `BreakerSteps`, the refinement of `BreakerStates` |
| `SqliteProofs!ReadsAreCommitted`, `TransactionsEnd` | `NoDirtyReads`, `NothingLeftOpen`, any threads and tables |
| `StoresAreDurable` | `StoresSpec => DurableSpec`, the refinement of `DurableStore`, any threads and tables |
| `GraphUsesStores`, `GraphReadsCommitted`, `GraphTransactionsEnd`, `GraphIsDurable` | `GraphModule`'s `Spec => StoresSpec`, and with it the three results above for requests on organizations and memberships |
| `RemovalsAreTold`, `OrganizationsHaveEntities`, `ChangesAreAllowed` | `RemovedStaysRevoked`, `OrganizationHasEntity`, `OnlyAllowedChanges`; each speaks of a thread alone, with any number of requests, failures and crashes |
| `EconomyProofs!LogsAgree` | `EventLog`'s `Spec => []ActivityWithinSession`, on both hosts, any crashes and failures |
| `EconomyPublishes`, `LogsAgreeInEconomy` | `EconomySpec => Spec`, and with it the same beside receipts and audits |
| `BundlesHaveTheirReceipts`, `SettledOnlyWhenAllowed` | `EventsComeWithReceipts`, `AllowedBeforeSettled`, on both hosts, any crashes and failures |
| `WhichReceiptsVerify` | `ReceiptsVerify`, on both hosts, any restarts |
| `LoopKeepsOrder`, `LoopBundlesAreWhole` | on the host "alone", `SameOrder` and `SettlementsComeWithReceipts`, which fail with threads (section 7) |

The arguments:

- **Activities, types.** `TypeOK` is not inductive: that `Put` writes a state depends on the request
  being inside an engine call. `TypeInv == TypeOK /\ Control`, where `Control` says what request,
  call and copy a worker has at each of its steps, and that a copy about to be written was accepted.
- **Replay.** `ReplayInv`: every answered key has a cache entry, and a late start has not got past
  its check. No step removes an entry, and the two actions that answer leave one in place. The
  argument needs no lock, which is why the theorem holds with threads; it fails over a restart
  because the cache is lost (section 7).
- **Writes.** `OnlyPutWrites`: each change of the activity store is one worker's `Put`, on a copy
  its call accepts. That is `ChecksHoldOnTheCopy`. On the event loop `LoopInv` adds that at most one
  task is between two awaits, that its copy and its admission are fresh, and that a log behind the
  store has its event pending; with that a `Put` is an atomic `Perform` of `ActivityLifecycle`, an
  admission still holds at the write, and the log tells the state once the loop is free.
- **Answers.** On the event loop every change of the store is of a legal copy that equals what is
  stored, and no engine call but the first gives an activity its body; so a body, once there,
  stays (`BodyIsKept`). `AnswerInv` then says that answers given, entries of the guard, and
  starts that wait for their handler name an activity with their own body; the entries are needed
  for the replays, the waiting starts for the answers and entries still to come. A restart empties
  the guard and the requests and leaves the store, so the three parts hold of it (`RestartKeeps`).
- **Sessions.** `CopyInv` carries the matching of roles and participants over to every copy: what a
  thread writes is the result of its copy, not of the stored entry, so the pair is preserved
  whatever is overwritten. On the loop (`LoopInv`) copies equal the stored session, which gives the
  refinement. `EmitInv` says that an event about to be published is of a copy its operation
  admitted, or of a close, which is what types need. `TellInv` adds that on the loop what the events
  tell is true of the stored session, but for the one event under way, which is of the copy whose
  result is stored; a close that finds the session closed tells it once more.
- **Directory.** `IInv` = types, signed cards in the table and on the way to it are as signed and a
  card inside a heartbeat has no signature (`SignedInv`), and the number of entries made plus calls
  about to make one stays within the bound. `SerialInv`: where calls do not overlap, the one under
  way is at an entry that is still the table's (`UpToDate`), and the entry in the table has the
  card of the last publication; hence what `resolve` drops has expired, and what it answers is the latest.
- **Federation.** Each of its steps is a step of the directory with the server's own variables
  beside it. `LeaseInv` carries the end of a start's card from the signature to the table: a signed
  card on its way to a `put` expires when the card of its start does. A heartbeat cannot move that end, since it
  drops the signature, and a start's end is written once. It needs no scheduler.
- **Paging.** `WalkInv`: what matched all along and lies below the cursor is listed; during a call,
  what lies below the chunk's cursor is listed or in the page; and a page's items lie between the
  two cursors. `FilledFacts` says what cutting a page off at its limit keeps.

- **Streams.** `TypeInv` adds `Batches` to the types: what `read` replays is an unbroken stretch of
  the log, so that its last event is its end. On the loop (`LoopInv`) at most one reader is inside
  `read`, and its batch begins where the cursor is; hence the events the cursor passes are exactly
  those of the answer it then has under way, which is `NothingSkipped`. `OnceInv`: as long as
  nothing is lost, everything delivered lies below the cursor, and the next batch above it.
- **Streams, window.** That the events unacked are no more than the window is not inductive: the
  count in the code is a number, what it is to bound a union of sets. `WindowInv` bounds pairs of a
  consumer and an event, those held and not on their way to be acked (`HeldDue`), and those a read
  has counted and not delivered (`SentDue`), by `outstanding`, which `TypeOK` bounds by the window. An event counted
  for two consumers is two pairs, so the union is no larger; no read needs to be alone for it.
- **Client, counting.** `CountInv`: until as many calls have failed as the threshold says, what is
  counted plus the callers that are just counting, and each count read plus these callers, are no
  more than the calls that failed. A lost update only lowers the left side. Once the threshold of
  failures is reached there is nothing left to prove, which is why the invariant stops there.
- **Client, alone.** `AloneInv` (`Knows`) says what the only caller may take for granted at each of
  its steps about counter and circuit. `OpenMeansTripped` is its case for an idle caller, and each
  write of `opened` is a step of `BreakerStates` by it.
- **SQLite.** `NoDirtyReads` is not inductive, as it says nothing of a store that is held. `Overlay`
  does: the connection shows the rows of the puts in the open transaction over those of the disk;
  `Locks` keeps these puts in different stores, so that each row has one owner, and `Control` ties
  a put's fate to its place in the block. For the refinement the abstract puts that reach the disk
  at a commit are `Caught`, those in the open transaction, and `CaughtIsView` shows that writing
  them down gives what the connection shows; a statement outside any transaction is a `Keep` of
  one put. `AloneInv` gives what is promised to a thread alone: its put is never `stored` or `lost`
  before it ends.
- **Organizations and memberships.** `GraphInv` ties a request to the stores: it waits exactly while
  they have its put, and the put is the one it planned; every step is then one of the stores, or
  leaves them alone. `Accounts` is what a thread alone may say of the disk: a membership about to be
  written is revoked or nothing was told of it, what is about to be told is on the disk, and a
  request past the policy has the record that allows it there. Each part is needed by the next put
  of the same request, and a failure or crash between two puts keeps all of them, because it
  only takes away the request.
- **Logs.** `Numbered`: events are told apart by their number, and one under way to the session's
  log is not in it. `Within`: an activity's log has only events that the session's has, without
  repetitions, not the one on its way to it, and, before any crash or failure, all but those. The count
  in the property follows from the sets. `OrderInv` adds for requests one at a time that the one event under
  way has the last number, so that both logs ascend.
- **Bundles.** `BundleInv` says that the events an audit has read are `Backed` by the receipts it has
  read, once it has read these. An event tells of a receipt there is, logs and receipts only grow (`LogStays`), and
  the audit reads the receipts after the events. `WholeInv` says that on the host "alone" what an audit
  has read is all there is, as no other request is at work, and `SettledInv` that settlements are of
  receipts there are and that were decided on.
- **Settlements.** `AllowedInv` counts, for the same receipts, the settlements and the requests about to
  create one against the decisions of the policy that allow it. A request becomes one of them only by a
  decision that is recorded in the same access; a crash or a failure only takes requests away.
- **Receipts.** `IssuedInv`: a receipt was signed with the secret or with the key pair of the process
  that issued it, which is the running one or an earlier one; those of the running process are
  signed as it signs now. Every process offers its public key under the same `key_ref`, so a proof
  is checked with the secret, which never changes, or with whatever key pair runs now: `ReceiptsVerify`
  follows in both directions, the receipts that are lost and those that are not.

Only model-checked: the liveness properties (`EveryRequestAnswered`, `ArrivesUnlessLost`,
`EveryCallReturns`, `ClosesAgain`, `WalkEnds`), which are out of the prover's reach, as is
everything that speaks of `ENABLED`, absence of deadlock among it. No run checks
the type invariant of `Economy`: the proofs have types of their own (`EconomyTypes`, `SignerTypes`),
without the bounds on events and records that serve TLC alone.

## 7. What does not hold

The following stronger properties are defined in the modules and belong to no run. Each fails, and
can be seen to with the configuration named, changed as said. A document is quoted where one
promises the property.

| property | configuration | why |
|---|---|---|
| `AtMostOneRunPerKey` | `MCActivityLoop`, and with threads | a retry that arrives while the first start runs finds no entry (`app/activity_orchestrator.py:42`); README.md:14 "Fingerprinted idempotency protection for write retries" |
| `CompletionIsLogged` | `MCActivityLoop` | the token meter raises on a result that is no JSON, after the completion was stored (`app/activity_orchestrator.py:165`) |
| `LifecycleSpec`, `AnswerMatchesRequest`, `LogTellsState`, `TerminalChangesOnlyByHandlerFailure` | `MCActivityThreads` | check and put are separate (`runtime/activity_engine.py:70`); docs/site/architecture.md:110 |
| `StartsInAdmittingSession` | `MCActivityThreads`, SessionGoals {"closed"} | the session is validated once (`app/activity_orchestrator.py:35`); docs/site/architecture.md:111 "Activity start requires active session" |
| `RetryAfterAnswerIsReplay` | `MCActivityRestart` with RestartSpec | the cache is in memory whatever the stores are (`runtime/idempotency.py:29`); docs/fp-codebase-guide.md:190 "replay-safe final state" |
| `CreatedActivityIsLogged` | `MCActivityRestart` with RestartSpec | the activity is committed before its event (`app/activity_orchestrator.py:104`); docs/fp-codebase-guide.md:187 "durable activity object + `activity.submitted` event" |
| `ClosedIsFinal`, `LifecycleSpec`, `LogTellsSession` | `MCSessionLoop`, threads | stale copies (`runtime/session_engine.py:74`); README.md:10 "Strict lifecycle enforcement for sessions/activities" |
| `NeverEmpty` | `MCSessionLoop` | the last participant may leave (`runtime/session_engine.py:96`), and SQLite cannot load such a session any more (`protocol/models.py:241` "session.participants must not be empty") |
| `UnackedWithinWindow` | `MCStream` | an ack that is sent again is counted again (`runtime/event_engine.py:92`), and a restart forgets window and acks (`:28`); docs/site/architecture.md:114 "Backpressure enforces bounded unacked delivery windows." |
| `EverythingArrives` | `MCStream` | a replay is counted against the window a second time (`runtime/event_engine.py:81` does not give back what `:75` took), and the stream stops; docs/foundation-protocol-spec-draft.md:322 "Resubscribe replay MUST be idempotent for duplicate delivery." |
| `HalfOpenAdmitsOne` | `MCClient` | no trial is recorded (`transport/reliability.py:70`; the comment in the line before: "allow one call") |
| `FreshEntryStays`, `LatestCardServed` | `MCDirectorySerial`, threads | `resolve` drops, and `heartbeat` overwrites, what was published meanwhile (`federation/directory_service.py:150`, `:117`) |
| `RunningServerFetchable` | `MCDirectorySerial` | `start` makes one card and nothing renews it (`transport/http_publish.py:134`; signing keeps the expiry, `federation/card_signing.py:34`): a server that runs longer than `card_ttl_seconds` hands out a card that `fetch_server_card` refuses |
| `RemovedStaysRevoked`, `OrganizationHasEntity`, `OnlyAllowedChanges` without `Alone` | `MCGraph` | a grant writes back the copy it read before the removal (`graph/memberships.py:44`); a put that has returned is rolled back with another thread's (`stores/sqlite.py:56`) |
| that a put which has returned is stored, and one that raised is not (`DurableStore` for several threads) | `MCGraph` | one connection under several locks (`stores/sqlite.py:56`): the commit or rollback of one thread ends the transaction the other's row is in; `stores/sqlite.py:346` "SQLite-backed store bundle with durable JSON semantics." |
| `SameOrder` | `MCEconomy` | two appends without a lock (`runtime/event_engine.py:38`); docs/foundation-protocol-spec-draft.md:319 "monotonic ordering within (sessionId, activityId, producerEntityId)". Fails on the host "threads", holds for requests one at a time (`LoopKeepsOrder`) |
| `SettlementsComeWithReceipts` | `MCEconomy` | the bundle reads settlements last (`app/server.py:658`); fails on the host "threads", holds for requests one at a time (`LoopBundlesAreWhole`) |
| `ReceiptsAreTold` | `MCEconomy`, MaxCrashes 0, MaxFailures 0 | a receipt is stored before its activity is looked for (`app/server.py:543`) |
| `AllReceiptsVerify` | `MCEconomy` | `FPServer` takes a secret and no key, and a ReceiptService with Ed25519 draws a new key pair at every start under the same `key_ref` (`runtime/runtime.py:58`, `economy/receipt.py:41`), so that no receipt of an earlier process verifies; MaxCrashes 0: the codec makes floats of int quantities (`stores/codec.py:202`), so that the signed bytes of a receipt read back are others; docs/foundation-protocol-spec-draft.md:508 "Receipt/settlement/dispute round-trip integrity." |
| `ActivityWithinSession`, `EventsComeWithReceipts`, `AllowedBeforeSettled` in threads over SQLite | no host of `EventLog`; it follows from what `DurableStore` allows, where `lost` is the fate of a put that had returned | the append, receipt or decision that a thread has put and gone on from is rolled back with another thread's failing put, and what it put next is stored (`stores/sqlite.py:56`, `:315`) |

Further behaviour that the models have, that no document speaks against, and that a reader should
know of:

- Registering an entity is an upsert without a check (`Registers`): it replaces the entity of an
  organization, by one of another kind too.
- A read whose limit is above the window, with that many events to read, is refused as retryable
  and cannot ever succeed (`runtime/backpressure.py:34`).
- Any error answer of a server that is well counts as a failure for the circuit breaker
  (`transport/client_http_jsonrpc.py:210`), which is why `healthy` says "answers, and answers well".
- A call that is resent by the transport and had been executed is told ALREADY_EXISTS
  (`transport/client_http_jsonrpc.py:50`), if it is not a start with an idempotency key.
- A role change whose event could not be put, or was cut off, is never told (`app/server.py:198`).

## 8. What is not modelled

- *Activities*: the stored result and its compacted form, the patch of `activities_update`.
  Validation, budget and policy are refusals at their place.
- *Streams*: push configurations (a table nothing reads). Readers that interleave inside `read` are
  in the model ("threads") but in no run: they share a cursor that each sets from what it replayed,
  and nothing the code promises is left to them.
- *Economy*: metering. That the operator changes the secret, or reads a receipt issued elsewhere. A bundle's filter by session is left out: the
  instance has one session.
- *Directory*: ACLs, which decide before anything changes; `last_heartbeat_at`; several entities. The
  in-memory directory (`federation/network.py`) has no expiry and refuses a second publication, so
  that a server that is started again keeps its old address there.
- *SQLite*: deletions; two processes on one file, but that the file may be locked by another. The
  other modules take a put over SQLite for atomic, which is right where requests come one at a time,
  and say nothing of threads over SQLite: `activity_restart` and `session` are runs without overlap,
  `EventLog` and `Economy` have it in the choice of their `host`.
- *Relations, the search over entities*: checked puts and scans without a protocol.
- *Transports of the server, client facades, security, observability, profiles, registries,
  adapters, skills and scripts*: parsing, formatting, pure functions and configuration. What matters
  of them for the rest, who runs requests concurrently and that metering may raise, is in the models.

## 9. Plan

Done so far, most important first: activities, idempotency and restart; sessions; streams with
restarts; client transport; directory and published servers; the shared SQLite connection and the
organizations and memberships on it; publication and economy; paging; and the theorems of section 6.

Next, modelling:

1. Compose the client transport's resending with the idempotency of starts (a keyed start that is
   lost, resent and raced by its own first copy, across a restart).
2. `Economy`, `SessionRuntime` and `ActivityRuntime` over `SqliteStores`, for threads: puts that are
   rolled back after what was put because of them, an event, a settlement, a reply.
3. `EventStream` with threads.

Next, proofs:

1. What `HalfOpenAdmitsOne` and `UnackedWithinWindow`, which fail, leave in general: how many callers
   a half-open circuit admits, and by how much a window may be overrun by acks that are sent again.
2. What is left of `RemovedStaysRevoked` and `OnlyAllowedChanges` for several threads: which
   disjunct of the puts' fate each violation needs.
3. The compositions above, as they are modelled.

## 10. Running

`tlc -config X.cfg M` with the pairs in `PROJECT.json` ("runs"); `tlapm M.tla` for the eight proof
modules.
