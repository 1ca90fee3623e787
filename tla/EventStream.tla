----------------------------- MODULE EventStream -----------------------------
(***************************************************************************)
(* One stream of EventEngine with its BackpressureController, over one     *)
(* append-only log, and the consumers that open it, read it, resubscribe   *)
(* and ack over the JSON-RPC transport.  The log is SQLite's: it survives  *)
(* the server, whose streams and windows are in memory.                    *)
(*                                                                         *)
(* An event is its position in the log, so a cursor is a position too and  *)
(* 0 is the stream opened without one.  events_read is three steps: replay *)
(* the log from the cursor, count the delivery against the window, move    *)
(* the cursor.  EventEngine holds no lock over them: with Scheduler =      *)
(* "threads" readers of the stream may interleave there.                   *)
(***************************************************************************)
EXTENDS Naturals, FiniteSets

CONSTANTS
  Reader,        \* consumers that share the stream
  Window,        \* the stream's backpressure window
  Limit,         \* the limit of every events_read
  Recovery,      \* what a consumer does about a lost answer to events_read:
                 \* "retry" the call, as HTTPJSONRPCClientTransport does by
                 \* itself, or "resubscribe"
  Scheduler,     \* "threads" or "eventloop"
  MaxEvents,     \* bound on the events published
  MaxLostReads,  \* bound on the lost answers to events_read
  MaxLostAcks,   \* bound on the lost answers to events_ack
  MaxRestarts    \* bound on the restarts of the server

ASSUME SizeAssumption == Window \in Nat \ {0} /\ Limit \in Nat \ {0}
ASSUME BoundAssumption == /\ MaxEvents \in Nat /\ MaxRestarts \in Nat
                          /\ MaxLostReads \in Nat /\ MaxLostAcks \in Nat
ASSUME ModeAssumption == /\ Recovery \in {"retry", "resubscribe"}
                         /\ Scheduler \in {"threads", "eventloop"}

VARIABLES
  published,    \* length of the log
  open,         \* whether _stream_states has the stream
  cursor,       \* _StreamState.cursor_event_id
  outstanding,  \* BackpressureController._outstanding of the stream
  acked,        \* _StreamState.acked_event_ids
  pc,           \* where each consumer's current call is
  batch,        \* the events that call replayed
  held,         \* what each consumer has received and not yet acked
  received,     \* everything any consumer has received
  lostReads, lostAcks, restarts

faults == <<lostReads, lostAcks, restarts>>
vars == <<published, open, cursor, outstanding, acked, pc, batch, held, received, faults>>

Event == 1 .. MaxEvents

\* Types of the variables.
TypeOK ==
  /\ published \in 0 .. MaxEvents
  /\ open \in BOOLEAN /\ cursor \in 0 .. published
  /\ outstanding \in 0 .. Window
  /\ acked \subseteq Event
  /\ pc \in [Reader -> {"idle", "count", "advance", "answer", "resubscribe", "acking"}]
  /\ batch \in [Reader -> SUBSET Event]
  /\ held \in [Reader -> SUBSET Event]
  /\ received \subseteq 1 .. published
  /\ lostReads \in 0 .. MaxLostReads /\ lostAcks \in 0 .. MaxLostAcks
  /\ restarts \in 0 .. MaxRestarts

Init ==
  /\ published = 0 /\ open = FALSE /\ cursor = 0 /\ outstanding = 0 /\ acked = {}
  /\ pc = [r \in Reader |-> "idle"]
  /\ batch = [r \in Reader |-> {}] /\ held = [r \in Reader |-> {}]
  /\ received = {}
  /\ lostReads = 0 /\ lostAcks = 0 /\ restarts = 0

-----------------------------------------------------------------------------
\* A read that holds the event loop.
Busy == {r \in Reader : pc[r] \in {"count", "advance"}}
MayStep(r) == Scheduler = "threads" \/ Busy \subseteq {r}

Goto(r, step) == pc' = [pc EXCEPT ![r] = step]

(* Deviation: the cursor's own event is replayed again. *)
FromCursor == {e \in 1 .. published : cursor <= e /\ e < cursor + Limit}

\* EventStore.replay_from: the next events after the cursor, at most Limit.
AfterCursor == {e \in 1 .. published : cursor < e /\ e <= cursor + Limit}

Last(events) == CHOOSE e \in events : \A f \in events : f <= e

Publish ==
  /\ Scheduler = "threads" \/ Busy = {}
  /\ published < MaxEvents
  /\ published' = published + 1
  /\ UNCHANGED <<open, cursor, outstanding, acked, pc, batch, held, received, faults>>

\* From an event up to which the consumers have missed none.
Resume == \E e \in 0 .. published : 1 .. e \subseteq received /\ cursor' = e

\* configure_stream: nothing is outstanding.
Configure == outstanding' = 0

(* Deviation: a stream is opened at the end of the log. *)
OpenAtEnd(r) ==
  /\ pc[r] = "idle" /\ ~open
  /\ open' = TRUE
  /\ cursor' = published /\ Configure /\ acked' = {}
  /\ held' = [q \in Reader |-> {}]
  /\ UNCHANGED <<published, pc, batch, received, faults>>

\* events_stream, for the first time or because the server knows the last stream no
\* more.  What the consumers hold of another stream is not acked any more.
Open(r) ==
  /\ pc[r] = "idle" /\ ~open
  /\ open' = TRUE
  /\ Resume /\ Configure /\ acked' = {}
  /\ held' = [q \in Reader |-> {}]
  /\ UNCHANGED <<published, pc, batch, received, faults>>

\* A call for a stream the server does not know: NOT_FOUND.
Unknown(r) == pc[r] = "idle" /\ ~open /\ UNCHANGED vars

\* The server starts anew, over the same log; the calls under way break.
Restart ==
  /\ restarts < MaxRestarts
  /\ restarts' = restarts + 1
  /\ open' = FALSE /\ cursor' = 0 /\ outstanding' = 0 /\ acked' = {}
  /\ pc' = [r \in Reader |-> "idle"]
  /\ batch' = [r \in Reader |-> {}]
  /\ UNCHANGED <<published, held, received, lostReads, lostAcks>>

\* events_read enters and finds nothing after the cursor.
ReadNothing(r) == pc[r] = "idle" /\ open /\ AfterCursor = {} /\ UNCHANGED vars

\* events_read enters and finds something.
Replay(r) ==
  /\ pc[r] = "idle" /\ open /\ AfterCursor # {}
  /\ batch' = [batch EXCEPT ![r] = AfterCursor]
  /\ Goto(r, "count")
  /\ UNCHANGED <<published, open, cursor, outstanding, acked, held, received, faults>>

Fits(n) == outstanding + n <= Window

\* on_deliver.
Count(r) ==
  LET n == Cardinality(batch[r]) IN
  /\ pc[r] = "count" /\ Fits(n)
  /\ outstanding' = outstanding + n
  /\ Goto(r, "advance")
  /\ UNCHANGED <<published, open, cursor, acked, batch, held, received, faults>>

\* on_deliver raises BACKPRESSURE; the cursor stays, the consumer will try again.
Refuse(r) ==
  /\ pc[r] = "count" /\ ~Fits(Cardinality(batch[r]))
  /\ batch' = [batch EXCEPT ![r] = {}]
  /\ Goto(r, "idle")
  /\ UNCHANGED <<published, open, cursor, outstanding, acked, held, received, faults>>

Advance(r) ==
  /\ pc[r] = "advance"
  /\ cursor' = Last(batch[r])
  /\ Goto(r, "answer")
  /\ UNCHANGED <<published, open, outstanding, acked, batch, held, received, faults>>

-----------------------------------------------------------------------------
(* The consumers' side. *)

Receive(r) ==
  /\ pc[r] = "answer"
  /\ received' = received \cup batch[r]
  /\ held' = [held EXCEPT ![r] = @ \cup batch[r]]
  /\ batch' = [batch EXCEPT ![r] = {}]
  /\ Goto(r, "idle")
  /\ UNCHANGED <<published, open, cursor, outstanding, acked, faults>>

\* The connection breaks before the answer is there.
LoseAnswer(r) ==
  /\ pc[r] = "answer" /\ lostReads < MaxLostReads
  /\ lostReads' = lostReads + 1
  /\ batch' = [batch EXCEPT ![r] = {}]
  /\ Goto(r, IF Recovery = "resubscribe" THEN "resubscribe" ELSE "idle")
  /\ UNCHANGED <<published, open, cursor, outstanding, acked, held, received, lostAcks, restarts>>

(* Deviation: the stream keeps its own cursor. *)
ResubscribeInPlace(r) ==
  /\ pc[r] = "resubscribe"
  /\ Goto(r, "idle")
  /\ UNCHANGED <<published, open, cursor, outstanding, acked, batch, held, received, faults>>

\* events_resubscribe moves the cursor and nothing else.
Resubscribe(r) ==
  /\ pc[r] = "resubscribe"
  /\ Resume
  /\ Goto(r, "idle")
  /\ UNCHANGED <<published, open, outstanding, acked, batch, held, received, faults>>

(* Deviations: an ack clears the whole window; an ack clears one event. *)
ForgiveAll(n) == outstanding' = 0
ForgiveOne(n) == outstanding' = IF outstanding > 0 THEN outstanding - 1 ELSE 0

\* on_ack: as many as the list is long, whichever they are.
Forgive(n) == outstanding' = IF n <= outstanding THEN outstanding - n ELSE 0

\* events_ack of everything the consumer holds.
Ack(r) ==
  /\ pc[r] = "idle" /\ open /\ held[r] # {}
  /\ acked' = acked \cup held[r]
  /\ Forgive(Cardinality(held[r]))
  /\ Goto(r, "acking")
  /\ UNCHANGED <<published, open, cursor, batch, held, received, faults>>

Acked(r) ==
  /\ pc[r] = "acking"
  /\ held' = [held EXCEPT ![r] = {}]
  /\ Goto(r, "idle")
  /\ UNCHANGED <<published, open, cursor, outstanding, acked, batch, received, faults>>

\* The answer to events_ack is lost; the transport sends the call again.
AckAgain(r) ==
  /\ pc[r] = "acking" /\ lostAcks < MaxLostAcks
  /\ lostAcks' = lostAcks + 1
  /\ Forgive(Cardinality(held[r]))
  /\ UNCHANGED <<published, open, cursor, acked, pc, batch, held, received, lostReads, restarts>>

-----------------------------------------------------------------------------
Proceed(r) ==
  \/ Open(r) \/ Unknown(r) \/ ReadNothing(r) \/ Replay(r) \/ Count(r) \/ Refuse(r) \/ Advance(r)
  \/ Receive(r) \/ Resubscribe(r) \/ Acked(r)

Work(r) ==
  /\ MayStep(r)
  /\ Proceed(r) \/ Ack(r) \/ LoseAnswer(r) \/ AckAgain(r)

Next == Publish \/ Restart \/ \E r \in Reader : Work(r)

Spec == Init /\ [][Next]_vars

(***************************************************************************)
(* The consumers read on, and ack regularly: that they may ack again and   *)
(* again must be enough, since they may read as often in between.  Nothing *)
(* obliges anybody to publish, to lose an answer or to start anew.         *)
(***************************************************************************)
FairSpec == /\ Spec
            /\ \A r \in Reader : /\ SF_vars(MayStep(r) /\ Proceed(r))
                                 /\ SF_vars(MayStep(r) /\ Ack(r))

-----------------------------------------------------------------------------
(* Properties *)

InFlight(e) == \E r \in Reader : pc[r] = "answer" /\ e \in batch[r]

\* At least once: every event the cursor has passed has been received, is in an
\* answer under way, or will be asked for again by a consumer that resubscribes.
NothingSkipped ==
  open => \A e \in 1 .. cursor :
            e \in received \/ InFlight(e) \/ \E r \in Reader : pc[r] = "resubscribe"

\* Bounded unacked delivery: of the events received or under way, no more than
\* a window full is unacked.
UnackedWithinWindow ==
  Cardinality({e \in Event : (e \in received \/ InFlight(e)) /\ e \notin acked}) <= Window

\* So it is, whatever is delivered again, as long as no events_ack is sent again and
\* no server forgets its windows.
WindowBoundsUnacked == lostAcks = 0 /\ restarts = 0 => UnackedWithinWindow

\* On the event loop, with no answer lost and no restart, no event is delivered twice,
\* even to consumers that share the stream.
DeliveredOnce ==
  lostReads = 0 /\ restarts = 0 =>
    \A r \in Reader : pc[r] = "answer" =>
      /\ batch[r] \cap received = {}
      /\ \A q \in Reader \ {r} : pc[q] = "answer" => batch[q] \cap batch[r] = {}

\* Every event published is received in the end.
EverythingArrives == \A e \in Event : published >= e ~> e \in received

\* So it is, across restarts too, unless the answer to an events_read is lost.
ArrivesUnlessLost == \A e \in Event : published >= e ~> (e \in received \/ lostReads > 0)
=============================================================================
