-------------------------- MODULE EventStreamProofs --------------------------
(***************************************************************************)
(* Types of EventStream and the bound on unacked events, for every         *)
(* scheduler; and, on the event loop, that consumers who resubscribe after *)
(* a lost answer miss nothing and get nothing twice without cause.         *)
(***************************************************************************)
EXTENDS EventStream, FiniteSetTheorems, TLAPS

\* What events_read answers is an unbroken stretch of the log.
Stretch(s) == \E a, b \in 0 .. published : a < b /\ s = a + 1 .. b

Batches ==
  \A r \in Reader :
    /\ pc[r] \in {"count", "advance", "answer"} => Stretch(batch[r])
    /\ pc[r] # "idle" => open
    /\ pc[r] \in {"idle", "resubscribe", "acking"} => batch[r] = {}

TypeInv == TypeOK /\ Batches

-----------------------------------------------------------------------------
LEMMA LastOfStretch ==
  ASSUME NEW a \in Nat, NEW b \in Nat, a < b
  PROVE  Last(a + 1 .. b) = b
  <1>1. b \in a + 1 .. b /\ \A f \in a + 1 .. b : f <= b
    OBVIOUS
  <1>2. \A e \in a + 1 .. b : (\A f \in a + 1 .. b : f <= e) => e = b
    OBVIOUS
  <1>3. QED
    BY <1>1, <1>2 DEF Last

\* What replay_from finds begins after the cursor.
LEMMA AfterCursorIsStretch ==
  ASSUME published \in Nat, cursor \in 0 .. published, AfterCursor # {}
  PROVE  \E b \in 0 .. published : cursor < b /\ AfterCursor = cursor + 1 .. b
  <1> DEFINE b == IF published <= cursor + Limit THEN published ELSE cursor + Limit
  <1>1. Limit \in Nat /\ Limit > 0
    BY SizeAssumption
  <1>2. AfterCursor = cursor + 1 .. b
    BY <1>1 DEF AfterCursor
  <1>3. cursor < b /\ b \in 0 .. published
    BY <1>1, <1>2
  <1>4. QED
    BY <1>2, <1>3

LEMMA CountIsNatural ==
  ASSUME NEW s \in SUBSET Event
  PROVE  Cardinality(s) \in Nat
  <1>1. IsFiniteSet(Event)
    BY BoundAssumption, FS_Interval DEF Event
  <1>2. QED
    BY <1>1, FS_Subset, FS_CardinalityType

LEMMA TypeInit == Init => TypeInv
  <1> SUFFICES ASSUME Init PROVE TypeInv
    OBVIOUS
  <1>1. /\ Window \in Nat /\ MaxLostReads \in Nat /\ MaxLostAcks \in Nat
        /\ MaxRestarts \in Nat /\ MaxEvents \in Nat
    BY SizeAssumption, BoundAssumption
  <1>2. TypeOK
    <2>1. /\ 0 \in 0 .. MaxEvents /\ 0 \in 0 .. 0 /\ 0 \in 0 .. Window
          /\ 0 \in 0 .. MaxLostReads /\ 0 \in 0 .. MaxLostAcks /\ 0 \in 0 .. MaxRestarts
      BY <1>1
    <2>2. QED
      BY <2>1 DEF Init, TypeOK
  <1>3. Batches
    BY DEF Init, Batches
  <1>4. QED
    BY <1>2, <1>3 DEF TypeInv

\* Every step of one consumer's call preserves the types and the shape of batches.
LEMMA WorkTypes ==
  ASSUME TypeInv, NEW r \in Reader, Work(r)
  PROVE  TypeInv'
  <1> USE DEF TypeInv, TypeOK, Goto
  <1>1. /\ Window \in Nat /\ MaxLostReads \in Nat /\ MaxLostAcks \in Nat /\ MaxRestarts \in Nat
        /\ MaxEvents \in Nat /\ published \in Nat /\ published <= MaxEvents
    BY SizeAssumption, BoundAssumption
  <1>2. Cardinality(batch[r]) \in Nat /\ Cardinality(held[r]) \in Nat
    BY CountIsNatural
  <1>3. CASE Open(r)
    BY <1>1, <1>3 DEF Open, Resume, Configure, faults, Batches, Stretch
  <1>4. CASE Unknown(r) \/ ReadNothing(r)
    BY <1>4 DEF Unknown, ReadNothing, vars, faults, Batches, Stretch
  <1>5. CASE Replay(r)
    <2>1. PICK b \in 0 .. published : cursor < b /\ AfterCursor = cursor + 1 .. b
      BY <1>1, <1>5, AfterCursorIsStretch DEF Replay
    <2>2. AfterCursor \subseteq Event /\ Stretch(AfterCursor)
      BY <1>1, <2>1 DEF Event, Stretch
    <2>3. TypeOK'
      BY <1>5, <2>2 DEF Replay, faults
    <2>4. Batches'
      BY <1>5, <2>2 DEF Replay, faults, Batches, Stretch
    <2>5. QED
      BY <2>3, <2>4
  <1>6. CASE Count(r)
    <2>1. outstanding' \in 0 .. Window
      BY <1>1, <1>2, <1>6 DEF Count, Fits
    <2>2. QED
      BY <1>6, <2>1 DEF Count, faults, Batches, Stretch
  <1>7. CASE Refuse(r)
    BY <1>7 DEF Refuse, faults, Batches, Stretch
  <1>8. CASE Advance(r)
    <2>1. PICK a, b \in 0 .. published : a < b /\ batch[r] = a + 1 .. b
      BY <1>8 DEF Advance, Batches, Stretch
    <2>2. cursor' = b
      BY <1>1, <1>8, <2>1, LastOfStretch DEF Advance
    <2>3. QED
      BY <1>8, <2>2 DEF Advance, faults, Batches, Stretch
  <1>9. CASE Receive(r)
    <2>1. batch[r] \subseteq 1 .. published
      BY <1>1, <1>9 DEF Receive, Batches, Stretch
    <2>2. QED
      BY <1>9, <2>1 DEF Receive, faults, Batches, Stretch
  <1>10. CASE LoseAnswer(r)
    BY <1>1, <1>10 DEF LoseAnswer, Batches, Stretch
  <1>11. CASE Resubscribe(r)
    BY <1>1, <1>11 DEF Resubscribe, Resume, faults, Batches, Stretch
  <1>12. CASE Acked(r)
    BY <1>12 DEF Acked, faults, Batches, Stretch
  <1>13. CASE Ack(r) \/ AckAgain(r)
    <2>1. outstanding' \in 0 .. Window
      BY <1>1, <1>2, <1>13 DEF Ack, AckAgain, Forgive
    <2>2. lostAcks' \in 0 .. MaxLostAcks /\ acked' \subseteq Event
      BY <1>1, <1>13 DEF Ack, AckAgain, faults
    <2>3. TypeOK'
      BY <1>13, <2>1, <2>2 DEF Ack, AckAgain, faults
    <2>4. Batches'
      BY <1>13 DEF Ack, AckAgain, Batches, Stretch
    <2>5. QED
      BY <2>3, <2>4
  <1>14. QED
    BY <1>3, <1>4, <1>5, <1>6, <1>7, <1>8, <1>9, <1>10, <1>11, <1>12, <1>13 DEF Work, Proceed

LEMMA TypeNext == TypeInv /\ [Next]_vars => TypeInv'
  <1> SUFFICES ASSUME TypeInv, [Next]_vars PROVE TypeInv'
    OBVIOUS
  <1>1. MaxEvents \in Nat /\ published \in Nat /\ Window \in Nat
    BY SizeAssumption, BoundAssumption DEF TypeInv, TypeOK
  <1>2. CASE Publish
    <2>1. TypeOK'
      BY <1>1, <1>2 DEF Publish, faults, TypeInv, TypeOK
    <2>2. Batches'
      <3>1. \A a \in 0 .. published : a \in 0 .. published'
        BY <1>1, <1>2 DEF Publish
      <3>2. QED
        BY <1>2, <3>1 DEF Publish, TypeInv, Batches, Stretch
    <2>3. QED
      BY <2>1, <2>2 DEF TypeInv
  <1>3. CASE Restart
    <2>1. restarts' \in 0 .. MaxRestarts
      BY <1>3, BoundAssumption DEF Restart, TypeInv, TypeOK
    <2>2. TypeOK'
      <3>1. 0 \in 0 .. published /\ 0 \in 0 .. Window
        BY <1>1
      <3>2. /\ cursor' \in 0 .. published' /\ outstanding' \in 0 .. Window
            /\ open' \in BOOLEAN /\ acked' \subseteq Event
            /\ published' = published /\ held' = held /\ received' = received
            /\ lostReads' = lostReads /\ lostAcks' = lostAcks
        BY <1>3, <3>1 DEF Restart
      <3>3. batch' \in [Reader -> SUBSET Event]
        BY <1>3 DEF Restart
      <3>4. QED
        BY <1>3, <2>1, <3>2, <3>3 DEF Restart, TypeInv, TypeOK
    <2>3. \A r \in Reader : pc'[r] = "idle" /\ batch'[r] = {}
      BY <1>3 DEF Restart
    <2>4. Batches'
      BY <2>3 DEF Batches
    <2>5. QED
      BY <2>2, <2>4 DEF TypeInv
  <1>4. CASE UNCHANGED vars
    BY <1>4 DEF vars, faults, TypeInv, TypeOK, Batches, Stretch
  <1>5. QED
    BY <1>2, <1>3, <1>4, WorkTypes DEF Next

\* Types of every variable; the cursor stays within the log and the window is kept,
\* whatever the threads do.
THEOREM TypeCorrect == Spec => []TypeOK
  <1>1. TypeInv => TypeOK
    BY DEF TypeInv
  <1>2. QED
    BY <1>1, TypeInit, TypeNext, PTL DEF Spec

-----------------------------------------------------------------------------
\* On the event loop one read at a time is between its replay and the move of the
\* cursor, and its batch begins where the cursor still is.
LoopInv ==
  /\ \A r, q \in Busy : r = q
  /\ \A r \in Busy : \E b \in 0 .. published : cursor < b /\ batch[r] = cursor + 1 .. b

\* What Next does with an event loop.
LoopStep ==
  \/ Publish /\ Busy = {}
  \/ Restart
  \/ \E r \in Reader : Busy \subseteq {r} /\ (Proceed(r) \/ Ack(r) \/ LoseAnswer(r) \/ AckAgain(r))
  \/ UNCHANGED vars

LEMMA LoopSteps ==
  ASSUME Scheduler = "eventloop", [Next]_vars
  PROVE  LoopStep
  BY DEF Next, Work, MayStep, Publish, LoopStep

LEMMA LoopInit == Init => LoopInv
  BY DEF Init, LoopInv, Busy

LEMMA LoopNext ==
  ASSUME TypeInv, LoopInv, LoopStep
  PROVE  LoopInv'
  <1> USE DEF TypeInv, TypeOK, Goto
  <1>1. CASE Publish /\ Busy = {}
    BY <1>1 DEF Publish, LoopInv, Busy
  <1>2. CASE Restart
    <2>1. Busy' = {}
      BY <1>2 DEF Restart, Busy
    <2>2. QED
      BY <2>1 DEF LoopInv
  <1>3. ASSUME NEW r \in Reader, Busy \subseteq {r},
               Proceed(r) \/ Ack(r) \/ LoseAnswer(r) \/ AckAgain(r)
        PROVE  LoopInv'
    <2>1. CASE Replay(r)
      <3>1. PICK b \in 0 .. published : cursor < b /\ AfterCursor = cursor + 1 .. b
        BY <2>1, AfterCursorIsStretch DEF Replay
      <3>2. /\ Busy' = {r} /\ batch'[r] = cursor + 1 .. b
            /\ cursor' = cursor /\ published' = published
        BY <1>3, <2>1, <3>1 DEF Replay, Busy
      <3>3. QED
        BY <3>1, <3>2 DEF LoopInv
    <2>2. CASE Count(r)
      <3>1. /\ Busy' = {r} /\ r \in Busy /\ batch' = batch
            /\ cursor' = cursor /\ published' = published
        BY <1>3, <2>2 DEF Count, Busy, faults
      <3>2. QED
        BY <3>1 DEF LoopInv
    <2>3. CASE Unknown(r) \/ ReadNothing(r)
      BY <2>3 DEF Unknown, ReadNothing, vars, faults, LoopInv, Busy
    <2>4. CASE \/ Open(r) \/ Refuse(r) \/ Advance(r) \/ Receive(r) \/ Resubscribe(r)
               \/ Acked(r) \/ Ack(r) \/ LoseAnswer(r) \/ AckAgain(r)
      <3>1. Busy' = {}
        BY <1>3, <2>4 DEF Open, Refuse, Advance, Receive, Resubscribe, Acked, Ack, LoseAnswer,
                          AckAgain, Busy
      <3>2. QED
        BY <3>1 DEF LoopInv
    <2>5. QED
      BY <1>3, <2>1, <2>2, <2>3, <2>4 DEF Proceed
  <1>4. CASE UNCHANGED vars
    BY <1>4 DEF vars, faults, LoopInv, Busy
  <1>5. QED
    BY <1>1, <1>2, <1>3, <1>4 DEF LoopStep

LEMMA LoopInvariance ==
  ASSUME Scheduler = "eventloop"
  PROVE  Spec => [](TypeInv /\ LoopInv)
  <1>1. Init => TypeInv /\ LoopInv
    BY TypeInit, LoopInit
  <1>2. TypeInv /\ LoopInv /\ [Next]_vars => TypeInv' /\ LoopInv'
    BY TypeNext, LoopNext, LoopSteps
  <1>3. QED
    BY <1>1, <1>2, PTL DEF Spec

-----------------------------------------------------------------------------
LEMMA SkipNext ==
  ASSUME TypeInv, LoopInv, LoopStep, Recovery = "resubscribe", NothingSkipped
  PROVE  NothingSkipped'
  <1> USE DEF TypeInv, TypeOK, Goto
  <1>1. CASE Publish /\ Busy = {}
    BY <1>1 DEF Publish, NothingSkipped, InFlight
  <1>2. CASE Restart
    BY <1>2 DEF Restart, NothingSkipped
  <1>3. ASSUME NEW r \in Reader, Busy \subseteq {r},
               Proceed(r) \/ Ack(r) \/ LoseAnswer(r) \/ AckAgain(r)
        PROVE  NothingSkipped'
    <2>1. CASE Open(r) \/ Resubscribe(r)
      <3>1. PICK e \in 0 .. published : 1 .. e \subseteq received /\ cursor' = e
        BY <2>1 DEF Open, Resubscribe, Resume
      <3>2. received' = received
        BY <2>1 DEF Open, Resubscribe
      <3>3. QED
        BY <3>1, <3>2 DEF NothingSkipped
    <2>2. CASE Unknown(r) \/ ReadNothing(r)
      BY <2>2 DEF Unknown, ReadNothing, vars, NothingSkipped, InFlight
    <2>3. CASE \/ Replay(r) \/ Count(r) \/ Refuse(r) \/ Acked(r) \/ Ack(r) \/ AckAgain(r)
      <3>1. /\ pc[r] \notin {"answer", "resubscribe"}
            /\ open' = open /\ cursor' = cursor /\ received' = received
        BY <2>3 DEF Replay, Count, Refuse, Acked, Ack, AckAgain
      <3>2. \A q \in Reader \ {r} : pc'[q] = pc[q] /\ batch'[q] = batch[q]
        BY <2>3 DEF Replay, Count, Refuse, Acked, Ack, AckAgain
      <3>3. QED
        BY <3>1, <3>2 DEF NothingSkipped, InFlight
    <2>4. CASE Advance(r)
      <3>1. PICK b \in 0 .. published : cursor < b /\ batch[r] = cursor + 1 .. b
        BY <2>4 DEF Advance, LoopInv, Busy
      <3>2. cursor \in Nat /\ b \in Nat
        BY <3>1, BoundAssumption
      <3>3. /\ cursor' = b /\ pc'[r] = "answer" /\ batch'[r] = cursor + 1 .. b
            /\ open' = open /\ received' = received /\ open
        BY <2>4, <3>1, <3>2, LastOfStretch DEF Advance, Batches
      <3>4. \A q \in Reader \ {r} : pc'[q] = pc[q] /\ batch'[q] = batch[q]
        BY <2>4 DEF Advance
      <3>5. ASSUME NEW e \in 1 .. b, e <= cursor
            PROVE  \/ e \in received' \/ InFlight(e)'
                   \/ \E q \in Reader : pc'[q] = "resubscribe"
        <4>1. \/ e \in received \/ InFlight(e)
              \/ \E q \in Reader : pc[q] = "resubscribe"
          BY <3>2, <3>3, <3>5 DEF NothingSkipped
        <4>2. pc[r] = "advance"
          BY <2>4 DEF Advance
        <4>3. QED
          BY <3>3, <3>4, <4>1, <4>2 DEF InFlight
      <3>6. ASSUME NEW e \in 1 .. b, ~(e <= cursor)
            PROVE  InFlight(e)'
        <4>1. e \in batch'[r]
          BY <3>2, <3>3, <3>6
        <4>2. QED
          BY <3>3, <4>1 DEF InFlight
      <3>7. QED
        BY <3>3, <3>5, <3>6 DEF NothingSkipped
    <2>5. CASE Receive(r)
      <3>1. /\ received' = received \cup batch[r] /\ pc[r] = "answer"
            /\ open' = open /\ cursor' = cursor
        BY <2>5 DEF Receive
      <3>2. \A q \in Reader \ {r} : pc'[q] = pc[q] /\ batch'[q] = batch[q]
        BY <2>5 DEF Receive
      <3>3. QED
        BY <3>1, <3>2 DEF NothingSkipped, InFlight
    <2>6. CASE LoseAnswer(r)
      <3>1. pc'[r] = "resubscribe"
        BY <2>6 DEF LoseAnswer
      <3>2. QED
        BY <3>1 DEF NothingSkipped
    <2>7. QED
      BY <1>3, <2>1, <2>2, <2>3, <2>4, <2>5, <2>6 DEF Proceed
  <1>4. CASE UNCHANGED vars
    BY <1>4 DEF vars, NothingSkipped, InFlight
  <1>5. QED
    BY <1>1, <1>2, <1>3, <1>4 DEF LoopStep

\* On the event loop, for any number of consumers and any window, limit, losses and
\* restarts, consumers who resubscribe after a lost answer miss no event.
THEOREM LoopSkipsNothing ==
  ASSUME Scheduler = "eventloop", Recovery = "resubscribe"
  PROVE  Spec => []NothingSkipped
  <1>1. Init => NothingSkipped
    BY DEF Init, NothingSkipped
  <1>2. NothingSkipped /\ TypeInv /\ LoopInv /\ [Next]_vars => NothingSkipped'
    BY SkipNext, LoopSteps
  <1>3. QED
    BY <1>1, <1>2, LoopInvariance, PTL DEF Spec

-----------------------------------------------------------------------------
\* Without losses and restarts the cursor is behind everything that was delivered.
OnceInv ==
  lostReads = 0 /\ restarts = 0 =>
    /\ received \subseteq 1 .. cursor
    /\ ~open => received = {}
    /\ \A r \in Reader : pc[r] # "resubscribe"
    /\ \A r \in Reader : pc[r] = "answer" => batch[r] \subseteq 1 .. cursor

LEMMA OnceNext ==
  ASSUME TypeInv, LoopInv, LoopStep, OnceInv, DeliveredOnce
  PROVE  OnceInv' /\ DeliveredOnce'
  <1> USE DEF TypeInv, TypeOK, Goto
  <1> SUFFICES ASSUME lostReads' = 0, restarts' = 0
               PROVE  OnceInv' /\ DeliveredOnce'
    BY DEF OnceInv, DeliveredOnce
  <1>1. /\ published \in Nat /\ cursor \in Nat /\ lostReads \in Nat /\ restarts \in Nat
    BY BoundAssumption
  <1>2. CASE Publish /\ Busy = {}
    BY <1>2 DEF Publish, faults, OnceInv, DeliveredOnce
  <1>3. CASE Restart
    BY <1>1, <1>3 DEF Restart
  <1>4. ASSUME NEW r \in Reader, Busy \subseteq {r},
               Proceed(r) \/ Ack(r) \/ LoseAnswer(r) \/ AckAgain(r)
        PROVE  OnceInv' /\ DeliveredOnce'
    <2>1. CASE Open(r)
      <3>1. received = {} /\ \A q \in Reader : pc[q] = "idle"
        BY <2>1 DEF Open, faults, OnceInv, Batches
      <3>2. received' = {} /\ pc' = pc
        BY <2>1, <3>1 DEF Open
      <3>3. QED
        BY <3>1, <3>2 DEF OnceInv, DeliveredOnce
    <2>2. CASE Unknown(r) \/ ReadNothing(r)
      BY <2>2 DEF Unknown, ReadNothing, vars, faults, OnceInv, DeliveredOnce
    <2>3. CASE \/ Replay(r) \/ Count(r) \/ Refuse(r) \/ Acked(r) \/ Ack(r) \/ AckAgain(r)
      <3>1. /\ pc'[r] \notin {"answer", "resubscribe"}
            /\ open' = open /\ cursor' = cursor /\ received' = received
            /\ lostReads = 0 /\ restarts = 0
        BY <2>3 DEF Replay, Count, Refuse, Acked, Ack, AckAgain, faults
      <3>2. \A q \in Reader \ {r} : pc'[q] = pc[q] /\ batch'[q] = batch[q]
        BY <2>3 DEF Replay, Count, Refuse, Acked, Ack, AckAgain
      <3>3. QED
        BY <3>1, <3>2 DEF OnceInv, DeliveredOnce
    <2>4. CASE Advance(r)
      <3>1. PICK b \in 0 .. published : cursor < b /\ batch[r] = cursor + 1 .. b
        BY <2>4 DEF Advance, LoopInv, Busy
      <3>2. b \in Nat
        BY <1>1, <3>1
      <3>3. /\ cursor' = b /\ pc'[r] = "answer" /\ batch'[r] = cursor + 1 .. b
            /\ open' = open /\ received' = received /\ open
            /\ lostReads = 0 /\ restarts = 0
        BY <1>1, <2>4, <3>1, <3>2, LastOfStretch DEF Advance, Batches, faults
      <3>4. \A q \in Reader \ {r} : pc'[q] = pc[q] /\ batch'[q] = batch[q]
        BY <2>4 DEF Advance
      <3>5. 1 .. cursor \subseteq 1 .. b /\ batch'[r] \subseteq 1 .. b /\ batch'[r] \cap 1 .. cursor = {}
        BY <1>1, <3>1, <3>2, <3>3
      <3>6. OnceInv'
        BY <3>3, <3>4, <3>5 DEF OnceInv
      <3>7. batch'[r] \cap received' = {}
        BY <3>3, <3>5 DEF OnceInv
      <3>8. \A q \in Reader \ {r} : pc'[q] = "answer" => batch'[q] \cap batch'[r] = {}
        BY <3>3, <3>4, <3>5 DEF OnceInv
      <3>9. QED
        BY <3>3, <3>4, <3>6, <3>7, <3>8 DEF DeliveredOnce
    <2>5. CASE Receive(r)
      <3>1. /\ received' = received \cup batch[r] /\ pc[r] = "answer" /\ pc'[r] = "idle"
            /\ open' = open /\ cursor' = cursor /\ lostReads = 0 /\ restarts = 0 /\ open
        BY <2>5 DEF Receive, faults, Batches
      <3>2. \A q \in Reader \ {r} : pc'[q] = pc[q] /\ batch'[q] = batch[q]
        BY <2>5 DEF Receive
      <3>3. QED
        BY <3>1, <3>2 DEF OnceInv, DeliveredOnce
    <2>6. CASE LoseAnswer(r)
      BY <1>1, <2>6 DEF LoseAnswer
    <2>7. CASE Resubscribe(r)
      BY <2>7 DEF Resubscribe, faults, OnceInv
    <2>8. QED
      BY <1>4, <2>1, <2>2, <2>3, <2>4, <2>5, <2>6, <2>7 DEF Proceed
  <1>5. CASE UNCHANGED vars
    BY <1>5 DEF vars, faults, OnceInv, DeliveredOnce
  <1>6. QED
    BY <1>2, <1>3, <1>4, <1>5 DEF LoopStep

\* On the event loop, for any number of consumers, nothing is delivered twice as long
\* as no answer is lost and the server goes on.
THEOREM LoopDeliversOnce ==
  ASSUME Scheduler = "eventloop"
  PROVE  Spec => []DeliveredOnce
  <1>1. Init => OnceInv /\ DeliveredOnce
    BY DEF Init, OnceInv, DeliveredOnce
  <1>2. OnceInv /\ DeliveredOnce /\ TypeInv /\ LoopInv /\ [Next]_vars => OnceInv' /\ DeliveredOnce'
    BY OnceNext, LoopSteps
  <1>3. QED
    BY <1>1, <1>2, LoopInvariance, PTL DEF Spec

-----------------------------------------------------------------------------
(***************************************************************************)
(* What is outstanding covers every event that a consumer holds and has    *)
(* not acked, and every one that a counted read is about to deliver, once  *)
(* for each consumer.                                                      *)
(***************************************************************************)
Pairs(r, s) == {r} \X s

HeldDue == {x \in Reader \X Event : pc[x[1]] # "acking" /\ x[2] \in held[x[1]]}
SentDue == {x \in Reader \X Event : pc[x[1]] \in {"advance", "answer"} /\ x[2] \in batch[x[1]]}

WindowInv ==
  lostAcks = 0 /\ restarts = 0 =>
    /\ IsFiniteSet(HeldDue) /\ IsFiniteSet(SentDue)
    /\ Cardinality(HeldDue) + Cardinality(SentDue) <= outstanding
    /\ ~open => received = {}
    /\ \A e \in received \ acked : \E r \in Reader : pc[r] # "acking" /\ e \in held[r]

LEMMA PairsCount ==
  ASSUME NEW r, NEW s, IsFiniteSet(s)
  PROVE  IsFiniteSet(Pairs(r, s)) /\ Cardinality(Pairs(r, s)) = Cardinality(s)
  <1> DEFINE f == [e \in s |-> <<r, e>>]
  <1>1. f \in Surjection(s, Pairs(r, s)) /\ f \in Injection(s, Pairs(r, s))
    <2>1. f \in [s -> Pairs(r, s)] /\ \A x \in Pairs(r, s) : \E e \in s : f[e] = x
      BY DEF Pairs
    <2>2. \A d, e \in s : f[d] = f[e] => d = e
      OBVIOUS
    <2>3. QED
      BY <2>1, <2>2 DEF Surjection, Injection, IsInjective
  <1>2. QED
    BY <1>1, FS_Surjection

\* Sets of pairs are equal that have the same pairs.
LEMMA PairsAre ==
  ASSUME NEW s \in SUBSET (Reader \X Event), NEW t \in SUBSET (Reader \X Event),
         \A q \in Reader, e \in Event : <<q, e>> \in s <=> <<q, e>> \in t
  PROVE  s = t
  OBVIOUS

\* Moving a finite set of pairs adds or takes away as many as it has.
LEMMA Moved ==
  ASSUME NEW s, NEW t, IsFiniteSet(s), IsFiniteSet(t)
  PROVE  /\ IsFiniteSet(s \cup t) /\ Cardinality(s \cup t) <= Cardinality(s) + Cardinality(t)
         /\ IsFiniteSet(s \ t)
         /\ t \subseteq s => Cardinality(s \ t) = Cardinality(s) - Cardinality(t)
         /\ Cardinality(s) \in Nat /\ Cardinality(t) \in Nat
  <1>1. /\ Cardinality(s) \in Nat /\ Cardinality(t) \in Nat
        /\ IsFiniteSet(s \cap t) /\ Cardinality(s \cap t) \in Nat
    BY FS_CardinalityType, FS_Intersection
  <1>2. t \subseteq s => s \cap t = t
    OBVIOUS
  <1>3. /\ IsFiniteSet(s \cup t)
        /\ Cardinality(s \cup t) = Cardinality(s) + Cardinality(t) - Cardinality(s \cap t)
    BY FS_Union
  <1>4. /\ IsFiniteSet(s \ t)
        /\ Cardinality(s \ t) = Cardinality(s) - Cardinality(s \cap t)
    BY FS_Difference
  <1>5. QED
    BY <1>1, <1>2, <1>3, <1>4

LEMMA WindowInit == Init => WindowInv
  <1> SUFFICES ASSUME Init PROVE WindowInv
    OBVIOUS
  <1>1. HeldDue = {} /\ SentDue = {}
    BY DEF Init, HeldDue, SentDue
  <1>2. QED
    BY <1>1, FS_EmptySet DEF Init, WindowInv

LEMMA WindowWork ==
  ASSUME TypeInv, TypeInv', WindowInv, NEW r \in Reader, Work(r), lostAcks' = 0, restarts' = 0
  PROVE  WindowInv'
  <1> USE DEF TypeInv, Goto
  <1>0. /\ pc \in [Reader -> {"idle", "count", "advance", "answer", "resubscribe", "acking"}]
        /\ batch \in [Reader -> SUBSET Event] /\ held \in [Reader -> SUBSET Event]
        /\ outstanding \in Nat /\ Window \in Nat /\ lostAcks \in Nat /\ restarts \in Nat
        /\ IsFiniteSet(batch[r]) /\ IsFiniteSet(held[r])
    <2>1. IsFiniteSet(Event)
      BY BoundAssumption, FS_Interval DEF Event
    <2>2. QED
      BY <2>1, SizeAssumption, BoundAssumption, FS_Subset DEF TypeOK
  <1>1. lostAcks = 0 /\ restarts = 0 /\ ~AckAgain(r)
    BY <1>0 DEF Work, Proceed, Open, Unknown, ReadNothing, Replay, Count, Refuse, Advance, Receive,
                Resubscribe, Acked, Ack, LoseAnswer, AckAgain, faults, vars
  <1>2. /\ IsFiniteSet(HeldDue) /\ IsFiniteSet(SentDue)
        /\ Cardinality(HeldDue) \in Nat /\ Cardinality(SentDue) \in Nat
        /\ Cardinality(HeldDue) + Cardinality(SentDue) <= outstanding
        /\ ~open => received = {}
        /\ \A e \in received \ acked : \E q \in Reader : pc[q] # "acking" /\ e \in held[q]
    BY <1>1, FS_CardinalityType DEF WindowInv
  <1>3. CASE Unknown(r) \/ ReadNothing(r)
    <2>1. UNCHANGED <<pc, held, batch, outstanding, open, received, acked>>
      BY <1>3 DEF Unknown, ReadNothing, vars
    <2>2. HeldDue' = HeldDue /\ SentDue' = SentDue
      BY <2>1 DEF HeldDue, SentDue
    <2>3. QED
      BY <1>2, <2>1, <2>2 DEF WindowInv
  <1>4. CASE Open(r)
    <2>1. \A q \in Reader : pc[q] = "idle" /\ pc'[q] = "idle" /\ held'[q] = {}
      BY <1>4 DEF Open, Batches
    <2>2. HeldDue' = {} /\ SentDue' = {}
      BY <2>1 DEF HeldDue, SentDue
    <2>3. outstanding' = 0 /\ received' = {} /\ open'
      BY <1>2, <1>4 DEF Open, Configure
    <2>4. QED
      BY <2>2, <2>3, FS_EmptySet DEF WindowInv
  <1>5. CASE Replay(r) \/ Refuse(r) \/ Resubscribe(r) \/ Advance(r) \/ Acked(r)
    <2>1. /\ UNCHANGED <<outstanding, open, received, acked>>
          /\ \A q \in Reader \ {r} : pc'[q] = pc[q] /\ batch'[q] = batch[q] /\ held'[q] = held[q]
      BY <1>0, <1>5 DEF Replay, Refuse, Resubscribe, Advance, Acked
    <2>2. \/ pc[r] = "acking" /\ pc'[r] = "idle" /\ held'[r] = {}
          \/ pc[r] # "acking" /\ pc'[r] # "acking" /\ held'[r] = held[r]
      BY <1>0, <1>5 DEF Replay, Refuse, Resubscribe, Advance, Acked
    <2>3. \/ pc[r] \in {"advance", "answer"} /\ pc'[r] \in {"advance", "answer"} /\ batch'[r] = batch[r]
          \/ pc[r] \notin {"advance", "answer"} /\ pc'[r] \notin {"advance", "answer"}
      BY <1>0, <1>5 DEF Replay, Refuse, Resubscribe, Advance, Acked
    <2>4. HeldDue' = HeldDue
      <3>1. \A q \in Reader, e \in Event : <<q, e>> \in HeldDue' <=> <<q, e>> \in HeldDue
        BY <2>1, <2>2 DEF HeldDue
      <3>2. QED
        BY <3>1, PairsAre DEF HeldDue
    <2>5. SentDue' = SentDue
      <3>1. \A q \in Reader, e \in Event : <<q, e>> \in SentDue' <=> <<q, e>> \in SentDue
        BY <2>1, <2>3 DEF SentDue
      <3>2. QED
        BY <3>1, PairsAre DEF SentDue
    <2>6. \A e \in received' \ acked' : \E q \in Reader : pc'[q] # "acking" /\ e \in held'[q]
      BY <1>2, <2>1, <2>2
    <2>7. QED
      BY <1>2, <2>1, <2>4, <2>5, <2>6 DEF WindowInv
  <1>6. CASE Count(r)
    <2> DEFINE p == Pairs(r, batch[r])
    <2>1. IsFiniteSet(p) /\ Cardinality(p) = Cardinality(batch[r])
      BY <1>0, PairsCount
    <2>2. HeldDue' = HeldDue
      BY <1>0, <1>6 DEF Count, HeldDue
    <2>3. SentDue' = SentDue \cup p
      <3>1. \A q \in Reader, e \in Event : <<q, e>> \in SentDue' <=> <<q, e>> \in SentDue \cup p
        BY <1>0, <1>6 DEF Count, SentDue, Pairs
      <3>2. SentDue' \subseteq Reader \X Event /\ SentDue \cup p \subseteq Reader \X Event
        BY <1>0 DEF SentDue, Pairs
      <3>3. QED
        BY <3>1, <3>2, PairsAre
    <2>4. /\ outstanding' = outstanding + Cardinality(batch[r])
          /\ UNCHANGED <<open, received, acked, held>>
          /\ \A q \in Reader : pc[q] # "acking" => pc'[q] # "acking"
      BY <1>0, <1>6 DEF Count
    <2>5. Cardinality(HeldDue') + Cardinality(SentDue') <= outstanding' /\ IsFiniteSet(SentDue')
      <3> HIDE DEF p
      <3>1. /\ IsFiniteSet(SentDue \cup p) /\ Cardinality(p) \in Nat
            /\ Cardinality(SentDue \cup p) <= Cardinality(SentDue) + Cardinality(p)
        BY <1>2, <2>1, Moved
      <3>2. Cardinality(SentDue \cup p) \in Nat
        BY <3>1, FS_CardinalityType
      <3>3. QED
        BY <1>0, <1>2, <2>1, <2>2, <2>3, <2>4, <3>1, <3>2
    <2>6. QED
      BY <1>2, <2>2, <2>4, <2>5 DEF WindowInv
  <1>7. CASE Receive(r)
    <2> DEFINE p == Pairs(r, batch[r])
    <2>1. IsFiniteSet(p) /\ p \subseteq SentDue
      BY <1>0, <1>7, PairsCount DEF Receive, Pairs, SentDue
    <2>2. HeldDue' = HeldDue \cup p
      <3>1. \A q \in Reader, e \in Event : <<q, e>> \in HeldDue' <=> <<q, e>> \in HeldDue \cup p
        BY <1>0, <1>7 DEF Receive, HeldDue, Pairs
      <3>2. HeldDue' \subseteq Reader \X Event /\ HeldDue \cup p \subseteq Reader \X Event
        BY <1>0 DEF HeldDue, Pairs
      <3>3. QED
        BY <3>1, <3>2, PairsAre
    <2>3. SentDue' = SentDue \ p
      <3>1. \A q \in Reader, e \in Event : <<q, e>> \in SentDue' <=> <<q, e>> \in SentDue \ p
        BY <1>0, <1>7 DEF Receive, SentDue, Pairs
      <3>2. SentDue' \subseteq Reader \X Event /\ SentDue \ p \subseteq Reader \X Event
        BY <1>0 DEF SentDue, Pairs
      <3>3. QED
        BY <3>1, <3>2, PairsAre
    <2>4. /\ UNCHANGED <<open, outstanding, acked>> /\ open
          /\ received' = received \cup batch[r] /\ pc'[r] = "idle" /\ held'[r] = held[r] \cup batch[r]
          /\ \A q \in Reader \ {r} : pc'[q] = pc[q] /\ held'[q] = held[q]
      BY <1>0, <1>7 DEF Receive, Batches
    <2>5. /\ Cardinality(HeldDue') + Cardinality(SentDue') <= outstanding'
          /\ IsFiniteSet(HeldDue') /\ IsFiniteSet(SentDue')
      <3> HIDE DEF p
      <3>1. /\ IsFiniteSet(HeldDue \cup p) /\ IsFiniteSet(SentDue \ p) /\ Cardinality(p) \in Nat
            /\ Cardinality(HeldDue \cup p) <= Cardinality(HeldDue) + Cardinality(p)
            /\ Cardinality(SentDue \ p) = Cardinality(SentDue) - Cardinality(p)
        BY <1>2, <2>1, Moved
      <3>2. Cardinality(HeldDue \cup p) \in Nat /\ Cardinality(SentDue \ p) \in Nat
        BY <3>1, FS_CardinalityType
      <3>3. QED
        BY <1>0, <1>2, <2>2, <2>3, <2>4, <3>1, <3>2
    <2>6. \A e \in received' \ acked' : \E q \in Reader : pc'[q] # "acking" /\ e \in held'[q]
      BY <1>2, <2>4
    <2>7. QED
      BY <2>4, <2>5, <2>6 DEF WindowInv
  <1>8. CASE LoseAnswer(r)
    <2>1. HeldDue' = HeldDue
      BY <1>0, <1>8 DEF LoseAnswer, HeldDue
    <2>2. SentDue' \in SUBSET SentDue
      BY <1>0, <1>8 DEF LoseAnswer, SentDue
    <2>3. IsFiniteSet(SentDue') /\ Cardinality(SentDue') <= Cardinality(SentDue)
          /\ Cardinality(SentDue') \in Nat
      BY <1>2, <2>2, FS_Subset, FS_CardinalityType
    <2>4. UNCHANGED <<open, outstanding, acked, received, held>>
          /\ \A q \in Reader : pc[q] # "acking" => pc'[q] # "acking"
      BY <1>0, <1>8 DEF LoseAnswer
    <2>5. QED
      BY <1>0, <1>2, <2>1, <2>3, <2>4 DEF WindowInv
  <1>9. CASE Ack(r)
    <2> DEFINE p == Pairs(r, held[r])
    <2>1. IsFiniteSet(p) /\ Cardinality(p) = Cardinality(held[r]) /\ p \subseteq HeldDue
      BY <1>0, <1>9, PairsCount DEF Ack, Pairs, HeldDue
    <2>2. HeldDue' = HeldDue \ p
      <3>1. \A q \in Reader, e \in Event : <<q, e>> \in HeldDue' <=> <<q, e>> \in HeldDue \ p
        BY <1>0, <1>9 DEF Ack, HeldDue, Pairs
      <3>2. HeldDue' \subseteq Reader \X Event /\ HeldDue \ p \subseteq Reader \X Event
        BY <1>0 DEF HeldDue, Pairs
      <3>3. QED
        BY <3>1, <3>2, PairsAre
    <2>3. SentDue' = SentDue
      BY <1>0, <1>9 DEF Ack, SentDue
    <2>4. /\ UNCHANGED <<open, received, held>> /\ open
          /\ acked' = acked \cup held[r]
          /\ \A q \in Reader \ {r} : pc'[q] = pc[q]
      BY <1>0, <1>9 DEF Ack
    <2>5. /\ Cardinality(HeldDue') + Cardinality(SentDue') <= outstanding'
          /\ IsFiniteSet(HeldDue')
      <3> HIDE DEF p
      <3>1. /\ IsFiniteSet(HeldDue \ p) /\ Cardinality(p) \in Nat
            /\ Cardinality(HeldDue \ p) = Cardinality(HeldDue) - Cardinality(p)
        BY <1>2, <2>1, Moved
      <3>2. Cardinality(HeldDue \ p) \in Nat
        BY <3>1, FS_CardinalityType
      <3>3. outstanding' = outstanding - Cardinality(p)
        BY <1>0, <1>2, <1>9, <2>1, <3>1, <3>2 DEF Ack, Forgive
      <3>4. QED
        BY <1>0, <1>2, <2>2, <2>3, <3>1, <3>2, <3>3
    <2>6. \A e \in received' \ acked' : \E q \in Reader : pc'[q] # "acking" /\ e \in held'[q]
      BY <1>2, <2>4
    <2>7. QED
      BY <1>2, <2>3, <2>4, <2>5, <2>6 DEF WindowInv
  <1>10. QED
    BY <1>1, <1>3, <1>4, <1>5, <1>6, <1>7, <1>8, <1>9 DEF Work, Proceed

LEMMA WindowNext ==
  ASSUME TypeInv, TypeInv', WindowInv, [Next]_vars
  PROVE  WindowInv'
  <1> SUFFICES ASSUME lostAcks' = 0, restarts' = 0 PROVE WindowInv'
    BY DEF WindowInv
  <1>1. CASE Publish \/ UNCHANGED vars
    <2>1. UNCHANGED <<pc, held, batch, outstanding, open, received, acked, lostAcks, restarts>>
      BY <1>1 DEF Publish, vars, faults
    <2>2. HeldDue' = HeldDue /\ SentDue' = SentDue
      BY <2>1 DEF HeldDue, SentDue
    <2>3. QED
      BY <2>1, <2>2 DEF WindowInv
  <1>2. ~Restart
    <2>1. restarts \in Nat
      BY BoundAssumption DEF TypeInv, TypeOK
    <2>2. QED
      BY <2>1 DEF Restart
  <1>3. QED
    BY <1>1, <1>2, WindowWork DEF Next

\* The window's own limit is kept by the type; so an unacked event, due to somebody, is
\* one of a window full.
LEMMA WindowCovers ==
  ASSUME TypeInv, WindowInv, lostAcks = 0, restarts = 0
  PROVE  UnackedWithinWindow
  <1> DEFINE unacked == {e \in Event : (e \in received \/ InFlight(e)) /\ e \notin acked}
             due == HeldDue \cup SentDue
             f == [x \in due |-> x[2]]
             of == {e \in Event : \E q \in Reader : <<q, e>> \in due}
  <1>1. /\ IsFiniteSet(HeldDue) /\ IsFiniteSet(SentDue) /\ outstanding \in Nat /\ Window \in Nat
        /\ outstanding <= Window /\ Cardinality(HeldDue) + Cardinality(SentDue) <= outstanding
    BY SizeAssumption DEF WindowInv, TypeInv, TypeOK
  <1>2. /\ IsFiniteSet(due) /\ Cardinality(due) <= Cardinality(HeldDue) + Cardinality(SentDue)
        /\ Cardinality(HeldDue) \in Nat /\ Cardinality(SentDue) \in Nat /\ Cardinality(due) \in Nat
    BY <1>1, Moved, FS_CardinalityType
  <1>3. f \in Surjection(due, of)
    <2>1. due \subseteq Reader \X Event
      BY DEF HeldDue, SentDue
    <2>2. \A x \in due : x[2] \in of
      BY <2>1
    <2>3. \A e \in of : \E x \in due : f[x] = e
      OBVIOUS
    <2>4. QED
      BY <2>2, <2>3 DEF Surjection
  <1>4. IsFiniteSet(of) /\ Cardinality(of) <= Cardinality(due)
    BY <1>2, <1>3, FS_Surjection
  <1>5. unacked \in SUBSET of
    <2> SUFFICES ASSUME NEW e \in Event, e \in received \/ InFlight(e), e \notin acked
                 PROVE  \E q \in Reader : <<q, e>> \in HeldDue \cup SentDue
      OBVIOUS
    <2>1. CASE e \in received
      BY <2>1 DEF WindowInv, HeldDue
    <2>2. CASE InFlight(e)
      BY <2>2 DEF InFlight, SentDue
    <2>3. QED
      BY <2>1, <2>2
  <1>6. Cardinality(unacked) <= Cardinality(of) /\ Cardinality(unacked) \in Nat
        /\ Cardinality(of) \in Nat
    BY <1>4, <1>5, FS_Subset, FS_CardinalityType
  <1>7. Cardinality(unacked) <= Window
    <2> HIDE DEF unacked, of, due, f
    <2> QED
      BY <1>1, <1>2, <1>4, <1>6
  <1>8. QED
    BY <1>7 DEF UnackedWithinWindow

\* Whatever the threads do, and whatever is delivered again, no more than a window full
\* of events is delivered and not acked: of any number of consumers, of any window and
\* limit, as long as no ack is sent again and the server goes on.
THEOREM WindowIsKept == Spec => []WindowBoundsUnacked
  <1>1. TypeInv /\ WindowInv => WindowBoundsUnacked
    BY WindowCovers DEF WindowBoundsUnacked
  <1>2. TypeInv /\ WindowInv /\ [Next]_vars => TypeInv' /\ WindowInv'
    BY TypeNext, WindowNext
  <1>3. QED
    BY <1>1, <1>2, TypeInit, WindowInit, PTL DEF Spec
=============================================================================
