------------------------ MODULE ReliableClientProofs ------------------------
(***************************************************************************)
(* Types of ReliableClient, and that racing threads may lose failures when *)
(* they count them, but never make too many of them: the circuit does not  *)
(* open before Threshold calls have failed.                                *)
(***************************************************************************)
EXTENDS ReliableClient, FiniteSetTheorems, TLAPS

LEMMA TypeInit == Init => TypeOK
  BY PolicyAssumption DEF Init, TypeOK, Attempt, Failures

LEMMA TypeNext == TypeOK /\ [Next]_vars => TypeOK'
  <1> SUFFICES ASSUME TypeOK, [Next]_vars PROVE TypeOK'
    OBVIOUS
  <1> USE PolicyAssumption DEF TypeOK, Attempt, Failures, Goto, Hangup, OneMore
  <1>1. ASSUME Elapse \/ Weather, UNCHANGED users PROVE TypeOK'
    <2>1. opened' \in {"never", "waiting", "over"} /\ healthy' \in BOOLEAN
      BY <1>1 DEF Elapse, Weather
    <2>2. UNCHANGED <<users, failures, wire, pc, attempt, tried, seen, trial, failed>>
      BY <1>1 DEF Elapse, Weather
    <2>3. QED
      BY <2>1, <2>2
  <1>2. ASSUME NEW c \in Caller, Proceed(c) \/ Post(c), UNCHANGED users PROVE TypeOK'
    <2>1. CASE Enter(c)
      BY <1>2, <2>1 DEF Enter
    <2>2. CASE Admit(c) \/ Refuse(c)
      BY <1>2, <2>2 DEF Admit, Refuse
    <2>3. CASE Reconnect(c) \/ Succeed(c)
      BY <1>2, <2>3 DEF Reconnect, Succeed
    <2>4. CASE Retry(c)
      BY <1>2, <2>4 DEF Retry
    <2>5. CASE Fail(c)
      BY <1>2, <2>5 DEF Fail
    <2>6. CASE Zero(c) \/ Close(c) \/ Open(c)
      BY <1>2, <2>6 DEF Zero, Close, Open
    <2>7. CASE Count(c) \/ Store(c) \/ Trip(c)
      BY <1>2, <2>7 DEF Count, Store, Trip
    <2>8. CASE Post(c)
      BY <1>2, <2>8 DEF Post
    <2>9. QED
      BY <1>2, <2>1, <2>2, <2>3, <2>4, <2>5, <2>6, <2>7, <2>8 DEF Proceed
  <1>3. CASE UNCHANGED vars
    BY <1>3 DEF vars
  <1>4. QED
    BY <1>1, <1>2, <1>3 DEF Next

\* Types of every variable, for any callers, attempts and threshold: no call makes
\* more attempts than the policy has.
THEOREM TypeCorrect == Spec => []TypeOK
  BY TypeInit, TypeNext, PTL DEF Spec

-----------------------------------------------------------------------------
\* The callers whose failure is being counted.
Counting == {c \in Caller : pc[c] \in {"count", "store"}}

\* Until the threshold is reached, what has been counted and what is being counted
\* are no more than the calls that have failed.
Below ==
  /\ failures + Cardinality(Counting) <= failed
  /\ \A c \in Caller : pc[c] = "store" => seen[c] + Cardinality(Counting) <= failed
  /\ opened = "never"
  /\ \A c \in Caller : pc[c] # "open"

CountInv == IsFiniteSet(Counting) /\ (failed < Threshold => Below)

LEMMA CountInit == Init => CountInv
  <1> SUFFICES ASSUME Init PROVE CountInv
    OBVIOUS
  <1>1. Counting = {}
    BY DEF Init, Counting
  <1>2. IsFiniteSet(Counting) /\ Cardinality(Counting) = 0
    BY <1>1, FS_EmptySet
  <1>3. QED
    BY <1>2 DEF Init, CountInv, Below

LEMMA CountNext ==
  ASSUME TypeOK, CountInv, [Next]_vars
  PROVE  CountInv'
  <1>1. Threshold \in Nat /\ Threshold > 0 /\ failures \in Nat /\ failed \in Nat
    BY PolicyAssumption DEF TypeOK, Attempt, Failures
  <1>2. IsFiniteSet(Counting) /\ Cardinality(Counting) \in Nat
    BY FS_CardinalityType DEF CountInv
  <1>3. CASE Elapse \/ Weather
    <2>1. Counting' = Counting
      BY <1>3 DEF Elapse, Weather, Counting
    <2>2. QED
      BY <1>3, <2>1 DEF Elapse, Weather, CountInv, Below
  <1>4. ASSUME NEW c \in Caller, Proceed(c) \/ Post(c) PROVE CountInv'
    <2>1. CASE \/ Enter(c) \/ Admit(c) \/ Refuse(c) \/ Post(c) \/ Reconnect(c)
               \/ Succeed(c) \/ Retry(c)
      <3>1. Counting' = Counting
        BY <2>1
          DEF Enter, Admit, Refuse, Post, Reconnect, Succeed, Retry, Goto, Counting,
              TypeOK, Attempt, Failures
      <3>2. /\ UNCHANGED <<failures, opened, seen, failed>>
            /\ \A d \in Caller : pc'[d] \in {"store", "open"} => pc[d] = pc'[d]
        BY <2>1
          DEF Enter, Admit, Refuse, Post, Reconnect, Succeed, Retry, Goto,
              TypeOK, Attempt, Failures
      <3>3. QED
        BY <3>1, <3>2 DEF CountInv, Below
    <2>2. CASE Fail(c)
      <3>1. Counting' = Counting \cup {c} /\ c \notin Counting
        BY <2>2 DEF Fail, Goto, Counting, TypeOK, Attempt, Failures
      <3>2. IsFiniteSet(Counting') /\ Cardinality(Counting') = Cardinality(Counting) + 1
        BY <1>2, <3>1, FS_AddElement
      <3>3. ASSUME failed' < Threshold PROVE Below'
        <4>1. failed' = failed + 1 /\ Below
          BY <1>1, <2>2, <3>3 DEF Fail, OneMore, CountInv
        <4>2. /\ UNCHANGED <<failures, opened, seen>>
              /\ \A d \in Caller : pc'[d] \in {"store", "open"} => pc[d] = pc'[d]
          BY <2>2 DEF Fail, Goto, TypeOK, Attempt, Failures
        <4>3. \A d \in Caller : seen[d] \in Nat
          BY <1>1 DEF TypeOK, Attempt, Failures
        <4>4. QED
          BY <1>1, <1>2, <3>2, <4>1, <4>2, <4>3 DEF Below
      <3>4. QED
        BY <3>2, <3>3 DEF CountInv
    <2>3. CASE Zero(c) \/ Close(c)
      <3>1. Counting' = Counting
        BY <2>3 DEF Zero, Close, Goto, Counting, TypeOK, Attempt, Failures
      <3>2. /\ failures' \in {0, failures} /\ opened' \in {"never", opened}
            /\ UNCHANGED <<seen, failed>>
            /\ \A d \in Caller : pc'[d] \in {"store", "open"} => pc[d] = pc'[d]
        BY <2>3 DEF Zero, Close, Goto, TypeOK, Attempt, Failures
      <3>3. QED
        BY <1>1, <1>2, <3>1, <3>2 DEF CountInv, Below
    <2>4. CASE Count(c)
      <3>1. Counting' = Counting
        BY <2>4 DEF Count, Goto, Counting, TypeOK, Attempt, Failures
      <3>2. /\ seen' = [seen EXCEPT ![c] = failures]
            /\ UNCHANGED <<failures, opened, failed>>
            /\ \A d \in Caller \ {c} : pc'[d] = pc[d]
            /\ pc'[c] = "store"
        BY <2>4 DEF Count, Goto, TypeOK, Attempt, Failures
      <3>3. QED
        BY <3>1, <3>2 DEF CountInv, Below, TypeOK, Attempt, Failures
    <2>5. CASE Store(c)
      <3>1. Counting' = Counting \ {c} /\ c \in Counting
        BY <2>5 DEF Store, Goto, Counting, TypeOK, Attempt, Failures
      <3>2. IsFiniteSet(Counting') /\ Cardinality(Counting') = Cardinality(Counting) - 1
        BY <1>2, <3>1, FS_RemoveElement
      <3>3. ASSUME failed' < Threshold PROVE Below'
        <4>1. failed' = failed /\ Below /\ pc[c] = "store"
          BY <2>5, <3>3 DEF Store, CountInv
        <4>2. \A d \in Caller : seen[d] \in Nat
          BY <1>1 DEF TypeOK, Attempt, Failures
        <4>3. failures' <= seen[c] + 1
          BY <1>1, <2>5, <4>2 DEF Store, OneMore
        <4>4. failures' \in Nat
          BY <1>1, <2>5, <4>2 DEF Store, OneMore
        <4>5. /\ UNCHANGED <<opened, seen>>
              /\ \A d \in Caller : pc'[d] \in {"store", "open"} => pc[d] = pc'[d]
          BY <2>5 DEF Store, Goto, TypeOK, Attempt, Failures
        <4>6. seen[c] + Cardinality(Counting) <= failed
          BY <4>1 DEF Below
        <4>7. failures' + Cardinality(Counting') <= failed'
          BY <1>1, <1>2, <3>2, <4>1, <4>2, <4>3, <4>4, <4>6
        <4>8. \A d \in Caller : pc'[d] = "store" => seen'[d] + Cardinality(Counting') <= failed'
          BY <1>1, <1>2, <3>2, <4>1, <4>2, <4>5 DEF Below
        <4>9. QED
          BY <4>1, <4>5, <4>7, <4>8 DEF Below
      <3>4. QED
        BY <3>2, <3>3 DEF CountInv
    <2>6. CASE Trip(c)
      <3>1. Counting' = Counting
        BY <2>6 DEF Trip, Goto, Counting, TypeOK, Attempt, Failures
      <3>2. UNCHANGED <<failures, opened, seen, failed>>
        BY <2>6 DEF Trip
      <3>3. ASSUME failed < Threshold PROVE pc'[c] = "idle"
        <4>1. failures <= failed
          BY <1>1, <1>2, <3>3 DEF CountInv, Below
        <4>2. QED
          BY <1>1, <2>6, <3>3, <4>1 DEF Trip, Goto, TypeOK, Attempt, Failures
      <3>4. \A d \in Caller \ {c} : pc'[d] = pc[d]
        BY <2>6 DEF Trip, Goto, TypeOK, Attempt, Failures
      <3>5. QED
        BY <3>1, <3>2, <3>3, <3>4 DEF CountInv, Below
    <2>7. CASE Open(c)
      <3>1. Counting' = Counting
        BY <2>7 DEF Open, Goto, Counting, TypeOK, Attempt, Failures
      <3>2. pc[c] = "open" /\ failed' = failed
        BY <2>7 DEF Open
      <3>3. QED
        BY <3>1, <3>2 DEF CountInv, Below
    <2>8. QED
      BY <1>4, <2>1, <2>2, <2>3, <2>4, <2>5, <2>6, <2>7 DEF Proceed
  <1>5. CASE UNCHANGED vars
    BY <1>5 DEF vars, CountInv, Below, Counting
  <1>6. QED
    BY <1>3, <1>4, <1>5 DEF Next

\* For any number of threads that count failures without a lock, the circuit opens
\* only after as many failed calls as the threshold says.
THEOREM CircuitNeverTripsEarly == Spec => []NeverTripsEarly
  <1>1. TypeOK /\ CountInv => NeverTripsEarly
    <2> SUFFICES ASSUME TypeOK, CountInv, failed < Threshold PROVE opened = "never"
      BY PolicyAssumption DEF NeverTripsEarly, TypeOK, Attempt, Failures
    <2>1. QED
      BY DEF CountInv, Below
  <1>2. Init => TypeOK /\ CountInv
    BY TypeInit, CountInit
  <1>3. TypeOK /\ CountInv /\ [Next]_vars => TypeOK' /\ CountInv'
    BY TypeNext, CountNext
  <1>4. QED
    BY <1>1, <1>2, <1>3, PTL DEF Spec

-----------------------------------------------------------------------------
\* An only caller knows what the counter and the circuit say at each of its steps.
Knows(u) ==
  /\ \A c \in Caller \ {u} : pc[c] = "idle"
  /\ pc[u] \notin {"idle", "check"} => opened # "waiting"
  /\ pc[u] \in {"idle", "check", "post", "send", "zero", "count", "store"} =>
       (opened # "never" <=> failures = Threshold)
  /\ pc[u] = "close" => failures = 0
  /\ pc[u] = "store" => seen[u] = failures
  /\ pc[u] = "trip" /\ opened # "never" => failures = Threshold
  /\ pc[u] = "open" => failures = Threshold

AloneInv == \A u \in Caller : users = {u} => Knows(u)

LEMMA AloneInit == Init => AloneInv
  BY PolicyAssumption DEF Init, AloneInv, Knows

LEMMA AloneNext ==
  ASSUME TypeOK, AloneInv, [Next]_vars
  PROVE  AloneInv' /\ (Alone => Breaker!Next \/ UNCHANGED opened)
  <1> DEFINE Steps == Breaker!Next \/ UNCHANGED opened
  <1>1. Threshold \in Nat /\ Threshold > 0 /\ failures \in 0 .. Threshold
    BY PolicyAssumption DEF TypeOK, Attempt, Failures
  <1>2. users' = users
    BY DEF Next, vars
  <1>3. ASSUME NEW u \in Caller, users = {u} PROVE Knows(u)' /\ Steps
    <2>1. Knows(u)
      BY <1>3 DEF AloneInv
    <2>2. CASE UNCHANGED vars
      BY <2>1, <2>2 DEF vars, Knows
    <2>3. CASE Elapse
      <3>1. Breaker!Next
        BY <2>3 DEF Elapse, Breaker!Next, Breaker!Cooldown
      <3>2. Knows(u)'
        BY <2>1, <2>3 DEF Elapse, Knows
      <3>3. QED
        BY <3>1, <3>2
    <2>4. CASE Weather
      BY <2>1, <2>4 DEF Weather, Knows
    <2>5. ASSUME NEW c \in Caller, c # u, Proceed(c) \/ Post(c) PROVE FALSE
      BY <1>3, <2>1, <2>5 DEF Knows, Proceed, Enter, Admit, Refuse, Reconnect, Succeed, Retry,
                              Fail, Zero, Close, Count, Store, Trip, Open, Post
    <2>6. CASE Proceed(u) \/ Post(u)
      <3> USE <1>1, <2>1 DEF Knows, Goto, TypeOK, Attempt, Failures
      <3>1. CASE Enter(u)
        BY <3>1 DEF Enter
      <3>2. CASE Admit(u) \/ Refuse(u)
        BY <3>2 DEF Admit, Refuse, Admitted
      <3>3. CASE Post(u) \/ Reconnect(u) \/ Succeed(u) \/ Retry(u)
        BY <3>3 DEF Post, Reconnect, Succeed, Retry
      <3>4. CASE Fail(u) \/ Zero(u)
        BY <3>4 DEF Fail, Zero
      <3>5. CASE Close(u)
        <4>1. opened = "never" \/ Breaker!Next
          BY <3>5 DEF Close, Breaker!Next, Breaker!Probe
        <4>2. Knows(u)'
          BY <3>5 DEF Close
        <4>3. QED
          BY <3>5, <4>1, <4>2 DEF Close
      <3>6. CASE Count(u)
        BY <3>6 DEF Count
      <3>7. CASE Store(u)
        BY <3>7 DEF Store, OneMore
      <3>8. CASE Trip(u)
        BY <3>8 DEF Trip
      <3>9. CASE Open(u)
        <4>1. Breaker!Next
          BY <3>9 DEF Open, Breaker!Next, Breaker!Trip, Breaker!Probe
        <4>2. Knows(u)'
          BY <3>9 DEF Open
        <4>3. QED
          BY <4>1, <4>2
      <3>10. QED
        BY <2>6, <3>1, <3>2, <3>3, <3>4, <3>5, <3>6, <3>7, <3>8, <3>9 DEF Proceed
    <2>7. QED
      BY <2>2, <2>3, <2>4, <2>5, <2>6 DEF Next
  <1>4. QED
    BY <1>2, <1>3 DEF AloneInv, Alone

LEMMA AloneInvariance == Spec => [](TypeOK /\ AloneInv)
  <1>1. Init => TypeOK /\ AloneInv
    BY TypeInit, AloneInit
  <1>2. TypeOK /\ AloneInv /\ [Next]_vars => TypeOK' /\ AloneInv'
    BY TypeNext, AloneNext
  <1>3. QED
    BY <1>1, <1>2, PTL DEF Spec

\* A transport that one thread uses has its circuit open exactly when the threshold
\* has been reached, whatever its policy.
THEOREM OpenExactlyWhenTripped == Spec => []OpenMeansTripped
  <1>1. TypeOK /\ AloneInv => OpenMeansTripped
    BY DEF OpenMeansTripped, Alone, AloneInv, Knows
  <1>2. QED
    BY <1>1, AloneInvariance, PTL

\* Used by one thread, the circuit breaker implements the abstract one.
THEOREM ImplementsBreaker == Spec => BreakerSteps
  <1>1. TypeOK /\ AloneInv /\ [Next]_vars => [Alone => Breaker!Next]_opened
    BY AloneNext
  <1>2. QED
    BY <1>1, AloneInvariance, PTL DEF Spec, BreakerSteps
=============================================================================
