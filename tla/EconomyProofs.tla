---------------------------- MODULE EconomyProofs ----------------------------
(***************************************************************************)
(* EventLog and Economy for any publishers and bounds, on either host and  *)
(* across accesses that raise and crashes: what the two logs keep of each  *)
(* other, what the receipts, the settlements and the bundles do, and what  *)
(* requests that run one at a time add to it.                              *)
(***************************************************************************)
EXTENDS Economy, SequenceTheorems, FiniteSetTheorems, TLAPS

\* What appending does to the elements of a sequence and to its places.
LEMMA AppendFacts ==
  ASSUME NEW S, NEW s \in Seq(S), NEW e \in S
  PROVE  /\ Append(s, e) \in Seq(S)
         /\ Len(Append(s, e)) = Len(s) + 1
         /\ DOMAIN Append(s, e) = DOMAIN s \cup {Len(s) + 1}
         /\ Len(s) + 1 \notin DOMAIN s /\ DOMAIN s = 1 .. Len(s) /\ Len(s) \in Nat
         /\ \A i \in DOMAIN s : Append(s, e)[i] = s[i]
         /\ Append(s, e)[Len(s) + 1] = e
         /\ ToSet(Append(s, e)) = ToSet(s) \cup {e}
  <1>1. /\ Append(s, e) \in Seq(S)
        /\ Len(Append(s, e)) = Len(s) + 1
        /\ \A i \in 1 .. Len(s) : Append(s, e)[i] = s[i]
        /\ Append(s, e)[Len(s) + 1] = e
    BY AppendProperties
  <1>2. DOMAIN s = 1 .. Len(s) /\ Len(s) \in Nat
    BY LenProperties
  <1>3. DOMAIN Append(s, e) = 1 .. Len(s) + 1
    BY <1>1, LenProperties
  <1>4. DOMAIN Append(s, e) = DOMAIN s \cup {Len(s) + 1} /\ Len(s) + 1 \notin DOMAIN s
    BY <1>2, <1>3
  <1>5. ToSet(Append(s, e)) = ToSet(s) \cup {e}
    BY <1>1, <1>2, <1>4 DEF ToSet
  <1>6. QED
    BY <1>1, <1>2, <1>4, <1>5

OneToOne(s) == \A i, j \in DOMAIN s : s[i] = s[j] => i = j

\* Appending something new keeps a sequence free of repetitions.
LEMMA AppendOneToOne ==
  ASSUME NEW S, NEW s \in Seq(S), NEW e \in S, OneToOne(s), e \notin ToSet(s)
  PROVE  OneToOne(Append(s, e))
  BY AppendFacts DEF OneToOne, ToSet

\* A sequence without repetitions is no longer than any finite set it stays in.
LEMMA OneToOneLength ==
  ASSUME NEW S, NEW s \in Seq(S), OneToOne(s), NEW T, IsFiniteSet(T), ToSet(s) \subseteq T
  PROVE  Len(s) <= Cardinality(T)
  <1>1. DOMAIN s = 1 .. Len(s) /\ Len(s) \in Nat /\ s \in [1 .. Len(s) -> S]
    BY LenProperties
  <1>2. s \in Injection(1 .. Len(s), T)
    <2>1. \A i \in 1 .. Len(s) : s[i] \in T
      BY <1>1 DEF ToSet
    <2>2. s \in [1 .. Len(s) -> T]
      BY <1>1, <2>1
    <2>3. QED
      BY <1>1, <2>2 DEF OneToOne, Injection, IsInjective
  <1>3. Cardinality(1 .. Len(s)) <= Cardinality(T)
    BY <1>2, FS_Injection
  <1>4. Cardinality(1 .. Len(s)) = Len(s)
    BY <1>1, FS_Interval
  <1>5. QED
    BY <1>3, <1>4

-----------------------------------------------------------------------------
(***************************************************************************)
(* The two logs.  Events are told apart by their number, so that one under *)
(* way is in no log it has not been appended to.                           *)
(***************************************************************************)
EventTypes ==
  /\ host \in Host
  /\ session \in Seq(Event)
  /\ activity \in [Activity -> Seq(Event)]
  /\ pc \in [Publisher -> {"idle", "session", "activity"}]
  /\ event \in [Publisher -> Event \cup {NoEvent}]
  /\ begun \in 0 .. MaxEvents /\ crashes \in 0 .. MaxCrashes /\ failures \in 0 .. MaxFailures

\* Events are numbered as they are begun, each once.
Numbered ==
  /\ \A p \in Publisher : pc[p] # "idle" => event[p] \in Event /\ event[p].n <= begun
  /\ \A p, q \in Publisher :
       pc[p] # "idle" /\ pc[q] # "idle" /\ event[p].n = event[q].n => p = q
  /\ \A e \in ToSet(session) : e.n <= begun
  /\ \A p \in Publisher : pc[p] = "session" =>
       \A e \in ToSet(session) : e.n # event[p].n
  /\ \A p \in Publisher : pc[p] = "activity" =>
       event[p] \in ToSet(session) /\ event[p].activity \in Activity
  /\ \A i, j \in DOMAIN session : session[i].n = session[j].n => i = j

\* What an activity's log has of the session's.
Within ==
  /\ \A a \in Activity : \A e \in ToSet(activity[a]) : e \in ToSet(session) /\ e.activity = a
  /\ \A a \in Activity : OneToOne(activity[a])
  /\ \A p \in Publisher, a \in Activity :
       pc[p] = "activity" => event[p] \notin ToSet(activity[a])
  /\ crashes = 0 /\ failures = 0 =>
       \A e \in ToSet(session) : e.activity \in Activity =>
         \/ e \in ToSet(activity[e.activity])
         \/ \E p \in Publisher : pc[p] = "activity" /\ event[p] = e

LogsInv == EventTypes /\ Numbered /\ Within

LEMMA LogsInvInit == Init => LogsInv
  <1> SUFFICES ASSUME Init PROVE LogsInv
    OBVIOUS
  <1>1. <<>> \in Seq(Event) /\ ToSet(<<>>) = {} /\ DOMAIN <<>> = {}
    BY EmptySeq DEF ToSet
  <1>2. EventTypes
    BY <1>1, BoundAssumption DEF Init, EventTypes
  <1>3. Numbered /\ Within
    BY <1>1 DEF Init, Numbered, Within, OneToOne
  <1>4. QED
    BY <1>2, <1>3 DEF LogsInv

\* An append to the session's log: the event goes on to its activity's, or is done.
LEMMA SessionAppendKeeps ==
  ASSUME LogsInv, NEW p \in Publisher, AppendToSession(p)
  PROVE  LogsInv'
  <1> USE DEF AppendToSession, AfterSession, Return, Goto
  <1>1. /\ pc[p] = "session" /\ event[p] \in Event /\ event[p].n <= begun
        /\ event[p].activity \in Activity \cup {NoActivity}
        /\ session' = Append(session, event[p])
        /\ session \in Seq(Event)
        /\ \A e \in ToSet(session) : e.n # event[p].n
    BY DEF LogsInv, EventTypes, Numbered, Event
  <1>2. /\ session' \in Seq(Event)
        /\ ToSet(session') = ToSet(session) \cup {event[p]}
        /\ DOMAIN session' = DOMAIN session \cup {Len(session) + 1}
        /\ \A i \in DOMAIN session : session'[i] = session[i]
        /\ session'[Len(session) + 1] = event[p]
    BY <1>1, AppendFacts
  <1>3. EventTypes'
    BY <1>1, <1>2 DEF LogsInv, EventTypes
  <1>4. Numbered'
    <2>1. \A i, j \in DOMAIN session' : session'[i].n = session'[j].n => i = j
      BY <1>1, <1>2 DEF LogsInv, Numbered, ToSet
    <2>2. \A q \in Publisher : pc'[q] # "idle" => pc[q] # "idle" /\ event'[q] = event[q]
      BY DEF LogsInv, EventTypes
    <2>3. \A q \in Publisher \ {p} : pc'[q] = pc[q]
      BY DEF LogsInv, EventTypes
    <2>4. pc'[p] = "idle" \/ (pc'[p] = "activity" /\ event[p].activity \in Activity)
      BY <1>1 DEF LogsInv, EventTypes
    <2>5. begun' = begun
      OBVIOUS
    <2>6. QED
      BY <1>1, <1>2, <2>1, <2>2, <2>3, <2>4, <2>5 DEF LogsInv, Numbered
  <1>5. Within'
    <2>1. \A q \in Publisher : pc[q] = "activity" => pc'[q] = "activity" /\ event'[q] = event[q]
      BY <1>1 DEF LogsInv, EventTypes
    <2>2. \A q \in Publisher : pc'[q] = "activity" =>
            event'[q] = event[q] /\ (pc[q] = "activity" \/ q = p)
      BY <1>1 DEF LogsInv, EventTypes
    <2>3. event[p].activity \in Activity => pc'[p] = "activity"
      BY <1>1, ActivityAssumption DEF LogsInv, EventTypes
    <2>4. \A a \in Activity : event[p] \notin ToSet(activity[a])
      BY <1>1 DEF LogsInv, Within
    <2>5. UNCHANGED <<activity, crashes, failures>>
      OBVIOUS
    <2>6. QED
      BY <1>2, <2>1, <2>2, <2>3, <2>4, <2>5 DEF LogsInv, Within
  <1>6. QED
    BY <1>3, <1>4, <1>5 DEF LogsInv

\* An append to an activity's log ends the publication.
LEMMA ActivityAppendKeeps ==
  ASSUME LogsInv, NEW p \in Publisher, AppendToActivity(p)
  PROVE  LogsInv'
  <1> USE DEF AppendToActivity, Return, Goto
  <1> DEFINE a == event[p].activity
  <1>1. /\ pc[p] = "activity" /\ event[p] \in Event /\ event[p].activity = a
        /\ event[p] \in ToSet(session) /\ a \in Activity
        /\ activity[a] \in Seq(Event) /\ OneToOne(activity[a])
        /\ event[p] \notin ToSet(activity[a])
    BY DEF LogsInv, EventTypes, Numbered, Within
  <1>2. /\ activity'[a] = Append(activity[a], event[p])
        /\ \A b \in Activity \ {a} : activity'[b] = activity[b]
        /\ activity' = [activity EXCEPT ![a] = activity'[a]]
    BY <1>1 DEF LogsInv, EventTypes
  <1>3. /\ activity'[a] \in Seq(Event)
        /\ ToSet(activity'[a]) = ToSet(activity[a]) \cup {event[p]}
        /\ OneToOne(activity'[a])
    BY <1>1, <1>2, AppendFacts, AppendOneToOne
  <1>4. /\ \A q \in Publisher \ {p} : pc'[q] = pc[q] /\ event'[q] = event[q]
        /\ pc'[p] = "idle"
        /\ UNCHANGED <<session, begun, crashes, failures>>
    BY DEF LogsInv, EventTypes
  <1>5. EventTypes'
    BY <1>1, <1>2, <1>3 DEF LogsInv, EventTypes
  <1>6. Numbered'
    BY <1>4 DEF LogsInv, Numbered
  <1> HIDE DEF AppendToActivity, Return, Goto, a
  <1>7. Within'
    <2>1. \A q \in Publisher \ {p} : pc[q] = "activity" => event[q] # event[p]
      BY <1>1 DEF LogsInv, Numbered
    <2>2. \A b \in Activity : \A e :
            e \in ToSet(activity'[b]) <=> e \in ToSet(activity[b]) \/ (b = a /\ e = event[p])
      <3> SUFFICES ASSUME NEW b \in Activity, NEW e
                   PROVE  e \in ToSet(activity'[b]) <=>
                            e \in ToSet(activity[b]) \/ (b = a /\ e = event[p])
        OBVIOUS
      <3>1. CASE b = a
        BY <1>3, <3>1
      <3>2. CASE b # a
        BY <1>2, <3>2
      <3>3. QED
        BY <3>1, <3>2
    <2>3. \A b \in Activity : OneToOne(activity'[b])
      BY <1>2, <1>3 DEF LogsInv, Within
    <2>4. \A b \in Activity : \A e \in ToSet(activity'[b]) : e \in ToSet(session) /\ e.activity = b
      <3>1. \A b \in Activity : \A e \in ToSet(activity[b]) : e \in ToSet(session) /\ e.activity = b
        BY DEF LogsInv, Within
      <3>2. QED
        BY <1>1, <2>2, <3>1
    <2>5. \A q \in Publisher, b \in Activity :
            pc'[q] = "activity" => event'[q] \notin ToSet(activity'[b])
      BY <1>4, <2>1, <2>2 DEF LogsInv, Within
    <2>6. crashes = 0 /\ failures = 0 =>
            \A e \in ToSet(session) : e.activity \in Activity =>
              \/ e \in ToSet(activity'[e.activity])
              \/ \E q \in Publisher : pc'[q] = "activity" /\ event'[q] = e
      BY <1>1, <1>4, <2>2 DEF LogsInv, Within
    <2>7. QED
      BY <1>4, <2>3, <2>4, <2>5, <2>6 DEF Within
  <1>8. QED
    BY <1>5, <1>6, <1>7 DEF LogsInv

LEMMA LogsInvNext == LogsInv /\ [Next]_vars => LogsInv'
  <1> SUFFICES ASSUME LogsInv, [Next]_vars PROVE LogsInv'
    OBVIOUS
  <1>1. CASE UNCHANGED vars
    BY <1>1 DEF vars, LogsInv, EventTypes, Numbered, Within
  <1>2. CASE Crash
    <2>1. EventTypes'
      BY <1>2, BoundAssumption DEF Crash, LogsInv, EventTypes
    <2>2. Numbered' /\ Within'
      BY <1>2, BoundAssumption DEF Crash, LogsInv, EventTypes, Numbered, Within
    <2>3. QED
      BY <2>1, <2>2 DEF LogsInv
  <1>3. ASSUME NEW p \in Publisher, Publish(p) PROVE LogsInv'
    <2>1. /\ pc[p] = "idle" /\ pc'[p] = "session"
          /\ event'[p] \in Event /\ event'[p].n = begun + 1 /\ begun' = begun + 1
          /\ \A q \in Publisher \ {p} : pc'[q] = pc[q] /\ event'[q] = event[q]
          /\ UNCHANGED <<session, activity, crashes, failures>>
          /\ begun \in Nat
      BY <1>3, BoundAssumption DEF Publish, Goto, LogsInv, EventTypes, Event
    <2>2. EventTypes'
      BY <1>3, <2>1, BoundAssumption DEF Publish, Goto, LogsInv, EventTypes
    <2>3. Numbered'
      <3>1. \A e \in Event : e.n \in Nat
        BY DEF Event
      <3>2. \A e \in ToSet(session) : e \in Event
        BY LenProperties DEF ToSet, LogsInv, EventTypes
      <3>3. QED
        BY <2>1, <3>1, <3>2 DEF LogsInv, Numbered
    <2>4. Within'
      BY <2>1 DEF LogsInv, Within
    <2>5. QED
      BY <2>2, <2>3, <2>4 DEF LogsInv
  \* What has raised is out of both logs' way, and they may differ from then on.
  <1>4. ASSUME NEW p \in Publisher, Raise(p) PROVE LogsInv'
    <2>1. /\ pc' = [pc EXCEPT ![p] = "idle"] /\ event' = [event EXCEPT ![p] = NoEvent]
          /\ failures' \in 1 .. MaxFailures
          /\ UNCHANGED <<host, session, activity, begun, crashes>>
      BY <1>4, BoundAssumption DEF Raise, Return, Goto, LogsInv, EventTypes
    <2>2. EventTypes'
      BY <2>1, BoundAssumption DEF LogsInv, EventTypes
    <2>3. /\ pc'[p] = "idle"
          /\ \A q \in Publisher \ {p} : pc'[q] = pc[q] /\ event'[q] = event[q]
      BY <2>1 DEF LogsInv, EventTypes
    <2>4. Numbered'
      BY <2>1, <2>3 DEF LogsInv, Numbered
    <2>5. failures' # 0
      BY <2>1
    <2>6. Within'
      BY <2>1, <2>3, <2>5 DEF LogsInv, Within
    <2>7. QED
      BY <2>2, <2>4, <2>6 DEF LogsInv
  <1>5. QED
    BY <1>1, <1>2, <1>3, <1>4, SessionAppendKeeps, ActivityAppendKeeps DEF Next, Work, Done

\* For threads over the in-memory stores, and for requests one at a time over SQLite
\* across crashes and failures, an activity's log stays within the session's, without
\* repetitions; until one crash or failure it is behind only for an event under way.
THEOREM LogsAgree == Spec => []ActivityWithinSession
  <1>1. ASSUME LogsInv PROVE ActivityWithinSession
    <2> SUFFICES ASSUME NEW a \in Activity
                 PROVE  LET underWay == {p \in Publisher : pc[p] = "activity" /\ event[p].activity = a}
                            whole == {e \in ToSet(session) : e.activity = a}
                        IN  /\ ToSet(activity[a]) \subseteq whole
                            /\ Len(activity[a]) <= Cardinality(whole)
                            /\ crashes = 0 /\ failures = 0 =>
                                 whole = ToSet(activity[a]) \cup {event[p] : p \in underWay}
      BY DEF ActivityWithinSession
    <2> DEFINE underWay == {p \in Publisher : pc[p] = "activity" /\ event[p].activity = a}
               whole == {e \in ToSet(session) : e.activity = a}
    <2>1. ToSet(activity[a]) \subseteq whole
      BY <1>1 DEF LogsInv, Within
    <2>2. IsFiniteSet(whole)
      <3>1. /\ DOMAIN session = 1 .. Len(session) /\ Len(session) \in Nat
            /\ session \in [1 .. Len(session) -> Event]
        BY <1>1, LenProperties DEF LogsInv, EventTypes
      <3>2. IsFiniteSet(ToSet(session))
        <4>1. session \in Surjection(1 .. Len(session), ToSet(session))
          <5>1. /\ session \in [1 .. Len(session) -> ToSet(session)]
                /\ \A e \in ToSet(session) : \E i \in 1 .. Len(session) : session[i] = e
            BY <3>1 DEF ToSet
          <5>2. QED
            BY <5>1 DEF Surjection
        <4>2. QED
          BY <3>1, <4>1, FS_Interval, FS_Surjection
      <3>3. QED
        BY <3>2, FS_Subset
    <2>3. Len(activity[a]) <= Cardinality(whole)
      <3>1. activity[a] \in Seq(Event) /\ OneToOne(activity[a])
        BY <1>1 DEF LogsInv, EventTypes, Within
      <3> HIDE DEF whole
      <3>2. QED
        BY <2>1, <2>2, <3>1, OneToOneLength
    <2>4. crashes = 0 /\ failures = 0 =>
            whole = ToSet(activity[a]) \cup {event[p] : p \in underWay}
      BY <1>1, <2>1 DEF LogsInv, Within, Numbered
    <2>5. QED
      BY <2>1, <2>3, <2>4
  <1>2. QED
    BY <1>1, LogsInvInit, LogsInvNext, PTL DEF Spec

-----------------------------------------------------------------------------
(***************************************************************************)
(* Requests one at a time: a publication is over before the next begins,   *)
(* so that both logs are in the order of the events' numbers.              *)
(***************************************************************************)
Ascending(s) == \A i, j \in DOMAIN s : i < j => s[i].n < s[j].n

OrderInv ==
  /\ \A p, q \in Busy : p = q
  /\ \A p \in Busy : event[p].n = begun
  /\ Ascending(session)
  /\ \A a \in Activity : Ascending(activity[a])

LEMMA AppendAscending ==
  ASSUME NEW s \in Seq(Event), NEW e \in Event, Ascending(s), \A d \in ToSet(s) : d.n < e.n
  PROVE  Ascending(Append(s, e))
  <1>1. /\ DOMAIN Append(s, e) = DOMAIN s \cup {Len(s) + 1}
        /\ DOMAIN s = 1 .. Len(s) /\ Len(s) \in Nat
        /\ \A i \in DOMAIN s : Append(s, e)[i] = s[i]
        /\ Append(s, e)[Len(s) + 1] = e
    BY AppendFacts
  <1>2. \A i \in DOMAIN s : s[i].n < e.n
    BY DEF ToSet
  <1>3. QED
    BY <1>1, <1>2 DEF Ascending

LEMMA OrderInvNext ==
  ASSUME host = "alone", LogsInv, OrderInv, [Next]_vars
  PROVE  OrderInv'
  <1>0. /\ session \in Seq(Event) /\ activity \in [Activity -> Seq(Event)] /\ begun \in Nat
        /\ pc \in [Publisher -> {"idle", "session", "activity"}]
        /\ event \in [Publisher -> Event \cup {NoEvent}]
        /\ \A e \in Event : e.n \in Nat
    <2>1. \A e \in Event : e.n \in Nat
      BY DEF Event
    <2>2. QED
      BY <2>1, BoundAssumption DEF LogsInv, EventTypes
  <1>1. CASE UNCHANGED vars
    BY <1>1 DEF vars, OrderInv, Busy, Ascending
  <1>2. CASE Crash
    BY <1>2 DEF Crash, OrderInv, Busy, Ascending
  <1>3. ASSUME NEW p \in Publisher, MayStep(p), Publish(p) PROVE OrderInv'
    <2>1. /\ Busy' = {p} /\ event'[p].n = begun'
          /\ UNCHANGED <<session, activity>>
      BY <1>0, <1>3 DEF MayStep, Publish, Goto, Busy
    <2>2. QED
      BY <2>1 DEF OrderInv, Ascending
  <1>4. ASSUME NEW p \in Publisher, AppendToSession(p) PROVE OrderInv'
    <2>1. /\ pc[p] = "session" /\ event[p] \in Event /\ event[p].n = begun
          /\ session' = Append(session, event[p])
          /\ UNCHANGED <<activity, begun>>
      BY <1>4 DEF AppendToSession, LogsInv, Numbered, OrderInv, Busy
    <2>2. \A e \in ToSet(session) : e \in Event /\ e.n < begun
      <3>1. \A e \in ToSet(session) : e \in Event
        BY <1>0, LenProperties DEF ToSet
      <3>2. \A e \in ToSet(session) : e.n <= begun /\ e.n # event[p].n
        BY <2>1 DEF LogsInv, Numbered
      <3>3. QED
        BY <1>0, <2>1, <3>1, <3>2
    <2>3. Ascending(session')
      BY <1>0, <2>1, <2>2, AppendAscending DEF OrderInv
    <2>4. \A q \in Publisher : pc'[q] # "idle" => pc[q] # "idle" /\ event'[q] = event[q]
      BY <1>0, <1>4 DEF AppendToSession, AfterSession, Return, Goto
    <2>5. QED
      BY <2>1, <2>3, <2>4 DEF OrderInv, Busy, Ascending
  <1>5. ASSUME NEW p \in Publisher, AppendToActivity(p) PROVE OrderInv'
    <2>1. PICK a \in Activity :
            /\ a = event[p].activity /\ pc[p] = "activity" /\ event[p] \in Event
            /\ event[p].n = begun /\ event[p] \in ToSet(session)
            /\ activity' = [activity EXCEPT ![a] = Append(@, event[p])]
            /\ UNCHANGED <<session, begun>>
      BY <1>5 DEF AppendToActivity, LogsInv, Numbered, OrderInv, Busy
    <2>2. \A e \in ToSet(activity[a]) : e \in Event /\ e.n < begun
      <3>1. \A e \in ToSet(session) : e \in Event /\ e.n <= begun
        BY <1>0, LenProperties DEF ToSet, LogsInv, Numbered
      <3>2. \A d, e \in ToSet(session) : d.n = e.n => d = e
        BY DEF ToSet, LogsInv, Numbered
      <3>3. \A e \in ToSet(activity[a]) : e \in ToSet(session) /\ e # event[p]
        BY <2>1 DEF LogsInv, Within
      <3>4. QED
        BY <1>0, <2>1, <3>1, <3>2, <3>3
    <2>3. activity'[a] = Append(activity[a], event[p]) /\ activity[a] \in Seq(Event)
      BY <1>0, <2>1
    <2>4. Ascending(activity'[a])
      BY <2>1, <2>2, <2>3, AppendAscending DEF OrderInv
    <2>5. \A b \in Activity \ {a} : activity'[b] = activity[b]
      BY <1>0, <2>1
    <2>6. \A q \in Publisher : pc'[q] # "idle" => pc[q] # "idle" /\ event'[q] = event[q]
      BY <1>0, <1>5 DEF AppendToActivity, Return, Goto
    <2>7. \A b \in Activity : Ascending(activity'[b])
      BY <2>4, <2>5 DEF OrderInv
    <2>8. QED
      BY <2>1, <2>6, <2>7 DEF OrderInv, Busy, Ascending
  <1>6. ASSUME NEW p \in Publisher, Raise(p) PROVE OrderInv'
    <2>1. \A q \in Publisher : pc'[q] # "idle" => pc[q] # "idle" /\ event'[q] = event[q]
      BY <1>0, <1>6 DEF Raise, Return, Goto
    <2>2. UNCHANGED <<session, activity, begun>>
      BY <1>6 DEF Raise
    <2>3. QED
      BY <2>1, <2>2 DEF OrderInv, Busy, Ascending
  <1>7. QED
    BY <1>1, <1>2, <1>3, <1>4, <1>5, <1>6 DEF Next, Work, Done

\* The host is chosen once.
LEMMA HostStays == [Next]_vars => host' = host
  BY DEF Next, Work, Done, Publish, AppendToSession, AppendToActivity, Raise, Crash, vars

\* A reader of an activity's stream and a reader of its session's see the same order,
\* whatever crashes and failures cut off, where requests run one at a time.
THEOREM LoopKeepsOrder == Spec => [](host = "alone" => SameOrder)
  <1> DEFINE I == host = "alone" => OrderInv
  <1>1. Init => I
    BY EmptySeq DEF Init, OrderInv, Busy, Ascending
  <1>2. LogsInv /\ I /\ [Next]_vars => I'
    BY OrderInvNext, HostStays
  <1>3. ASSUME LogsInv, OrderInv PROVE SameOrder
    <2> SUFFICES ASSUME NEW a \in Activity, NEW i \in DOMAIN activity[a], NEW j \in DOMAIN activity[a],
                        NEW k \in DOMAIN session, NEW l \in DOMAIN session, i < j,
                        session[k] = activity[a][i], session[l] = activity[a][j]
                 PROVE  k < l
      BY DEF SameOrder
    <2>1. session[k].n < session[l].n
      BY <1>3 DEF OrderInv, Ascending
    <2>2. k \in Nat /\ l \in Nat /\ session[k].n \in Nat /\ session[l].n \in Nat
      <3>1. DOMAIN session \subseteq Nat /\ session[k] \in Event /\ session[l] \in Event
        BY <1>3, LenProperties DEF LogsInv, EventTypes
      <3>2. QED
        BY <3>1 DEF Event
    <2>3. l < k => session[l].n < session[k].n
      BY <1>3 DEF OrderInv, Ascending
    <2>4. QED
      BY <2>1, <2>2, <2>3
  <1>4. LogsInv /\ I => (host = "alone" => SameOrder)
    BY <1>3
  <1> HIDE DEF I
  <1>5. QED
    BY <1>1, <1>2, <1>4, LogsInvInit, LogsInvNext, PTL DEF Spec

-----------------------------------------------------------------------------
(***************************************************************************)
(* The economy publishes through EventLog and in no other way.             *)
(***************************************************************************)
LEMMA PublishingIsWork ==
  ASSUME NEW p \in Publisher, Go(p)
  PROVE  [Next]_vars
  <1>1. CASE Publishing(p)
    BY <1>1 DEF Publishing, Next
  <1>2. CASE Find(p)
    <2>1. MayStep(p)
      BY DEF Go, MayGoOn, MayStep, Free, Busy
    <2>2. UNCHANGED vars \/ Publish(p)
      BY <1>2 DEF Find
    <2>3. QED
      BY <2>1, <2>2 DEF Next, Work
  <1>3. CASE UNCHANGED vars
    BY <1>3
  <1>4. CASE Fail(p)
    BY <1>4 DEF Fail, Go, MayGoOn, MayStep, Free, Busy, Next
  <1>5. QED
    BY <1>1, <1>2, <1>3, <1>4 DEF Go, Issue, Settle, Decide, Create, Confirm, Record, Dispute,
       Export, Read, Answer

LEMMA EconomyStepIsLogStep == [EconomyNext]_<<vars, economy>> => [Next]_vars
  <1> SUFFICES ASSUME [EconomyNext]_<<vars, economy>> PROVE [Next]_vars
    OBVIOUS
  <1>1. CASE UNCHANGED <<vars, economy>>
    BY <1>1
  <1>2. CASE CrashAndRestart
    BY <1>2 DEF CrashAndRestart, Next
  <1>3. QED
    BY <1>1, <1>2, PublishingIsWork DEF EconomyNext

\* FPServer's other requests are publishers of EventLog and nothing else to it, so
\* that what holds of the two logs holds beside receipts and audits.
THEOREM EconomyPublishes == EconomySpec => Spec
  <1>1. EconomyInit => Init
    BY DEF EconomyInit
  <1>2. QED
    BY <1>1, EconomyStepIsLogStep, PTL DEF EconomySpec, Spec

\* Beside receipts, settlements and audits too, on either host, an activity's log stays
\* within the session's, and is behind only for an event under way or cut off.
THEOREM LogsAgreeInEconomy == EconomySpec => []ActivityWithinSession
  BY EconomyPublishes, LogsAgree, PTL

-----------------------------------------------------------------------------
(***************************************************************************)
(* Types of the economy.  A request's subject is of receipts there are.    *)
(***************************************************************************)
EconomyTypes ==
  /\ receipts \in Seq(Receipt) /\ Len(receipts) <= MaxReceipts
  /\ settlements \in Seq(Settlement)
  /\ disputes \in Nat
  /\ decisions \in Seq(Decision)
  /\ tells \in [1 .. MaxEvents -> 0 .. Len(receipts)]
  /\ at \in [Publisher -> {"idle", "find", "decide", "create", "answer"} \cup Part]
  /\ subject \in [Publisher -> SUBSET (1 .. Len(receipts))]
  /\ bundle \in [Publisher -> [Part -> Nat]]
  /\ \A p \in Publisher : bundle[p]["events"] <= BundleLimit

SignerTypes == signer \in Signer /\ Signs(crashes, signer)

\* What one request's step leaves of the others', and of what only a restart changes.
LEMMA OneRequestMoves ==
  ASSUME EconomyTypes, NEW p \in Publisher, Go(p)
  PROVE  /\ \A q \in Publisher \ {p} :
              at'[q] = at[q] /\ subject'[q] = subject[q] /\ bundle'[q] = bundle[q]
         /\ UNCHANGED <<signer, crashes, host>>
  <1>1. CASE Publishing(p)
    BY <1>1 DEF Publishing, Work, Publish, AppendToSession, AppendToActivity, economy
  <1>2. CASE Find(p)
    BY <1>2 DEF Find, Publish, Finish, Arrive, vars, EconomyTypes
  <1>3. CASE Issue(p) \/ Settle(p) \/ Decide(p) \/ Create(p)
    BY <1>3 DEF Issue, Settle, Decide, Create, Finish, Arrive, vars, ledger, EconomyTypes
  <1>4. CASE Confirm(p) \/ Record(p) \/ Dispute(p)
    BY <1>4 DEF Confirm, Record, Dispute, vars
  <1>5. CASE Export(p) \/ Read(p) \/ Answer(p)
    BY <1>5 DEF Export, Read, Answer, Finish, Arrive, vars, ledger, EconomyTypes
  <1>6. CASE Fail(p)
    BY <1>6 DEF Fail, Raise, Finish, Arrive, EconomyTypes
  <1>7. QED
    BY <1>1, <1>2, <1>3, <1>4, <1>5, <1>6 DEF Go

\* The four reads of audit_bundle.
Reads(p, part, next) ==
  /\ at[p] = part /\ at' = [at EXCEPT ![p] = next]
  /\ bundle' = [bundle EXCEPT ![p][part] = ThereIs(part)]

LEMMA ReadFacts ==
  ASSUME NEW p \in Publisher, Read(p)
  PROVE  /\ UNCHANGED <<vars, ledger, signer, subject>>
         /\ \/ Reads(p, "events", "decisions")
            \/ Reads(p, "decisions", "receipts")
            \/ Reads(p, "receipts", "settlements")
            \/ Reads(p, "settlements", "answer")
  <1>1. PICK i \in 1 .. Len(ReadOrder) - 1 : Reads(p, ReadOrder[i], ReadOrder[i + 1])
    BY DEF Read, Arrive, Reads
  <1>2. /\ Len(ReadOrder) - 1 = 4
        /\ ReadOrder[1] = "events" /\ ReadOrder[2] = "decisions" /\ ReadOrder[3] = "receipts"
        /\ ReadOrder[4] = "settlements" /\ ReadOrder[5] = "answer"
    BY DEF ReadOrder
  <1>3. i \in 1 .. 4
    BY <1>1, <1>2
  <1>4. CASE i = 1
    <2>1. ReadOrder[i] = "events" /\ ReadOrder[i + 1] = "decisions"
      BY <1>2, <1>4
    <2>2. QED
      BY <1>1, <1>2, <2>1 DEF Reads, Read
  <1>5. CASE i = 2
    <2>1. ReadOrder[i] = "decisions" /\ ReadOrder[i + 1] = "receipts"
      BY <1>2, <1>5
    <2>2. QED
      BY <1>1, <1>2, <2>1 DEF Reads, Read
  <1>6. CASE i = 3
    <2>1. ReadOrder[i] = "receipts" /\ ReadOrder[i + 1] = "settlements"
      BY <1>2, <1>6
    <2>2. QED
      BY <1>1, <1>2, <2>1 DEF Reads, Read
  <1>7. CASE i = 4
    <2>1. ReadOrder[i] = "settlements" /\ ReadOrder[i + 1] = "answer"
      BY <1>2, <1>7
    <2>2. QED
      BY <1>1, <1>2, <2>1 DEF Reads, Read
  <1>8. QED
    BY <1>3, <1>4, <1>5, <1>6, <1>7 DEF Read

LEMMA ThereIsFacts ==
  ASSUME LogsInv, EconomyTypes
  PROVE  /\ \A part \in Part : ThereIs(part) \in Nat
         /\ ThereIs("events") <= BundleLimit /\ ThereIs("events") <= Len(session)
         /\ ThereIs("decisions") = Len(decisions)
         /\ ThereIs("receipts") = Len(receipts)
         /\ ThereIs("settlements") = Len(settlements)
  <1>1. /\ Len(session) \in Nat /\ Len(decisions) \in Nat
        /\ Len(receipts) \in Nat /\ Len(settlements) \in Nat
    BY LenProperties DEF LogsInv, EventTypes, EconomyTypes
  <1>2. QED
    BY <1>1, EconomyBoundAssumption DEF ThereIs, Replayed, Part

LEMMA EconomyTypesInit == EconomyInit => EconomyTypes /\ SignerTypes
  <1> SUFFICES ASSUME EconomyInit PROVE EconomyTypes /\ SignerTypes
    OBVIOUS
  <1>1. /\ <<>> \in Seq(Receipt) /\ <<>> \in Seq(Settlement) /\ <<>> \in Seq(Decision)
        /\ Len(<<>>) = 0
    BY EmptySeq
  <1>2. EconomyTypes
    BY <1>1, EconomyBoundAssumption DEF EconomyInit, EconomyTypes, NothingRead, Part
  <1>3. SignerTypes
    BY DEF EconomyInit, Init, SignerTypes
  <1>4. QED
    BY <1>2, <1>3

\* The end of a request keeps the types of what it worked with.
LEMMA FinishKeeps ==
  ASSUME EconomyTypes, NEW p \in Publisher, Finish(p), receipts' = receipts
  PROVE  /\ at' \in [Publisher -> {"idle", "find", "decide", "create", "answer"} \cup Part]
         /\ subject' \in [Publisher -> SUBSET (1 .. Len(receipts'))]
         /\ bundle' \in [Publisher -> [Part -> Nat]]
         /\ \A q \in Publisher : bundle'[q]["events"] <= BundleLimit
  <1>1. NothingRead \in [Part -> Nat] /\ NothingRead["events"] = 0
    BY DEF NothingRead, Part
  <1>2. QED
    BY <1>1, EconomyBoundAssumption DEF Finish, Arrive, EconomyTypes

LEMMA EconomyTypesNext ==
  LogsInv /\ EconomyTypes /\ SignerTypes /\ [EconomyNext]_<<vars, economy>> => EconomyTypes'
  <1> SUFFICES ASSUME LogsInv, EconomyTypes, SignerTypes, [EconomyNext]_<<vars, economy>>
               PROVE  EconomyTypes'
    OBVIOUS
  <1>0. /\ Len(receipts) \in Nat /\ DOMAIN receipts = 1 .. Len(receipts)
        /\ Len(receipts) <= MaxReceipts /\ begun \in Nat
        /\ DOMAIN settlements = 1 .. Len(settlements)
        /\ signer \in Signer /\ crashes \in Process
    BY LenProperties, BoundAssumption DEF EconomyTypes, SignerTypes, LogsInv, EventTypes, Process
  <1>1. CASE UNCHANGED <<vars, economy>>
    BY <1>1 DEF economy, ledger, EconomyTypes
  <1>2. CASE CrashAndRestart
    BY <1>2, EconomyBoundAssumption DEF CrashAndRestart, ledger, EconomyTypes, NothingRead, Part
  <1>3. ASSUME NEW p \in Publisher, Go(p) PROVE EconomyTypes'
    <2>1. CASE Publishing(p)
      BY <2>1 DEF Publishing, economy, ledger, EconomyTypes
    <2>2. CASE Issue(p)
      <3>1. PICK r \in Receipt : receipts' = Append(receipts, r)
        BY <2>2, <1>0 DEF Issue, Receipt
      <3>2. receipts' \in Seq(Receipt) /\ Len(receipts') = Len(receipts) + 1
        BY <3>1, AppendProperties DEF EconomyTypes
      <3>3. Len(receipts') <= MaxReceipts
        BY <2>2, <1>0, <3>2, EconomyBoundAssumption DEF Issue
      <3>4. /\ at' = [at EXCEPT ![p] = "find"]
            /\ subject' = [subject EXCEPT ![p] = {Len(receipts) + 1}]
            /\ UNCHANGED <<settlements, disputes, decisions, tells, bundle>>
        BY <2>2 DEF Issue, Arrive
      <3>5. QED
        BY <1>0, <3>2, <3>3, <3>4 DEF EconomyTypes
    <2>3. CASE Find(p)
      <3>1. receipts' = receipts /\ Finish(p) /\ UNCHANGED <<settlements, disputes, decisions>>
        BY <2>3 DEF Find
      <3>2. tells' \in [1 .. MaxEvents -> 0 .. Len(receipts)]
        <4>1. PICK r \in subject[p] :
                tells' = tells \/ (begun < MaxEvents /\ tells' = [tells EXCEPT ![begun + 1] = r])
          BY <2>3 DEF Find, Publish
        <4>2. r \in 0 .. Len(receipts)
          BY <4>1, <1>0 DEF EconomyTypes
        <4>3. QED
          BY <4>1, <4>2 DEF EconomyTypes
      <3>3. QED
        BY <3>1, <3>2, FinishKeeps DEF EconomyTypes
    <2>4. CASE Settle(p)
      BY <2>4, <1>0 DEF Settle, Arrive, ledger, EconomyTypes
    <2>5. CASE Decide(p)
      <3>1. PICK allowed \in BOOLEAN :
              /\ decisions' = Append(decisions, [receipts |-> subject[p], allowed |-> allowed,
                                                by |-> "policy"])
              /\ IF allowed THEN Arrive(p, "create") /\ UNCHANGED <<subject, bundle>>
                            ELSE Finish(p)
        BY <2>5 DEF Decide
      <3>2. [receipts |-> subject[p], allowed |-> allowed, by |-> "policy"] \in Decision
        BY <1>0, EconomyBoundAssumption DEF EconomyTypes, Decision, Refs
      <3>3. decisions' \in Seq(Decision)
        BY <3>1, <3>2, AppendProperties DEF EconomyTypes
      <3>4. UNCHANGED <<receipts, settlements, disputes, tells>>
        BY <2>5 DEF Decide
      <3>5. CASE Finish(p)
        BY <3>3, <3>4, <3>5, FinishKeeps DEF EconomyTypes
      <3>6. CASE Arrive(p, "create") /\ UNCHANGED <<subject, bundle>>
        BY <3>3, <3>4, <3>6 DEF EconomyTypes, Arrive
      <3>7. QED
        BY <3>1, <3>5, <3>6
    <2>6. CASE Create(p)
      <3>1. subject[p] # {} => Requested(subject[p]) \in Settlement
        BY <1>0, EconomyBoundAssumption DEF EconomyTypes, Settlement, Refs, Requested
      <3>2. settlements' \in Seq(Settlement)
        BY <2>6, <3>1, AppendProperties DEF Create, EconomyTypes
      <3>3. UNCHANGED <<receipts, disputes, decisions, tells>> /\ Finish(p)
        BY <2>6 DEF Create
      <3>4. QED
        BY <3>2, <3>3, FinishKeeps DEF EconomyTypes
    <2>7. CASE Confirm(p)
      <3>1. PICK s \in 1 .. Len(settlements) :
              settlements' = [settlements EXCEPT ![s] = Confirmed(@)]
        BY <2>7, <1>0 DEF Confirm
      <3>2. settlements[s] \in Settlement
        BY ElementOfSeq DEF EconomyTypes
      <3>3. Confirmed(settlements[s]) \in Settlement
        BY <3>2 DEF Settlement, Confirmed
      <3>4. settlements' = [settlements EXCEPT ![s] = Confirmed(settlements[s])]
        BY <3>1
      <3>5. settlements' \in Seq(Settlement)
        BY <3>3, <3>4, ExceptSeq DEF EconomyTypes
      <3>6. QED
        BY <2>7, <3>5 DEF Confirm, EconomyTypes
    <2>8. CASE Record(p)
      <3>1. PICK refs \in SUBSET (1 .. Len(receipts)), allowed \in BOOLEAN :
              decisions' = Append(decisions, [receipts |-> refs, allowed |-> allowed,
                                              by |-> "caller"])
        BY <2>8 DEF Record
      <3>2. [receipts |-> refs, allowed |-> allowed, by |-> "caller"] \in Decision
        BY <1>0, EconomyBoundAssumption DEF Decision, Refs
      <3>3. decisions' \in Seq(Decision)
        BY <3>1, <3>2, AppendProperties DEF EconomyTypes
      <3>4. QED
        BY <2>8, <3>3 DEF Record, EconomyTypes
    <2>9. CASE Dispute(p)
      BY <2>9 DEF Dispute, EconomyTypes
    <2>10. CASE Export(p)
      <3>1. Head(ReadOrder) = "events"
        BY DEF ReadOrder
      <3>2. QED
        BY <2>10, <3>1 DEF Export, Arrive, ledger, EconomyTypes, Part
    <2>11. CASE Read(p)
      <3>1. UNCHANGED <<receipts, settlements, disputes, decisions, tells, subject>>
        BY <2>11, ReadFacts DEF ledger
      <3>2. ASSUME NEW part \in Part, NEW next \in Part \cup {"answer"}, Reads(p, part, next)
            PROVE  EconomyTypes'
        BY <3>1, <3>2, ThereIsFacts DEF Reads, EconomyTypes
      <3>3. QED
        BY <2>11, <3>2, ReadFacts DEF Part
    <2>12. CASE Answer(p)
      BY <2>12, FinishKeeps DEF Answer, ledger, EconomyTypes
    <2>13. CASE Fail(p)
      BY <2>13, FinishKeeps DEF Fail, ledger, EconomyTypes
    <2>14. QED
      BY <1>3, <2>1, <2>2, <2>3, <2>4, <2>5, <2>6, <2>7, <2>8, <2>9, <2>10, <2>11, <2>12, <2>13
      DEF Go
  <1>4. QED
    BY <1>1, <1>2, <1>3 DEF EconomyNext

LEMMA SignerTypesNext ==
  LogsInv /\ EconomyTypes /\ SignerTypes /\ [EconomyNext]_<<vars, economy>> => SignerTypes'
  <1> SUFFICES ASSUME LogsInv, EconomyTypes, SignerTypes, [EconomyNext]_<<vars, economy>>
               PROVE  SignerTypes'
    OBVIOUS
  <1>1. CASE UNCHANGED <<signer, crashes>>
    BY <1>1 DEF SignerTypes
  <1>2. CASE CrashAndRestart
    BY <1>2 DEF CrashAndRestart, SignerTypes
  <1>3. QED
    BY <1>1, <1>2, OneRequestMoves DEF EconomyNext, economy, vars

EconomyInv == LogsInv /\ EconomyTypes /\ SignerTypes

LEMMA EconomyInvInit == EconomyInit => EconomyInv
  BY LogsInvInit, EconomyTypesInit DEF EconomyInit, EconomyInv

LEMMA EconomyInvNext == EconomyInv /\ [EconomyNext]_<<vars, economy>> => EconomyInv'
  BY EconomyStepIsLogStep, LogsInvNext, EconomyTypesNext, SignerTypesNext DEF EconomyInv

-----------------------------------------------------------------------------
(***************************************************************************)
(* Receipts.  A process signs with the secret or with a key pair that is   *)
(* its own, so that who issued a receipt and how it is signed tell whether *)
(* the running process has the key that checks it.                         *)
(***************************************************************************)
IssuedInv ==
  \A r \in DOMAIN receipts :
    /\ Signs(receipts[r].issuer, receipts[r].proof)
    /\ receipts[r].issuer <= crashes
    /\ receipts[r].issuer = crashes => receipts[r].proof = signer

LEMMA IssuedInvInit == EconomyInit => IssuedInv
  <1>1. DOMAIN <<>> = {}
    OBVIOUS
  <1>2. QED
    BY <1>1 DEF EconomyInit, IssuedInv

LEMMA IssuedInvNext ==
  ASSUME EconomyInv, IssuedInv, [EconomyNext]_<<vars, economy>>
  PROVE  IssuedInv'
  <1>0. /\ receipts \in Seq(Receipt) /\ crashes \in Nat /\ crashes \in Process
        /\ \A r \in DOMAIN receipts : receipts[r].issuer \in Nat
        /\ signer \in Signer /\ Signs(crashes, signer)
    <2>1. \A r \in DOMAIN receipts : receipts[r] \in Receipt
      BY LenProperties DEF EconomyInv, EconomyTypes
    <2>2. QED
      BY <2>1, BoundAssumption
      DEF EconomyInv, EconomyTypes, SignerTypes, LogsInv, EventTypes, Receipt, Process
  <1>1. CASE UNCHANGED <<signer, crashes, receipts>>
    BY <1>1 DEF IssuedInv
  <1>2. CASE CrashAndRestart
    <2>1. crashes' = crashes + 1 /\ receipts' = receipts
      BY <1>2 DEF CrashAndRestart, Crash, ledger
    <2>2. QED
      BY <1>0, <2>1 DEF IssuedInv
  <1>3. ASSUME NEW p \in Publisher, Issue(p) PROVE IssuedInv'
    <2>1. PICK r \in Receipt : /\ receipts' = Append(receipts, r)
                               /\ r.proof = signer /\ r.issuer = crashes
      BY <1>0, <1>3 DEF Issue, Receipt
    <2>2. /\ DOMAIN receipts' = DOMAIN receipts \cup {Len(receipts) + 1}
          /\ \A i \in DOMAIN receipts : receipts'[i] = receipts[i]
          /\ receipts'[Len(receipts) + 1] = r
      BY <1>0, <2>1, AppendFacts
    <2>3. UNCHANGED <<signer, crashes>>
      BY <1>3 DEF Issue, vars
    <2>4. QED
      BY <1>0, <2>1, <2>2, <2>3 DEF IssuedInv
  <1>4. ASSUME NEW p \in Publisher, Go(p), ~Issue(p) PROVE receipts' = receipts
    BY <1>4 DEF Go, Publishing, Find, Settle, Decide, Create, Confirm, Record, Dispute,
       Export, Read, Answer, Fail, economy, ledger
  <1>5. ASSUME NEW p \in Publisher, Go(p) PROVE UNCHANGED <<signer, crashes>>
    BY <1>5, OneRequestMoves DEF EconomyInv
  <1>6. CASE UNCHANGED <<vars, economy>>
    BY <1>1, <1>6 DEF vars, economy, ledger
  <1>7. QED
    BY <1>1, <1>2, <1>3, <1>4, <1>5, <1>6 DEF EconomyNext

\* What a receipt depends on to verify: the secret, or the process that issued it,
\* and over SQLite a quantity that the codec leaves as it was; so a restart that
\* signs with a key pair leaves those of earlier key pairs unverified for ever.
THEOREM WhichReceiptsVerify == EconomySpec => []ReceiptsVerify
  <1>1. ASSUME EconomyInv, IssuedInv PROVE ReceiptsVerify
    <2> SUFFICES ASSUME NEW r \in DOMAIN receipts
                 PROVE  Verifies(receipts[r]) <=>
                          /\ receipts[r].issuer = crashes \/ receipts[r].proof = Secret
                          /\ host = "threads" \/ receipts[r].metered.quantity = "float"
      BY DEF ReceiptsVerify
    <2> DEFINE receipt == receipts[r]
    <2>1. receipt \in Receipt /\ host \in Host
      BY <1>1, LenProperties DEF EconomyInv, EconomyTypes, LogsInv, EventTypes
    <2>2. /\ receipt.proof \in {Secret, receipt.issuer} /\ signer \in {Secret, crashes}
          /\ receipt.issuer = crashes => receipt.proof = signer
      BY <1>1 DEF IssuedInv, EconomyInv, SignerTypes, Signs, KeyPair
    <2> HIDE DEF receipt
    <2>3. KeyFor(receipt.proof) = receipt.proof <=>
            receipt.issuer = crashes \/ receipt.proof = Secret
      BY <2>2 DEF KeyFor
    <2>4. Payload(Loaded(receipt)) = Payload(receipt) <=>
            host = "threads" \/ receipt.metered.quantity = "float"
      <3>1. CASE host = "threads"
        BY <3>1 DEF Loaded
      <3>2. CASE host = "alone"
        <4>1. receipt.metered \in MeterRecord
          BY <2>1 DEF Receipt
        <4>2. Payload(Loaded(receipt)) = DecodedRecord(receipt.metered)
          BY <2>1, <3>2 DEF Payload, Loaded, Receipt
        <4>3. DecodedRecord(receipt.metered) = receipt.metered
                <=> receipt.metered.quantity = "float"
          BY <4>1 DEF DecodedRecord, MeterRecord
        <4>4. QED
          BY <3>2, <4>2, <4>3 DEF Payload
      <3>3. QED
        BY <2>1, <3>1, <3>2 DEF Host
    <2>5. QED
      BY <2>3, <2>4 DEF Verifies, Made, receipt
  <1>2. QED
    BY <1>1, EconomyInvInit, EconomyInvNext, IssuedInvInit, IssuedInvNext, PTL DEF EconomySpec

-----------------------------------------------------------------------------
(***************************************************************************)
(* Bundles.  The log only grows, and what an event tells is settled before *)
(* it is in the log; so the receipts that a bundle's events tell of are    *)
(* there when the audit comes to read the receipts, after the events.      *)
(***************************************************************************)
Backed(p) ==
  \A i \in 1 .. bundle[p]["events"] : tells[session[i].n] <= bundle[p]["receipts"]

BundleInv ==
  \A p \in Publisher :
    /\ bundle[p]["events"] <= Len(session)
    /\ at[p] \in {"settlements", "answer"} => Backed(p)

LEMMA BundleInvInit == EconomyInit => BundleInv
  BY EmptySeq DEF EconomyInit, Init, BundleInv, NothingRead, Part

\* An event in the log has been begun, and tells of a receipt there is, or of none.
LEMMA LoggedEvents ==
  ASSUME EconomyInv
  PROVE  /\ session \in Seq(Event) /\ Len(session) \in Nat /\ begun \in Nat
         /\ Len(receipts) \in Nat
         /\ tells \in [1 .. MaxEvents -> 0 .. Len(receipts)]
         /\ \A i \in 1 .. Len(session) : /\ session[i].n \in 1 .. MaxEvents
                                         /\ session[i].n # begun + 1
                                         /\ tells[session[i].n] \in 0 .. Len(receipts)
  <1>1. session \in Seq(Event) /\ Len(session) \in Nat /\ begun \in Nat /\ Len(receipts) \in Nat
    BY LenProperties, BoundAssumption DEF EconomyInv, EconomyTypes, LogsInv, EventTypes
  <1>2. tells \in [1 .. MaxEvents -> 0 .. Len(receipts)]
    BY DEF EconomyInv, EconomyTypes
  <1>3. \A i \in 1 .. Len(session) : session[i] \in Event /\ session[i] \in ToSet(session)
    BY <1>1, LenProperties DEF ToSet
  <1>4. \A i \in 1 .. Len(session) : session[i].n \in 1 .. MaxEvents /\ session[i].n # begun + 1
    BY <1>1, <1>3 DEF EconomyInv, LogsInv, Numbered, Event
  <1>5. QED
    BY <1>1, <1>2, <1>4

\* What is in the log stays there and goes on telling of the same receipt.
LEMMA LogStays ==
  ASSUME EconomyInv, [EconomyNext]_<<vars, economy>>
  PROVE  /\ Len(session) \in Nat /\ Len(session') \in Nat /\ Len(session) <= Len(session')
         /\ \A i \in 1 .. Len(session) :
              /\ session'[i] = session[i]
              /\ tells'[session[i].n] = tells[session[i].n]
  <1>1. CASE UNCHANGED <<session, tells>>
    BY <1>1, LoggedEvents
  <1>2. ASSUME NEW p \in Publisher, Find(p)
        PROVE  /\ session' = session
               /\ \A i \in 1 .. Len(session) : tells'[session[i].n] = tells[session[i].n]
    <2>1. /\ session' = session
          /\ tells' = tells \/ \E r : tells' = [tells EXCEPT ![begun + 1] = r]
      BY <1>2 DEF Find, Publish, vars
    <2>2. ASSUME NEW r, tells' = [tells EXCEPT ![begun + 1] = r], NEW i \in 1 .. Len(session)
          PROVE  tells'[session[i].n] = tells[session[i].n]
      <3>1. session[i].n \in 1 .. MaxEvents /\ session[i].n # begun + 1
        BY LoggedEvents
      <3>2. QED
        BY <2>2, <3>1, LoggedEvents
    <2>3. QED
      BY <2>1, <2>2
  <1>3. ASSUME NEW p \in Publisher, AppendToSession(p), UNCHANGED tells
        PROVE  /\ Len(session') = Len(session) + 1
               /\ \A i \in 1 .. Len(session) : session'[i] = session[i]
    <2>1. event[p] \in Event /\ session' = Append(session, event[p])
      BY <1>3 DEF AppendToSession, EconomyInv, LogsInv, Numbered
    <2>2. QED
      BY <2>1, LoggedEvents, AppendProperties
  <1>4. ASSUME NEW p \in Publisher, Go(p)
        PROVE  \/ UNCHANGED <<session, tells>> \/ Find(p)
               \/ AppendToSession(p) /\ UNCHANGED tells
    <2>1. CASE Publishing(p)
      BY <2>1 DEF Publishing, Work, Publish, AppendToActivity, economy, ledger
    <2>2. CASE Issue(p) \/ Settle(p) \/ Decide(p) \/ Create(p) \/ Confirm(p)
      BY <2>2 DEF Issue, Settle, Decide, Create, Confirm, vars, ledger
    <2>3. CASE Record(p) \/ Dispute(p) \/ Export(p) \/ Read(p) \/ Answer(p)
      BY <2>3 DEF Record, Dispute, Export, Read, Answer, vars, ledger
    <2>4. CASE Fail(p)
      BY <2>4 DEF Fail, Raise, ledger
    <2>5. QED
      BY <1>4, <2>1, <2>2, <2>3, <2>4 DEF Go
  <1>5. CASE UNCHANGED <<vars, economy>> \/ CrashAndRestart
    BY <1>1, <1>5 DEF CrashAndRestart, Crash, vars, economy, ledger
  <1>6. CASE \E p \in Publisher : Go(p)
    <2>1. PICK p \in Publisher : Go(p)
      BY <1>6
    <2>2. CASE Find(p)
      BY <1>2, <2>2, LoggedEvents
    <2>3. CASE AppendToSession(p) /\ UNCHANGED tells
      BY <1>3, <2>3, LoggedEvents
    <2>4. QED
      BY <1>1, <1>4, <2>1, <2>2, <2>3
  <1>7. QED
    BY <1>5, <1>6 DEF EconomyNext

LEMMA BundleInvNext ==
  ASSUME EconomyInv, BundleInv, [EconomyNext]_<<vars, economy>>
  PROVE  BundleInv'
  <1>0. /\ \A p \in Publisher : bundle[p]["events"] \in Nat /\ bundle[p]["receipts"] \in Nat
        /\ at \in [Publisher -> {"idle", "find", "decide", "create", "answer"} \cup Part]
        /\ bundle \in [Publisher -> [Part -> Nat]]
    BY DEF EconomyInv, EconomyTypes, Part
  \* A request that keeps what it has read still has it backed.
  <1>1. ASSUME NEW p \in Publisher, bundle'[p] = bundle[p],
               at'[p] \in {"settlements", "answer"} => at[p] \in {"settlements", "answer"}
        PROVE  /\ bundle'[p]["events"] <= Len(session')
               /\ at'[p] \in {"settlements", "answer"} => Backed(p)'
    BY <1>0, <1>1, LogStays DEF BundleInv, Backed
  \* One that has let go of it has nothing to be backed.
  <1>2. ASSUME NEW p \in Publisher, bundle'[p] = NothingRead
        PROVE  /\ bundle'[p]["events"] <= Len(session')
               /\ Backed(p)'
    BY <1>2, LogStays DEF NothingRead, Part, Backed
  <1>3. CASE UNCHANGED <<vars, economy>>
    BY <1>1, <1>3 DEF BundleInv, economy
  <1>4. CASE CrashAndRestart
    BY <1>2, <1>4 DEF BundleInv, CrashAndRestart
  <1>5. ASSUME NEW p \in Publisher, Go(p) PROVE BundleInv'
    <2>1. \A q \in Publisher \ {p} : bundle'[q] = bundle[q] /\ at'[q] = at[q]
      BY <1>5, OneRequestMoves DEF EconomyInv
    <2>2. /\ bundle'[p]["events"] <= Len(session')
          /\ at'[p] \in {"settlements", "answer"} => Backed(p)'
      <3>1. CASE Read(p)
        <4>1. UNCHANGED <<session, tells, receipts>>
          BY <3>1, ReadFacts DEF vars, ledger
        <4>2. CASE Reads(p, "events", "decisions")
          BY <1>0, <4>1, <4>2, ThereIsFacts DEF Reads, Part, EconomyInv
        <4>3. CASE Reads(p, "decisions", "receipts")
          BY <1>0, <4>1, <4>3, ThereIsFacts DEF Reads, Part, EconomyInv, BundleInv
        <4>4. CASE Reads(p, "receipts", "settlements")
          <5>1. /\ bundle'[p]["events"] = bundle[p]["events"]
                /\ bundle'[p]["receipts"] = Len(receipts)
            BY <1>0, <4>4, ThereIsFacts DEF Reads, Part, EconomyInv
          <5>2. \A i \in 1 .. Len(session) : tells[session[i].n] <= Len(receipts)
            BY LoggedEvents
          <5>3. bundle[p]["events"] \in Nat /\ bundle[p]["events"] <= Len(session)
            BY <1>0 DEF BundleInv
          <5>4. QED
            BY <4>1, <5>1, <5>2, <5>3, LoggedEvents DEF Backed
        <4>5. CASE Reads(p, "settlements", "answer")
          <5>1. /\ bundle'[p]["events"] = bundle[p]["events"]
                /\ bundle'[p]["receipts"] = bundle[p]["receipts"]
                /\ at[p] = "settlements"
            BY <1>0, <4>5 DEF Reads, Part
          <5>2. QED
            BY <4>1, <5>1 DEF BundleInv, Backed
        <4>6. QED
          BY <3>1, <4>2, <4>3, <4>4, <4>5, ReadFacts
      <3>2. CASE bundle'[p] = NothingRead
        BY <1>2, <3>2
      <3>3. CASE /\ bundle'[p] = bundle[p]
                 /\ at'[p] \in {"settlements", "answer"} => at[p] \in {"settlements", "answer"}
        BY <1>1, <3>3
      <3>4. CASE Publishing(p) \/ Confirm(p) \/ Record(p) \/ Dispute(p)
        BY <3>3, <3>4 DEF Publishing, Confirm, Record, Dispute, economy
      <3>5. CASE Issue(p) \/ Settle(p)
        BY <1>0, <3>3, <3>5 DEF Issue, Settle, Arrive
      <3>6. CASE Export(p)
        <4>1. Head(ReadOrder) = "events"
          BY DEF ReadOrder
        <4>2. QED
          BY <1>0, <3>3, <3>6, <4>1 DEF Export, Arrive
      <3>7. CASE Finish(p)
        BY <1>0, <3>2, <3>7 DEF Finish
      <3>8. CASE Decide(p) /\ ~Finish(p)
        BY <1>0, <3>3, <3>8 DEF Decide, Arrive
      <3>9. CASE Find(p) \/ Create(p) \/ Answer(p) \/ Fail(p)
        BY <3>7, <3>9 DEF Find, Create, Answer, Fail
      <3>10. QED
        BY <1>5, <3>1, <3>4, <3>5, <3>6, <3>7, <3>8, <3>9 DEF Go
    <2>3. ASSUME NEW q \in Publisher
          PROVE  /\ bundle'[q]["events"] <= Len(session')
                 /\ at'[q] \in {"settlements", "answer"} => Backed(q)'
      <3>1. CASE q = p
        BY <2>2, <3>1 DEF Backed
      <3>2. CASE q # p
        BY <1>1, <2>1, <3>2
      <3>3. QED
        BY <3>1, <3>2
    <2>4. QED
      BY <2>3 DEF BundleInv
  <1>6. QED
    BY <1>3, <1>4, <1>5 DEF EconomyNext

\* On either host, a bundle that has the event of a receipt has the receipt.
THEOREM BundlesHaveTheirReceipts == EconomySpec => []EventsComeWithReceipts
  <1>1. BundleInv => EventsComeWithReceipts
    BY DEF BundleInv, Backed, EventsComeWithReceipts
  <1>2. QED
    BY <1>1, EconomyInvInit, EconomyInvNext, BundleInvInit, BundleInvNext, PTL DEF EconomySpec

-----------------------------------------------------------------------------
(***************************************************************************)
(* Settlements.  A decision that allows one is recorded before its request *)
(* may go on to create it, and every request creates at most one: so the   *)
(* settlements of some receipts, with those about to be created, are never *)
(* more than the policy has allowed.                                       *)
(***************************************************************************)
Creating(refs) == {p \in Publisher : at[p] = "create" /\ subject[p] = refs}

AllowedInv ==
  \A refs \in Refs :
    Cardinality(SettlementsOf(refs)) + Cardinality(Creating(refs)) <= Cardinality(AllowedFor(refs))

LEMMA CountsAreFinite ==
  ASSUME EconomyTypes, NEW refs
  PROVE  /\ IsFiniteSet(SettlementsOf(refs)) /\ Cardinality(SettlementsOf(refs)) \in Nat
         /\ IsFiniteSet(AllowedFor(refs)) /\ Cardinality(AllowedFor(refs)) \in Nat
         /\ IsFiniteSet(Creating(refs)) /\ Cardinality(Creating(refs)) \in Nat
  <1>1. /\ DOMAIN settlements = 1 .. Len(settlements) /\ Len(settlements) \in Nat
        /\ DOMAIN decisions = 1 .. Len(decisions) /\ Len(decisions) \in Nat
    BY LenProperties DEF EconomyTypes
  <1>2. IsFiniteSet(DOMAIN settlements) /\ IsFiniteSet(DOMAIN decisions)
    BY <1>1, FS_Interval
  <1>3. /\ SettlementsOf(refs) \in SUBSET DOMAIN settlements
        /\ AllowedFor(refs) \in SUBSET DOMAIN decisions
        /\ Creating(refs) \in SUBSET Publisher
    BY DEF SettlementsOf, AllowedFor, Creating
  <1>4. /\ IsFiniteSet(SettlementsOf(refs)) /\ IsFiniteSet(AllowedFor(refs))
        /\ IsFiniteSet(Creating(refs))
    BY <1>2, <1>3, FS_Subset, PublisherAssumption
  <1>5. QED
    BY <1>4, FS_CardinalityType

LEMMA AllowedInvInit == EconomyInit => AllowedInv
  <1> SUFFICES ASSUME EconomyInit, NEW refs \in Refs
               PROVE  Cardinality(SettlementsOf(refs)) + Cardinality(Creating(refs))
                        <= Cardinality(AllowedFor(refs))
    BY DEF AllowedInv
  <1>1. SettlementsOf(refs) = {} /\ AllowedFor(refs) = {} /\ Creating(refs) = {}
    BY DEF EconomyInit, SettlementsOf, AllowedFor, Creating
  <1>2. QED
    BY <1>1, FS_EmptySet

\* A decision that is appended is counted if it is the policy's and allows.
LEMMA DecisionAppended ==
  ASSUME EconomyTypes, NEW refs, NEW d \in Decision, decisions' = Append(decisions, d)
  PROVE  /\ d.by = "policy" /\ d.allowed /\ d.receipts = refs =>
              AllowedFor(refs)' = AllowedFor(refs) \cup {Len(decisions) + 1}
         /\ ~(d.by = "policy" /\ d.allowed /\ d.receipts = refs) =>
              AllowedFor(refs)' = AllowedFor(refs)
         /\ Len(decisions) + 1 \notin AllowedFor(refs)
  BY AppendFacts DEF EconomyTypes, AllowedFor

LEMMA SettlementAppended ==
  ASSUME EconomyTypes, NEW refs, NEW s \in Settlement, settlements' = Append(settlements, s)
  PROVE  /\ s.receipts = refs =>
              SettlementsOf(refs)' = SettlementsOf(refs) \cup {Len(settlements) + 1}
         /\ s.receipts # refs => SettlementsOf(refs)' = SettlementsOf(refs)
  BY AppendFacts DEF EconomyTypes, SettlementsOf

\* A request that does not come from or go to the creation is not counted.
LEMMA CreatingStays ==
  ASSUME EconomyTypes, NEW p \in Publisher, Go(p), at[p] # "create", at'[p] # "create", NEW refs
  PROVE  Creating(refs)' = Creating(refs)
  BY OneRequestMoves DEF Creating

LEMMA AllowedInvNext ==
  ASSUME EconomyInv, AllowedInv, [EconomyNext]_<<vars, economy>>
  PROVE  AllowedInv'
  <1> SUFFICES ASSUME NEW refs \in Refs
               PROVE  (Cardinality(SettlementsOf(refs)) + Cardinality(Creating(refs))
                         <= Cardinality(AllowedFor(refs)))'
    BY DEF AllowedInv
  <1> DEFINE S == SettlementsOf(refs)
             C == Creating(refs)
             A == AllowedFor(refs)
  <1>0. /\ EconomyTypes /\ Cardinality(S) + Cardinality(C) <= Cardinality(A)
        /\ IsFiniteSet(S) /\ IsFiniteSet(C) /\ IsFiniteSet(A)
        /\ Cardinality(S) \in Nat /\ Cardinality(C) \in Nat /\ Cardinality(A) \in Nat
    BY CountsAreFinite DEF EconomyInv, AllowedInv
  <1>1. ASSUME S' = S, C' = C, A' = A
        PROVE  Cardinality(S') + Cardinality(C') <= Cardinality(A')
    BY <1>0, <1>1
  <1>2. CASE UNCHANGED <<vars, economy>>
    <2>1. S' = S /\ C' = C /\ A' = A
      BY <1>2 DEF economy, ledger, SettlementsOf, Creating, AllowedFor
    <2>2. QED
      BY <1>1, <2>1
  <1>3. CASE CrashAndRestart
    <2>1. S' = S /\ C' = {} /\ A' = A
      BY <1>3 DEF CrashAndRestart, ledger, SettlementsOf, Creating, AllowedFor
    <2>2. Cardinality({}) = 0
      BY FS_EmptySet
    <2>3. QED
      BY <1>0, <2>1, <2>2
  <1>4. ASSUME NEW p \in Publisher, Go(p)
        PROVE  Cardinality(S') + Cardinality(C') <= Cardinality(A')
    <2>0. /\ p \in Publisher /\ Go(p)
          /\ \A q \in Publisher \ {p} : at'[q] = at[q] /\ subject'[q] = subject[q]
      BY <1>0, <1>4, OneRequestMoves
    <2>1. CASE Decide(p)
      <3>1. PICK allowed \in BOOLEAN :
              /\ decisions' = Append(decisions, [receipts |-> subject[p], allowed |-> allowed,
                                                by |-> "policy"])
              /\ IF allowed THEN Arrive(p, "create") /\ UNCHANGED <<subject, bundle>>
                            ELSE Finish(p)
        BY <2>1 DEF Decide
      <3> DEFINE d == [receipts |-> subject[p], allowed |-> allowed, by |-> "policy"]
      <3>2. d \in Decision
        BY <1>0, LenProperties, EconomyBoundAssumption DEF EconomyTypes, Decision, Refs
      <3>3. S' = S /\ at[p] = "decide"
        BY <2>1 DEF Decide, SettlementsOf
      <3>4. CASE allowed /\ subject[p] = refs
        <4>1. /\ A' = A \cup {Len(decisions) + 1} /\ Len(decisions) + 1 \notin A
          BY <1>0, <3>1, <3>2, <3>4, DecisionAppended
        <4>2. C' = C \cup {p} /\ p \notin C
          BY <1>0, <2>0, <3>1, <3>3, <3>4 DEF Creating, Arrive, EconomyTypes
        <4> HIDE DEF S, C, A
        <4>3. Cardinality(A') = Cardinality(A) + 1 /\ Cardinality(C') = Cardinality(C) + 1
          BY <1>0, <4>1, <4>2, FS_AddElement
        <4>4. QED
          BY <1>0, <3>3, <4>3
      <3>5. CASE ~(allowed /\ subject[p] = refs)
        <4>1. A' = A
          BY <1>0, <3>1, <3>2, <3>5, DecisionAppended
        <4>2. C' = C
          BY <1>0, <2>0, <3>1, <3>3, <3>5 DEF Creating, Arrive, Finish, EconomyTypes
        <4>3. QED
          BY <1>1, <3>3, <4>1, <4>2
      <3>6. QED
        BY <3>4, <3>5
    <2>2. CASE Create(p)
      <3>1. /\ at[p] = "create" /\ at' = [at EXCEPT ![p] = "idle"] /\ A' = A
            /\ settlements' = IF subject[p] = {} THEN settlements
                 ELSE Append(settlements, Requested(subject[p]))
            /\ Requested(subject[p]).receipts = subject[p]
        BY <2>2 DEF Create, Finish, Arrive, AllowedFor, Requested
      <3>2. CASE subject[p] = refs
        <4>1. C' = C \ {p} /\ p \in C
          BY <1>0, <2>0, <3>1, <3>2 DEF Creating, EconomyTypes
        <4>2. S' = S \/ \E n : S' = S \cup {n}
          <5>1. CASE subject[p] = {}
            BY <3>1, <5>1 DEF SettlementsOf
          <5>2. CASE subject[p] # {}
            <6>1. Requested(subject[p]) \in Settlement
              BY <3>2, <5>2 DEF Settlement, Requested
            <6>2. QED
              BY <1>0, <3>1, <3>2, <5>2, <6>1, SettlementAppended
          <5>3. QED
            BY <5>1, <5>2
        <4> HIDE DEF S, C, A
        <4>3. Cardinality(C') = Cardinality(C) - 1
          BY <1>0, <4>1, FS_RemoveElement
        <4>4. Cardinality(S') <= Cardinality(S) + 1 /\ Cardinality(S') \in Nat
          <5>1. CASE S' = S
            BY <1>0, <5>1
          <5>2. ASSUME NEW n, S' = S \cup {n}
                PROVE  Cardinality(S') <= Cardinality(S) + 1 /\ Cardinality(S') \in Nat
            <6>1. Cardinality(S \cup {n}) \in {Cardinality(S), Cardinality(S) + 1}
              BY <1>0, FS_AddElement
            <6>2. QED
              BY <1>0, <5>2, <6>1
          <5>3. QED
            BY <4>2, <5>1, <5>2
        <4>5. QED
          BY <1>0, <3>1, <4>3, <4>4
      <3>3. CASE subject[p] # refs
        <4>1. C' = C
          BY <1>0, <2>0, <3>1, <3>3 DEF Creating, EconomyTypes
        <4>2. S' = S
          <5>1. CASE subject[p] = {}
            BY <3>1, <5>1 DEF SettlementsOf
          <5>2. CASE subject[p] # {}
            <6>1. Requested(subject[p]) \in Settlement
              BY <1>0, <5>2, LenProperties, EconomyBoundAssumption
              DEF EconomyTypes, Settlement, Refs, Requested
            <6>2. QED
              BY <1>0, <3>1, <3>3, <5>2, <6>1, SettlementAppended
          <5>3. QED
            BY <5>1, <5>2
        <4>3. QED
          BY <1>1, <3>1, <4>1, <4>2
      <3>4. QED
        BY <3>2, <3>3
    <2>3. CASE Confirm(p)
      <3>1. PICK s \in DOMAIN settlements : settlements' = [settlements EXCEPT ![s] = Confirmed(@)]
        BY <2>3 DEF Confirm
      <3>2. /\ DOMAIN settlements' = DOMAIN settlements
            /\ \A i \in DOMAIN settlements : settlements'[i].receipts = settlements[i].receipts
        <4>1. \A i \in DOMAIN settlements : settlements[i] \in Settlement
          BY <1>0, LenProperties DEF EconomyTypes
        <4>2. QED
          BY <3>1, <4>1 DEF Settlement, Confirmed
      <3>3. S' = S /\ C' = C /\ A' = A
        BY <2>3, <3>2 DEF Confirm, SettlementsOf, Creating, AllowedFor
      <3>4. QED
        BY <1>1, <3>3
    <2>4. CASE Record(p)
      <3>1. PICK d \in Decision : decisions' = Append(decisions, d) /\ d.by = "caller"
        <4>1. PICK r \in SUBSET (1 .. Len(receipts)), allowed \in BOOLEAN :
                decisions' = Append(decisions, [receipts |-> r, allowed |-> allowed,
                                                by |-> "caller"])
          BY <2>4 DEF Record
        <4>2. [receipts |-> r, allowed |-> allowed, by |-> "caller"] \in Decision
          BY <1>0, LenProperties, EconomyBoundAssumption DEF EconomyTypes, Decision, Refs
        <4>3. QED
          BY <4>1, <4>2
      <3>2. A' = A
        BY <1>0, <3>1, DecisionAppended
      <3>3. S' = S /\ C' = C
        BY <2>4 DEF Record, SettlementsOf, Creating
      <3>4. QED
        BY <1>1, <3>2, <3>3
    <2>5. CASE UNCHANGED <<settlements, decisions>> /\ at[p] # "create" /\ at'[p] # "create"
      <3>1. S' = S /\ A' = A
        BY <2>5 DEF SettlementsOf, AllowedFor
      <3>2. C' = C
        BY <1>0, <2>0, <2>5, CreatingStays
      <3>3. QED
        BY <1>1, <3>1, <3>2
    <2>6. at \in [Publisher -> {"idle", "find", "decide", "create", "answer"} \cup Part]
      BY <1>0 DEF EconomyTypes
    <2>7. CASE Publishing(p) \/ Dispute(p) \/ Issue(p) \/ Find(p) \/ Settle(p)
      BY <2>5, <2>6, <2>7 DEF Publishing, Dispute, Issue, Find, Settle, Free, Finish, Arrive, economy,
         ledger
    <2>8. CASE Read(p)
      BY <2>5, <2>6, <2>8, ReadFacts DEF Reads, ledger
    <2>9. CASE Export(p) \/ Answer(p)
      <3>1. Head(ReadOrder) = "events"
        BY DEF ReadOrder
      <3>2. QED
        BY <2>5, <2>6, <2>9, <3>1 DEF Export, Answer, Free, Finish, Arrive, ledger
    <2>10. CASE Fail(p)
      <3>1. S' = S /\ A' = A /\ C' \subseteq C
        BY <1>0, <2>0, <2>6, <2>10
        DEF Fail, Finish, Arrive, ledger, SettlementsOf, AllowedFor, Creating
      <3> HIDE DEF S, C, A
      <3>2. IsFiniteSet(C') /\ Cardinality(C') <= Cardinality(C)
        BY <1>0, <3>1, FS_Subset
      <3>3. Cardinality(C') \in Nat
        BY <3>2, FS_CardinalityType
      <3>4. QED
        BY <1>0, <3>1, <3>2, <3>3
    <2>11. QED
      BY <1>4, <2>1, <2>2, <2>3, <2>4, <2>7, <2>8, <2>9, <2>10 DEF Go
  <1>5. QED
    BY <1>2, <1>3, <1>4 DEF EconomyNext

\* On either host and across crashes and failures, receipts are settled no more often
\* than the policy has been recorded to allow it.
THEOREM SettledOnlyWhenAllowed == EconomySpec => []AllowedBeforeSettled
  <1>1. ASSUME EconomyTypes, AllowedInv PROVE AllowedBeforeSettled
    <2>1. \A refs \in Refs :
            /\ Cardinality(SettlementsOf(refs)) \in Nat /\ Cardinality(Creating(refs)) \in Nat
            /\ Cardinality(AllowedFor(refs)) \in Nat
      BY <1>1, CountsAreFinite
    <2>2. QED
      BY <1>1, <2>1 DEF AllowedInv, AllowedBeforeSettled
  <1>2. EconomyInv => EconomyTypes
    BY DEF EconomyInv
  <1>3. QED
    BY <1>1, <1>2, EconomyInvInit, EconomyInvNext, AllowedInvInit, AllowedInvNext, PTL
    DEF EconomySpec
-----------------------------------------------------------------------------
(***************************************************************************)
(* Whole bundles.  A settlement is of receipts there are and that were     *)
(* decided on; so a bundle is whole if all its parts are of one moment.    *)
(* That is so of requests one at a time, where none comes in between.      *)
(***************************************************************************)
Decided(ds, refs) == \E d \in DOMAIN ds : ds[d].receipts = refs

SettledInv ==
  /\ \A s \in DOMAIN settlements : /\ settlements[s].receipts \subseteq 1 .. Len(receipts)
                                   /\ Decided(decisions, settlements[s].receipts)
  /\ \A p \in Publisher : at[p] = "create" => Decided(decisions, subject[p])

WholeInv ==
  /\ \A p, q \in Publisher : ~Free(p) /\ ~Free(q) => p = q
  /\ \A p \in Publisher :
       /\ at[p] \in {"receipts", "settlements", "answer"} =>
            bundle[p]["decisions"] = Len(decisions)
       /\ at[p] \in {"settlements", "answer"} => bundle[p]["receipts"] = Len(receipts)
       /\ at[p] = "answer" => bundle[p]["settlements"] = Len(settlements)

\* No request takes a receipt or a decision away.
LEMMA LedgerGrows ==
  ASSUME EconomyInv, NEW p \in Publisher, Go(p)
  PROVE  /\ 1 .. Len(receipts) \subseteq 1 .. Len(receipts')
         /\ \A refs : Decided(decisions, refs) => Decided(decisions', refs)
  <1>0. EconomyTypes /\ signer \in Signer /\ crashes \in Process
    BY DEF EconomyInv, SignerTypes, LogsInv, EventTypes, Process
  <1>1. ASSUME decisions' = decisions \/ \E d \in Decision : decisions' = Append(decisions, d)
        PROVE  \A refs : Decided(decisions, refs) => Decided(decisions', refs)
    <2>1. CASE decisions' = decisions
      BY <2>1
    <2>2. CASE \E d \in Decision : decisions' = Append(decisions, d)
      <3>1. PICK d \in Decision : decisions' = Append(decisions, d)
        BY <2>2
      <3>2. \A i \in DOMAIN decisions : i \in DOMAIN decisions' /\ decisions'[i] = decisions[i]
        BY <1>0, <3>1, AppendFacts DEF EconomyTypes
      <3>3. QED
        BY <3>2 DEF Decided
    <2>3. QED
      BY <1>1, <2>1, <2>2
  <1>2. SUBSET (1 .. Len(receipts)) \subseteq Refs
    BY <1>0, LenProperties, EconomyBoundAssumption DEF EconomyTypes, Refs
  <1>3. CASE Issue(p)
    <2>1. decisions' = decisions /\ \E r \in Receipt : receipts' = Append(receipts, r)
      BY <1>0, <1>3 DEF Issue, Receipt
    <2>2. QED
      BY <1>0, <1>1, <2>1, AppendFacts DEF EconomyTypes
  <1>4. CASE Decide(p) \/ Record(p)
    <2>1. receipts' = receipts
      BY <1>4 DEF Decide, Record
    <2>2. \E d \in Decision : decisions' = Append(decisions, d)
      <3>1. \A refs \in SUBSET (1 .. Len(receipts)), allowed \in BOOLEAN, by \in {"policy", "caller"} :
              [receipts |-> refs, allowed |-> allowed, by |-> by] \in Decision
        BY <1>2 DEF Decision
      <3>2. CASE Decide(p)
        BY <1>0, <3>1, <3>2 DEF Decide, EconomyTypes
      <3>3. CASE Record(p)
        BY <3>1, <3>3 DEF Record
      <3>4. QED
        BY <1>4, <3>2, <3>3
    <2>3. QED
      BY <1>1, <2>1, <2>2
  <1>5. CASE UNCHANGED <<receipts, decisions>>
    BY <1>1, <1>5
  <1>6. QED
    BY <1>3, <1>4, <1>5 DEF Go, Publishing, Find, Settle, Create, Confirm, Dispute, Export,
       Read, Answer, Fail, economy, ledger

LEMMA SettledInvInit == EconomyInit => SettledInv
  BY EmptySeq DEF EconomyInit, SettledInv

LEMMA SettledInvNext ==
  ASSUME EconomyInv, SettledInv, [EconomyNext]_<<vars, economy>>
  PROVE  SettledInv'
  <1>0. /\ EconomyTypes
        /\ settlements \in Seq(Settlement) /\ decisions \in Seq(Decision)
        /\ subject \in [Publisher -> SUBSET (1 .. Len(receipts))]
        /\ at \in [Publisher -> {"idle", "find", "decide", "create", "answer"} \cup Part]
    BY DEF EconomyInv, EconomyTypes
  <1>1. CASE UNCHANGED <<vars, economy>>
    BY <1>1 DEF economy, ledger, SettledInv
  <1>2. CASE CrashAndRestart
    BY <1>2 DEF CrashAndRestart, ledger, SettledInv
  <1>3. ASSUME NEW p \in Publisher, Go(p) PROVE SettledInv'
    <2>1. /\ 1 .. Len(receipts) \subseteq 1 .. Len(receipts')
          /\ \A refs : Decided(decisions, refs) => Decided(decisions', refs)
      BY <1>0, <1>3, LedgerGrows
    <2>2. \A q \in Publisher \ {p} : at'[q] = at[q] /\ subject'[q] = subject[q]
      BY <1>0, <1>3, OneRequestMoves
    \* What was settled is, and what is settled now was decided on.
    <2>3. \A s \in DOMAIN settlements' :
            \/ s \in DOMAIN settlements /\ settlements'[s].receipts = settlements[s].receipts
            \/ at[p] = "create" /\ settlements'[s].receipts = subject[p]
      <3>1. CASE Create(p)
        <4>1. CASE subject[p] = {}
          BY <3>1, <4>1 DEF Create
        <4>2. CASE subject[p] # {}
          <5> DEFINE new == Requested(subject[p])
          <5>1. new \in Settlement
            BY <1>0, <4>2, LenProperties, EconomyBoundAssumption
            DEF Settlement, Refs, EconomyTypes, Requested
          <5>2. settlements' = Append(settlements, new) /\ at[p] = "create"
            BY <3>1, <4>2 DEF Create
          <5>3. new.receipts = subject[p]
            BY DEF Requested
          <5> HIDE DEF new
          <5>4. QED
            BY <1>0, <5>1, <5>2, <5>3, AppendFacts
        <4>3. QED
          BY <4>1, <4>2
      <3>2. CASE Confirm(p)
        <4>1. PICK s \in DOMAIN settlements : settlements' = [settlements EXCEPT ![s] = Confirmed(@)]
          BY <3>2 DEF Confirm
        <4>2. \A i \in DOMAIN settlements : settlements[i] \in Settlement
          BY <1>0, LenProperties
        <4>3. QED
          BY <4>1, <4>2 DEF Settlement, Confirmed
      <3>3. CASE settlements' = settlements
        BY <3>3
      <3>4. QED
        BY <1>3, <3>1, <3>2, <3>3 DEF Go, Publishing, Issue, Find, Settle, Decide, Record, Dispute,
           Export, Read, Answer, Fail, economy, ledger
    <2>4. at'[p] = "create" => Decided(decisions', subject'[p])
      <3>1. CASE Decide(p)
        <4>1. PICK allowed \in BOOLEAN :
                /\ decisions' = Append(decisions, [receipts |-> subject[p], allowed |-> allowed,
                                                  by |-> "policy"])
                /\ IF allowed THEN Arrive(p, "create") /\ UNCHANGED <<subject, bundle>>
                              ELSE Finish(p)
          BY <3>1 DEF Decide
        <4> DEFINE d == [receipts |-> subject[p], allowed |-> allowed, by |-> "policy"]
        <4>2. d \in Decision
          BY <1>0, LenProperties, EconomyBoundAssumption DEF EconomyTypes, Decision, Refs
        <4>3. d.receipts = subject[p] /\ decisions' = Append(decisions, d)
          BY <4>1
        <4> HIDE DEF d
        <4>4. Decided(decisions', subject[p])
          BY <1>0, <4>2, <4>3, AppendFacts DEF Decided
        <4>5. CASE allowed
          BY <4>1, <4>4, <4>5
        <4>6. CASE ~allowed
          BY <1>0, <4>1, <4>6 DEF Finish, Arrive
        <4>7. QED
          BY <4>5, <4>6
      <3>2. CASE at' = at /\ subject' = subject
        BY <2>1, <3>2 DEF SettledInv
      <3>3. CASE Issue(p) \/ Settle(p)
        BY <1>0, <3>3 DEF Issue, Settle, Arrive
      <3>4. CASE Finish(p)
        BY <1>0, <3>4 DEF Finish, Arrive
      <3>5. CASE Find(p) \/ Create(p) \/ Answer(p) \/ Fail(p)
        BY <3>4, <3>5 DEF Find, Create, Answer, Fail
      <3>6. CASE Export(p) \/ Read(p)
        <4>1. at'[p] \in Part \cup {"answer"}
          <5>1. Head(ReadOrder) = "events"
            BY DEF ReadOrder
          <5>2. CASE Export(p)
            BY <1>0, <5>1, <5>2 DEF Export, Arrive, Part
          <5>3. CASE Read(p)
            BY <1>0, <5>3, ReadFacts DEF Reads, Part
          <5>4. QED
            BY <3>6, <5>2, <5>3
        <4>2. QED
          BY <4>1 DEF Part
      <3>7. QED
        BY <1>3, <3>1, <3>2, <3>3, <3>5, <3>6 DEF Go, Publishing, Confirm, Record, Dispute, economy
    <2>5. \A q \in Publisher : at'[q] = "create" => Decided(decisions', subject'[q])
      BY <2>1, <2>2, <2>4 DEF SettledInv
    <2>6. ASSUME NEW s \in DOMAIN settlements'
          PROVE  /\ settlements'[s].receipts \subseteq 1 .. Len(receipts')
                 /\ Decided(decisions', settlements'[s].receipts)
      <3>1. CASE s \in DOMAIN settlements /\ settlements'[s].receipts = settlements[s].receipts
        BY <2>1, <3>1 DEF SettledInv
      <3>2. CASE at[p] = "create" /\ settlements'[s].receipts = subject[p]
        BY <1>0, <2>1, <3>2 DEF SettledInv
      <3>3. QED
        BY <2>3, <3>1, <3>2
    <2>7. QED
      BY <2>5, <2>6 DEF SettledInv
  <1>4. QED
    BY <1>1, <1>2, <1>3 DEF EconomyNext

LEMMA WholeInvInit == EconomyInit => WholeInv
  BY DEF EconomyInit, Init, WholeInv, Free

LEMMA WholeInvNext ==
  ASSUME host = "alone", EconomyInv, WholeInv, [EconomyNext]_<<vars, economy>>
  PROVE  WholeInv'
  <1>0. /\ LogsInv /\ EconomyTypes
        /\ at \in [Publisher -> {"idle", "find", "decide", "create", "answer"} \cup Part]
        /\ bundle \in [Publisher -> [Part -> Nat]]
        /\ pc \in [Publisher -> {"idle", "session", "activity"}]
    BY DEF EconomyInv, EconomyTypes, LogsInv, EventTypes
  <1>1. CASE UNCHANGED <<vars, economy>>
    BY <1>1 DEF vars, economy, ledger, WholeInv, Free
  <1>2. CASE CrashAndRestart
    BY <1>2 DEF CrashAndRestart, Crash, WholeInv, Free
  <1>3. ASSUME NEW p \in Publisher, Go(p) PROVE WholeInv'
    <2>1. \A q \in Publisher \ {p} : pc'[q] = "idle" /\ at'[q] = "idle"
      <3>1. \A q \in Publisher \ {p} : pc[q] = "idle" /\ at[q] = "idle" /\ at'[q] = at[q]
        BY <1>0, <1>3, OneRequestMoves DEF Go, MayGoOn, Free
      <3>2. \A q \in Publisher \ {p} : pc'[q] = pc[q]
        <4>1. CASE Publish(p) \/ AppendToSession(p) \/ AppendToActivity(p)
          BY <1>0, <4>1 DEF Publish, AppendToSession, AfterSession, AppendToActivity, Return, Goto
        <4>2. CASE UNCHANGED vars
          BY <4>2 DEF vars
        <4>3. CASE Fail(p)
          BY <1>0, <4>3 DEF Fail, Raise, Return, Goto
        <4>4. QED
          BY <1>3, <4>1, <4>2, <4>3 DEF Go, Publishing, Work, Issue, Find, Settle, Decide, Create,
             Confirm, Record, Dispute, Export, Read, Answer
      <3>3. QED
        BY <3>1, <3>2
    <2>2. CASE at'[p] \notin {"receipts", "settlements", "answer"}
      BY <2>1, <2>2 DEF WholeInv, Free
    <2>3. CASE Read(p)
      <3>1. UNCHANGED <<decisions, receipts, settlements>>
        BY <2>3, ReadFacts DEF ledger
      <3>2. /\ ThereIs("decisions") = Len(decisions) /\ ThereIs("receipts") = Len(receipts)
            /\ ThereIs("settlements") = Len(settlements)
        BY <1>0, ThereIsFacts
      <3>3. /\ at'[p] \in {"receipts", "settlements", "answer"} =>
                 bundle'[p]["decisions"] = Len(decisions)
            /\ at'[p] \in {"settlements", "answer"} => bundle'[p]["receipts"] = Len(receipts)
            /\ at'[p] = "answer" => bundle'[p]["settlements"] = Len(settlements)
        <4>1. CASE Reads(p, "events", "decisions")
          BY <1>0, <4>1 DEF Reads
        <4>2. CASE Reads(p, "decisions", "receipts")
          BY <1>0, <3>2, <4>2 DEF Reads, Part
        <4>3. CASE Reads(p, "receipts", "settlements")
          BY <1>0, <3>2, <4>3 DEF Reads, Part, WholeInv
        <4>4. CASE Reads(p, "settlements", "answer")
          BY <1>0, <3>2, <4>4 DEF Reads, Part, WholeInv
        <4>5. QED
          BY <2>3, <4>1, <4>2, <4>3, <4>4, ReadFacts
      <3>4. QED
        BY <2>1, <3>1, <3>3 DEF WholeInv, Free
    <2>4. CASE ~Read(p)
      <3>1. CASE Publishing(p) \/ Confirm(p) \/ Record(p) \/ Dispute(p)
        BY <2>2, <3>1 DEF Publishing, Confirm, Record, Dispute, Free, economy
      <3>2. CASE Issue(p) \/ Settle(p)
        BY <1>0, <2>2, <3>2 DEF Issue, Settle, Arrive
      <3>3. CASE Finish(p)
        BY <1>0, <2>2, <3>3 DEF Finish, Arrive
      <3>4. CASE Decide(p) /\ ~Finish(p)
        BY <1>0, <2>2, <3>4 DEF Decide, Arrive
      <3>5. CASE Export(p)
        <4>1. Head(ReadOrder) = "events"
          BY DEF ReadOrder
        <4>2. QED
          BY <1>0, <2>2, <3>5, <4>1 DEF Export, Arrive
      <3>6. CASE Find(p) \/ Create(p) \/ Answer(p) \/ Fail(p)
        BY <3>3, <3>6 DEF Find, Create, Answer, Fail
      <3>7. QED
        BY <1>3, <2>4, <3>1, <3>2, <3>3, <3>4, <3>5, <3>6 DEF Go
    <2>5. QED
      BY <2>3, <2>4
  <1>4. QED
    BY <1>1, <1>2, <1>3 DEF EconomyNext

\* Where requests run one at a time, a bundle that has a settlement has its receipts
\* and a decision on it.
THEOREM LoopBundlesAreWhole ==
  EconomySpec => [](host = "alone" => SettlementsComeWithReceipts)
  <1> DEFINE I == host = "alone" => WholeInv
  <1>1. ASSUME EconomyInv, SettledInv, WholeInv PROVE SettlementsComeWithReceipts
    <2> SUFFICES ASSUME NEW p \in Publisher, at[p] = "answer",
                        NEW s \in 1 .. bundle[p]["settlements"]
                 PROVE  /\ settlements[s].receipts \subseteq 1 .. bundle[p]["receipts"]
                        /\ \E d \in 1 .. bundle[p]["decisions"] :
                             decisions[d].receipts = settlements[s].receipts
      BY DEF SettlementsComeWithReceipts
    <2>1. /\ bundle[p]["settlements"] = Len(settlements) /\ bundle[p]["receipts"] = Len(receipts)
          /\ bundle[p]["decisions"] = Len(decisions)
      BY <1>1 DEF WholeInv
    <2>2. DOMAIN settlements = 1 .. Len(settlements) /\ DOMAIN decisions = 1 .. Len(decisions)
      BY <1>1, LenProperties DEF EconomyInv, EconomyTypes
    <2>3. QED
      BY <1>1, <2>1, <2>2 DEF SettledInv, Decided
  <1>2. EconomyInit => I
    BY WholeInvInit
  <1>3. EconomyInv /\ I /\ [EconomyNext]_<<vars, economy>> => I'
    BY WholeInvNext, EconomyStepIsLogStep, HostStays
  <1>4. EconomyInv /\ SettledInv /\ I => (host = "alone" => SettlementsComeWithReceipts)
    BY <1>1
  <1> HIDE DEF I
  <1>5. QED
    BY <1>2, <1>3, <1>4, EconomyInvInit, EconomyInvNext, SettledInvInit, SettledInvNext, PTL
    DEF EconomySpec
=============================================================================
