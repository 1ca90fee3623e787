--------------------------- MODULE DirectoryProofs ---------------------------
(***************************************************************************)
(* Theorems about Directory for any calls, clock, lease and scheduler, and *)
(* about Federation for any starts of the server, checked by TLAPS.        *)
(***************************************************************************)
EXTENDS Federation, FiniteSetTheorems, TLAPS

\* Calls that may yet make an entry.
Putting == {w \in Worker : pc[w] = "put"}

\* A signature is on no card but the one that was signed, in the table and on the
\* way to it; a card on its way through a heartbeat has none.
SignedInv ==
  /\ \A e \in Entry : card[e].signed # 0 => card[e].expires = card[e].signed
  /\ \A w \in Worker :
       /\ pc[w] = "put" /\ copy[w].signed # 0 => copy[w].expires = copy[w].signed
       /\ pc[w] \in {"stamp", "refresh"} => copy[w].signed = 0

IInv == TypeOK /\ SignedInv /\ made + Cardinality(Putting) <= MaxEntries

LEMMA PuttingFacts ==
  /\ IsFiniteSet(Putting) /\ Cardinality(Putting) \in Nat
  /\ IsFiniteSet(Busy) /\ Cardinality(Busy) \in Nat
  BY WorkerAssumption, FS_Subset, FS_CardinalityType DEF Putting, Busy

LEMMA InitHolds == Init => IInv
  <1> SUFFICES ASSUME Init PROVE IInv
    OBVIOUS
  <1>1. Putting = {}
    BY DEF Init, Putting
  <1>2. Cardinality(Putting) = 0
    BY <1>1, FS_EmptySet
  <1>3. TypeOK
    BY SizeAssumption DEF Init, TypeOK, Entry, Card, NoCard, Time, Forever
  <1>4. SignedInv
    BY DEF Init, SignedInv, NoCard
  <1>5. QED
    BY <1>2, <1>3, <1>4, SizeAssumption DEF Init, IInv

\* A call that puts makes an entry within the bound.
LEMMA RoomToPut ==
  ASSUME IInv, NEW w \in Worker, pc[w] = "put"
  PROVE  made + 1 \in Entry
  <1>1. Cardinality(Putting) # 0
    <2>1. w \in Putting
      BY DEF Putting
    <2>2. QED
      BY <2>1, PuttingFacts, FS_EmptySet
  <1>2. QED
    BY <1>1, PuttingFacts, SizeAssumption DEF IInv, TypeOK, Entry

LEMMA PuttingStep ==
  ASSUME IInv, [Next]_vars
  PROVE  made' + Cardinality(Putting') <= MaxEntries
  <1> DEFINE P == Putting
  <1>1. made \in Nat /\ MaxEntries \in Nat /\ made + Cardinality(P) <= MaxEntries
    BY SizeAssumption DEF IInv, TypeOK
  <1>2. ASSUME NEW w \in Worker, Publish(w)
        PROVE  made' + Cardinality(Putting') <= MaxEntries
    <2>1. Putting' = Putting \cup {w}
      BY <1>2 DEF Publish, Goto, Putting, IInv, TypeOK
    <2>2. Putting \subseteq Busy
      BY DEF Putting, Busy
    <2>3. Cardinality(Putting) <= Cardinality(Busy)
      BY <2>2, PuttingFacts, FS_Subset
    <2>4. Cardinality(Putting \cup {w}) <= Cardinality(Putting) + 1
      <3>1. Cardinality(Putting \cup {w})
              = IF w \in Putting THEN Cardinality(Putting) ELSE Cardinality(Putting) + 1
        BY PuttingFacts, FS_AddElement
      <3>2. QED
        BY <3>1, PuttingFacts
    <2>5. Cardinality(Putting \cup {w}) \in Nat
      BY PuttingFacts, FS_AddElement, FS_CardinalityType
    <2>6. made' = made /\ made + Cardinality(Busy) < MaxEntries
      BY <1>2 DEF Publish
    <2>7. QED
      BY <1>1, <2>1, <2>3, <2>4, <2>5, <2>6, PuttingFacts
  <1>3. ASSUME NEW w \in Worker, Put(w)
        PROVE  made' + Cardinality(Putting') <= MaxEntries
    <2>1. w \in Putting /\ Putting' = Putting \ {w}
      BY <1>3 DEF Put, Return, Goto, Putting, IInv, TypeOK
    <2>2. Cardinality(Putting \ {w}) = Cardinality(Putting) - 1
      BY <2>1, PuttingFacts, FS_RemoveElement
    <2>3. made' = made + 1 \/ made' = made
      BY <1>3 DEF Put
    <2>4. QED
      BY <1>1, <2>1, <2>2, <2>3, PuttingFacts
  <1>4. ASSUME made' = made, Putting' \subseteq Putting
        PROVE  made' + Cardinality(Putting') <= MaxEntries
    <2>1. Cardinality(Putting') <= Cardinality(Putting) /\ Cardinality(Putting') \in Nat
      BY <1>4, PuttingFacts, FS_Subset, FS_CardinalityType
    <2>2. QED
      BY <1>1, <1>4, <2>1, PuttingFacts
  <1>5. ASSUME NEW w \in Worker,
               \/ Beat(w) \/ Stamp(w) \/ Refresh(w) \/ Missing(w)
               \/ Resolve(w) \/ Check(w) \/ Pop(w) \/ Answer(w)
        PROVE  made' = made /\ Putting' \subseteq Putting
    BY <1>5 DEF Beat, Stamp, Refresh, Missing, Resolve, Check, Pop, Answer, Return, Goto,
                vars, Putting, IInv, TypeOK
  <1>6. ASSUME Tick \/ SetHealth \/ UNCHANGED vars
        PROVE  made' = made /\ Putting' \subseteq Putting
    BY <1>6 DEF Tick, SetHealth, vars, Putting
  <1>7. QED
    BY <1>2, <1>3, <1>4, <1>5, <1>6 DEF Next, Work

\* What Return leaves has its type.
LEMMA ReturnTypes ==
  ASSUME TypeOK, NEW w \in Worker, Return(w)
  PROVE  /\ pc' \in [Worker -> {"idle", "put", "stamp", "refresh", "check", "pop", "answer"}]
         /\ upsert' \in [Worker -> BOOLEAN]
         /\ found' \in [Worker -> 0 .. made]
         /\ copy' \in [Worker -> Card]
  <1>1. NoCard \in Card /\ 0 \in 0 .. made
    BY SizeAssumption DEF TypeOK, NoCard, Card, Time, Forever
  <1>2. QED
    BY <1>1 DEF Return, Goto, TypeOK

LEMMA TypeStep ==
  ASSUME IInv, [Next]_vars
  PROVE  TypeOK'
  <1>1. TypeOK /\ NoCard \in Card /\ Forever \in Nat /\ MaxTime <= Forever
    BY SizeAssumption DEF IInv, NoCard, Card, Time, Forever
  <1>2. entry # 0 => entry \in Entry /\ card[entry] \in Card
    BY <1>1, SizeAssumption DEF TypeOK, Entry
  <1>3. ASSUME NEW w \in Worker, Publish(w) PROVE TypeOK'
    <2>1. PICK c \in Card, replace \in BOOLEAN :
            copy' = [copy EXCEPT ![w] = c] /\ upsert' = [upsert EXCEPT ![w] = replace]
      BY <1>3 DEF Publish
    <2>2. QED
      BY <1>1, <1>3, <2>1 DEF Publish, Goto, TypeOK
  <1>4. ASSUME NEW w \in Worker, Put(w) PROVE TypeOK'
    <2>1. CASE entry = 0 \/ upsert[w]
      <3>1. made + 1 \in Entry /\ made \in Nat
        BY <1>1, <1>4, RoomToPut, SizeAssumption DEF Put, TypeOK
      <3>2. [copy[w] EXCEPT !.from = made + 1] \in Card
        <4>1. copy[w] \in Card /\ made + 1 \in 0 .. MaxEntries
          BY <1>1, <3>1, SizeAssumption DEF TypeOK, Entry
        <4>2. QED
          BY <4>1 DEF Card
      <3>3. CASE made' = made
        BY <1>1, <1>4, <2>1, <3>1, <3>3 DEF Put, Return, Goto, TypeOK
      <3>4. CASE /\ made' = made + 1 /\ entry' = made + 1
                 /\ card' = [card EXCEPT ![made + 1] = [copy[w] EXCEPT !.from = made + 1]]
                 /\ healthy' = [healthy EXCEPT ![made + 1] = TRUE]
        <4>1. made' \in 0 .. MaxEntries /\ entry' \in 0 .. made' /\ 0 .. made \subseteq 0 .. made'
          BY <3>1, <3>4, SizeAssumption DEF Entry
        <4>2. card' \in [Entry -> Card] /\ healthy' \in [Entry -> BOOLEAN]
          BY <1>1, <3>2, <3>4 DEF TypeOK
        <4>3. found' \in [Worker -> 0 .. made']
          <5>1. found' = [found EXCEPT ![w] = 0] /\ found \in [Worker -> 0 .. made]
            BY <1>1, <1>4 DEF Put, Return, TypeOK
          <5>2. 0 \in 0 .. made'
            BY <4>1, SizeAssumption
          <5>3. QED
            BY <4>1, <5>1, <5>2
        <4>4. QED
          BY <1>1, <1>4, <4>1, <4>2, <4>3 DEF Put, Return, Goto, TypeOK
      <3>5. QED
        BY <1>4, <2>1, <3>3, <3>4 DEF Put
    <2>2. CASE entry # 0 /\ ~upsert[w]
      BY <1>1, <1>4, <2>2 DEF Put, Return, Goto, TypeOK
    <2>3. QED
      BY <2>1, <2>2
  <1>5. ASSUME NEW w \in Worker, Beat(w) PROVE TypeOK'
    BY <1>1, <1>2, <1>5 DEF Beat, Goto, TypeOK
  <1>6. ASSUME NEW w \in Worker, Stamp(w) PROVE TypeOK'
    <2>1. now + TTL \in Time
      BY <1>1, SizeAssumption DEF TypeOK, Time, Forever
    <2>2. [copy[w] EXCEPT !.expires = now + TTL] \in Card
      BY <1>1, <2>1 DEF TypeOK, Card
    <2>3. copy' = [copy EXCEPT ![w] = [copy[w] EXCEPT !.expires = now + TTL]]
      BY <1>6 DEF Stamp
    <2>4. QED
      BY <1>1, <1>6, <2>2, <2>3 DEF Stamp, Goto, TypeOK
  <1>7. ASSUME NEW w \in Worker, Refresh(w) PROVE TypeOK'
    <2>1. card' \in [Entry -> Card]
      BY <1>1, <1>7 DEF Refresh, TypeOK
    <2>2. QED
      BY <1>1, <1>7, <2>1, ReturnTypes DEF Refresh, TypeOK
  <1>8. ASSUME NEW w \in Worker, Missing(w) \/ Resolve(w) \/ Check(w) \/ Pop(w) \/ Answer(w)
        PROVE  TypeOK'
    <2>1. CASE Missing(w)
      BY <1>1, <2>1 DEF Missing, vars, TypeOK
    <2>2. CASE Resolve(w) \/ Check(w)
      BY <1>1, <2>2 DEF Resolve, Check, Goto, TypeOK
    <2>3. CASE Pop(w)
      <3>1. entry' \in 0 .. made
        BY <1>1, <2>3, SizeAssumption DEF Pop, TypeOK
      <3>2. QED
        BY <1>1, <2>3, <3>1, ReturnTypes DEF Pop, TypeOK
    <2>4. CASE Answer(w)
      BY <1>1, <2>4, ReturnTypes DEF Answer, TypeOK
    <2>5. QED
      BY <1>8, <2>1, <2>2, <2>3, <2>4
  <1>9. ASSUME Tick \/ SetHealth \/ UNCHANGED vars PROVE TypeOK'
    BY <1>1, <1>9, SizeAssumption DEF Tick, SetHealth, vars, TypeOK
  <1>10. QED
    BY <1>3, <1>4, <1>5, <1>6, <1>7, <1>8, <1>9 DEF Next, Work

LEMMA SignedStep ==
  ASSUME IInv, [Next]_vars
  PROVE  SignedInv'
  <1>1. TypeOK /\ SignedInv
    BY DEF IInv
  <1>2. ASSUME NEW w \in Worker, Publish(w) PROVE SignedInv'
    <2>1. PICK c \in Card : Verifies(c) /\ copy' = [copy EXCEPT ![w] = c]
      BY <1>2 DEF Publish
    <2>2. copy'[w].signed # 0 => copy'[w].expires = copy'[w].signed
      BY <1>1, <2>1 DEF TypeOK, Verifies
    <2>3. pc'[w] = "put" /\ card' = card
      BY <1>1, <1>2 DEF Publish, Goto, TypeOK
    <2>4. \A v \in Worker \ {w} : pc'[v] = pc[v] /\ copy'[v] = copy[v]
      BY <1>1, <1>2, <2>1 DEF Publish, Goto, TypeOK
    <2>5. QED
      BY <1>1, <2>2, <2>3, <2>4 DEF SignedInv
  <1>3. ASSUME NEW w \in Worker, Return(w),
               \A e \in Entry : card'[e].signed # 0 => card'[e].expires = card'[e].signed
        PROVE  SignedInv'
    BY <1>1, <1>3 DEF SignedInv, Return, Goto, TypeOK
  <1>4. ASSUME NEW w \in Worker, Put(w) PROVE SignedInv'
    <2>1. CASE card' = card
      BY <1>1, <1>3, <1>4, <2>1 DEF Put, SignedInv
    <2>2. CASE card' = [card EXCEPT ![made + 1] = [copy[w] EXCEPT !.from = made + 1]]
      <3>1. /\ pc[w] = "put" /\ copy[w] \in Card
            /\ copy[w].signed # 0 => copy[w].expires = copy[w].signed
        BY <1>1, <1>4 DEF Put, SignedInv, TypeOK
      <3>2. \A e \in Entry : card'[e].signed # 0 => card'[e].expires = card'[e].signed
        <4> SUFFICES ASSUME NEW e \in Entry, card'[e].signed # 0
                     PROVE  card'[e].expires = card'[e].signed
          OBVIOUS
        <4>1. CASE e = made + 1
          <5>1. card'[e] = [copy[w] EXCEPT !.from = made + 1]
            BY <1>1, <2>2, <4>1 DEF TypeOK
          <5>2. card'[e].signed = copy[w].signed /\ card'[e].expires = copy[w].expires
            BY <3>1, <5>1 DEF Card
          <5>3. QED
            BY <3>1, <5>2
        <4>2. CASE e # made + 1
          BY <1>1, <2>2, <4>2 DEF SignedInv, TypeOK
        <4>3. QED
          BY <4>1, <4>2
      <3>3. QED
        BY <1>3, <1>4, <3>2 DEF Put
    <2>3. QED
      BY <1>4, <2>1, <2>2 DEF Put
  <1>5. ASSUME NEW w \in Worker, Beat(w) PROVE SignedInv'
    BY <1>1, <1>5 DEF Beat, Goto, SignedInv, TypeOK
  <1>6. ASSUME NEW w \in Worker, Stamp(w) PROVE SignedInv'
    <2>1. copy[w].signed = 0 /\ copy[w] \in Card
      BY <1>1, <1>6 DEF Stamp, SignedInv, TypeOK
    <2>2. copy' = [copy EXCEPT ![w] = [copy[w] EXCEPT !.expires = now + TTL]]
      BY <1>6 DEF Stamp
    <2>3. copy'[w].signed = 0
      BY <1>1, <2>1, <2>2 DEF TypeOK, Card
    <2>4. pc'[w] = "refresh" /\ card' = card
      BY <1>1, <1>6 DEF Stamp, Goto, TypeOK
    <2>5. \A v \in Worker \ {w} : pc'[v] = pc[v] /\ copy'[v] = copy[v]
      BY <1>1, <1>6, <2>2 DEF Stamp, Goto, TypeOK
    <2>6. QED
      BY <1>1, <2>3, <2>4, <2>5 DEF SignedInv
  <1>7. ASSUME NEW w \in Worker, Refresh(w) PROVE SignedInv'
    <2>1. copy[w].signed = 0
      BY <1>1, <1>7 DEF Refresh, SignedInv
    <2>2. \A e \in Entry : card'[e] = card[e] \/ card'[e] = copy[w]
      BY <1>1, <1>7 DEF Refresh, TypeOK
    <2>3. \A e \in Entry : card'[e].signed # 0 => card'[e].expires = card'[e].signed
      BY <1>1, <2>1, <2>2 DEF SignedInv
    <2>4. QED
      BY <1>3, <1>7, <2>3 DEF Refresh
  <1>8. ASSUME NEW w \in Worker, Pop(w) \/ Answer(w) PROVE SignedInv'
    BY <1>1, <1>3, <1>8 DEF Pop, Answer, SignedInv
  <1>9. ASSUME NEW w \in Worker, Missing(w) \/ Resolve(w) \/ Check(w) PROVE SignedInv'
    BY <1>1, <1>9 DEF Missing, Resolve, Check, Goto, vars, SignedInv, TypeOK
  <1>10. ASSUME Tick \/ SetHealth \/ UNCHANGED vars PROVE SignedInv'
    BY <1>1, <1>10 DEF Tick, SetHealth, vars, SignedInv
  <1>11. QED
    BY <1>2, <1>4, <1>5, <1>6, <1>7, <1>8, <1>9, <1>10 DEF Next, Work

LEMMA Invariance == Spec => []IInv
  <1>1. Init => IInv
    BY InitHolds
  <1>2. IInv /\ [Next]_vars => IInv'
    BY PuttingStep, TypeStep, SignedStep DEF IInv
  <1>3. QED
    BY <1>1, <1>2, PTL DEF Spec

\* Types of every variable, and no more entries than the bound.
THEOREM TypeCorrect == Spec => []TypeOK
  <1>1. IInv => TypeOK
    BY DEF IInv
  <1>2. QED
    BY <1>1, Invariance, PTL

\* However heartbeats, publications and resolutions interleave, the directory has no
\* card whose expiry is not the one its owner has signed.
THEOREM SignaturesAlwaysVerify == Spec => []SignaturesVerify
  <1>1. IInv => SignaturesVerify
    BY DEF IInv, SignedInv, SignaturesVerify, Verifies
  <1>2. QED
    BY <1>1, Invariance, PTL

-----------------------------------------------------------------------------
(***************************************************************************)
(* Calls that do not overlap.  What a call has read then still holds when  *)
(* it goes on: a heartbeat's copy is of the entry it will refresh, a       *)
(* resolution has found the entry the table has, and what it is about to   *)
(* drop has expired.                                                       *)
(***************************************************************************)
UpToDate(w) ==
  /\ pc[w] \in {"stamp", "refresh"} => entry # 0 /\ copy[w].from = entry
  /\ pc[w] \in {"check", "pop", "answer"} => entry # 0 /\ found[w] = entry
  /\ pc[w] = "pop" => ~Fresh(card[entry])

SerialInv ==
  /\ \A v, w \in Busy : v = w
  /\ \A w \in Worker : UpToDate(w)
  /\ entry # 0 => card[entry].from = entry

LEMMA SerialInit == Init => SerialInv
  BY DEF Init, SerialInv, Busy, UpToDate

\* Beside a call that makes a step, every other one is idle.
LEMMA OthersIdle ==
  ASSUME Scheduler = "serial", TypeOK, NEW w \in Worker, Work(w)
  PROVE  /\ \A v \in Worker \ {w} : pc[v] = "idle" /\ pc'[v] = "idle"
         /\ \A v, u \in Busy' : v = u
         /\ now' = now
  <1>1. \A v \in Worker \ {w} : pc[v] = "idle"
    BY DEF Work, MayStep, Busy
  <1>2. (\A v \in Worker \ {w} : pc'[v] = pc[v]) /\ now' = now
    BY DEF Work, Publish, Put, Beat, Stamp, Refresh, Missing, Resolve, Check, Pop, Answer,
           Return, Goto, vars, TypeOK
  <1>3. QED
    BY <1>1, <1>2 DEF Busy

\* A step keeps what its call knows up to date, and the table's card the latest.
LEMMA StaysUpToDate ==
  ASSUME Scheduler = "serial", IInv, SerialInv, NEW w \in Worker, Work(w)
  PROVE  UpToDate(w)' /\ (entry' # 0 => card'[entry'].from = entry')
  <1>0. /\ TypeOK /\ UpToDate(w) /\ now \in Nat
        /\ entry # 0 => entry \in Entry /\ card[entry] \in Card /\ card[entry].from = entry
    BY SizeAssumption DEF IInv, SerialInv, TypeOK, Entry
  <1>1. CASE Publish(w)
    BY <1>0, <1>1 DEF Publish, Goto, UpToDate, TypeOK
  <1>2. CASE Put(w)
    <2>1. pc'[w] = "idle"
      BY <1>0, <1>2 DEF Put, Return, Goto, TypeOK
    <2>2. CASE UNCHANGED <<entry, card>>
      BY <1>0, <2>1, <2>2 DEF UpToDate
    <2>3. CASE /\ entry' = made + 1
               /\ card' = [card EXCEPT ![made + 1] = [copy[w] EXCEPT !.from = made + 1]]
      <3>1. made + 1 \in Entry /\ copy[w] \in Card
        BY <1>0, <1>2, RoomToPut DEF Put, TypeOK
      <3>2. card'[made + 1] = [copy[w] EXCEPT !.from = made + 1]
        BY <1>0, <2>3, <3>1 DEF TypeOK
      <3>3. QED
        BY <2>1, <2>3, <3>1, <3>2 DEF UpToDate, Card
    <2>4. QED
      BY <1>2, <2>2, <2>3 DEF Put
  <1>3. CASE Beat(w)
    BY <1>0, <1>3 DEF Beat, Goto, UpToDate, TypeOK
  <1>4. CASE Stamp(w)
    <2>1. copy'[w].from = copy[w].from
      BY <1>0, <1>4 DEF Stamp, TypeOK, Card
    <2>2. QED
      BY <1>0, <1>4, <2>1 DEF Stamp, Goto, UpToDate, TypeOK
  <1>5. CASE Refresh(w)
    <2>1. card' = [card EXCEPT ![entry] = copy[w]] /\ copy[w].from = entry /\ entry \in Entry
      BY <1>0, <1>5 DEF Refresh, UpToDate
    <2>2. card'[entry].from = entry /\ entry' = entry /\ pc'[w] = "idle"
      BY <1>0, <1>5, <2>1 DEF Refresh, Return, Goto, TypeOK
    <2>3. QED
      BY <2>2 DEF UpToDate
  <1>6. CASE Missing(w) \/ Resolve(w)
    BY <1>0, <1>6 DEF Missing, Resolve, Goto, vars, UpToDate, TypeOK
  <1>7. CASE Check(w)
    BY <1>0, <1>7 DEF Check, Goto, UpToDate, TypeOK, Fresh
  <1>8. CASE Pop(w) \/ Answer(w)
    BY <1>0, <1>8 DEF Pop, Answer, Return, Goto, UpToDate, TypeOK
  <1>9. QED
    BY <1>1, <1>2, <1>3, <1>4, <1>5, <1>6, <1>7, <1>8 DEF Work

LEMMA SerialStep ==
  ASSUME Scheduler = "serial", IInv, SerialInv, [Next]_vars
  PROVE  SerialInv'
  <1>1. CASE UNCHANGED vars \/ SetHealth
    BY <1>1 DEF vars, SetHealth, SerialInv, Busy, UpToDate, Fresh
  <1>2. CASE Tick
    <2>1. now \in Nat /\ now' = now + 1
      BY <1>2, SizeAssumption DEF Tick, IInv, TypeOK
    <2>2. entry # 0 => card[entry].expires \in Nat
      BY SizeAssumption DEF IInv, TypeOK, Card, Time, Forever, Entry
    <2>3. \A w \in Worker : UpToDate(w)'
      BY <1>2, <2>1, <2>2 DEF Tick, SerialInv, UpToDate, Fresh
    <2>4. QED
      BY <1>2, <2>3 DEF Tick, SerialInv, Busy
  <1>3. ASSUME NEW w \in Worker, Work(w) PROVE SerialInv'
    <2>1. \A v \in Worker \ {w} : pc'[v] = "idle"
      BY <1>3, OthersIdle DEF IInv
    <2>2. \A v \in Worker \ {w} : UpToDate(v)'
      BY <2>1 DEF UpToDate
    <2>3. QED
      BY <1>3, <2>2, OthersIdle, StaysUpToDate DEF SerialInv, IInv
  <1>4. QED
    BY <1>1, <1>2, <1>3 DEF Next

\* When calls do not overlap, an entity is resolved to its latest card.
THEOREM SerialServesLatest ==
  ASSUME Scheduler = "serial"
  PROVE  Spec => []LatestCardServed
  <1>1. SerialInv => LatestCardServed
    BY DEF SerialInv, LatestCardServed
  <1>2. IInv /\ [Next]_vars => IInv'
    BY PuttingStep, TypeStep, SignedStep DEF IInv
  <1>3. QED
    BY <1>1, <1>2, InitHolds, SerialInit, SerialStep, PTL DEF Spec

\* When calls do not overlap, no step takes away an entry whose card has not expired.
THEOREM SerialKeepsFresh ==
  ASSUME Scheduler = "serial"
  PROVE  Spec => FreshEntryStays
  <1>1. ASSUME IInv, SerialInv, [Next]_vars, entry # 0, Fresh(card[entry])
        PROVE  entry' # 0
    <2>1. \A w \in Worker : ~Pop(w)
      BY <1>1 DEF Pop, SerialInv, UpToDate
    <2>2. ASSUME NEW w \in Worker, Put(w) PROVE entry' # 0
      BY <1>1, <2>2, SizeAssumption DEF Put, IInv, TypeOK
    <2>3. QED
      BY <1>1, <2>1, <2>2 DEF Next, Work, Tick, SetHealth, Publish, Beat, Stamp, Refresh, Missing,
         Resolve, Check, Answer, vars
  <1>2. IInv /\ [Next]_vars => IInv'
    BY PuttingStep, TypeStep, SignedStep DEF IInv
  <1>3. QED
    BY <1>1, <1>2, InitHolds, SerialInit, SerialStep, PTL DEF Spec, FreshEntryStays

-----------------------------------------------------------------------------
(***************************************************************************)
(* The federation: a directory used by a server that publishes itself, and *)
(* by everyone else.                                                       *)
(***************************************************************************)
LEMMA FederationStepIsDirectoryStep ==
  [FederationNext]_<<vars, publisher>> => [Next]_vars
  <1> SUFFICES ASSUME [FederationNext]_<<vars, publisher>> PROVE [Next]_vars
    OBVIOUS
  <1>1. ASSUME NEW w \in Worker, MayStep(w), Announce(w) \/ Enlist(w) \/ Consult(w)
        PROVE  Work(w)
    BY <1>1 DEF Announce, Enlist, Consult, Work
  <1>2. QED
    BY <1>1 DEF FederationNext, StartServer, StopServer, Next

\* What holds of a directory holds of one that servers publish themselves in.
THEOREM FederationUsesDirectory == FederationSpec => Spec
  <1>1. FederationInit => Init
    BY DEF FederationInit
  <1>2. QED
    BY <1>1, FederationStepIsDirectoryStep, PTL DEF FederationSpec, Spec

\* The cards of a server that comes and goes are resolved to the latest as long as
\* calls do not overlap, none is taken away before it expires, and all verify.
THEOREM FederationKeepsDirectory ==
  ASSUME Scheduler = "serial"
  PROVE  FederationSpec => [](LatestCardServed /\ SignaturesVerify) /\ FreshEntryStays
  <1>1. Spec => []LatestCardServed /\ FreshEntryStays
    BY SerialServesLatest, SerialKeepsFresh
  <1>2. QED
    BY <1>1, FederationUsesDirectory, SignaturesAlwaysVerify, PTL

(***************************************************************************)
(* A signed card of a start expires when the start's card does, on its way *)
(* into the table and in it.  A card's publication is one that was made,   *)
(* and a start's end is set before anyone has its card: neither is written *)
(* again.                                                                  *)
(***************************************************************************)
Known(from) == from \in 0 .. made

LeaseInv ==
  /\ starts \in 0 .. MaxStarts /\ ends \in [Start -> Nat]
  /\ offer \in [Worker -> 0 .. starts] /\ home \in [Entry -> 0 .. starts]
  /\ \A e \in Entry : Known(card[e].from)
  /\ \A w \in Worker : Known(copy[w].from)
  /\ \A w \in Worker :
       pc[w] = "put" /\ copy[w].signed # 0 /\ offer[w] # 0 => copy[w].expires = ends[offer[w]]
  /\ StoppedServerForgotten

LEMMA LeaseInit == FederationInit => LeaseInv
  BY StartAssumption, SizeAssumption
  DEF FederationInit, Init, LeaseInv, StoppedServerForgotten, NoCard, Known

\* A call that hands its card over or gives it up leaves the others' as they were.
LEMMA ReturnKeepsLease ==
  ASSUME IInv, LeaseInv, NEW w \in Worker, Return(w), made' \in Nat, made <= made',
         starts' = starts, ends' = ends, \A v \in Worker \ {w} : offer'[v] = offer[v]
  PROVE  /\ \A v \in Worker : copy'[v].from \in 0 .. made'
         /\ \A v \in Worker :
              pc'[v] = "put" /\ copy'[v].signed # 0 /\ offer'[v] # 0
                => copy'[v].expires = ends'[offer'[v]]
  <1>1. /\ pc'[w] = "idle" /\ copy'[w].from = 0
        /\ \A v \in Worker \ {w} : pc'[v] = pc[v] /\ copy'[v] = copy[v]
    BY DEF Return, Goto, NoCard, IInv, TypeOK
  <1>2. made \in Nat
    BY SizeAssumption DEF IInv, TypeOK
  <1>3. QED
    BY <1>1, <1>2 DEF LeaseInv, Known

LEMMA LeaseStep ==
  ASSUME IInv, LeaseInv, [FederationNext]_<<vars, publisher>>
  PROVE  LeaseInv'
  <1>0. /\ TypeOK /\ SignedInv /\ made \in Nat /\ starts \in Nat /\ MaxStarts \in Nat
        /\ now \in Nat /\ TTL \in Nat
    BY SizeAssumption, StartAssumption DEF IInv, TypeOK, LeaseInv
  <1>1. CASE UNCHANGED <<vars, publisher>>
    BY <1>1 DEF vars, publisher, LeaseInv, StoppedServerForgotten, Known
  <1>2. CASE StartServer
    <2>1. /\ starts' = starts + 1 /\ starts + 1 \in Start
          /\ ends' = [ends EXCEPT ![starts + 1] = Lifetime(now)] /\ Lifetime(now) \in Nat
          /\ UNCHANGED <<made, card, copy, pc, offer, home>>
      BY <1>0, <1>2 DEF StartServer, Start, Lifetime, vars
    <2>2. \A s \in 0 .. starts : ends'[s] = ends[s]
      BY <1>0, <2>1 DEF LeaseInv
    <2>3. \A e \in Entry : card[e].from # 0 => home[card[e].from] \in 0 .. starts
      BY <1>0, SizeAssumption DEF LeaseInv, Known, TypeOK, Entry
    <2>4. StoppedServerForgotten'
      BY <2>1, <2>2, <2>3 DEF LeaseInv, StoppedServerForgotten
    <2>5. /\ starts' \in 0 .. MaxStarts /\ ends' \in [Start -> Nat]
          /\ offer' \in [Worker -> 0 .. starts'] /\ home' \in [Entry -> 0 .. starts']
      <3>1. starts' \in 0 .. MaxStarts /\ 0 .. starts \subseteq 0 .. starts'
        BY <1>0, <2>1 DEF Start
      <3>2. ends' \in [Start -> Nat]
        BY <2>1 DEF LeaseInv
      <3>3. offer' \in [Worker -> 0 .. starts'] /\ home' \in [Entry -> 0 .. starts']
        BY <2>1, <3>1 DEF LeaseInv
      <3>4. QED
        BY <3>1, <3>2, <3>3
    <2>6. \A v \in Worker :
            pc'[v] = "put" /\ copy'[v].signed # 0 /\ offer'[v] # 0
              => copy'[v].expires = ends'[offer'[v]]
      BY <2>1, <2>2 DEF LeaseInv
    <2>7. QED
      BY <2>1, <2>4, <2>5, <2>6 DEF LeaseInv, Known
  <1>3. CASE StopServer \/ ((Tick \/ SetHealth) /\ UNCHANGED publisher)
    BY <1>3 DEF StopServer, Tick, SetHealth, vars, publisher, LeaseInv, StoppedServerForgotten, Known
  <1>4. ASSUME NEW w \in Worker, Announce(w) PROVE LeaseInv'
    <2>1. PICK s \in 0 .. starts :
            /\ offer' = [offer EXCEPT ![w] = s]
            /\ s # 0 => copy'[w].expires = ends[s]
      BY <1>4 DEF Announce, SignedExpiry
    <2>2. /\ \A v \in Worker \ {w} : copy'[v] = copy[v] /\ pc'[v] = pc[v]
          /\ copy'[w].from = 0
          /\ UNCHANGED <<made, card, starts, ends, home>>
      BY <1>0, <1>4 DEF Announce, Publish, Goto, TypeOK
    <2>3. StoppedServerForgotten'
      BY <2>2 DEF LeaseInv, StoppedServerForgotten
    <2>4. offer' \in [Worker -> 0 .. starts] /\ offer'[w] = s
          /\ \A v \in Worker \ {w} : offer'[v] = offer[v]
      BY <2>1 DEF LeaseInv
    <2>5. ASSUME NEW v \in Worker PROVE Known(copy[v].from)' /\ copy'[v].from \in 0 .. made
      BY <1>0, <2>2 DEF LeaseInv, Known
    <2>6. ASSUME NEW v \in Worker, pc'[v] = "put", copy'[v].signed # 0, offer'[v] # 0
          PROVE  copy'[v].expires = ends'[offer'[v]]
      <3>1. CASE v = w
        BY <2>1, <2>2, <2>4, <2>6, <3>1
      <3>2. CASE v # w
        BY <2>2, <2>4, <2>6, <3>2 DEF LeaseInv
      <3>3. QED
        BY <3>1, <3>2
    <2>7. QED
      BY <2>2, <2>3, <2>4, <2>5, <2>6 DEF LeaseInv, Known
  <1>5. ASSUME NEW w \in Worker, Enlist(w) PROVE LeaseInv'
    <2>1. /\ Put(w) /\ Return(w) /\ pc[w] = "put"
          /\ home' = IF made' = made THEN home ELSE [home EXCEPT ![made'] = offer[w]]
          /\ offer' = [offer EXCEPT ![w] = 0] /\ starts' = starts /\ ends' = ends
      BY <1>5 DEF Enlist, Put
    <2>2. CASE UNCHANGED <<made, card>>
      <3>1. StoppedServerForgotten' /\ home' = home
        BY <2>1, <2>2 DEF LeaseInv, StoppedServerForgotten
      <3>2. QED
        BY <1>0, <2>1, <2>2, <3>1, ReturnKeepsLease DEF LeaseInv, Known
    <2>3. CASE /\ made' = made + 1
               /\ card' = [card EXCEPT ![made + 1] = [copy[w] EXCEPT !.from = made + 1]]
      <3>1. made + 1 \in Entry /\ copy[w] \in Card /\ made' # made
        BY <1>0, <2>1, <2>3, RoomToPut DEF TypeOK
      <3>2. /\ card'[made + 1].from = made + 1 /\ card'[made + 1].signed = copy[w].signed
            /\ card'[made + 1].expires = copy[w].expires
            /\ \A e \in Entry \ {made + 1} : card'[e] = card[e]
        BY <1>0, <2>3, <3>1 DEF TypeOK, Card
      <3>3. /\ home' = [home EXCEPT ![made + 1] = offer[w]]
            /\ home'[made + 1] = offer[w]
            /\ \A e \in 1 .. made : home'[e] = home[e]
        BY <1>0, <2>1, <2>3, <3>1 DEF LeaseInv, Entry
      <3>4. \A e \in Entry : card'[e].from \in 0 .. made + 1
        BY <1>0, <3>2 DEF LeaseInv, Known
      <3>5. StoppedServerForgotten'
        <4> SUFFICES ASSUME NEW e \in Entry, card'[e].from # 0, card'[e].signed # 0,
                            home'[card'[e].from] # 0
                     PROVE  card'[e].expires = ends'[home'[card'[e].from]]
          BY DEF StoppedServerForgotten
        <4>1. CASE e = made + 1
          BY <2>1, <3>2, <3>3, <4>1 DEF LeaseInv
        <4>2. CASE e # made + 1
          BY <1>0, <2>1, <3>2, <3>3, <4>2 DEF LeaseInv, Known, StoppedServerForgotten
        <4>3. QED
          BY <4>1, <4>2
      <3>6. home' \in [Entry -> 0 .. starts] /\ offer' \in [Worker -> 0 .. starts]
        <4>1. offer[w] \in 0 .. starts /\ 0 \in 0 .. starts
          BY <1>0 DEF LeaseInv
        <4>2. home' \in [Entry -> 0 .. starts]
          BY <3>1, <3>3, <4>1 DEF LeaseInv
        <4>3. offer' \in [Worker -> 0 .. starts]
          BY <2>1, <4>1 DEF LeaseInv
        <4>4. QED
          BY <4>2, <4>3
      <3>7. QED
        BY <1>0, <2>1, <2>3, <3>4, <3>5, <3>6, ReturnKeepsLease DEF LeaseInv, Known
    <2>4. QED
      BY <2>1, <2>2, <2>3 DEF Put
  <1>6. ASSUME NEW w \in Worker, Consult(w) PROVE LeaseInv'
    <2>1. UNCHANGED <<starts, ends, offer, home, made>>
      BY <1>6 DEF Consult, publisher, Beat, Stamp, Refresh, Missing, Resolve, Check, Pop, Answer, vars
    <2>2. ASSUME UNCHANGED card PROVE StoppedServerForgotten' /\ \A e \in Entry : Known(card'[e].from)
      BY <2>1, <2>2 DEF LeaseInv, StoppedServerForgotten
    <2>3. ASSUME UNCHANGED card,
                 \A v \in Worker :
                   \/ copy'[v] = copy[v] /\ pc'[v] = pc[v]
                   \/ Known(copy'[v].from) /\ pc'[v] # "put"
          PROVE  LeaseInv'
      BY <1>0, <2>1, <2>2, <2>3 DEF LeaseInv, Known
    <2>4. CASE Beat(w)
      <3>1. Known(card[entry].from)
        BY <1>0, <2>4, SizeAssumption DEF Beat, LeaseInv, TypeOK, Entry
      <3>2. QED
        BY <1>0, <2>3, <2>4, <3>1 DEF Beat, Goto, TypeOK
    <2>5. CASE Stamp(w)
      <3>1. copy'[w].from = copy[w].from
        BY <1>0, <2>5 DEF Stamp, TypeOK, Card
      <3>2. QED
        BY <1>0, <2>3, <2>5, <3>1 DEF Stamp, Goto, TypeOK, LeaseInv
    <2>6. CASE Refresh(w)
      <3>1. copy[w].signed = 0 /\ Known(copy[w].from) /\ Return(w)
        BY <1>0, <2>6 DEF Refresh, SignedInv, LeaseInv
      <3>2. \A e \in Entry : card'[e] = card[e] \/ card'[e] = copy[w]
        BY <1>0, <2>6 DEF Refresh, TypeOK
      <3>3. StoppedServerForgotten'
        BY <2>1, <3>1, <3>2 DEF LeaseInv, StoppedServerForgotten
      <3>4. \A e \in Entry : card'[e].from \in 0 .. made
        BY <3>1, <3>2 DEF LeaseInv, Known
      <3>5. QED
        BY <1>0, <2>1, <3>1, <3>3, <3>4, ReturnKeepsLease DEF LeaseInv, Known
    <2>7. CASE Missing(w) \/ Resolve(w) \/ Check(w)
      <3>1. card' = card /\ copy' = copy
        BY <2>7 DEF Missing, Resolve, Check, vars
      <3>2. \A v \in Worker : pc'[v] = pc[v] \/ pc'[v] # "put"
        <4>1. CASE Missing(w)
          BY <4>1 DEF Missing, vars
        <4>2. CASE Resolve(w)
          BY <1>0, <4>2 DEF Resolve, Goto, TypeOK
        <4>3. CASE Check(w)
          BY <1>0, <4>3 DEF Check, Goto, TypeOK
        <4>4. QED
          BY <2>7, <4>1, <4>2, <4>3
      <3>3. QED
        BY <2>3, <3>1, <3>2 DEF LeaseInv, Known
    <2>8. CASE Pop(w) \/ Answer(w)
      BY <1>0, <2>3, <2>8 DEF Pop, Answer, Return, Goto, NoCard, TypeOK, Known
    <2>9. QED
      BY <1>6, <2>4, <2>5, <2>6, <2>7, <2>8 DEF Consult
  <1>7. QED
    BY <1>1, <1>2, <1>3, <1>4, <1>5, <1>6 DEF FederationNext

\* However heartbeats, publications and restarts interleave, no signed card gives a
\* start's address longer than the card that start made.
THEOREM StoppedServersAreForgotten == FederationSpec => []StoppedServerForgotten
  <1>1. FederationInit => IInv /\ LeaseInv
    BY InitHolds, LeaseInit DEF FederationInit
  <1>2. IInv /\ [FederationNext]_<<vars, publisher>> => IInv'
    BY FederationStepIsDirectoryStep, PuttingStep, TypeStep, SignedStep DEF IInv
  <1>3. LeaseInv => StoppedServerForgotten
    BY DEF LeaseInv
  <1>4. QED
    BY <1>1, <1>2, <1>3, LeaseStep, PTL DEF FederationSpec
=============================================================================
