---------------------------- MODULE SqliteProofs ----------------------------
(***************************************************************************)
(* SqliteStores for any threads and tables: what the shared connection     *)
(* shows is the disk overlaid with the rows of the puts in its open        *)
(* transaction, and those puts still hold their stores.  So nobody reads   *)
(* an uncommitted row, and the bundle keeps the promise of DurableStore.   *)
(* Then GraphModule over these stores, its tables among any others: that   *)
(* its requests only put, and what a thread alone leaves on the disk.      *)
(***************************************************************************)
EXTENDS GraphModule, TLAPS

Pending(t) == fate[t] = "pending"
Busy(t) == step[t] # "idle"

\* Where a put is tells what has become of its row.
Control ==
  \A t \in Thread :
    /\ ~Busy(t) => fate[t] \in {"none", "returned", "raised"}
    /\ Busy(t) => put[t] \in Put /\ t \in threads
    /\ step[t] \in {"check", "begin", "execute"} => fate[t] = "asked"
    /\ step[t] \in {"leave", "commit"} => fate[t] \in {"pending", "stored", "lost"}
    /\ step[t] = "undo" => fate[t] \in {"asked", "pending", "stored", "lost"}

\* A store has one put at a time.
Locks == \A t, u \in Thread : Busy(t) /\ Busy(u) /\ t # u => put[t].store # put[u].store

\* The connection shows the rows of the transaction over those of the disk.
Overlay ==
  /\ \A t \in Thread : Pending(t) => open /\ view[put[t].store][put[t].key] = put[t].row
  /\ \A s \in Store, k \in Key :
       (\A t \in Thread : Pending(t) => ~(put[t].store = s /\ put[t].key = k)) =>
         view[s][k] = disk[s][k]

\* A thread alone is in the transaction whenever there is one.
AloneInv ==
  \A t \in Thread : threads = {t} =>
    /\ open <=> step[t] \in {"execute", "leave", "commit", "undo"}
    /\ fate[t] \notin {"stored", "lost"}

Inv == StoresTypeOK /\ Control /\ Locks /\ Overlay /\ NothingLeftOpen /\ AloneInv

LEMMA InvInit == StoresInit => Inv
  BY DEF StoresInit, Inv, StoresTypeOK, Control, Locks, Overlay, NothingLeftOpen, AloneInv,
         Pending, Busy, Contents

-----------------------------------------------------------------------------
(* What a step does to one thread's row does not disturb the others'. *)

LEMMA AskStep ==
  ASSUME Inv, NEW t \in Thread, NEW p \in Put, Ask(t, p), UNCHANGED threads
  PROVE  Inv'
  <1> USE DEF Inv, StoresTypeOK, Ask, Goto
  <1>1. /\ put'[t] = p /\ step'[t] = "check" /\ fate'[t] = "asked"
        /\ \A u \in Thread \ {t} : put'[u] = put[u] /\ step'[u] = step[u] /\ fate'[u] = fate[u]
        /\ ~Busy(t) /\ fate[t] \in {"none", "returned", "raised"}
    BY DEF Busy, Control
  <1>2. StoresTypeOK'
    OBVIOUS
  <1>3. Control'
    BY <1>1 DEF Control, Busy
  <1>4. Locks'
    BY <1>1 DEF Locks, Busy, Free
  <1>5. Overlay'
    BY <1>1 DEF Overlay, Pending
  <1>6. NothingLeftOpen'
    BY <1>1 DEF NothingLeftOpen
  <1>7. AloneInv'
    BY <1>1 DEF AloneInv, Busy
  <1>8. QED
    BY <1>2, <1>3, <1>4, <1>5, <1>6, <1>7

\* Steps that change neither rows nor fates.
LEMMA QuietStep ==
  ASSUME Inv, NEW t \in Thread, Check(t) \/ Begin(t) \/ Fail(t) \/ Leave(t), UNCHANGED threads
  PROVE  Inv'
  <1> USE DEF Inv, StoresTypeOK, Goto
  <1>1. /\ Busy(t) /\ Busy(t)'
        /\ \A u \in Thread \ {t} : step'[u] = step[u]
        /\ UNCHANGED <<disk, view, put, fate>>
    BY DEF Check, Begin, Fail, Fails, Leave, Busy
  <1>2. StoresTypeOK'
    BY DEF Check, Begin, Fail, Fails, Leave
  <1>3. Control'
    BY <1>1 DEF Control, Busy, Check, Begin, Fail, Fails, Leave
  <1>4. Locks'
    BY <1>1 DEF Locks, Busy
  <1>5. Overlay'
    BY <1>1 DEF Overlay, Pending, Check, Begin, Fail, Leave
  <1>6. NothingLeftOpen'
    BY <1>1 DEF NothingLeftOpen, Busy
  <1>7. AloneInv'
    <2>1. \A u \in Thread : threads = {u} => t = u
      BY <1>1 DEF Control
    <2>2. QED
      BY <1>1, <2>1 DEF AloneInv, Check, Begin, Fail, Fails, Leave
  <1>8. QED
    BY <1>2, <1>3, <1>4, <1>5, <1>6, <1>7

LEMMA ReplaceFacts ==
  ASSUME NEW rows \in Contents, NEW p \in Put
  PROVE  /\ Replace(rows, p) \in Contents
         /\ Replace(rows, p)[p.store][p.key] = p.row
         /\ \A s \in Store, k \in Key :
              ~(p.store = s /\ p.key = k) => Replace(rows, p)[s][k] = rows[s][k]
  BY DEF Replace, Contents, Put

LEMMA ExecuteStep ==
  ASSUME Inv, NEW t \in Thread, Execute(t), UNCHANGED threads
  PROVE  Inv'
  <1> USE DEF Inv, StoresTypeOK, Goto
  <1>1. /\ Busy(t) /\ Busy(t)' /\ put[t] \in Put /\ step'[t] = "leave"
        /\ fate[t] = "asked" /\ fate'[t] = IF open THEN "pending" ELSE "stored"
        /\ \A u \in Thread \ {t} : step'[u] = step[u] /\ fate'[u] = fate[u]
        /\ view' = Replace(view, put[t])
        /\ disk' = IF open THEN disk ELSE Replace(disk, put[t])
        /\ UNCHANGED <<open, put>>
    BY DEF Execute, Busy, Control
  <1>2. view' \in Contents /\ disk' \in Contents
    BY <1>1, ReplaceFacts
  <1>3. StoresTypeOK'
    BY <1>2 DEF Execute
  <1>4. Control'
    BY <1>1 DEF Control, Busy
  <1>5. Locks'
    BY <1>1 DEF Locks, Busy
  <1>6. Overlay'
    <2>1. ASSUME NEW u \in Thread, u # t, Pending(u)
          PROVE  open' /\ view'[put'[u].store][put'[u].key] = put'[u].row
      <3>1. open /\ view[put[u].store][put[u].key] = put[u].row /\ Busy(u) /\ put[u] \in Put
        BY <2>1 DEF Overlay, Control, Pending
      <3>2. put[u].store # put[t].store /\ put[u].store \in Store /\ put[u].key \in Key
        BY <1>1, <2>1, <3>1 DEF Locks, Put
      <3>3. view'[put[u].store][put[u].key] = view[put[u].store][put[u].key]
        BY <1>1, <3>2, ReplaceFacts
      <3>4. QED
        BY <1>1, <3>1, <3>3
    <2>2. Pending(t)' => open' /\ view'[put'[t].store][put'[t].key] = put'[t].row
      BY <1>1, ReplaceFacts DEF Pending
    <2>3. \A u \in Thread : Pending(u)' => open' /\ view'[put'[u].store][put'[u].key] = put'[u].row
      BY <1>1, <2>1, <2>2 DEF Pending
    <2>4. ASSUME NEW s \in Store, NEW k \in Key,
                 \A u \in Thread : Pending(u)' => ~(put'[u].store = s /\ put'[u].key = k)
          PROVE  view'[s][k] = disk'[s][k]
      <3>1. ~Pending(t) /\ \A u \in Thread : Pending(u) => ~(put[u].store = s /\ put[u].key = k)
        BY <1>1, <2>4 DEF Pending
      <3>2. view[s][k] = disk[s][k]
        BY <3>1 DEF Overlay
      <3>3. CASE put[t].store = s /\ put[t].key = k
        <4>1. ~open
          BY <1>1, <2>4, <3>3 DEF Pending
        <4>2. view'[s][k] = put[t].row /\ disk'[s][k] = put[t].row
          BY <1>1, <3>3, <4>1, ReplaceFacts
        <4>3. QED
          BY <4>2
      <3>4. CASE ~(put[t].store = s /\ put[t].key = k)
        BY <1>1, <3>2, <3>4, ReplaceFacts
      <3>5. QED
        BY <3>3, <3>4
    <2>5. QED
      BY <2>3, <2>4 DEF Overlay
  <1>7. NothingLeftOpen'
    BY <1>1 DEF NothingLeftOpen, Busy
  <1>8. AloneInv'
    <2>1. \A u \in Thread : threads = {u} => t = u
      BY <1>1 DEF Control
    <2>2. QED
      BY <1>1, <2>1 DEF AloneInv, Execute
  <1>9. QED
    BY <1>3, <1>4, <1>5, <1>6, <1>7, <1>8

-----------------------------------------------------------------------------
(* The end of a put, and of the transaction with it. *)

\* Without a transaction the connection shows the disk.
LEMMA Settled ==
  ASSUME StoresTypeOK, Overlay, \A t \in Thread : ~Pending(t)
  PROVE  view = disk
  BY DEF StoresTypeOK, Contents, Overlay

LEMMA EndStep ==
  ASSUME Inv, NEW t \in Thread, Return(t) \/ Raise(t), UNCHANGED threads
  PROVE  Inv'
  <1> USE DEF Inv, StoresTypeOK, Goto
  <1>1. /\ step[t] \in {"leave", "commit", "undo"} /\ step'[t] = "idle"
        /\ fate'[t] \in {"returned", "raised"}
        /\ \A u \in Thread \ {t} : step'[u] = step[u] /\ put'[u] = put[u]
        /\ open' = FALSE
    BY DEF Return, Commit, Raise, Settle, Unlock
  <1>2. \A u \in Thread \ {t} :
          IF Pending(u) THEN fate'[u] \in {"stored", "lost"} ELSE fate'[u] = fate[u]
    BY DEF Return, Commit, Raise, Settle, Pending, Overlay
  <1>3. view' = disk' /\ disk' \in Contents
    <2>1. CASE open
      BY <2>1 DEF Return, Commit, Raise
    <2>2. CASE ~open
      BY <2>2, Settled DEF Return, Commit, Raise, Overlay
    <2>3. QED
      BY <2>1, <2>2
  <1>4. put' \in [Thread -> Put \cup {NoPut}] /\ step' = [step EXCEPT ![t] = "idle"]
    <2>1. Unlock(t)
      BY DEF Return, Commit, Raise
    <2>2. QED
      BY <2>1 DEF Unlock
  <1>5. fate' \in [Thread ->
          {"none", "asked", "pending", "stored", "lost", "returned", "raised"}]
    <2>1. DOMAIN fate' = Thread /\ fate' = [u \in Thread |-> fate'[u]]
      BY DEF Return, Commit, Raise, Settle
    <2>2. \A u \in Thread :
            fate'[u] \in {"none", "asked", "pending", "stored", "lost", "returned", "raised"}
      BY <1>1, <1>2
    <2>3. QED
      BY <2>1, <2>2
  <1>6. StoresTypeOK'
    BY <1>1, <1>3, <1>4, <1>5
  <1>7. Control'
    BY <1>1, <1>2 DEF Control, Busy, Pending
  <1>8. Locks'
    BY <1>1 DEF Locks, Busy
  <1>9. Overlay'
    <2>1. \A u \in Thread : ~Pending(u)'
      BY <1>1, <1>2 DEF Pending
    <2>2. QED
      BY <1>3, <2>1 DEF Overlay
  <1>10. NothingLeftOpen'
    BY <1>1 DEF NothingLeftOpen
  <1>11. AloneInv'
    <2>1. \A u \in Thread : threads = {u} => t = u
      BY <1>1 DEF Control, Busy
    <2>2. QED
      BY <1>1, <2>1 DEF AloneInv
  <1>12. QED
    BY <1>6, <1>7, <1>8, <1>9, <1>10, <1>11

LEMMA CrashStep ==
  ASSUME Inv, CrashStores, UNCHANGED threads
  PROVE  Inv'
  <1> USE DEF Inv, CrashStores
  <1>1. \A t \in Thread : step'[t] = "idle" /\ fate'[t] = "none"
    OBVIOUS
  <1>2. StoresTypeOK'
    BY DEF StoresTypeOK
  <1>3. Control' /\ Locks' /\ Overlay'
    BY <1>1 DEF Control, Locks, Overlay, Pending, Busy
  <1>4. NothingLeftOpen' /\ AloneInv'
    BY <1>1 DEF NothingLeftOpen, AloneInv
  <1>5. QED
    BY <1>2, <1>3, <1>4

LEMMA InvNext == Inv /\ [StoresNext]_storeVars => Inv'
  <1>1. Inv /\ UNCHANGED storeVars => Inv'
    BY DEF storeVars, Inv, StoresTypeOK, Control, Locks, Overlay, NothingLeftOpen, AloneInv,
           Pending, Busy
  <1>2. ASSUME Inv, UNCHANGED threads, NEW t \in Thread,
               (\E p \in Put : Ask(t, p)) \/ Inner(t) \/ Return(t) \/ Raise(t)
        PROVE  Inv'
    <2>1. CASE \E p \in Put : Ask(t, p)
      BY <1>2, <2>1, AskStep
    <2>2. CASE Inner(t)
      BY <1>2, <2>2, QuietStep, ExecuteStep DEF Inner
    <2>3. CASE Return(t) \/ Raise(t)
      BY <1>2, <2>3, EndStep
    <2>4. QED
      BY <1>2, <2>1, <2>2, <2>3
  <1>3. QED
    BY <1>1, <1>2, CrashStep DEF StoresNext

LEMMA Invariance == StoresSpec => []Inv
  BY InvInit, InvNext, PTL DEF StoresSpec

\* For any threads over any tables, a get never returns a row that a rollback or a
\* crash may take back.
THEOREM ReadsAreCommitted == StoresSpec => []NoDirtyReads
  <1>1. Inv => NoDirtyReads
    <2> SUFFICES ASSUME Inv, NEW s \in Store, Free(s) PROVE view[s] = disk[s]
      BY DEF NoDirtyReads
    <2>1. \A t \in Thread : Pending(t) => put[t].store # s
      BY DEF Inv, Control, Pending, Busy, Free
    <2>2. \A k \in Key : view[s][k] = disk[s][k]
      BY <2>1 DEF Inv, Overlay
    <2>3. view[s] \in [Key -> Row \cup {NoRow}] /\ disk[s] \in [Key -> Row \cup {NoRow}]
      BY DEF Inv, StoresTypeOK, Contents
    <2>4. QED
      BY <2>2, <2>3
  <1>2. QED
    BY <1>1, Invariance, PTL

\* For any threads, no transaction stays open when the last put has ended.
THEOREM TransactionsEnd == StoresSpec => []NothingLeftOpen
  <1>1. Inv => NothingLeftOpen
    BY DEF Inv
  <1>2. QED
    BY <1>1, Invariance, PTL

-----------------------------------------------------------------------------
(* The promise of DurableStore. *)

\* How the abstract store sees a put.
Seen == [t \in Thread |-> IF fate[t] = "pending" THEN "asked" ELSE fate[t]]

Caught == {t \in Thread : Pending(t)}

LEMMA SeenFacts ==
  ASSUME Inv
  PROVE  /\ \A t \in Thread : Durable!Holds(t) <=> Busy(t)
         /\ Caught \subseteq Durable!Waiting
  BY DEF Inv, StoresTypeOK, Control, Busy, Pending, Caught, Durable!Holds, Durable!Waiting

\* Two states of the tables are equal if they agree in every row.
LEMMA SameContents ==
  ASSUME NEW a \in Contents, NEW b, DOMAIN b = Store, b = [s \in Store |-> b[s]],
         \A s \in Store : b[s] = [k \in Key |-> a[s][k]]
  PROVE  b = a
  <1>1. \A s \in Store : a[s] = [k \in Key |-> a[s][k]]
    BY DEF Contents
  <1>2. a = [s \in Store |-> a[s]]
    BY DEF Contents
  <1>3. QED
    BY <1>1, <1>2

\* Writing down the rows of the open transaction gives what the connection shows.
LEMMA CaughtIsView == Inv => Durable!Written(Caught) = view
  <1> SUFFICES ASSUME Inv PROVE Durable!Written(Caught) = view
    OBVIOUS
  <1>1. ASSUME NEW s \in Store, NEW k \in Key
        PROVE  view[s][k] =
                 IF \E t \in Caught : put[t].store = s /\ put[t].key = k
                   THEN put[CHOOSE t \in Caught : put[t].store = s].row
                   ELSE disk[s][k]
    <2>1. CASE \E t \in Caught : put[t].store = s /\ put[t].key = k
      <3>1. PICK t \in Caught : put[t].store = s /\ put[t].key = k
        BY <2>1
      <3>2. \A u \in Caught : put[u].store = s => u = t
        BY <3>1 DEF Inv, Locks, Control, Caught, Pending, Busy
      <3>3. t = CHOOSE u \in Caught : put[u].store = s
        BY <3>1, <3>2
      <3>4. view[s][k] = put[t].row
        BY <3>1 DEF Inv, Overlay, Caught
      <3>5. QED
        BY <2>1, <3>3, <3>4
    <2>2. CASE ~ \E t \in Caught : put[t].store = s /\ put[t].key = k
      BY <2>2 DEF Inv, Overlay, Caught
    <2>3. QED
      BY <2>1, <2>2
  <1>2. view \in Contents
    BY DEF Inv, StoresTypeOK
  <1>3. \A s \in Store : Durable!Written(Caught)[s] = [k \in Key |-> view[s][k]]
    BY <1>1 DEF Durable!Written
  <1>4. /\ DOMAIN Durable!Written(Caught) = Store
        /\ Durable!Written(Caught) = [s \in Store |-> Durable!Written(Caught)[s]]
    BY DEF Durable!Written
  <1>5. QED
    BY <1>2, <1>3, <1>4, SameContents

\* A row committed by itself.
LEMMA WrittenAlone ==
  ASSUME Inv, NEW t \in Thread, put[t] \in Put
  PROVE  Durable!Written({t}) = Replace(disk, put[t])
  <1>1. disk \in Contents
    BY DEF Inv, StoresTypeOK
  <1>2. t = CHOOSE u \in {t} : put[u].store = put[t].store
    OBVIOUS
  <1>3. ASSUME NEW s \in Store, NEW k \in Key
        PROVE  Replace(disk, put[t])[s][k] =
                 IF \E u \in {t} : put[u].store = s /\ put[u].key = k
                   THEN put[CHOOSE u \in {t} : put[u].store = s].row
                   ELSE disk[s][k]
    BY <1>1, <1>2, ReplaceFacts
  <1>4. Replace(disk, put[t]) \in Contents
    BY <1>1, ReplaceFacts
  <1>5. \A s \in Store :
          Durable!Written({t})[s] = [k \in Key |-> Replace(disk, put[t])[s][k]]
    BY <1>3 DEF Durable!Written
  <1>6. /\ DOMAIN Durable!Written({t}) = Store
        /\ Durable!Written({t}) = [s \in Store |-> Durable!Written({t})[s]]
    BY DEF Durable!Written
  <1> DEFINE a == Replace(disk, put[t])
             b == Durable!Written({t})
  <1>7. a \in Contents /\ DOMAIN b = Store /\ b = [s \in Store |-> b[s]]
    BY <1>4, <1>6
  <1>8. \A s \in Store : b[s] = [k \in Key |-> a[s][k]]
    BY <1>5
  <1>9. b = a
    <2> HIDE DEF a, b
    <2> QED
      BY <1>7, <1>8, SameContents
  <1>10. QED
    BY <1>9

LEMMA ImplementsEnd ==
  ASSUME Inv, NEW t \in Thread, Return(t) \/ Raise(t), UNCHANGED threads
  PROVE  \E ts \in SUBSET Durable!Waiting : Durable!Return(t, ts) \/ Durable!Raise(t, ts)
  <1> USE DEF Inv, StoresTypeOK
  <1>1. Caught \in SUBSET Durable!Waiting /\ Durable!Written(Caught) = view
    BY SeenFacts, CaughtIsView
  <1>2. Durable!Over(t) /\ Busy(t)
    BY DEF Return, Commit, Raise, Unlock, Durable!Over, NoPut, Busy
  <1>3. CASE Return(t)
    <2>1. disk' = Durable!Written(Caught)
      <3>1. CASE Commit(t)
        BY <1>1, <3>1 DEF Commit
      <3>2. CASE step[t] = "leave" /\ ~open
        BY <1>1, <1>3, <3>2, Settled DEF Return, Commit, Overlay
      <3>3. QED
        BY <1>3, <3>1, <3>2 DEF Return
    <2>2. t \in Caught \/ Seen[t] \in {"stored", "lost"}
      BY <1>3 DEF Return, Commit, Control, Caught, Pending, Seen
    <2>3. Seen' = [u \in Thread |-> IF u = t THEN "returned"
                                    ELSE IF u \in Caught THEN "stored" ELSE Seen[u]]
      BY <1>3 DEF Return, Commit, Settle, Seen, Caught, Pending, Overlay
    <2>4. QED
      BY <1>1, <1>2, <2>1, <2>2, <2>3 DEF Durable!Return, Seen
  <1>4. CASE Raise(t)
    <2>1. Seen' = [u \in Thread |-> IF u = t THEN "raised"
                                    ELSE IF u \in Caught THEN "lost" ELSE Seen[u]]
      BY <1>4 DEF Raise, Settle, Seen, Caught, Pending
    <2>2. threads = {t} => Seen[t] = "asked"
      BY <1>4 DEF Raise, AloneInv, Control, Seen
    <2>3. Durable!Holds(t) /\ disk' = disk
      BY <1>2, <1>4, SeenFacts DEF Raise
    <2>4. QED
      BY <1>1, <1>2, <2>1, <2>2, <2>3 DEF Durable!Raise, Seen
  <1>5. QED
    BY <1>3, <1>4

LEMMA ImplementsNext ==
  ASSUME Inv, [StoresNext]_storeVars
  PROVE  [Durable!Next]_(Durable!vars)
  <1> USE DEF Inv, StoresTypeOK, Goto
  <1>1. CASE UNCHANGED storeVars
    BY <1>1 DEF storeVars, Durable!vars
  <1>2. CASE CrashStores /\ UNCHANGED threads
    <2>1. put' \in [Thread -> {NoRow}] /\ Seen' = [t \in Thread |-> "none"]
      BY <1>2 DEF CrashStores, Seen, NoPut
    <2>2. Durable!Crash
      BY <1>2, <2>1 DEF CrashStores, Durable!Crash, Seen
    <2>3. QED
      BY <1>2, <2>2 DEF Durable!Next
  <1>3. ASSUME NEW t \in Thread, UNCHANGED threads,
               (\E p \in Put : Ask(t, p)) \/ Inner(t) \/ Return(t) \/ Raise(t)
        PROVE  [Durable!Next]_(Durable!vars)
    <2>1. ASSUME NEW p \in Put, Ask(t, p) PROVE Durable!Ask(t)
      <3>1. put'[t] = p /\ put' = [put EXCEPT ![t] = p] /\ ~Busy(t)
        BY <2>1 DEF Ask, Busy
      <3>2. Seen' = [Seen EXCEPT ![t] = "asked"]
        BY <2>1 DEF Ask, Seen
      <3>3. Durable!Free(p.store) /\ ~Durable!Holds(t)
        BY <2>1, <3>1, SeenFacts DEF Ask, Free, Busy, Durable!Free
      <3>4. p \in Durable!Put
        BY DEF Put, Durable!Put
      <3>5. QED
        BY <2>1, <3>1, <3>2, <3>3, <3>4 DEF Ask, Durable!Ask, Seen
    <2>2. CASE Check(t) \/ Begin(t) \/ Fail(t) \/ Leave(t)
      <3>1. UNCHANGED <<threads, disk, put, fate>>
        BY <1>3, <2>2 DEF Check, Begin, Fail, Leave
      <3>2. QED
        BY <3>1 DEF Durable!vars
    <2>3. CASE Execute(t)
      <3>1. fate[t] = "asked" /\ put[t] \in Put /\ UNCHANGED put
        BY <2>3 DEF Execute, Control, Busy
      <3>2. CASE open
        <4>1. Seen' = Seen /\ disk' = disk
          BY <2>3, <3>1, <3>2 DEF Execute, Seen
        <4>2. QED
          BY <1>3, <3>1, <4>1 DEF Durable!vars, Seen
      <3>3. CASE ~open
        <4>1. Seen' = [u \in Thread |-> IF u \in {t} THEN "stored" ELSE Seen[u]]
          BY <2>3, <3>3 DEF Execute, Seen
        <4>2. disk' = Durable!Written({t})
          BY <2>3, <3>1, <3>3, WrittenAlone DEF Execute
        <4>3. {t} \in SUBSET Durable!Waiting
          BY <3>1 DEF Durable!Waiting
        <4>4. Durable!Keep({t})
          BY <3>1, <4>1, <4>2 DEF Durable!Keep, Seen
        <4>5. QED
          BY <1>3, <4>3, <4>4 DEF Durable!Next
      <3>4. QED
        BY <3>2, <3>3
    <2>4. CASE Return(t) \/ Raise(t)
      BY <1>3, <2>4, ImplementsEnd DEF Durable!Next
    <2>5. QED
      BY <1>3, <2>1, <2>2, <2>3, <2>4 DEF Inner, Durable!Next
  <1>4. QED
    BY <1>1, <1>2, <1>3 DEF StoresNext

\* For any threads over any tables, the stores over one connection keep what
\* DurableStore promises: alone, what returned is on the disk, what raised is not.
THEOREM StoresAreDurable == StoresSpec => DurableSpec
  <1>1. StoresInit => Durable!Init
    BY DEF StoresInit, Durable!Init, Contents, NoPut
  <1>2. Inv /\ [StoresNext]_storeVars => [Durable!Next]_(Durable!vars)
    BY ImplementsNext
  <1>3. QED
    BY <1>1, <1>2, Invariance, PTL DEF StoresSpec, DurableSpec, Durable!Spec

-----------------------------------------------------------------------------
(***************************************************************************)
(* The graph module over the stores.  A request's puts are of its tables,  *)
(* and it waits exactly while the stores have its put; so the graph's      *)
(* steps are the stores' steps, or touch them not at all.                  *)
(***************************************************************************)
Planned ==
  {p \in Put : /\ p.store \in Tables
               /\ p.store = "memberships" => p.key \in Id /\ p.row \in Membership
               /\ p.store = "provenance" => p.key = Org /\ p.row \in Outcome
               /\ p.store = "entities" => p.key = Org}

Memberships(rows) == \A i \in Id : rows["memberships"][i] \in Membership \cup {NoRow}

RequestOf(t) ==
  /\ pc[t] # "idle" => t \in threads /\ req[t] \in Request
  /\ pc[t] \in {"put", "wait"} => todo[t] \in Planned
  /\ pc[t] = "wait" <=> Busy(t)
  /\ Busy(t) => put[t] = todo[t]

GraphInv ==
  /\ pc \in [Thread -> {"idle", "find", "load", "put", "wait"}]
  /\ req \in [Thread -> Request \cup {NoRequest}]
  /\ todo \in [Thread -> Put \cup {NoPut}]
  /\ \A t \in Thread : RequestOf(t)
  /\ Memberships(view) /\ Memberships(disk)

(***************************************************************************)
(* What a thread alone can say of the disk.  A membership it is about to   *)
(* write is revoked, or nothing was told of it yet; what it is about to    *)
(* tell is on the disk; and so is what it relies on.                       *)
(***************************************************************************)
Going(t, s) == pc[t] \in {"put", "wait"} /\ todo[t].store = s

RevokedOnDisk(i) == disk["memberships"][i] # NoRow /\ disk["memberships"][i].status = "revoked"
AllowedOnDisk == disk["provenance"][Org] = [outcome |-> "allowed"]

Account(t) ==
  /\ \A i \in Id : disk["events"][i] # NoRow => RevokedOnDisk(i)
  /\ disk["organizations"][Org] # NoRow => disk["entities"][Org] # NoRow
  /\ Going(t, "memberships") =>
       /\ AllowedOnDisk
       /\ todo[t].row.status = "revoked" \/ disk["events"][todo[t].key] = NoRow
       /\ req[t].op = "remove" => todo[t].key = req[t].id /\ todo[t].row.status = "revoked"
  /\ Going(t, "events") /\ todo[t].key \in Id => RevokedOnDisk(todo[t].key)
  /\ Going(t, "organizations") => disk["entities"][Org] # NoRow
  /\ pc[t] \in {"find", "load"} /\ req[t].op # "create" => AllowedOnDisk

Accounts == \A t \in Thread : threads = {t} => Account(t)

LEMMA Schema ==
  /\ Org \in Key /\ Id \subseteq Key /\ Org \notin Id
  /\ \A s \in Tables : s \in Store
  /\ Membership \subseteq Row /\ Kind \subseteq Row /\ Organization \subseteq Row
  /\ Event \subseteq Row /\ Outcome \subseteq Row
  /\ NoRow \notin Row /\ NoRow \notin Membership
  BY IdAssumption, SchemaAssumption, RowAssumption

\* What a request is made of.
LEMMA RequestFacts ==
  ASSUME NEW r \in Request
  PROVE  /\ r.op \in {"add", "remove", "grant", "revoke", "register", "create"}
         /\ r.op = "add" => r.id \in Id /\ r.membership \in Membership
         /\ r.op = "remove" => r.id \in Id
         /\ r.op \in {"grant", "revoke"} => r.roles \in Roles
         /\ r.op = "register" => r.entity \in Kind
         /\ r.op \in {"add", "remove", "grant", "revoke"} <=> r \in RoleChange
  BY DEF Request, RoleChange

LEMMA PlanFacts ==
  ASSUME GraphInv, NEW t \in Thread, NEW s, NEW k, NEW r,
         [store |-> s, key |-> k, row |-> r] \in Planned, Plan(t, s, k, r)
  PROVE  /\ pc' \in [Thread -> {"idle", "find", "load", "put", "wait"}]
         /\ todo' \in [Thread -> Put \cup {NoPut}]
         /\ pc'[t] = "put" /\ todo'[t] = [store |-> s, key |-> k, row |-> r]
         /\ \A u \in Thread \ {t} : pc'[u] = pc[u] /\ todo'[u] = todo[u]
  BY DEF GraphInv, Plan, To, Planned

LEMMA OverFacts ==
  ASSUME GraphInv, NEW t \in Thread, Over(t)
  PROVE  /\ pc' \in [Thread -> {"idle", "find", "load", "put", "wait"}]
         /\ req' \in [Thread -> Request \cup {NoRequest}]
         /\ todo' \in [Thread -> Put \cup {NoPut}]
         /\ pc'[t] = "idle"
         /\ \A u \in Thread \ {t} : pc'[u] = pc[u] /\ req'[u] = req[u] /\ todo'[u] = todo[u]
  BY DEF GraphInv, Over, To

\* The other threads' requests stay as they are.
LEMMA OneRequest ==
  ASSUME GraphInv, NEW t \in Thread, UNCHANGED threads,
         pc' \in [Thread -> {"idle", "find", "load", "put", "wait"}],
         req' \in [Thread -> Request \cup {NoRequest}],
         todo' \in [Thread -> Put \cup {NoPut}],
         \A u \in Thread \ {t} : /\ pc'[u] = pc[u] /\ req'[u] = req[u] /\ todo'[u] = todo[u]
                                 /\ step'[u] = step[u] /\ put'[u] = put[u],
         RequestOf(t)', Memberships(view)', Memberships(disk)'
  PROVE  GraphInv'
  <1>1. ASSUME NEW u \in Thread PROVE RequestOf(u)'
    <2>1. CASE u = t
      BY <2>1
    <2>2. CASE u # t
      BY <2>2 DEF GraphInv, RequestOf, Busy
    <2>3. QED
      BY <2>1, <2>2
  <1>2. QED
    BY <1>1 DEF GraphInv

LEMMA EnforcesFacts ==
  ASSUME GraphInv, NEW t \in Thread, Enforces(t)
  PROVE  /\ pc' \in [Thread -> {"idle", "find", "load", "put", "wait"}]
         /\ todo' \in [Thread -> Put \cup {NoPut}]
         /\ pc'[t] = "put" /\ todo'[t] \in Planned /\ todo'[t].store = "provenance"
         /\ \A u \in Thread \ {t} : pc'[u] = pc[u] /\ todo'[u] = todo[u]
  <1>1. PICK o \in Outcome : Plan(t, "provenance", Org, o)
    BY DEF Enforces
  <1>2. [store |-> "provenance", key |-> Org, row |-> o] \in Planned
    BY Schema DEF Planned, Put, Tables
  <1>3. QED
    BY <1>1, <1>2, PlanFacts

LEMMA ReceiveStep ==
  ASSUME GraphInv, NEW t \in Thread, Receive(t), UNCHANGED threads
  PROVE  /\ GraphInv' /\ UNCHANGED storeVars
         /\ pc'[t] = "load" => req'[t].op = "create"
         /\ pc'[t] # "load" => pc'[t] = "put" /\ todo'[t].store \in {"provenance", "entities"}
  <1>1. PICK r \in Request : req' = [req EXCEPT ![t] = r] /\ Begins(t, r)
    BY DEF Receive
  <1>2. /\ t \in threads /\ pc[t] = "idle" /\ ~Busy(t) /\ UNCHANGED storeVars
        /\ req' \in [Thread -> Request \cup {NoRequest}] /\ req'[t] = r
        /\ \A u \in Thread \ {t} : req'[u] = req[u]
    BY <1>1 DEF Receive, GraphInv, RequestOf
  <1>3. /\ pc' \in [Thread -> {"idle", "find", "load", "put", "wait"}]
        /\ todo' \in [Thread -> Put \cup {NoPut}]
        /\ \A u \in Thread \ {t} : pc'[u] = pc[u] /\ todo'[u] = todo[u]
        /\ \/ pc'[t] = "load" /\ r.op = "create"
           \/ /\ pc'[t] = "put" /\ todo'[t] \in Planned
              /\ todo'[t].store \in {"provenance", "entities"}
    <2>1. CASE r \in RoleChange /\ Enforces(t)
      BY <2>1, EnforcesFacts
    <2>2. CASE r.op = "register" /\ Registers(t, r)
      <3>1. [store |-> "entities", key |-> Org, row |-> r.entity] \in Planned
        BY <2>2, Schema, RequestFacts DEF Planned, Put, Tables
      <3>2. QED
        BY <2>2, <3>1, PlanFacts DEF Registers
    <2>3. CASE r.op = "create" /\ To(t, "load") /\ UNCHANGED todo
      BY <2>3 DEF To, GraphInv
    <2>4. QED
      BY <1>1, <2>1, <2>2, <2>3 DEF Begins
  <1>4. RequestOf(t)'
    BY <1>2, <1>3 DEF RequestOf, Busy, storeVars
  <1>5. Memberships(view)' /\ Memberships(disk)'
    BY <1>2 DEF storeVars, GraphInv, Memberships
  <1>6. GraphInv'
    BY <1>2, <1>3, <1>4, <1>5, OneRequest DEF storeVars
  <1>7. QED
    BY <1>2, <1>3, <1>6

\* What a request that is not refused goes on to put.
LEMMA LoadFacts ==
  ASSUME GraphInv, NEW t \in Thread, Load(t)
  PROVE  /\ pc' \in [Thread -> {"idle", "find", "load", "put", "wait"}]
         /\ todo' \in [Thread -> Put \cup {NoPut}]
         /\ \A u \in Thread \ {t} : pc'[u] = pc[u] /\ todo'[u] = todo[u]
         /\ pc'[t] = "put" /\ todo'[t] \in Planned
         /\ \/ todo'[t].store = "entities" /\ Creates(req[t])
            \/ /\ todo'[t].store = "memberships" /\ req[t].op # "create"
               /\ \/ req[t].op # "remove" /\ view["memberships"][todo'[t].key] = NoRow
                  \/ /\ req[t].op = "remove"
                     /\ todo'[t].key = req[t].id /\ todo'[t].row.status = "revoked"
                  \/ /\ req[t].op # "remove"
                     /\ view["memberships"][todo'[t].key].status = "active"
  <1> DEFINE r == req[t]
  <1>0. r \in Request /\ pc[t] = "load"
    BY DEF Load, GraphInv, RequestOf
  <1>1. CASE Creates(r) /\ Plan(t, "entities", Org, [kind |-> "organization"])
    <2>1. [store |-> "entities", key |-> Org, row |-> [kind |-> "organization"]] \in Planned
      BY Schema DEF Planned, Put, Tables, Kind
    <2>2. QED
      BY <1>1, <2>1, PlanFacts
  <1>2. CASE Adds(r) /\ Plan(t, "memberships", r.id, r.membership)
    <2>1. r.id \in Id /\ r.membership \in Membership
      BY <1>0, <1>2, RequestFacts DEF Adds
    <2>2. [store |-> "memberships", key |-> r.id, row |-> r.membership] \in Planned
      BY <2>1, Schema DEF Planned, Put, Tables
    <2>3. QED
      BY <1>2, <2>2, PlanFacts DEF Adds, Stored
  <1>3. CASE /\ Removes(r)
             /\ Plan(t, "memberships", r.id, [MembershipOf(r.id) EXCEPT !.status = "revoked"])
    <2>1. r.id \in Id /\ MembershipOf(r.id) \in Membership
      BY <1>0, <1>3, RequestFacts DEF Removes, Stored, MembershipOf, GraphInv, Memberships
    <2> DEFINE m == [MembershipOf(r.id) EXCEPT !.status = "revoked"]
    <2>2. m \in Membership /\ m.status = "revoked"
      BY <2>1 DEF Membership
    <2>3. [store |-> "memberships", key |-> r.id, row |-> m] \in Planned
      BY <2>1, <2>2, Schema DEF Planned, Put, Tables
    <2>4. Plan(t, "memberships", r.id, m)
      BY <1>3
    <2> HIDE DEF m
    <2>5. QED
      BY <1>3, <2>2, <2>3, <2>4, PlanFacts DEF Removes
  <1>4. ASSUME NEW i \in Id, Edits(r, i), LeavesRole(Edited(r, MembershipOf(i).roles)),
               Plan(t, "memberships", i, [MembershipOf(i) EXCEPT !.roles = Edited(r, @)])
        PROVE  /\ pc' \in [Thread -> {"idle", "find", "load", "put", "wait"}]
               /\ todo' \in [Thread -> Put \cup {NoPut}]
               /\ \A u \in Thread \ {t} : pc'[u] = pc[u] /\ todo'[u] = todo[u]
               /\ pc'[t] = "put" /\ todo'[t] \in Planned
               /\ todo'[t].store = "memberships" /\ req[t].op \in {"grant", "revoke"}
               /\ view["memberships"][todo'[t].key].status = "active"
    <2>1. r.op \in {"grant", "revoke"} /\ r.roles \in Roles
      BY <1>0, <1>4, RequestFacts DEF Edits
    <2>2. MembershipOf(i) \in Membership /\ MembershipOf(i).status = "active"
      BY <1>4 DEF Edits, FirstOf, ActiveOf, Stored, MembershipOf, GraphInv, Memberships
    <2> DEFINE m == [MembershipOf(i) EXCEPT !.roles = Edited(r, @)]
    <2>3. Edited(r, MembershipOf(i).roles) \in Roles
      BY <1>4, <2>1, <2>2 DEF Edited, LeavesRole, Roles, Membership
    <2>4. m \in Membership
      BY <2>2, <2>3 DEF Membership
    <2>5. [store |-> "memberships", key |-> i, row |-> m] \in Planned
      BY <2>4, Schema DEF Planned, Put, Tables
    <2>6. Plan(t, "memberships", i, m)
      BY <1>4
    <2> HIDE DEF m
    <2>7. QED
      BY <2>1, <2>2, <2>5, <2>6, PlanFacts DEF MembershipOf
  <1>5. CASE \E i \in Id :
               /\ Edits(r, i) /\ LeavesRole(Edited(r, MembershipOf(i).roles))
               /\ Plan(t, "memberships", i, [MembershipOf(i) EXCEPT !.roles = Edited(r, @)])
    BY <1>4, <1>5
  <1>6. QED
    BY <1>1, <1>2, <1>3, <1>5 DEF Load

LEMMA FindStep ==
  ASSUME GraphInv, NEW t \in Thread, Find(t), UNCHANGED threads
  PROVE  /\ GraphInv' /\ UNCHANGED storeVars
         /\ \/ pc'[t] = "idle"
            \/ pc'[t] = "load" /\ UNCHANGED req
  <1>1. UNCHANGED storeVars /\ pc[t] = "find"
    BY DEF Find
  <1>2. Memberships(view)' /\ Memberships(disk)'
    BY <1>1 DEF storeVars, GraphInv, Memberships
  <1>3. CASE To(t, "load") /\ UNCHANGED <<req, todo>>
    <2>1. /\ pc' \in [Thread -> {"idle", "find", "load", "put", "wait"}] /\ pc'[t] = "load"
          /\ \A u \in Thread \ {t} : pc'[u] = pc[u]
      BY <1>3 DEF To, GraphInv
    <2>2. RequestOf(t)'
      BY <1>1, <1>3, <2>1 DEF RequestOf, Busy, storeVars, GraphInv
    <2>3. QED
      BY <1>1, <1>2, <1>3, <2>1, <2>2, OneRequest DEF storeVars, GraphInv
  <1>4. CASE Over(t)
    <2>1. RequestOf(t)'
      BY <1>1, <1>4, OverFacts DEF RequestOf, Busy, storeVars, GraphInv
    <2>2. QED
      BY <1>1, <1>2, <1>4, <2>1, OverFacts, OneRequest DEF storeVars
  <1>5. QED
    BY <1>3, <1>4 DEF Find

LEMMA LoadStep ==
  ASSUME GraphInv, NEW t \in Thread, Load(t), UNCHANGED threads
  PROVE  GraphInv' /\ UNCHANGED storeVars
  <1>1. UNCHANGED <<storeVars, req>> /\ pc[t] = "load"
    BY DEF Load
  <1>2. RequestOf(t)'
    BY <1>1, LoadFacts DEF RequestOf, Busy, storeVars, GraphInv
  <1>3. Memberships(view)' /\ Memberships(disk)' /\ req' \in [Thread -> Request \cup {NoRequest}]
    BY <1>1 DEF storeVars, GraphInv, Memberships
  <1>4. QED
    BY <1>1, <1>2, <1>3, LoadFacts, OneRequest DEF storeVars

LEMMA RefuseStep ==
  ASSUME GraphInv, NEW t \in Thread, Refuse(t), UNCHANGED threads
  PROVE  GraphInv' /\ UNCHANGED storeVars /\ pc'[t] = "idle"
  <1>1. UNCHANGED storeVars /\ pc[t] = "load" /\ Over(t)
    BY DEF Refuse
  <1>2. RequestOf(t)'
    BY <1>1, OverFacts DEF RequestOf, Busy, storeVars, GraphInv
  <1>3. Memberships(view)' /\ Memberships(disk)'
    BY <1>1 DEF storeVars, GraphInv, Memberships
  <1>4. QED
    BY <1>1, <1>2, <1>3, OverFacts, OneRequest DEF storeVars

LEMMA PutRowStep ==
  ASSUME Inv, GraphInv, NEW t \in Thread, PutRow(t), UNCHANGED threads
  PROVE  GraphInv' /\ Ask(t, todo[t]) /\ todo[t] \in Put
  <1>1. /\ pc[t] = "put" /\ Ask(t, todo[t]) /\ To(t, "wait") /\ UNCHANGED <<req, todo, begun>>
        /\ todo[t] \in Planned /\ t \in threads
    BY DEF PutRow, GraphInv, RequestOf
  <1>2. /\ pc' \in [Thread -> {"idle", "find", "load", "put", "wait"}] /\ pc'[t] = "wait"
        /\ put'[t] = todo[t] /\ step'[t] = "check"
        /\ \A u \in Thread \ {t} : pc'[u] = pc[u] /\ step'[u] = step[u] /\ put'[u] = put[u]
    BY <1>1 DEF To, Ask, Goto, GraphInv, Inv, StoresTypeOK
  <1>3. RequestOf(t)'
    BY <1>1, <1>2 DEF RequestOf, Busy, GraphInv
  <1>4. Memberships(view)' /\ Memberships(disk)'
    BY <1>1 DEF Ask, GraphInv, Memberships
  <1>5. GraphInv'
    BY <1>1, <1>2, <1>3, <1>4, OneRequest DEF GraphInv
  <1>6. QED
    BY <1>1, <1>5 DEF Planned

\* A planned row keeps memberships where they belong.
LEMMA ReplaceKeepsMemberships ==
  ASSUME NEW rows \in Contents, NEW p \in Planned, Memberships(rows)
  PROVE  Memberships(Replace(rows, p))
  <1>1. p \in Put
    BY DEF Planned
  <1>2. SUFFICES ASSUME NEW i \in Id
                 PROVE  Replace(rows, p)["memberships"][i] \in Membership \cup {NoRow}
    BY DEF Memberships
  <1>3. "memberships" \in Store /\ i \in Key
    BY Schema DEF Tables
  <1>4. CASE p.store = "memberships" /\ p.key = i
    BY <1>1, <1>4, ReplaceFacts DEF Planned
  <1>5. CASE ~(p.store = "memberships" /\ p.key = i)
    <2>1. Replace(rows, p)["memberships"][i] = rows["memberships"][i]
      BY <1>1, <1>3, <1>5, ReplaceFacts
    <2>2. QED
      BY <2>1 DEF Memberships
  <1>6. QED
    BY <1>4, <1>5

LEMMA WorkingStep ==
  ASSUME Inv, GraphInv, NEW t \in Thread, Working(t), UNCHANGED threads
  PROVE  GraphInv'
  <1>1. UNCHANGED <<pc, req, todo, begun, put>> /\ Busy(t) /\ Busy(t)'
    BY DEF Working, graphVars, Inner, Check, Begin, Fail, Fails, Execute, Leave, Busy, Goto, Inv,
           StoresTypeOK
  <1>2. \A u \in Thread \ {t} : step'[u] = step[u]
    BY DEF Working, Inner, Check, Begin, Fail, Execute, Leave, Goto, Inv, StoresTypeOK
  <1>3. RequestOf(t)'
    BY <1>1 DEF RequestOf, GraphInv
  <1>4. Memberships(view)' /\ Memberships(disk)'
    <2>1. CASE Execute(t)
      <3>1. put[t] \in Planned /\ view \in Contents /\ disk \in Contents
        BY <1>1 DEF GraphInv, RequestOf, Inv, StoresTypeOK
      <3>2. /\ view' = Replace(view, put[t])
            /\ disk' = disk \/ disk' = Replace(disk, put[t])
        BY <2>1 DEF Execute
      <3>3. Memberships(view) /\ Memberships(disk)
        BY DEF GraphInv
      <3>4. Memberships(Replace(view, put[t])) /\ Memberships(Replace(disk, put[t]))
        BY <3>1, <3>3, ReplaceKeepsMemberships
      <3>5. QED
        BY <3>2, <3>3, <3>4 DEF Memberships
    <2>2. CASE Check(t) \/ Begin(t) \/ Fail(t) \/ Leave(t)
      BY <2>2 DEF Check, Begin, Fail, Leave, GraphInv, Memberships
    <2>3. QED
      BY <2>1, <2>2 DEF Working, Inner
  <1>5. QED
    BY <1>1, <1>2, <1>3, <1>4, OneRequest DEF GraphInv

\* The end of a put, and what the request goes on with.
LEMMA EndFacts ==
  ASSUME Inv, GraphInv, NEW t \in Thread, Return(t) \/ Raise(t)
  PROVE  /\ ~Busy(t)' /\ pc[t] = "wait" /\ todo[t] \in Planned /\ t \in threads
         /\ req[t] \in Request
         /\ \A u \in Thread \ {t} : step'[u] = step[u] /\ put'[u] = put[u]
         /\ Memberships(view)' /\ Memberships(disk)'
  <1>1. Busy(t) /\ Unlock(t)
    BY DEF Return, Commit, Raise, Busy, Unlock
  <1>2. /\ ~Busy(t)'
        /\ \A u \in Thread \ {t} : step'[u] = step[u] /\ put'[u] = put[u]
    BY <1>1 DEF Unlock, Goto, Inv, StoresTypeOK, Busy
  <1>3. (view' = view \/ view' = disk) /\ (disk' = view \/ disk' = disk)
    BY DEF Return, Commit, Raise
  <1>4. Memberships(view)' /\ Memberships(disk)'
    BY <1>3 DEF GraphInv, Memberships
  <1>5. QED
    BY <1>1, <1>2, <1>4 DEF GraphInv, RequestOf

LEMMA FollowFacts ==
  ASSUME GraphInv, NEW t \in Thread, Follow(t), todo[t] \in Planned, req[t] \in Request
  PROVE  /\ pc' \in [Thread -> {"idle", "find", "load", "put", "wait"}]
         /\ req' \in [Thread -> Request \cup {NoRequest}]
         /\ todo' \in [Thread -> Put \cup {NoPut}]
         /\ \A u \in Thread \ {t} : pc'[u] = pc[u] /\ req'[u] = req[u] /\ todo'[u] = todo[u]
         /\ \/ pc'[t] = "idle"
            \/ /\ pc'[t] \in {"find", "load"} /\ todo[t].store = "provenance"
               /\ todo[t].row = [outcome |-> "allowed"]
               /\ req'[t] \in Request
            \/ /\ pc'[t] = "put" /\ todo'[t] \in Planned /\ req'[t] \in Request
               /\ todo'[t].store = "organizations" /\ todo[t].store = "entities"
            \/ /\ pc'[t] = "put" /\ todo'[t] \in Planned /\ req'[t] \in Request
               /\ todo'[t].store = "events" /\ todo[t].store = "memberships"
               /\ todo'[t].key \in Id => req[t].op = "remove" /\ todo'[t].key = req[t].id
  <1>1. CASE Over(t)
    BY <1>1, OverFacts
  <1>2. CASE /\ todo[t].store = "provenance" /\ Allowed(todo[t].row)
             /\ To(t, IF req[t].op = "add" THEN "find" ELSE "load") /\ UNCHANGED <<req, todo>>
    <2>1. todo[t].row = [outcome |-> "allowed"]
      BY <1>2 DEF Planned, Allowed, Outcome
    <2>2. QED
      BY <1>2, <2>1 DEF To, GraphInv
  <1>3. CASE /\ todo[t].store = "entities"
             /\ Plan(t, "organizations", Org, [entity |-> Org]) /\ UNCHANGED req
    <2>1. [store |-> "organizations", key |-> Org, row |-> [entity |-> Org]] \in Planned
      BY Schema DEF Planned, Put, Tables, Organization
    <2>2. QED
      BY <1>3, <2>1, PlanFacts DEF GraphInv
  <1>4. CASE todo[t].store = "memberships" /\ Tell(t) /\ UNCHANGED req
    <2>1. CASE req[t].op = "remove"
      <3>1. req[t].id \in Id
        BY <2>1, RequestFacts
      <3>2. [store |-> "events", key |-> req[t].id, row |-> [event |-> "membership.removed"]]
               \in Planned
        BY <3>1, Schema DEF Planned, Put, Tables, Event
      <3>3. Plan(t, "events", req[t].id, [event |-> "membership.removed"])
        BY <1>4, <2>1 DEF Tell
      <3>4. QED
        BY <1>4, <2>1, <3>2, <3>3, PlanFacts DEF GraphInv
    <2>2. CASE req[t].op # "remove"
      <3>1. [store |-> "events", key |-> Org, row |-> [event |-> "other"]] \in Planned
        BY Schema DEF Planned, Put, Tables, Event
      <3>2. Plan(t, "events", Org, [event |-> "other"])
        BY <1>4, <2>2 DEF Tell
      <3>3. QED
        BY <1>4, <3>1, <3>2, Schema, PlanFacts DEF GraphInv
    <2>3. QED
      BY <2>1, <2>2
  <1>5. QED
    BY <1>1, <1>2, <1>3, <1>4 DEF Follow

LEMMA ProceedStep ==
  ASSUME Inv, GraphInv, NEW t \in Thread, Proceed(t), UNCHANGED threads
  PROVE  GraphInv'
  <1>1. Return(t) /\ Follow(t)
    BY DEF Proceed
  <1>2. RequestOf(t)'
    BY <1>1, EndFacts, FollowFacts DEF RequestOf
  <1>3. QED
    BY <1>1, <1>2, EndFacts, FollowFacts, OneRequest

LEMMA AbandonStep ==
  ASSUME Inv, GraphInv, NEW t \in Thread, Abandon(t), UNCHANGED threads
  PROVE  GraphInv'
  <1>1. Raise(t) /\ Over(t)
    BY DEF Abandon
  <1>2. RequestOf(t)'
    BY <1>1, EndFacts, OverFacts DEF RequestOf
  <1>3. QED
    BY <1>1, <1>2, EndFacts, OverFacts, OneRequest

LEMMA GraphCrashStep ==
  ASSUME GraphInv, Crash, UNCHANGED threads
  PROVE  GraphInv'
  BY DEF Crash, CrashStores, GraphInv, RequestOf, Busy, Memberships

LEMMA GraphInit == Init => StoresInit /\ GraphInv
  <1> SUFFICES ASSUME Init PROVE StoresInit /\ GraphInv
    OBVIOUS
  <1>1. Fresh \in Contents /\ Memberships(Fresh)
    BY Schema DEF Fresh, Contents, Memberships, Tables
  <1>2. ASSUME NEW i \in Id, NEW m \in Membership
        PROVE  Populated(i, m) \in Contents /\ Memberships(Populated(i, m))
    <2>1. /\ OrganizationEntity \in Row /\ [entity |-> Org] \in Row /\ m \in Row
          /\ i \in Key /\ Org \in Key
          /\ "entities" \in Store /\ "organizations" \in Store /\ "memberships" \in Store
      BY Schema DEF OrganizationEntity, Kind, Organization, Tables
    <2>2. Populated(i, m) \in Contents
      BY <1>1, <2>1 DEF Populated, Contents
    <2>3. \A j \in Id : Populated(i, m)["memberships"][j] = IF j = i THEN m ELSE NoRow
      BY <1>1, <2>1, Schema DEF Populated, Fresh, Contents
    <2>4. QED
      BY <2>2, <2>3 DEF Memberships
  <1>3. disk \in Contents /\ Memberships(disk)
    BY <1>1, <1>2 DEF Init
  <1>4. StoresInit
    BY <1>3 DEF Init, StoresInit
  <1>5. GraphInv
    BY <1>3 DEF Init, GraphInv, RequestOf, Busy, Memberships
  <1>6. QED
    BY <1>4, <1>5

LEMMA GraphStep ==
  ASSUME Inv, GraphInv, [Next]_vars
  PROVE  GraphInv' /\ [StoresNext]_storeVars
  <1>1. CASE UNCHANGED vars
    BY <1>1 DEF vars, storeVars, GraphInv, RequestOf, Busy, Memberships
  <1>2. CASE Crash /\ UNCHANGED threads
    BY <1>2, GraphCrashStep DEF Crash, StoresNext
  <1>3. ASSUME UNCHANGED threads, NEW t \in Thread,
               Receive(t) \/ Find(t) \/ Load(t) \/ Refuse(t)
        PROVE  GraphInv' /\ [StoresNext]_storeVars
    BY <1>3, ReceiveStep, FindStep, LoadStep, RefuseStep
  <1>4. ASSUME UNCHANGED threads, NEW t \in Thread,
               PutRow(t) \/ Working(t) \/ Proceed(t) \/ Abandon(t)
        PROVE  GraphInv' /\ [StoresNext]_storeVars
    <2>1. GraphInv'
      BY <1>4, PutRowStep, WorkingStep, ProceedStep, AbandonStep
    <2>2. StoresNext
      BY <1>4, PutRowStep DEF Working, Proceed, Abandon, StoresNext
    <2>3. QED
      BY <2>1, <2>2
  <1>5. QED
    BY <1>1, <1>2, <1>3, <1>4 DEF Next

\* What holds of the stores holds of them under the graph's requests, by whichever
\* threads: each request only puts, one row at a time, and nothing else.
THEOREM GraphUsesStores == Spec => StoresSpec
  <1>1. Init => Inv /\ GraphInv /\ StoresInit
    BY GraphInit, InvInit
  <1>2. Inv /\ GraphInv /\ [Next]_vars => Inv' /\ GraphInv' /\ [StoresNext]_storeVars
    BY GraphStep, InvNext
  <1>3. QED
    BY <1>1, <1>2, PTL DEF Spec, StoresSpec

-----------------------------------------------------------------------------
(* A thread alone. *)

\* It is in a transaction with its own row, and nobody else's, or in none.
LEMMA AloneFacts ==
  ASSUME Inv, GraphInv, NEW t \in Thread, threads = {t}
  PROVE  /\ \A u \in Thread \ {t} : ~Busy(u) /\ ~Pending(u) /\ pc[u] = "idle"
         /\ ~Busy(t) => view = disk
         /\ Return(t) => disk' = Replace(disk, todo[t])
         /\ Raise(t) \/ Inner(t) => disk' = disk
  <1> USE DEF Inv, StoresTypeOK
  <1>1. \A u \in Thread \ {t} : ~Busy(u) /\ ~Pending(u) /\ pc[u] = "idle"
    BY DEF GraphInv, RequestOf, Control, Busy, Pending
  <1>2. ~Busy(t) => view = disk
    <2>1. ~Busy(t) => ~Pending(t)
      BY DEF Control, Pending
    <2>2. QED
      BY <1>1, <2>1, Settled
  <1>3. ASSUME Return(t) PROVE disk' = Replace(disk, todo[t])
    <2>1. Commit(t) /\ Pending(t) /\ put[t] = todo[t] /\ put[t] \in Put
      BY <1>3 DEF Return, Commit, AloneInv, Control, Pending, Busy, GraphInv, RequestOf
    <2>2. disk' = view /\ view \in Contents /\ Replace(disk, put[t]) \in Contents
      BY <2>1, ReplaceFacts DEF Commit
    <2>3. ASSUME NEW s \in Store, NEW k \in Key PROVE view[s][k] = Replace(disk, put[t])[s][k]
      <3>1. CASE put[t].store = s /\ put[t].key = k
        BY <2>1, <3>1, ReplaceFacts DEF Overlay
      <3>2. CASE ~(put[t].store = s /\ put[t].key = k)
        <4>1. view[s][k] = disk[s][k]
          BY <1>1, <3>2 DEF Overlay
        <4>2. QED
          BY <2>1, <3>2, <4>1, ReplaceFacts
      <3>3. QED
        BY <3>1, <3>2
    <2> DEFINE a == Replace(disk, put[t])
    <2>4. a \in Contents /\ \A s \in Store, k \in Key : view[s][k] = a[s][k]
      BY <2>2, <2>3
    <2>5. view = a
      <3> HIDE DEF a
      <3>1. \A s \in Store : view[s] = a[s]
        BY <2>2, <2>4 DEF Contents
      <3>2. QED
        BY <2>2, <2>4, <3>1 DEF Contents
    <2>6. QED
      BY <2>1, <2>2, <2>5
  <1>4. ASSUME Raise(t) \/ Inner(t) PROVE disk' = disk
    BY <1>4 DEF Raise, Inner, Check, Begin, Fail, Leave, Execute, AloneInv
  <1>5. QED
    BY <1>1, <1>2, <1>3, <1>4

\* The rows of the disk after a put of the thread alone.
LEMMA AloneReturns ==
  ASSUME Inv, GraphInv, NEW t \in Thread, threads = {t}, Return(t)
  PROVE  /\ todo[t] \in Planned /\ todo[t].row \in Row
         /\ disk'[todo[t].store][todo[t].key] = todo[t].row
         /\ \A s \in Store, k \in Key :
              ~(todo[t].store = s /\ todo[t].key = k) => disk'[s][k] = disk[s][k]
  <1>1. disk \in Contents /\ todo[t] \in Planned /\ todo[t] \in Put
    BY EndFacts DEF Inv, StoresTypeOK, Planned
  <1>2. QED
    BY <1>1, AloneFacts, ReplaceFacts DEF Put

LEMMA AccountInit == Init => Accounts
  <1> SUFFICES ASSUME Init, NEW t \in Thread PROVE Account(t)
    BY DEF Accounts
  <1>1. \A s \in Store, k \in Key : Fresh[s][k] = NoRow
    BY DEF Fresh
  <1>2. ASSUME NEW i \in Id, NEW m \in Membership
        PROVE  /\ \A k \in Key : Populated(i, m)["events"][k] = NoRow
               /\ Populated(i, m)["entities"][Org] # NoRow
    <2>1. /\ OrganizationEntity \in Row /\ Org \in Key
          /\ \A s \in Tables : s \in Store
      BY Schema DEF OrganizationEntity, Kind
    <2>2. Populated(i, m)["events"] = Fresh["events"]
      BY <2>1 DEF Populated, Fresh, Tables
    <2>3. Populated(i, m)["entities"][Org] = OrganizationEntity
      BY <2>1 DEF Populated, Fresh, Tables
    <2>4. QED
      BY <1>1, <2>1, <2>2, <2>3, Schema DEF Tables
  <1>3. /\ \A i \in Id : disk["events"][i] = NoRow
        /\ disk["organizations"][Org] # NoRow => disk["entities"][Org] # NoRow
    BY <1>1, <1>2, Schema DEF Init, Tables
  <1>4. QED
    BY <1>3 DEF Init, Account, Going

LEMMA AccountLoad ==
  ASSUME Inv, GraphInv, NEW t \in Thread, threads = {t}, Account(t), Load(t)
  PROVE  Account(t)'
  <1>1. /\ pc[t] = "load" /\ view = disk /\ UNCHANGED <<disk, req>>
    BY AloneFacts DEF Load, GraphInv, RequestOf, storeVars
  <1>2. pc'[t] = "put" /\ todo'[t] \in Planned
    BY LoadFacts
  <1>3. CASE todo'[t].store = "entities"
    BY <1>1, <1>2, <1>3 DEF Account, Going, RevokedOnDisk, AllowedOnDisk
  <1>4. CASE todo'[t].store = "memberships"
    <2>1. req[t].op # "create" /\ AllowedOnDisk /\ todo'[t].key \in Id
      BY <1>1, <1>2, <1>4, LoadFacts DEF Account, Planned
    <2>2. CASE req[t].op # "remove"
      <3>1. ~RevokedOnDisk(todo'[t].key)
        BY <1>1, <1>4, <2>2, LoadFacts DEF RevokedOnDisk
      <3>2. disk["events"][todo'[t].key] = NoRow
        BY <2>1, <3>1 DEF Account
      <3>3. QED
        BY <1>1, <1>2, <1>4, <2>1, <2>2, <3>2 DEF Account, Going, RevokedOnDisk, AllowedOnDisk
    <2>3. CASE req[t].op = "remove"
      <3>1. todo'[t].key = req[t].id /\ todo'[t].row.status = "revoked"
        BY <1>4, <2>3, LoadFacts
      <3>2. QED
        BY <1>1, <1>2, <1>4, <2>1, <2>3, <3>1 DEF Account, Going, RevokedOnDisk, AllowedOnDisk
    <2>4. QED
      BY <2>2, <2>3
  <1>5. QED
    BY <1>3, <1>4, LoadFacts

LEMMA AccountProceed ==
  ASSUME Inv, GraphInv, NEW t \in Thread, threads = {t}, Account(t), Proceed(t)
  PROVE  Account(t)'
  <1> DEFINE p == todo[t]
  <1>1. Return(t) /\ Follow(t) /\ pc[t] = "wait" /\ req[t] \in Request
    BY EndFacts DEF Proceed
  <1>2. /\ p \in Planned /\ p.row \in Row /\ disk'[p.store][p.key] = p.row
        /\ \A s \in Store, k \in Key : ~(p.store = s /\ p.key = k) => disk'[s][k] = disk[s][k]
    BY <1>1, AloneReturns
  <1>3. \A s \in Tables, k \in Id \cup {Org} :
          s \in Store /\ k \in Key /\ (p.store # s => disk'[s][k] = disk[s][k])
    BY <1>2, Schema
  <1>4. ASSUME NEW i \in Id, disk'["events"][i] # NoRow PROVE RevokedOnDisk(i)'
    <2>1. CASE p.store = "events" /\ p.key = i
      <3>1. RevokedOnDisk(i)
        BY <1>1, <2>1 DEF Account, Going
      <3>2. disk'["memberships"][i] = disk["memberships"][i]
        BY <1>3, <2>1 DEF Tables
      <3>3. QED
        BY <3>1, <3>2 DEF RevokedOnDisk
    <2>2. CASE p.store = "memberships" /\ p.key = i
      <3>1. disk["events"][i] # NoRow
        BY <1>3, <1>4, <2>2 DEF Tables
      <3>2. p.row.status = "revoked"
        BY <1>1, <2>2, <3>1 DEF Account, Going
      <3>3. disk'["memberships"][i] = p.row /\ p.row # NoRow
        BY <1>2, <2>2, Schema
      <3>4. QED
        BY <3>2, <3>3 DEF RevokedOnDisk
    <2>3. CASE ~(p.store \in {"events", "memberships"} /\ p.key = i)
      <3>1. /\ disk'["events"][i] = disk["events"][i]
            /\ disk'["memberships"][i] = disk["memberships"][i]
        BY <1>2, <1>3, <2>3 DEF Tables
      <3>2. QED
        BY <1>4, <3>1 DEF Account, RevokedOnDisk
    <2>4. QED
      BY <2>1, <2>2, <2>3
  <1>5. disk'["organizations"][Org] # NoRow => disk'["entities"][Org] # NoRow
    <2>1. CASE p.store = "organizations"
      BY <1>1, <1>3, <2>1 DEF Account, Going, Tables
    <2>2. CASE p.store = "entities"
      <3>1. p.key = Org /\ p.row # NoRow
        BY <1>2, <2>2, Schema DEF Planned
      <3>2. QED
        BY <1>2, <2>2, <3>1
    <2>3. CASE p.store \notin {"organizations", "entities"}
      BY <1>3, <2>3 DEF Account, Tables
    <2>4. QED
      BY <2>1, <2>2, <2>3
  <1>6. CASE pc'[t] = "idle"
    BY <1>4, <1>5, <1>6 DEF Account, Going
  <1>7. CASE pc'[t] \in {"find", "load"}
    <2>1. p.store = "provenance" /\ p.key = Org /\ p.row = [outcome |-> "allowed"]
      BY <1>1, <1>2, <1>7, FollowFacts DEF Planned
    <2>2. AllowedOnDisk'
      BY <1>2, <2>1 DEF AllowedOnDisk
    <2>3. QED
      BY <1>4, <1>5, <1>7, <2>2 DEF Account, Going
  <1>8. CASE pc'[t] = "put" /\ todo'[t].store = "organizations"
    <2>1. p.store = "entities" /\ p.key = Org /\ p.row # NoRow
      BY <1>1, <1>2, <1>8, FollowFacts, Schema DEF Planned
    <2>2. disk'["entities"][Org] # NoRow
      BY <1>2, <2>1
    <2>3. QED
      BY <1>4, <1>5, <1>8, <2>2 DEF Account, Going
  <1>9. CASE pc'[t] = "put" /\ todo'[t].store = "events"
    <2>1. /\ p.store = "memberships"
          /\ todo'[t].key \in Id => req[t].op = "remove" /\ todo'[t].key = req[t].id
      BY <1>1, <1>2, <1>9, FollowFacts
    <2>2. ASSUME todo'[t].key \in Id
          PROVE  p.key = todo'[t].key /\ p.row.status = "revoked" /\ p.row # NoRow
      BY <1>1, <1>2, <2>1, <2>2, Schema DEF Account, Going
    <2>3. ASSUME todo'[t].key \in Id
          PROVE  /\ disk'["memberships"][todo'[t].key] # NoRow
                 /\ disk'["memberships"][todo'[t].key].status = "revoked"
      BY <1>2, <2>1, <2>2, <2>3
    <2>4. QED
      BY <1>4, <1>5, <1>9, <2>3 DEF Account, Going, RevokedOnDisk
  <1>10. QED
    BY <1>1, <1>2, <1>6, <1>7, <1>8, <1>9, FollowFacts

LEMMA AccountStep ==
  ASSUME Inv, GraphInv, Accounts, [Next]_vars
  PROVE  Accounts'
  <1> SUFFICES ASSUME NEW t \in Thread, threads' = {t} PROVE Account(t)'
    BY DEF Accounts
  <1>0. UNCHANGED threads /\ threads = {t} /\ Account(t)
    BY DEF Next, vars, storeVars, Accounts
  <1>1. CASE UNCHANGED vars
    BY <1>0, <1>1 DEF vars, storeVars, Account, Going, RevokedOnDisk, AllowedOnDisk
  <1>2. CASE Crash
    BY <1>0, <1>2 DEF Crash, CrashStores, Account, Going, RevokedOnDisk, AllowedOnDisk
  <1>3. CASE Receive(t)
    <2>1. UNCHANGED disk
      BY <1>0, <1>3, ReceiveStep DEF storeVars
    <2>2. QED
      BY <1>0, <1>3, <2>1, ReceiveStep DEF Account, Going, RevokedOnDisk, AllowedOnDisk
  <1>4. CASE Load(t)
    BY <1>0, <1>4, AccountLoad
  <1>5. CASE Find(t) \/ Refuse(t)
    <2>1. /\ UNCHANGED disk
          /\ \/ pc'[t] = "idle"
             \/ pc[t] = "find" /\ pc'[t] = "load" /\ UNCHANGED req
      BY <1>0, <1>5, FindStep, RefuseStep DEF storeVars, Find
    <2>2. QED
      BY <1>0, <2>1 DEF Account, Going, RevokedOnDisk, AllowedOnDisk
  <1>6. CASE PutRow(t)
    <2>1. UNCHANGED <<disk, req, todo>> /\ pc[t] = "put" /\ pc'[t] = "wait"
      BY <1>6 DEF PutRow, To, Ask, GraphInv
    <2>2. QED
      BY <1>0, <2>1 DEF Account, Going, RevokedOnDisk, AllowedOnDisk
  <1>7. CASE Working(t)
    <2>1. UNCHANGED <<disk, pc, req, todo>>
      BY <1>0, <1>7, AloneFacts DEF Working, graphVars
    <2>2. QED
      BY <1>0, <2>1 DEF Account, Going, RevokedOnDisk, AllowedOnDisk
  <1>8. CASE Proceed(t)
    BY <1>0, <1>8, AccountProceed
  <1>9. CASE Abandon(t)
    <2>1. UNCHANGED disk /\ pc'[t] = "idle"
      BY <1>0, <1>9, AloneFacts, OverFacts DEF Abandon
    <2>2. QED
      BY <1>0, <2>1 DEF Account, Going, RevokedOnDisk
  <1>10. ASSUME NEW u \in Thread \ {t},
                \/ Receive(u) \/ Find(u) \/ Load(u) \/ Refuse(u)
                \/ PutRow(u) \/ Working(u) \/ Proceed(u) \/ Abandon(u)
         PROVE  FALSE
    <2>1. pc[u] = "idle" /\ ~Busy(u) /\ u \notin threads
      BY <1>0, AloneFacts
    <2>2. ~Working(u)
      BY <2>1 DEF Working, Inner, Check, Begin, Fail, Fails, Execute, Leave, Busy
    <2>3. QED
      BY <1>10, <2>1, <2>2 DEF Receive, Find, Load, Refuse, PutRow, Proceed, Abandon
  <1>11. QED
    BY <1>1, <1>2, <1>3, <1>4, <1>5, <1>6, <1>7, <1>8, <1>9, <1>10 DEF Next

LEMMA GraphInvariance == Spec => [](Inv /\ GraphInv /\ Accounts)
  <1>1. Init => Inv /\ GraphInv /\ Accounts
    BY GraphInit, InvInit, AccountInit
  <1>2. Inv /\ GraphInv /\ Accounts /\ [Next]_vars => (Inv /\ GraphInv /\ Accounts)'
    BY GraphStep, InvNext, AccountStep
  <1>3. QED
    BY <1>1, <1>2, PTL DEF Spec

\* Whatever is put, and wherever a crash or a failed put falls, a removal that the
\* event log on the disk tells of is on the disk and is never undone.
THEOREM RemovalsAreTold == Spec => []RemovedStaysRevoked
  <1>1. Accounts => RemovedStaysRevoked
    BY DEF Accounts, Account, RevokedOnDisk, RemovedStaysRevoked, Alone
  <1>2. QED
    BY <1>1, GraphInvariance, PTL

\* No crash or failed put leaves an organization without its entity.
THEOREM OrganizationsHaveEntities == Spec => []OrganizationHasEntity
  <1>1. Accounts => OrganizationHasEntity
    BY DEF Accounts, Account, OrganizationHasEntity, Alone
  <1>2. QED
    BY <1>1, GraphInvariance, PTL

\* A membership changes on the disk only under a record that allows it.
THEOREM ChangesAreAllowed == Spec => OnlyAllowedChanges
  <1>1. ASSUME Inv, GraphInv, Accounts, [Next]_vars, NEW t \in Thread, threads = {t},
               disk'["memberships"] # disk["memberships"]
        PROVE  AllowedOnDisk
    <2>1. ASSUME NEW u \in Thread, Return(u) PROVE u = t
      BY <1>1, <2>1, EndFacts
    <2>2. ~(Inner(t) \/ Raise(t))
      BY <1>1, AloneFacts
    <2>3. \A u \in Thread : Busy(u) => u = t
      BY <1>1, AloneFacts
    <2>4. Return(t) /\ pc[t] = "wait"
      <3>1. \A u \in Thread : Inner(u) \/ Raise(u) => Busy(u)
        BY DEF Inner, Check, Begin, Fail, Fails, Execute, Leave, Raise, Busy
      <3>2. ASSUME NEW u \in Thread,
                   Receive(u) \/ Find(u) \/ Load(u) \/ Refuse(u) \/ PutRow(u)
            PROVE  FALSE
        BY <1>1, <3>2 DEF Receive, Find, Load, Refuse, PutRow, Ask, storeVars
      <3>3. ~Crash /\ ~UNCHANGED vars
        BY <1>1 DEF Crash, CrashStores, vars, storeVars
      <3>4. QED
        BY <1>1, <2>1, <2>2, <2>3, <3>1, <3>2, <3>3 DEF Next, Working, Proceed, Abandon
    <2>5. todo[t].store = "memberships"
      <3> SUFFICES ASSUME todo[t].store # "memberships" PROVE FALSE
        OBVIOUS
      <3>1. \A k \in Key : disk'["memberships"][k] = disk["memberships"][k]
        BY <1>1, <2>4, AloneReturns, Schema DEF Tables
      <3>2. disk' \in Contents /\ disk \in Contents /\ "memberships" \in Store
        BY <1>1, GraphStep, InvNext, Schema DEF Inv, StoresTypeOK, Tables
      <3>3. QED
        BY <1>1, <3>1, <3>2 DEF Contents
    <2>6. QED
      BY <1>1, <2>4, <2>5 DEF Accounts, Account, Going
  <1>2. Inv /\ GraphInv /\ Accounts /\ [Next]_vars
          => [Alone /\ disk'["memberships"] # disk["memberships"] =>
                disk["provenance"][Org] = [outcome |-> "allowed"]]_vars
    BY <1>1 DEF Alone, AllowedOnDisk
  <1>3. QED
    BY <1>2, GraphInvariance, PTL DEF Spec, OnlyAllowedChanges

\* A request never acts on a row of the graph that a rollback or a crash takes back.
THEOREM GraphReadsCommitted == Spec => []NoDirtyReads
  BY GraphUsesStores, ReadsAreCommitted, PTL

\* However a request ends, the last one to end leaves no transaction open.
THEOREM GraphTransactionsEnd == Spec => []NothingLeftOpen
  BY GraphUsesStores, TransactionsEnd, PTL

\* What a registry's put that returned wrote is on the disk, and none that raised is,
\* as DurableStore promises.
THEOREM GraphIsDurable == Spec => DurableSpec
  BY GraphUsesStores, StoresAreDurable, PTL
=============================================================================
