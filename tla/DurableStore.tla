---------------------------- MODULE DurableStore ----------------------------
(***************************************************************************)
(* What the stores of a bundle promise to the threads that put rows into   *)
(* them, whatever transactions are made of the puts.  To a thread that is  *)
(* alone: a put that returns is on the disk, one that raises is not, and a *)
(* crash takes nothing back.  To several: a put that raises may take back  *)
(* what the others are just putting, and theirs return all the same.       *)
(***************************************************************************)
CONSTANTS Thread, Store, Key, Row, NoRow

VARIABLES
  threads,  \* who uses the stores
  disk,     \* what a crash leaves
  put,      \* the put of each thread
  fate      \* what has become of it
            \* ("none", "asked", "stored", "lost"; then "returned" or "raised")

vars == <<threads, disk, put, fate>>

Put == [store : Store, key : Key, row : Row]

Init ==
  /\ threads \in SUBSET Thread
  /\ disk \in [Store -> [Key -> Row \cup {NoRow}]]
  /\ put \in [Thread -> {NoRow}]
  /\ fate = [t \in Thread |-> "none"]

Waiting == {t \in Thread : fate[t] = "asked"}

\* The put is under way: it holds its store.
Holds(t) == fate[t] \in {"asked", "stored", "lost"}

\* A store serves one thread at a time.
Free(s) == \A t \in Thread : Holds(t) => put[t].store # s

Ask(t) ==
  /\ t \in threads /\ ~Holds(t)
  /\ put'[t] \in Put /\ Free(put'[t].store)
  /\ put' = [put EXCEPT ![t] = put'[t]]
  /\ fate' = [fate EXCEPT ![t] = "asked"]
  /\ UNCHANGED disk

\* Some puts reach the disk, in one transaction.
Written(ts) ==
  [s \in Store |-> [k \in Key |->
     IF \E t \in ts : put[t].store = s /\ put[t].key = k
       THEN put[CHOOSE t \in ts : put[t].store = s].row
       ELSE disk[s][k]]]

Over(t) == put' = [put EXCEPT ![t] = NoRow]

Keep(ts) ==
  /\ ts # {}
  /\ disk' = Written(ts)
  /\ fate' = [t \in Thread |-> IF t \in ts THEN "stored" ELSE fate[t]]
  /\ UNCHANGED put

\* A put that ends may end the transaction of others.
Return(t, ts) ==
  /\ t \in ts \/ fate[t] \in {"stored", "lost"}
  /\ disk' = Written(ts)
  /\ fate' = [u \in Thread |-> IF u = t THEN "returned" ELSE IF u \in ts THEN "stored" ELSE fate[u]]
  /\ Over(t)

Raise(t, ts) ==
  /\ Holds(t) /\ (threads = {t} => fate[t] = "asked")
  /\ fate' = [u \in Thread |-> IF u = t THEN "raised" ELSE IF u \in ts THEN "lost" ELSE fate[u]]
  /\ Over(t)
  /\ UNCHANGED disk

Crash ==
  /\ put' \in [Thread -> {NoRow}]
  /\ fate' = [t \in Thread |-> "none"]
  /\ UNCHANGED disk

Next ==
  /\ \/ Crash
     \/ \E ts \in SUBSET Waiting : Keep(ts)
     \/ \E t \in Thread :
          \/ Ask(t)
          \/ \E ts \in SUBSET Waiting : Return(t, ts) \/ Raise(t, ts)
  /\ UNCHANGED threads

Spec == Init /\ [][Next]_vars
=============================================================================
