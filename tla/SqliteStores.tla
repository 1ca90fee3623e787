---------------------------- MODULE SqliteStores ----------------------------
(***************************************************************************)
(* SQLiteStoreBundle: a table and a lock for every store, and ONE sqlite3  *)
(* connection under all of them.  A put holds its store's lock and is a    *)
(* `with connection` block, which Python's sqlite3 turns into BEGIN,       *)
(* REPLACE and COMMIT or ROLLBACK; but a transaction is the connection's,  *)
(* not the thread's, and between any two of these steps the interpreter    *)
(* may run a thread that puts into another store.                          *)
(***************************************************************************)
CONSTANTS
  Thread,
  Store,  \* the tables
  Key,
  Row,
  NoRow   \* what get finds where nothing was put

ASSUME RowAssumption == NoRow \notin Row

VARIABLES
  threads,  \* the threads that use the bundle, once and for all
  disk,     \* the committed rows of every table
  view,     \* the rows as the connection shows them
  open,     \* whether the connection is in a transaction
  put,      \* the put each thread is in, from the moment it has the lock
  step,     \* where that put is
  fate      \* history: whether its row is in the open transaction, committed, or
            \* rolled back by another put; then how the put ended

storeVars == <<threads, disk, view, open, put, step, fate>>

Put == [store : Store, key : Key, row : Row]
NoPut == NoRow

Contents == [Store -> [Key -> Row \cup {NoRow}]]

\* Types of the variables.
StoresTypeOK ==
  /\ threads \subseteq Thread
  /\ disk \in Contents /\ view \in Contents
  /\ open \in BOOLEAN
  /\ put \in [Thread -> Put \cup {NoPut}]
  /\ step \in [Thread -> {"idle", "check", "begin", "execute", "leave", "commit", "undo"}]
  /\ fate \in [Thread ->
        {"none", "asked", "pending", "stored", "lost", "returned", "raised"}]

\* The bundle is opened on a new file or on one that it has written before.
StoresInit ==
  /\ threads \in SUBSET Thread \ {{}}
  /\ disk \in Contents /\ view = disk
  /\ open = FALSE
  /\ put = [t \in Thread |-> NoPut]
  /\ step = [t \in Thread |-> "idle"]
  /\ fate = [t \in Thread |-> "none"]

-----------------------------------------------------------------------------
(* A put, from the lock to the end of the `with` block. *)

Goto(t, s) == step' = [step EXCEPT ![t] = s]

\* The store's lock is free: a get may read the table, a put may begin.
Free(s) == \A t \in Thread : step[t] # "idle" => put[t].store # s

Ask(t, p) ==
  /\ t \in threads /\ step[t] = "idle" /\ Free(p.store)
  /\ put' = [put EXCEPT ![t] = p]
  /\ fate' = [fate EXCEPT ![t] = "asked"]
  /\ Goto(t, "check")
  /\ UNCHANGED <<disk, view, open>>

\* execute() begins a transaction if the connection is in none.
Check(t) ==
  /\ step[t] = "check"
  /\ Goto(t, IF open THEN "execute" ELSE "begin")
  /\ UNCHANGED <<disk, view, open, put, fate>>

Begin(t) ==
  /\ step[t] = "begin" /\ ~open
  /\ open' = TRUE
  /\ Goto(t, "execute")
  /\ UNCHANGED <<disk, view, put, fate>>

\* Another thread has begun one meanwhile: "cannot start a transaction within a
\* transaction".  Or the database is locked by another process, the disk is full;
\* or commit() finds that another thread has ended the transaction.
Fails(t) ==
  \/ step[t] = "begin" /\ open
  \/ step[t] \in {"execute", "commit"}

Fail(t) ==
  /\ Fails(t)
  /\ Goto(t, "undo")
  /\ UNCHANGED <<disk, view, open, put, fate>>

Replace(rows, p) == [rows EXCEPT ![p.store][p.key] = p.row]

\* Outside a transaction the statement is committed by itself.
Execute(t) ==
  /\ step[t] = "execute"
  /\ view' = Replace(view, put[t])
  /\ disk' = IF open THEN disk ELSE Replace(disk, put[t])
  /\ fate' = [fate EXCEPT ![t] = IF open THEN "pending" ELSE "stored"]
  /\ Goto(t, "leave")
  /\ UNCHANGED <<open, put>>

\* The block is left: commit() does something only in a transaction.
Leave(t) ==
  /\ step[t] = "leave" /\ open
  /\ Goto(t, "commit")
  /\ UNCHANGED <<disk, view, open, put, fate>>

\* The rows of the open transaction share its end.
Settle(t, how, end) ==
  fate' = [u \in Thread |-> IF u = t THEN how
                            ELSE IF fate[u] = "pending" THEN end ELSE fate[u]]

Unlock(t) == Goto(t, "idle") /\ put' = [put EXCEPT ![t] = NoPut]

Commit(t) ==
  /\ step[t] = "commit" /\ open
  /\ disk' = view /\ open' = FALSE
  /\ Settle(t, "returned", "stored")
  /\ Unlock(t)
  /\ UNCHANGED view

(* Deviations: the block is left without commit; a failed commit is no error. *)
ReturnOpen(t) ==
  /\ step[t] = "leave"
  /\ fate' = [fate EXCEPT ![t] = "returned"]
  /\ Unlock(t)
  /\ UNCHANGED <<disk, view, open>>
ReturnFailed(t) ==
  /\ step[t] \in {"leave", "commit", "undo"}
  /\ open' = FALSE
  /\ view' = IF open THEN disk ELSE view
  /\ Settle(t, "returned", "lost")
  /\ Unlock(t)
  /\ UNCHANGED disk

Return(t) ==
  \/ Commit(t)
  \/ /\ step[t] = "leave" /\ ~open
     /\ fate' = [fate EXCEPT ![t] = "returned"]
     /\ Unlock(t)
     /\ UNCHANGED <<disk, view, open>>

(* Deviation: nothing is rolled back. *)
RaiseOpen(t) ==
  /\ step[t] = "undo"
  /\ fate' = [fate EXCEPT ![t] = "raised"]
  /\ Unlock(t)
  /\ UNCHANGED <<disk, view, open>>

\* rollback(), if the connection is in a transaction, and the exception goes on.
Raise(t) ==
  /\ step[t] = "undo"
  /\ open' = FALSE
  /\ view' = IF open THEN disk ELSE view
  /\ Settle(t, "raised", "lost")
  /\ Unlock(t)
  /\ UNCHANGED disk

\* What a put does by itself until it returns or raises.
Inner(t) == Check(t) \/ Begin(t) \/ Fail(t) \/ Execute(t) \/ Leave(t)

\* The process stops at any point and is started again on the same file.
CrashStores ==
  /\ view' = disk /\ open' = FALSE
  /\ put' = [t \in Thread |-> NoPut]
  /\ step' = [t \in Thread |-> "idle"]
  /\ fate' = [t \in Thread |-> "none"]
  /\ UNCHANGED disk

StoresNext ==
  /\ \/ CrashStores
     \/ \E t \in Thread : (\E p \in Put : Ask(t, p)) \/ Inner(t) \/ Return(t) \/ Raise(t)
  /\ UNCHANGED threads

StoresSpec == StoresInit /\ [][StoresNext]_storeVars

-----------------------------------------------------------------------------
(* Properties *)

\* However the threads' transactions mix, what a get returns is on the disk: no
\* reader acts on a row that a rollback or a crash takes back.
NoDirtyReads == \A s \in Store : Free(s) => view[s] = disk[s]

\* The last put to end ends the transaction too: an idle server keeps none open,
\* in which later puts would be caught uncommitted and other processes locked out.
NothingLeftOpen == open => \E t \in Thread : step[t] # "idle"

\* The bundle keeps the promise of DurableStore.
Durable == INSTANCE DurableStore
  WITH fate <- [t \in Thread |-> IF fate[t] = "pending" THEN "asked" ELSE fate[t]]
DurableSpec == Durable!Spec
=============================================================================
