------------------------------- MODULE Paging -------------------------------
(***************************************************************************)
(* ActivityEngine.list_page: a client walks through the activities of one  *)
(* state or owner, a page per request, while other requests create         *)
(* activities and change them.  A page is filled from chunks, each one     *)
(* locked access to the store.  An activity is the place of its id in the  *)
(* order of ids; without a filter every activity matches and the first     *)
(* chunk is the page, which is also how sessions, entities and receipts    *)
(* are listed.                                                             *)
(***************************************************************************)
EXTENDS Naturals, FiniteSets

CONSTANTS
  Id,     \* ids there may be
  Limit   \* size of a page

ASSUME IdAssumption == Id \subseteq Nat \ {0} /\ IsFiniteSet(Id)
ASSUME LimitAssumption == Limit \in Nat \ {0}

VARIABLES
  stored,    \* ids in the store
  matching,  \* those that pass the filter
  pc,        \* "new", "idle" between two pages, "scan" inside list_page, "end"
  cursor,    \* the client's cursor, 0 for None
  at,        \* page_cursor
  page,      \* what the page being made has
  listed,    \* what the client has got
  steady     \* what has matched since the client began

vars == <<stored, matching, pc, cursor, at, page, listed, steady>>

\* Types of the variables.
TypeOK ==
  /\ stored \subseteq Id /\ matching \subseteq stored
  /\ pc \in {"new", "idle", "scan", "end"}
  /\ cursor \in Id \cup {0} /\ at \in Id \cup {0}
  /\ page \subseteq Id /\ Cardinality(page) < Limit /\ listed \subseteq Id
  /\ steady \subseteq matching

Init ==
  /\ stored \in SUBSET Id /\ matching \in SUBSET stored
  /\ pc = "new" /\ cursor = 0 /\ at = 0
  /\ page = {} /\ listed = {} /\ steady = {}

-----------------------------------------------------------------------------
\* The first n of a set of ids.
First(S, n) == {k \in S : Cardinality({j \in S : j < k}) < n}

IsLast(k, S) == k \in S /\ \A j \in S : j <= k

(* Deviation: the cursor's own item comes again. *)
FromCursor(c) == {k \in stored : k >= c}

AfterCursor(c) == {k \in stored : k > c}

Chunk == First(AfterCursor(at), Limit)
More == Chunk # AfterCursor(at)

\* The page with what the chunk adds to it.
Filled == page \cup First(Chunk \cap matching, Limit - Cardinality(page))
Full == Cardinality(Filled) >= Limit

Ask ==
  /\ pc \in {"new", "idle"}
  /\ pc' = "scan"
  /\ at' = cursor
  /\ page' = {}
  /\ steady' = IF pc = "new" THEN matching ELSE steady
  /\ UNCHANGED <<stored, matching, cursor, listed>>

(* Deviation: the next chunk is looked for from where the page began. *)
NextChunkFromCursor ==
  /\ pc = "scan" /\ ~Full /\ More
  /\ page' = Filled
  /\ at' = cursor
  /\ UNCHANGED <<stored, matching, pc, cursor, listed, steady>>

NextChunk ==
  /\ pc = "scan" /\ ~Full /\ More
  /\ page' = Filled
  /\ \E k \in Chunk : IsLast(k, Chunk) /\ at' = k
  /\ UNCHANGED <<stored, matching, pc, cursor, listed, steady>>

Answer ==
  /\ listed' = listed \cup Filled
  /\ page' = {} /\ at' = 0
  /\ UNCHANGED <<stored, matching, steady>>

(* Deviation: the next page begins after the chunk. *)
ReturnFullAtChunk ==
  /\ pc = "scan" /\ Full
  /\ Answer
  /\ \E k \in Chunk, l \in Filled :
       /\ IsLast(k, Chunk) /\ IsLast(l, Filled)
       /\ IF l < k \/ More THEN cursor' = k /\ pc' = "idle" ELSE cursor' = 0 /\ pc' = "end"

\* next_cursor is the page's last id if the chunk or the store goes on after it.
ReturnFull ==
  /\ pc = "scan" /\ Full
  /\ Answer
  /\ \E l \in Filled :
       /\ IsLast(l, Filled)
       /\ IF More \/ \E k \in Chunk : l < k
            THEN cursor' = l /\ pc' = "idle"
            ELSE cursor' = 0 /\ pc' = "end"

ReturnLast ==
  /\ pc = "scan" /\ ~Full /\ ~More
  /\ Answer
  /\ cursor' = 0 /\ pc' = "end"

List == Ask \/ NextChunk \/ ReturnFull \/ ReturnLast

-----------------------------------------------------------------------------
\* Other requests: put() of a new activity, and of a changed one.
Create ==
  /\ \E k \in Id \ stored :
       /\ stored' = stored \cup {k}
       /\ matching' \in {matching, matching \cup {k}}
  /\ UNCHANGED <<pc, cursor, at, page, listed, steady>>

Change ==
  /\ \E k \in stored :
       IF k \in matching
         THEN matching' = matching \ {k} /\ steady' = steady \ {k}
         ELSE matching' = matching \cup {k} /\ steady' = steady
  /\ UNCHANGED <<stored, pc, cursor, at, page, listed>>

Next == List \/ Create \/ Change

Spec == Init /\ [][Next]_vars

\* The server goes on with a request, and the client asks for page after page.
FairSpec == Spec /\ WF_vars(List)

-----------------------------------------------------------------------------
(* Properties *)

\* A client that has come to the last page has got every activity that was there
\* and matched all the time, whatever was created or changed meanwhile.
Complete == pc = "end" => steady \subseteq listed

\* Pages come in the order of ids: what a page brings is after what pages before it had,
\* so nothing is listed twice.
InOrder == pc = "scan" => \A j \in listed, k \in Filled : j < k

\* The walk comes to an end.
WalkEnds == <>(pc = "end")
=============================================================================
