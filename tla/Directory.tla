------------------------------ MODULE Directory ------------------------------
(***************************************************************************)
(* DirectoryService, for the entry of one entity.  The service locks the   *)
(* table at every access but not from one access to the next, and an entry *)
(* is an object that the table refers to: resolve() goes on with the one   *)
(* it found when the table has another.  A call the ACLs deny, or whose    *)
(* signature does not verify, changes nothing and is left out, and so is   *)
(* last_heartbeat_at.                                                      *)
(***************************************************************************)
EXTENDS Naturals, FiniteSets

CONSTANTS
  Worker,            \* concurrent calls
  TTL,               \* ttl_seconds of the cards
  RequireSignature,  \* the service's require_signature
  Scheduler,         \* "threads", or "serial" if calls do not overlap
  MaxTime,           \* bound on the clock
  MaxEntries         \* bound on the entries made

ASSUME SizeAssumption == TTL \in Nat \ {0} /\ MaxTime \in Nat /\ MaxEntries \in Nat
ASSUME WorkerAssumption == IsFiniteSet(Worker)
ASSUME ModeAssumption == RequireSignature \in BOOLEAN /\ Scheduler \in {"threads", "serial"}

VARIABLES
  now,
  made,     \* DirectoryEntry objects made so far
  entry,    \* the one the table has, 0 for none
  card,     \* the card each object holds
  healthy,  \* each object's healthy
  pc,       \* where each call is
  upsert,   \* publish's argument
  found,    \* the entry resolve() has found
  copy      \* the card a call has in hand

vars == <<now, made, entry, card, healthy, pc, upsert, found, copy>>

Entry == 1 .. MaxEntries

\* A card without expires_at lasts for ever, that is past the bounds.
Forever == MaxTime + TTL + 1
Time == 0 .. Forever

\* Which publication a card comes from, its expiry, and the expiry its owner has
\* signed (0 without a signature).
Card == [from : 0 .. MaxEntries, expires : Time, signed : Time]
NoCard == [from |-> 0, expires |-> 0, signed |-> 0]

\* Types of the variables.
TypeOK ==
  /\ now \in 0 .. MaxTime /\ made \in 0 .. MaxEntries /\ entry \in 0 .. made
  /\ card \in [Entry -> Card] /\ healthy \in [Entry -> BOOLEAN]
  /\ pc \in [Worker -> {"idle", "put", "stamp", "refresh", "check", "pop", "answer"}]
  /\ upsert \in [Worker -> BOOLEAN]
  /\ found \in [Worker -> 0 .. made]
  /\ copy \in [Worker -> Card]

Init ==
  /\ now = 0 /\ made = 0 /\ entry = 0
  /\ card = [e \in Entry |-> NoCard] /\ healthy = [e \in Entry |-> TRUE]
  /\ pc = [w \in Worker |-> "idle"]
  /\ upsert = [w \in Worker |-> FALSE]
  /\ found = [w \in Worker |-> 0]
  /\ copy = [w \in Worker |-> NoCard]

-----------------------------------------------------------------------------
Busy == {w \in Worker : pc[w] # "idle"}

(* Deviation: a call does not wait for another one to end. *)
MayStepAnytime(w) == TRUE

MayStep(w) == Scheduler = "threads" \/ Busy \subseteq {w}

Goto(w, step) == pc' = [pc EXCEPT ![w] = step]

Return(w) ==
  /\ Goto(w, "idle")
  /\ upsert' = [upsert EXCEPT ![w] = FALSE]
  /\ found' = [found EXCEPT ![w] = 0]
  /\ copy' = [copy EXCEPT ![w] = NoCard]

\* ensure_not_expired.
Fresh(c) == now < c.expires

\* verify_server_card: a signature is over the expiry, and an unsigned card is right.
Verifies(c) == c.signed # 0 => c.expires = c.signed

\* publish(), or heartbeat() with a replacement card, has verified the card.
Publish(w) ==
  /\ pc[w] = "idle" /\ made + Cardinality(Busy) < MaxEntries
  /\ \E c \in Card, replace \in BOOLEAN :
       /\ c.from = 0 /\ c.expires > now
       /\ Verifies(c) /\ (RequireSignature => c.signed # 0)
       /\ copy' = [copy EXCEPT ![w] = c]
       /\ upsert' = [upsert EXCEPT ![w] = replace]
  /\ Goto(w, "put")
  /\ UNCHANGED <<now, made, entry, card, healthy, found>>

\* A new entry, and a healthy one; or ALREADY_EXISTS.
Put(w) ==
  /\ pc[w] = "put"
  /\ \/ /\ entry = 0 \/ upsert[w]
        /\ made' = made + 1
        /\ entry' = made + 1
        /\ card' = [card EXCEPT ![made + 1] = [copy[w] EXCEPT !.from = made + 1]]
        /\ healthy' = [healthy EXCEPT ![made + 1] = TRUE]
     \/ /\ entry # 0 /\ ~upsert[w]
        /\ UNCHANGED <<made, entry, card, healthy>>
  /\ Return(w)
  /\ UNCHANGED now

(* Deviation: signed cards may be refreshed as well. *)
BeatSigned(w) ==
  /\ pc[w] = "idle" /\ entry # 0
  /\ copy' = [copy EXCEPT ![w] = card[entry]]
  /\ Goto(w, "stamp")
  /\ UNCHANGED <<now, made, entry, card, healthy, upsert, found>>

\* heartbeat() reads the card; a signed one needs a replacement.
Beat(w) ==
  /\ pc[w] = "idle" /\ entry # 0
  /\ card[entry].signed = 0
  /\ copy' = [copy EXCEPT ![w] = card[entry]]
  /\ Goto(w, "stamp")
  /\ UNCHANGED <<now, made, entry, card, healthy, upsert, found>>

Stamp(w) ==
  /\ pc[w] = "stamp"
  /\ copy' = [copy EXCEPT ![w].expires = now + TTL]
  /\ Goto(w, "refresh")
  /\ UNCHANGED <<now, made, entry, card, healthy, upsert, found>>

\* Whatever entry the table has now gets the card; a KeyError if it has none.
Refresh(w) ==
  /\ pc[w] = "refresh"
  /\ card' = IF entry = 0 THEN card ELSE [card EXCEPT ![entry] = copy[w]]
  /\ Return(w)
  /\ UNCHANGED <<now, made, entry, healthy>>

SetHealth ==
  /\ entry # 0
  /\ \E h \in BOOLEAN : healthy' = [healthy EXCEPT ![entry] = h]
  /\ UNCHANGED <<now, made, entry, card, pc, upsert, found, copy>>

-----------------------------------------------------------------------------
\* NOT_FOUND, from resolve(), heartbeat() or set_health().
Missing(w) == pc[w] = "idle" /\ entry = 0 /\ UNCHANGED vars

Resolve(w) ==
  /\ pc[w] = "idle" /\ entry # 0
  /\ found' = [found EXCEPT ![w] = entry]
  /\ Goto(w, "check")
  /\ UNCHANGED <<now, made, entry, card, healthy, upsert, copy>>

Check(w) ==
  /\ pc[w] = "check"
  /\ Goto(w, IF Fresh(card[found[w]]) THEN "answer" ELSE "pop")
  /\ UNCHANGED <<now, made, entry, card, healthy, upsert, found, copy>>

(* Deviation: a resolve() that finds an unhealthy entry drops it. *)
PopUnhealthy(w) ==
  /\ pc[w] = "pop" \/ (pc[w] = "answer" /\ ~healthy[found[w]])
  /\ entry' = 0
  /\ Return(w)
  /\ UNCHANGED <<now, made, card, healthy>>

\* The expired entry, or whatever is in its place, is dropped.
Pop(w) ==
  /\ pc[w] = "pop"
  /\ entry' = 0
  /\ Return(w)
  /\ UNCHANGED <<now, made, card, healthy>>

\* The card, or NOT_FOUND if a healthy one was asked for and it is not.
Answer(w) ==
  /\ pc[w] = "answer"
  /\ Return(w)
  /\ UNCHANGED <<now, made, entry, card, healthy>>

-----------------------------------------------------------------------------
Work(w) ==
  /\ MayStep(w)
  /\ \/ Publish(w) \/ Put(w)
     \/ Beat(w) \/ Stamp(w) \/ Refresh(w)
     \/ Missing(w) \/ Resolve(w) \/ Check(w) \/ Pop(w) \/ Answer(w)

Tick ==
  /\ now < MaxTime
  /\ now' = now + 1
  /\ UNCHANGED <<made, entry, card, healthy, pc, upsert, found, copy>>

Next == Tick \/ SetHealth \/ \E w \in Worker : Work(w)

Spec == Init /\ [][Next]_vars

-----------------------------------------------------------------------------
(* Properties *)

\* An entity whose card has not expired stays discoverable.
FreshEntryStays == [][entry # 0 /\ Fresh(card[entry]) => entry' # 0]_vars

\* The card an entity is resolved to is the one that was published last, or that
\* one refreshed.
LatestCardServed == entry # 0 => card[entry].from = entry

\* A card that carries a signature is as its owner signed it.
SignaturesVerify == \A e \in Entry : Verifies(card[e])
=============================================================================
