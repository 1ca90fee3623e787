----------------------------- MODULE GraphModule -----------------------------
(***************************************************************************)
(* EntityRegistry, OrganizationRegistry and MembershipRegistry with the    *)
(* FPServer methods in front of them, for one organization, over the       *)
(* SQLite stores: every put is the transaction of SqliteStores, may raise, *)
(* and may be cut off by a crash.  A role change puts the policy's record, *)
(* the membership and the event into three tables, one after the other.    *)
(***************************************************************************)
EXTENDS SqliteStores, Naturals

CONSTANTS
  Org,      \* the organization's id, and its entity's
  Id,       \* membership ids, in the order of the store's listing
  Member,   \* entities that may be members
  Role,
  MaxBegun  \* bound on the requests of threads that are not alone

\* Of the statuses only "active" matters to the code; "suspended" stands for the
\* two others that a membership can be added with.
Roles == SUBSET Role \ {{}}
Membership == [member : Member, roles : Roles, status : {"active", "suspended", "revoked"}]

Kind == [kind : {"agent", "organization"}]
Organization == [entity : {Org}]

\* Its constructor refuses an entity of another kind.
OrganizationEntity == [kind |-> "organization"]

Event == [event : {"membership.removed", "other"}]
Outcome == [outcome : {"allowed", "denied"}]

\* The tables a request touches, and what is kept in them: of an event, that it is
\* there; of the policy's records, the last.
Tables == {"entities", "organizations", "memberships", "events", "provenance"}

ASSUME IdAssumption == Id \subseteq Nat /\ Org \in Nat \ Id
ASSUME SchemaAssumption ==
  /\ Tables \subseteq Store
  /\ Id \cup {Org} \subseteq Key
  /\ Membership \cup Kind \cup Organization \cup Event \cup Outcome \subseteq Row
ASSUME BoundAssumption == MaxBegun \in Nat

VARIABLES
  pc,    \* where each thread's request is
  req,   \* the request
  todo,  \* what it puts next, or is putting
  begun  \* requests begun by threads that are not alone

graphVars == <<pc, req, todo, begun>>
vars == <<storeVars, pc, req, todo, begun>>

RoleChange ==
  [op : {"add"}, id : Id, membership : Membership]
    \cup [op : {"remove"}, id : Id]
    \cup [op : {"grant", "revoke"}, member : Member, roles : Roles]
Request == RoleChange \cup [op : {"register"}, entity : Kind] \cup [op : {"create"}]
NoRequest == [op |-> "none"]

\* A new file, or one with the organization and a membership in it.
Fresh == [s \in Store |-> [k \in Key |-> NoRow]]
Populated(i, membership) ==
  [Fresh EXCEPT !["entities"][Org] = OrganizationEntity,
                !["organizations"][Org] = [entity |-> Org],
                !["memberships"][i] = membership]

Init ==
  /\ threads \in SUBSET Thread \ {{}}
  /\ disk \in {Fresh} \cup {Populated(i, m) : i \in Id, m \in {x \in Membership : x.status = "active"}}
  /\ view = disk /\ open = FALSE
  /\ put = [t \in Thread |-> NoPut]
  /\ step = [t \in Thread |-> "idle"]
  /\ fate = [t \in Thread |-> "none"]
  /\ pc = [t \in Thread |-> "idle"]
  /\ req = [t \in Thread |-> NoRequest]
  /\ todo = [t \in Thread |-> NoPut]
  /\ begun = 0

-----------------------------------------------------------------------------
\* One thread for all requests: AsyncFPServer on its event loop.
Alone == \E t \in Thread : threads = {t}

To(t, where) == pc' = [pc EXCEPT ![t] = where]

\* The request is over: returned, or raised.
Over(t) ==
  /\ To(t, "idle")
  /\ req' = [req EXCEPT ![t] = NoRequest]
  /\ todo' = [todo EXCEPT ![t] = NoPut]

Plan(t, s, k, r) ==
  /\ todo' = [todo EXCEPT ![t] = [store |-> s, key |-> k, row |-> r]]
  /\ To(t, "put")

\* GovernanceModule.enforce: the policy's answer to PRE_ROLE_CHANGE is recorded
\* before all else.
Enforces(t) == \E o \in Outcome : Plan(t, "provenance", Org, o)

\* upsert: the entity is put, whether or not there is one.
Registers(t, r) == Plan(t, "entities", Org, r.entity)

Begins(t, r) ==
  \/ r \in RoleChange /\ Enforces(t)
  \/ r.op = "register" /\ Registers(t, r)
  \/ r.op = "create" /\ To(t, "load") /\ UNCHANGED todo

Receive(t) ==
  /\ pc[t] = "idle" /\ t \in threads
  /\ Alone \/ begun < MaxBegun
  /\ begun' = IF Alone THEN begun ELSE begun + 1
  /\ \E r \in Request : req' = [req EXCEPT ![t] = r] /\ Begins(t, r)
  /\ UNCHANGED storeVars

-----------------------------------------------------------------------------
(* The checks of a change, on what get and by_organization find. *)

Stored(s, k) == view[s][k] # NoRow
MembershipOf(i) == view["memberships"][i]

\* _find_by_member: the active memberships, of which the first is the one to edit.
ActiveOf(m) ==
  {i \in Id : /\ Stored("memberships", i)
              /\ MembershipOf(i).status = "active" /\ MembershipOf(i).member = m}
FirstOf(ids) == {i \in ids : \A j \in ids : i <= j}

(* Deviation: a membership may be added where there is one. *)
AddsAnyway(r) == r.op = "add"

Creates(r) == r.op = "create" /\ ~Stored("organizations", Org)

Adds(r) == r.op = "add" /\ ~Stored("memberships", r.id)

Removes(r) == r.op = "remove" /\ Stored("memberships", r.id)
Edits(r, i) == r.op \in {"grant", "revoke"} /\ i \in FirstOf(ActiveOf(r.member))

Edited(r, roles) == IF r.op = "grant" THEN roles \cup r.roles ELSE roles \ r.roles
LeavesRole(roles) == roles # {}

Readable(r) == Free(IF r.op = "create" THEN "organizations" ELSE "memberships")

\* A membership is added to an organization that there is, which is looked up first.
Find(t) ==
  /\ pc[t] = "find" /\ Free("organizations")
  /\ \/ Stored("organizations", Org) /\ To(t, "load") /\ UNCHANGED <<req, todo>>
     \/ ~Stored("organizations", Org) /\ Over(t)
  /\ UNCHANGED <<storeVars, begun>>

Load(t) ==
  LET r == req[t] IN
  /\ pc[t] = "load" /\ Readable(r)
  /\ \/ Creates(r) /\ Plan(t, "entities", Org, [kind |-> "organization"])
     \/ Adds(r) /\ Plan(t, "memberships", r.id, r.membership)
     \/ /\ Removes(r)
        /\ Plan(t, "memberships", r.id, [MembershipOf(r.id) EXCEPT !.status = "revoked"])
     \/ \E i \in Id :
          /\ Edits(r, i) /\ LeavesRole(Edited(r, MembershipOf(i).roles))
          /\ Plan(t, "memberships", i, [MembershipOf(i) EXCEPT !.roles = Edited(r, @)])
  /\ UNCHANGED <<storeVars, req, begun>>

Refuse(t) ==
  LET r == req[t] IN
  /\ pc[t] = "load" /\ Readable(r)
  /\ ~Creates(r) /\ ~Adds(r) /\ ~Removes(r)
  /\ \A i \in Id : Edits(r, i) => ~LeavesRole(Edited(r, MembershipOf(i).roles))
  /\ Over(t)
  /\ UNCHANGED <<storeVars, begun>>

-----------------------------------------------------------------------------
(* The puts, and what the request does after each. *)

PutRow(t) ==
  /\ pc[t] = "put" /\ Ask(t, todo[t])
  /\ To(t, "wait")
  /\ UNCHANGED <<req, todo, begun>>

Working(t) == Inner(t) /\ UNCHANGED graphVars

(* Deviation: a denial is recorded and nothing else. *)
AnyOutcome(record) == TRUE

Allowed(record) == record.outcome = "allowed"

\* _emit_org_event: the payload names the membership, or the member.
Tell(t) ==
  LET r == req[t] IN
  IF r.op = "remove" THEN Plan(t, "events", r.id, [event |-> "membership.removed"])
                     ELSE Plan(t, "events", Org, [event |-> "other"])

\* What follows when the put has returned.
Follow(t) ==
  LET done == todo[t].store IN
  \/ /\ done = "provenance" /\ Allowed(todo[t].row)
     /\ To(t, IF req[t].op = "add" THEN "find" ELSE "load") /\ UNCHANGED <<req, todo>>
  \/ done = "provenance" /\ ~Allowed(todo[t].row) /\ Over(t)
  \/ done = "entities" /\ req[t].op = "register" /\ Over(t)
  \/ /\ done = "entities" /\ req[t].op = "create"
     /\ Plan(t, "organizations", Org, [entity |-> Org]) /\ UNCHANGED req
  \/ done = "memberships" /\ Tell(t) /\ UNCHANGED req
  \/ done \in {"organizations", "events"} /\ Over(t)

Proceed(t) == pc[t] = "wait" /\ Return(t) /\ Follow(t) /\ UNCHANGED begun

(* Deviation: an exception of the store is dropped. *)
AbandonNothing(t) == pc[t] = "wait" /\ Raise(t) /\ Follow(t) /\ UNCHANGED begun

\* An exception of the store ends the request where it is.
Abandon(t) == pc[t] = "wait" /\ Raise(t) /\ Over(t) /\ UNCHANGED begun

Crash ==
  /\ CrashStores
  /\ pc' = [t \in Thread |-> "idle"]
  /\ req' = [t \in Thread |-> NoRequest]
  /\ todo' = [t \in Thread |-> NoPut]
  /\ UNCHANGED begun

Next ==
  /\ \/ Crash
     \/ \E t \in Thread :
          \/ Receive(t) \/ Find(t) \/ Load(t) \/ Refuse(t)
          \/ PutRow(t) \/ Working(t) \/ Proceed(t) \/ Abandon(t)
  /\ UNCHANGED threads

Spec == Init /\ [][Next]_vars

-----------------------------------------------------------------------------
(* Properties *)

\* Once the log on the disk tells that a membership was removed, it is revoked
\* there and stays so: a crash or a failed put between the change and its event
\* leaves a change that is not told, never a change told that is not there.  For a
\* thread alone; threads edit copies, and lose puts that have returned.
RemovedStaysRevoked ==
  Alone => \A i \in Id : disk["events"][i] # NoRow =>
             disk["memberships"][i] # NoRow /\ disk["memberships"][i].status = "revoked"

\* However far the creation of an organization got before a crash or a failed put,
\* an organization has the entity it consists of.
OrganizationHasEntity ==
  Alone => (disk["organizations"][Org] # NoRow => disk["entities"][Org] # NoRow)

\* A membership changes on the disk only when the policy's record that allows the
\* change is on the disk already: no crash and no failure leaves a role change that
\* the provenance does not account for.
OnlyAllowedChanges ==
  [][Alone /\ disk'["memberships"] # disk["memberships"] =>
       disk["provenance"][Org] = [outcome |-> "allowed"]]_vars
=============================================================================
