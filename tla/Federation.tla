----------------------------- MODULE Federation -----------------------------
(***************************************************************************)
(* A server that publishes itself (FPHTTPPublishedServer) and the          *)
(* directory that lists it.  Every start makes a card with the address of  *)
(* that start and a lifetime of its own; the card is signed or not, and    *)
(* published in the directory by whoever has it, by then perhaps after the *)
(* server was stopped.  Only the directory's heartbeat gives a card more   *)
(* time: start() makes one card, and signing keeps the expiry it finds.    *)
(***************************************************************************)
EXTENDS Directory

CONSTANTS
  MaxStarts  \* bound on the starts of the server

ASSUME StartAssumption == MaxStarts \in Nat

VARIABLES
  up,      \* whether the server runs
  starts,  \* how often it was started
  ends,    \* when the card of each start expires
  offer,   \* the start whose card each call publishes, 0 for another card
  home     \* the same of each publication

publisher == <<up, starts, ends, offer, home>>

Start == 1 .. MaxStarts

FederationInit ==
  /\ Init
  /\ up = FALSE /\ starts = 0
  /\ ends = [s \in Start |-> 0]
  /\ offer = [w \in Worker |-> 0]
  /\ home = [e \in Entry |-> 0]

-----------------------------------------------------------------------------
\* new_unsigned_server_card_fields.
Lifetime(issued) == issued + TTL

\* start() of a server that runs already does nothing.
StartServer ==
  /\ ~up /\ starts < MaxStarts
  /\ up' = TRUE
  /\ starts' = starts + 1
  /\ ends' = [ends EXCEPT ![starts + 1] = Lifetime(now)]
  /\ UNCHANGED <<vars, offer, home>>

\* The card stays with the publisher, which hands it out as before.
StopServer ==
  /\ up
  /\ up' = FALSE
  /\ UNCHANGED <<vars, starts, ends, offer, home>>

(* Deviation: signing stamps the card anew. *)
RestampedExpiry(s) == Lifetime(now)

\* sign_server_card takes over the expiry that the card has.
SignedExpiry(s) == ends[s]

\* fetch_server_card refuses the card of a running server once it has expired.
Fetchable == up /\ now < ends[starts]

\* The card is the server's, as it was made or as it was fetched from the well-known
\* URL while the server ran; signed, or as it is; or another card of its owner's.
Announce(w) ==
  /\ Publish(w)
  /\ \E s \in 0 .. starts :
       /\ offer' = [offer EXCEPT ![w] = s]
       /\ s # 0 => copy'[w].expires = IF copy'[w].signed # 0 THEN SignedExpiry(s) ELSE ends[s]
  /\ UNCHANGED <<up, starts, ends, home>>

Enlist(w) ==
  /\ Put(w)
  /\ home' = IF made' = made THEN home ELSE [home EXCEPT ![made'] = offer[w]]
  /\ offer' = [offer EXCEPT ![w] = 0]
  /\ UNCHANGED <<up, starts, ends>>

Consult(w) ==
  /\ \/ Beat(w) \/ Stamp(w) \/ Refresh(w)
     \/ Missing(w) \/ Resolve(w) \/ Check(w) \/ Pop(w) \/ Answer(w)
  /\ UNCHANGED publisher

FederationNext ==
  \/ StartServer \/ StopServer
  \/ (Tick \/ SetHealth) /\ UNCHANGED publisher
  \/ \E w \in Worker : MayStep(w) /\ (Announce(w) \/ Enlist(w) \/ Consult(w))

FederationSpec == FederationInit /\ [][FederationNext]_<<vars, publisher>>

-----------------------------------------------------------------------------
(* Properties *)

\* A signed card gives the address of a server no longer than the card of that start
\* lasts, however often it is signed and published again: a server that is stopped,
\* or started at another address, is forgotten in time.
StoppedServerForgotten ==
  \A e \in Entry :
    LET s == home[card[e].from] IN
    card[e].from # 0 /\ card[e].signed # 0 /\ s # 0 => card[e].expires = ends[s]

\* The card of a server that runs can be fetched.
RunningServerFetchable == up => Fetchable
=============================================================================
