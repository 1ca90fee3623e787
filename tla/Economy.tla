------------------------------- MODULE Economy -------------------------------
(***************************************************************************)
(* Receipts, settlements, disputes, provenance records and the audit       *)
(* bundle that is read from most of them, over EventLog: the requests of   *)
(* FPServer that issue, settle, confirm, dispute, record and export run    *)
(* beside those that publish other events, on one of EventLog's two hosts. *)
(* What is read from SQLite's stores has been through the codec.  FPServer *)
(* gives its ReceiptService a secret and nothing else: the operator keeps  *)
(* the secret, and every process draws a key pair of its own if it can.    *)
(*                                                                         *)
(* Stores only grow, so a receipt, a settlement or a record is its place   *)
(* in one, and a part of a bundle is how much of its store was there.      *)
(* A constructor that refuses its arguments before anything is stored is   *)
(* left out.                                                               *)
(***************************************************************************)
EXTENDS EventLog

CONSTANTS
  Secret,         \* receipt_secret
  BundleLimit,    \* 10_000, the events of an audit bundle
  MaxReceipts,    \* bound on the receipts
  MaxDecisions    \* bound on settlements asked for, records and disputes together

ASSUME PublisherAssumption == IsFiniteSet(Publisher)
ASSUME SecretAssumption == Secret \notin Nat
ASSUME EconomyBoundAssumption ==
  /\ BundleLimit \in Nat /\ MaxReceipts \in Nat
  /\ MaxDecisions \in Nat

VARIABLES
  receipts, settlements,
  disputes,    \* how many were opened
  decisions,   \* the provenance store: what the PRE_SETTLE hook and callers record
  tells,       \* the receipt each event of the log tells of, 0 for another event
  signer,      \* what issue() signs with: the secret or the key pair of the process
  at,          \* where each request is
  subject,     \* the receipt it issues, or the receipts it settles
  bundle       \* what an audit has read so far

ledger == <<receipts, settlements, disputes, decisions, tells>>
economy == <<ledger, signer, at, subject, bundle>>

\* Processes are told apart by the crashes before them.
Process == 0 .. MaxCrashes
KeyPair(process) == process
Signer == {Secret} \cup {KeyPair(k) : k \in Process}

\* What a meter record's quantity is written as: 5 or 5.0.
MeterRecord == [quantity : {"int", "float"}]
\* `issuer` is history: the process that issued the receipt.
Receipt == [activity : Activity \cup {NoActivity}, metered : MeterRecord,
            proof : Signer, issuer : Process]
Refs == SUBSET (1 .. MaxReceipts)
Settlement == [receipts : Refs \ {{}}, confirmed : BOOLEAN]
Decision == [receipts : Refs, allowed : BOOLEAN, by : {"policy", "caller"}]

(* Deviation: the receipts are read before the events. *)
ReceiptsFirst == <<"receipts", "events", "decisions", "settlements", "answer">>

\* The order in which audit_bundle reads the stores.
ReadOrder == <<"events", "decisions", "receipts", "settlements", "answer">>

Part == {"events", "decisions", "receipts", "settlements"}
NothingRead == [part \in Part |-> 0]

\* Types of the variables; no bundle has more events than its limit.
EconomyTypeOK ==
  /\ TypeOK
  /\ receipts \in Seq(Receipt) /\ Len(receipts) <= MaxReceipts
  /\ settlements \in Seq(Settlement) /\ Len(settlements) <= Len(decisions)
  /\ disputes \in Nat
  /\ decisions \in Seq(Decision) /\ Len(decisions) + disputes <= MaxDecisions
  /\ tells \in [1 .. MaxEvents -> 0 .. Len(receipts)]
  /\ signer \in Signer
  /\ at \in [Publisher -> {"idle", "find", "decide", "create", "answer"} \cup Part]
  /\ subject \in [Publisher -> Refs]
  /\ bundle \in [Publisher -> [Part -> Nat]]
  /\ \A p \in Publisher : bundle[p]["events"] <= BundleLimit

\* signing_mode "auto": a new key pair where Ed25519 is installed, else the secret.
Signs(process, s) == s \in {Secret, KeyPair(process)}

EconomyInit ==
  /\ Init
  /\ receipts = <<>> /\ settlements = <<>> /\ disputes = 0 /\ decisions = <<>>
  /\ tells = [n \in 1 .. MaxEvents |-> 0]
  /\ signer \in Signer /\ Signs(0, signer)
  /\ at = [p \in Publisher |-> "idle"]
  /\ subject = [p \in Publisher |-> {}]
  /\ bundle = [p \in Publisher |-> NothingRead]

-----------------------------------------------------------------------------
Free(p) == pc[p] = "idle" /\ at[p] = "idle"
MayGoOn(p) == host = "threads" \/ \A q \in Publisher \ {p} : Free(q)

Arrive(p, step) == at' = [at EXCEPT ![p] = step]

\* Back to the caller, with an answer or an FPError.
Finish(p) ==
  /\ Arrive(p, "idle")
  /\ subject' = [subject EXCEPT ![p] = {}]
  /\ bundle' = [bundle EXCEPT ![p] = NothingRead]

\* The bound on events leaves room for the receipts that are to be told.
Room == begun + Cardinality({p \in Publisher : at[p] = "find"}) < MaxEvents

\* Any other request, and the two appends of receipt.issued.
Publishing(p) == at[p] = "idle" /\ (Free(p) => Room) /\ Work(p) /\ UNCHANGED economy

\* receipts_issue signs a receipt and stores it, for whatever activity it is told.
Issue(p) ==
  /\ Free(p) /\ Room /\ Len(receipts) < MaxReceipts
  /\ \E a \in Activity \cup {NoActivity}, m \in MeterRecord :
       receipts' = Append(receipts, [activity |-> a, metered |-> m,
                                     proof |-> signer, issuer |-> crashes])
  /\ subject' = [subject EXCEPT ![p] = {Len(receipts) + 1}]
  /\ Arrive(p, "find")
  /\ UNCHANGED <<vars, settlements, disputes, decisions, tells, signer, bundle>>

\* The activity is looked for afterwards: NOT_FOUND, or its event is published.
Find(p) ==
  \E r \in subject[p] :
    /\ at[p] = "find"
    /\ IF receipts[r].activity = NoActivity
         THEN UNCHANGED <<vars, tells>>
         ELSE /\ Publish(p) /\ event'[p].activity = receipts[r].activity
              /\ tells' = [tells EXCEPT ![begun + 1] = r]
    /\ Finish(p)
    /\ UNCHANGED <<receipts, settlements, disputes, decisions, signer>>

\* The bound leaves room for the decisions that are to be made.
Able ==
  Len(decisions) + disputes + Cardinality({p \in Publisher : at[p] = "decide"}) < MaxDecisions

\* settlements_create has found all the receipts.
Settle(p) ==
  /\ Free(p) /\ Able
  /\ \E refs \in SUBSET (1 .. Len(receipts)) : subject' = [subject EXCEPT ![p] = refs]
  /\ Arrive(p, "decide")
  /\ UNCHANGED <<vars, ledger, signer, bundle>>

(* Deviation: the outcome is recorded and not enforced. *)
DecideOnly(p) ==
  /\ at[p] = "decide"
  /\ \E allowed \in BOOLEAN :
       decisions' = Append(decisions, [receipts |-> subject[p], allowed |-> allowed,
                                       by |-> "policy"])
  /\ Arrive(p, "create")
  /\ UNCHANGED <<vars, receipts, settlements, disputes, tells, signer, subject, bundle>>

\* GovernanceModule.enforce: the outcome is recorded first, then enforced.
Decide(p) ==
  /\ at[p] = "decide"
  /\ \E allowed \in BOOLEAN :
       /\ decisions' = Append(decisions, [receipts |-> subject[p], allowed |-> allowed,
                                          by |-> "policy"])
       /\ IF allowed THEN Arrive(p, "create") /\ UNCHANGED <<subject, bundle>> ELSE Finish(p)
  /\ UNCHANGED <<vars, receipts, settlements, disputes, tells, signer>>

\* SettlementService: a settlement as create() makes it and confirm() leaves it.
Requested(refs) == [receipts |-> refs, confirmed |-> FALSE]
Confirmed(settlement) == [settlement EXCEPT !.confirmed = TRUE]

\* A settlement of no receipts is refused by its constructor, after all that.
Create(p) ==
  /\ at[p] = "create"
  /\ settlements' = IF subject[p] = {} THEN settlements
                    ELSE Append(settlements, Requested(subject[p]))
  /\ Finish(p)
  /\ UNCHANGED <<vars, receipts, disputes, decisions, tells, signer>>

\* settlements_confirm; nothing else ever writes a settlement again, so that reading
\* and writing it is one step.
Confirm(p) ==
  /\ Free(p)
  /\ \E s \in DOMAIN settlements : settlements' = [settlements EXCEPT ![s] = Confirmed(@)]
  /\ UNCHANGED <<vars, receipts, disputes, decisions, tells, signer, at, subject, bundle>>

\* provenance_record takes any subjects and any outcome; receipts there are, here.
Record(p) ==
  /\ Free(p) /\ Able
  /\ \E refs \in SUBSET (1 .. Len(receipts)), allowed \in BOOLEAN :
       decisions' = Append(decisions, [receipts |-> refs, allowed |-> allowed, by |-> "caller"])
  /\ UNCHANGED <<vars, receipts, settlements, disputes, tells, signer, at, subject, bundle>>

\* disputes_open, of any target; nothing looks at a dispute afterwards, an audit neither.
Dispute(p) ==
  /\ Free(p) /\ Able
  /\ disputes' = disputes + 1
  /\ UNCHANGED <<vars, receipts, settlements, decisions, tells, signer, at, subject, bundle>>

-----------------------------------------------------------------------------
(* audit_bundle. *)

Export(p) ==
  /\ Free(p)
  /\ Arrive(p, Head(ReadOrder))
  /\ UNCHANGED <<vars, ledger, signer, subject, bundle>>

Replayed == IF Len(session) < BundleLimit THEN Len(session) ELSE BundleLimit

ThereIs(part) ==
  CASE part = "events" -> Replayed
    [] part = "decisions" -> Len(decisions)
    [] part = "receipts" -> Len(receipts)
    [] part = "settlements" -> Len(settlements)

Read(p) ==
  \E i \in 1 .. Len(ReadOrder) - 1 :
    /\ at[p] = ReadOrder[i]
    /\ bundle' = [bundle EXCEPT ![p][ReadOrder[i]] = ThereIs(ReadOrder[i])]
    /\ Arrive(p, ReadOrder[i + 1])
    /\ UNCHANGED <<vars, ledger, signer, subject>>

Answer(p) ==
  /\ at[p] = "answer"
  /\ Finish(p)
  /\ UNCHANGED <<vars, ledger, signer>>

-----------------------------------------------------------------------------
(* Deviation: a receipt is checked in the mode that the service signs in. *)
OwnMode(proof) == signer

\* What ReceiptService.verify checks a proof with: its prefix tells.  Every process
\* gives its public key the same key_ref, and one that signs with the secret has none.
KeyFor(proof) == IF proof = Secret THEN Secret ELSE signer

\* decode_meter_record makes a float of the quantity, and JSON keeps it one.
DecodedRecord(m) == [m EXCEPT !.quantity = "float"]

\* A receipt as a get returns it: over the in-memory stores, a copy.
Loaded(receipt) ==
  IF host = "alone" THEN [receipt EXCEPT !.metered = DecodedRecord(@)] ELSE receipt

\* The bytes that are signed, or those of them that a store may change.
Payload(receipt) == receipt.metered

\* A signature, over the same bytes, is verified by the key that made it and by no other.
Made(key, proof) == proof = key

\* verify() of a receipt from the store.
Verifies(receipt) ==
  /\ Made(KeyFor(receipt.proof), receipt.proof)
  /\ Payload(Loaded(receipt)) = Payload(receipt)

\* An access raises in the middle of a request, and the request is over.
Fail(p) == ~Free(p) /\ Raise(p) /\ Finish(p) /\ UNCHANGED <<ledger, signer>>

CrashAndRestart ==
  /\ Crash
  /\ signer' \in Signer /\ Signs(crashes', signer')
  /\ at' = [p \in Publisher |-> "idle"]
  /\ subject' = [p \in Publisher |-> {}]
  /\ bundle' = [p \in Publisher |-> NothingRead]
  /\ UNCHANGED ledger

-----------------------------------------------------------------------------
Go(p) ==
  /\ MayGoOn(p)
  /\ \/ Publishing(p)
     \/ Issue(p) \/ Find(p)
     \/ Settle(p) \/ Decide(p) \/ Create(p) \/ Confirm(p) \/ Record(p) \/ Dispute(p)
     \/ Export(p) \/ Read(p) \/ Answer(p)
     \/ Fail(p)

EconomyNext == CrashAndRestart \/ \E p \in Publisher : Go(p)

EconomySpec == EconomyInit /\ [][EconomyNext]_<<vars, economy>>

-----------------------------------------------------------------------------
(* Properties *)

\* A bundle that has the event of a receipt has the receipt, although the stores
\* are read one after the other while receipts are issued.
EventsComeWithReceipts ==
  \A p \in Publisher : at[p] = "answer" =>
    \A i \in 1 .. bundle[p]["events"] : tells[session[i].n] <= bundle[p]["receipts"]

SettlementsOf(refs) == {i \in DOMAIN settlements : settlements[i].receipts = refs}
AllowedFor(refs) == {i \in DOMAIN decisions :
                       /\ decisions[i].by = "policy" /\ decisions[i].allowed
                       /\ decisions[i].receipts = refs}

\* Every settlement has a recorded decision of the policy that allowed it, one of
\* its own.
AllowedBeforeSettled ==
  \A refs \in Refs : Cardinality(SettlementsOf(refs)) <= Cardinality(AllowedFor(refs))

\* A receipt that is read from the store verifies exactly if the running process
\* issued it or it was signed with the secret, and if SQLite's codec, should it have
\* been through it, leaves its quantity as it was.
ReceiptsVerify ==
  \A r \in DOMAIN receipts :
    Verifies(receipts[r]) <=>
      /\ receipts[r].issuer = crashes \/ receipts[r].proof = Secret
      /\ host = "threads" \/ receipts[r].metered.quantity = "float"

\* They all verify.
AllReceiptsVerify == \A r \in DOMAIN receipts : Verifies(receipts[r])

\* A bundle with a settlement has its receipts and the decision that allowed it.
SettlementsComeWithReceipts ==
  \A p \in Publisher : at[p] = "answer" =>
    \A s \in 1 .. bundle[p]["settlements"] :
      /\ settlements[s].receipts \subseteq 1 .. bundle[p]["receipts"]
      /\ \E d \in 1 .. bundle[p]["decisions"] : decisions[d].receipts = settlements[s].receipts

\* Once nobody is at work, every receipt has its event in the log.
ReceiptsAreTold ==
  (\A p \in Publisher : Free(p)) =>
    \A r \in DOMAIN receipts : \E i \in DOMAIN session : tells[session[i].n] = r
=============================================================================
