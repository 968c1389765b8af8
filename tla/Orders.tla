------------------------------- MODULE Orders -------------------------------
(***************************************************************************)
(* Orders to the suppliers (CaseOrdersService) of what a confirmed         *)
(* proposal holds: a batch is prepared for the proposal, each group of it  *)
(* is mailed to its producer, whose confirmations and invoices become      *)
(* costs of the ledger.                                                    *)
(*                                                                         *)
(* A send is four steps: what is read first, the transaction that makes    *)
(* the row, the mail, and the statement that records its outcome.  The     *)
(* preview is a function of the batch, which never changes.  The confirmed *)
(* proposal and the dealer's catalogs change as Negotiation, Products and  *)
(* Catalogs have it.                                                       *)
(***************************************************************************)
EXTENDS Ledger

CONSTANTS
  Proposals,    \* proposals of the case
  Groups,       \* groups of a batch, one for each producer
  Calls,        \* sends served at the same time
  Required,     \* deposit of the proposals
  MaxEvents,    \* bound: events of a batch
  MaxAttempts   \* bound: mails of a group

EventKinds == {"CONFIRMATION", "RECEIPT", "INVOICE"}

ASSUME OrdersAssumption ==
  /\ OrderKeys = Proposals \X Groups
  /\ None \notin Proposals \cup Seq([kind: EventKinds, group: Groups])
  /\ Required \in Nat /\ MaxEvents \in Nat /\ MaxAttempts \in Nat

\* `reached': the producer has it; `backed': history, when it was sent the
\* proposal was the confirmed one, its catalogs and deposit in order.
AttemptRows == [status: {"SENDING", "SMTP_ACCEPTED", "FAILED", "UNKNOWN"},
                reached: BOOLEAN, backed: BOOLEAN]

Outcomes == {"accepted", "rejected", "refused", "lost"}

VARIABLES
  confirmed,   \* confirmedProposalId
  catalogsOK,  \* the catalogs of its products are approved as they were
  batches,     \* the events of each CaseOrderBatch, or None
  attempts,    \* the SupplierOrderDelivery rows of each group, by age
  call         \* the sends under way

ordersVars == <<confirmed, catalogsOK, batches, attempts, call>>
vars == <<ledgerVars, ordersVars>>

TypeOK ==
  /\ LedgerTypeOK
  /\ confirmed \in Proposals \cup {None}
  /\ catalogsOK \in BOOLEAN
  /\ batches \in [Proposals -> Seq([kind: EventKinds, group: Groups]) \cup {None}]
  /\ attempts \in [OrderKeys -> Seq(AttemptRows)]
  /\ call \in [Calls -> [step: {"claim", "mail", "record"}, key: OrderKeys,
                         row: Nat, outcome: Outcomes \cup {None}] \cup {None}]

Init ==
  /\ LedgerInit
  /\ confirmed = None
  /\ catalogsOK = TRUE
  /\ batches = [p \in Proposals |-> None]
  /\ attempts = [key \in OrderKeys |-> <<>>]
  /\ call = [c \in Calls |-> None]

-----------------------------------------------------------------------------
(* Preparing a batch, and what the producer answers.                       *)

\* state(): the reasons against ordering p.
Ready(p) == confirmed = p /\ catalogsOK /\ VerifiedCents >= Required

Prepare(p) ==
  /\ Ready(p) /\ batches[p] = None
  /\ batches' = [batches EXCEPT ![p] = <<>>]
  /\ UNCHANGED <<ledgerVars, confirmed, catalogsOK, attempts, call>>

\* event, with what it changes of the ledger.
SupplierEvent(key, kind, old) ==
  LET p == key[1]
      event == [kind |-> kind, group |-> key[2]] IN
  /\ batches[p] # None /\ Len(batches[p]) < MaxEvents
  /\ kind # "CONFIRMATION" =>
       \E n \in DOMAIN batches[p] : batches[p][n] = [event EXCEPT !.kind = "CONFIRMATION"]
  /\ batches' = [batches EXCEPT ![p] = Append(@, event)]
  /\ RecordOrderCost(key, kind, Len(batches[p]) + 1, old)
  /\ UNCHANGED <<confirmed, catalogsOK, attempts, call>>

-----------------------------------------------------------------------------
(* Mailing it.                                                             *)

BeginSend(c, key) ==
  /\ call[c] = None /\ batches[key[1]] # None
  /\ call' = [call EXCEPT ![c] = [step |-> "claim", key |-> key, row |-> 0,
                                  outcome |-> None]]
  /\ UNCHANGED <<ledgerVars, confirmed, catalogsOK, batches, attempts>>

\* Faulty: an outcome in doubt does not count against a second mail.
FreeUnlessAccepted(rows) == \A n \in DOMAIN rows : rows[n].status # "SMTP_ACCEPTED"

\* No attempt, or only failed ones.
Free(rows) == \A n \in DOMAIN rows : rows[n].status = "FAILED"

Claim(c) ==
  LET key == call[c].key IN
  /\ call[c] # None /\ call[c].step = "claim"
  /\ Len(attempts[key]) < MaxAttempts
  \* read again in the transaction
  /\ IF Ready(key[1]) /\ Free(attempts[key])
     THEN /\ attempts' = [attempts EXCEPT ![key] = Append(@,
               [status |-> "SENDING", reached |-> FALSE, backed |-> Ready(key[1])])]
          /\ call' = [call EXCEPT ![c].step = "mail", ![c].row = Len(attempts[key]) + 1]
     ELSE UNCHANGED attempts /\ call' = [call EXCEPT ![c] = None]
  /\ UNCHANGED <<ledgerVars, confirmed, catalogsOK, batches>>

\* The SMTP server takes the mail, rejects the address, cannot be reached, or
\* its answer is lost and the mail with it or not.
Mail(c, outcome, reached) ==
  /\ call[c] # None /\ call[c].step = "mail"
  /\ CASE outcome = "accepted" -> reached
       [] outcome = "lost" -> TRUE
       [] OTHER -> ~reached
  /\ attempts' = [attempts EXCEPT ![call[c].key][call[c].row].reached = reached]
  /\ call' = [call EXCEPT ![c].step = "record", ![c].outcome = outcome]
  /\ UNCHANGED <<ledgerVars, confirmed, catalogsOK, batches>>

StatusOf(outcome) ==
  CASE outcome = "accepted" -> "SMTP_ACCEPTED"
    [] outcome = "lost" -> "UNKNOWN"
    [] OTHER -> "FAILED"

RecordOutcome(c) ==
  /\ call[c] # None /\ call[c].step = "record"
  /\ attempts' = [attempts EXCEPT ![call[c].key][call[c].row].status =
                    StatusOf(call[c].outcome)]
  /\ call' = [call EXCEPT ![c] = None]
  /\ UNCHANGED <<ledgerVars, confirmed, catalogsOK, batches>>

-----------------------------------------------------------------------------
(* The rest of the system, and faults.                                     *)

\* A proposal is confirmed, or the agreement undone by a change.
AgreementChanges(p) ==
  /\ (confirmed = None) # (p = None)
  /\ confirmed' = p
  /\ UNCHANGED <<ledgerVars, catalogsOK, batches, attempts, call>>

\* A catalog of its products is deleted: its approval never comes back.
CatalogWithdrawn ==
  /\ catalogsOK
  /\ catalogsOK' = FALSE
  /\ UNCHANGED <<ledgerVars, confirmed, batches, attempts, call>>

\* The process stops, and the row stays as it is.
Crash ==
  /\ \E c \in Calls : call[c] # None
  /\ call' = [c \in Calls |-> None]
  /\ UNCHANGED <<ledgerVars, confirmed, catalogsOK, batches, attempts>>

SendStep(c) ==
  \/ \E key \in OrderKeys : BeginSend(c, key)
  \/ Claim(c)
  \/ \E outcome \in Outcomes, reached \in BOOLEAN : Mail(c, outcome, reached)
  \/ RecordOutcome(c)

Next ==
  \/ LedgerNext(confirmed # None) /\ UNCHANGED ordersVars
  \/ \E p \in Proposals : Prepare(p)
  \/ \E key \in OrderKeys, kind \in EventKinds, old \in {0} \cup DOMAIN entries :
       SupplierEvent(key, kind, old)
  \/ \E c \in Calls : SendStep(c)
  \/ \E p \in Proposals \cup {None} : AgreementChanges(p)
  \/ CatalogWithdrawn
  \/ Crash

Spec == Init /\ [][Next]_vars

-----------------------------------------------------------------------------
(* Properties.                                                             *)

\* Whatever two sends, lost answers and crashes do, a producer gets an order
\* at most once, and only for the confirmed proposal, with its catalogs
\* approved and the deposit verified when the order was made (send).
OrderedOnceAgreed ==
  \A key \in OrderKeys :
    /\ Cardinality({n \in DOMAIN attempts[key] : attempts[key][n].reached}) <= 1
    /\ \A n \in DOMAIN attempts[key] : attempts[key][n].backed

\* The latest event of a group of the given kind, 0 if none.
LastEvent(key, kind) ==
  Max({0} \cup {n \in DOMAIN batches[key[1]] :
                  batches[key[1]][n] = [kind |-> kind, group |-> key[2]]})

\* The cost that counts for an order is what its last invoice says, and before
\* any invoice what its last confirmation says, in whatever order they come
\* and whatever entry the seller had made before (event, recordOrderCost).
CostAsInvoiced ==
  \A key \in OrderKeys : batches[key[1]] # None =>
    LET invoice == LastEvent(key, "INVOICE")
        said == IF invoice # 0 THEN invoice ELSE LastEvent(key, "CONFIRMATION") IN
    {entries[i].event : i \in {j \in Active : entries[j].of = key}} = {said} \ {0}
=============================================================================
