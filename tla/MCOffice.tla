------------------------------ MODULE MCOffice ------------------------------
(* The back office of one case: orders and the ledger (two proposals, one  *)
(* producer, one work), the suppliers' documents on the costs of the work, *)
(* and the links of the customer.  These share no state but the ledger, so *)
(* a behaviour exercises one part.  Sends depend on the ledger   *)
(* by its cash alone, and the ledger does not depend on sends: each is     *)
(* explored while the other stays small, the ledger from a batch already   *)
(* prepared on a verified payment.                                         *)
EXTENDS Orders, PartDocuments, CustomerLinks, TLC

CONSTANTS p1, p2, g1, w1, c1, c2, e1, e2, o1, o2, d1, d2, d3

VARIABLE part

MCProposals == {p1, p2}
MCGroups == {g1}
MCOrderKeys == MCProposals \X MCGroups
MCCalls == {c1, c2}
MCPurchases == {w1} \X {o1, o2}
MCOriginals == {d1, d2, d3}
Interchangeable == Permutations(MCCalls) \cup Permutations({o1, o2}) \cup Permutations(MCOriginals)

Deposit == Entry("CASH_IN", "ACTUAL", 1, "seller", None)

Prepared ==
  /\ entries = <<Deposit>> /\ checks = <<"VERIFIED">>
  /\ confirmed = p1 /\ catalogsOK = TRUE
  /\ batches = [p \in Proposals |-> IF p = p1 THEN <<>> ELSE None]
  /\ attempts = [key \in OrderKeys |-> <<>>]
  /\ call = [c \in Calls |-> None]

MCInit ==
  /\ LinksInit /\ email = e1 /\ RecordsInit
  /\ \/ part = "orders" /\ (Init \/ Prepared)
     \/ part = "documents" /\ Prepared
     \/ part = "links" /\ Init

\* Of the ledger, documents depend on the costs of the work alone.
CostsOnly ==
  /\ \/ \E spent \in [WorkKinds -> Amounts] : RecordWorkCosts(w1, [k \in WorkKinds |-> 0], spent)
     \/ \E status \in {"VERIFIED", "REVOKED"} : CheckPayment(1, status)
  /\ UNCHANGED records

MCNext ==
  \/ part = "orders" /\ Next /\ UNCHANGED <<linksVars, records, part>>
  \/ part = "documents" /\ (RecordsNext \/ CostsOnly) /\ UNCHANGED <<ordersVars, linksVars, part>>
  \/ part = "links" /\ LinksNext /\ UNCHANGED <<vars, records, part>>

MCSpec == MCInit /\ [][MCNext]_<<vars, linksVars, records, part>>

SendsOnly ==
  /\ Len(entries) <= 1
  /\ \A i \in DOMAIN entries : entries[i].kind \in CashKinds /\ entries[i].by = "seller"
  /\ \A p \in Proposals : batches[p] \in {None, <<>>}

LedgerOnly ==
  /\ confirmed = p1 /\ catalogsOK /\ batches[p1] # None /\ batches[p2] = None
  /\ \A i \in DOMAIN checks : checks[i] = IF i = 1 THEN "VERIFIED" ELSE "NONE"
  /\ \A key \in OrderKeys : attempts[key] = <<>>
  /\ \A c \in Calls : call[c] = None
  /\ batches[p1] # <<>> => \A i \in DOMAIN entries : i > 1 => entries[i].kind = "SUPPLIER"
  /\ IF part = "documents"
     THEN /\ Len(entries) <= 3
          /\ Cardinality({n \in DOMAIN records : records[n].kind = "OTHER"}) <= 1
     ELSE \A i \in DOMAIN entries : entries[i].by = "work" => entries[i].amount = 0

\* An offer is mailed before the work is delivered, support follows.
OneLink ==
  \/ ~delivered /\ accesses = <<>> /\ email = e1
  \/ linkOpen /\ ~agreed /\ offers = <<>> /\ ~\E c \in Calls :
       request[c] # Nothing /\ request[c].for = "offer"

\* Invitations are mailed, or tickets written.
InviteOrWrite ==
  \/ tickets = <<>>
  \/ \A a \in DOMAIN accesses : accesses[a].mail = "NOT_SENT"

Focused == ((part # "documents" /\ SendsOnly) \/ LedgerOnly) /\ OneLink /\ InviteOrWrite
=============================================================================
