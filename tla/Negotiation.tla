---------------------------- MODULE Negotiation -----------------------------
(***************************************************************************)
(* The negotiation of one case: the seller invites the customer to a       *)
(* proposal by a link, the customer accepts through the link, the seller   *)
(* confirms or rejects (ProposalInvitationsService), while other pages of  *)
(* the seller go on editing the case (module Products).                    *)
(*                                                                         *)
(* An acceptance is two steps: the checks `accept' makes before its        *)
(* transaction, and the transaction, which may commit any time later and,  *)
(* the request being delivered again, more than once.                      *)
(***************************************************************************)
EXTENDS Products

CONSTANT Invitations    \* identifiers of ProposalInvitation rows

InvitationRows == [proposal: Proposals, revoked: BOOLEAN, expired: BOOLEAN,
                   accepted: BOOLEAN, confirmed: BOOLEAN, rejected: BOOLEAN]

\* What the customer reads of a proposal and accepts.
Terms == [number: Nat, snapshot: Snapshots]

ASSUME NegotiationAssumption ==
  /\ None \notin InvitationRows
  /\ None \notin Terms

NoticeKinds == {"CLIENT_ACCEPTED", "CLIENT_ACCEPTANCE_RECEIPT",
                "SELLER_CONFIRMED", "SELLER_REJECTED"}

VARIABLES
  invitation,   \* the ProposalInvitation rows of the case
  accepting,    \* links with an acceptance past its first checks
  notices       \* the CaseNotification rows: <<invitation, kind>>

linkVars == <<invitation, accepting, notices>>
vars == <<project, items, proposals, activities, request,
          invitation, accepting, notices>>

TypeOK ==
  /\ ProductsTypeOK
  /\ invitation \in [Invitations -> InvitationRows \cup {None}]
  /\ accepting \subseteq Invitations
  /\ notices \subseteq Invitations \X NoticeKinds

Init ==
  /\ ProductsInit
  /\ invitation = [l \in Invitations |-> None]
  /\ accepting = {}
  /\ notices = {}

-----------------------------------------------------------------------------

Sent(l) == invitation[l] # None

\* The customer has neither used the link nor has it been withdrawn.
Live(l) == Sent(l) /\ ~invitation[l].revoked /\ ~invitation[l].accepted

\* Faulty: the customer's receipt is forgotten.
EnqueuedToSeller(l, kinds) ==
  notices \cup ({l} \X (kinds \ {"CLIENT_ACCEPTANCE_RECEIPT"}))

\* CaseNotificationsService.enqueue: an upsert keyed by invitation and kind.
Enqueued(l, kinds) == notices \cup ({l} \X kinds)

\* Faulty: links sent before are left alone.
NoneWithdrawn == invitation

\* Every link of the case not used yet is withdrawn.
AllWithdrawn ==
  [l \in Invitations |-> IF Live(l) THEN [invitation[l] EXCEPT !.revoked = TRUE]
                                    ELSE invitation[l]]

\* create: a new link to a proposal of the case that is still valid.
Invite(l, p) ==
  /\ Unlocked
  /\ proposals[p] # None
  /\ ~proposals[p].lapsed
  /\ invitation[l] = None
  /\ invitation' = [AllWithdrawn EXCEPT ![l] =
       [proposal |-> p, revoked |-> FALSE, expired |-> FALSE,
        accepted |-> FALSE, confirmed |-> FALSE, rejected |-> FALSE]]
  /\ UNCHANGED <<project, accepting, notices>>

\* lookup: the link opens.
Opens(l) == Sent(l) /\ ~invitation[l].revoked /\ ~invitation[l].expired

\* accept, up to its transaction; the e-mail address and the e-mailed code it
\* also checks are module OfferEmailCode's.
CheckAcceptance(l) ==
  /\ Opens(l)
  /\ ~invitation[l].rejected
  /\ ~invitation[l].accepted
  /\ ~proposals[invitation[l].proposal].lapsed
  /\ accepting' = accepting \cup {l}
  /\ UNCHANGED <<project, invitation, notices>>

\* Faulty: the withdrawal is only looked at before the transaction.
StillOpenBefore(l) == ~invitation[l].accepted /\ ~invitation[l].rejected
                      /\ ~invitation[l].expired

\* The invitation row the transaction updates, matched again in its WHERE.
StillOpen(l) == /\ ~invitation[l].revoked
                /\ ~invitation[l].accepted
                /\ ~invitation[l].rejected
                /\ ~invitation[l].expired

\* accept's transaction: the case row first, then the invitation row; when
\* either matches no row the whole transaction is rolled back.
Accept(l) ==
  /\ l \in accepting
  /\ Sent(l)
  /\ Unlocked
  /\ StillOpen(l)
  /\ project' = [project EXCEPT !.accepted = invitation[l].proposal]
  /\ invitation' = [invitation EXCEPT ![l].accepted = TRUE]
  /\ notices' = Enqueued(l, {"CLIENT_ACCEPTED", "CLIENT_ACCEPTANCE_RECEIPT"})
  /\ UNCHANGED accepting

\* revoke: one conditional update.
Revoke(l) ==
  /\ Live(l)
  /\ invitation' = [invitation EXCEPT ![l].revoked = TRUE]
  /\ UNCHANGED <<project, accepting, notices>>

\* Faulty: a decision can be taken again.
DecidableAgain(l) ==
  /\ Sent(l)
  /\ invitation[l].accepted
  /\ ~invitation[l].revoked
  /\ project.accepted = invitation[l].proposal

\* decide, up to the point where it looks at the decision: only an accepted
\* invitation, not decided before, of the proposal the case has accepted.
Decidable(l) ==
  /\ Sent(l)
  /\ invitation[l].accepted
  /\ ~invitation[l].revoked
  /\ ~invitation[l].confirmed
  /\ ~invitation[l].rejected
  /\ project.accepted = invitation[l].proposal
  /\ project.confirmed = None

Confirm(l) ==
  /\ Decidable(l)
  /\ project' = [project EXCEPT !.confirmed = invitation[l].proposal]
  /\ invitation' = [invitation EXCEPT ![l].confirmed = TRUE]
  /\ notices' = Enqueued(l, {"SELLER_CONFIRMED"})
  /\ UNCHANGED accepting

Reject(l) ==
  /\ Decidable(l)
  /\ project' = [project EXCEPT !.accepted = None]
  /\ invitation' = [invitation EXCEPT ![l].rejected = TRUE]
  /\ notices' = Enqueued(l, {"SELLER_REJECTED"})
  /\ UNCHANGED accepting

\* Thirty days pass; on a link already used or withdrawn nothing depends on it.
Expire(l) ==
  /\ Live(l)
  /\ ~invitation[l].expired
  /\ invitation' = [invitation EXCEPT ![l].expired = TRUE]
  /\ UNCHANGED <<project, accepting, notices>>

LinkNext ==
  \/ \E l \in Invitations, p \in Proposals : Invite(l, p)
  \/ \E l \in Invitations : CheckAcceptance(l)
  \/ \E l \in Invitations : Accept(l)
  \/ \E l \in Invitations : Revoke(l)
  \/ \E l \in Invitations : Confirm(l)
  \/ \E l \in Invitations : Reject(l)
  \/ \E l \in Invitations : Expire(l)

Next ==
  \/ ProductsNext /\ UNCHANGED linkVars
  \/ LinkNext /\ UNCHANGED <<items, proposals, activities, request>>

Spec == Init /\ [][Next]_vars

-----------------------------------------------------------------------------
(* Properties of the products and the proposals.                           *)

\* A submission changes the case at most once, however often it is delivered
\* and however its deliveries interleave with other pages.
AtMostOnce ==
  project.financeRevision <= Cardinality({r \in Requests : request[r] # None})

\* A picture kept on a product shows the product as it is configured now,
\* although a picture is rendered by a page and merged into a row read before
\* the transaction (CaseMediaService.save, CasesService.updateItem).
PicturesMatch ==
  \A i \in Items : items[i] # None =>
    \A k \in Kinds : items[i].pictures[k] \in {None, items[i].config}

\* A proposal freezes exactly what the page of the seller who issued it was
\* showing: no concurrent edit slips into an offer nobody reviewed.
ProposalAsReviewed ==
  [][\A p \in Proposals : proposals[p] = None /\ proposals'[p] # None =>
       LET page == request[proposals'[p].requestKey].seen
       IN  proposals'[p].snapshot = [items  |-> Listed(page.items),
                                     client |-> page.client]]_vars

\* A product row, or the customer's data, is only overwritten by a page that
\* was showing its current contents: no edit is lost to a stale form.
RowsOverwrittenAsSeen ==
  \A i \in Items : items[i] # None /\ items'[i] # items[i] =>
    \E r \in Requests : /\ request[r] # None
                        /\ request[r].seen.items[i] = items[i]
ClientOverwrittenAsSeen ==
  project'.client # project.client =>
    \E r \in Requests : /\ request[r] # None
                        /\ request[r].seen.client = project.client
                        /\ request[r].seen.items = items
NoLostUpdate == [][RowsOverwrittenAsSeen /\ ClientOverwrittenAsSeen]_vars

\* What is for sale: which products, how configured.
Goods == [Items -> [config: Configs, archived: BOOLEAN] \cup {None}]
OnSale == [i \in Items |->
             IF items[i] = None THEN None
             ELSE [config |-> items[i].config, archived |-> items[i].archived]]

\* "All costs are entered" is declared on the products the declaring page
\* showed and never outlives a change of the products.
CostsDeclaredAsSeen ==
  project'.costsComplete =>
    IF project.costsComplete THEN OnSale' = OnSale
    ELSE \E r \in Requests : request[r] # None /\ request[r].seen.items = items
CostsDeclarationCurrent == [][CostsDeclaredAsSeen]_vars

-----------------------------------------------------------------------------
(* Properties of the agreement.                                            *)

\* The customer holds at most one usable link per case (create withdraws the
\* others in its transaction).
OneLiveLink ==
  \A l, m \in Invitations : Live(l) /\ Live(m) => l = m

\* A link withdrawn before its acceptance commits never agrees anything,
\* even if accept's first checks came before the withdrawal.
WithdrawnNeverAccepted ==
  \A l \in Invitations : Sent(l) => ~(invitation[l].revoked /\ invitation[l].accepted)

\* The link on which the agreement in force was made.
Standing(l) == Sent(l) /\ invitation[l].accepted /\ ~invitation[l].rejected

\* The case row and the invitation rows, written separately in the same
\* transactions, tell the same story: one standing acceptance when an offer
\* is accepted and none otherwise, confirmed on both sides or on neither.
AgreementBacked ==
  /\ \A l, m \in Invitations : Standing(l) /\ Standing(m) => l = m
  /\ project.accepted # None <=> \E l \in Invitations : Standing(l)
  /\ \A l \in Invitations : Standing(l) =>
       /\ project.accepted = invitation[l].proposal
       /\ project.confirmed =
            IF invitation[l].confirmed THEN invitation[l].proposal ELSE None
  /\ project.confirmed # None => project.confirmed = project.accepted

\* Customer and dealer are told exactly the outcomes that were recorded: a
\* notice neither gets lost nor survives a transaction rolled back.
NoticesMatchOutcomes ==
  \A l \in Invitations :
    /\ <<l, "CLIENT_ACCEPTED">> \in notices <=> Sent(l) /\ invitation[l].accepted
    /\ <<l, "CLIENT_ACCEPTANCE_RECEIPT">> \in notices <=>
         Sent(l) /\ invitation[l].accepted
    /\ <<l, "SELLER_CONFIRMED">> \in notices <=> Sent(l) /\ invitation[l].confirmed
    /\ <<l, "SELLER_REJECTED">> \in notices <=> Sent(l) /\ invitation[l].rejected

\* The agreement the parties see: the offers made, the products, the offer
\* asked for and whether the dealer closed the deal.
TermsOf(p) == [number |-> proposals[p].number, snapshot |-> proposals[p].snapshot]
Deal == INSTANCE Agreement WITH
  Nothing <- None,
  offered <- {TermsOf(p) : p \in {q \in Proposals : proposals[q] # None}},
  goods   <- OnSale,
  asked   <- IF project.accepted = None THEN None ELSE TermsOf(project.accepted),
  closed  <- project.confirmed # None

\* The rows implement the agreement: offers are made and products change only
\* while nothing is accepted, an acceptance is of an offer that was made, a
\* confirmed deal is final.
ImplementsAgreement == Deal!AgreementSpec
=============================================================================
