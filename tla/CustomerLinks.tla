--------------------------- MODULE CustomerLinks ----------------------------
(***************************************************************************)
(* The two links a customer gets by mail: the offer's, mailed with its PDF *)
(* (ProposalDeliveriesService), and the support's, whose holder opens      *)
(* tickets and replies to them (CaseSupportService).                       *)
(*                                                                         *)
(* A request checks its link first and writes in a transaction later; a    *)
(* mail is claimed, sent and recorded in three steps.  The offer's link    *)
(* and the agreement change as Negotiation has it, the customer's address  *)
(* and the delivery as Products and Scheduling have it; notices are only   *)
(* queued here, SupportOutbox mails them.  Texts are left out, and so is a *)
(* page gone stale or a request key found again: a step not taken.         *)
(***************************************************************************)
EXTENDS Naturals, Sequences, FiniteSets

CONSTANTS
  Requests,    \* requests served at the same time
  Emails,      \* addresses of the customer
  MaxPhotos,   \* photos of a ticket (12)
  MaxTickets,  \* tickets of a case (100)
  MaxOffers, MaxAccesses, MaxRevision,   \* bounds
  Nothing

MailStatuses == {"SENDING", "SMTP_ACCEPTED", "FAILED", "UNKNOWN"}

\* `recent': created less than 120 seconds ago; `honoured', here and below:
\* history, the link was in force when the row was made.
OfferRows == [status: MailStatuses, recent: BOOLEAN, honoured: BOOLEAN]

\* `invited': how often its mail reached the customer.
AccessRows == [email: Emails, live: BOOLEAN, expired: BOOLEAN,
               mail: MailStatuses \cup {"NOT_SENT"}, invited: Nat]

TicketStatuses == {"OPEN", "IN_PROGRESS", "WAITING_CUSTOMER", "RESOLVED", "CLOSED"}
TicketRows == [status: TicketStatuses, revision: 0..MaxRevision, photos: 0..MaxPhotos]

NoticeRows == [kind: {"NEW_TICKET", "CUSTOMER_REPLY", "CLIENT_UPDATE"},
               ticket: Nat, revision: 0..MaxRevision, honoured: BOOLEAN]

RequestRows == [step: {"write", "mail", "record"},
             for: {"offer", "invite", "ticket", "reply"},
             row: Nat, ticket: Nat, outcome: MailStatuses \cup {Nothing}]

ASSUME CustomerLinksAssumption ==
  /\ {MaxPhotos, MaxTickets, MaxOffers, MaxAccesses, MaxRevision} \subseteq Nat
  /\ Nothing \notin RequestRows \cup MailStatuses

VARIABLES
  linkOpen,   \* the offer's link is in force, and its proposal unanswered
  agreed,     \* a proposal of the case is accepted or confirmed
  offers,     \* the ProposalDelivery rows of the revision, by age
  email,      \* the customer's address
  delivered,  \* deliveredAt is set
  accesses,   \* the SupportAccess rows, by age
  tickets,    \* the SupportTicket rows, by age
  notices,    \* the SupportNotification rows queued, by age
  request     \* the requests under way

linksVars == <<linkOpen, agreed, offers, email, delivered, accesses, tickets, notices, request>>

LinksTypeOK ==
  /\ {linkOpen, agreed, delivered} \subseteq BOOLEAN
  /\ offers \in Seq(OfferRows)
  /\ email \in Emails
  /\ accesses \in Seq(AccessRows)
  /\ tickets \in Seq(TicketRows)
  /\ notices \in Seq(NoticeRows)
  /\ request \in [Requests -> RequestRows \cup {Nothing}]

LinksInit ==
  /\ linkOpen = TRUE /\ agreed = FALSE
  /\ offers = <<>>
  /\ email \in Emails /\ delivered = FALSE
  /\ accesses = <<>> /\ tickets = <<>> /\ notices = <<>>
  /\ request = [c \in Requests |-> Nothing]

At(c, step, for) == request[c] # Nothing /\ request[c].step = step /\ request[c].for = for

BeginRequest(c, for, row, ticket) ==
  /\ request[c] = Nothing
  /\ request' = [request EXCEPT ![c] = [step |-> "write", for |-> for, row |-> row,
                                  ticket |-> ticket, outcome |-> Nothing]]

EndRequest(c) == request' = [request EXCEPT ![c] = Nothing]

-----------------------------------------------------------------------------
(* Mailing an offer.                                                       *)

\* prepare, before the transaction.
PrepareOffer(c) ==
  /\ linkOpen
  /\ BeginRequest(c, "offer", 0, 0)
  /\ UNCHANGED <<linkOpen, agreed, offers, email, delivered, accesses, tickets, notices>>

UnderWay(row) == row.status = "SENDING" /\ row.recent

Sendable == ~agreed /\ linkOpen /\ ~\E n \in DOMAIN offers : UnderWay(offers[n])

ClaimOffer(c) ==
  /\ At(c, "write", "offer") /\ Len(offers) < MaxOffers
  /\ IF Sendable
     THEN /\ offers' = Append(offers, [status |-> "SENDING", recent |-> TRUE,
                                       honoured |-> linkOpen /\ ~agreed])
          /\ request' = [request EXCEPT ![c].step = "mail", ![c].row = Len(offers) + 1]
     ELSE UNCHANGED offers /\ EndRequest(c)
  /\ UNCHANGED <<linkOpen, agreed, email, delivered, accesses, tickets, notices>>

-----------------------------------------------------------------------------
(* The support's link.                                                     *)

\* createAccess: every other access of the case is withdrawn.
CreateAccess ==
  /\ delivered /\ Len(accesses) < MaxAccesses
  /\ accesses' = Append([a \in DOMAIN accesses |-> [accesses[a] EXCEPT !.live = FALSE]],
       [email |-> email, live |-> TRUE, expired |-> FALSE, mail |-> "NOT_SENT",
        invited |-> 0])
  /\ UNCHANGED <<linkOpen, agreed, offers, email, delivered, tickets, notices, request>>

Revoke(a) ==
  /\ accesses' = [accesses EXCEPT ![a].live = FALSE]
  /\ UNCHANGED <<linkOpen, agreed, offers, email, delivered, tickets, notices, request>>

\* access(token): in force, for the address the customer now has.
InForce(a) ==
  accesses[a].live /\ ~accesses[a].expired /\ delivered /\ accesses[a].email = email

\* A request with the link of access a.
UseAccess(c, for, a, ticket) ==
  /\ InForce(a)
  /\ BeginRequest(c, for, a, ticket)
  /\ UNCHANGED <<linkOpen, agreed, offers, email, delivered, accesses, tickets, notices>>

Uninvited(row) == row.mail \in {"NOT_SENT", "FAILED"}

\* invite: the access may have lost its force but by withdrawal.
ClaimInvite(c) ==
  LET a == request[c].row IN
  /\ At(c, "write", "invite")
  /\ IF accesses[a].live /\ Uninvited(accesses[a])
     THEN /\ accesses' = [accesses EXCEPT ![a].mail = "SENDING"]
          /\ request' = [request EXCEPT ![c].step = "mail"]
     ELSE UNCHANGED accesses /\ EndRequest(c)
  /\ UNCHANGED <<linkOpen, agreed, offers, email, delivered, tickets, notices>>

-----------------------------------------------------------------------------
(* The mail of either, and its outcome.                                    *)

\* With no answer, or with an unknown error, it may have arrived.
MailLink(c, outcome, reached) ==
  /\ request[c] # Nothing /\ request[c].step = "mail"
  /\ CASE outcome = "SMTP_ACCEPTED" -> reached
       [] outcome = "FAILED" -> ~reached
       [] OTHER -> TRUE
  /\ accesses' = IF request[c].for = "invite" /\ reached
                 THEN [accesses EXCEPT ![request[c].row].invited = @ + 1] ELSE accesses
  /\ request' = [request EXCEPT ![c].step = "record", ![c].outcome = outcome]
  /\ UNCHANGED <<linkOpen, agreed, offers, email, delivered, tickets, notices>>

RecordMail(c) ==
  /\ request[c] # Nothing /\ request[c].step = "record"
  /\ IF request[c].for = "offer"
     THEN /\ offers' = [offers EXCEPT ![request[c].row].status = request[c].outcome]
          /\ UNCHANGED accesses
     ELSE /\ accesses' = [accesses EXCEPT ![request[c].row].mail = request[c].outcome]
          /\ UNCHANGED offers
  /\ EndRequest(c)
  /\ UNCHANGED <<linkOpen, agreed, email, delivered, tickets, notices>>

-----------------------------------------------------------------------------
(* Tickets.                                                                *)

\* enqueueSupportNotification, in the same transaction.
Enqueue(kind, ticket, revision, honoured) ==
  notices' = Append(notices, [kind |-> kind, ticket |-> ticket,
                              revision |-> revision, honoured |-> honoured])

\* Faulty: the delivery and the address were checked before the transaction.
StillLive(a) == accesses[a].live /\ ~accesses[a].expired

\* Checked again in the transaction.
StillInForce(a) == InForce(a)

\* createTicket's transaction.
OpenTicket(c, photos) ==
  LET a == request[c].row IN
  /\ At(c, "write", "ticket")
  /\ IF StillInForce(a) /\ Len(tickets) < MaxTickets
     THEN /\ tickets' = Append(tickets, [status |-> "OPEN", revision |-> 0,
                                         photos |-> photos])
          /\ Enqueue("NEW_TICKET", Len(tickets) + 1, 0, InForce(a))
     ELSE UNCHANGED <<tickets, notices>>
  /\ EndRequest(c)
  /\ UNCHANGED <<linkOpen, agreed, offers, email, delivered, accesses>>

\* A customer's reply opens again what waited for it or was closed.
Reopened(status) ==
  IF status \in {"WAITING_CUSTOMER", "RESOLVED", "CLOSED"} THEN "OPEN" ELSE status

\* mutate, by the customer: with too many photos nothing is written.
Reply(c, photos) ==
  LET a == request[c].row
      t == request[c].ticket IN
  /\ At(c, "write", "reply")
  /\ tickets[t].revision < MaxRevision
  /\ IF StillInForce(a) /\ tickets[t].photos + photos <= MaxPhotos
     THEN /\ tickets' = [tickets EXCEPT ![t] =
               [status |-> Reopened(tickets[t].status),
                revision |-> tickets[t].revision + 1,
                photos |-> tickets[t].photos + photos]]
          /\ Enqueue("CUSTOMER_REPLY", t, tickets[t].revision + 1, InForce(a))
     ELSE UNCHANGED <<tickets, notices>>
  /\ EndRequest(c)
  /\ UNCHANGED <<linkOpen, agreed, offers, email, delivered, accesses>>

\* mutate, by the seller: a note alone is not told.
UpdateTicket(t, status, message) ==
  /\ tickets[t].revision < MaxRevision
  /\ tickets' = [tickets EXCEPT ![t].status = status,
                                ![t].revision = tickets[t].revision + 1]
  /\ IF message \/ status # tickets[t].status
     THEN Enqueue("CLIENT_UPDATE", t, tickets[t].revision + 1, TRUE)
     ELSE UNCHANGED notices
  /\ UNCHANGED <<linkOpen, agreed, offers, email, delivered, accesses, request>>

-----------------------------------------------------------------------------
(* The rest of the system, time and faults.                                *)

\* The link is withdrawn, runs out or is answered.
LinkCloses ==
  /\ linkOpen
  /\ linkOpen' = FALSE
  /\ UNCHANGED <<agreed, offers, email, delivered, accesses, tickets, notices, request>>

\* A proposal of the case is accepted, or the agreement undone.
AgreementMoves ==
  /\ agreed' = ~agreed
  /\ UNCHANGED <<linkOpen, offers, email, delivered, accesses, tickets, notices, request>>

CustomerChanges(e) ==
  /\ email' = e
  /\ UNCHANGED <<linkOpen, agreed, offers, delivered, accesses, tickets, notices, request>>

DeliveryChanges ==
  /\ delivered' = ~delivered
  /\ UNCHANGED <<linkOpen, agreed, offers, email, accesses, tickets, notices, request>>

\* 120 seconds pass, or a month.
TimePasses ==
  \/ /\ \E n \in DOMAIN offers : offers[n].recent
     /\ offers' = [n \in DOMAIN offers |-> [offers[n] EXCEPT !.recent = FALSE]]
     /\ UNCHANGED <<linkOpen, agreed, email, delivered, accesses, tickets, notices, request>>
  \/ \E a \in DOMAIN accesses :
     /\ ~accesses[a].expired
     /\ accesses' = [accesses EXCEPT ![a].expired = TRUE]
     /\ UNCHANGED <<linkOpen, agreed, offers, email, delivered, tickets, notices, request>>

\* A statement fails or the process stops: the row stays as it is.
RequestFails(c) ==
  /\ request[c] # Nothing
  /\ EndRequest(c)
  /\ UNCHANGED <<linkOpen, agreed, offers, email, delivered, accesses, tickets, notices>>

RequestStep(c) ==
  \/ PrepareOffer(c) \/ ClaimOffer(c) \/ ClaimInvite(c)
  \/ \E a \in DOMAIN accesses :
       \/ \E for \in {"invite", "ticket"} : UseAccess(c, for, a, 0)
       \/ \E t \in DOMAIN tickets : UseAccess(c, "reply", a, t)
  \/ \E outcome \in MailStatuses \ {"SENDING"}, reached \in BOOLEAN :
       MailLink(c, outcome, reached)
  \/ RecordMail(c)
  \/ \E photos \in 0..MaxPhotos : OpenTicket(c, photos) \/ Reply(c, photos)
  \/ RequestFails(c)

LinksNext ==
  \/ \E c \in Requests : RequestStep(c)
  \/ CreateAccess
  \/ \E a \in DOMAIN accesses : Revoke(a)
  \/ \E t \in DOMAIN tickets, status \in TicketStatuses, message \in BOOLEAN :
       UpdateTicket(t, status, message)
  \/ LinkCloses \/ AgreementMoves
  \/ \E e \in Emails : CustomerChanges(e)
  \/ DeliveryChanges
  \/ TimePasses

LinksSpec == LinksInit /\ [][LinksNext]_linksVars

-----------------------------------------------------------------------------
(* Properties.                                                             *)

\* Whatever is withdrawn, changed or lost between the check of a link and the
\* write: an offer is mailed and a ticket written only on a link in force, one
\* support link is in force at most, and its invitation arrives at most once
\* (send, createAccess, invite, createTicket, mutate).
LinksHonoured ==
  /\ \A n \in DOMAIN offers : offers[n].honoured
  /\ \A n \in DOMAIN notices : notices[n].honoured
  /\ \A a, b \in DOMAIN accesses : accesses[a].live /\ accesses[b].live => a = b
  /\ \A a \in DOMAIN accesses : accesses[a].invited <= 1
=============================================================================
