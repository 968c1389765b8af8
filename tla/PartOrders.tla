----------------------------- MODULE PartOrders -----------------------------
(***************************************************************************)
(* The orders of spare parts for the works of the support                  *)
(* (SupportPartOrderService) and their e-mails                             *)
(* (SupportPartOrderMailService): what is needed, ordered, arrived and     *)
(* sent back, and which orders a supplier may have received.               *)
(*                                                                         *)
(* A process knows the mails it is sending (its `active' set).  The mails  *)
(* of another process that has not answered for five minutes are given up  *)
(* as UNKNOWN; the seller finds out by phone what became of them, and the  *)
(* answer may still come.  An order is of one kind of part.                *)
(***************************************************************************)
EXTENDS SupportWork, NoticeMail, FiniteSetsExt

CONSTANTS
  Processes,    \* the processes that serve the database
  MaxQuotes,    \* bound: quotes of a work
  MaxOrders,    \* bound: orders of a work
  MaxMails      \* bound: mails of all orders of a work

OrderStatuses == {"DRAFT", "SENT", "CANCELLED"}

OrderRows == [status: OrderStatuses, scope: Scopes, quantity: Nat,
              received: Nat, returned: Nat]

\* A SupportPartOrderDelivery of the `order' with that number.  `sender' is the
\* process that has it in `active', `left' that the server took it, `outcome'
\* the answer not yet recorded.
MailRows == [order: Nat, status: Outcomes \cup {"SENDING"},
             resolution: {"RECEIVED", "NOT_RECEIVED", None},
             sender: Processes \cup {None}, left: BOOLEAN,
             outcome: Outcomes \cup {None}]

ASSUME PartOrdersAssumption ==
  /\ {MaxQuotes, MaxOrders, MaxMails} \subseteq Nat
  /\ None \notin Processes
  /\ None \notin Outcomes \cup {"RECEIVED", "NOT_RECEIVED"}

VARIABLE mails  \* the SupportPartOrderDelivery rows of each work

vars == <<work, quotes, billed, orders, plan, page, mails>>

TypeOK ==
  /\ WorkTypeOK
  /\ orders \in [Works -> Seq(OrderRows)]
  /\ plan \in [Cases -> {None}]
  /\ mails \in [Works -> Seq(MailRows)]

Init ==
  /\ WorkInit
  /\ orders = [w \in Works |-> <<>>]
  /\ plan = [c \in Cases |-> None]
  /\ mails = [w \in Works |-> <<>>]

-----------------------------------------------------------------------------
(* Orders.                                                                 *)

OrderedQuantity(w) ==
  SumFunctionOnSet([i \in DOMAIN orders[w] |-> orders[w][i].quantity],
                   {i \in DOMAIN orders[w] : Active(orders[w][i])})

Needed(w, quantity) == OrderedQuantity(w) + quantity <= work[w].scope.required

\* What is bought for the customer's money is bought on an accepted quote.
Purchasable(w) ==
  /\ work[w].status \notin {"COMPLETED", "CANCELLED"}
  /\ work[w].scope.coverage \in {"CHARGEABLE", "WARRANTY"}
  /\ work[w].scope.coverage = "CHARGEABLE" => AcceptedFor(w, work[w].scope)

CreateOrder(w, quantity) ==
  /\ Exists(w)
  /\ Purchasable(w)
  /\ Needed(w, quantity)
  /\ orders' = [orders EXCEPT ![w] = Append(orders[w],
       [status |-> "DRAFT", scope |-> work[w].scope, quantity |-> quantity,
        received |-> 0, returned |-> 0])]
  /\ UNCHANGED <<work, quotes, billed, plan, page, mails>>

MailsOf(w, n) == {mails[w][m] : m \in {k \in DOMAIN mails[w] : mails[w][k].order = n}}

\* Nobody knows yet what became of the mail.
Undecided(mail) == \/ mail.status = "SENDING"
                   \/ mail.status = "UNKNOWN" /\ mail.resolution = None

\* Faulty: mails are not looked at.
MayRecordAtOnce(w, n) == orders[w][n].status # "CANCELLED"

\* The checks that event makes of every kind.
MayRecord(w, n) ==
  /\ orders[w][n].status # "CANCELLED"
  /\ \A mail \in MailsOf(w, n) : ~Undecided(mail)

StatusAfter(order, kind) ==
  IF kind \in {"SENT", "CANCELLED"} THEN kind ELSE order.status

\* event; a CONFIRMATION leaves nothing but the event.
Event(w, n, kind, received, returned) ==
  /\ MayRecord(w, n)
  /\ orders' = [orders EXCEPT ![w][n] =
       [orders[w][n] EXCEPT !.status = StatusAfter(orders[w][n], kind),
                            !.received = received, !.returned = returned]]
  /\ UNCHANGED <<work, quotes, billed, plan, page, mails>>

SentByHand(w, n) ==
  LET o == orders[w][n] IN
  o.status = "DRAFT" /\ Event(w, n, "SENT", o.received, o.returned)

\* Totals so far; fewer than before is a correction the seller confirms.
Receipt(w, n, total) ==
  LET o == orders[w][n] IN
  /\ o.status = "SENT"
  /\ total \in o.returned .. o.quantity
  /\ Event(w, n, "RECEIPT", total, o.returned)

Return(w, n, total) ==
  LET o == orders[w][n] IN
  /\ o.status = "SENT"
  /\ total <= o.received
  /\ Event(w, n, "RETURN", o.received, total)

CancelOrder(w, n) ==
  LET o == orders[w][n] IN
  /\ o.received <= o.returned
  /\ Event(w, n, "CANCELLED", o.received, o.returned)

-----------------------------------------------------------------------------
(* E-mails of the orders.                                                  *)

\* Faulty: only mails under way or accepted block the next.
BlocksUnlessUnknown(mail) == mail.status \in {"SMTP_ACCEPTED", "SENDING"}

\* blocksPartOrderMail
Blocks(mail) == \/ mail.status \in {"SMTP_ACCEPTED", "SENDING"}
                \/ mail.status = "UNKNOWN" /\ mail.resolution # "NOT_RECEIVED"

\* send, up to the claim: the preview is made again and is what the seller saw.
Send(w, n, p) ==
  /\ Exists(w)
  /\ orders[w][n].status = "DRAFT"
  /\ \A mail \in MailsOf(w, n) : ~Blocks(mail)
  /\ Purchasable(w)
  /\ orders[w][n].scope = work[w].scope
  /\ mails' = [mails EXCEPT ![w] = Append(mails[w],
       [order |-> n, status |-> "SENDING", resolution |-> None, sender |-> p,
        left |-> FALSE, outcome |-> None])]
  /\ UNCHANGED <<work, quotes, billed, orders, plan, page>>

Waiting(mail) == mail.sender # None /\ mail.outcome = None

\* The SMTP server takes the mail.
Deliver(w, m) ==
  /\ Waiting(mails[w][m])
  /\ ~mails[w][m].left
  /\ mails' = [mails EXCEPT ![w][m].left = TRUE]
  /\ UNCHANGED <<work, quotes, billed, orders, plan, page>>

\* It answers, or does not: refusals are sure, silence may mean anything.
Answer(w, m, outcome) ==
  /\ Waiting(mails[w][m])
  /\ outcome = "SMTP_ACCEPTED" => mails[w][m].left
  /\ outcome = "FAILED" => ~mails[w][m].left
  /\ mails' = [mails EXCEPT ![w][m].outcome = outcome]
  /\ UNCHANGED <<work, quotes, billed, orders, plan, page>>

\* Faulty: the mail makes the order SENT whatever became of it meanwhile.
SentByAnyMail(order, outcome) ==
  IF outcome = "SMTP_ACCEPTED" THEN [order EXCEPT !.status = "SENT"] ELSE order

SentByMail(order, outcome) ==
  IF outcome = "SMTP_ACCEPTED" /\ order.status = "DRAFT"
  THEN [order EXCEPT !.status = "SENT"] ELSE order

\* The outcome is recorded, even of a mail given up or resolved meanwhile.
Record(w, m) ==
  LET mail == mails[w][m] IN
  /\ mail.outcome # None
  /\ mails' = [mails EXCEPT ![w][m] = [mail EXCEPT
       !.status = mail.outcome, !.sender = None, !.outcome = None]]
  /\ orders' = [orders EXCEPT ![w][mail.order] = SentByMail(@, mail.outcome)]
  /\ UNCHANGED <<work, quotes, billed, plan, page>>

\* That transaction fails: the row stays SENDING, the process forgets it.
RecordFails(w, m) ==
  /\ mails[w][m].outcome # None
  /\ mails' = [mails EXCEPT ![w][m].sender = None, ![w][m].outcome = None]
  /\ UNCHANGED <<work, quotes, billed, orders, plan, page>>

\* The process stops and another takes its place; its mails are nobody's.
Restart(p) ==
  /\ \E w \in Works : \E m \in DOMAIN mails[w] : mails[w][m].sender = p
  /\ mails' = [w \in Works |-> [m \in DOMAIN mails[w] |->
       IF mails[w][m].sender = p
       THEN [mails[w][m] EXCEPT !.sender = None, !.outcome = None]
       ELSE mails[w][m]]]
  /\ UNCHANGED <<work, quotes, billed, orders, plan, page>>

\* recover, by the timer of process p: of the mails that are not its own, those
\* SENDING for five minutes, which any may be.
Recoverable(w, p) ==
  {m \in DOMAIN mails[w] : mails[w][m].status = "SENDING" /\ mails[w][m].sender # p}

Recover(p, w, old) ==
  /\ old # {}
  /\ mails' = [mails EXCEPT ![w] = [m \in DOMAIN mails[w] |->
       IF m \in old THEN [mails[w][m] EXCEPT !.status = "UNKNOWN"]
                    ELSE mails[w][m]]]
  /\ UNCHANGED <<work, quotes, billed, orders, plan, page>>

\* resolve, in process p: the seller has asked the supplier, who has not
\* received what never left; whether it has read the rest is its word.
Resolve(p, w, m, resolution) ==
  LET mail == mails[w][m] IN
  /\ mail.status = "UNKNOWN"
  /\ mail.resolution = None
  /\ mail.sender # p
  /\ resolution = "RECEIVED" => mail.left
  /\ mails' = [mails EXCEPT ![w][m].resolution = resolution]
  /\ orders' = [orders EXCEPT ![w][mail.order].status =
       IF resolution = "RECEIVED" THEN "SENT" ELSE @]
  /\ UNCHANGED <<work, quotes, billed, plan, page>>

-----------------------------------------------------------------------------

WorkStep(w) ==
  \/ CreateWork(w)
  \/ LoadWork(w)
  \/ \E status \in WorkStatuses, scope \in Scopes,
        booking \in Bookings \cup {None} : SaveWork(w, status, scope, booking)
  \/ Len(quotes[w]) < MaxQuotes /\ Issue(w)
  \/ \E i \in DOMAIN quotes[w] :
       \/ \E by \in {"SELLER", "CUSTOMER"},
             decision \in {"ACCEPTED", "REJECTED", "WITHDRAWN"} :
            Decide(w, i, by, decision)
       \/ Lapse(w, i)
       \/ Bill(w, i)

OrderStep(w) ==
  \/ Len(orders[w]) < MaxOrders
     /\ \E quantity \in 1 .. work[w].scope.required : CreateOrder(w, quantity)
  \/ \E n \in DOMAIN orders[w] :
       \/ SentByHand(w, n)
       \/ \E total \in 0 .. orders[w][n].quantity :
            Receipt(w, n, total) \/ Return(w, n, total)
       \/ CancelOrder(w, n)

MailStep(w) ==
  \/ Len(mails[w]) < MaxMails
     /\ \E n \in DOMAIN orders[w], p \in Processes : Send(w, n, p)
  \/ \E m \in DOMAIN mails[w] :
       \/ Deliver(w, m)
       \/ \E outcome \in Outcomes : Answer(w, m, outcome)
       \/ Record(w, m)
       \/ RecordFails(w, m)
       \/ \E p \in Processes, resolution \in {"RECEIVED", "NOT_RECEIVED"} :
            Resolve(p, w, m, resolution)
  \/ \E p \in Processes : \E old \in SUBSET Recoverable(w, p) : Recover(p, w, old)

Next ==
  \/ \E w \in Works :
       \/ WorkStep(w) /\ UNCHANGED mails
       \/ Exists(w) /\ OrderStep(w)
       \/ MailStep(w)
  \/ \E p \in Processes : Restart(p)

Spec == Init /\ [][Next]_vars

-----------------------------------------------------------------------------
(* Safety.                                                                 *)

\* The orders in force of a work are for the parts it now lists, together not
\* more than it needs, and a work that is called off has none; although works
\* and orders are changed by two services from pages of any age.
OrdersMatchWork ==
  \A w \in Works : \A n \in DOMAIN orders[w] : Active(orders[w][n]) =>
    /\ work[w].status # "CANCELLED"
    /\ orders[w][n].scope = work[w].scope
    /\ OrderedQuantity(w) <= work[w].scope.required

Left(w, n) ==
  {m \in DOMAIN mails[w] : mails[w][m].order = n /\ mails[w][m].left}
Denied(w, n) ==
  {m \in DOMAIN mails[w] : /\ mails[w][m].order = n
                           /\ mails[w][m].resolution = "NOT_RECEIVED"}

\* A supplier gets the mail of an order once, and once more for each mail that a
\* person has declared not received: no crash, late answer, or second process
\* makes the shop buy twice.
OrderedOnce ==
  \A w \in Works : \A n \in DOMAIN orders[w] :
    Cardinality(Left(w, n)) <= 1 + Cardinality(Denied(w, n))

\* What a mail achieved is in the order: accepted or received means sent, at
\* least until the seller cancels; and a cancelled order stays so, with nothing
\* of it kept and no mail of it in doubt, even when a late answer comes.
OrderStatusTruthful ==
  \A w \in Works : \A n \in DOMAIN orders[w] :
    LET o == orders[w][n] IN
    /\ o.returned <= o.received /\ o.received <= o.quantity
    /\ o.status = "DRAFT" =>
         \A mail \in MailsOf(w, n) :
           mail.status # "SMTP_ACCEPTED" /\ mail.resolution # "RECEIVED"
    /\ o.status = "CANCELLED" => /\ o.received = o.returned
                                 /\ \A mail \in MailsOf(w, n) : ~Undecided(mail)
=============================================================================
