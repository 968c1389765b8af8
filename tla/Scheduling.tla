----------------------------- MODULE Scheduling -----------------------------
(***************************************************************************)
(* Who is where when, for all cases of a seller: installations             *)
(* (CaseInstallationService), the works of the support, and the handovers  *)
(* that end an installation (CaseHandoverService) and say whether the case *)
(* is delivered, which the ledger's page may say as well                   *)
(* (FinanceService.state).                                                 *)
(*                                                                         *)
(* Installing depends on the orders to the producers (CaseOrdersService).  *)
(* A case has them with one producer here; the readiness of more is the    *)
(* conjunction of theirs.  A case enters here with its confirmed offer,    *)
(* which never changes any more (Negotiation), and whatever address it has.*)
(***************************************************************************)
EXTENDS SupportWork

CONSTANTS
  Addresses,    \* of building sites; None when not filled in
  MaxSaves,     \* bound: works, plans and reports saved
  MaxSupplies   \* bound: events of orders, changes of address or delivery

PlanStatuses == {"PROVISIONAL", "CONFIRMED", "CANCELLED"}
HandoverOutcomes == {"COMPLETED", "RESERVATIONS", "NOT_COMPLETED"}

\* `booking' counts while the plan is confirmed.
PlanRows == [status: PlanStatuses, booking: Bookings \cup {None},
             checkedAddress: Addresses \cup {None}]

\* The CaseOrderBatch of the offer, its mail and its events; `promise' is the
\* day of the confirmation, if it gave one.
Supplies == [sent: BOOLEAN, confirmed: BOOLEAN,
             promise: 0..MaxTime \cup {None}, received: BOOLEAN]

ASSUME SchedulingAssumption ==
  /\ {MaxSaves, MaxSupplies} \subseteq Nat
  /\ None \notin 0..MaxTime
  /\ None \notin PlanRows
  /\ None \notin Supplies
  /\ None \notin HandoverOutcomes

VARIABLES
  supply,       \* the orders of each case
  siteAddress,  \* CustomerCase.siteAddress
  handover,     \* the outcome of the latest CaseHandover of each case
  deliveredAt,  \* whether CustomerCase.deliveredAt is set
  saves, changes   \* counters of the bounds

siteVars == <<supply, siteAddress, handover, deliveredAt>>
schedulingVars == <<workVars, orders, plan, siteVars, saves, changes>>

SchedulingTypeOK ==
  /\ WorkTypeOK
  /\ orders = [w \in Works |-> <<>>]
  /\ plan \in [Cases -> PlanRows \cup {None}]
  /\ supply \in [Cases -> Supplies \cup {None}]
  /\ siteAddress \in [Cases -> Addresses \cup {None}]
  /\ handover \in [Cases -> HandoverOutcomes \cup {None}]
  /\ deliveredAt \in [Cases -> BOOLEAN]
  /\ saves \in Nat
  /\ changes \in Nat

SchedulingInit ==
  /\ WorkInit
  /\ orders = [w \in Works |-> <<>>]
  /\ plan = [c \in Cases |-> None]
  /\ supply = [c \in Cases |-> None]
  /\ siteAddress \in [Cases -> Addresses \cup {None}]
  /\ handover = [c \in Cases |-> None]
  /\ deliveredAt = [c \in Cases |-> FALSE]
  /\ saves = 0
  /\ changes = 0

Saved == saves < MaxSaves /\ saves' = saves + 1 /\ UNCHANGED changes
Changed == changes < MaxSupplies /\ changes' = changes + 1 /\ UNCHANGED saves

-----------------------------------------------------------------------------
(* Orders to producers, and the case.                                      *)

\* prepare, once for an offer.
Prepare(c) ==
  /\ supply[c] = None
  /\ supply' = [supply EXCEPT ![c] = [sent |-> FALSE, confirmed |-> FALSE,
                                      promise |-> None, received |-> FALSE]]
  /\ UNCHANGED <<siteAddress, handover, deliveredAt>>

\* send, and the SMTP server accepts.
MailOrder(c) ==
  /\ supply[c] # None
  /\ ~supply[c].sent
  /\ supply' = [supply EXCEPT ![c].sent = TRUE]
  /\ UNCHANGED <<siteAddress, handover, deliveredAt>>

\* event: a CONFIRMATION, which replaces an earlier one, or a RECEIPT with the
\* total arrived so far, which can be corrected.
ConfirmOrder(c, promise) ==
  /\ supply[c] # None
  /\ supply' = [supply EXCEPT ![c].confirmed = TRUE, ![c].promise = promise]
  /\ UNCHANGED <<siteAddress, handover, deliveredAt>>

Arrival(c, all) ==
  /\ supply[c] # None
  /\ supply[c].confirmed
  /\ supply' = [supply EXCEPT ![c].received = all]
  /\ UNCHANGED <<siteAddress, handover, deliveredAt>>

\* CaseManagementService.customer
UpdateAddress(c, address) ==
  /\ siteAddress[c] # address
  /\ siteAddress' = [siteAddress EXCEPT ![c] = address]
  /\ UNCHANGED <<supply, handover, deliveredAt>>

\* Faulty: the reports are not looked at.
AnyDelivery(c, delivered) == TRUE

\* What reports have said cannot be changed without one.
DeliveryFree(c, delivered) == delivered = deliveredAt[c] \/ handover[c] = None

\* FinanceService.state, as to the delivery.
DeclareDelivery(c, delivered) ==
  /\ DeliveryFree(c, delivered)
  /\ deliveredAt' = [deliveredAt EXCEPT ![c] = delivered]
  /\ UNCHANGED <<supply, siteAddress, handover>>

-----------------------------------------------------------------------------
(* Installations and handovers.                                            *)

\* readiness: the orders have left.
Ready(c) == supply[c] # None /\ (supply[c].sent \/ supply[c].confirmed)

\* And what is more to confirm a plan that starts then.
ReadyToConfirm(c, start) ==
  /\ Ready(c)
  /\ siteAddress[c] # None
  /\ supply[c].confirmed
  /\ ~supply[c].received => /\ supply[c].promise # None
                            /\ supply[c].promise < start

Planned(status, booking, address) ==
  [status |-> status, booking |-> booking, checkedAddress |-> address]

\* CaseInstallationService.save
SavePlan(c, status, booking) ==
  /\ (booking # None) <=> (status = "CONFIRMED")
  /\ IF status = "CANCELLED" THEN plan[c] # None ELSE Ready(c)
  /\ status = "CONFIRMED" => /\ ReadyToConfirm(c, booking.from)
                             /\ FreeOfWorks(booking, Works)
                             /\ FreeOfPlans(booking, Cases \ {c})
  /\ plan' = [plan EXCEPT ![c] = Planned(status, booking, siteAddress[c])]
  /\ UNCHANGED <<workVars, orders, siteVars>>

\* The plan still stands as it was confirmed.
PlanHolds(c) == Confirmed(plan[c]) /\ plan[c].checkedAddress = siteAddress[c]

\* CaseHandoverService.save
SaveHandover(c, outcome) ==
  /\ plan[c] # None
  /\ plan[c].status # "CANCELLED"
  /\ outcome # "NOT_COMPLETED" => PlanHolds(c)
  /\ outcome = "COMPLETED" => supply[c].received
  /\ handover' = [handover EXCEPT ![c] = outcome]
  /\ deliveredAt' = [deliveredAt EXCEPT ![c] = outcome # "NOT_COMPLETED"]
  /\ UNCHANGED <<workVars, orders, plan, supply, siteAddress>>

-----------------------------------------------------------------------------

SchedulingNext ==
  \/ \E w \in Works : CreateWork(w) /\ UNCHANGED <<siteVars, saves, changes>>
  \/ \E w \in Works, status \in WorkStatuses, scope \in Scopes,
        booking \in Bookings \cup {None} :
       SaveWork(w, status, scope, booking) /\ UNCHANGED siteVars /\ Saved
  \/ \E c \in Cases :
       \/ \E status \in PlanStatuses, booking \in Bookings \cup {None} :
            SavePlan(c, status, booking) /\ Saved
       \/ \E outcome \in HandoverOutcomes : SaveHandover(c, outcome) /\ Saved
       \/ /\ \/ Prepare(c)
             \/ MailOrder(c)
             \/ \E promise \in 0..MaxTime \cup {None} : ConfirmOrder(c, promise)
             \/ \E all \in BOOLEAN : Arrival(c, all)
             \/ \E address \in Addresses \cup {None} : UpdateAddress(c, address)
             \/ \E delivered \in BOOLEAN : DeclareDelivery(c, delivered)
          /\ Changed
          /\ UNCHANGED <<workVars, orders, plan>>

SchedulingSpec == SchedulingInit /\ [][SchedulingNext]_schedulingVars

-----------------------------------------------------------------------------
(* Safety.                                                                 *)

\* The same crew is expected at two places during some hour.
Clash(a, b) ==
  /\ CrewKey[a.crew] = CrewKey[b.crew]
  /\ \E t \in 0..MaxTime : t \in a.from .. (a.to - 1) /\ t \in b.from .. (b.to - 1)

\* No crew is expected at two places at once: neither at two works, nor at two
\* installations, nor at one of each, which two services book, each writing
\* the crew's name as it pleases.
NoDoubleBooking ==
  /\ \A v, w \in Works : v # w /\ Confirmed(work[v]) /\ Confirmed(work[w]) =>
       ~Clash(work[v].booking, work[w].booking)
  /\ \A b, c \in Cases : b # c /\ Confirmed(plan[b]) /\ Confirmed(plan[c]) =>
       ~Clash(plan[b].booking, plan[c].booking)
  /\ \A w \in Works, c \in Cases : Confirmed(work[w]) /\ Confirmed(plan[c]) =>
       ~Clash(work[w].booking, plan[c].booking)

\* Once there is a report, the case is delivered exactly if the latest report
\* says so, although the ledger's page writes the same field.
DeliveredAsReported ==
  \A c \in Cases :
    handover[c] # None => deliveredAt[c] = (handover[c] # "NOT_COMPLETED")
=============================================================================
