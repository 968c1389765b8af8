---------------------------- MODULE SupportWork -----------------------------
(***************************************************************************)
(* The works of the support (SupportWorkService), their quotes             *)
(* (SupportQuoteService) and what is invoiced of them                      *)
(* (SupportSettlementService.record).  Orders of spare parts and           *)
(* installations are here only as rows that a work is checked against;     *)
(* PartOrders and Scheduling write them.                                   *)
(*                                                                         *)
(* Every handler compares the revision its page was loaded at with the     *)
(* row's.  A page matters here where a quote is priced; everywhere else    *)
(* the form is chosen freely, and a page gone stale is a step not taken.   *)
(* So is a submission delivered again, which finds its request key.        *)
(***************************************************************************)
EXTENDS Null, Naturals, Sequences, FiniteSets

CONSTANTS
  Cases,        \* CustomerCase rows of one seller
  Works,        \* identifiers of SupportWork rows
  Scopes,       \* what supportScope tells apart
  CrewNames,    \* how crews are written
  CrewKey,      \* and whom they mean: crewKey
  MaxTime,      \* bound: bookings end by then
  MaxRevision   \* bound: how often a work is saved

Coverages == {"TO_ASSESS", "WARRANTY", "CHARGEABLE"}
WorkStatuses == {"PLANNED", "CONFIRMED", "COMPLETED", "CANCELLED"}
QuoteStatuses == {"ISSUED", "ACCEPTED", "REJECTED", "WITHDRAWN", "SUPERSEDED"}

\* The snapshot of a new work: nothing assessed, no parts.
Unassessed == [coverage |-> "TO_ASSESS", required |-> 0]

Bookings == {b \in [crew: CrewNames, from: 0..MaxTime, to: 0..MaxTime] :
               b.from < b.to}

WorkRows == [status: WorkStatuses, revision: 0..MaxRevision, scope: Scopes,
             booking: Bookings \cup {None}]

\* `priced': the scope the seller saw when writing the lines.
QuoteRows == [status: QuoteStatuses, scope: Scopes, priced: Scopes,
              lapsed: BOOLEAN]

ASSUME SupportWorkAssumption ==
  /\ Scopes \subseteq [coverage: Coverages, required: Nat]
  /\ Unassessed \in Scopes
  /\ MaxTime \in Nat
  /\ MaxRevision \in Nat
  /\ None \notin WorkRows
  /\ None \notin Bookings

VARIABLES
  work,         \* the SupportWork rows
  quotes,       \* their SupportQuote rows, by number
  billed,       \* number of the quote the settlement entries refer to, or 0
  orders,       \* the SupportPartOrder rows of each work, by number
  plan,         \* the latest CaseInstallationEvent of each case
  page          \* the seller's page of each work

workVars == <<work, quotes, billed, page>>

WorkTypeOK ==
  /\ work \in [Works -> WorkRows \cup {None}]
  /\ quotes \in [Works -> Seq(QuoteRows)]
  /\ billed \in [Works -> Nat]
  /\ page \in [Works -> [revision: 0..MaxRevision, scope: Scopes, quotes: Nat]
                         \cup {None}]

WorkInit ==
  /\ work = [w \in Works |-> None]
  /\ quotes = [w \in Works |-> <<>>]
  /\ billed = [w \in Works |-> 0]
  /\ page = [w \in Works |-> None]

Exists(w) == work[w] # None

-----------------------------------------------------------------------------
(* Works.                                                                  *)

CreateWork(w) ==
  /\ ~Exists(w)
  /\ work' = [work EXCEPT ![w] = [status |-> "PLANNED", revision |-> 0,
                                  scope |-> Unassessed, booking |-> None]]
  /\ UNCHANGED <<quotes, billed, orders, plan, page>>

\* The latest accepted quote is for these very activities and parts.
AcceptedFor(w, scope) ==
  \E i \in DOMAIN quotes[w] :
    /\ quotes[w][i].status = "ACCEPTED"
    /\ quotes[w][i].scope = scope
    /\ \A j \in DOMAIN quotes[w] : quotes[w][j].status = "ACCEPTED" => j <= i

Active(o) == o.status # "CANCELLED"

Ordered(w) == \E i \in DOMAIN orders[w] : Active(orders[w][i])

\* Faulty: only a booking that starts within the other meets it.
StartsWithin(a, b) ==
  CrewKey[a.crew] = CrewKey[b.crew] /\ b.from <= a.from /\ a.from < b.to

\* The same crew, however written, at the same time.
Meets(a, b) == CrewKey[a.crew] = CrewKey[b.crew] /\ a.from < b.to /\ b.from < a.to

Confirmed(row) == row # None /\ row.status = "CONFIRMED"

\* Other works and installations that booked the crew already.
FreeOfWorks(booking, Ws) ==
  \A w \in Ws : Confirmed(work[w]) => ~Meets(work[w].booking, booking)
FreeOfPlans(booking, Cs) ==
  \A c \in Cs : Confirmed(plan[c]) => ~Meets(plan[c].booking, booking)

\* save; the booking counts only while the work is confirmed.
SaveWork(w, status, scope, booking) ==
  /\ Exists(w)
  /\ work[w].revision < MaxRevision
  /\ (booking # None) <=> (status = "CONFIRMED")
  /\ work[w].status = "COMPLETED" => status = "COMPLETED"
  /\ status = "COMPLETED" => work[w].status \in {"CONFIRMED", "COMPLETED"}
  /\ \/ scope.coverage # "CHARGEABLE"
     \/ status \notin {"CONFIRMED", "COMPLETED"}
     \/ work[w].status = "COMPLETED" /\ scope = work[w].scope
     \/ AcceptedFor(w, scope)
  /\ scope # work[w].scope => billed[w] = 0 /\ ~Ordered(w)
  /\ status = "CANCELLED" => ~Ordered(w)
  /\ status = "CONFIRMED" => /\ FreeOfWorks(booking, Works \ {w})
                             /\ FreeOfPlans(booking, Cases)
  /\ work' = [work EXCEPT ![w] = [status |-> status, scope |-> scope,
                revision |-> work[w].revision + 1, booking |-> booking]]
  /\ UNCHANGED <<quotes, billed, orders, plan, page>>

-----------------------------------------------------------------------------
(* Quotes and settlement.                                                  *)

\* The seller opens the work and its quotes.
LoadWork(w) ==
  /\ Exists(w)
  /\ page' = [page EXCEPT ![w] = [revision |-> work[w].revision,
                scope |-> work[w].scope, quotes |-> Len(quotes[w])]]
  /\ UNCHANGED <<work, quotes, billed, orders, plan>>

PageCurrent(w) == /\ page[w].revision = work[w].revision
                  /\ page[w].quotes = Len(quotes[w])

\* Faulty: what the customer has accepted stays accepted.
OnlyOpenSuperseded(q) ==
  IF q.status = "ISSUED" THEN [q EXCEPT !.status = "SUPERSEDED"] ELSE q

Superseded(q) == IF q.status \in {"ISSUED", "ACCEPTED"}
                 THEN [q EXCEPT !.status = "SUPERSEDED"] ELSE q

\* issue: lines priced on the page, for the work as it now is.
Issue(w) ==
  /\ Exists(w)
  /\ page[w] # None
  /\ PageCurrent(w)
  /\ work[w].status = "PLANNED"
  /\ work[w].scope.coverage = "CHARGEABLE"
  /\ quotes' = [quotes EXCEPT ![w] =
       Append([i \in DOMAIN quotes[w] |-> Superseded(quotes[w][i])],
              [status |-> "ISSUED", scope |-> work[w].scope,
               priced |-> page[w].scope, lapsed |-> FALSE])]
  /\ UNCHANGED <<work, billed, orders, plan, page>>

\* decide, by the customer's link or recorded by the seller, who alone can
\* withdraw.
Decide(w, i, by, decision) ==
  /\ quotes[w][i].status = "ISSUED"
  /\ decision = "WITHDRAWN" => by = "SELLER"
  /\ decision = "ACCEPTED" => work[w].status = "PLANNED"
  /\ decision # "WITHDRAWN" => ~quotes[w][i].lapsed
  /\ quotes[w][i].scope = work[w].scope
  /\ quotes' = [quotes EXCEPT ![w][i].status = decision]
  /\ UNCHANGED <<work, billed, orders, plan, page>>

\* The day a quote is valid until has passed.
Lapse(w, i) ==
  /\ quotes[w][i].status = "ISSUED"
  /\ ~quotes[w][i].lapsed
  /\ quotes' = [quotes EXCEPT ![w][i].lapsed = TRUE]
  /\ UNCHANGED <<work, billed, orders, plan, page>>

\* A chargeable work done, on an accepted quote of its scope.
Agreed(w, i) ==
  /\ work[w].status = "COMPLETED"
  /\ work[w].scope.coverage = "CHARGEABLE"
  /\ quotes[w][i].status = "ACCEPTED"
  /\ quotes[w][i].scope = work[w].scope

\* record, for revenue, payments and refunds; the amounts are the ledger's.
Bill(w, i) ==
  /\ Agreed(w, i)
  /\ billed' = [billed EXCEPT ![w] = i]
  /\ UNCHANGED <<work, quotes, orders, plan, page>>

-----------------------------------------------------------------------------
(* Safety.                                                                 *)

\* No work is carried out for money, and nothing is charged for it, but on the
\* one quote in force that the customer has accepted for exactly these
\* activities and parts; although works, quotes and entries are written by
\* three services and a quote may be decided while the work is being changed.
WorksBacked ==
  \A w \in Works :
    /\ \A i, j \in DOMAIN quotes[w] :
         {quotes[w][i].status, quotes[w][j].status} \subseteq {"ISSUED", "ACCEPTED"}
           => i = j
    /\ Exists(w) /\ work[w].scope.coverage = "CHARGEABLE"
         /\ work[w].status \in {"CONFIRMED", "COMPLETED"} =>
         \E i \in DOMAIN quotes[w] : /\ quotes[w][i].status = "ACCEPTED"
                                     /\ quotes[w][i].scope = work[w].scope
    /\ billed[w] # 0 => /\ billed[w] \in DOMAIN quotes[w]
                        /\ Agreed(w, billed[w])

\* The lines of a quote were written for the very scope the quote is for,
\* although the scope is taken from the row when the quote is issued.
PricedAsSeen ==
  \A w \in Works : \A i \in DOMAIN quotes[w] :
    quotes[w][i].priced = quotes[w][i].scope
=============================================================================
