------------------------- MODULE SupportWorkProofs -------------------------
(***************************************************************************)
(* The works of the support.  For any number of works, quotes, orders,     *)
(* mails and processes: what a quote, an order and its mails say of each   *)
(* other stays true.  For any number of cases, works, crews and hours: no  *)
(* crew is booked twice, and reports decide on the delivery.               *)
(***************************************************************************)
EXTENDS PartOrders, Scheduling, SumTheorems, SequenceTheorems

-----------------------------------------------------------------------------
(* Sequences with a place changed, and with all places changed.            *)

LEMMA PlaceChanged ==
  ASSUME NEW S, NEW s \in Seq(S), NEW i \in DOMAIN s, NEW x \in S
  PROVE  /\ [s EXCEPT ![i] = x] \in Seq(S)
         /\ DOMAIN [s EXCEPT ![i] = x] = DOMAIN s
         /\ \A j \in DOMAIN s : [s EXCEPT ![i] = x][j] = IF j = i THEN x ELSE s[j]
BY ExceptSeq

LEMMA Mapped ==
  ASSUME NEW S, NEW s \in Seq(S), NEW t, DOMAIN t = DOMAIN s,
         t = [i \in DOMAIN s |-> t[i]], \A i \in DOMAIN s : t[i] \in S
  PROVE  t \in Seq(S) /\ Len(t) = Len(s)
OBVIOUS

LEMMA Appended ==
  ASSUME NEW S, NEW s \in Seq(S), NEW x \in S
  PROVE  /\ Append(s, x) \in Seq(S)
         /\ Len(Append(s, x)) = Len(s) + 1
         /\ DOMAIN Append(s, x) = 1 .. (Len(s) + 1)
         /\ DOMAIN s = 1 .. Len(s)
         /\ Len(s) \in Nat
         /\ \A i \in DOMAIN s : Append(s, x)[i] = s[i]
         /\ Append(s, x)[Len(s) + 1] = x
OBVIOUS

-----------------------------------------------------------------------------
(* Quotes.                                                                 *)

\* A page with the work's revision shows the work as it is.
PagesShow ==
  \A w \in Works : page[w] # None =>
    /\ Exists(w)
    /\ page[w].revision <= work[w].revision
    /\ page[w].revision = work[w].revision => page[w].scope = work[w].scope

\* Only a work there is has quotes.
NoneBefore == \A w \in Works : ~Exists(w) => DOMAIN quotes[w] = {}

QuotesInv == WorkTypeOK /\ WorksBacked /\ PricedAsSeen /\ PagesShow /\ NoneBefore

Live(q) == q.status \in {"ISSUED", "ACCEPTED"}

\* The invariant, of one work: its row, quotes, bill and page.
Sound(row, qs, bill, pg) ==
  /\ \A i, j \in DOMAIN qs : Live(qs[i]) /\ Live(qs[j]) => i = j
  /\ row # None /\ row.scope.coverage = "CHARGEABLE"
       /\ row.status \in {"CONFIRMED", "COMPLETED"} =>
       \E i \in DOMAIN qs : qs[i].status = "ACCEPTED" /\ qs[i].scope = row.scope
  /\ bill # 0 => /\ bill \in DOMAIN qs
                 /\ row.status = "COMPLETED" /\ row.scope.coverage = "CHARGEABLE"
                 /\ qs[bill].status = "ACCEPTED" /\ qs[bill].scope = row.scope
  /\ \A i \in DOMAIN qs : qs[i].priced = qs[i].scope
  /\ pg # None => /\ row # None
                  /\ pg.revision <= row.revision
                  /\ pg.revision = row.revision => pg.scope = row.scope
  /\ row = None => DOMAIN qs = {}

LEMMA QuotesInvByWork ==
  QuotesInv <=> /\ WorkTypeOK
                /\ \A w \in Works : Sound(work[w], quotes[w], billed[w], page[w])
BY DEF QuotesInv, WorksBacked, PricedAsSeen, PagesShow, NoneBefore, Sound, Live, Exists, Agreed

\* The same of the next state.
LEMMA QuotesInvByWorkNext ==
  QuotesInv' <=> /\ WorkTypeOK'
                 /\ \A w \in Works : Sound(work'[w], quotes'[w], billed'[w], page'[w])
BY DEF QuotesInv, WorksBacked, PricedAsSeen, PagesShow, NoneBefore, Sound, Live, Exists, Agreed

LEMMA RowsOfWork ==
  ASSUME WorkTypeOK, NEW w \in Works
  PROVE  /\ Exists(w) => work[w] \in WorkRows
         /\ quotes[w] \in Seq(QuoteRows)
         /\ \A i \in DOMAIN quotes[w] : quotes[w][i] \in QuoteRows
BY DEF WorkTypeOK, Exists

LEMMA InitQuotes == Init => QuotesInv
<1> SUFFICES ASSUME Init PROVE QuotesInv
  OBVIOUS
<1>1. WorkTypeOK
  BY DEF Init, WorkInit, WorkTypeOK
<1>2. \A w \in Works : /\ quotes[w] = <<>> /\ DOMAIN quotes[w] = {}
                       /\ work[w] = None /\ billed[w] = 0 /\ page[w] = None
  BY DEF Init, WorkInit
<1> QED BY <1>1, <1>2, QuotesInvByWork DEF Sound

\* A step that changes the rows of one work has to keep only these sound.
LEMMA OneWorkChanged ==
  ASSUME QuotesInv, NEW w \in Works, WorkTypeOK',
         \A v \in Works \ {w} : /\ work'[v] = work[v] /\ quotes'[v] = quotes[v]
                                /\ billed'[v] = billed[v] /\ page'[v] = page[v],
         Sound(work'[w], quotes'[w], billed'[w], page'[w])
  PROVE  QuotesInv'
<1>1. \A v \in Works \ {w} : Sound(work'[v], quotes'[v], billed'[v], page'[v])
  BY QuotesInvByWork
<1> QED BY <1>1, QuotesInvByWorkNext

LEMMA CreatedSound ==
  ASSUME QuotesInv, NEW w \in Works, CreateWork(w)
  PROVE  QuotesInv'
<1> DEFINE row == [status |-> "PLANNED", revision |-> 0,
                   scope |-> Unassessed, booking |-> None]
<1>1. WorkTypeOK /\ Sound(work[w], quotes[w], billed[w], page[w])
  BY QuotesInvByWork
<1>2. row \in WorkRows
  BY SupportWorkAssumption DEF WorkRows, WorkStatuses
<1>3. work' = [work EXCEPT ![w] = row] /\ UNCHANGED <<quotes, billed, page>> /\ work[w] = None
  BY DEF CreateWork, Exists
<1>4. WorkTypeOK'
  BY <1>1, <1>2, <1>3 DEF WorkTypeOK
<1>5. work'[w] = row /\ \A v \in Works \ {w} : work'[v] = work[v]
  BY <1>1, <1>3 DEF WorkTypeOK
<1>6. Sound(row, quotes[w], billed[w], page[w])
  <2>1. page[w] = None
    BY <1>1, <1>3 DEF Sound
  <2>2. DOMAIN quotes[w] = {}
    BY <1>1, <1>3 DEF Sound
  <2>3. row # None
    BY <1>2, SupportWorkAssumption
  <2> HIDE DEF row
  <2>4. row.scope.coverage # "CHARGEABLE"
    BY DEF row, Unassessed
  <2> QED BY <1>1, <2>1, <2>2, <2>3, <2>4 DEF Sound
<1> QED BY <1>3, <1>4, <1>5, <1>6, OneWorkChanged

\* What is saved of a work stays backed.
LEMMA SavedSound ==
  ASSUME QuotesInv, NEW w \in Works, NEW status \in WorkStatuses, NEW scope \in Scopes,
         NEW booking \in Bookings \cup {None}, SaveWork(w, status, scope, booking)
  PROVE  QuotesInv'
<1> DEFINE row == [status |-> status, scope |-> scope,
                   revision |-> work[w].revision + 1, booking |-> booking]
<1>1. WorkTypeOK /\ Sound(work[w], quotes[w], billed[w], page[w])
  BY QuotesInvByWork
<1>2. work' = [work EXCEPT ![w] = row] /\ UNCHANGED <<quotes, billed, page>>
  BY DEF SaveWork
<1>3. work[w] \in WorkRows /\ work[w].revision \in Nat /\ row \in WorkRows
  <2>1. work[w] \in WorkRows
    BY <1>1, RowsOfWork DEF SaveWork
  <2>2. row.revision \in 0..MaxRevision /\ work[w].revision \in Nat
    BY <2>1, SupportWorkAssumption DEF SaveWork, WorkRows
  <2> QED BY <2>1, <2>2 DEF WorkRows
<1>4. WorkTypeOK'
  BY <1>1, <1>2, <1>3 DEF WorkTypeOK
<1>5. work'[w] = row /\ \A v \in Works \ {w} : work'[v] = work[v]
  BY <1>1, <1>2 DEF WorkTypeOK
<1>6. page[w] # None => page[w].revision \in Nat
  BY <1>1, SupportWorkAssumption DEF WorkTypeOK
<1>7. Sound(row, quotes[w], billed[w], page[w])
  <2>1. row # None /\ work[w] # None
    BY <1>3, SupportWorkAssumption
  <2>2. row.scope = scope /\ row.status = status /\ row.revision = work[w].revision + 1
    OBVIOUS
  <2> HIDE DEF row
  <2>3. scope.coverage = "CHARGEABLE" /\ status \in {"CONFIRMED", "COMPLETED"} =>
          \E i \in DOMAIN quotes[w] : /\ quotes[w][i].status = "ACCEPTED"
                                      /\ quotes[w][i].scope = scope
    BY <1>1, <2>1 DEF SaveWork, AcceptedFor, Sound
  <2>4. billed[w] # 0 => scope = work[w].scope /\ status = "COMPLETED"
    BY <1>1 DEF SaveWork, Sound
  <2>5. page[w] # None => page[w].revision <= row.revision /\ page[w].revision # row.revision
    BY <1>1, <1>3, <1>6, <2>2 DEF Sound
  <2> QED BY <1>1, <2>1, <2>2, <2>3, <2>4, <2>5 DEF Sound
<1> QED BY <1>2, <1>4, <1>5, <1>7, OneWorkChanged

\* When only the quotes of w change, only they need to be looked at.
LEMMA QuotesReplaced ==
  ASSUME QuotesInv, NEW w \in Works, NEW qs \in Seq(QuoteRows),
         quotes' = [quotes EXCEPT ![w] = qs], UNCHANGED <<work, billed, page>>,
         Sound(work[w], qs, billed[w], page[w])
  PROVE  QuotesInv'
<1>1. WorkTypeOK /\ WorkTypeOK'
  BY QuotesInvByWork DEF WorkTypeOK
<1>2. quotes'[w] = qs /\ \A v \in Works \ {w} : quotes'[v] = quotes[v]
  BY <1>1 DEF WorkTypeOK
<1> QED BY <1>1, <1>2, OneWorkChanged

LEMMA IssuedSound ==
  ASSUME QuotesInv, NEW w \in Works, Issue(w)
  PROVE  QuotesInv'
<1> DEFINE old == quotes[w]
           sup == [i \in DOMAIN old |-> Superseded(old[i])]
           new == [status |-> "ISSUED", scope |-> work[w].scope,
                   priced |-> page[w].scope, lapsed |-> FALSE]
           qs == Append(sup, new)
<1>1. WorkTypeOK /\ Sound(work[w], old, billed[w], page[w])
  BY QuotesInvByWork
<1>2. old \in Seq(QuoteRows) /\ (\A i \in DOMAIN old : old[i] \in QuoteRows)
      /\ work[w] \in WorkRows
  BY <1>1, RowsOfWork DEF Issue
<1>3. \A i \in DOMAIN old : /\ Superseded(old[i]) \in QuoteRows
                            /\ ~Live(Superseded(old[i]))
                            /\ Superseded(old[i]).priced = old[i].priced
                            /\ Superseded(old[i]).scope = old[i].scope
  BY <1>2 DEF Superseded, QuoteRows, QuoteStatuses, Live
<1>4. sup \in Seq(QuoteRows) /\ Len(sup) = Len(old) /\ DOMAIN sup = DOMAIN old
      /\ \A i \in DOMAIN old : sup[i] = Superseded(old[i])
  <2>1. DOMAIN sup = DOMAIN old /\ \A i \in DOMAIN old : sup[i] \in QuoteRows
    BY <1>3
  <2>2. sup = [i \in DOMAIN old |-> sup[i]]
    OBVIOUS
  <2>3. \A i \in DOMAIN old : sup[i] = Superseded(old[i])
    OBVIOUS
  <2> HIDE DEF sup, old
  <2> QED BY <1>2, <2>1, <2>2, <2>3, Mapped
<1>5. work[w].scope = page[w].scope /\ work[w].scope \in Scopes /\ work[w].status = "PLANNED"
  BY <1>1, <1>2 DEF Issue, PageCurrent, Sound, WorkRows
<1>6. new \in QuoteRows /\ Live(new) /\ new.priced = new.scope
  BY <1>5 DEF QuoteRows, QuoteStatuses, Live
<1>7. quotes' = [quotes EXCEPT ![w] = qs] /\ UNCHANGED <<work, billed, page>>
  BY DEF Issue
<1>8. /\ qs \in Seq(QuoteRows)
      /\ \A i \in DOMAIN qs : \/ i \in DOMAIN old /\ qs[i] = Superseded(old[i])
                              \/ i = Len(old) + 1 /\ qs[i] = new
  <2> HIDE DEF sup, new
  <2> QED BY <1>4, <1>6, Appended
<1>9. Sound(work[w], qs, billed[w], page[w])
  <2> HIDE DEF qs, new, old
  <2>1. \A i, j \in DOMAIN qs : Live(qs[i]) /\ Live(qs[j]) => i = j
    BY <1>3, <1>8
  <2>2. \A i \in DOMAIN qs : qs[i].priced = qs[i].scope
    BY <1>1, <1>3, <1>6, <1>8 DEF Sound
  <2>3. billed[w] = 0
    BY <1>1, <1>5 DEF Sound
  <2>4. work[w] # None
    BY <1>2, SupportWorkAssumption
  <2> QED BY <1>1, <1>5, <2>1, <2>2, <2>3, <2>4 DEF Sound
<1> HIDE DEF qs
<1> QED BY <1>7, <1>8, <1>9, QuotesReplaced

\* A quote that changes its status leaves only its own.
LEMMA DecidedSound ==
  ASSUME QuotesInv, NEW w \in Works, NEW i \in DOMAIN quotes[w],
         NEW q \in QuoteRows, quotes[w][i].status = "ISSUED",
         q.scope = quotes[w][i].scope, q.priced = quotes[w][i].priced,
         quotes' = [quotes EXCEPT ![w] = [quotes[w] EXCEPT ![i] = q]],
         UNCHANGED <<work, billed, page>>
  PROVE  QuotesInv'
<1> DEFINE qs == [quotes[w] EXCEPT ![i] = q]
<1>1. WorkTypeOK /\ Sound(work[w], quotes[w], billed[w], page[w])
  BY QuotesInvByWork
<1>2. quotes[w] \in Seq(QuoteRows)
  BY <1>1, RowsOfWork
<1>3. /\ qs \in Seq(QuoteRows)
      /\ DOMAIN qs = DOMAIN quotes[w]
      /\ \A j \in DOMAIN quotes[w] : qs[j] = IF j = i THEN q ELSE quotes[w][j]
  BY <1>2, PlaceChanged
<1> HIDE DEF qs
<1>4. Sound(work[w], qs, billed[w], page[w])
  <2>1. \A j \in DOMAIN quotes[w] : quotes[w][j].status = "ACCEPTED" => j # i
    OBVIOUS
  <2>2. \A j, k \in DOMAIN qs : Live(qs[j]) /\ Live(qs[k]) => j = k
    BY <1>1, <1>3 DEF Sound, Live
  <2>3. \A j \in DOMAIN qs : qs[j].priced = qs[j].scope
    BY <1>1, <1>3 DEF Sound
  <2> QED BY <1>1, <1>3, <2>1, <2>2, <2>3 DEF Sound
<1> QED BY <1>3, <1>4, QuotesReplaced DEF qs

LEMMA NextQuotes == QuotesInv /\ [Next]_vars => QuotesInv'
<1> SUFFICES ASSUME QuotesInv, [Next]_vars PROVE QuotesInv'
  OBVIOUS
<1>0. WorkTypeOK
  BY DEF QuotesInv
<1>1. ASSUME NEW w \in Works, WorkStep(w) PROVE QuotesInv'
  <2>1. ASSUME LoadWork(w) PROVE QuotesInv'
    <3>1. work[w] \in WorkRows /\ Len(quotes[w]) \in Nat
      BY <1>0, <2>1, RowsOfWork DEF LoadWork
    <3> DEFINE pg == [revision |-> work[w].revision, scope |-> work[w].scope,
                      quotes |-> Len(quotes[w])]
    <3>2. page' = [page EXCEPT ![w] = pg] /\ UNCHANGED <<work, quotes, billed>> /\ Exists(w)
      BY <2>1 DEF LoadWork
    <3>3. WorkTypeOK'
      BY <1>0, <3>1, <3>2 DEF WorkTypeOK, WorkRows
    <3>4. page'[w] = pg /\ \A v \in Works \ {w} : page'[v] = page[v]
      BY <1>0, <3>2 DEF WorkTypeOK
    <3>5. work[w].revision \in Nat
      BY <3>1, SupportWorkAssumption DEF WorkRows
    <3>6. Sound(work[w], quotes[w], billed[w], pg)
      BY <3>2, <3>5, QuotesInvByWork DEF Sound, Exists
    <3> QED BY <3>2, <3>3, <3>4, <3>6, OneWorkChanged
  <2>2. ASSUME NEW i \in DOMAIN quotes[w], NEW by \in {"SELLER", "CUSTOMER"},
               NEW decision \in {"ACCEPTED", "REJECTED", "WITHDRAWN"},
               Decide(w, i, by, decision)
        PROVE  QuotesInv'
    <3> DEFINE q == [quotes[w][i] EXCEPT !.status = decision]
    <3>1. quotes[w][i] \in QuoteRows
      BY <1>0, RowsOfWork
    <3>2. q \in QuoteRows /\ q.scope = quotes[w][i].scope /\ q.priced = quotes[w][i].priced
      BY <3>1 DEF QuoteRows, QuoteStatuses
    <3>3. /\ quotes' = [quotes EXCEPT ![w] = [quotes[w] EXCEPT ![i] = q]]
          /\ UNCHANGED <<work, billed, page>> /\ quotes[w][i].status = "ISSUED"
      BY <1>0, <2>2 DEF Decide, WorkTypeOK
    <3> HIDE DEF q
    <3> QED BY <3>2, <3>3, DecidedSound
  <2>3. ASSUME NEW i \in DOMAIN quotes[w], Lapse(w, i) PROVE QuotesInv'
    <3> DEFINE q == [quotes[w][i] EXCEPT !.lapsed = TRUE]
    <3>1. quotes[w][i] \in QuoteRows
      BY <1>0, RowsOfWork
    <3>2. q \in QuoteRows /\ q.scope = quotes[w][i].scope /\ q.priced = quotes[w][i].priced
      BY <3>1 DEF QuoteRows
    <3>3. /\ quotes' = [quotes EXCEPT ![w] = [quotes[w] EXCEPT ![i] = q]]
          /\ UNCHANGED <<work, billed, page>> /\ quotes[w][i].status = "ISSUED"
      BY <1>0, <2>3 DEF Lapse, WorkTypeOK
    <3> HIDE DEF q
    <3> QED BY <3>2, <3>3, DecidedSound
  <2>4. ASSUME NEW i \in DOMAIN quotes[w], Bill(w, i) PROVE QuotesInv'
    <3>1. i \in Nat
      BY <1>0, RowsOfWork
    <3>2. billed' = [billed EXCEPT ![w] = i] /\ UNCHANGED <<work, quotes, page>>
      BY <2>4 DEF Bill
    <3>3. WorkTypeOK'
      BY <1>0, <3>1, <3>2 DEF WorkTypeOK
    <3>4. billed'[w] = i /\ \A v \in Works \ {w} : billed'[v] = billed[v]
      BY <1>0, <3>2 DEF WorkTypeOK
    <3>5. Sound(work[w], quotes[w], i, page[w])
      BY <2>4, QuotesInvByWork DEF Sound, Bill, Agreed
    <3> QED BY <3>2, <3>3, <3>4, <3>5, OneWorkChanged
  <2> QED
    BY <1>1, <2>1, <2>2, <2>3, <2>4, CreatedSound, SavedSound, IssuedSound DEF WorkStep
<1>2. CASE UNCHANGED <<work, quotes, billed, page>>
  BY <1>2 DEF QuotesInv, WorkTypeOK, WorksBacked, PricedAsSeen, PagesShow, NoneBefore, Exists, Agreed
<1>3. ASSUME NEW w \in Works, OrderStep(w) \/ MailStep(w) PROVE UNCHANGED <<work, quotes, billed, page>>
  BY <1>3 DEF OrderStep, MailStep, CreateOrder, SentByHand, Receipt, Return, CancelOrder,
              Event, Send, Deliver, Answer, Record, RecordFails, Resolve, Recover
<1>4. ASSUME NEW p \in Processes, Restart(p) PROVE UNCHANGED <<work, quotes, billed, page>>
  BY <1>4 DEF Restart
<1> QED BY <1>1, <1>2, <1>3, <1>4 DEF Next, vars

\* Chargeable work rests on the one quote in force, accepted for its scope.
THEOREM WorksAreBacked == Spec => []WorksBacked
<1>1. QuotesInv => WorksBacked
  BY DEF QuotesInv
<1> QED BY <1>1, InitQuotes, NextQuotes, PTL DEF Spec

\* Every quote was priced for the very scope it is for.
THEOREM QuotesPricedAsSeen == Spec => []PricedAsSeen
<1>1. QuotesInv => PricedAsSeen
  BY DEF QuotesInv
<1> QED BY <1>1, InitQuotes, NextQuotes, PTL DEF Spec

-----------------------------------------------------------------------------
(* Orders and their mails.                                                 *)

\* The quantity of the orders in force among os.
QuantityOf(os) ==
  SumFunctionOnSet([i \in DOMAIN os |-> os[i].quantity],
                   {i \in DOMAIN os : Active(os[i])})

\* The orders of a work, against its row.
OrdersSound(row, os) ==
  /\ row = None => DOMAIN os = {}
  /\ \A n \in DOMAIN os :
       /\ os[n].returned <= os[n].received
       /\ os[n].received <= os[n].quantity
       /\ os[n].status = "CANCELLED" => os[n].received = os[n].returned
       /\ Active(os[n]) => /\ row.status # "CANCELLED"
                           /\ os[n].scope = row.scope
                           /\ QuantityOf(os) <= row.scope.required

\* A mail on its own: an answer is awaited by the process that sent it, what
\* was accepted or received has left, what has failed has not and never will.
MailSound(mail) ==
  /\ mail.outcome # None => mail.sender # None
  /\ mail.outcome = "SMTP_ACCEPTED" => mail.left
  /\ mail.outcome = "FAILED" => ~mail.left
  /\ mail.sender # None => mail.status \in {"SENDING", "UNKNOWN"}
  /\ mail.status = "FAILED" => ~mail.left
  /\ mail.status = "SENDING" => mail.resolution = None

\* A mail that the supplier may act upon, nobody having said otherwise.
Open(mail) == mail.status # "FAILED" /\ mail.resolution # "NOT_RECEIVED"

\* A mail against the status of its order.
MailFits(mail, status) ==
  /\ status = "DRAFT" =>
       mail.status # "SMTP_ACCEPTED" /\ mail.resolution # "RECEIVED"
  /\ status = "CANCELLED" => ~Undecided(mail)

\* The mails of a work: no order has two that are open.
MailsSound(os, ms) ==
  /\ \A m \in DOMAIN ms : /\ ms[m].order \in DOMAIN os
                          /\ MailSound(ms[m])
                          /\ MailFits(ms[m], os[ms[m].order].status)
  /\ \A i, j \in DOMAIN ms :
       ms[i].order = ms[j].order /\ Open(ms[i]) /\ Open(ms[j]) => i = j

OrdersTypeOK ==
  /\ orders \in [Works -> Seq(OrderRows)]
  /\ plan \in [Cases -> {None}]
  /\ mails \in [Works -> Seq(MailRows)]

OrdersInv ==
  /\ OrdersTypeOK
  /\ \A w \in Works : OrdersSound(work[w], orders[w]) /\ MailsSound(orders[w], mails[w])

PartInv == QuotesInv /\ OrdersInv

\* The orders in force are finitely many, and come to a natural number.
LEMMA QuantityType ==
  ASSUME NEW os \in Seq(OrderRows)
  PROVE  /\ IsFiniteSet({i \in DOMAIN os : Active(os[i])})
         /\ \A i \in DOMAIN os : os[i].quantity \in Nat
         /\ QuantityOf(os) \in Nat
<1> DEFINE f == [i \in DOMAIN os |-> os[i].quantity]
           S == {i \in DOMAIN os : Active(os[i])}
<1>1. DOMAIN os = 1..Len(os) /\ Len(os) \in Nat
  OBVIOUS
<1>2. IsFiniteSet(S)
  <2>1. IsFiniteSet(1..Len(os))
    BY <1>1, FS_Interval
  <2>2. S \subseteq 1..Len(os)
    BY <1>1
  <2>. QED
    BY <2>1, <2>2, FS_Subset
<1>3. \A i \in DOMAIN os : os[i] \in OrderRows
  OBVIOUS
<1>4. \A i \in DOMAIN os : os[i].quantity \in Nat
  BY <1>3 DEF OrderRows
<1>5. \A i \in S : f[i] \in Nat
  BY <1>4
<1> HIDE DEF f, S
<1>6. SumFunctionOnSet(f, S) \in Nat
  BY <1>2, <1>5, SumMonotone
<1>. QED
  BY <1>2, <1>4, <1>6 DEF f, S, QuantityOf

\* An order of the same quantity in its place adds nothing to the sum.
LEMMA QuantityReplaced ==
  ASSUME NEW os \in Seq(OrderRows), NEW n \in DOMAIN os, NEW o \in OrderRows,
         o.quantity = os[n].quantity, Active(o) => Active(os[n])
  PROVE  QuantityOf([os EXCEPT ![n] = o]) <= QuantityOf(os)
<1> DEFINE new == [os EXCEPT ![n] = o]
           f == [i \in DOMAIN os |-> os[i].quantity]
           g == [i \in DOMAIN new |-> new[i].quantity]
           S == {i \in DOMAIN os : Active(os[i])}
           R == {i \in DOMAIN new : Active(new[i])}
<1>1. /\ DOMAIN new = DOMAIN os
      /\ \A j \in DOMAIN os : new[j] = IF j = n THEN o ELSE os[j]
  OBVIOUS
<1> HIDE DEF new
<1>2. f = g
  BY <1>1
<1>3. R \in SUBSET S
  BY <1>1
<1>4. IsFiniteSet(S) /\ \A i \in S : f[i] \in Nat
  BY QuantityType
<1> HIDE DEF f, g, S, R
<1>5. SumFunctionOnSet(f, R) <= SumFunctionOnSet(f, S)
  BY <1>3, <1>4, SumMonotone
<1>. QED
  BY <1>2, <1>5 DEF QuantityOf, f, g, S, R, new

\* A new order adds its quantity.
LEMMA QuantityAppended ==
  ASSUME NEW os \in Seq(OrderRows), NEW o \in OrderRows, Active(o)
  PROVE  QuantityOf(Append(os, o)) = QuantityOf(os) + o.quantity
<1> DEFINE new == Append(os, o)
           x == Len(os) + 1
           f == [i \in DOMAIN os |-> os[i].quantity]
           g == [i \in DOMAIN new |-> new[i].quantity]
           S == {i \in DOMAIN os : Active(os[i])}
           R == {i \in DOMAIN new : Active(new[i])}
<1>1. /\ DOMAIN os = 1..Len(os) /\ Len(os) \in Nat
      /\ DOMAIN new = 1..x
      /\ \A i \in DOMAIN os : new[i] = os[i]
      /\ new[x] = o
  BY Appended
<1> HIDE DEF new
<1>2. R = S \cup {x} /\ x \notin S
  BY <1>1
<1>3. /\ \A i \in S : g[i] = f[i]
      /\ g[x] = o.quantity
  BY <1>1
<1>4. IsFiniteSet(S) /\ \A i \in S : f[i] \in Nat
  BY QuantityType
<1>5. o.quantity \in Nat
  BY DEF OrderRows
<1> HIDE DEF f, g, S, R, x
<1>6. \A i \in S \cup {x} : g[i] \in Int
  BY <1>3, <1>4, <1>5
<1>7. SumFunctionOnSet(g, R) = SumFunctionOnSet(g, S) + g[x]
  BY <1>2, <1>4, <1>6, SumAdd
<1>8. SumFunctionOnSet(g, S) = SumFunctionOnSet(f, S)
  BY <1>3, <1>4, SumSame
<1>. QED
  BY <1>3, <1>7, <1>8 DEF QuantityOf, f, g, S, R, new

\* An order that changes without being revived leaves the orders sound.
LEMMA OrderReplaced ==
  ASSUME NEW row \in WorkRows, NEW os \in Seq(OrderRows), NEW n \in DOMAIN os,
         NEW o \in OrderRows, OrdersSound(row, os),
         o.quantity = os[n].quantity, o.scope = os[n].scope,
         Active(o) => Active(os[n]),
         o.returned <= o.received, o.received <= o.quantity,
         o.status = "CANCELLED" => o.received = o.returned
  PROVE  OrdersSound(row, [os EXCEPT ![n] = o])
<1> DEFINE new == [os EXCEPT ![n] = o]
<1>1. /\ DOMAIN new = DOMAIN os /\ new \in Seq(OrderRows)
      /\ \A j \in DOMAIN os : new[j] = IF j = n THEN o ELSE os[j]
  BY PlaceChanged
<1>2. QuantityOf(new) <= QuantityOf(os)
  BY QuantityReplaced
<1>3. /\ QuantityOf(new) \in Nat /\ QuantityOf(os) \in Nat
  BY <1>1, QuantityType
<1>4. row.scope.required \in Nat
  BY SupportWorkAssumption DEF WorkRows
<1> HIDE DEF new
<1>5. row # None
  BY SupportWorkAssumption
<1>6. ASSUME NEW i \in DOMAIN new, Active(new[i])
      PROVE  /\ row.status # "CANCELLED" /\ new[i].scope = row.scope
             /\ QuantityOf(new) <= row.scope.required
  <2>1. Active(os[i]) /\ new[i].scope = os[i].scope /\ i \in DOMAIN os
    BY <1>1, <1>6
  <2>2. /\ row.status # "CANCELLED" /\ os[i].scope = row.scope
        /\ QuantityOf(os) <= row.scope.required
    BY <2>1 DEF OrdersSound
  <2>. QED
    BY <1>2, <1>3, <1>4, <2>1, <2>2
<1>7. \A i \in DOMAIN new : /\ new[i].returned <= new[i].received
                            /\ new[i].received <= new[i].quantity
                            /\ new[i].status = "CANCELLED" => new[i].received = new[i].returned
  BY <1>1 DEF OrdersSound
<1>. QED
  BY <1>5, <1>6, <1>7 DEF OrdersSound, new

-----------------------------------------------------------------------------

LEMMA InitOrders == Init => OrdersInv
<1> SUFFICES ASSUME Init PROVE OrdersInv
  OBVIOUS
<1>1. \A w \in Works : orders[w] = <<>> /\ mails[w] = <<>> /\ DOMAIN <<>> = {}
  BY DEF Init
<1>2. OrdersTypeOK
  BY DEF Init, OrdersTypeOK
<1>. QED
  BY <1>1, <1>2 DEF OrdersInv, OrdersSound, MailsSound

LEMMA OrdersTyped ==
  ASSUME PartInv, NEW w \in Works
  PROVE  /\ orders[w] \in Seq(OrderRows) /\ mails[w] \in Seq(MailRows)
         /\ \A n \in DOMAIN orders[w] : orders[w][n] \in OrderRows
         /\ \A m \in DOMAIN mails[w] : mails[w][m] \in MailRows
         /\ OrdersSound(work[w], orders[w]) /\ MailsSound(orders[w], mails[w])
         /\ DOMAIN orders[w] # {} => work[w] \in WorkRows
<1>1. orders[w] \in Seq(OrderRows) /\ mails[w] \in Seq(MailRows)
      /\ OrdersSound(work[w], orders[w]) /\ MailsSound(orders[w], mails[w])
      /\ work[w] \in WorkRows \cup {None}
  BY DEF PartInv, OrdersInv, OrdersTypeOK, QuotesInv, WorkTypeOK
<1>2. \A n \in DOMAIN orders[w] : orders[w][n] \in OrderRows
  BY <1>1
<1>3. \A m \in DOMAIN mails[w] : mails[w][m] \in MailRows
  BY <1>1
<1>. QED
  BY <1>1, <1>2, <1>3 DEF OrdersSound

\* A step of one work's orders and mails has to keep only these sound.
LEMMA OneWorksOrders ==
  ASSUME PartInv, NEW w \in Works, NEW os \in Seq(OrderRows), NEW ms \in Seq(MailRows),
         orders' = [orders EXCEPT ![w] = os], mails' = [mails EXCEPT ![w] = ms],
         UNCHANGED <<work, plan>>,
         OrdersSound(work[w], os), MailsSound(os, ms)
  PROVE  OrdersInv'
<1>1. OrdersTypeOK
  BY DEF PartInv, OrdersInv
<1>2. OrdersTypeOK'
  BY <1>1 DEF OrdersTypeOK
<1>3. ASSUME NEW v \in Works
      PROVE  OrdersSound(work[v], orders'[v]) /\ MailsSound(orders'[v], mails'[v])
  <2>1. CASE v = w
    BY <1>1, <2>1 DEF OrdersTypeOK
  <2>2. CASE v # w
    <3>1. orders'[v] = orders[v] /\ mails'[v] = mails[v]
      BY <1>1, <2>2 DEF OrdersTypeOK
    <3>. QED
      BY <3>1 DEF PartInv, OrdersInv
  <2>. QED
    BY <2>1, <2>2
<1>4. work' = work
  OBVIOUS
<1>. QED
  BY <1>2, <1>3, <1>4 DEF OrdersInv, OrdersTypeOK, OrdersSound, MailsSound

\* A work is saved only as its orders allow.
LEMMA WorkStepOrders ==
  ASSUME PartInv, NEW w \in Works, WorkStep(w), UNCHANGED mails
  PROVE  OrdersInv'
<1>1. UNCHANGED <<orders, plan, mails>>
  BY DEF WorkStep, CreateWork, LoadWork, SaveWork, Issue, Decide, Lapse, Bill
<1>2. OrdersTypeOK'
  BY <1>1 DEF PartInv, OrdersInv, OrdersTypeOK
<1>3. ASSUME NEW v \in Works
      PROVE  \/ work'[v] = work[v]
             \/ DOMAIN orders[v] = {}
             \/ /\ work'[v] # None
                /\ ~Ordered(v) \/ /\ work'[v].status # "CANCELLED"
                                  /\ work'[v].scope = work[v].scope
  <2>1. WorkTypeOK /\ WorkTypeOK'
    <3>1. [Next]_vars
      BY DEF Next
    <3>. QED
      BY <3>1, NextQuotes DEF PartInv, QuotesInv
  <2>2. CASE work' = work
    BY <2>2
  <2>3. CASE CreateWork(w)
    <3>1. DOMAIN orders[w] = {}
      BY <2>3 DEF CreateWork, Exists, PartInv, OrdersInv, OrdersSound
    <3>2. v # w => work'[v] = work[v]
      BY <2>1, <2>3 DEF CreateWork, WorkTypeOK
    <3>. QED
      BY <3>1, <3>2
  <2>4. ASSUME NEW status \in WorkStatuses, NEW scope \in Scopes,
               NEW booking \in Bookings \cup {None}, SaveWork(w, status, scope, booking)
        PROVE  \/ work'[v] = work[v]
               \/ /\ work'[v] # None
                  /\ ~Ordered(v) \/ /\ work'[v].status # "CANCELLED"
                                    /\ work'[v].scope = work[v].scope
    <3>1. CASE v # w
      BY <2>1, <2>4, <3>1 DEF SaveWork, WorkTypeOK
    <3>2. CASE v = w
      <4> DEFINE row == [status |-> status, scope |-> scope,
                         revision |-> work[w].revision + 1, booking |-> booking]
      <4>1. work'[w] = row
        BY <2>1, <2>4 DEF SaveWork, WorkTypeOK
      <4>2. work[w] \in WorkRows /\ work[w].revision < MaxRevision
        BY <2>1, <2>4 DEF SaveWork, Exists, WorkTypeOK
      <4>3. row \in WorkRows
        <5>1. row.revision \in 0..MaxRevision
          BY <4>2, SupportWorkAssumption DEF WorkRows
        <5>. QED
          BY <5>1 DEF WorkRows
      <4>4. row # None /\ row.status = status /\ row.scope = scope
        BY <4>3, SupportWorkAssumption
      <4> HIDE DEF row
      <4>. QED
        BY <2>4, <3>2, <4>1, <4>4 DEF SaveWork
    <3>. QED
      BY <3>1, <3>2
  <2>. QED
    BY <2>2, <2>3, <2>4 DEF WorkStep, LoadWork, Issue, Decide, Lapse, Bill
<1>4. ASSUME NEW v \in Works
      PROVE  OrdersSound(work'[v], orders[v]) /\ MailsSound(orders[v], mails[v])
  <2>1. OrdersSound(work[v], orders[v]) /\ MailsSound(orders[v], mails[v])
    BY DEF PartInv, OrdersInv
  <2>. QED
    BY <1>3, <2>1 DEF OrdersSound, Ordered
<1>. QED
  BY <1>1, <1>2, <1>4 DEF OrdersInv, OrdersSound, MailsSound

\* A new order is for the parts that the work lists and still needs.
LEMMA CreateOrderKeeps ==
  ASSUME PartInv, NEW w \in Works, Exists(w),
         NEW quantity \in 1 .. work[w].scope.required, CreateOrder(w, quantity)
  PROVE  OrdersInv'
<1> DEFINE os == orders[w]
           o == [status |-> "DRAFT", scope |-> work[w].scope, quantity |-> quantity,
                 received |-> 0, returned |-> 0]
           new == Append(os, o)
<1>1. /\ os \in Seq(OrderRows) /\ mails[w] \in Seq(MailRows)
      /\ OrdersSound(work[w], os) /\ MailsSound(os, mails[w])
      /\ \A m \in DOMAIN mails[w] : mails[w][m] \in MailRows
  BY OrdersTyped
<1>2. work[w] \in WorkRows
  BY DEF PartInv, QuotesInv, WorkTypeOK, Exists
<1>3. work[w].scope \in Scopes /\ work[w].scope.required \in Nat /\ quantity \in Nat
  BY <1>2, SupportWorkAssumption DEF WorkRows
<1>4. o \in OrderRows /\ Active(o)
  BY <1>3 DEF OrderRows, OrderStatuses, Active
<1>5. /\ o.scope = work[w].scope /\ o.quantity = quantity /\ o.status = "DRAFT"
      /\ o.received = 0 /\ o.returned = 0
  OBVIOUS
<1> HIDE DEF o
<1>6. /\ new \in Seq(OrderRows) /\ DOMAIN new = 1..(Len(os) + 1)
      /\ DOMAIN os = 1..Len(os) /\ Len(os) \in Nat
      /\ \A i \in DOMAIN os : new[i] = os[i]
      /\ new[Len(os) + 1] = o
  BY <1>1, <1>4, Appended
<1>7. QuantityOf(new) = QuantityOf(os) + quantity
  BY <1>1, <1>4, <1>5, QuantityAppended
<1>8. QuantityOf(os) + quantity <= work[w].scope.required
  BY DEF CreateOrder, Needed, OrderedQuantity, QuantityOf
<1>9. /\ work[w].status # "CANCELLED" /\ UNCHANGED <<work, plan, mails>>
      /\ orders' = [orders EXCEPT ![w] = new]
  BY DEF CreateOrder, Purchasable, o
<1>10. mails' = [mails EXCEPT ![w] = mails[w]]
  BY <1>9 DEF PartInv, OrdersInv, OrdersTypeOK
<1> HIDE DEF new, os
<1>11. OrdersSound(work[w], new)
  <2>1. \A i \in DOMAIN new : i \in DOMAIN os \/ new[i] = o
    BY <1>6
  <2>2. \A i \in DOMAIN new : /\ new[i].returned <= new[i].received
                              /\ new[i].received <= new[i].quantity
                              /\ new[i].status = "CANCELLED" => new[i].received = new[i].returned
    BY <1>1, <1>3, <1>5, <1>6, <2>1 DEF OrdersSound
  <2>3. \A i \in DOMAIN new : Active(new[i]) => new[i].scope = work[w].scope
    BY <1>1, <1>5, <1>6, <2>1 DEF OrdersSound
  <2>4. work[w] # None
    BY DEF Exists
  <2>. QED
    BY <1>7, <1>8, <1>9, <2>2, <2>3, <2>4 DEF OrdersSound
<1>12. MailsSound(new, mails[w])
  <2>1. \A i \in DOMAIN os : i \in DOMAIN new /\ new[i] = os[i]
    BY <1>6
  <2>. QED
    BY <1>1, <2>1 DEF MailsSound
<1>. QED
  BY <1>1, <1>6, <1>9, <1>10, <1>11, <1>12, OneWorksOrders

\* Mails that change without being opened again stay sound.
LEMMA MailsChanged ==
  ASSUME NEW os, NEW ms, NEW new, NEW t, MailsSound(os, ms),
         DOMAIN new = DOMAIN os, DOMAIN t = DOMAIN ms,
         \A i \in DOMAIN ms : /\ t[i].order = ms[i].order
                              /\ Open(t[i]) => Open(ms[i])
                              /\ MailSound(t[i])
                              /\ MailFits(t[i], new[ms[i].order].status)
  PROVE  MailsSound(new, t)
BY DEF MailsSound

\* What the seller records of an order.
LEMMA EventKeeps ==
  ASSUME PartInv, NEW w \in Works, NEW n \in DOMAIN orders[w],
         NEW kind \in {"SENT", "RECEIPT", "RETURN", "CANCELLED"},
         NEW received \in Nat, NEW returned \in Nat,
         Event(w, n, kind, received, returned),
         returned <= received, received <= orders[w][n].quantity,
         kind = "CANCELLED" => received = returned
  PROVE  OrdersInv'
<1> DEFINE os == orders[w]
           old == os[n]
           status == StatusAfter(old, kind)
           o == [old EXCEPT !.status = status, !.received = received,
                            !.returned = returned]
           new == [os EXCEPT ![n] = o]
<1>1. /\ MayRecord(w, n)
      /\ orders' = [orders EXCEPT ![w] = new]
      /\ UNCHANGED <<work, plan, mails>>
  BY DEF Event
<1>2. /\ os \in Seq(OrderRows) /\ mails[w] \in Seq(MailRows) /\ old \in OrderRows
      /\ OrdersSound(work[w], os) /\ MailsSound(os, mails[w])
      /\ work[w] \in WorkRows
      /\ \A m \in DOMAIN mails[w] : mails[w][m] \in MailRows
  BY OrdersTyped
<1>3. status \in OrderStatuses
  BY <1>2 DEF StatusAfter, OrderRows, OrderStatuses
<1>4. /\ o \in OrderRows /\ o.status = status /\ o.received = received
      /\ o.returned = returned /\ o.quantity = old.quantity /\ o.scope = old.scope
  BY <1>2, <1>3 DEF OrderRows
<1>5. Active(old)
  BY <1>1 DEF MayRecord, Active
<1>6. status = "CANCELLED" => kind = "CANCELLED"
  BY <1>5 DEF StatusAfter, Active
<1>7. status = "DRAFT" => old.status = "DRAFT"
  BY DEF StatusAfter
<1>8. mails' = [mails EXCEPT ![w] = mails[w]]
  BY <1>1 DEF PartInv, OrdersInv, OrdersTypeOK
<1> HIDE DEF o, status
<1>9. OrdersSound(work[w], new)
  <2>1. /\ o.returned <= o.received /\ o.received <= o.quantity
        /\ o.status = "CANCELLED" => o.received = o.returned
        /\ Active(o) => Active(os[n])
    BY <1>4, <1>5, <1>6
  <2> HIDE DEF os
  <2>. QED
    BY <1>2, <1>4, <2>1, OrderReplaced
<1>10. /\ DOMAIN new = DOMAIN os /\ new \in Seq(OrderRows)
       /\ \A j \in DOMAIN os : new[j] = IF j = n THEN o ELSE os[j]
  BY <1>2, <1>4, PlaceChanged
<1> HIDE DEF new
<1>11. MailsSound(new, mails[w])
  <2>1. ASSUME NEW i \in DOMAIN mails[w]
        PROVE  MailSound(mails[w][i]) /\ MailFits(mails[w][i], new[mails[w][i].order].status)
    <3>1. /\ mails[w][i].order \in DOMAIN os /\ MailSound(mails[w][i])
          /\ MailFits(mails[w][i], os[mails[w][i].order].status)
      BY <1>2 DEF MailsSound
    <3>2. CASE mails[w][i].order = n
      <4>1. mails[w][i] \in MailsOf(w, n)
        BY <3>2 DEF MailsOf
      <4>2. ~Undecided(mails[w][i])
        BY <1>1, <4>1 DEF MayRecord
      <4>3. new[mails[w][i].order].status = status
        BY <1>4, <1>10, <3>2
      <4>. QED
        BY <1>7, <3>1, <3>2, <4>2, <4>3 DEF MailFits
    <3>3. CASE mails[w][i].order # n
      BY <1>10, <3>1, <3>3
    <3>. QED
      BY <3>2, <3>3
  <2>. QED
    BY <1>2, <1>10, <2>1, MailsChanged
<1>. QED
  BY <1>1, <1>2, <1>8, <1>9, <1>10, <1>11, OneWorksOrders

\* The seller's steps on an order.
LEMMA OrderStepOrders ==
  ASSUME PartInv, NEW w \in Works, Exists(w), OrderStep(w)
  PROVE  OrdersInv'
<1>1. ASSUME NEW quantity \in 1 .. work[w].scope.required, CreateOrder(w, quantity)
      PROVE  OrdersInv'
  BY <1>1, CreateOrderKeeps
<1>2. ASSUME NEW n \in DOMAIN orders[w] PROVE orders[w][n] \in OrderRows
            /\ orders[w][n].received \in Nat /\ orders[w][n].returned \in Nat
            /\ orders[w][n].quantity \in Nat
            /\ orders[w][n].returned <= orders[w][n].received
            /\ orders[w][n].received <= orders[w][n].quantity
  <2>1. orders[w][n] \in OrderRows /\ OrdersSound(work[w], orders[w])
    BY OrdersTyped
  <2>. QED
    BY <2>1 DEF OrdersSound, OrderRows
<1>3. ASSUME NEW n \in DOMAIN orders[w], SentByHand(w, n)
      PROVE  OrdersInv'
  BY <1>2, <1>3, EventKeeps DEF SentByHand
<1>4. ASSUME NEW n \in DOMAIN orders[w], NEW total \in 0 .. orders[w][n].quantity,
             Receipt(w, n, total)
      PROVE  OrdersInv'
  <2>1. /\ total \in Nat /\ orders[w][n].returned <= total
        /\ total <= orders[w][n].quantity
        /\ Event(w, n, "RECEIPT", total, orders[w][n].returned)
    BY <1>2, <1>4 DEF Receipt
  <2>. QED
    BY <1>2, <2>1, EventKeeps
<1>5. ASSUME NEW n \in DOMAIN orders[w], NEW total \in 0 .. orders[w][n].quantity,
             Return(w, n, total)
      PROVE  OrdersInv'
  <2>1. /\ total \in Nat /\ total <= orders[w][n].received
        /\ Event(w, n, "RETURN", orders[w][n].received, total)
    BY <1>2, <1>5 DEF Return
  <2>. QED
    BY <1>2, <2>1, EventKeeps
<1>6. ASSUME NEW n \in DOMAIN orders[w], CancelOrder(w, n)
      PROVE  OrdersInv'
  <2>1. /\ orders[w][n].received = orders[w][n].returned
        /\ Event(w, n, "CANCELLED", orders[w][n].received, orders[w][n].returned)
    BY <1>2, <1>6 DEF CancelOrder
  <2>. QED
    BY <1>2, <2>1, EventKeeps
<1>. QED
  BY <1>1, <1>3, <1>4, <1>5, <1>6 DEF OrderStep

-----------------------------------------------------------------------------

\* An order is mailed when none of its mails is open.
LEMMA SendKeeps ==
  ASSUME PartInv, NEW w \in Works, NEW n \in DOMAIN orders[w], NEW p \in Processes,
         Send(w, n, p)
  PROVE  OrdersInv'
<1> DEFINE ms == mails[w]
           mail == [order |-> n, status |-> "SENDING", resolution |-> None,
                    sender |-> p, left |-> FALSE, outcome |-> None]
           new == Append(ms, mail)
<1>1. /\ orders[w][n].status = "DRAFT"
      /\ \A x \in MailsOf(w, n) : ~Blocks(x)
      /\ mails' = [mails EXCEPT ![w] = new]
      /\ UNCHANGED <<work, orders, plan>>
  BY DEF Send
<1>2. /\ orders[w] \in Seq(OrderRows) /\ ms \in Seq(MailRows)
      /\ OrdersSound(work[w], orders[w]) /\ MailsSound(orders[w], ms)
      /\ \A m \in DOMAIN ms : ms[m] \in MailRows
  BY OrdersTyped
<1>3. mail \in MailRows
  <2>1. n \in Nat
    BY <1>2
  <2>. QED
    BY <2>1 DEF MailRows
<1>4. /\ mail.order = n /\ MailSound(mail) /\ MailFits(mail, "DRAFT")
  BY PartOrdersAssumption DEF MailSound, MailFits, Undecided, Outcomes
<1> HIDE DEF mail
<1>5. /\ new \in Seq(MailRows) /\ DOMAIN new = 1..(Len(ms) + 1)
      /\ DOMAIN ms = 1..Len(ms) /\ Len(ms) \in Nat
      /\ \A i \in DOMAIN ms : new[i] = ms[i]
      /\ new[Len(ms) + 1] = mail
  BY <1>2, <1>3, Appended
<1>6. \A i \in DOMAIN ms : ms[i].order = n => ~Open(ms[i])
  <2>1. ASSUME NEW i \in DOMAIN ms, ms[i].order = n PROVE ~Open(ms[i])
    <3>1. ms[i] \in MailsOf(w, n)
      BY <2>1 DEF MailsOf
    <3>2. ~Blocks(ms[i]) /\ ms[i].status \in Outcomes \cup {"SENDING"}
      BY <1>1, <1>2, <3>1 DEF MailRows
    <3>. QED
      BY <3>2 DEF Blocks, Open, Outcomes
  <2>. QED
    BY <2>1
<1>7. orders' = [orders EXCEPT ![w] = orders[w]]
  BY <1>1 DEF PartInv, OrdersInv, OrdersTypeOK
<1> HIDE DEF new, ms
<1>8. MailsSound(orders[w], new)
  <2>1. \A i \in DOMAIN new : \/ i \in DOMAIN ms /\ new[i] = ms[i]
                              \/ i = Len(ms) + 1 /\ new[i] = mail
    BY <1>5
  <2>2. \A i \in DOMAIN new : /\ new[i].order \in DOMAIN orders[w]
                              /\ MailSound(new[i])
                              /\ MailFits(new[i], orders[w][new[i].order].status)
    BY <1>1, <1>2, <1>4, <2>1 DEF MailsSound
  <2>3. ASSUME NEW i \in DOMAIN new, NEW j \in DOMAIN new,
               new[i].order = new[j].order, Open(new[i]), Open(new[j])
        PROVE  i = j
    BY <1>2, <1>4, <1>6, <2>1, <2>3 DEF MailsSound
  <2>. QED
    BY <2>2, <2>3 DEF MailsSound
<1>. QED
  BY <1>1, <1>2, <1>5, <1>7, <1>8, OneWorksOrders DEF ms

\* One mail of a work changes, and perhaps its order.
LEMMA OneMail ==
  ASSUME PartInv, NEW w \in Works, NEW m \in DOMAIN mails[w], NEW mail \in MailRows,
         NEW o \in OrderRows,
         mail.order = mails[w][m].order,
         mails' = [mails EXCEPT ![w] = [mails[w] EXCEPT ![m] = mail]],
         orders' = [orders EXCEPT ![w] = [orders[w] EXCEPT ![mail.order] = o]],
         UNCHANGED <<work, plan>>,
         Open(mail) => Open(mails[w][m]), MailSound(mail), MailFits(mail, o.status),
         \/ o = orders[w][mail.order]
         \/ /\ o = [orders[w][mail.order] EXCEPT !.status = "SENT"]
            /\ Active(orders[w][mail.order])
  PROVE  OrdersInv'
<1> DEFINE os == orders[w]
           ms == mails[w]
           n == mail.order
           new == [os EXCEPT ![n] = o]
           t == [ms EXCEPT ![m] = mail]
<1>1. /\ os \in Seq(OrderRows) /\ ms \in Seq(MailRows)
      /\ OrdersSound(work[w], os) /\ MailsSound(os, ms)
      /\ \A i \in DOMAIN os : os[i] \in OrderRows
  BY OrdersTyped
<1>2. n \in DOMAIN os
  BY <1>1 DEF MailsSound
<1>3. work[w] \in WorkRows
  BY <1>2, OrdersTyped
<1>4. /\ o.quantity = os[n].quantity /\ o.scope = os[n].scope
      /\ o.received = os[n].received /\ o.returned = os[n].returned
      /\ o.status = os[n].status \/ (o.status = "SENT" /\ Active(os[n]))
  <2>1. os[n] \in OrderRows
    BY <1>1, <1>2
  <2>2. o = os[n] \/ (o = [os[n] EXCEPT !.status = "SENT"] /\ Active(os[n]))
    OBVIOUS
  <2> HIDE DEF os, n
  <2>. QED
    BY <2>1, <2>2 DEF OrderRows
<1>5. /\ t \in Seq(MailRows) /\ DOMAIN t = DOMAIN ms
      /\ \A i \in DOMAIN ms : t[i] = IF i = m THEN mail ELSE ms[i]
  BY <1>1, PlaceChanged
<1>6. /\ new \in Seq(OrderRows) /\ DOMAIN new = DOMAIN os
      /\ \A i \in DOMAIN os : new[i] = IF i = n THEN o ELSE os[i]
  BY <1>1, <1>2, PlaceChanged
<1> HIDE DEF os, ms
<1>7. OrdersSound(work[w], new)
  <2>1. /\ Active(o) => Active(os[n])
        /\ o.returned <= o.received /\ o.received <= o.quantity
        /\ o.status = "CANCELLED" => o.received = o.returned
    BY <1>1, <1>2, <1>4 DEF OrdersSound, Active
  <2> HIDE DEF n
  <2>. QED
    BY <1>1, <1>2, <1>3, <1>4, <2>1, OrderReplaced
<1> HIDE DEF new, t
<1>8. MailsSound(new, t)
  <2>1. ASSUME NEW i \in DOMAIN ms
        PROVE  /\ t[i].order = ms[i].order
               /\ Open(t[i]) => Open(ms[i])
               /\ MailSound(t[i])
               /\ MailFits(t[i], new[ms[i].order].status)
    <3>1. /\ ms[i].order \in DOMAIN os /\ MailSound(ms[i])
          /\ MailFits(ms[i], os[ms[i].order].status)
      BY <1>1 DEF MailsSound
    <3>2. CASE i = m
      BY <1>2, <1>5, <1>6, <3>2 DEF ms
    <3>3. CASE i # m
      BY <1>2, <1>4, <1>5, <1>6, <3>1, <3>3 DEF MailFits
    <3>. QED
      BY <3>2, <3>3
  <2>. QED
    BY <1>1, <1>5, <1>6, <2>1, MailsChanged
<1>. QED
  BY <1>1, <1>5, <1>6, <1>7, <1>8, OneWorksOrders DEF os, ms, new, t

\* One mail of a work changes, and its order does not.
LEMMA OneMailOnly ==
  ASSUME PartInv, NEW w \in Works, NEW m \in DOMAIN mails[w], NEW mail \in MailRows,
         mail.order = mails[w][m].order,
         mails' = [mails EXCEPT ![w] = [mails[w] EXCEPT ![m] = mail]],
         UNCHANGED <<work, orders, plan>>,
         Open(mail) => Open(mails[w][m]), MailSound(mail),
         \A status \in OrderStatuses :
           MailFits(mails[w][m], status) => MailFits(mail, status)
  PROVE  OrdersInv'
<1> DEFINE n == mail.order
           o == orders[w][n]
<1>1. /\ orders[w] \in Seq(OrderRows) /\ n \in DOMAIN orders[w]
      /\ MailFits(mails[w][m], o.status) /\ o \in OrderRows
  BY OrdersTyped DEF MailsSound
<1>2. MailFits(mail, o.status)
  BY <1>1 DEF OrderRows
<1>3. orders' = [orders EXCEPT ![w] = [orders[w] EXCEPT ![n] = o]]
  BY <1>1 DEF PartInv, OrdersInv, OrdersTypeOK
<1>. QED
  BY <1>1, <1>2, <1>3, OneMail

\* A mail leaves, is answered, or is forgotten by its process.
LEMMA MailMoves ==
  ASSUME PartInv, NEW w \in Works, NEW m \in DOMAIN mails[w],
         \/ Deliver(w, m)
         \/ \E outcome \in Outcomes : Answer(w, m, outcome)
         \/ RecordFails(w, m)
  PROVE  OrdersInv'
<1> DEFINE mail == mails[w][m]
<1>1. /\ mails[w] \in Seq(MailRows) /\ mail \in MailRows /\ MailSound(mail)
  BY OrdersTyped DEF MailsSound
<1>2. ASSUME Deliver(w, m) PROVE OrdersInv'
  <2> DEFINE new == [mail EXCEPT !.left = TRUE]
  <2>1. /\ mails' = [mails EXCEPT ![w] = [mails[w] EXCEPT ![m] = new]]
        /\ UNCHANGED <<work, orders, plan>>
        /\ mail.sender # None /\ mail.outcome = None
    BY <1>2 DEF Deliver, Waiting
  <2>2. /\ new \in MailRows /\ new.order = mail.order /\ new.status = mail.status
        /\ new.resolution = mail.resolution /\ new.sender = mail.sender
        /\ new.outcome = mail.outcome /\ new.left = TRUE
    BY <1>1 DEF MailRows
  <2> HIDE DEF new, mail
  <2>3. MailSound(new)
    BY <1>1, <2>1, <2>2, PartOrdersAssumption DEF MailSound, Outcomes
  <2>4. /\ Open(new) => Open(mail)
        /\ \A status \in OrderStatuses : MailFits(mail, status) => MailFits(new, status)
    BY <2>2 DEF Open, MailFits, Undecided
  <2>. QED
    BY <2>1, <2>2, <2>3, <2>4, OneMailOnly DEF mail
<1>3. ASSUME NEW outcome \in Outcomes, Answer(w, m, outcome) PROVE OrdersInv'
  <2> DEFINE new == [mail EXCEPT !.outcome = outcome]
  <2>1. /\ mails' = [mails EXCEPT ![w] = [mails[w] EXCEPT ![m] = new]]
        /\ UNCHANGED <<work, orders, plan>>
        /\ mail.sender # None
        /\ outcome = "SMTP_ACCEPTED" => mail.left
        /\ outcome = "FAILED" => ~mail.left
    BY <1>3 DEF Answer, Waiting
  <2>2. /\ new \in MailRows /\ new.order = mail.order /\ new.status = mail.status
        /\ new.resolution = mail.resolution /\ new.sender = mail.sender
        /\ new.outcome = outcome /\ new.left = mail.left
    BY <1>1 DEF MailRows
  <2> HIDE DEF new, mail
  <2>3. MailSound(new)
    BY <1>1, <2>1, <2>2 DEF MailSound
  <2>4. /\ Open(new) => Open(mail)
        /\ \A status \in OrderStatuses : MailFits(mail, status) => MailFits(new, status)
    BY <2>2 DEF Open, MailFits, Undecided
  <2>. QED
    BY <2>1, <2>2, <2>3, <2>4, OneMailOnly DEF mail
<1>4. ASSUME RecordFails(w, m) PROVE OrdersInv'
  <2> DEFINE new == [mail EXCEPT !.sender = None, !.outcome = None]
  <2>1. /\ mails' = [mails EXCEPT ![w] = [mails[w] EXCEPT ![m] = new]]
        /\ UNCHANGED <<work, orders, plan>>
    BY <1>1, <1>4 DEF RecordFails, PartInv, OrdersInv, OrdersTypeOK
  <2>2. /\ new \in MailRows /\ new.order = mail.order /\ new.status = mail.status
        /\ new.resolution = mail.resolution /\ new.sender = None
        /\ new.outcome = None /\ new.left = mail.left
    BY <1>1 DEF MailRows
  <2> HIDE DEF new, mail
  <2>3. MailSound(new)
    BY <1>1, <2>2, PartOrdersAssumption DEF MailSound, Outcomes
  <2>4. /\ Open(new) => Open(mail)
        /\ \A status \in OrderStatuses : MailFits(mail, status) => MailFits(new, status)
    BY <2>2 DEF Open, MailFits, Undecided
  <2>. QED
    BY <2>1, <2>2, <2>3, <2>4, OneMailOnly DEF mail
<1>. QED
  BY <1>2, <1>3, <1>4

\* The answer is recorded; an order that was cancelled meanwhile stays so.
LEMMA RecordKeeps ==
  ASSUME PartInv, NEW w \in Works, NEW m \in DOMAIN mails[w], Record(w, m)
  PROVE  OrdersInv'
<1> DEFINE mail == mails[w][m]
           n == mail.order
           new == [mail EXCEPT !.status = mail.outcome, !.sender = None, !.outcome = None]
           o == SentByMail(orders[w][n], mail.outcome)
<1>1. /\ mails[w] \in Seq(MailRows) /\ mail \in MailRows /\ MailSound(mail)
      /\ orders[w] \in Seq(OrderRows) /\ n \in DOMAIN orders[w]
      /\ MailFits(mail, orders[w][n].status) /\ orders[w][n] \in OrderRows
  BY OrdersTyped DEF MailsSound
<1>2. /\ mail.outcome # None
      /\ mails' = [mails EXCEPT ![w] = [mails[w] EXCEPT ![m] = new]]
      /\ orders' = [orders EXCEPT ![w] = [orders[w] EXCEPT ![n] = o]]
      /\ UNCHANGED <<work, plan>>
  BY DEF Record
<1>3. mail.outcome \in Outcomes
  BY <1>1, <1>2 DEF MailRows
<1>4. /\ new \in MailRows /\ new.order = n /\ new.status = mail.outcome
      /\ new.resolution = mail.resolution /\ new.sender = None
      /\ new.outcome = None /\ new.left = mail.left
  BY <1>1, <1>3 DEF MailRows
<1>5. o \in OrderRows
  BY <1>1 DEF SentByMail, OrderRows, OrderStatuses
<1>6. \/ o = orders[w][n]
      \/ o = [orders[w][n] EXCEPT !.status = "SENT"] /\ Active(orders[w][n])
  BY DEF SentByMail, Active
<1>7. o.status = IF mail.outcome = "SMTP_ACCEPTED" /\ orders[w][n].status = "DRAFT"
                   THEN "SENT" ELSE orders[w][n].status
  BY <1>1 DEF SentByMail, OrderRows
<1> HIDE DEF new, o, mail
<1>8. /\ mail.sender # None /\ mail.status \in {"SENDING", "UNKNOWN"}
  BY <1>1, <1>2 DEF MailSound
<1>9. MailSound(new)
  BY <1>1, <1>3, <1>4, PartOrdersAssumption DEF MailSound, Outcomes
<1>10. MailFits(new, o.status)
  BY <1>1, <1>3, <1>4, <1>7, <1>8 DEF MailFits, Undecided, Outcomes
<1>11. Open(new) => Open(mail)
  BY <1>4, <1>8 DEF Open
<1>. QED
  BY <1>1, <1>2, <1>4, <1>5, <1>6, <1>9, <1>10, <1>11, OneMail DEF mail

\* The seller knows what became of a mail; its order is not cancelled.
LEMMA ResolveKeeps ==
  ASSUME PartInv, NEW w \in Works, NEW m \in DOMAIN mails[w], NEW p \in Processes,
         NEW resolution \in {"RECEIVED", "NOT_RECEIVED"}, Resolve(p, w, m, resolution)
  PROVE  OrdersInv'
<1> DEFINE mail == mails[w][m]
           n == mail.order
           new == [mail EXCEPT !.resolution = resolution]
           o == [orders[w][n] EXCEPT !.status =
                   IF resolution = "RECEIVED" THEN "SENT" ELSE orders[w][n].status]
<1>1. /\ mails[w] \in Seq(MailRows) /\ mail \in MailRows /\ MailSound(mail)
      /\ orders[w] \in Seq(OrderRows) /\ n \in DOMAIN orders[w]
      /\ MailFits(mail, orders[w][n].status) /\ orders[w][n] \in OrderRows
  BY OrdersTyped DEF MailsSound
<1>2. /\ mail.status = "UNKNOWN" /\ mail.resolution = None
      /\ mails' = [mails EXCEPT ![w] = [mails[w] EXCEPT ![m] = new]]
      /\ orders' = [orders EXCEPT ![w] = [orders[w] EXCEPT ![n] = o]]
      /\ UNCHANGED <<work, plan>>
  BY DEF Resolve
<1>3. /\ new \in MailRows /\ new.order = n /\ new.status = "UNKNOWN"
      /\ new.resolution = resolution /\ new.sender = mail.sender
      /\ new.outcome = mail.outcome /\ new.left = mail.left
  BY <1>1, <1>2 DEF MailRows
<1>4. Active(orders[w][n])
  BY <1>1, <1>2 DEF Active, MailFits, Undecided
<1>5. /\ o \in OrderRows
      /\ resolution = "RECEIVED" => /\ o.status = "SENT"
                                    /\ o = [orders[w][n] EXCEPT !.status = "SENT"]
      /\ resolution # "RECEIVED" => o = orders[w][n]
  BY <1>1 DEF OrderRows, OrderStatuses
<1> HIDE DEF new, o, mail
<1>6. MailSound(new)
  BY <1>1, <1>2, <1>3 DEF MailSound
<1>7. MailFits(new, o.status)
  <2>1. CASE resolution = "RECEIVED"
    BY <1>5, <2>1 DEF MailFits
  <2>2. CASE resolution # "RECEIVED"
    <3>1. o.status # "CANCELLED"
      BY <1>4, <1>5, <2>2 DEF Active
    <3>2. new.status = "UNKNOWN" /\ new.resolution # "RECEIVED"
      BY <1>3, <2>2
    <3>. QED
      BY <3>1, <3>2 DEF MailFits
  <2>. QED
    BY <2>1, <2>2
<1>8. Open(new) => Open(mail)
  BY <1>2, <1>3, PartOrdersAssumption DEF Open
<1>9. \/ o = orders[w][n]
      \/ o = [orders[w][n] EXCEPT !.status = "SENT"] /\ Active(orders[w][n])
  BY <1>4, <1>5
<1>10. new.order = mails[w][m].order /\ n = mails[w][m].order
       /\ (Open(new) => Open(mails[w][m]))
  BY <1>3, <1>8 DEF mail
<1> HIDE DEF n
<1>. QED
  BY <1>2, <1>3, <1>5, <1>6, <1>7, <1>9, <1>10, OneMail

\* Mails are given up, or lose their process.
LEMMA MailsKept ==
  ASSUME PartInv, mails' \in [Works -> Seq(MailRows)], UNCHANGED <<work, orders, plan>>,
         \A w \in Works :
           /\ DOMAIN mails'[w] = DOMAIN mails[w]
           /\ \A m \in DOMAIN mails[w] :
                \/ mails'[w][m] = mails[w][m]
                \/ /\ mails[w][m].status = "SENDING"
                   /\ mails'[w][m] = [mails[w][m] EXCEPT !.status = "UNKNOWN"]
                \/ mails'[w][m] = [mails[w][m] EXCEPT !.sender = None, !.outcome = None]
  PROVE  OrdersInv'
<1>1. OrdersTypeOK'
  BY DEF PartInv, OrdersInv, OrdersTypeOK
<1>2. ASSUME NEW w \in Works
      PROVE  OrdersSound(work[w], orders[w]) /\ MailsSound(orders[w], mails'[w])
  <2>1. /\ OrdersSound(work[w], orders[w]) /\ MailsSound(orders[w], mails[w])
        /\ \A m \in DOMAIN mails[w] : mails[w][m] \in MailRows
    BY OrdersTyped
  <2>2. ASSUME NEW m \in DOMAIN mails[w]
        PROVE  /\ mails'[w][m].order = mails[w][m].order
               /\ Open(mails'[w][m]) => Open(mails[w][m])
               /\ MailSound(mails'[w][m])
               /\ MailFits(mails'[w][m], orders[w][mails[w][m].order].status)
    <3>1. /\ MailSound(mails[w][m])
          /\ MailFits(mails[w][m], orders[w][mails[w][m].order].status)
      BY <2>1 DEF MailsSound
    <3>2. CASE mails'[w][m] = mails[w][m]
      BY <3>1, <3>2
    <3>3. CASE /\ mails[w][m].status = "SENDING"
               /\ mails'[w][m] = [mails[w][m] EXCEPT !.status = "UNKNOWN"]
      <4>1. PICK mail : mail = mails[w][m] /\ mail \in MailRows
        BY <2>1
      <4>2. PICK new : new = mails'[w][m]
        OBVIOUS
      <4>3. /\ new.order = mail.order /\ new.status = "UNKNOWN"
            /\ new.resolution = mail.resolution /\ new.sender = mail.sender
            /\ new.outcome = mail.outcome /\ new.left = mail.left
        BY <3>3, <4>1, <4>2 DEF MailRows
      <4>4. mail.status = "SENDING"
        BY <3>3, <4>1
      <4>5. MailSound(mail) /\ MailFits(mail, orders[w][mail.order].status)
        BY <3>1, <4>1
      <4>6. MailSound(new) /\ Open(mail)
        BY <4>3, <4>4, <4>5, PartOrdersAssumption DEF MailSound, Open
      <4>7. MailFits(new, orders[w][mail.order].status)
        BY <4>3, <4>4, <4>5 DEF MailFits, Undecided
      <4>. QED
        BY <4>1, <4>2, <4>3, <4>6, <4>7
    <3>4. CASE mails'[w][m] = [mails[w][m] EXCEPT !.sender = None, !.outcome = None]
      <4>1. PICK mail : mail = mails[w][m] /\ mail \in MailRows
        BY <2>1
      <4>2. PICK new : new = mails'[w][m]
        OBVIOUS
      <4>3. /\ new.order = mail.order /\ new.status = mail.status
            /\ new.resolution = mail.resolution /\ new.sender = None
            /\ new.outcome = None /\ new.left = mail.left
        BY <3>4, <4>1, <4>2 DEF MailRows
      <4>4. MailSound(mail) /\ MailFits(mail, orders[w][mail.order].status)
        BY <3>1, <4>1
      <4>5. MailSound(new)
        BY <4>3, <4>4, PartOrdersAssumption DEF MailSound, Outcomes
      <4>6. /\ MailFits(new, orders[w][mail.order].status)
            /\ Open(new) => Open(mail)
        BY <4>3, <4>4 DEF MailFits, Undecided, Open
      <4>. QED
        BY <4>1, <4>2, <4>3, <4>5, <4>6
    <3>. QED
      BY <3>2, <3>3, <3>4
  <2>. QED
    BY <2>1, <2>2, MailsChanged
<1>3. work' = work /\ orders' = orders
  OBVIOUS
<1>4. \A w \in Works :
        OrdersSound(work'[w], orders'[w]) /\ MailsSound(orders'[w], mails'[w])
  BY <1>2, <1>3
<1>. QED
  BY <1>1, <1>4 DEF OrdersInv

LEMMA RecoverKeeps ==
  ASSUME PartInv, NEW w \in Works, NEW p \in Processes,
         NEW old \in SUBSET Recoverable(w, p), Recover(p, w, old)
  PROVE  OrdersInv'
<1> DEFINE t == [m \in DOMAIN mails[w] |->
                   IF m \in old THEN [mails[w][m] EXCEPT !.status = "UNKNOWN"]
                                ELSE mails[w][m]]
<1>1. mails' = [mails EXCEPT ![w] = t] /\ UNCHANGED <<work, orders, plan>>
  BY DEF Recover
<1>2. mails[w] \in Seq(MailRows) /\ \A m \in DOMAIN mails[w] : mails[w][m] \in MailRows
  BY OrdersTyped
<1>3. mails \in [Works -> Seq(MailRows)]
  BY DEF PartInv, OrdersInv, OrdersTypeOK
<1>4. t \in Seq(MailRows)
  <2>1. \A m \in DOMAIN mails[w] : t[m] \in MailRows
    BY <1>2 DEF MailRows, Outcomes
  <2>2. t = [m \in DOMAIN mails[w] |-> t[m]] /\ DOMAIN t = DOMAIN mails[w]
    OBVIOUS
  <2> HIDE DEF t
  <2>. QED
    BY <1>2, <2>1, <2>2, Mapped
<1>5. \A m \in old : m \in DOMAIN mails[w] /\ mails[w][m].status = "SENDING"
  BY DEF Recoverable
<1>6. \A v \in Works : mails'[v] = IF v = w THEN t ELSE mails[v]
  BY <1>1, <1>3
<1>7. mails' \in [Works -> Seq(MailRows)]
  BY <1>1, <1>3, <1>4
<1>8. ASSUME NEW v \in Works
      PROVE  /\ DOMAIN mails'[v] = DOMAIN mails[v]
             /\ \A m \in DOMAIN mails[v] :
                  \/ mails'[v][m] = mails[v][m]
                  \/ /\ mails[v][m].status = "SENDING"
                     /\ mails'[v][m] = [mails[v][m] EXCEPT !.status = "UNKNOWN"]
                  \/ mails'[v][m] = [mails[v][m] EXCEPT !.sender = None, !.outcome = None]
  <2>1. CASE v = w
    <3>1. mails'[v] = t
      BY <1>6, <2>1
    <3>2. DOMAIN t = DOMAIN mails[w]
      OBVIOUS
    <3>3. \A m \in DOMAIN mails[w] :
            t[m] = IF m \in old THEN [mails[w][m] EXCEPT !.status = "UNKNOWN"]
                               ELSE mails[w][m]
      OBVIOUS
    <3> HIDE DEF t
    <3>. QED
      BY <1>5, <2>1, <3>1, <3>2, <3>3
  <2>2. CASE v # w
    BY <1>6, <2>2
  <2>. QED
    BY <2>1, <2>2
<1>. QED
  BY <1>1, <1>7, <1>8, MailsKept

LEMMA RestartKeeps ==
  ASSUME PartInv, NEW p \in Processes, Restart(p)
  PROVE  OrdersInv'
<1>1. /\ UNCHANGED <<work, orders, plan>>
      /\ mails' = [w \in Works |-> [m \in DOMAIN mails[w] |->
           IF mails[w][m].sender = p
           THEN [mails[w][m] EXCEPT !.sender = None, !.outcome = None]
           ELSE mails[w][m]]]
  BY DEF Restart
<1>2. ASSUME NEW w \in Works PROVE mails'[w] \in Seq(MailRows)
  <2>1. mails[w] \in Seq(MailRows) /\ \A m \in DOMAIN mails[w] : mails[w][m] \in MailRows
    BY OrdersTyped
  <2>2. PICK t : t = [m \in DOMAIN mails[w] |->
           IF mails[w][m].sender = p
           THEN [mails[w][m] EXCEPT !.sender = None, !.outcome = None]
           ELSE mails[w][m]]
    OBVIOUS
  <2>3. \A m \in DOMAIN mails[w] : t[m] \in MailRows
    BY <2>1, <2>2 DEF MailRows
  <2>4. t = [m \in DOMAIN mails[w] |-> t[m]] /\ DOMAIN t = DOMAIN mails[w]
    BY <2>2
  <2>5. t \in Seq(MailRows)
    BY <2>1, <2>3, <2>4, Mapped
  <2>. QED
    BY <1>1, <2>2, <2>5
<1>3. mails' \in [Works -> Seq(MailRows)]
  <2>1. mails' = [w \in Works |-> mails'[w]]
    BY <1>1
  <2>. QED
    BY <1>2, <2>1
<1>4. ASSUME NEW v \in Works
      PROVE  /\ DOMAIN mails'[v] = DOMAIN mails[v]
             /\ \A m \in DOMAIN mails[v] :
                  \/ mails'[v][m] = mails[v][m]
                  \/ /\ mails[v][m].status = "SENDING"
                     /\ mails'[v][m] = [mails[v][m] EXCEPT !.status = "UNKNOWN"]
                  \/ mails'[v][m] = [mails[v][m] EXCEPT !.sender = None, !.outcome = None]
  BY <1>1
<1>. QED
  BY <1>1, <1>3, <1>4, MailsKept

LEMMA NextOrders == PartInv /\ [Next]_vars => OrdersInv'
<1> SUFFICES ASSUME PartInv, [Next]_vars PROVE OrdersInv'
  OBVIOUS
<1>1. ASSUME NEW w \in Works, WorkStep(w), UNCHANGED mails PROVE OrdersInv'
  BY <1>1, WorkStepOrders
<1>2. ASSUME NEW w \in Works, Exists(w), OrderStep(w) PROVE OrdersInv'
  BY <1>2, OrderStepOrders
<1>3. ASSUME NEW w \in Works, MailStep(w) PROVE OrdersInv'
  BY <1>3, SendKeeps, MailMoves, RecordKeeps, ResolveKeeps, RecoverKeeps DEF MailStep
<1>4. ASSUME NEW p \in Processes, Restart(p) PROVE OrdersInv'
  BY <1>4, RestartKeeps
<1>5. CASE UNCHANGED vars
  BY <1>5 DEF vars, PartInv, OrdersInv, OrdersTypeOK, OrdersSound, MailsSound
<1>. QED
  BY <1>1, <1>2, <1>3, <1>4, <1>5 DEF Next

\* The invariant of works, quotes, orders and mails.
THEOREM PartInvariant == Spec => []PartInv
<1>1. Init => PartInv
  BY InitQuotes, InitOrders DEF PartInv
<1>2. PartInv /\ [Next]_vars => PartInv'
  BY NextQuotes, NextOrders DEF PartInv
<1>. QED
  BY <1>1, <1>2, PTL DEF Spec

\* The rows keep their types.
THEOREM PartOrdersTypeCorrect == Spec => []TypeOK
<1>1. PartInv => TypeOK
  BY DEF PartInv, QuotesInv, OrdersInv, OrdersTypeOK, TypeOK
<1>. QED
  BY <1>1, PartInvariant, PTL

\* The orders in force are for the parts the work lists and within its need,
\* whatever is saved of works and orders by the two services.
THEOREM OrdersMatchTheirWork == Spec => []OrdersMatchWork
<1>1. PartInv => OrdersMatchWork
  BY DEF PartInv, OrdersInv, OrdersSound, OrdersMatchWork, QuantityOf, OrderedQuantity
<1>. QED
  BY <1>1, PartInvariant, PTL

\* What is said of an order is true of its mails.
THEOREM OrderStatusesAreTruthful == Spec => []OrderStatusTruthful
<1>1. ASSUME PartInv PROVE OrderStatusTruthful
  <2>1. ASSUME NEW w \in Works, NEW n \in DOMAIN orders[w]
        PROVE  LET o == orders[w][n] IN
               /\ o.returned <= o.received /\ o.received <= o.quantity
               /\ o.status = "DRAFT" =>
                    \A mail \in MailsOf(w, n) :
                      mail.status # "SMTP_ACCEPTED" /\ mail.resolution # "RECEIVED"
               /\ o.status = "CANCELLED" => /\ o.received = o.returned
                                            /\ \A mail \in MailsOf(w, n) : ~Undecided(mail)
    <3>1. OrdersSound(work[w], orders[w]) /\ MailsSound(orders[w], mails[w])
      BY <1>1 DEF PartInv, OrdersInv
    <3>2. \A mail \in MailsOf(w, n) : MailFits(mail, orders[w][n].status)
      BY <3>1 DEF MailsOf, MailsSound
    <3>. QED
      BY <3>1, <3>2 DEF OrdersSound, MailFits
  <2>. QED
    BY <2>1 DEF OrderStatusTruthful
<1>. QED
  BY <1>1, PartInvariant, PTL

\* A supplier gets the mail of an order once, and once more for each that was
\* declared not received.
THEOREM OrdersAreMailedOnce == Spec => []OrderedOnce
<1>1. ASSUME PartInv PROVE OrderedOnce
  <2>1. ASSUME NEW w \in Works, NEW n \in DOMAIN orders[w]
        PROVE  Cardinality(Left(w, n)) <= 1 + Cardinality(Denied(w, n))
    <3>1. MailsSound(orders[w], mails[w]) /\ mails[w] \in Seq(MailRows)
      BY <1>1, OrdersTyped
    <3> DEFINE open == {m \in DOMAIN mails[w] : mails[w][m].order = n /\ Open(mails[w][m])}
    <3>2. Left(w, n) \subseteq Denied(w, n) \cup open
      BY <3>1 DEF Left, Denied, MailsSound, MailSound, Open
    <3>3. \A i, j \in open : i = j
      BY <3>1 DEF MailsSound
    <3>4. IsFiniteSet(Denied(w, n))
      <4>1. DOMAIN mails[w] = 1..Len(mails[w]) /\ Len(mails[w]) \in Nat
        BY <3>1
      <4>2. Denied(w, n) \subseteq 1..Len(mails[w])
        BY <4>1 DEF Denied
      <4>3. IsFiniteSet(1..Len(mails[w]))
        BY <4>1, FS_Interval
      <4>. QED
        BY <4>2, <4>3, FS_Subset
    <3>5. Cardinality(Denied(w, n)) \in Nat
      BY <3>4, FS_CardinalityType
    <3>6. \E x : Left(w, n) \subseteq Denied(w, n) \cup {x}
      <4>1. CASE open = {}
        BY <3>2, <4>1
      <4>2. CASE open # {}
        BY <3>2, <3>3, <4>2
      <4>. QED
        BY <4>1, <4>2
    <3>7. PICK x : Left(w, n) \subseteq Denied(w, n) \cup {x}
      BY <3>6
    <3>8. /\ IsFiniteSet(Denied(w, n) \cup {x})
          /\ Cardinality(Denied(w, n) \cup {x}) <= 1 + Cardinality(Denied(w, n))
          /\ Cardinality(Denied(w, n) \cup {x}) \in Nat
      BY <3>4, <3>5, FS_AddElement, FS_CardinalityType
    <3>9. /\ Cardinality(Left(w, n)) <= Cardinality(Denied(w, n) \cup {x})
          /\ IsFiniteSet(Left(w, n))
      BY <3>7, <3>8, FS_Subset
    <3>10. Cardinality(Left(w, n)) \in Nat
      BY <3>9, FS_CardinalityType
    <3>. QED
      BY <3>5, <3>8, <3>9, <3>10
  <2>. QED
    BY <2>1 DEF OrderedOnce
<1>. QED
  BY <1>1, PartInvariant, PTL

-----------------------------------------------------------------------------
(* The schedule.                                                           *)

\* What the checks of both services compare: no two confirmed rows meet.
Apart ==
  /\ \A v, w \in Works : v # w /\ Confirmed(work[v]) /\ Confirmed(work[w]) =>
       ~Meets(work[v].booking, work[w].booking)
  /\ \A b, c \in Cases : b # c /\ Confirmed(plan[b]) /\ Confirmed(plan[c]) =>
       ~Meets(plan[b].booking, plan[c].booking)
  /\ \A w \in Works, c \in Cases : Confirmed(work[w]) /\ Confirmed(plan[c]) =>
       ~Meets(work[w].booking, plan[c].booking)

\* A confirmed row has a booking.
Booked ==
  /\ \A w \in Works : Confirmed(work[w]) => work[w].booking # None
  /\ \A c \in Cases : Confirmed(plan[c]) => plan[c].booking # None

ScheduleInv == SchedulingTypeOK /\ Booked /\ Apart

LEMMA MeetsSymmetric ==
  ASSUME NEW a \in Bookings, NEW b \in Bookings
  PROVE  Meets(a, b) <=> Meets(b, a)
BY DEF Meets

\* Two bookings that share an hour meet.
LEMMA ClashesMeet ==
  ASSUME NEW a \in Bookings, NEW b \in Bookings, Clash(a, b)
  PROVE  Meets(a, b)
<1>1. MaxTime \in Nat
  BY SupportWorkAssumption
<1>2. PICK t \in 0..MaxTime : t \in a.from .. (a.to - 1) /\ t \in b.from .. (b.to - 1)
  BY DEF Clash
<1>3. a.from \in Int /\ a.to \in Int /\ b.from \in Int /\ b.to \in Int
  BY <1>1 DEF Bookings
<1>4. a.from < b.to /\ b.from < a.to
  BY <1>1, <1>2, <1>3
<1> QED BY <1>4 DEF Clash, Meets

\* Rows that keep apart clash in no hour.
LEMMA ApartNoDoubleBooking == ScheduleInv => NoDoubleBooking
<1> SUFFICES ASSUME ScheduleInv PROVE NoDoubleBooking
  OBVIOUS
<1> USE DEF ScheduleInv
<1>1. \A w \in Works : Confirmed(work[w]) => work[w].booking \in Bookings
  BY DEF SchedulingTypeOK, WorkTypeOK, WorkRows, Booked, Confirmed
<1>2. \A c \in Cases : Confirmed(plan[c]) => plan[c].booking \in Bookings
  BY DEF SchedulingTypeOK, PlanRows, Booked, Confirmed
<1> QED
  BY <1>1, <1>2, ClashesMeet DEF Apart, NoDoubleBooking

LEMMA InitSchedule == SchedulingInit => ScheduleInv
<1> SUFFICES ASSUME SchedulingInit PROVE ScheduleInv
  OBVIOUS
<1>1. SchedulingTypeOK
  BY SchedulingAssumption DEF SchedulingInit, WorkInit, SchedulingTypeOK, WorkTypeOK
<1>2. \A w \in Works : ~Confirmed(work[w])
  BY DEF SchedulingInit, WorkInit, Confirmed
<1>3. \A c \in Cases : ~Confirmed(plan[c])
  BY DEF SchedulingInit, Confirmed
<1> QED
  BY <1>1, <1>2, <1>3 DEF ScheduleInv, Booked, Apart

\* A work that is saved takes a crew only where nobody has it.
LEMMA SavedWorkApart ==
  ASSUME ScheduleInv, NEW w \in Works, NEW status \in WorkStatuses,
         NEW scope \in Scopes, NEW booking \in Bookings \cup {None},
         SaveWork(w, status, scope, booking), UNCHANGED siteVars, Saved
  PROVE  ScheduleInv'
<1> USE DEF ScheduleInv
<1> DEFINE row == [status |-> status, scope |-> scope,
                   revision |-> work[w].revision + 1, booking |-> booking]
<1>1. work' = [work EXCEPT ![w] = row] /\ UNCHANGED <<quotes, billed, orders, plan, page>>
  BY DEF SaveWork
<1>2. row \in WorkRows
  <2>1. work[w] \in WorkRows
    BY DEF SaveWork, Exists, SchedulingTypeOK, WorkTypeOK
  <2>2. row.revision \in 0..MaxRevision
    BY <2>1, SupportWorkAssumption DEF SaveWork, WorkRows
  <2> QED BY <2>2 DEF WorkRows
<1>3. SchedulingTypeOK'
  BY <1>1, <1>2 DEF SchedulingTypeOK, WorkTypeOK, siteVars, Saved
<1>4. work'[w] = row /\ \A v \in Works \ {w} : work'[v] = work[v]
  BY <1>1 DEF SchedulingTypeOK, WorkTypeOK
<1>5. Booked'
  BY <1>1, <1>4 DEF Booked, Confirmed, SaveWork
<1>6. Confirmed(row) =>
        /\ booking \in Bookings
        /\ \A v \in Works \ {w} : Confirmed(work[v]) => ~Meets(work[v].booking, booking)
        /\ \A c \in Cases : Confirmed(plan[c]) => ~Meets(plan[c].booking, booking)
  BY DEF Confirmed, SaveWork, FreeOfWorks, FreeOfPlans
<1>7. /\ \A v \in Works : Confirmed(work[v]) => work[v].booking \in Bookings
      /\ \A c \in Cases : Confirmed(plan[c]) => plan[c].booking \in Bookings
  BY DEF SchedulingTypeOK, WorkTypeOK, WorkRows, PlanRows, Booked, Confirmed
<1>8. Apart'
  <2>1. ASSUME NEW u \in Works, NEW v \in Works, u # v,
               Confirmed(work'[u]), Confirmed(work'[v])
        PROVE  ~Meets(work'[u].booking, work'[v].booking)
    BY <2>1, <1>4, <1>6, <1>7, MeetsSymmetric DEF Apart
  <2>2. ASSUME NEW v \in Works, NEW c \in Cases,
               Confirmed(work'[v]), Confirmed(plan[c])
        PROVE  ~Meets(work'[v].booking, plan[c].booking)
    BY <2>2, <1>4, <1>6, <1>7, MeetsSymmetric DEF Apart
  <2> QED BY <2>1, <2>2, <1>1 DEF Apart, Confirmed, Meets
<1> QED BY <1>3, <1>5, <1>8

\* So does a plan.
LEMMA SavedPlanApart ==
  ASSUME ScheduleInv, NEW c \in Cases, NEW status \in PlanStatuses,
         NEW booking \in Bookings \cup {None},
         SavePlan(c, status, booking), Saved
  PROVE  ScheduleInv'
<1> USE DEF ScheduleInv
<1> DEFINE row == Planned(status, booking, siteAddress[c])
<1>1. plan' = [plan EXCEPT ![c] = row] /\ UNCHANGED <<workVars, orders, siteVars>>
  BY DEF SavePlan
<1>2. row \in PlanRows /\ row.status = status /\ row.booking = booking
  BY DEF Planned, PlanRows, SchedulingTypeOK
<1>3. SchedulingTypeOK'
  BY <1>1, <1>2 DEF SchedulingTypeOK, WorkTypeOK, workVars, siteVars, Saved
<1>4. plan'[c] = row /\ \A b \in Cases \ {c} : plan'[b] = plan[b]
  BY <1>1 DEF SchedulingTypeOK
<1>5. Booked'
  BY <1>1, <1>2, <1>4 DEF Booked, Confirmed, SavePlan, workVars
<1>6. Confirmed(row) =>
        /\ booking \in Bookings
        /\ \A w \in Works : Confirmed(work[w]) => ~Meets(work[w].booking, booking)
        /\ \A b \in Cases \ {c} : Confirmed(plan[b]) => ~Meets(plan[b].booking, booking)
  BY <1>2 DEF Confirmed, SavePlan, FreeOfWorks, FreeOfPlans
<1>7. /\ \A w \in Works : Confirmed(work[w]) => work[w].booking \in Bookings
      /\ \A b \in Cases : Confirmed(plan[b]) => plan[b].booking \in Bookings
  BY DEF SchedulingTypeOK, WorkTypeOK, WorkRows, PlanRows, Booked, Confirmed
<1>8. Apart'
  <2>1. ASSUME NEW a \in Cases, NEW b \in Cases, a # b,
               Confirmed(plan'[a]), Confirmed(plan'[b])
        PROVE  ~Meets(plan'[a].booking, plan'[b].booking)
    BY <2>1, <1>2, <1>4, <1>6, <1>7, MeetsSymmetric DEF Apart
  <2>2. ASSUME NEW w \in Works, NEW b \in Cases,
               Confirmed(work[w]), Confirmed(plan'[b])
        PROVE  ~Meets(work[w].booking, plan'[b].booking)
    BY <2>2, <1>2, <1>4, <1>6, <1>7 DEF Apart
  <2> QED BY <2>1, <2>2, <1>1 DEF Apart, Confirmed, Meets, workVars
<1> QED BY <1>3, <1>5, <1>8

LEMMA NextSchedule == ScheduleInv /\ [SchedulingNext]_schedulingVars => ScheduleInv'
<1> SUFFICES ASSUME ScheduleInv, [SchedulingNext]_schedulingVars PROVE ScheduleInv'
  OBVIOUS
<1>1. ASSUME NEW w \in Works, CreateWork(w), UNCHANGED <<siteVars, saves, changes>>
      PROVE  ScheduleInv'
  <2> DEFINE row == [status |-> "PLANNED", revision |-> 0,
                     scope |-> Unassessed, booking |-> None]
  <2>1. row \in WorkRows
    BY SupportWorkAssumption DEF WorkRows, WorkStatuses
  <2>2. SchedulingTypeOK'
    BY <1>1, <2>1 DEF ScheduleInv, CreateWork, SchedulingTypeOK, WorkTypeOK, siteVars
  <2>3. work'[w] = row /\ (\A v \in Works \ {w} : work'[v] = work[v]) /\ plan' = plan
    BY <1>1 DEF ScheduleInv, CreateWork, SchedulingTypeOK, WorkTypeOK
  <2>4. ~Confirmed(row)
    BY DEF Confirmed
  <2>5. Booked' /\ Apart'
    BY <2>3, <2>4 DEF ScheduleInv, Booked, Apart, Confirmed, Meets
  <2> QED BY <2>2, <2>5 DEF ScheduleInv
<1>2. ASSUME NEW c \in Cases, NEW outcome \in HandoverOutcomes,
             SaveHandover(c, outcome), Saved
      PROVE  ScheduleInv'
  BY <1>2 DEF ScheduleInv, SaveHandover, Saved, SchedulingTypeOK, WorkTypeOK, Booked, Apart,
              Confirmed, Meets, workVars
<1>3. ASSUME NEW c \in Cases, Changed, UNCHANGED <<workVars, orders, plan>>,
             \/ Prepare(c)
             \/ MailOrder(c)
             \/ \E promise \in 0..MaxTime \cup {None} : ConfirmOrder(c, promise)
             \/ \E all \in BOOLEAN : Arrival(c, all)
             \/ \E address \in Addresses \cup {None} : UpdateAddress(c, address)
             \/ \E delivered \in BOOLEAN : DeclareDelivery(c, delivered)
      PROVE  ScheduleInv'
  <2>1. Booked' /\ Apart'
    BY <1>3 DEF ScheduleInv, Booked, Apart, Confirmed, Meets, workVars
  <2>2. WorkTypeOK' /\ orders' = [w \in Works |-> <<>>]
        /\ plan' \in [Cases -> PlanRows \cup {None}] /\ saves' \in Nat /\ changes' \in Nat
    BY <1>3 DEF ScheduleInv, SchedulingTypeOK, WorkTypeOK, workVars, Changed
  <2>3. supply' \in [Cases -> Supplies \cup {None}]
    <3>1. supply \in [Cases -> Supplies \cup {None}]
      BY DEF ScheduleInv, SchedulingTypeOK
    <3>2. CASE Prepare(c)
      BY <3>1, <3>2 DEF Prepare, Supplies
    <3>3. CASE MailOrder(c)
      BY <3>1, <3>3 DEF MailOrder, Supplies
    <3>4. ASSUME NEW promise \in 0..MaxTime \cup {None}, ConfirmOrder(c, promise)
          PROVE  supply' \in [Cases -> Supplies \cup {None}]
      <4>1. supply[c] \in Supplies
        BY <3>1, <3>4 DEF ConfirmOrder
      <4>2. supply' = [supply EXCEPT ![c] =
                         [supply[c] EXCEPT !.confirmed = TRUE, !.promise = promise]]
        BY <3>1, <3>4 DEF ConfirmOrder
      <4>3. [supply[c] EXCEPT !.confirmed = TRUE, !.promise = promise] \in Supplies
        BY <4>1 DEF Supplies
      <4> QED BY <3>1, <4>2, <4>3
    <3>5. CASE \E all \in BOOLEAN : Arrival(c, all)
      BY <3>1, <3>5 DEF Arrival, Supplies
    <3>6. CASE UNCHANGED supply
      BY <3>1, <3>6
    <3> QED BY <1>3, <3>2, <3>3, <3>4, <3>5, <3>6 DEF UpdateAddress, DeclareDelivery
  <2>4. siteAddress' \in [Cases -> Addresses \cup {None}]
        /\ handover' \in [Cases -> HandoverOutcomes \cup {None}]
        /\ deliveredAt' \in [Cases -> BOOLEAN]
    BY <1>3 DEF ScheduleInv, SchedulingTypeOK, Prepare, MailOrder, ConfirmOrder,
                Arrival, UpdateAddress, DeclareDelivery
  <2> QED BY <2>1, <2>2, <2>3, <2>4 DEF ScheduleInv, SchedulingTypeOK
<1>4. CASE UNCHANGED schedulingVars
  BY <1>4 DEF ScheduleInv, SchedulingTypeOK, WorkTypeOK, Booked, Apart, Confirmed, Meets, schedulingVars,
              workVars, siteVars
<1> QED
  BY <1>1, <1>2, <1>3, <1>4, SavedWorkApart, SavedPlanApart DEF SchedulingNext

\* The rows of works, plans, orders and reports keep their types.
THEOREM SchedulingTypeCorrect == SchedulingSpec => []SchedulingTypeOK
<1>1. ScheduleInv => SchedulingTypeOK
  BY DEF ScheduleInv
<1> QED BY <1>1, InitSchedule, NextSchedule, PTL DEF SchedulingSpec

\* No crew is expected at two places at once, whichever services book it.
THEOREM NoCrewBookedTwice == SchedulingSpec => []NoDoubleBooking
BY InitSchedule, NextSchedule, ApartNoDoubleBooking, PTL DEF SchedulingSpec

\* After a report, the case is delivered exactly if the latest report says so.
THEOREM ReportsDecide == SchedulingSpec => []DeliveredAsReported
<1>1. SchedulingInit => DeliveredAsReported
  BY DEF SchedulingInit, DeliveredAsReported
<1>2. SchedulingTypeOK /\ DeliveredAsReported /\ [SchedulingNext]_schedulingVars => DeliveredAsReported'
  <2> SUFFICES ASSUME SchedulingTypeOK, DeliveredAsReported, [SchedulingNext]_schedulingVars
               PROVE  DeliveredAsReported'
    OBVIOUS
  <2>1. ASSUME NEW c \in Cases, NEW outcome \in HandoverOutcomes,
               SaveHandover(c, outcome)
        PROVE  DeliveredAsReported'
    BY <2>1 DEF DeliveredAsReported, SaveHandover, SchedulingTypeOK
  <2>2. ASSUME NEW c \in Cases, NEW delivered \in BOOLEAN, DeclareDelivery(c, delivered)
        PROVE  DeliveredAsReported'
    BY <2>2 DEF DeliveredAsReported, DeclareDelivery, DeliveryFree, SchedulingTypeOK
  <2>3. CASE UNCHANGED <<handover, deliveredAt>>
    BY <2>3 DEF DeliveredAsReported
  <2> QED
    BY <2>1, <2>2, <2>3 DEF SchedulingNext, schedulingVars, siteVars, SavePlan, Prepare, MailOrder,
                            ConfirmOrder, Arrival, UpdateAddress
<1> QED BY <1>1, <1>2, SchedulingTypeCorrect, PTL DEF SchedulingSpec
=============================================================================
