------------------------------- MODULE Ledger -------------------------------
(***************************************************************************)
(* The ledger of a case: entries are never changed, only replaced by newer *)
(* ones, by the seller (FinanceService.add), by the costs of a supplier's  *)
(* order (recordOrderCost) or of a support work (supportWorkCosts), and by *)
(* what is settled of a work (SupportSettlementService.record).  Payments  *)
(* are verified by hand (CasePaymentsService.check).                       *)
(*                                                                         *)
(* Each handler is one transaction that bumps financeRevision; a page gone *)
(* stale or a request key found again is a step not taken.  Amounts are    *)
(* those of cash and of a work's costs; others tell nothing apart, nor do  *)
(* dates, documents and references (each settled reference is its own).    *)
(* costsComplete and deliveredAt are in Products and Scheduling.           *)
(***************************************************************************)
EXTENDS Null, Integers, Sequences, FiniteSets, FiniteSetsExt

CONSTANTS
  Kinds,       \* the kinds of entry of the instance
  WorkKinds,   \* those of the lines of a work's costs
  OrderKeys,   \* <<batch, group>> of a supplier's order
  Works,       \* works done for money on an accepted quote (SupportWork.Agreed)
  MaxAmount,   \* bound: cents
  MaxEntries   \* bound

CashKinds == {"CASH_IN", "CASH_OUT"}

Amounts == 0..MaxAmount

\* `old': supersedesId, `absorbs': absorbsEntryId, as places, 0 for none.
EntryRows == [kind: Kinds, stage: {"PLANNED", "ACTUAL"}, amount: Amounts,
              old: Nat, absorbs: Nat,
              by: {"seller", "order", "work", "settlement"},
              of: OrderKeys \cup Works \cup {None},
              event: Nat]   \* sourceOrderEventId, by revision in the batch

ASSUME LedgerAssumption ==
  /\ Kinds \subseteq {"REVENUE", "SUPPLIER", "LABOR", "TRANSPORT", "TRAVEL",
                      "OTHER", "OVERHEAD"} \cup CashKinds
  /\ WorkKinds \subseteq Kinds \cap {"SUPPLIER", "LABOR", "OTHER"}
  /\ "SUPPLIER" \in Kinds
  /\ MaxAmount \in Nat /\ MaxEntries \in Nat
  /\ None \notin OrderKeys \cup Works /\ OrderKeys \cap Works = {}

VARIABLES
  entries,  \* the CaseFinanceEntry rows, by age
  checks    \* the latest CasePaymentCheck of each

ledgerVars == <<entries, checks>>

LedgerTypeOK ==
  /\ entries \in Seq(EntryRows)
  /\ checks \in Seq({"NONE", "VERIFIED", "REVOKED"})
  /\ Len(checks) = Len(entries)

LedgerInit == entries = <<>> /\ checks = <<>>

-----------------------------------------------------------------------------
(* Reading the ledger.                                                     *)

Replacers(i) == {j \in DOMAIN entries : i \in {entries[j].old, entries[j].absorbs}}

\* financeSummary's activeIds.
Active == {i \in DOMAIN entries : Replacers(i) = {}}

Signed(kind, amount) ==
  CASE kind = "CASH_IN" -> amount [] kind = "CASH_OUT" -> -amount [] OTHER -> 0

Net(rows) ==
  SumFunctionOnSet([i \in DOMAIN entries |-> Signed(entries[i].kind, entries[i].amount)],
                   rows)

\* What counts for the deposit: verified, active, and not a work's.
VerifiedCents ==
  Net({i \in Active : entries[i].by # "settlement" /\ checks[i] = "VERIFIED"})

Record(rows) ==
  /\ Len(entries) + Len(rows) <= MaxEntries
  /\ entries' = entries \o rows
  /\ checks' = checks \o [i \in DOMAIN rows |-> "NONE"]

Entry(kind, stage, amount, by, of) ==
  [kind |-> kind, stage |-> stage, amount |-> IF kind \in CashKinds THEN amount ELSE 0,
   old |-> 0, absorbs |-> 0, by |-> by, of |-> of, event |-> 0]

\* Faulty: whichever entry of that kind.
ReplaceableAny(i, kind) == i \in DOMAIN entries /\ entries[i].kind = kind

\* An active entry the seller made, of the same kind.
Replaceable(i, kind) ==
  i \in Active /\ entries[i].kind = kind /\ entries[i].by = "seller"

-----------------------------------------------------------------------------
(* Writing it.                                                             *)

AddEntry(kind, stage, amount, old) ==
  /\ kind \in CashKinds => stage = "ACTUAL"
  /\ old # 0 => Replaceable(old, kind)
  /\ Record(<<[Entry(kind, stage, amount, "seller", None) EXCEPT !.old = old]>>)

\* check, once a proposal is confirmed.
CheckPayment(i, status) ==
  /\ entries[i].kind \in CashKinds /\ entries[i].by # "settlement"
  /\ status = "VERIFIED" => i \in Active
  /\ checks' = [checks EXCEPT ![i] = status]
  /\ UNCHANGED entries

\* The entries of an order that no other entry of it replaces.
OrderEntry(key) ==
  LET own == {i \in DOMAIN entries : entries[i].by = "order" /\ entries[i].of = key}
  IN {i \in own : \A j \in own : entries[j].old # i}

\* Faulty: the latest word of the producer counts.
ForecastAfterInvoice(kind, previous) == FALSE

\* A forecast never replaces an invoiced amount.
Outdated(kind, previous) ==
  kind = "CONFIRMATION" /\ \E i \in previous : entries[i].stage = "ACTUAL"

\* recordOrderCost, for event `event' of the batch; `old' is the entry the
\* seller had made for this order.
RecordOrderCost(key, kind, event, old) ==
  LET previous == IF old # 0 THEN {old} ELSE OrderEntry(key) IN
  /\ old # 0 => OrderEntry(key) = {} /\ Replaceable(old, "SUPPLIER")
  /\ IF kind = "RECEIPT" \/ (old = 0 /\ Outdated(kind, previous))
     THEN UNCHANGED ledgerVars
     ELSE /\ ~Outdated(kind, previous)
          /\ Record(<<[Entry("SUPPLIER", IF kind = "INVOICE" THEN "ACTUAL" ELSE "PLANNED",
                             0, "order", key)
               EXCEPT !.old = IF previous = {} THEN 0 ELSE Max(previous),
                      !.event = event]>>)

\* supportWorkCosts: a line for each kind; `manual' are entries the seller
\* had made for them, `spent' what each comes to.
RecordWorkCosts(w, manual, spent) ==
  LET own(k) == {i \in Active : /\ entries[i].by = "work" /\ entries[i].of = w
                                /\ entries[i].kind = k}
      Line(k) == LET row == [Entry(k, "ACTUAL", 0, "work", w) EXCEPT !.amount = spent[k]] IN
        IF own(k) = {} THEN [row EXCEPT !.old = manual[k]]
        ELSE [row EXCEPT !.old = Max(own(k)), !.absorbs = manual[k]] IN
  /\ \A k \in WorkKinds : manual[k] # 0 => Replaceable(manual[k], k)
  /\ \E order \in [1..Cardinality(WorkKinds) -> WorkKinds] :
       /\ {order[n] : n \in DOMAIN order} = WorkKinds
       /\ Record([n \in DOMAIN order |-> Line(order[n])])

Managed(w) == {i \in Active : entries[i].by = "settlement" /\ entries[i].of = w}

\* Faulty: the movement that is corrected stays in the sum.
NetWithOld(w, old, kind, amount) == Net(Managed(w)) + Signed(kind, amount)

\* What has been paid, the corrected movement taken out.
NetAfter(w, old, kind, amount) == Net(Managed(w) \ old) + Signed(kind, amount)

\* record; `chosen' is an entry to replace or to take over.
Settle(w, kind, amount, chosen) ==
  LET revenue == {i \in Managed(w) : kind = "REVENUE" /\ entries[i].kind = kind}
      corrected == {chosen} \cap Managed(w)
      old == IF corrected # {} THEN corrected ELSE revenue
      manual == {chosen} \ (corrected \cup {0})
      row == Entry(kind, "ACTUAL", amount, "settlement", w) IN
  /\ kind \in CashKinds \cup {"REVENUE"}
  /\ corrected # {} => entries[chosen].kind = kind
  /\ manual # {} => Replaceable(chosen, kind)
  /\ kind \in CashKinds => /\ amount = 0 => chosen # 0
                           /\ NetAfter(w, old, kind, amount) >= 0
  /\ Record(<<IF old = {} THEN [row EXCEPT !.old = chosen]
              ELSE [row EXCEPT !.old = Max(old),
                               !.absorbs = IF manual = {} THEN 0 ELSE chosen]>>)

LedgerNext(paymentsOpen) ==
  \/ \E kind \in Kinds, stage \in {"PLANNED", "ACTUAL"}, amount \in Amounts,
        old \in {0} \cup DOMAIN entries : AddEntry(kind, stage, amount, old)
  \/ /\ paymentsOpen
     /\ \E i \in DOMAIN entries, status \in {"VERIFIED", "REVOKED"} : CheckPayment(i, status)
  \/ \E w \in Works :
       \/ \E manual \in [WorkKinds -> {0} \cup DOMAIN entries], spent \in [WorkKinds -> Amounts] :
            RecordWorkCosts(w, manual, spent)
       \/ \E kind \in Kinds, amount \in Amounts, chosen \in {0} \cup DOMAIN entries :
            Settle(w, kind, amount, chosen)

-----------------------------------------------------------------------------
(* Properties.                                                             *)

Unique(e) == e.by \in {"order", "work"} \/ (e.by = "settlement" /\ e.kind = "REVENUE")

\* However entries are replaced, absorbed and corrected by the four services,
\* none is replaced twice or by one of another kind, and each order, each line
\* of a work and each work's revenue has one entry that counts
\* (add, recordOrderCost, supportWorkCosts, record, financeSummary).
CountedOnce ==
  /\ \A i \in DOMAIN entries :
       /\ Cardinality(Replacers(i)) <= 1
       /\ \A j \in Replacers(i) : entries[j].kind = entries[i].kind
  /\ \A i, j \in Active :
       /\ Unique(entries[i])
       /\ \A f \in {"by", "of", "kind"} : entries[i][f] = entries[j][f]
       => i = j

\* No order of payments, refunds and corrections leaves more refunded for a
\* work than was paid for it (SupportSettlementService.record).
RefundsCovered == \A w \in Works : Net(Managed(w)) >= 0
=============================================================================
