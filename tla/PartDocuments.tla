--------------------------- MODULE PartDocuments ---------------------------
(***************************************************************************)
(* The suppliers' documents recorded for the orders of spare parts         *)
(* (SupportPartDocumentService.save): which share of an invoice is in      *)
(* which cost of a work, and which share of a credit note is in the        *)
(* reduction of that cost.  Records are never changed, only superseded;    *)
(* the costs they rest on are corrected in the ledger meanwhile.           *)
(*                                                                         *)
(* save is one transaction that reads everything afresh; a page gone stale *)
(* or a request key found again is a step not taken.  A reference and a    *)
(* date are one with the original they are printed on.                     *)
(***************************************************************************)
EXTENDS Ledger

CONSTANTS
  Purchases,   \* <<work, order>>
  Originals,   \* the CaseFinanceDocument rows of the case
  MaxRecords   \* bound

\* CONFIRMATION is treated as OTHER.
RecordKinds == {"INVOICE", "CREDIT", "OTHER"}

\* `cost', `basis': ledger entries; `invoice', `old': records; 0 for none.
RecordRows == [order: Purchases, original: Originals, kind: RecordKinds,
               net: Amounts, share: Amounts, cost: Nat, basis: Nat,
               invoice: Nat, old: Nat]

ASSUME PartDocumentsAssumption ==
  /\ \A order \in Purchases : order[1] \in Works
  /\ MaxRecords \in Nat

VARIABLE records   \* the SupportPartDocument rows, by age

RecordsTypeOK == records \in Seq(RecordRows)

RecordsInit == records = <<>>

-----------------------------------------------------------------------------

Counts(n) == \A m \in DOMAIN records : records[m].old # n
Counting == {n \in DOMAIN records : Counts(n)}

Shares(rows) ==
  SumFunctionOnSet([n \in DOMAIN records |-> records[n].share], rows)

\* The costs of parts of a work, of any age.
PartCosts(w) == {i \in DOMAIN entries : entries[i].by = "work" /\ entries[i].of = w
                                        /\ entries[i].kind = "SUPPLIER"}

\* A cost of a work, the one it superseded, and so on: what the walk from it
\* passes, among the costs of the same work.
Ancestry(w, cost) ==
  LET Walked(S) == /\ cost \in S
                   /\ \A k \in S : entries[k].old \in PartCosts(w) => entries[k].old \in S IN
  {i \in PartCosts(w) : \A S \in SUBSET PartCosts(w) : Walked(S) => i \in S}

\* Same original, same data; and no more of it in the costs than there is.
OriginalHolds(row, current) ==
  LET same == {n \in current : records[n].original = row.original} IN
  /\ \A n \in same : /\ records[n].order # row.order
                     /\ records[n].net = row.net /\ records[n].kind = row.kind
  /\ Shares(same) + row.share <= row.net

\* No more invoiced than the cost that is now in force.
CostHolds(row, current) ==
  row.cost # 0 =>
    /\ row.cost \in PartCosts(row.order[1]) \cap Active
    /\ row.kind # "CREDIT" =>
         Shares({n \in current : records[n].kind # "CREDIT" /\ records[n].cost = row.cost})
           + row.share <= entries[row.cost].amount

\* Faulty: the reduction is not shared with the credit notes before.
ReductionEach(row, current) ==
  row.share + entries[row.cost].amount <= entries[row.basis].amount

\* The credits of a work share one reduction of its cost.
ReductionHolds(row, current) ==
  LET credits == {n \in current : records[n].kind = "CREDIT"} IN
  /\ \A n \in credits :
       records[n].share > 0 /\ records[n].cost \in PartCosts(row.order[1])
         => records[n].basis = row.basis
  /\ Shares({n \in credits : records[n].basis = row.basis}) + row.share
       + entries[row.cost].amount <= entries[row.basis].amount

CreditHolds(row, current) ==
  /\ row.invoice \in DOMAIN records /\ Counts(row.invoice)
  /\ records[row.invoice].order = row.order /\ records[row.invoice].kind = "INVOICE"
  /\ Shares({n \in current : records[n].kind = "CREDIT" /\ records[n].invoice = row.invoice})
       + row.share <= records[row.invoice].net
  /\ IF row.share = 0 THEN row.basis = 0
     ELSE /\ row.basis \in Ancestry(row.order[1], row.cost) \ {row.cost}
          /\ ReductionHolds(row, current)

\* An invoice with credits in the costs is not superseded.
Uncredited(n, current) ==
  ~\E m \in current : records[m].invoice = n /\ records[m].share > 0

\* save.
SaveRecord(row) ==
  LET current == Counting \ {row.old} IN
  /\ row.old # 0 => /\ row.old \in DOMAIN records /\ Counts(row.old)
                    /\ records[row.old].order = row.order
                    /\ records[row.old].kind = row.kind
                    /\ Uncredited(row.old, current)
  /\ row.share > 0 <=> row.cost # 0
  /\ row.share > 0 => row.kind # "OTHER"
  /\ OriginalHolds(row, current)
  /\ CostHolds(row, current)
  /\ IF row.kind = "CREDIT" THEN CreditHolds(row, current)
     ELSE row.invoice = 0 /\ row.basis = 0
  /\ records' = Append(records, row)
  /\ UNCHANGED ledgerVars

\* The forms tried leave out what is refused at sight: fields that the kind
\* or a share of nothing has no use for.
RecordsNext == Len(records) < MaxRecords /\
  \E order \in Purchases, original \in Originals, kind \in RecordKinds,
     old \in {0} \cup DOMAIN records, net \in Amounts, share \in Amounts :
    LET costs(used) == IF used THEN PartCosts(order[1]) ELSE {0} IN
    \E cost \in costs(share > 0), basis \in costs(kind = "CREDIT" /\ share > 0),
       invoice \in IF kind = "CREDIT" THEN DOMAIN records ELSE {0} :
      SaveRecord([order |-> order, original |-> original, kind |-> kind, net |-> net,
                  share |-> share, cost |-> cost, basis |-> basis,
                  invoice |-> invoice, old |-> old])

-----------------------------------------------------------------------------
(* Properties.                                                             *)

OfOriginal(d) == {n \in Counting : records[n].original = d}
Billed(i) == {n \in Counting : records[n].kind = "INVOICE" /\ records[n].cost = i}
Credits(w) == {n \in Counting : /\ records[n].kind = "CREDIT" /\ records[n].share > 0
                               /\ records[n].order[1] = w}
CreditsOf(w, invoice) == {n \in Credits(w) : records[n].invoice = invoice}

\* In whatever order records and costs are corrected: an original is not in
\* the costs for more than its net, nor the invoices of a cost for more than
\* the cost; a credit that counts rests on an invoice in force, within its
\* net; and all credits of a work together fit in one reduction of its cost
\* that was made (SupportPartDocumentService.save, supportWorkCosts).
SharesCovered ==
  /\ \A n \in Counting : Shares(OfOriginal(records[n].original)) <= records[n].net
  /\ \A w \in Works : \A i \in PartCosts(w) : Shares(Billed(i)) <= entries[i].amount
  /\ \A w \in Works : \A n \in Credits(w) :
       /\ records[n].invoice \in Counting
       /\ Shares(CreditsOf(w, records[n].invoice)) <= records[records[n].invoice].net
       /\ \E j \in PartCosts(w) :
            /\ records[n].basis \in Ancestry(w, j) \ {j}
            /\ Shares(Credits(w)) + entries[j].amount <= entries[records[n].basis].amount
=============================================================================
