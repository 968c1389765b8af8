---------------------------- MODULE OfficeProofs ----------------------------
(***************************************************************************)
(* For any number of entries, orders, producers, mails, works, links and   *)
(* overlapping sends: whatever the services replace and absorb, every      *)
(* entry counts exactly once, no work has more refunded than was paid, the *)
(* cost of an order is what its producer said last, an order reaches its   *)
(* producer at most once, what is sent on a customer's link is sent while  *)
(* the link is in force, and the suppliers' documents on parts stay within *)
(* the costs they are recorded on.                                         *)
(***************************************************************************)
EXTENDS Orders, PartDocuments, CustomerLinks, SumTheorems, SequenceTheorems

-----------------------------------------------------------------------------
(* The ledger.                                                             *)

\* The entries a row replaces or absorbs.
Targets(e) == {e.old, e.absorbs} \ {0}

Same(d, e) == d.by = e.by /\ d.of = e.of /\ d.kind = e.kind

\* A row replaces older entries of its kind; one that is not the seller's it
\* replaces for the same order, work or settlement, and never absorbs.
Follows(es, e) ==
  \A i \in Targets(e) :
    /\ i \in DOMAIN es /\ es[i].kind = e.kind
    /\ es[i].by # "seller" => i = e.old /\ es[i].by = e.by /\ es[i].of = e.of

\* What orders cost is a supplier's, and nothing else refers to an order.
OfSupplier(e) ==
  /\ e.by = "order" => e.kind = "SUPPLIER"
  /\ e.of \in OrderKeys => e.by = "order"

EntriesSound ==
  /\ entries \in Seq(EntryRows)
  /\ \A j \in DOMAIN entries :
       /\ Follows(entries, entries[j]) /\ OfSupplier(entries[j])
       /\ \A i \in Targets(entries[j]) : i < j

ReplacedOnce ==
  \A i \in DOMAIN entries : \A j, k \in Replacers(i) : j = k

OneCounts ==
  \A i, j \in Active : Unique(entries[i]) /\ Same(entries[i], entries[j]) => i = j

LedgerInv == EntriesSound /\ ReplacedOnce /\ OneCounts

\* What a service must see to for the rows it adds.
Fitting(rows) ==
  \A n \in DOMAIN rows :
    /\ Follows(entries, rows[n]) /\ OfSupplier(rows[n])
    /\ Targets(rows[n]) \subseteq Active
    /\ Unique(rows[n]) =>
         \A i \in Active : Same(entries[i], rows[n]) => i \in Targets(rows[n])
    /\ \A m \in DOMAIN rows \ {n} :
         /\ Targets(rows[m]) \cap Targets(rows[n]) = {}
         /\ ~Same(rows[m], rows[n])

LEMMA SoundCountsOnce == LedgerInv => CountedOnce
<1> SUFFICES ASSUME LedgerInv PROVE CountedOnce
  OBVIOUS
<1>1. ASSUME NEW i \in DOMAIN entries
      PROVE  /\ Cardinality(Replacers(i)) <= 1
             /\ \A j \in Replacers(i) : entries[j].kind = entries[i].kind
  <2>1. \A j, k \in Replacers(i) : j = k
    BY DEF LedgerInv, ReplacedOnce
  <2>2. Cardinality(Replacers(i)) <= 1
    <3>1. CASE Replacers(i) = {}
      BY <3>1, FS_EmptySet
    <3>2. CASE Replacers(i) # {}
      <4>1. PICK n : Replacers(i) = {n}
        BY <2>1, <3>2
      <4>2. Cardinality({n}) = 1
        BY FS_Singleton
      <4> QED BY <4>1, <4>2
    <3> QED BY <3>1, <3>2
  <2>3. ASSUME NEW j \in Replacers(i) PROVE entries[j].kind = entries[i].kind
    <3>1. j \in DOMAIN entries /\ i \in {entries[j].old, entries[j].absorbs}
      BY DEF Replacers
    <3>2. i \in 1..Len(entries)
      BY DEF LedgerInv, EntriesSound
    <3>3. i # 0
      BY <3>2
    <3> QED BY <3>1, <3>3 DEF LedgerInv, EntriesSound, Follows, Targets
  <2> QED BY <2>2, <2>3
<1>2. ASSUME NEW i \in Active, NEW j \in Active, Unique(entries[i]),
             \A f \in {"by", "of", "kind"} : entries[i][f] = entries[j][f]
      PROVE  i = j
  BY <1>2 DEF LedgerInv, OneCounts, Same
<1> QED BY <1>1, <1>2 DEF CountedOnce

\* Rows that fit keep the ledger sound.
LEMMA RecordKeeps ==
  ASSUME LedgerInv, NEW rows \in Seq(EntryRows), Fitting(rows), entries' = entries \o rows
  PROVE  LedgerInv'
<1> DEFINE L == Len(entries)
<1>1. entries \in Seq(EntryRows) /\ L \in Nat /\ DOMAIN entries = 1..L
      /\ Len(rows) \in Nat /\ DOMAIN rows = 1..Len(rows)
  BY DEF LedgerInv, EntriesSound
<1>2. /\ entries' \in Seq(EntryRows)
      /\ DOMAIN entries' = 1..(L + Len(rows))
      /\ \A j \in 1..L : entries'[j] = entries[j]
      /\ \A n \in 1..Len(rows) : L + n \in DOMAIN entries' /\ entries'[L + n] = rows[n]
  BY <1>1
<1>3. \A j \in DOMAIN entries' : j \in DOMAIN entries \/ \E n \in DOMAIN rows : j = L + n
  <2> SUFFICES ASSUME NEW j \in 1..(L + Len(rows)), j \notin 1..L
               PROVE  \E n \in 1..Len(rows) : j = L + n
    BY <1>1, <1>2
  <2>1. j - L \in 1..Len(rows) /\ j = L + (j - L)
    BY <1>1
  <2> QED BY <2>1
<1>4. \A n \in DOMAIN rows, i \in DOMAIN entries : i < L + n /\ i # L + n /\ i # 0
  BY <1>1
<1>5. \A m, n \in DOMAIN rows : L + m = L + n => m = n
  BY <1>1
<1>6. \A i \in DOMAIN entries : i \in DOMAIN entries' /\ entries'[i] = entries[i]
  BY <1>1, <1>2
<1>7. \A n \in DOMAIN rows : L + n \in DOMAIN entries' /\ entries'[L + n] = rows[n]
  BY <1>1, <1>2
<1>8. DOMAIN entries' \subseteq Nat \ {0}
  BY <1>1, <1>2
<1> HIDE DEF L
<1>9. EntriesSound'
  <2> SUFFICES ASSUME NEW j \in DOMAIN entries'
               PROVE  /\ Follows(entries', entries'[j]) /\ OfSupplier(entries'[j])
                      /\ \A i \in Targets(entries'[j]) : i < j
    BY <1>2 DEF EntriesSound, OfSupplier, Targets
  <2>1. CASE j \in DOMAIN entries
    BY <2>1, <1>6 DEF LedgerInv, EntriesSound, Follows
  <2>2. ASSUME NEW n \in DOMAIN rows, j = L + n
        PROVE  /\ Follows(entries', entries'[j]) /\ OfSupplier(entries'[j])
               /\ \A i \in Targets(entries'[j]) : i < j
    BY <2>2, <1>4, <1>6, <1>7 DEF Fitting, Follows
  <2> QED BY <1>3, <2>1, <2>2
\* Who replaces an entry afterwards.
<1>10. ASSUME NEW i \in DOMAIN entries', NEW j \in Replacers(i)'
       PROVE  /\ i \in DOMAIN entries
              /\ \/ j \in Replacers(i)
                 \/ \E n \in DOMAIN rows : j = L + n /\ i \in Targets(rows[n]) /\ i \in Active
  <2>1. j \in DOMAIN entries' /\ i \in Targets(entries'[j])
    BY <1>8 DEF Replacers, Targets
  <2>2. CASE j \in DOMAIN entries
    <3>1. i \in Targets(entries[j])
      BY <2>1, <2>2, <1>6
    <3> QED BY <3>1, <2>2 DEF LedgerInv, EntriesSound, Follows, Replacers, Targets
  <2>3. ASSUME NEW n \in DOMAIN rows, j = L + n
        PROVE  i \in DOMAIN entries /\ i \in Targets(rows[n]) /\ i \in Active
    <3>1. i \in Targets(rows[n])
      BY <2>1, <2>3, <1>7
    <3> QED BY <3>1 DEF Fitting, Follows
  <2> QED BY <1>3, <2>1, <2>2, <2>3
<1>11. ReplacedOnce'
  <2> SUFFICES ASSUME NEW i \in DOMAIN entries', NEW j \in Replacers(i)', NEW k \in Replacers(i)'
               PROVE  j = k
    BY DEF ReplacedOnce
  <2>1. i \in DOMAIN entries
    BY <1>10
  <2>2. CASE j \in Replacers(i) \/ k \in Replacers(i)
    <3>1. i \notin Active
      BY <2>2 DEF Active
    <3>2. j \in Replacers(i) /\ k \in Replacers(i)
      BY <3>1, <1>10
    <3> QED BY <3>2, <2>1 DEF LedgerInv, ReplacedOnce
  <2>3. CASE j \notin Replacers(i) /\ k \notin Replacers(i)
    <3>1. PICK m \in DOMAIN rows : j = L + m /\ i \in Targets(rows[m])
      BY <2>3, <1>10
    <3>2. PICK n \in DOMAIN rows : k = L + n /\ i \in Targets(rows[n])
      BY <2>3, <1>10
    <3>3. m = n
      BY <3>1, <3>2 DEF Fitting
    <3> QED BY <3>1, <3>2, <3>3
  <2> QED BY <2>2, <2>3
\* What counts afterwards.
<1>12. ASSUME NEW i \in Active', i \in DOMAIN entries
       PROVE  i \in Active /\ \A n \in DOMAIN rows : i \notin Targets(rows[n])
  <2>1. \A j \in DOMAIN entries' : i \notin {entries'[j].old, entries'[j].absorbs}
    BY DEF Active, Replacers
  <2>2. i \in Active
    BY <2>1, <1>6, <1>12 DEF Active, Replacers
  <2>3. \A n \in DOMAIN rows : i \notin Targets(rows[n])
    BY <2>1, <1>7 DEF Targets
  <2> QED BY <2>2, <2>3
<1>13. OneCounts'
  <2> SUFFICES ASSUME NEW i \in Active', NEW j \in Active', Unique(entries'[i]),
                      Same(entries'[i], entries'[j])
               PROVE  i = j
    BY DEF OneCounts, Unique, Same
  <2>1. i \in DOMAIN entries' /\ j \in DOMAIN entries'
    BY DEF Active
  <2>2. Unique(entries'[j]) /\ Same(entries'[j], entries'[i])
    BY DEF Unique, Same
  <2>3. CASE i \in DOMAIN entries /\ j \in DOMAIN entries
    BY <2>3, <1>6, <1>12 DEF LedgerInv, OneCounts
  <2>4. ASSUME NEW n \in DOMAIN rows, j = L + n, i \in DOMAIN entries PROVE FALSE
    <3>1. i \in Active /\ i \notin Targets(rows[n])
      BY <2>4, <1>12
    <3>2. entries'[i] = entries[i] /\ entries'[j] = rows[n]
      BY <2>4, <1>6, <1>7
    <3> QED BY <3>1, <3>2, <2>2 DEF Fitting
  <2>5. ASSUME NEW n \in DOMAIN rows, i = L + n, j \in DOMAIN entries PROVE FALSE
    <3>1. j \in Active /\ j \notin Targets(rows[n])
      BY <2>5, <1>12
    <3>2. entries'[j] = entries[j] /\ entries'[i] = rows[n]
      BY <2>5, <1>6, <1>7
    <3> QED BY <3>1, <3>2, <2>2 DEF Fitting
  <2>6. ASSUME NEW m \in DOMAIN rows, NEW n \in DOMAIN rows, i = L + m, j = L + n
        PROVE  i = j
    <3>1. entries'[i] = rows[m] /\ entries'[j] = rows[n]
      BY <2>6, <1>7
    <3> QED BY <3>1, <2>6 DEF Fitting
  <2> QED BY <1>3, <2>1, <2>3, <2>4, <2>5, <2>6
<1> QED BY <1>9, <1>11, <1>13 DEF LedgerInv

\* An entry that may be replaced is one the seller made.
LEMMA SellersEntry ==
  ASSUME LedgerInv, NEW i, NEW kind, Replaceable(i, kind)
  PROVE  i \in Active /\ i \in DOMAIN entries /\ entries[i].kind = kind
         /\ entries[i].by = "seller" /\ i \in Nat \ {0}
BY DEF Replaceable, Active, LedgerInv, EntriesSound

\* A step of one of the services adds rows that fit.
AddedBy(by) ==
  \E rows \in Seq(EntryRows) :
    entries' = entries \o rows /\ Fitting(rows) /\ \A n \in DOMAIN rows : rows[n].by = by

\* A single row that fits keeps the ledger sound.
LEMMA OneRowKeeps ==
  ASSUME LedgerInv, NEW row \in EntryRows, Record(<<row>>),
         Follows(entries, row), OfSupplier(row), Targets(row) \subseteq Active,
         Unique(row) => \A i \in Active : Same(entries[i], row) => i \in Targets(row)
  PROVE  LedgerInv' /\ AddedBy(row.by)
<1>1. <<row>> \in Seq(EntryRows) /\ DOMAIN <<row>> = {1} /\ <<row>>[1] = row
  OBVIOUS
<1>2. Fitting(<<row>>)
  BY <1>1 DEF Fitting
<1>3. entries' = entries \o <<row>>
  BY DEF Record
<1>4. AddedBy(row.by)
  BY <1>1, <1>2, <1>3 DEF AddedBy
<1> QED BY <1>1, <1>2, <1>3, <1>4, RecordKeeps

LEMMA EntryTypes ==
  ASSUME NEW kind \in Kinds, NEW stage \in {"PLANNED", "ACTUAL"}, NEW amount \in Amounts,
         NEW by \in {"seller", "order", "work", "settlement"},
         NEW of \in OrderKeys \cup Works \cup {None}
  PROVE  LET e == Entry(kind, stage, amount, by, of) IN
         /\ e \in EntryRows
         /\ e.kind = kind /\ e.by = by /\ e.of = of /\ e.old = 0 /\ e.absorbs = 0
         /\ kind \in CashKinds => e.amount = amount
BY LedgerAssumption DEF Entry, EntryRows, Amounts

LEMMA AddKeeps ==
  ASSUME LedgerInv, NEW kind \in Kinds, NEW stage \in {"PLANNED", "ACTUAL"},
         NEW amount \in Amounts, NEW old \in {0} \cup DOMAIN entries,
         AddEntry(kind, stage, amount, old)
  PROVE  LedgerInv' /\ AddedBy("seller")
<1> DEFINE e == Entry(kind, stage, amount, "seller", None)
<1> DEFINE row == [e EXCEPT !.old = old]
<1>1. old \in Nat
  BY DEF LedgerInv, EntriesSound
<1>2. /\ row \in EntryRows /\ row.kind = kind /\ row.by = "seller"
      /\ row.of = None /\ row.old = old /\ row.absorbs = 0
  <2> HIDE DEF e
  <2> QED BY <1>1, EntryTypes DEF e, EntryRows
<1>3. Record(<<row>>)
  BY DEF AddEntry
<1>4. old # 0 => Replaceable(old, kind)
  BY DEF AddEntry
<1> HIDE DEF row
<1>5. Targets(row) = {old} \ {0}
  BY <1>2 DEF Targets
<1>6. Follows(entries, row) /\ OfSupplier(row) /\ Targets(row) \subseteq Active
  BY <1>2, <1>4, <1>5, SellersEntry, LedgerAssumption DEF Follows, OfSupplier
<1> QED BY <1>2, <1>3, <1>6, OneRowKeeps DEF Unique

\* The entries of an order that no other of it replaces are those that count.
LEMMA OrderEntryActive ==
  ASSUME LedgerInv, NEW key \in OrderKeys
  PROVE  /\ OrderEntry(key) = {i \in Active : entries[i].by = "order" /\ entries[i].of = key}
         /\ \A i, j \in OrderEntry(key) : i = j
         /\ \A i \in OrderEntry(key) : i \in DOMAIN entries /\ entries[i].kind = "SUPPLIER"
<1>1. ASSUME NEW i \in OrderEntry(key) PROVE i \in Active
  <2>1. i \in DOMAIN entries /\ entries[i].by = "order" /\ entries[i].of = key
    BY DEF OrderEntry
  <2>2. ASSUME NEW j \in Replacers(i) PROVE FALSE
    <3>1. j \in DOMAIN entries /\ i \in Targets(entries[j])
      BY <2>1 DEF Replacers, Targets, LedgerInv, EntriesSound
    <3>2. i = entries[j].old /\ entries[j].by = "order" /\ entries[j].of = key
      BY <2>1, <3>1 DEF LedgerInv, EntriesSound, Follows
    <3> QED BY <2>1, <3>1, <3>2 DEF OrderEntry
  <2> QED BY <2>1, <2>2 DEF Active
<1>2. ASSUME NEW i \in Active, entries[i].by = "order", entries[i].of = key
      PROVE  i \in OrderEntry(key)
  BY <1>2 DEF OrderEntry, Active, Replacers
<1>3. \A i \in OrderEntry(key) :
        i \in DOMAIN entries /\ entries[i].by = "order" /\ entries[i].of = key
  BY DEF OrderEntry
<1>4. \A i \in OrderEntry(key) : entries[i].kind = "SUPPLIER"
  BY <1>3 DEF LedgerInv, EntriesSound, OfSupplier
<1> QED
  BY <1>1, <1>2, <1>3, <1>4 DEF LedgerInv, OneCounts, Unique, Same

LEMMA OrderCostKeeps ==
  ASSUME LedgerInv, NEW key \in OrderKeys, NEW kind \in EventKinds, NEW event \in Nat,
         NEW old \in {0} \cup DOMAIN entries, RecordOrderCost(key, kind, event, old)
  PROVE  LedgerInv' /\ (UNCHANGED entries \/ AddedBy("order"))
<1> DEFINE previous == IF old # 0 THEN {old} ELSE OrderEntry(key)
<1>1. CASE UNCHANGED ledgerVars
  BY <1>1 DEF ledgerVars, LedgerInv, EntriesSound, ReplacedOnce, OneCounts, Active, Replacers,
              Follows, OfSupplier, Targets, Unique, Same
<1>2. CASE ~UNCHANGED ledgerVars
  <2> DEFINE stage == IF kind = "INVOICE" THEN "ACTUAL" ELSE "PLANNED"
  <2> DEFINE e == Entry("SUPPLIER", stage, 0, "order", key)
  <2> DEFINE t == IF previous = {} THEN 0 ELSE Max(previous)
  <2> DEFINE row == [e EXCEPT !.old = t, !.event = event]
  <2>1. Record(<<row>>) /\ (old # 0 => OrderEntry(key) = {} /\ Replaceable(old, "SUPPLIER"))
    BY <1>2 DEF RecordOrderCost
  <2>2. /\ previous \subseteq Nat \ {0}
        /\ \A i, j \in previous : i = j
    BY OrderEntryActive DEF LedgerInv, EntriesSound
  <2>3. t \in Nat /\ {t} \ {0} = previous
    BY <2>2 DEF Max
  <2>4. /\ row \in EntryRows /\ row.kind = "SUPPLIER" /\ row.by = "order"
        /\ row.of = key /\ row.old = t /\ row.absorbs = 0
    <3>1. 0 \in Amounts /\ "SUPPLIER" \in Kinds
      BY LedgerAssumption DEF Amounts
    <3>2. /\ e \in EntryRows /\ e.kind = "SUPPLIER" /\ e.by = "order" /\ e.of = key
          /\ e.absorbs = 0
      BY <3>1, EntryTypes
    <3> HIDE DEF e, t
    <3> QED BY <3>2, <2>3 DEF EntryRows
  <2> HIDE DEF row, t
  <2>5. Targets(row) = previous
    BY <2>3, <2>4 DEF Targets
  <2>6. Follows(entries, row) /\ OfSupplier(row) /\ Targets(row) \subseteq Active
    <3>1. CASE old # 0
      BY <3>1, <2>1, <2>4, <2>5, SellersEntry DEF Follows, OfSupplier
    <3>2. CASE old = 0
      BY <3>2, <2>3, <2>4, <2>5, OrderEntryActive DEF Follows, OfSupplier
    <3> QED BY <3>1, <3>2
  <2>7. \A i \in Active : Same(entries[i], row) => i \in Targets(row)
    BY <2>1, <2>4, <2>5, OrderEntryActive DEF Same
  <2> QED BY <2>1, <2>4, <2>6, <2>7, OneRowKeeps
<1> QED BY <1>1, <1>2

\* A list of all kinds as long as there are kinds names each once.
LEMMA KindsOnce ==
  ASSUME NEW order \in [1..Cardinality(WorkKinds) -> WorkKinds],
         {order[n] : n \in DOMAIN order} = WorkKinds
  PROVE  /\ DOMAIN order = 1..Cardinality(WorkKinds) /\ Cardinality(WorkKinds) \in Nat
         /\ \A m, n \in DOMAIN order : m # n => order[m] # order[n]
<1>1. IsFiniteSet({"SUPPLIER", "LABOR", "OTHER"})
  <2>1. IsFiniteSet({} \cup {"SUPPLIER"})
    BY FS_EmptySet, FS_AddElement
  <2>2. IsFiniteSet(({} \cup {"SUPPLIER"}) \cup {"LABOR"})
    BY <2>1, FS_AddElement
  <2>3. IsFiniteSet((({} \cup {"SUPPLIER"}) \cup {"LABOR"}) \cup {"OTHER"})
    BY <2>2, FS_AddElement
  <2>4. (({} \cup {"SUPPLIER"}) \cup {"LABOR"}) \cup {"OTHER"} = {"SUPPLIER", "LABOR", "OTHER"}
    OBVIOUS
  <2> QED BY <2>3, <2>4
<1>2. IsFiniteSet(WorkKinds)
  BY <1>1, FS_Subset, LedgerAssumption
<1>3. Cardinality(WorkKinds) \in Nat
  BY <1>2, FS_CardinalityType
<1>4. IsFiniteSet(1..Cardinality(WorkKinds))
      /\ Cardinality(1..Cardinality(WorkKinds)) = Cardinality(WorkKinds)
  BY <1>3, FS_Interval
<1>5. order \in Surjection(1..Cardinality(WorkKinds), WorkKinds)
  BY DEF Surjection
<1>6. order \in Injection(1..Cardinality(WorkKinds), WorkKinds)
  BY <1>4, <1>5, FS_SurjSameCardinalityImpliesInj
<1> QED BY <1>3, <1>6 DEF Injection, IsInjective

LEMMA WorkCostsKeep ==
  ASSUME LedgerInv, NEW w \in Works, NEW manual \in [WorkKinds -> {0} \cup DOMAIN entries],
         NEW spent \in [WorkKinds -> Amounts], RecordWorkCosts(w, manual, spent)
  PROVE  LedgerInv' /\ AddedBy("work")
<1> DEFINE own(k) == {i \in Active : /\ entries[i].by = "work" /\ entries[i].of = w
                                      /\ entries[i].kind = k}
<1> DEFINE e(k) == Entry(k, "ACTUAL", 0, "work", w)
<1> DEFINE row(k) == [e(k) EXCEPT !.amount = spent[k]]
<1> DEFINE Line(k) == IF own(k) = {} THEN [row(k) EXCEPT !.old = manual[k]]
                      ELSE [row(k) EXCEPT !.old = Max(own(k)), !.absorbs = manual[k]]
<1>1. \A k \in WorkKinds : manual[k] # 0 => Replaceable(manual[k], k)
  BY DEF RecordWorkCosts
<1>2. PICK order \in [1..Cardinality(WorkKinds) -> WorkKinds] :
        /\ {order[n] : n \in DOMAIN order} = WorkKinds
        /\ Record([n \in DOMAIN order |-> Line(order[n])])
  BY DEF RecordWorkCosts
<1>3. ASSUME NEW k \in WorkKinds
      PROVE  /\ Line(k) \in EntryRows /\ Line(k).kind = k /\ Line(k).by = "work"
             /\ Line(k).of = w
             /\ Targets(Line(k)) = own(k) \cup ({manual[k]} \ {0})
             /\ \A i \in own(k) : i = Line(k).old
  <2>1. k \in Kinds /\ spent[k] \in Amounts /\ 0 \in Amounts /\ manual[k] \in Nat
    BY LedgerAssumption DEF Amounts, LedgerInv, EntriesSound
  <2>2. /\ e(k) \in EntryRows /\ e(k).kind = k /\ e(k).by = "work" /\ e(k).of = w
        /\ e(k).old = 0 /\ e(k).absorbs = 0
    BY <2>1, EntryTypes
  <2>3. /\ row(k) \in EntryRows /\ row(k).kind = k /\ row(k).by = "work" /\ row(k).of = w
        /\ row(k).old = 0 /\ row(k).absorbs = 0
    <3> HIDE DEF e
    <3> QED BY <2>1, <2>2 DEF EntryRows
  <2>4. own(k) \subseteq Nat \ {0} /\ \A i, j \in own(k) : i = j
    BY DEF LedgerInv, EntriesSound, OneCounts, Unique, Same, Active
  <2>5. own(k) # {} => Max(own(k)) \in Nat \ {0} /\ own(k) = {Max(own(k))}
    BY <2>4 DEF Max
  <2> HIDE DEF row, own
  <2>6. CASE own(k) = {}
    BY <2>1, <2>3, <2>6 DEF EntryRows, Targets
  <2>7. CASE own(k) # {}
    BY <2>1, <2>3, <2>5, <2>7 DEF EntryRows, Targets
  <2> QED BY <2>6, <2>7
<1> HIDE DEF Line
<1>4. \A k \in WorkKinds : \A i \in Targets(Line(k)) :
        /\ i \in Active /\ i \in DOMAIN entries /\ entries[i].kind = k
        /\ entries[i].by = "seller" \/ i \in own(k)
  <2> SUFFICES ASSUME NEW k \in WorkKinds, NEW i \in Targets(Line(k))
               PROVE  /\ i \in Active /\ i \in DOMAIN entries /\ entries[i].kind = k
                      /\ entries[i].by = "seller" \/ i \in own(k)
    OBVIOUS
  <2>1. CASE i \in own(k)
    BY <2>1 DEF Active
  <2>2. CASE i = manual[k] /\ manual[k] # 0
    BY <2>2, <1>1, SellersEntry
  <2> QED BY <2>1, <2>2, <1>3
<1>5. \A k \in WorkKinds : \A i \in own(k) : entries[i].by = "work" /\ entries[i].of = w
  OBVIOUS
<1>6. \A k \in WorkKinds : \A i \in Active :
        Same(entries[i], Line(k)) => i \in Targets(Line(k))
  BY <1>3 DEF Same
<1> HIDE DEF own
<1> DEFINE rows == [n \in DOMAIN order |-> Line(order[n])]
<1>7. /\ DOMAIN order = 1..Cardinality(WorkKinds) /\ Cardinality(WorkKinds) \in Nat
      /\ \A m, n \in DOMAIN order : m # n => order[m] # order[n]
      /\ \A n \in DOMAIN order : order[n] \in WorkKinds
  BY <1>2, KindsOnce
<1>8. rows \in Seq(EntryRows) /\ DOMAIN rows = DOMAIN order
      /\ \A n \in DOMAIN rows : rows[n] = Line(order[n])
  BY <1>3, <1>7
<1>9. entries' = entries \o rows
  BY <1>2 DEF Record
<1> HIDE DEF rows
<1>10. ASSUME NEW n \in DOMAIN rows
       PROVE  /\ Follows(entries, rows[n]) /\ OfSupplier(rows[n])
              /\ Targets(rows[n]) \subseteq Active
              /\ \A i \in Active : Same(entries[i], rows[n]) => i \in Targets(rows[n])
  <2> DEFINE k == order[n]
  <2>1. k \in WorkKinds /\ rows[n] = Line(k)
    BY <1>7, <1>8
  <2> HIDE DEF k
  <2>2. OfSupplier(Line(k))
    BY <2>1, <1>3, LedgerAssumption DEF OfSupplier
  <2>3. Follows(entries, Line(k)) /\ Targets(Line(k)) \subseteq Active
    BY <2>1, <1>3, <1>4, <1>5 DEF Follows
  <2> QED BY <2>1, <2>2, <2>3, <1>6
<1>11. ASSUME NEW n \in DOMAIN rows, NEW m \in DOMAIN rows \ {n}
       PROVE  /\ Targets(rows[m]) \cap Targets(rows[n]) = {}
              /\ ~Same(rows[m], rows[n])
  <2>1. order[m] # order[n] /\ order[m] \in WorkKinds /\ order[n] \in WorkKinds
    BY <1>7, <1>8
  <2> QED BY <2>1, <1>3, <1>4, <1>8 DEF Same
<1>12. Fitting(rows)
  BY <1>10, <1>11 DEF Fitting
<1>13. AddedBy("work")
  <2>1. ASSUME NEW n \in DOMAIN rows PROVE rows[n].by = "work"
    <3>1. order[n] \in WorkKinds /\ rows[n] = Line(order[n])
      BY <1>7, <1>8
    <3>2. Line(order[n]).by = "work"
      BY <3>1, <1>3
    <3> QED BY <3>1, <3>2
  <2> QED BY <2>1, <1>8, <1>9, <1>12 DEF AddedBy
<1> QED BY <1>8, <1>9, <1>12, <1>13, RecordKeeps

\* A movement or a revenue of the work is added; of payments no more is taken
\* back than was paid.
SettledOn(w) ==
  \E row \in EntryRows :
    /\ entries' = entries \o <<row>>
    /\ Follows(entries, row) /\ Targets(row) \subseteq Active
    /\ row.by = "settlement" /\ row.of = w
    /\ \/ row.kind = "REVENUE"
       \/ Net(Managed(w) \ Targets(row)) + Signed(row.kind, row.amount) >= 0

LEMMA SettleKeeps ==
  ASSUME LedgerInv, NEW w \in Works, NEW kind \in Kinds, NEW amount \in Amounts,
         NEW chosen \in {0} \cup DOMAIN entries, Settle(w, kind, amount, chosen)
  PROVE  LedgerInv' /\ AddedBy("settlement") /\ SettledOn(w)
<1> DEFINE revenue == {i \in Managed(w) : kind = "REVENUE" /\ entries[i].kind = kind}
<1> DEFINE corrected == {chosen} \cap Managed(w)
<1> DEFINE old == IF corrected # {} THEN corrected ELSE revenue
<1> DEFINE mine == {chosen} \ (corrected \cup {0})
<1> DEFINE e == Entry(kind, "ACTUAL", amount, "settlement", w)
<1> DEFINE row == IF old = {} THEN [e EXCEPT !.old = chosen]
                  ELSE [e EXCEPT !.old = Max(old),
                                 !.absorbs = IF mine = {} THEN 0 ELSE chosen]
<1>1. /\ kind \in CashKinds \cup {"REVENUE"}
      /\ corrected # {} => entries[chosen].kind = kind
      /\ mine # {} => Replaceable(chosen, kind)
      /\ Record(<<row>>)
  BY DEF Settle
<1>2. /\ chosen \in Nat
      /\ \A i \in Managed(w) : /\ i \in Active /\ i \in DOMAIN entries /\ i \in Nat \ {0}
                               /\ entries[i].by = "settlement" /\ entries[i].of = w
  BY DEF Managed, Active, LedgerInv, EntriesSound
<1>3. \A i, j \in revenue : i = j
  BY <1>2 DEF LedgerInv, OneCounts, Unique, Same
<1>4. \A i, j \in old : i = j
  BY <1>3
<1>5. \A i \in old : i \in Managed(w) /\ entries[i].kind = kind
  BY <1>1
<1>6. old # {} => Max(old) \in Nat \ {0} /\ old = {Max(old)}
  BY <1>2, <1>4, <1>5 DEF Max
<1>7. /\ e \in EntryRows /\ e.kind = kind /\ e.by = "settlement" /\ e.of = w
      /\ e.old = 0 /\ e.absorbs = 0
      /\ kind \in CashKinds => e.amount = amount
  BY EntryTypes
<1>8. old = {} => corrected = {}
  OBVIOUS
<1>9. mine = {} \/ mine = {chosen}
  OBVIOUS
<1>10. corrected = {} => mine = {chosen} \ {0}
  OBVIOUS
<1>11. \A i \in Active : entries[i].by = "settlement" /\ entries[i].of = w
         /\ entries[i].kind = kind /\ kind = "REVENUE" => i \in revenue
  BY DEF Managed
<1>12. kind = "REVENUE" => revenue \subseteq old
  BY <1>1, <1>3
<1> HIDE DEF e, old, mine, corrected, revenue
<1>13. /\ row \in EntryRows /\ row.kind = kind /\ row.by = "settlement" /\ row.of = w
       /\ kind \in CashKinds => row.amount = amount
       /\ Targets(row) = old \cup mine
       /\ \A i \in old : i = row.old
  <2>1. CASE old = {}
    BY <2>1, <1>2, <1>7, <1>8, <1>10 DEF EntryRows, Targets
  <2>2. CASE old # {}
    <3>1. mine # {} => chosen # 0
      BY DEF mine
    <3> QED BY <2>2, <3>1, <1>2, <1>6, <1>7, <1>9 DEF EntryRows, Targets
  <2> QED BY <2>1, <2>2
<1> HIDE DEF row
<1>14. \A i \in mine : Replaceable(i, kind)
  BY <1>1, <1>9
<1>15. \A i \in mine : i \in Active /\ i \in DOMAIN entries /\ entries[i].kind = kind
                       /\ entries[i].by = "seller"
  BY <1>14, SellersEntry
<1>16. Follows(entries, row) /\ OfSupplier(row) /\ Targets(row) \subseteq Active
  BY <1>2, <1>5, <1>13, <1>15, LedgerAssumption DEF Follows, OfSupplier
<1>17. Unique(row) => \A i \in Active : Same(entries[i], row) => i \in Targets(row)
  BY <1>11, <1>12, <1>13 DEF Unique, Same
<1>18. LedgerInv' /\ AddedBy("settlement")
  BY <1>1, <1>13, <1>16, <1>17, OneRowKeeps
<1>19. kind \in CashKinds => Net(Managed(w) \ Targets(row)) + Signed(kind, amount) >= 0
  <2>1. kind \in CashKinds => NetAfter(w, old, kind, amount) >= 0
    BY DEF Settle, old, revenue, corrected
  <2>2. Managed(w) \ Targets(row) = Managed(w) \ old
    BY <1>2, <1>13, <1>15
  <2>. QED
    BY <2>1, <2>2 DEF NetAfter
<1>20. SettledOn(w)
  BY <1>1, <1>13, <1>16, <1>19 DEF SettledOn, Record
<1>. QED
  BY <1>18, <1>20

\* The events of the batches, whose places the entries of orders refer to.
EventsTypeOK ==
  batches \in [Proposals -> Seq([kind: EventKinds, group: Groups]) \cup {None}]

LEMMA NextEvents == EventsTypeOK /\ [Next]_vars => EventsTypeOK'
<1> SUFFICES ASSUME EventsTypeOK, [Next]_vars PROVE EventsTypeOK'
  OBVIOUS
<1>1. CASE UNCHANGED batches
  BY <1>1 DEF EventsTypeOK
<1>2. ASSUME NEW p \in Proposals, Prepare(p) PROVE EventsTypeOK'
  <2>1. << >> \in Seq([kind: EventKinds, group: Groups])
    OBVIOUS
  <2> HIDE DEF EventKinds
  <2> QED BY <1>2, <2>1 DEF Prepare, EventsTypeOK
<1>3. ASSUME NEW key \in OrderKeys, NEW kind \in EventKinds, NEW old,
             SupplierEvent(key, kind, old)
      PROVE  EventsTypeOK'
  <2>1. key[1] \in Proposals /\ key[2] \in Groups
    BY OrdersAssumption
  <2>2. batches[key[1]] \in Seq([kind: EventKinds, group: Groups])
    BY <1>3, <2>1 DEF SupplierEvent, EventsTypeOK
  <2>3. Append(batches[key[1]], [kind |-> kind, group |-> key[2]])
          \in Seq([kind: EventKinds, group: Groups])
    BY <2>1, <2>2
  <2> QED BY <1>3, <2>1, <2>3 DEF SupplierEvent, EventsTypeOK
<1>4. ASSUME NEW c \in Calls, SendStep(c) PROVE UNCHANGED batches
  BY <1>4 DEF SendStep, BeginSend, Claim, Mail, RecordOutcome
<1> QED
  BY <1>1, <1>2, <1>3, <1>4 DEF Next, vars, ordersVars, AgreementChanges, CatalogWithdrawn,
                                Crash

LEMMA NextLedger == LedgerInv /\ EventsTypeOK /\ [Next]_vars => LedgerInv'
<1> SUFFICES ASSUME LedgerInv, EventsTypeOK, [Next]_vars PROVE LedgerInv'
  OBVIOUS
<1>1. CASE UNCHANGED entries
  BY <1>1 DEF LedgerInv, EntriesSound, ReplacedOnce, OneCounts, Active, Replacers,
              Follows, OfSupplier, Targets, Unique, Same
<1>2. ASSUME NEW open, LedgerNext(open) PROVE LedgerInv'
  BY <1>1, <1>2, AddKeeps, WorkCostsKeep, SettleKeeps DEF LedgerNext, CheckPayment
<1>3. ASSUME NEW key \in OrderKeys, NEW kind \in EventKinds,
             NEW old \in {0} \cup DOMAIN entries, SupplierEvent(key, kind, old)
      PROVE  LedgerInv'
  <2>1. Len(batches[key[1]]) + 1 \in Nat
    BY <1>3, OrdersAssumption DEF SupplierEvent, EventsTypeOK
  <2> QED BY <2>1, <1>3, OrderCostKeeps DEF SupplierEvent
<1> QED
  BY <1>1, <1>2, <1>3 DEF Next, vars, ledgerVars, Prepare, SendStep, BeginSend, Claim, Mail,
                          RecordOutcome, AgreementChanges, CatalogWithdrawn, Crash

LEMMA InitLedger == Init => LedgerInv /\ EventsTypeOK
BY DEF Init, LedgerInit, LedgerInv, EntriesSound, ReplacedOnce, OneCounts, Active, EventsTypeOK

\* However entries are replaced, absorbed and corrected by the services, none
\* is replaced twice or by one of another kind, and each order, each line of a
\* work and each work's revenue has one entry that counts.
THEOREM EntriesCountOnce == Spec => []CountedOnce
BY InitLedger, NextEvents, NextLedger, SoundCountsOnce, PTL DEF Spec

-----------------------------------------------------------------------------
(* What is paid and refunded for a work.                                   *)

SignedOf(es) == [i \in DOMAIN es |-> Signed(es[i].kind, es[i].amount)]

LEMMA SignedType ==
  ASSUME NEW es \in Seq(EntryRows)
  PROVE  /\ SignedOf(es) \in [DOMAIN es -> Int]
         /\ \A i \in DOMAIN es : es[i].kind = "REVENUE" => SignedOf(es)[i] = 0
<1>1. \A i \in DOMAIN es : es[i] \in EntryRows
  OBVIOUS
<1>2. MaxAmount \in Nat
  BY LedgerAssumption
<1>3. \A e \in EntryRows : /\ Signed(e.kind, e.amount) \in Int
                           /\ e.kind = "REVENUE" => Signed(e.kind, e.amount) = 0
  BY <1>2 DEF Signed, EntryRows, Amounts
<1>. QED
  BY <1>1, <1>3 DEF SignedOf

LEMMA ManagedFinite ==
  ASSUME LedgerInv, NEW w
  PROVE  /\ IsFiniteSet(Managed(w)) /\ Managed(w) \subseteq DOMAIN entries
         /\ Net(Managed(w)) = SumFunctionOnSet(SignedOf(entries), Managed(w))
<1>1. entries \in Seq(EntryRows) /\ Managed(w) \subseteq 1 .. Len(entries)
  BY DEF LedgerInv, EntriesSound, Managed, Active
<1>2. IsFiniteSet(1 .. Len(entries))
  BY <1>1, FS_Interval
<1>. QED
  BY <1>1, <1>2, FS_Subset DEF Net, SignedOf

Attached(rows) ==
  \A n \in DOMAIN rows : Follows(entries, rows[n]) /\ Targets(rows[n]) \subseteq Active

\* What is managed of a work once rows are added.
LEMMA ManagedAfter ==
  ASSUME LedgerInv, NEW rows \in Seq(EntryRows), Attached(rows), entries' = entries \o rows,
         NEW w \in Works
  PROVE  /\ \A i \in DOMAIN entries :
              i \in Managed(w)' <=> /\ i \in Managed(w)
                                    /\ \A n \in DOMAIN rows : i \notin Targets(rows[n])
         /\ \A n \in DOMAIN rows : Len(entries) + n \in Managed(w)' <=>
              rows[n].by = "settlement" /\ rows[n].of = w
         /\ \A i \in Managed(w)' :
              i \in DOMAIN entries \/ \E n \in DOMAIN rows : i = Len(entries) + n
         /\ \A i \in DOMAIN entries : SignedOf(entries)'[i] = SignedOf(entries)[i]
         /\ \A n \in DOMAIN rows : /\ Len(entries) + n \notin DOMAIN entries
                                   /\ SignedOf(entries)'[Len(entries) + n]
                                        = Signed(rows[n].kind, rows[n].amount)
<1> DEFINE L == Len(entries)
<1>1. entries \in Seq(EntryRows) /\ L \in Nat /\ DOMAIN entries = 1..L
      /\ Len(rows) \in Nat /\ DOMAIN rows = 1..Len(rows)
  BY DEF LedgerInv, EntriesSound
<1>2. /\ DOMAIN entries' = 1..(L + Len(rows))
      /\ \A j \in 1..L : entries'[j] = entries[j]
      /\ \A n \in 1..Len(rows) : L + n \in DOMAIN entries' /\ entries'[L + n] = rows[n]
  BY <1>1
<1>3. \A j \in DOMAIN entries' : j \in DOMAIN entries \/ \E n \in DOMAIN rows : j = L + n
  <2> SUFFICES ASSUME NEW j \in 1..(L + Len(rows)), j \notin 1..L
               PROVE  \E n \in 1..Len(rows) : j = L + n
    BY <1>1, <1>2
  <2>1. j - L \in 1..Len(rows) /\ j = L + (j - L)
    BY <1>1
  <2> QED BY <2>1
<1>4. /\ \A i \in DOMAIN entries : i \in DOMAIN entries' /\ entries'[i] = entries[i] /\ i # 0
      /\ \A n \in DOMAIN rows : /\ L + n \in DOMAIN entries' /\ entries'[L + n] = rows[n]
                                /\ L + n # 0 /\ L + n \notin DOMAIN entries
  BY <1>1, <1>2
<1> HIDE DEF L
<1>5. ASSUME NEW i \in DOMAIN entries'
      PROVE  i \in Active' <=> /\ \A j \in DOMAIN entries : i \notin Targets(entries[j])
                               /\ \A n \in DOMAIN rows : i \notin Targets(rows[n])
  <2>1. i # 0
    BY <1>3, <1>4, <1>5
  <2>2. i \in Active' <=> \A j \in DOMAIN entries' : i \notin Targets(entries'[j])
    BY <2>1 DEF Active, Replacers, Targets
  <2> DEFINE Untargeted(row) == i \notin Targets(row)
  <2> HIDE DEF Untargeted
  <2>3. (\A j \in DOMAIN entries' : Untargeted(entries'[j])) =>
           /\ \A j \in DOMAIN entries : Untargeted(entries[j])
           /\ \A n \in DOMAIN rows : Untargeted(rows[n])
    BY <1>4
  <2>4. ASSUME \A j \in DOMAIN entries : Untargeted(entries[j]),
               \A n \in DOMAIN rows : Untargeted(rows[n])
        PROVE  \A j \in DOMAIN entries' : Untargeted(entries'[j])
    BY <1>3, <1>4, <2>4
  <2>. QED
    BY <2>2, <2>3, <2>4 DEF Untargeted
<1>6. \A i \in DOMAIN entries :
        i \in Active <=> \A j \in DOMAIN entries : i \notin Targets(entries[j])
  BY <1>4 DEF Active, Replacers, Targets
<1>7. \A i \in DOMAIN entries :
        i \in Managed(w)' <=> /\ i \in Managed(w)
                              /\ \A n \in DOMAIN rows : i \notin Targets(rows[n])
  BY <1>4, <1>5, <1>6 DEF Managed
<1>8. ASSUME NEW n \in DOMAIN rows
      PROVE  L + n \in Managed(w)' <=> rows[n].by = "settlement" /\ rows[n].of = w
  <2>1. \A j \in DOMAIN entries : L + n \notin Targets(entries[j])
    BY <1>4 DEF LedgerInv, EntriesSound, Follows
  <2>2. \A m \in DOMAIN rows : L + n \notin Targets(rows[m])
    BY <1>4 DEF Attached, Follows
  <2>3. L + n \in Active'
    BY <1>4, <1>5, <2>1, <2>2
  <2>. QED
    BY <1>4, <2>3 DEF Managed
<1>9. /\ \A i \in DOMAIN entries : SignedOf(entries)'[i] = SignedOf(entries)[i]
      /\ \A n \in DOMAIN rows : SignedOf(entries)'[L + n] = Signed(rows[n].kind, rows[n].amount)
  BY <1>4 DEF SignedOf
<1>. QED
  BY <1>3, <1>4, <1>7, <1>8, <1>9 DEF Managed, Active, L

\* What is not settled of the work leaves what was settled as it is.
LEMMA OthersUnsettled ==
  ASSUME LedgerInv, NEW rows \in Seq(EntryRows), Attached(rows), entries' = entries \o rows,
         NEW w \in Works, LedgerInv',
         \A n \in DOMAIN rows : ~(rows[n].by = "settlement" /\ rows[n].of = w)
  PROVE  Net(Managed(w))' = Net(Managed(w))
<1>1. \A i \in Managed(w) : \A n \in DOMAIN rows : i \notin Targets(rows[n])
  BY DEF Managed, Attached, Follows
<1>2. Managed(w)' = Managed(w)
  <2>1. /\ \A i \in DOMAIN entries : i \in Managed(w)' <=> i \in Managed(w)
        /\ \A i \in Managed(w)' : i \in DOMAIN entries
    BY <1>1, ManagedAfter
  <2>2. Managed(w) \subseteq DOMAIN entries
    BY ManagedFinite
  <2>. QED
    BY <2>1, <2>2
<1>3. SumFunctionOnSet(SignedOf(entries)', Managed(w))
        = SumFunctionOnSet(SignedOf(entries), Managed(w))
  <2>1. PICK f, g, M : f = SignedOf(entries) /\ g = SignedOf(entries)' /\ M = Managed(w)
    OBVIOUS
  <2>2. IsFiniteSet(M) /\ M \subseteq DOMAIN entries
    BY <2>1, ManagedFinite
  <2>3. \A i \in M : g[i] = f[i]
    BY <2>1, <2>2, ManagedAfter
  <2>4. SumFunctionOnSet(g, M) = SumFunctionOnSet(f, M)
    BY <2>2, <2>3, SumSame
  <2>. QED
    BY <2>1, <2>4
<1>4. Net(Managed(w))' = SumFunctionOnSet(SignedOf(entries)', Managed(w)')
  BY DEF Net, SignedOf
<1>. QED
  BY <1>2, <1>3, <1>4, ManagedFinite

\* A movement that is settled keeps the balance of its work.
LEMMA SettledKeepsBalance ==
  ASSUME LedgerInv, LedgerInv', NEW w \in Works, SettledOn(w), Net(Managed(w)) >= 0
  PROVE  Net(Managed(w))' >= 0
<1>1. PICK row \in EntryRows :
        /\ entries' = entries \o <<row>>
        /\ Follows(entries, row) /\ Targets(row) \subseteq Active
        /\ row.by = "settlement" /\ row.of = w
        /\ \/ row.kind = "REVENUE"
           \/ Net(Managed(w) \ Targets(row)) + Signed(row.kind, row.amount) >= 0
  BY DEF SettledOn
<1>2. PICK rows : rows = <<row>>
  OBVIOUS
<1>3. /\ rows \in Seq(EntryRows) /\ DOMAIN rows = {1} /\ rows[1] = row
      /\ entries' = entries \o rows
  BY <1>1, <1>2
<1>4. Attached(rows)
  BY <1>1, <1>3 DEF Attached
<1>5. PICK f, g, M, T, new : /\ f = SignedOf(entries) /\ g = SignedOf(entries)'
                             /\ M = Managed(w) /\ T = Targets(row)
                             /\ new = Len(entries) + 1
  OBVIOUS
<1>6. /\ Managed(w)' = (M \ T) \cup {new} /\ new \notin M
      /\ \A i \in M : g[i] = f[i] /\ f[i] \in Int
      /\ g[new] = Signed(row.kind, row.amount) /\ g[new] \in Int
  <2>1. /\ \A i \in DOMAIN entries :
             i \in Managed(w)' <=> i \in M /\ i \notin T
        /\ new \in Managed(w)'
        /\ \A i \in Managed(w)' : i \in DOMAIN entries \/ i = new
        /\ \A i \in DOMAIN entries : g[i] = f[i]
        /\ new \notin DOMAIN entries /\ g[new] = Signed(row.kind, row.amount)
    BY <1>1, <1>3, <1>4, <1>5, ManagedAfter
  <2>2. M \subseteq DOMAIN entries
    BY <1>5, ManagedFinite
  <2>3. \A i \in DOMAIN entries : f[i] \in Int
    BY <1>5, SignedType DEF LedgerInv, EntriesSound
  <2>4. Signed(row.kind, row.amount) \in Int
    BY DEF Signed, EntryRows, Amounts
  <2>. QED
    BY <2>1, <2>2, <2>3, <2>4
<1>7. IsFiniteSet(M) /\ IsFiniteSet(M \ T)
  BY <1>5, ManagedFinite, FS_Difference
<1>8. SumFunctionOnSet(g, (M \ T) \cup {new}) = SumFunctionOnSet(f, M \ T) + g[new]
  <2>1. SumFunctionOnSet(g, (M \ T) \cup {new}) = SumFunctionOnSet(g, M \ T) + g[new]
    BY <1>6, <1>7, SumAdd
  <2>2. SumFunctionOnSet(g, M \ T) = SumFunctionOnSet(f, M \ T)
    BY <1>6, <1>7, SumSame
  <2>. QED
    BY <2>1, <2>2
<1>9. Net(Managed(w))' = SumFunctionOnSet(f, M \ T) + g[new]
  <2>1. Net(Managed(w))' = SumFunctionOnSet(g, Managed(w)')
    BY <1>5 DEF Net, SignedOf
  <2>. QED
    BY <1>6, <1>8, <2>1
<1>10. /\ SumFunctionOnSet(f, M) >= 0
       /\ Net(Managed(w) \ Targets(row)) = SumFunctionOnSet(f, M \ T)
  BY <1>5, ManagedFinite DEF Net, SignedOf
<1>11. CASE row.kind = "REVENUE"
  <2>1. g[new] = 0
    BY <1>6, <1>11 DEF Signed
  <2>2. \A i \in M \cap T : i = row.old /\ f[i] = 0
    <3>1. \A i \in M : i \in DOMAIN entries /\ entries[i].by = "settlement"
      BY <1>5 DEF Managed, Active
    <3>2. \A i \in T : /\ entries[i].kind = "REVENUE"
                       /\ entries[i].by # "seller" => i = row.old
      BY <1>1, <1>5, <1>11 DEF Follows
    <3>. QED
      BY <1>5, <3>1, <3>2, SignedType DEF LedgerInv, EntriesSound
  <2>3. SumFunctionOnSet(f, M \ T) >= 0
    <3>1. CASE M \cap T = {}
      <4>1. M \ T = M
        BY <3>1
      <4>. QED
        BY <1>10, <4>1
    <3>2. CASE M \cap T # {}
      <4>1. row.old \in M /\ M \ T = M \ {row.old} /\ f[row.old] = 0
        BY <2>2, <3>2
      <4>2. SumFunctionOnSet(f, M) = f[row.old] + SumFunctionOnSet(f, M \ {row.old})
        BY <1>6, <1>7, <4>1, SumRemove
      <4>3. SumFunctionOnSet(f, M \ {row.old}) \in Int
        BY <1>6, <1>7, <4>1, FS_Subset, SumType
      <4>4. PICK rest : rest = SumFunctionOnSet(f, M \ {row.old})
        OBVIOUS
      <4>5. rest >= 0
        BY <1>10, <4>1, <4>2, <4>3, <4>4
      <4>. QED
        BY <4>1, <4>4, <4>5
    <3>. QED
      BY <3>1, <3>2
  <2>4. SumFunctionOnSet(f, M \ T) \in Int
    BY <1>6, <1>7, SumType
  <2>. QED
    BY <1>9, <2>1, <2>3, <2>4
<1>12. CASE row.kind # "REVENUE"
  BY <1>1, <1>6, <1>9, <1>10, <1>12
<1>. QED
  BY <1>11, <1>12

RefundsInv == LedgerInv /\ EventsTypeOK /\ RefundsCovered

LEMMA UnsettledKeepsBalance ==
  ASSUME RefundsInv, LedgerInv', NEW by \in {"seller", "work", "order", "settlement"},
         AddedBy(by), NEW w \in Works,
         by = "settlement" => \E v \in Works : v # w /\ SettledOn(v)
  PROVE  Net(Managed(w))' >= 0
<1>1. PICK rows \in Seq(EntryRows) :
        /\ entries' = entries \o rows /\ Attached(rows)
        /\ \A n \in DOMAIN rows : ~(rows[n].by = "settlement" /\ rows[n].of = w)
  <2>1. CASE by # "settlement"
    BY <2>1 DEF AddedBy, Fitting, Attached
  <2>2. CASE by = "settlement"
    <3>1. PICK v \in Works, row \in EntryRows :
            /\ v # w /\ entries' = entries \o <<row>> /\ row.of = v
            /\ Follows(entries, row) /\ Targets(row) \subseteq Active
      BY <2>2 DEF SettledOn
    <3>2. PICK rows : rows = <<row>>
      OBVIOUS
    <3>3. rows \in Seq(EntryRows) /\ DOMAIN rows = {1} /\ rows[1] = row
      BY <3>2
    <3>. QED
      BY <3>1, <3>2, <3>3 DEF Attached
  <2>. QED
    BY <2>1, <2>2
<1>2. Net(Managed(w))' = Net(Managed(w))
  BY <1>1, OthersUnsettled DEF RefundsInv
<1>. QED
  BY <1>2 DEF RefundsInv, RefundsCovered

LEMMA NextRefunds == RefundsInv /\ [Next]_vars => RefundsInv'
<1> SUFFICES ASSUME RefundsInv, [Next]_vars PROVE RefundsInv'
  OBVIOUS
<1>1. LedgerInv /\ EventsTypeOK /\ LedgerInv' /\ EventsTypeOK'
  BY NextEvents, NextLedger DEF RefundsInv
<1>2. CASE UNCHANGED entries
  BY <1>1, <1>2 DEF RefundsInv, RefundsCovered, Net, Managed, Active, Replacers
<1>3. ASSUME NEW by \in {"seller", "work", "order"}, AddedBy(by) PROVE RefundsCovered'
  BY <1>1, <1>3, UnsettledKeepsBalance DEF RefundsCovered
<1>4. ASSUME NEW v \in Works, AddedBy("settlement"), SettledOn(v) PROVE RefundsCovered'
  BY <1>1, <1>4, UnsettledKeepsBalance, SettledKeepsBalance DEF RefundsCovered, RefundsInv
<1>5. ASSUME NEW open, LedgerNext(open) PROVE UNCHANGED entries \/ RefundsCovered'
  BY <1>1, <1>3, <1>4, <1>5, AddKeeps, WorkCostsKeep, SettleKeeps DEF LedgerNext, CheckPayment
<1>6. ASSUME NEW key \in OrderKeys, NEW kind \in EventKinds,
             NEW old \in {0} \cup DOMAIN entries, SupplierEvent(key, kind, old)
      PROVE  UNCHANGED entries \/ RefundsCovered'
  <2>1. Len(batches[key[1]]) + 1 \in Nat
    BY <1>1, <1>6, OrdersAssumption DEF SupplierEvent, EventsTypeOK
  <2> QED BY <1>1, <1>3, <1>6, <2>1, OrderCostKeeps DEF SupplierEvent
<1>7. UNCHANGED entries \/ RefundsCovered'
  BY <1>5, <1>6 DEF Next, vars, ledgerVars, Prepare, SendStep, BeginSend, Claim, Mail,
                    RecordOutcome, AgreementChanges, CatalogWithdrawn, Crash
<1>. QED
  BY <1>1, <1>2, <1>7 DEF RefundsInv

LEMMA InitRefunds == Init => RefundsInv
<1> SUFFICES ASSUME Init, NEW w \in Works PROVE Net(Managed(w)) >= 0
  BY InitLedger DEF RefundsInv, RefundsCovered
<1>1. Managed(w) = {}
  BY DEF Init, LedgerInit, Managed, Active
<1>. QED
  BY <1>1, SumEmpty DEF Net

\* No order of payments, refunds and corrections leaves more refunded for a
\* work than was paid for it.
THEOREM RefundsAreCovered == Spec => []RefundsCovered
<1>1. RefundsInv => RefundsCovered
  BY DEF RefundsInv
<1>. QED
  BY <1>1, InitRefunds, NextRefunds, PTL DEF Spec

-----------------------------------------------------------------------------
(* The cost of an order.                                                   *)

Said(key) == IF LastEvent(key, "INVOICE") # 0 THEN LastEvent(key, "INVOICE")
             ELSE LastEvent(key, "CONFIRMATION")

\* There is an entry once something was said, it is of what counts, and it is
\* final once there is an invoice.
CostsCurrent ==
  \A key \in OrderKeys :
    /\ batches[key[1]] = None => OrderEntry(key) = {}
    /\ batches[key[1]] # None =>
         /\ LastEvent(key, "INVOICE") \in Nat /\ LastEvent(key, "CONFIRMATION") \in Nat
         /\ OrderEntry(key) = {} <=> Said(key) = 0
         /\ \A i \in OrderEntry(key) :
              /\ entries[i].event = Said(key)
              /\ entries[i].stage = "ACTUAL" <=> LastEvent(key, "INVOICE") # 0

CostsInv == LedgerInv /\ EventsTypeOK /\ CostsCurrent

LEMMA CurrentAsInvoiced == CostsInv => CostAsInvoiced
<1> SUFFICES ASSUME CostsInv, NEW key \in OrderKeys, batches[key[1]] # None
             PROVE  {entries[i].event : i \in {j \in Active : entries[j].of = key}}
                      = {Said(key)} \ {0}
  BY DEF CostAsInvoiced, Said
<1>1. {j \in Active : entries[j].of = key} = OrderEntry(key)
  BY OrderEntryActive DEF CostsInv, LedgerInv, EntriesSound, OfSupplier, Active
<1>2. /\ OrderEntry(key) = {} <=> Said(key) = 0
      /\ \A i \in OrderEntry(key) : entries[i].event = Said(key)
  BY DEF CostsInv, CostsCurrent
<1> QED BY <1>1, <1>2

\* Rows that are no order's change no order's entry.
LEMMA OthersKeepCosts ==
  ASSUME LedgerInv, NEW rows \in Seq(EntryRows), entries' = entries \o rows,
         NEW key \in OrderKeys,
         \A n \in DOMAIN rows : ~(rows[n].by = "order" /\ rows[n].of = key)
  PROVE  /\ OrderEntry(key)' = OrderEntry(key)
         /\ \A i \in OrderEntry(key) : entries'[i] = entries[i]
<1> DEFINE own == {i \in DOMAIN entries : entries[i].by = "order" /\ entries[i].of = key}
<1> DEFINE L == Len(entries)
<1>1. entries \in Seq(EntryRows) /\ DOMAIN entries = 1..L
  BY DEF LedgerInv, EntriesSound
<1>2. /\ \A i \in DOMAIN entries : i \in DOMAIN entries' /\ entries'[i] = entries[i]
      /\ \A i \in DOMAIN entries' \ DOMAIN entries :
           i - L \in DOMAIN rows /\ entries'[i] = rows[i - L]
  <2>1. /\ L \in Nat /\ Len(rows) \in Nat /\ DOMAIN rows = 1..Len(rows)
        /\ DOMAIN entries' = 1..(L + Len(rows))
        /\ \A i \in 1..L : entries'[i] = entries[i]
        /\ \A n \in 1..Len(rows) : entries'[L + n] = rows[n]
    BY <1>1
  <2>2. \A i \in 1..(L + Len(rows)) : i \notin 1..L => i - L \in 1..Len(rows) /\ L + (i - L) = i
    BY <2>1
  <2>3. 1..L \subseteq 1..(L + Len(rows))
    BY <2>1
  <2> QED BY <1>1, <2>1, <2>2, <2>3
<1>3. {i \in DOMAIN entries' : entries'[i].by = "order" /\ entries'[i].of = key} = own
  BY <1>2
<1> QED BY <1>2, <1>3 DEF OrderEntry

\* One entry is added for an order, in the place of the one it had.
RecordsCost(key, kind, event) ==
  \E row \in EntryRows :
    /\ entries' = entries \o <<row>>
    /\ row.by = "order" /\ row.of = key /\ row.event = event
    /\ row.stage = IF kind = "INVOICE" THEN "ACTUAL" ELSE "PLANNED"
    /\ OrderEntry(key) \subseteq {row.old} /\ row.old \in {0} \cup DOMAIN entries

\* A confirmation or an invoice that counts becomes the order's only entry.
LEMMA OrderCostRecords ==
  ASSUME LedgerInv, NEW key \in OrderKeys, NEW kind \in {"CONFIRMATION", "INVOICE"},
         NEW event \in Nat, NEW old \in {0} \cup DOMAIN entries,
         RecordOrderCost(key, kind, event, old),
         ~(old = 0 /\ Outdated(kind, OrderEntry(key)))
  PROVE  RecordsCost(key, kind, event)
<1> DEFINE previous == IF old # 0 THEN {old} ELSE OrderEntry(key)
<1> DEFINE stage == IF kind = "INVOICE" THEN "ACTUAL" ELSE "PLANNED"
<1> DEFINE e == Entry("SUPPLIER", stage, 0, "order", key)
<1> DEFINE t == IF previous = {} THEN 0 ELSE Max(previous)
<1> DEFINE row == [e EXCEPT !.old = t, !.event = event]
<1>1. Record(<<row>>) /\ (old # 0 => OrderEntry(key) = {})
  BY DEF RecordOrderCost
<1>2. previous \subseteq DOMAIN entries /\ DOMAIN entries \subseteq Nat \ {0}
      /\ \A i, j \in previous : i = j
  BY OrderEntryActive DEF LedgerInv, EntriesSound
<1>3. t \in {0} \cup DOMAIN entries /\ t \in Nat /\ {t} \ {0} = previous
  BY <1>2 DEF Max
<1>4. /\ row \in EntryRows /\ row.by = "order" /\ row.of = key /\ row.old = t
      /\ row.event = event /\ row.stage = stage
  <2>1. 0 \in Amounts /\ "SUPPLIER" \in Kinds
    BY LedgerAssumption DEF Amounts
  <2>2. e \in EntryRows /\ e.by = "order" /\ e.of = key
    BY <2>1, EntryTypes
  <2>3. e.stage = stage
    BY DEF Entry
  <2> HIDE DEF e, t, stage
  <2> QED BY <2>2, <2>3, <1>3 DEF EntryRows
<1> HIDE DEF row, t
<1>5. OrderEntry(key) \subseteq {row.old}
  BY <1>1, <1>3, <1>4
<1> QED BY <1>1, <1>3, <1>4, <1>5 DEF Record, RecordsCost

LEMMA RecordedCounts ==
  ASSUME LedgerInv, NEW key \in OrderKeys, NEW row \in EntryRows,
         entries' = entries \o <<row>>, row.by = "order", row.of = key,
         OrderEntry(key) \subseteq {row.old}, row.old \in {0} \cup DOMAIN entries
  PROVE  /\ OrderEntry(key)' = {Len(entries) + 1} /\ entries'[Len(entries) + 1] = row
<1> DEFINE L == Len(entries)
<1>1. entries \in Seq(EntryRows) /\ L \in Nat /\ DOMAIN entries = 1..L
  BY DEF LedgerInv, EntriesSound
<1>2. /\ DOMAIN entries' = DOMAIN entries \cup {L + 1} /\ L + 1 \notin DOMAIN entries
      /\ entries'[L + 1] = row
      /\ \A i \in DOMAIN entries : entries'[i] = entries[i]
  BY <1>1
<1>3. \A j \in DOMAIN entries' : entries'[j].old # L + 1
  <2>1. row.old # L + 1
    BY <1>1
  <2>2. ASSUME NEW j \in DOMAIN entries PROVE entries[j].old # L + 1
    <3>1. entries[j].old # 0 => entries[j].old \in DOMAIN entries
      BY DEF LedgerInv, EntriesSound, Follows, Targets
    <3> QED BY <3>1, <1>1
  <2> QED BY <1>2, <2>1, <2>2
<1> HIDE DEF L
<1>4. L + 1 \in OrderEntry(key)'
  BY <1>2, <1>3 DEF OrderEntry
<1>5. ASSUME NEW i \in OrderEntry(key)', i # L + 1 PROVE FALSE
  <2>1. /\ i \in DOMAIN entries /\ entries[i].by = "order" /\ entries[i].of = key
        /\ row.old # i
    BY <1>2, <1>5 DEF OrderEntry
  <2>2. \A j \in DOMAIN entries : entries[j].by = "order" /\ entries[j].of = key
          => entries[j].old # i
    BY <1>2, <1>5 DEF OrderEntry
  <2>3. i \in OrderEntry(key)
    BY <2>1, <2>2 DEF OrderEntry
  <2> QED BY <2>1, <2>3
<1>6. OrderEntry(key)' = {L + 1}
  BY <1>4, <1>5
<1> QED BY <1>2, <1>6 DEF L

\* The last place of a row in a log, 0 if it has none.
LastPlace(log, row) == Max({0} \cup {n \in DOMAIN log : log[n] = row})

\* What an appended event changes of it.
LEMMA EventAppended ==
  ASSUME NEW S, NEW log \in Seq(S), NEW event \in S, NEW row
  PROVE  LastPlace(Append(log, event), row)
           = IF event = row THEN Len(log) + 1 ELSE LastPlace(log, row)
<1> DEFINE L == Len(log)
           said(b) == {n \in DOMAIN b : b[n] = row}
<1>1. PICK longer : longer = Append(log, event)
  OBVIOUS
<1>2. /\ L \in Nat /\ DOMAIN log = 1 .. L
      /\ DOMAIN longer = 1 .. (L + 1) /\ longer[L + 1] = event
      /\ \A n \in 1 .. L : longer[n] = log[n]
  BY <1>1, AppendProperties, LenProperties
<1>3. CASE event # row
  <2>1. said(longer) = said(log)
    BY <1>2, <1>3
  <2> QED BY <1>1, <1>3, <2>1 DEF LastPlace
<1>4. CASE event = row
  <2>1. L + 1 \in said(longer) /\ said(longer) \subseteq 1 .. (L + 1)
    BY <1>2, <1>4
  <2> DEFINE T == {0} \cup said(longer)
  <2>2. L + 1 \in T /\ \A n \in T : n \in Nat /\ n <= L + 1
    BY <1>2, <2>1
  <2> HIDE DEF T, L
  <2>3. Max(T) = L + 1
    BY <1>2, <2>2 DEF Max
  <2> QED BY <1>1, <1>4, <2>3 DEF T, L, LastPlace
<1> QED BY <1>3, <1>4

LEMMA OthersKeepCurrent ==
  ASSUME CostsInv, UNCHANGED batches,
         UNCHANGED entries \/ \E by \in {"seller", "work", "settlement"} : AddedBy(by)
  PROVE  CostsCurrent'
<1>1. LedgerInv
  BY DEF CostsInv
<1>2. ASSUME NEW key \in OrderKeys
      PROVE  /\ OrderEntry(key)' = OrderEntry(key)
             /\ \A i \in OrderEntry(key) : entries'[i] = entries[i]
  <2>1. CASE UNCHANGED entries
    BY <2>1 DEF OrderEntry
  <2>2. CASE \E by \in {"seller", "work", "settlement"} : AddedBy(by)
    BY <1>1, <2>2, OthersKeepCosts DEF AddedBy
  <2> QED BY <2>1, <2>2
<1>3. \A key \in OrderKeys : \A kind \in EventKinds : LastEvent(key, kind)' = LastEvent(key, kind)
  BY DEF LastEvent
<1>4. \A key \in OrderKeys : Said(key)' = Said(key)
  BY <1>3 DEF Said, EventKinds
<1> QED BY <1>2, <1>3, <1>4 DEF CostsInv, CostsCurrent, EventKinds

LEMMA PrepareKeepsCurrent ==
  ASSUME CostsInv, NEW p \in Proposals, Prepare(p)
  PROVE  CostsCurrent'
<1>1. /\ batches[p] = None /\ UNCHANGED entries
      /\ batches' = [batches EXCEPT ![p] = <<>>] /\ batches'[p] = <<>>
      /\ \A q \in Proposals \ {p} : batches'[q] = batches[q]
  BY DEF Prepare, ledgerVars, CostsInv, EventsTypeOK
<1> SUFFICES ASSUME NEW key \in OrderKeys
             PROVE  /\ batches'[key[1]] = None => OrderEntry(key)' = {}
                    /\ batches'[key[1]] # None =>
                       /\ LastEvent(key, "INVOICE")' \in Nat
                       /\ LastEvent(key, "CONFIRMATION")' \in Nat
                       /\ OrderEntry(key)' = {} <=> Said(key)' = 0
                       /\ \A i \in OrderEntry(key)' :
                            /\ entries'[i].event = Said(key)'
                            /\ entries'[i].stage = "ACTUAL" <=> LastEvent(key, "INVOICE")' # 0
  BY DEF CostsCurrent
<1>2. OrderEntry(key)' = OrderEntry(key) /\ key[1] \in Proposals
  BY <1>1, OrdersAssumption DEF OrderEntry
<1>3. CASE key[1] # p
  <2>1. \A kind \in EventKinds : LastEvent(key, kind)' = LastEvent(key, kind)
    BY <1>1, <1>2, <1>3 DEF LastEvent
  <2>2. Said(key)' = Said(key)
    BY <2>1 DEF Said, EventKinds
  <2> QED BY <1>1, <1>2, <1>3, <2>1, <2>2 DEF CostsInv, CostsCurrent, EventKinds
<1>4. CASE key[1] = p
  <2>1. OrderEntry(key) = {}
    BY <1>1, <1>4 DEF CostsInv, CostsCurrent
  <2>2. ASSUME NEW kind PROVE LastEvent(key, kind)' = 0
    <3>1. batches'[key[1]] = <<>> /\ DOMAIN batches'[key[1]] = {}
      BY <1>1, <1>4
    <3>2. LastEvent(key, kind)' = Max({0})
      BY <3>1 DEF LastEvent
    <3> QED BY <3>2 DEF Max
  <2> QED BY <1>2, <2>1, <2>2 DEF Said
<1> QED BY <1>3, <1>4

LEMMA EventKeepsCurrent ==
  ASSUME CostsInv, NEW key \in OrderKeys, NEW kind \in EventKinds,
         NEW old \in {0} \cup DOMAIN entries, SupplierEvent(key, kind, old)
  PROVE  CostsCurrent'
<1> DEFINE p == key[1]
<1> DEFINE event == [kind |-> kind, group |-> key[2]]
<1> DEFINE last == Len(batches[p]) + 1
<1>1. /\ LedgerInv /\ EventsTypeOK /\ CostsCurrent
      /\ p \in Proposals /\ event \in [kind: EventKinds, group: Groups] /\ batches[p] # None
      /\ batches' = [batches EXCEPT ![p] = Append(batches[p], event)]
      /\ RecordOrderCost(key, kind, last, old)
  BY OrdersAssumption DEF SupplierEvent, CostsInv
<1>2. batches[p] \in Seq([kind: EventKinds, group: Groups]) /\ last \in Nat \ {0}
  <2>1. batches[p] \in Seq([kind: EventKinds, group: Groups])
    BY <1>1 DEF EventsTypeOK
  <2>2. Len(batches[p]) \in Nat
    BY <2>1
  <2> QED BY <2>1, <2>2
<1>3. /\ batches'[p] = Append(batches[p], event) /\ batches'[p] # None
      /\ \A k \in OrderKeys : k[1] # p => batches'[k[1]] = batches[k[1]]
  <2>1. batches'[p] = Append(batches[p], event)
    BY <1>1 DEF EventsTypeOK
  <2> HIDE DEF event
  <2>2. Append(batches[p], event) \in Seq([kind: EventKinds, group: Groups])
    BY <1>1, <1>2
  <2> QED BY <1>1, <2>1, <2>2, OrdersAssumption DEF EventsTypeOK
<1>4. ASSUME NEW k \in OrderKeys, NEW f \in EventKinds
      PROVE  LastEvent(k, f)' = IF k = key /\ f = kind THEN last ELSE LastEvent(k, f)
  <2>1. LastEvent(k, f)' = IF k[1] = p /\ event = [kind |-> f, group |-> k[2]]
                          THEN last ELSE LastEvent(k, f)
    <3>1. PICK row : row = [kind |-> f, group |-> k[2]]
      OBVIOUS
    <3>2. /\ LastEvent(k, f) = LastPlace(batches[k[1]], row)
          /\ LastEvent(k, f)' = LastPlace(batches'[k[1]], row)
      BY <3>1 DEF LastEvent, LastPlace
    <3>3. CASE k[1] # p
      BY <1>3, <3>2, <3>3
    <3>4. CASE k[1] = p
      <4>1. PICK S, log, said : /\ S = [kind: EventKinds, group: Groups]
                                /\ log = batches[p] /\ said = event
        OBVIOUS
      <4>2. log \in Seq(S) /\ said \in S
        BY <1>1, <1>2, <4>1
      <4>3. LastPlace(Append(log, said), row)
              = IF said = row THEN Len(log) + 1 ELSE LastPlace(log, row)
        BY <4>2, EventAppended
      <4>4. batches[k[1]] = log /\ batches'[k[1]] = Append(log, said)
        BY <1>3, <3>4, <4>1
      <4> QED BY <3>1, <3>2, <3>4, <4>1, <4>3, <4>4
    <3> QED BY <3>3, <3>4
  <2>2. k = key <=> k[1] = p /\ k[2] = key[2]
    BY OrdersAssumption
  <2>3. event = [kind |-> f, group |-> k[2]] <=> f = kind /\ k[2] = key[2]
    OBVIOUS
  <2> QED BY <2>1, <2>2, <2>3
<1> DEFINE stays == kind = "RECEIPT" \/ (old = 0 /\ Outdated(kind, OrderEntry(key)))
<1>5. stays => UNCHANGED entries
  BY <1>1 DEF RecordOrderCost, ledgerVars
<1>6. ASSUME ~stays PROVE RecordsCost(key, kind, last)
  <2>1. kind \in {"CONFIRMATION", "INVOICE"} /\ ~(old = 0 /\ Outdated(kind, OrderEntry(key)))
    BY <1>6 DEF EventKinds
  <2>2. LedgerInv /\ last \in Nat /\ RecordOrderCost(key, kind, last, old)
    BY <1>1, <1>2
  <2> HIDE DEF last, stays
  <2> QED BY <2>1, <2>2, OrderCostRecords
<1> HIDE DEF last, event
<1> SUFFICES ASSUME NEW k \in OrderKeys
             PROVE  /\ batches'[k[1]] = None => OrderEntry(k)' = {}
                    /\ batches'[k[1]] # None =>
                       /\ LastEvent(k, "INVOICE")' \in Nat
                       /\ LastEvent(k, "CONFIRMATION")' \in Nat
                       /\ OrderEntry(k)' = {} <=> Said(k)' = 0
                       /\ \A i \in OrderEntry(k)' :
                            /\ entries'[i].event = Said(k)'
                            /\ entries'[i].stage = "ACTUAL" <=> LastEvent(k, "INVOICE")' # 0
  BY DEF CostsCurrent
<1>7. CASE k # key
  <2>1. /\ OrderEntry(k)' = OrderEntry(k)
        /\ \A i \in OrderEntry(k) : entries'[i] = entries[i]
    <3>1. CASE stays
      BY <1>5, <3>1 DEF OrderEntry
    <3>2. CASE ~stays
      <4>1. PICK row \in EntryRows : entries' = entries \o <<row>> /\ row.of = key
        BY <1>6, <3>2 DEF RecordsCost
      <4>2. <<row>> \in Seq(EntryRows) /\ \A n \in DOMAIN <<row>> : <<row>>[n].of # k
        BY <1>7, <4>1
      <4> QED BY <1>1, <4>1, <4>2, OthersKeepCosts
    <3> QED BY <3>1, <3>2
  <2>2. \A f \in EventKinds : LastEvent(k, f)' = LastEvent(k, f)
    BY <1>4, <1>7
  <2>3. Said(k)' = Said(k)
    BY <2>2 DEF Said, EventKinds
  <2>4. batches'[k[1]] = None <=> batches[k[1]] = None
    BY <1>1, <1>3
  <2> QED BY <1>1, <2>1, <2>2, <2>3, <2>4 DEF CostsCurrent, EventKinds
<1>8. CASE k = key
  <2>1. /\ LastEvent(key, "INVOICE") \in Nat /\ LastEvent(key, "CONFIRMATION") \in Nat
        /\ OrderEntry(key) = {} <=> Said(key) = 0
        /\ \A i \in OrderEntry(key) :
             /\ entries[i].event = Said(key)
             /\ entries[i].stage = "ACTUAL" <=> LastEvent(key, "INVOICE") # 0
    BY <1>1 DEF CostsCurrent
  <2>2. /\ LastEvent(key, "INVOICE")' =
             IF kind = "INVOICE" THEN last ELSE LastEvent(key, "INVOICE")
        /\ LastEvent(key, "CONFIRMATION")' =
             IF kind = "CONFIRMATION" THEN last ELSE LastEvent(key, "CONFIRMATION")
    BY <1>4 DEF EventKinds
  <2>3. Said(key)' = IF LastEvent(key, "INVOICE")' # 0 THEN LastEvent(key, "INVOICE")'
                     ELSE LastEvent(key, "CONFIRMATION")'
    BY DEF Said
  <2>4. CASE stays
    <3>1. OrderEntry(key)' = OrderEntry(key) /\ UNCHANGED entries
      BY <1>5, <2>4 DEF OrderEntry
    <3>2. Said(key)' = Said(key) /\ LastEvent(key, "INVOICE")' = LastEvent(key, "INVOICE")
      <4>1. CASE kind = "RECEIPT"
        BY <2>2, <4>1 DEF Said
      <4>2. CASE Outdated(kind, OrderEntry(key))
        <5>1. kind = "CONFIRMATION" /\ LastEvent(key, "INVOICE") # 0
          BY <2>1, <4>2 DEF Outdated
        <5> QED BY <2>2, <5>1 DEF Said
      <4> QED BY <2>4, <4>1, <4>2
    <3>3. LastEvent(key, "CONFIRMATION")' \in Nat /\ LastEvent(key, "INVOICE")' \in Nat
      BY <1>2, <2>1, <2>2
    <3> QED BY <1>3, <1>8, <2>1, <3>1, <3>2, <3>3
  <2>5. CASE ~stays
    <3>1. PICK row \in EntryRows :
            /\ entries' = entries \o <<row>>
            /\ row.by = "order" /\ row.of = key /\ row.event = last
            /\ row.stage = IF kind = "INVOICE" THEN "ACTUAL" ELSE "PLANNED"
            /\ OrderEntry(key) \subseteq {row.old} /\ row.old \in {0} \cup DOMAIN entries
      BY <1>6, <2>5 DEF RecordsCost
    <3>2. /\ OrderEntry(key)' = {Len(entries) + 1}
          /\ entries'[Len(entries) + 1] = row
      BY <1>1, <3>1, RecordedCounts
    <3>3. kind = "INVOICE" \/ (kind = "CONFIRMATION" /\ LastEvent(key, "INVOICE") = 0)
      <4>1. ASSUME kind = "CONFIRMATION", LastEvent(key, "INVOICE") # 0 PROVE FALSE
        <5>1. Said(key) # 0
          BY <4>1 DEF Said
        <5>2. OrderEntry(key) # {}
          BY <2>1, <5>1
        <5>3. old = 0
          BY <1>1, <4>1, <5>2, <2>5 DEF RecordOrderCost
        <5>4. Outdated(kind, OrderEntry(key))
          BY <2>1, <4>1, <5>2 DEF Outdated
        <5> QED BY <2>5, <5>3, <5>4
      <4> QED BY <2>5, <4>1 DEF EventKinds
    <3>4. Said(key)' = last /\ (LastEvent(key, "INVOICE")' # 0 <=> kind = "INVOICE")
      BY <1>2, <2>2, <2>3, <3>3
    <3>5. LastEvent(key, "CONFIRMATION")' \in Nat /\ LastEvent(key, "INVOICE")' \in Nat
      BY <1>2, <2>1, <2>2
    <3>6. \A i \in OrderEntry(key)' : entries'[i] = row
      BY <3>2
    <3>7. OrderEntry(key)' # {} /\ Said(key)' # 0
      BY <1>2, <3>2, <3>4
    <3> QED BY <1>3, <1>8, <3>1, <3>3, <3>4, <3>5, <3>6, <3>7
  <2> QED BY <2>4, <2>5
<1> QED BY <1>7, <1>8

LEMMA NextCosts == CostsInv /\ [Next]_vars => CostsInv'
<1> SUFFICES ASSUME CostsInv, [Next]_vars PROVE CostsInv'
  OBVIOUS
<1>1. LedgerInv' /\ EventsTypeOK'
  BY NextLedger, NextEvents DEF CostsInv
<1>2. ASSUME UNCHANGED <<entries, batches>> PROVE CostsCurrent'
  BY <1>2, OthersKeepCurrent
<1>3. ASSUME NEW open, LedgerNext(open), UNCHANGED batches PROVE CostsCurrent'
  <2>1. UNCHANGED entries \/ \E by \in {"seller", "work", "settlement"} : AddedBy(by)
    BY <1>3, AddKeeps, WorkCostsKeep, SettleKeeps DEF LedgerNext, CheckPayment, CostsInv
  <2> QED BY <1>3, <2>1, OthersKeepCurrent
<1>4. ASSUME NEW key \in OrderKeys, NEW kind \in EventKinds,
             NEW old \in {0} \cup DOMAIN entries, SupplierEvent(key, kind, old)
      PROVE  CostsCurrent'
  BY <1>4, EventKeepsCurrent
<1>5. ASSUME NEW p \in Proposals, Prepare(p) PROVE CostsCurrent'
  BY <1>5, PrepareKeepsCurrent
<1>6. ASSUME NEW c \in Calls, SendStep(c) PROVE UNCHANGED <<entries, batches>>
  BY <1>6 DEF SendStep, BeginSend, Claim, Mail, RecordOutcome, ledgerVars
<1>7. CostsCurrent'
  BY <1>2, <1>3, <1>4, <1>5, <1>6 DEF Next, vars, ordersVars, ledgerVars, AgreementChanges,
                                      CatalogWithdrawn, Crash
<1> QED BY <1>1, <1>7 DEF CostsInv

LEMMA InitCosts == Init => CostsInv
<1> SUFFICES ASSUME Init PROVE CostsCurrent
  BY InitLedger DEF CostsInv
<1>1. \A key \in OrderKeys : batches[key[1]] = None /\ OrderEntry(key) = {}
  BY OrdersAssumption DEF Init, LedgerInit, OrderEntry
<1> QED BY <1>1 DEF CostsCurrent

\* The cost that counts for an order is what its last invoice says, and before
\* any invoice what its last confirmation says, in whatever order they come.
THEOREM CostsAreAsInvoiced == Spec => []CostAsInvoiced
BY InitCosts, NextCosts, CurrentAsInvoiced, PTL DEF Spec

-----------------------------------------------------------------------------
(* The mails of orders.                                                    *)

CallRows == [step: {"claim", "mail", "record"}, key: OrderKeys,
             row: Nat, outcome: Outcomes \cup {None}]

SendsTypeOK ==
  /\ catalogsOK \in BOOLEAN
  /\ attempts \in [OrderKeys -> Seq(AttemptRows)]
  /\ call \in [Calls -> CallRows \cup {None}]

\* A send that has made its row and not recorded its outcome.
Mailing(c) == call[c] # None /\ call[c].step \in {"mail", "record"}

\* Its row is still SENDING, and arrives as the outcome has it.
SendersSound ==
  \A c \in Calls : Mailing(c) =>
    LET rows == attempts[call[c].key]
        n == call[c].row IN
    /\ n \in DOMAIN rows /\ rows[n].status = "SENDING"
    /\ call[c].step = "mail" => ~rows[n].reached
    /\ call[c].step = "record" =>
         /\ call[c].outcome \in Outcomes
         /\ call[c].outcome \in {"rejected", "refused"} => ~rows[n].reached

\* No two sends have made the same row.
SendersApart ==
  \A c, d \in Calls : Mailing(c) /\ Mailing(d) /\ call[c].key = call[d].key
    /\ call[c].row = call[d].row => c = d

\* All rows of an order but one have failed, and what failed did not arrive.
RowsSound ==
  \A key \in OrderKeys : \A m, n \in DOMAIN attempts[key] :
    /\ attempts[key][n].backed
    /\ attempts[key][n].status = "FAILED" => ~attempts[key][n].reached
    /\ attempts[key][m].status # "FAILED" /\ attempts[key][n].status # "FAILED" => m = n

SendsInv == SendsTypeOK /\ SendersSound /\ SendersApart /\ RowsSound

LEMMA OneRowReached == SendsInv => OrderedOnceAgreed
<1> SUFFICES ASSUME SendsInv, NEW key \in OrderKeys
             PROVE  /\ Cardinality({n \in DOMAIN attempts[key] :
                                      attempts[key][n].reached}) <= 1
                    /\ \A n \in DOMAIN attempts[key] : attempts[key][n].backed
  BY DEF OrderedOnceAgreed
<1> DEFINE R == {n \in DOMAIN attempts[key] : attempts[key][n].reached}
<1>1. \A m, n \in R : m = n
  BY DEF SendsInv, RowsSound
<1>2. Cardinality(R) <= 1
  <2>1. CASE R = {}
    BY <2>1, FS_EmptySet
  <2>2. CASE R # {}
    <3>1. PICK n : R = {n}
      BY <1>1, <2>2
    <3> HIDE DEF R
    <3> QED BY <3>1, FS_Singleton
  <2> QED BY <2>1, <2>2
<1>3. \A n \in DOMAIN attempts[key] : attempts[key][n].backed
  BY DEF SendsInv, RowsSound
<1> QED BY <1>2, <1>3

LEMMA InitSends == Init => SendsInv
BY DEF Init, SendsInv, SendsTypeOK, SendersSound, SendersApart, RowsSound, Mailing

LEMMA BeginKeeps ==
  ASSUME SendsInv, NEW c \in Calls, NEW key \in OrderKeys, BeginSend(c, key)
  PROVE  SendsInv'
<1>1. SendsTypeOK' /\ UNCHANGED attempts
  BY DEF CallRows, SendsInv, SendsTypeOK, BeginSend
<1>2. \A d \in Calls : Mailing(d)' => Mailing(d) /\ call'[d] = call[d]
  BY DEF Mailing, SendsInv, SendsTypeOK, BeginSend
<1>3. SendersSound'
  BY <1>1, <1>2 DEF SendsInv, SendersSound
<1>4. SendersApart'
  BY <1>2 DEF SendsInv, SendersApart
<1>5. RowsSound'
  BY <1>1 DEF SendsInv, RowsSound
<1> QED
  BY <1>1, <1>3, <1>4, <1>5 DEF SendsInv

\* The new row is the only one that has not failed.
LEMMA ClaimKeeps ==
  ASSUME SendsInv, NEW c \in Calls, Claim(c)
  PROVE  SendsInv'
<1> DEFINE key == call[c].key
<1> DEFINE rows == attempts[key]
<1>1. call[c] \in CallRows /\ key \in OrderKeys /\ rows \in Seq(AttemptRows)
  BY DEF SendsInv, SendsTypeOK, Claim, CallRows
<1>2. CASE ~(Ready(key[1]) /\ Free(rows))
  <2>1. attempts' = attempts /\ catalogsOK' = catalogsOK
        /\ call' = [call EXCEPT ![c] = None]
    BY <1>2 DEF Claim
  <2>2. SendsTypeOK'
    BY <2>1 DEF SendsInv, SendsTypeOK
  <2>3. \A d \in Calls : Mailing(d)' => Mailing(d) /\ call'[d] = call[d]
    BY <2>1 DEF SendsInv, SendsTypeOK, Mailing
  <2> QED
    <3>1. SendersSound'
      BY <2>1, <2>3 DEF SendsInv, SendersSound
    <3>2. SendersApart' /\ RowsSound'
      BY <2>1, <2>3 DEF SendsInv, SendersApart, RowsSound
    <3> QED
      BY <2>2, <3>1, <3>2 DEF SendsInv
<1>3. CASE Ready(key[1]) /\ Free(rows)
  <2> DEFINE new == [status |-> "SENDING", reached |-> FALSE, backed |-> Ready(key[1])]
  <2> DEFINE made == [call[c] EXCEPT !.step = "mail", !.row = Len(rows) + 1]
  <2>1. /\ attempts' = [attempts EXCEPT ![key] = Append(rows, new)]
        /\ call' = [call EXCEPT ![c] = made]
        /\ catalogsOK' = catalogsOK
    BY <1>3 DEF Claim, SendsInv, SendsTypeOK
  <2>2. Ready(key[1]) = TRUE
    BY <1>3 DEF Ready, SendsInv, SendsTypeOK
  <2>3. new \in AttemptRows /\ new.backed /\ new.status = "SENDING" /\ ~new.reached
    BY <2>2 DEF AttemptRows
  <2>4. /\ made \in CallRows /\ made.step = "mail" /\ made.key = key
        /\ made.row = Len(rows) + 1
    <3>1. Len(rows) + 1 \in Nat
      BY <1>1
    <3> HIDE DEF rows
    <3> QED BY <1>1, <3>1 DEF CallRows
  <2> HIDE DEF new, made
  <2>5. Append(rows, new) \in Seq(AttemptRows)
        /\ DOMAIN Append(rows, new) = DOMAIN rows \cup {Len(rows) + 1}
        /\ Append(rows, new)[Len(rows) + 1] = new
        /\ \A n \in DOMAIN rows : Append(rows, new)[n] = rows[n]
        /\ Len(rows) + 1 \notin DOMAIN rows
    <3>1. PICK old : old = rows /\ old \in Seq(AttemptRows)
      BY <1>1
    <3>2. /\ Append(old, new) \in Seq(AttemptRows)
          /\ Len(Append(old, new)) = Len(old) + 1
          /\ \A n \in 1 .. Len(old) : Append(old, new)[n] = old[n]
          /\ Append(old, new)[Len(old) + 1] = new
      BY <3>1, <2>3, AppendProperties
    <3>3. /\ Len(old) \in Nat /\ DOMAIN old = 1 .. Len(old)
          /\ DOMAIN Append(old, new) = 1 .. (Len(old) + 1)
      BY <3>1, <3>2, LenProperties
    <3>4. Len(old) + 1 \notin DOMAIN old
          /\ DOMAIN Append(old, new) = DOMAIN old \cup {Len(old) + 1}
      BY <3>3
    <3> HIDE DEF rows
    <3> QED BY <3>1, <3>2, <3>3, <3>4
  <2>6. /\ attempts'[key] = Append(rows, new)
        /\ \A k \in OrderKeys \ {key} : attempts'[k] = attempts[k]
        /\ call'[c] = made /\ \A d \in Calls \ {c} : call'[d] = call[d]
    BY <1>1, <2>1 DEF SendsInv, SendsTypeOK
  <2>7. SendsTypeOK'
    BY <1>1, <2>1, <2>4, <2>5 DEF SendsInv, SendsTypeOK
  <2>8. SendersSound'
    <3> SUFFICES ASSUME NEW d \in Calls, Mailing(d)'
                 PROVE  LET after == attempts'[call'[d].key]
                            n == call'[d].row IN
                        /\ n \in DOMAIN after /\ after[n].status = "SENDING"
                        /\ call'[d].step = "mail" => ~after[n].reached
                        /\ call'[d].step = "record" =>
                             /\ call'[d].outcome \in Outcomes
                             /\ call'[d].outcome \in {"rejected", "refused"} => ~after[n].reached
      BY DEF SendersSound
    <3>1. CASE d = c
      <4>1. call'[d] = made /\ attempts'[key] = Append(rows, new)
        BY <3>1, <2>6
      <4> QED
        BY <4>1, <2>3, <2>4, <2>5
    <3>2. CASE d # c
      <4>1. Mailing(d) /\ call'[d] = call[d] /\ call[d].key \in OrderKeys
        BY <3>2, <2>6 DEF Mailing, SendsInv, SendsTypeOK, CallRows
      <4>2. CASE call[d].key = key
        <5>1. /\ call[d].row \in DOMAIN rows /\ rows[call[d].row].status = "SENDING"
              /\ call[d].step = "mail" => ~rows[call[d].row].reached
              /\ call[d].step = "record" =>
                   /\ call[d].outcome \in Outcomes
                   /\ call[d].outcome \in {"rejected", "refused"}
                        => ~rows[call[d].row].reached
          BY <4>1, <4>2 DEF SendsInv, SendersSound
        <5> HIDE DEF rows
        <5>2. /\ call[d].row \in DOMAIN attempts'[key]
              /\ attempts'[key][call[d].row] = rows[call[d].row]
          BY <5>1, <2>5, <2>6
        <5> QED BY <4>1, <4>2, <5>1, <5>2
      <4>3. CASE call[d].key # key
        BY <4>1, <4>3, <2>6 DEF SendsInv, SendersSound
      <4> QED BY <4>2, <4>3
    <3> QED BY <3>1, <3>2
  <2>9. SendersApart'
    <3>1. \A d \in Calls \ {c} : Mailing(d)' =>
            /\ Mailing(d) /\ call'[d] = call[d]
            /\ call[d].key = key => call[d].row # Len(rows) + 1
      BY <2>5, <2>6 DEF Mailing, SendsInv, SendersSound
    <3>2. call'[c].key = key /\ call'[c].row = Len(rows) + 1
      BY <2>4, <2>6
    <3> QED BY <3>1, <3>2 DEF SendsInv, SendersApart
  <2>10. RowsSound'
    <3>1. \A n \in DOMAIN rows : rows[n].status = "FAILED"
      BY <1>3 DEF Free
    <3> SUFFICES ASSUME NEW k \in OrderKeys, NEW m \in DOMAIN attempts'[k],
                        NEW n \in DOMAIN attempts'[k]
                 PROVE  /\ attempts'[k][n].backed
                        /\ attempts'[k][n].status = "FAILED" => ~attempts'[k][n].reached
                        /\ attempts'[k][m].status # "FAILED" /\ attempts'[k][n].status # "FAILED"
                             => m = n
      BY DEF RowsSound
    <3>2. CASE k # key
      BY <3>2, <2>6 DEF SendsInv, RowsSound
    <3>3. CASE k = key
      <4>1. /\ \A l \in DOMAIN rows : attempts'[key][l] = rows[l]
            /\ \A l \in DOMAIN attempts'[key] : l \in DOMAIN rows \/ l = Len(rows) + 1
            /\ attempts'[key][Len(rows) + 1] = new
        BY <2>5, <2>6
      <4>2. \A l \in DOMAIN rows : rows[l].backed /\ ~rows[l].reached
        BY <1>1, <3>1 DEF SendsInv, RowsSound
      <4>3. new.backed /\ new.status = "SENDING"
        BY <2>3
      <4>. QED
        BY <3>1, <3>3, <4>1, <4>2, <4>3
    <3> QED BY <3>2, <3>3
  <2> QED BY <2>7, <2>8, <2>9, <2>10 DEF SendsInv
<1> QED BY <1>2, <1>3

\* The row a send has made changes in one field; no other row does.
LEMMA MailKeeps ==
  ASSUME SendsInv, NEW c \in Calls, NEW outcome \in Outcomes, NEW reached \in BOOLEAN,
         Mail(c, outcome, reached)
  PROVE  SendsInv'
<1> DEFINE key == call[c].key
<1> DEFINE r == call[c].row
<1>1. /\ call[c] \in CallRows /\ key \in OrderKeys /\ attempts[key] \in Seq(AttemptRows)
      /\ Mailing(c) /\ call[c].step = "mail"
  BY DEF SendsInv, SendsTypeOK, Mail, CallRows, Mailing
<1>2. /\ r \in DOMAIN attempts[key] /\ attempts[key][r].status = "SENDING"
  BY <1>1 DEF SendsInv, SendersSound
<1> DEFINE row == [attempts[key][r] EXCEPT !.reached = reached]
<1> DEFINE made == [call[c] EXCEPT !.step = "record", !.outcome = outcome]
<1>3. /\ attempts' = [attempts EXCEPT ![key] = [attempts[key] EXCEPT ![r] = row]]
      /\ call' = [call EXCEPT ![c] = made]
      /\ catalogsOK' = catalogsOK
  BY <1>1, <1>2 DEF Mail, SendsInv, SendsTypeOK
<1>4. attempts[key][r] \in AttemptRows
  BY <1>1, <1>2
<1>5. /\ row \in AttemptRows /\ row.status = "SENDING" /\ row.reached = reached
      /\ row.backed = attempts[key][r].backed
  BY <1>2, <1>4 DEF AttemptRows
<1>6. /\ made \in CallRows /\ made.step = "record" /\ made.key = key /\ made.row = r
      /\ made.outcome = outcome
  BY <1>1 DEF CallRows
<1>7. outcome \in {"rejected", "refused"} => ~reached
  BY DEF Mail, Outcomes
<1> HIDE DEF row, made
<1>8. /\ DOMAIN attempts'[key] = DOMAIN attempts[key] /\ attempts'[key][r] = row
      /\ \A n \in DOMAIN attempts[key] \ {r} : attempts'[key][n] = attempts[key][n]
      /\ \A k \in OrderKeys \ {key} : attempts'[k] = attempts[k]
      /\ attempts'[key] \in Seq(AttemptRows)
      /\ call'[c] = made /\ \A d \in Calls \ {c} : call'[d] = call[d]
  BY <1>1, <1>2, <1>3, <1>5 DEF SendsInv, SendsTypeOK
<1>9. SendsTypeOK'
  BY <1>1, <1>3, <1>6, <1>8 DEF SendsInv, SendsTypeOK
<1>10. \A d \in Calls \ {c} : Mailing(d)' =>
         /\ Mailing(d) /\ call'[d] = call[d] /\ call[d].key \in OrderKeys
         /\ call[d].key = key => call[d].row # r
  BY <1>1, <1>8 DEF Mailing, SendsInv, SendersApart, SendsTypeOK, CallRows
<1>11. SendersSound'
  <2>1. ASSUME NEW d \in Calls, Mailing(d)', d # c
        PROVE  LET rows == attempts'[call'[d].key]
                   n == call'[d].row IN
               /\ n \in DOMAIN rows /\ rows[n].status = "SENDING"
               /\ call'[d].step = "mail" => ~rows[n].reached
               /\ call'[d].step = "record" =>
                    /\ call'[d].outcome \in Outcomes
                    /\ call'[d].outcome \in {"rejected", "refused"} => ~rows[n].reached
    <3>1. Mailing(d) /\ call'[d] = call[d] /\ call[d].key \in OrderKeys
          /\ (call[d].key = key => call[d].row # r)
      BY <1>10, <2>1
    <3>2. CASE call[d].key = key
      BY <3>1, <3>2, <1>8 DEF SendsInv, SendersSound
    <3>3. CASE call[d].key # key
      BY <3>1, <3>3, <1>8 DEF SendsInv, SendersSound
    <3> QED BY <3>2, <3>3
  <2>2. /\ call'[c].key = key /\ call'[c].row = r /\ call'[c].step = "record"
        /\ call'[c].outcome = outcome
        /\ r \in DOMAIN attempts'[key] /\ attempts'[key][r].status = "SENDING"
        /\ outcome \in {"rejected", "refused"} => ~attempts'[key][r].reached
    BY <1>2, <1>5, <1>6, <1>7, <1>8
  <2> QED BY <2>1, <2>2 DEF SendersSound
<1>12. SendersApart'
  BY <1>6, <1>8, <1>10 DEF SendersApart, SendsInv
<1>13. RowsSound'
  <2>1. ASSUME NEW n \in DOMAIN attempts[key]
        PROVE  /\ attempts'[key][n].backed
               /\ attempts'[key][n].status = "FAILED" => ~attempts'[key][n].reached
               /\ attempts'[key][n].status # "FAILED" => attempts[key][n].status # "FAILED"
    <3>1. /\ attempts[key][n].backed
          /\ attempts[key][n].status = "FAILED" => ~attempts[key][n].reached
      BY <1>1 DEF RowsSound, SendsInv
    <3>2. CASE n = r
      BY <3>1, <3>2, <1>2, <1>5, <1>8
    <3>3. CASE n # r
      BY <3>1, <3>3, <1>8
    <3> QED BY <3>2, <3>3
  <2>2. ASSUME NEW k \in OrderKeys, NEW m \in DOMAIN attempts'[k],
               NEW n \in DOMAIN attempts'[k]
        PROVE  /\ attempts'[k][n].backed
               /\ attempts'[k][n].status = "FAILED" => ~attempts'[k][n].reached
               /\ attempts'[k][m].status # "FAILED" /\ attempts'[k][n].status # "FAILED"
                    => m = n
    <3>1. CASE k = key
      BY <3>1, <2>1, <1>8 DEF RowsSound, SendsInv
    <3>2. CASE k # key
      BY <3>2, <1>8 DEF RowsSound, SendsInv
    <3> QED BY <3>1, <3>2
  <2> QED BY <2>2 DEF RowsSound
<1> QED BY <1>9, <1>11, <1>12, <1>13 DEF SendsInv

LEMMA RecordKeepsSends ==
  ASSUME SendsInv, NEW c \in Calls, RecordOutcome(c)
  PROVE  SendsInv'
<1> DEFINE key == call[c].key
<1> DEFINE r == call[c].row
<1>1. /\ call[c] \in CallRows /\ key \in OrderKeys /\ attempts[key] \in Seq(AttemptRows)
      /\ Mailing(c) /\ call[c].step = "record"
  BY DEF SendsInv, SendsTypeOK, RecordOutcome, CallRows, Mailing
<1>2. /\ r \in DOMAIN attempts[key] /\ call[c].outcome \in Outcomes
      /\ call[c].outcome \in {"rejected", "refused"} => ~attempts[key][r].reached
      /\ attempts[key][r].status = "SENDING"
  BY <1>1 DEF SendsInv, SendersSound
<1> DEFINE row == [attempts[key][r] EXCEPT !.status = StatusOf(call[c].outcome)]
<1>3. /\ attempts' = [attempts EXCEPT ![key] = [attempts[key] EXCEPT ![r] = row]]
      /\ call' = [call EXCEPT ![c] = None]
      /\ catalogsOK' = catalogsOK
  BY <1>1, <1>2 DEF RecordOutcome, SendsInv, SendsTypeOK
<1>4. attempts[key][r] \in AttemptRows
  BY <1>1, <1>2
<1>5. /\ row \in AttemptRows
      /\ row.backed = attempts[key][r].backed
      /\ row.status = "FAILED" => ~row.reached
  BY <1>2, <1>4 DEF AttemptRows, StatusOf, Outcomes
<1> HIDE DEF row
<1>6. /\ DOMAIN attempts'[key] = DOMAIN attempts[key] /\ attempts'[key][r] = row
      /\ \A n \in DOMAIN attempts[key] \ {r} : attempts'[key][n] = attempts[key][n]
      /\ \A k \in OrderKeys \ {key} : attempts'[k] = attempts[k]
      /\ attempts'[key] \in Seq(AttemptRows)
      /\ call'[c] = None /\ \A d \in Calls \ {c} : call'[d] = call[d]
  BY <1>1, <1>2, <1>3, <1>5 DEF SendsInv, SendsTypeOK
<1>7. SendsTypeOK'
  BY <1>1, <1>3, <1>6 DEF SendsInv, SendsTypeOK
<1>8. \A d \in Calls : Mailing(d)' =>
         /\ Mailing(d) /\ call'[d] = call[d] /\ call[d].key \in OrderKeys
         /\ call[d].key = key => call[d].row # r
  BY <1>1, <1>6 DEF Mailing, SendsInv, SendersApart, SendsTypeOK, CallRows
<1>9. SendersSound'
  <2>1. ASSUME NEW d \in Calls, Mailing(d)'
        PROVE  /\ call'[d] = call[d] /\ Mailing(d) /\ call[d].key \in OrderKeys
               /\ call[d].row \in DOMAIN attempts[call[d].key] =>
                    /\ call[d].row \in DOMAIN attempts'[call[d].key]
                    /\ attempts'[call[d].key][call[d].row] = attempts[call[d].key][call[d].row]
    BY <1>6, <1>8, <2>1
  <2> QED
    BY <2>1 DEF SendersSound, SendsInv
<1>10. SendersApart'
  BY <1>8 DEF SendersApart, SendsInv
<1>11. RowsSound'
  <2>1. ASSUME NEW n \in DOMAIN attempts[key]
        PROVE  /\ attempts'[key][n].backed
               /\ attempts'[key][n].status = "FAILED" => ~attempts'[key][n].reached
               /\ attempts'[key][n].status # "FAILED" => attempts[key][n].status # "FAILED"
    <3>1. /\ attempts[key][n].backed
          /\ attempts[key][n].status = "FAILED" => ~attempts[key][n].reached
      BY <1>1 DEF RowsSound, SendsInv
    <3>2. CASE n = r
      BY <3>1, <3>2, <1>2, <1>5, <1>6
    <3>3. CASE n # r
      BY <3>1, <3>3, <1>6
    <3> QED BY <3>2, <3>3
  <2>2. ASSUME NEW k \in OrderKeys, NEW m \in DOMAIN attempts'[k],
               NEW n \in DOMAIN attempts'[k]
        PROVE  /\ attempts'[k][n].backed
               /\ attempts'[k][n].status = "FAILED" => ~attempts'[k][n].reached
               /\ attempts'[k][m].status # "FAILED" /\ attempts'[k][n].status # "FAILED"
                    => m = n
    <3>1. CASE k = key
      BY <3>1, <2>1, <1>6 DEF RowsSound, SendsInv
    <3>2. CASE k # key
      BY <3>2, <1>6 DEF RowsSound, SendsInv
    <3> QED BY <3>1, <3>2
  <2> QED BY <2>2 DEF RowsSound
<1> QED BY <1>7, <1>9, <1>10, <1>11 DEF SendsInv

LEMMA NextSends == SendsInv /\ [Next]_vars => SendsInv'
<1> SUFFICES ASSUME SendsInv, [Next]_vars PROVE SendsInv'
  OBVIOUS
<1>1. CASE UNCHANGED <<attempts, call>> /\ catalogsOK' \in BOOLEAN
  BY <1>1 DEF SendsInv, SendsTypeOK, SendersSound, SendersApart, RowsSound, Mailing
<1>2. CASE Crash
  <2>1. \A c \in Calls : ~Mailing(c)'
    BY <1>2 DEF Crash, Mailing
  <2>2. SendsTypeOK'
    BY <1>2 DEF Crash, SendsInv, SendsTypeOK
  <2> QED
    BY <1>2, <2>1, <2>2 DEF Crash, SendsInv, SendersSound, SendersApart, RowsSound
<1>3. ASSUME NEW c \in Calls, SendStep(c) PROVE SendsInv'
  BY <1>3, BeginKeeps, ClaimKeeps, MailKeeps, RecordKeepsSends DEF SendStep
<1>4. catalogsOK \in BOOLEAN
  BY DEF SendsInv, SendsTypeOK
<1> QED
  BY <1>1, <1>2, <1>3, <1>4 DEF Next, vars, ordersVars, Prepare, SupplierEvent,
                                AgreementChanges, CatalogWithdrawn

\* Whatever sends overlap, answers get lost and crashes intervene, an order
\* reaches its producer at most once, and each mail of it was made while the
\* agreement, the catalogs and the deposit allowed it.
THEOREM OrdersReachOnce == Spec => []OrderedOnceAgreed
BY InitSends, NextSends, OneRowReached, PTL DEF Spec

-----------------------------------------------------------------------------
(* The links of the customer.                                              *)

\* An invitation on its way: claimed, and not yet recorded.
Inviting(r) == r # Nothing /\ r.for = "invite" /\ r.step # "write"

\* A request refers to rows there are; an invitation on its way has arrived at
\* most when its outcome says so, and its row waits for it.
RequestSound(r, os, as, ts) ==
  /\ r.for = "offer" => (r.step # "write" => r.row \in DOMAIN os)
  /\ r.for # "offer" => r.row \in DOMAIN as
  /\ r.for = "reply" => r.ticket \in DOMAIN ts
  /\ r.for \notin {"offer", "invite"} => r.step = "write"
  /\ r.step = "record" => r.outcome \in MailStatuses \ {"SENDING"}
  /\ Inviting(r) => /\ as[r.row].mail = "SENDING"
                    /\ r.step = "mail" \/ r.outcome = "FAILED" => as[r.row].invited = 0

RequestsSound ==
  \A c \in Requests : request[c] # Nothing =>
    RequestSound(request[c], offers, accesses, tickets)

\* No two requests invite with the same access.
InvitingApart ==
  \A c, d \in Requests : /\ Inviting(request[c]) /\ Inviting(request[d])
                         /\ request[c].row = request[d].row
                         => c = d

AccessSound(row) == row.invited <= 1 /\ (Uninvited(row) => row.invited = 0)

AccessesSound == \A a \in DOMAIN accesses : AccessSound(accesses[a])

LinksInv ==
  LinksTypeOK /\ RequestsSound /\ InvitingApart /\ AccessesSound /\ LinksHonoured

LEMMA InitLinks == LinksInit => LinksInv
<1> SUFFICES ASSUME LinksInit PROVE LinksInv
  OBVIOUS
<1>1. /\ <<>> \in Seq(OfferRows) /\ <<>> \in Seq(AccessRows)
      /\ <<>> \in Seq(TicketRows) /\ <<>> \in Seq(NoticeRows)
  OBVIOUS
<1>2. LinksTypeOK
  BY <1>1 DEF LinksInit, LinksTypeOK
<1>3. /\ DOMAIN offers = {} /\ DOMAIN accesses = {} /\ DOMAIN notices = {}
      /\ \A c \in Requests : request[c] = Nothing
  BY DEF LinksInit
<1>. QED
  BY <1>2, <1>3
     DEF LinksInv, RequestsSound, InvitingApart, AccessesSound, LinksHonoured, Inviting

LEMMA LinksTyped ==
  ASSUME LinksInv
  PROVE  /\ offers \in Seq(OfferRows) /\ accesses \in Seq(AccessRows)
         /\ tickets \in Seq(TicketRows) /\ notices \in Seq(NoticeRows)
         /\ \A n \in DOMAIN offers : offers[n] \in OfferRows
         /\ \A a \in DOMAIN accesses : accesses[a] \in AccessRows
         /\ \A t \in DOMAIN tickets : tickets[t] \in TicketRows
         /\ \A c \in Requests : request[c] # Nothing =>
              request[c] \in RequestRows /\ RequestSound(request[c], offers, accesses, tickets)
         /\ request \in [Requests -> RequestRows \cup {Nothing}]
         /\ linkOpen \in BOOLEAN /\ agreed \in BOOLEAN /\ delivered \in BOOLEAN
         /\ email \in Emails
BY DEF LinksInv, LinksTypeOK, RequestsSound

\* Rows are added or changed, and what they say of invitations is left alone.
LEMMA RowsMove ==
  ASSUME LinksInv, UNCHANGED request, LinksTypeOK', LinksHonoured', AccessesSound',
         DOMAIN offers \subseteq DOMAIN offers', DOMAIN tickets \subseteq DOMAIN tickets',
         DOMAIN accesses \subseteq DOMAIN accesses',
         \A a \in DOMAIN accesses : /\ accesses'[a].mail = accesses[a].mail
                                    /\ accesses'[a].invited = accesses[a].invited
  PROVE  LinksInv'
<1>1. RequestsSound'
  <2> SUFFICES ASSUME NEW c \in Requests, request[c] # Nothing
               PROVE  RequestSound(request[c], offers', accesses', tickets')
    BY DEF RequestsSound, RequestSound, Inviting
  <2>1. RequestSound(request[c], offers, accesses, tickets)
    BY LinksTyped
  <2>. QED
    BY <2>1 DEF RequestSound, Inviting
<1>2. InvitingApart'
  BY DEF LinksInv, InvitingApart, Inviting
<1>. QED
  BY <1>1, <1>2 DEF LinksInv

\* A request takes a step, which no other invitation is concerned with.
LEMMA RequestMoves ==
  ASSUME LinksInv, NEW c \in Requests, NEW r \in RequestRows \cup {Nothing},
         request' = [request EXCEPT ![c] = r],
         LinksTypeOK', LinksHonoured', AccessesSound',
         DOMAIN offers \subseteq DOMAIN offers', DOMAIN tickets \subseteq DOMAIN tickets',
         DOMAIN accesses \subseteq DOMAIN accesses',
         r # Nothing => RequestSound(r, offers', accesses', tickets'),
         \A d \in Requests \ {c} : Inviting(request[d]) =>
           /\ Inviting(r) => request[d].row # r.row
           /\ accesses'[request[d].row] = accesses[request[d].row]
  PROVE  LinksInv'
<1>1. /\ request'[c] = r
      /\ \A d \in Requests \ {c} : request'[d] = request[d]
  BY LinksTyped
<1>2. RequestsSound'
  <2> SUFFICES ASSUME NEW d \in Requests, request'[d] # Nothing
               PROVE  RequestSound(request'[d], offers', accesses', tickets')
    BY DEF RequestsSound, RequestSound, Inviting
  <2>1. CASE d = c
    BY <1>1, <2>1
  <2>2. CASE d # c
    <3>1. request'[d] = request[d] /\ RequestSound(request[d], offers, accesses, tickets)
      BY <1>1, <2>2, LinksTyped
    <3>. QED
      BY <2>2, <3>1 DEF RequestSound
  <2>. QED
    BY <2>1, <2>2
<1>3. InvitingApart'
  <2> SUFFICES ASSUME NEW d \in Requests, NEW e \in Requests,
                      Inviting(request'[d]), Inviting(request'[e]),
                      request'[d].row = request'[e].row
               PROVE  d = e
    BY DEF InvitingApart, Inviting
  <2>1. CASE d # c /\ e # c
    BY <1>1, <2>1 DEF LinksInv, InvitingApart
  <2>2. CASE d = c \/ e = c
    BY <1>1, <2>2
  <2>. QED
    BY <2>1, <2>2
<1>. QED
  BY <1>2, <1>3 DEF LinksInv

\* A request begins or ends and leaves the rows alone.
LEMMA RequestAlone ==
  ASSUME LinksInv, NEW c \in Requests, NEW r \in RequestRows \cup {Nothing},
         request' = [request EXCEPT ![c] = r],
         UNCHANGED <<linkOpen, agreed, offers, email, delivered, accesses, tickets, notices>>,
         r # Nothing => RequestSound(r, offers, accesses, tickets) /\ ~Inviting(r)
  PROVE  LinksInv'
<1>1. LinksTypeOK' /\ LinksHonoured' /\ AccessesSound'
  BY DEF LinksInv, LinksTypeOK, LinksHonoured, AccessesSound
<1>2. offers' = offers /\ accesses' = accesses /\ tickets' = tickets
  OBVIOUS
<1>3. r = Nothing => ~Inviting(r)
  BY DEF Inviting
<1>. QED
  BY <1>1, <1>2, <1>3, RequestMoves

LEMMA EndAlone ==
  ASSUME LinksInv, NEW c \in Requests, EndRequest(c),
         UNCHANGED <<linkOpen, agreed, offers, email, delivered, accesses, tickets, notices>>
  PROVE  LinksInv'
BY RequestAlone DEF EndRequest

LEMMA BeginRequestKeeps ==
  ASSUME LinksInv, NEW c \in Requests
  PROVE  /\ PrepareOffer(c) => LinksInv'
         /\ \A a \in DOMAIN accesses :
              /\ UseAccess(c, "invite", a, 0) => LinksInv'
              /\ UseAccess(c, "ticket", a, 0) => LinksInv'
              /\ \A t \in DOMAIN tickets : UseAccess(c, "reply", a, t) => LinksInv'
<1> DEFINE row(for, a, t) == [step |-> "write", for |-> for, row |-> a,
                              ticket |-> t, outcome |-> Nothing]
<1>1. DOMAIN accesses \subseteq Nat /\ DOMAIN tickets \subseteq Nat
  BY LinksTyped
<1>2. ASSUME NEW for \in {"offer", "invite", "ticket", "reply"}, NEW a \in Nat, NEW t \in Nat,
             BeginRequest(c, for, a, t),
             UNCHANGED <<linkOpen, agreed, offers, email, delivered, accesses, tickets, notices>>,
             for # "offer" => a \in DOMAIN accesses,
             for = "reply" => t \in DOMAIN tickets
      PROVE  LinksInv'
  <2>1. PICK r : r = row(for, a, t)
    OBVIOUS
  <2>2. r \in RequestRows
    BY <2>1 DEF RequestRows
  <2>3. RequestSound(r, offers, accesses, tickets) /\ ~Inviting(r)
    BY <1>2, <2>1 DEF RequestSound, Inviting
  <2>4. request' = [request EXCEPT ![c] = r]
    BY <1>2, <2>1 DEF BeginRequest
  <2>. QED
    BY <1>2, <2>2, <2>3, <2>4, RequestAlone
<1>3. ASSUME PrepareOffer(c) PROVE LinksInv'
  BY <1>2, <1>3 DEF PrepareOffer
<1>4. ASSUME NEW a \in DOMAIN accesses, UseAccess(c, "invite", a, 0) PROVE LinksInv'
  BY <1>1, <1>2, <1>4 DEF UseAccess
<1>5. ASSUME NEW a \in DOMAIN accesses, UseAccess(c, "ticket", a, 0) PROVE LinksInv'
  BY <1>1, <1>2, <1>5 DEF UseAccess
<1>6. ASSUME NEW a \in DOMAIN accesses, NEW t \in DOMAIN tickets,
             UseAccess(c, "reply", a, t)
      PROVE  LinksInv'
  BY <1>1, <1>2, <1>6 DEF UseAccess
<1>. QED
  BY <1>3, <1>4, <1>5, <1>6

\* What the rest of a row and of the state is when a request takes a step.
LEMMA RequestReplaced ==
  ASSUME LinksInv, NEW c \in Requests, request[c] # Nothing
  PROVE  /\ request[c] \in RequestRows
         /\ RequestSound(request[c], offers, accesses, tickets)
BY LinksTyped

LEMMA ClaimOfferKeeps ==
  ASSUME LinksInv, NEW c \in Requests, ClaimOffer(c)
  PROVE  LinksInv'
<1>1. CASE ~Sendable
  BY <1>1, EndAlone DEF ClaimOffer
<1>2. CASE Sendable
  <2>1. PICK new : new = [status |-> "SENDING", recent |-> TRUE,
                          honoured |-> linkOpen /\ ~agreed]
    OBVIOUS
  <2>2. linkOpen = TRUE /\ agreed = FALSE
    BY <1>2, LinksTyped DEF Sendable
  <2>3. new \in OfferRows /\ new.honoured
    BY <2>1, <2>2 DEF OfferRows, MailStatuses
  <2>4. /\ offers' = Append(offers, new)
        /\ request' = [request EXCEPT ![c].step = "mail", ![c].row = Len(offers) + 1]
        /\ UNCHANGED <<linkOpen, agreed, email, delivered, accesses, tickets, notices>>
    BY <1>2, <2>1 DEF ClaimOffer
  <2>5. request[c] \in RequestRows /\ request[c].for = "offer"
    BY LinksTyped DEF ClaimOffer, At
  <2>6. PICK r : r = [request[c] EXCEPT !.step = "mail", !.row = Len(offers) + 1]
    OBVIOUS
  <2>7. request' = [request EXCEPT ![c] = r]
    BY <2>4, <2>6, LinksTyped
  <2>8. Len(offers) + 1 \in Nat
    BY LinksTyped
  <2>9. r \in RequestRows /\ r.for = "offer" /\ r.step = "mail" /\ r.row = Len(offers) + 1
    BY <2>5, <2>6, <2>8 DEF RequestRows
  <2>10. /\ offers' \in Seq(OfferRows)
         /\ DOMAIN offers \subseteq DOMAIN offers' /\ Len(offers) + 1 \in DOMAIN offers'
         /\ \A n \in DOMAIN offers' : n \in DOMAIN offers \/ n = Len(offers) + 1
         /\ \A n \in DOMAIN offers : offers'[n] = offers[n]
         /\ offers'[Len(offers) + 1] = new
    BY <2>3, <2>4, LinksTyped
  <2>11. LinksTypeOK'
    BY <2>4, <2>7, <2>9, <2>10 DEF LinksInv, LinksTypeOK
  <2>12. LinksHonoured' /\ AccessesSound'
    BY <2>3, <2>4, <2>10 DEF LinksInv, LinksHonoured, AccessesSound
  <2>13. RequestSound(r, offers', accesses', tickets') /\ ~Inviting(r)
    BY <2>9, <2>10 DEF RequestSound, Inviting
  <2>. QED
    BY <2>4, <2>7, <2>9, <2>10, <2>11, <2>12, <2>13, RequestMoves
<1>. QED
  BY <1>1, <1>2

\* An access changes, as the request that holds its invitation has it.
LEMMA AccessMoves ==
  ASSUME LinksInv, NEW c \in Requests, NEW r \in RequestRows \cup {Nothing},
         NEW a \in DOMAIN accesses, NEW row \in AccessRows,
         request' = [request EXCEPT ![c] = r],
         accesses' = [accesses EXCEPT ![a] = row],
         UNCHANGED <<linkOpen, agreed, offers, email, delivered, tickets, notices>>,
         AccessSound(row), row.live => accesses[a].live,
         r # Nothing => RequestSound(r, offers, accesses', tickets),
         Inviting(r) => r.row = a,
         \A d \in Requests \ {c} : Inviting(request[d]) => request[d].row # a
  PROVE  LinksInv'
<1>1. /\ accesses' \in Seq(AccessRows) /\ DOMAIN accesses' = DOMAIN accesses
      /\ accesses'[a] = row
      /\ \A b \in DOMAIN accesses : b # a => accesses'[b] = accesses[b]
  BY LinksTyped
<1>2. LinksTypeOK'
  BY <1>1 DEF LinksInv, LinksTypeOK
<1>3. AccessesSound'
  BY <1>1 DEF LinksInv, AccessesSound
<1>4. LinksHonoured'
  <2>1. row.invited <= 1
    BY DEF AccessSound
  <2>. QED
    BY <1>1, <2>1 DEF LinksInv, LinksHonoured
<1>5. ASSUME NEW d \in Requests \ {c}, Inviting(request[d])
      PROVE  /\ Inviting(r) => request[d].row # r.row
             /\ accesses'[request[d].row] = accesses[request[d].row]
  <2>1. request[d].row \in DOMAIN accesses
    BY <1>5, LinksTyped DEF Inviting, RequestSound
  <2>. QED
    BY <1>1, <1>5, <2>1
<1>6. /\ DOMAIN offers \subseteq DOMAIN offers' /\ DOMAIN tickets \subseteq DOMAIN tickets'
      /\ DOMAIN accesses \subseteq DOMAIN accesses'
      /\ r # Nothing => RequestSound(r, offers', accesses', tickets')
  BY <1>1
<1>. QED
  BY <1>2, <1>3, <1>4, <1>5, <1>6, RequestMoves

LEMMA ClaimInviteKeeps ==
  ASSUME LinksInv, NEW c \in Requests, ClaimInvite(c)
  PROVE  LinksInv'
<1>1. PICK a : a = request[c].row
  OBVIOUS
<1>2. /\ request[c] # Nothing /\ request[c] \in RequestRows
      /\ request[c].step = "write" /\ request[c].for = "invite"
      /\ a \in DOMAIN accesses /\ accesses[a] \in AccessRows /\ AccessSound(accesses[a])
  BY <1>1, LinksTyped DEF ClaimInvite, At, RequestSound, LinksInv, AccessesSound
<1>3. CASE ~(accesses[a].live /\ Uninvited(accesses[a]))
  BY <1>1, <1>3, EndAlone DEF ClaimInvite
<1>4. CASE accesses[a].live /\ Uninvited(accesses[a])
  <2>1. PICK row : row = [accesses[a] EXCEPT !.mail = "SENDING"]
    OBVIOUS
  <2>2. PICK r : r = [request[c] EXCEPT !.step = "mail"]
    OBVIOUS
  <2>3. /\ accesses' = [accesses EXCEPT ![a] = row]
        /\ request' = [request EXCEPT ![c] = r]
        /\ UNCHANGED <<linkOpen, agreed, offers, email, delivered, tickets, notices>>
    BY <1>1, <1>2, <1>4, <2>1, <2>2, LinksTyped DEF ClaimInvite
  <2>4. /\ row \in AccessRows /\ row.mail = "SENDING"
        /\ row.invited = accesses[a].invited /\ row.live = accesses[a].live
    BY <1>2, <2>1 DEF AccessRows, MailStatuses
  <2>5. row.invited = 0
    BY <1>2, <1>4, <2>4 DEF AccessSound
  <2>6. /\ r \in RequestRows /\ r.step = "mail" /\ r.for = "invite" /\ r.row = a
    BY <1>1, <1>2, <2>2 DEF RequestRows
  <2>7. AccessSound(row)
    BY <2>5 DEF AccessSound
  <2>8. accesses'[a] = row /\ DOMAIN accesses' = DOMAIN accesses
    BY <1>2, <2>3, LinksTyped
  <2>9. RequestSound(r, offers, accesses', tickets)
    BY <1>2, <2>4, <2>5, <2>6, <2>8 DEF RequestSound, Inviting
  <2>10. ASSUME NEW d \in Requests \ {c}, Inviting(request[d]) PROVE request[d].row # a
    <3>1. request[d].row = a => accesses[a].mail = "SENDING"
      BY <2>10, LinksTyped DEF Inviting, RequestSound
    <3>. QED
      BY <1>4, <3>1 DEF Uninvited
  <2>11. /\ a \in DOMAIN accesses /\ r \in RequestRows \cup {Nothing}
         /\ row \in AccessRows
         /\ row.live => accesses[a].live
         /\ Inviting(r) => r.row = a
    BY <1>2, <2>4, <2>6
  <2>. QED
    BY <2>3, <2>7, <2>9, <2>10, <2>11, AccessMoves
<1>. QED
  BY <1>3, <1>4

LEMMA MailLinkKeeps ==
  ASSUME LinksInv, NEW c \in Requests, NEW outcome \in MailStatuses \ {"SENDING"},
         NEW reached \in BOOLEAN, MailLink(c, outcome, reached)
  PROVE  LinksInv'
<1>1. /\ request[c] # Nothing /\ request[c] \in RequestRows /\ request[c].step = "mail"
      /\ RequestSound(request[c], offers, accesses, tickets)
      /\ outcome = "FAILED" => ~reached
  BY LinksTyped DEF MailLink
<1>2. PICK r : r = [request[c] EXCEPT !.step = "record", !.outcome = outcome]
  OBVIOUS
<1>3. /\ request' = [request EXCEPT ![c] = r]
      /\ UNCHANGED <<linkOpen, agreed, offers, email, delivered, tickets, notices>>
  BY <1>1, <1>2, LinksTyped DEF MailLink
<1>4. /\ r \in RequestRows /\ r.step = "record" /\ r.for = request[c].for
      /\ r.row = request[c].row /\ r.ticket = request[c].ticket /\ r.outcome = outcome
  BY <1>1, <1>2 DEF RequestRows
<1>5. CASE request[c].for # "invite"
  <2>1. accesses' = accesses
    BY <1>5 DEF MailLink
  <2>2. RequestSound(r, offers, accesses, tickets) /\ ~Inviting(r)
    BY <1>1, <1>4, <1>5 DEF RequestSound, Inviting
  <2>. QED
    BY <1>3, <1>4, <2>1, <2>2, RequestAlone
<1>6. CASE request[c].for = "invite"
  <2>1. PICK a : a = request[c].row
    OBVIOUS
  <2>2. /\ a \in DOMAIN accesses /\ accesses[a] \in AccessRows
        /\ accesses[a].mail = "SENDING" /\ accesses[a].invited = 0
    BY <1>1, <1>6, <2>1, LinksTyped DEF RequestSound, Inviting
  <2>3. PICK row : row = IF reached THEN [accesses[a] EXCEPT !.invited = 1] ELSE accesses[a]
    OBVIOUS
  <2>4. /\ row \in AccessRows /\ row.mail = "SENDING" /\ row.live = accesses[a].live
        /\ row.invited = IF reached THEN 1 ELSE 0
    BY <2>2, <2>3 DEF AccessRows
  <2>5. accesses' = [accesses EXCEPT ![a] = row]
    <3>1. CASE reached
      <4>1. accesses' = [accesses EXCEPT ![a].invited = accesses[a].invited + 1]
        BY <1>6, <2>1, <3>1 DEF MailLink
      <4>2. accesses' = [accesses EXCEPT ![a] = [accesses[a] EXCEPT !.invited = 1]]
        BY <2>2, <4>1
      <4>. QED
        BY <2>3, <3>1, <4>2
    <3>2. CASE ~reached
      BY <2>2, <2>3, <3>2, LinksTyped DEF MailLink
    <3>. QED
      BY <3>1, <3>2
  <2>6. AccessSound(row)
    BY <2>4 DEF AccessSound, Uninvited
  <2>7. accesses'[a] = row /\ DOMAIN accesses' = DOMAIN accesses
    BY <2>2, <2>5, LinksTyped
  <2>8. RequestSound(r, offers, accesses', tickets)
    BY <1>1, <1>4, <1>6, <2>1, <2>2, <2>4, <2>7 DEF RequestSound, Inviting
  <2>9. \A d \in Requests \ {c} : Inviting(request[d]) => request[d].row # a
    BY <1>1, <1>6, <2>1 DEF LinksInv, InvitingApart, Inviting
  <2>10. /\ a \in DOMAIN accesses /\ r \in RequestRows \cup {Nothing}
         /\ row \in AccessRows
         /\ row.live => accesses[a].live
         /\ Inviting(r) => r.row = a
    BY <1>4, <2>1, <2>2, <2>4
  <2>. QED
    BY <1>3, <2>5, <2>6, <2>8, <2>9, <2>10, AccessMoves
<1>. QED
  BY <1>5, <1>6

LEMMA RecordMailKeeps ==
  ASSUME LinksInv, NEW c \in Requests, RecordMail(c)
  PROVE  LinksInv'
<1>1. /\ request[c] # Nothing /\ request[c] \in RequestRows /\ request[c].step = "record"
      /\ RequestSound(request[c], offers, accesses, tickets)
      /\ request[c].outcome \in MailStatuses \ {"SENDING"}
      /\ request' = [request EXCEPT ![c] = Nothing]
  BY LinksTyped DEF RecordMail, RequestSound, EndRequest
<1>2. CASE request[c].for = "offer"
  <2>1. PICK n : n = request[c].row
    OBVIOUS
  <2>2. n \in DOMAIN offers /\ offers[n] \in OfferRows
    BY <1>1, <1>2, <2>1, LinksTyped DEF RequestSound
  <2>3. PICK row : row = [offers[n] EXCEPT !.status = request[c].outcome]
    OBVIOUS
  <2>4. row \in OfferRows /\ row.honoured = offers[n].honoured
    BY <1>1, <2>2, <2>3 DEF OfferRows
  <2>5. /\ offers' = [offers EXCEPT ![n] = row]
        /\ UNCHANGED <<linkOpen, agreed, email, delivered, accesses, tickets, notices>>
    BY <1>2, <2>1, <2>2, <2>3 DEF RecordMail
  <2>6. /\ offers' \in Seq(OfferRows) /\ DOMAIN offers' = DOMAIN offers
        /\ \A m \in DOMAIN offers : offers'[m].honoured = offers[m].honoured
    BY <2>2, <2>4, <2>5, LinksTyped
  <2>7. LinksTypeOK'
    BY <1>1, <2>5, <2>6 DEF LinksInv, LinksTypeOK
  <2>8. LinksHonoured' /\ AccessesSound'
    BY <2>5, <2>6 DEF LinksInv, LinksHonoured, AccessesSound
  <2>9. ~Inviting(Nothing)
    BY DEF Inviting
  <2>. QED
    BY <1>1, <2>5, <2>6, <2>7, <2>8, <2>9, RequestMoves
<1>3. CASE request[c].for # "offer"
  <2>1. PICK a : a = request[c].row
    OBVIOUS
  <2>2. /\ request[c].for = "invite" /\ Inviting(request[c])
        /\ a \in DOMAIN accesses /\ accesses[a] \in AccessRows
        /\ accesses[a].mail = "SENDING" /\ AccessSound(accesses[a])
        /\ request[c].outcome = "FAILED" => accesses[a].invited = 0
    BY <1>1, <1>3, <2>1, LinksTyped DEF RequestSound, Inviting, LinksInv, AccessesSound
  <2>3. PICK row : row = [accesses[a] EXCEPT !.mail = request[c].outcome]
    OBVIOUS
  <2>4. /\ row \in AccessRows /\ row.live = accesses[a].live
        /\ row.invited = accesses[a].invited /\ row.mail = request[c].outcome
    BY <1>1, <2>2, <2>3 DEF AccessRows
  <2>5. /\ accesses' = [accesses EXCEPT ![a] = row]
        /\ UNCHANGED <<linkOpen, agreed, offers, email, delivered, tickets, notices>>
    BY <1>3, <2>1, <2>2, <2>3 DEF RecordMail
  <2>6. AccessSound(row)
    BY <1>1, <2>2, <2>4 DEF AccessSound, Uninvited, MailStatuses
  <2>7. \A d \in Requests \ {c} : Inviting(request[d]) => request[d].row # a
    BY <2>1, <2>2 DEF LinksInv, InvitingApart
  <2>8. PICK r : r = Nothing
    OBVIOUS
  <2>9. /\ a \in DOMAIN accesses /\ r \in RequestRows \cup {Nothing}
        /\ row \in AccessRows
        /\ row.live => accesses[a].live
        /\ ~Inviting(r) /\ ~(r # Nothing)
        /\ request' = [request EXCEPT ![c] = r]
    BY <1>1, <2>2, <2>4, <2>8 DEF Inviting
  <2>. QED
    BY <2>5, <2>6, <2>7, <2>9, AccessMoves
<1>. QED
  BY <1>2, <1>3

\* A ticket is written and its notice queued, on a link in force.
LEMMA TicketWritten ==
  ASSUME LinksInv, NEW c \in Requests, EndRequest(c), NEW notice \in NoticeRows,
         notice.honoured, notices' = Append(notices, notice),
         tickets' \in Seq(TicketRows), DOMAIN tickets \subseteq DOMAIN tickets',
         UNCHANGED <<linkOpen, agreed, offers, email, delivered, accesses>>
  PROVE  LinksInv'
<1>1. /\ notices' \in Seq(NoticeRows)
      /\ \A n \in DOMAIN notices' : notices'[n].honoured
  <2>1. \A n \in DOMAIN notices : notices[n].honoured
    BY DEF LinksInv, LinksHonoured
  <2>. QED
    BY <2>1, LinksTyped
<1>2. LinksHonoured' /\ AccessesSound'
  BY <1>1 DEF LinksInv, LinksHonoured, AccessesSound
<1>3. PICK r : r = Nothing
  OBVIOUS
<1>4. request' = [request EXCEPT ![c] = r] /\ ~Inviting(r)
  BY <1>3 DEF EndRequest, Inviting
<1>5. LinksTypeOK'
  BY <1>1, <1>3, <1>4 DEF LinksInv, LinksTypeOK
<1>6. offers' = offers /\ accesses' = accesses
  OBVIOUS
<1>. QED
  BY <1>2, <1>3, <1>4, <1>5, <1>6, RequestMoves

LEMMA OpenTicketKeeps ==
  ASSUME LinksInv, NEW c \in Requests, NEW photos \in 0 .. MaxPhotos, OpenTicket(c, photos)
  PROVE  LinksInv'
<1>1. PICK a : a = request[c].row
  OBVIOUS
<1>2. CASE ~(InForce(a) /\ Len(tickets) < MaxTickets)
  BY <1>1, <1>2, EndAlone DEF OpenTicket, StillInForce
<1>3. CASE InForce(a) /\ Len(tickets) < MaxTickets
  <2>1. PICK new : new = [status |-> "OPEN", revision |-> 0, photos |-> photos]
    OBVIOUS
  <2>2. PICK notice : notice = [kind |-> "NEW_TICKET", ticket |-> Len(tickets) + 1,
                                revision |-> 0, honoured |-> InForce(a)]
    OBVIOUS
  <2>3. /\ tickets' = Append(tickets, new) /\ notices' = Append(notices, notice)
        /\ EndRequest(c)
        /\ UNCHANGED <<linkOpen, agreed, offers, email, delivered, accesses>>
    BY <1>1, <1>3, <2>1, <2>2 DEF OpenTicket, StillInForce, Enqueue
  <2>4. InForce(a) = TRUE
    BY <1>1, <1>3, LinksTyped DEF InForce, OpenTicket, At, AccessRows, RequestSound
  <2>5. 0 \in 0 .. MaxRevision /\ Len(tickets) + 1 \in Nat
    BY LinksTyped, CustomerLinksAssumption
  <2>6. new \in TicketRows
    BY <2>1, <2>5 DEF TicketRows, TicketStatuses
  <2>7. notice \in NoticeRows /\ notice.honoured
    BY <2>2, <2>4, <2>5 DEF NoticeRows
  <2>8. tickets' \in Seq(TicketRows) /\ DOMAIN tickets \subseteq DOMAIN tickets'
    BY <2>3, <2>6, LinksTyped
  <2>. QED
    BY <2>3, <2>7, <2>8, TicketWritten
<1>. QED
  BY <1>2, <1>3

LEMMA ReplyKeeps ==
  ASSUME LinksInv, NEW c \in Requests, NEW photos \in 0 .. MaxPhotos, Reply(c, photos)
  PROVE  LinksInv'
<1>1. PICK a, t : a = request[c].row /\ t = request[c].ticket
  OBVIOUS
<1>2. /\ a \in DOMAIN accesses /\ t \in DOMAIN tickets /\ tickets[t] \in TicketRows
      /\ accesses[a] \in AccessRows /\ tickets[t].revision < MaxRevision
      /\ request[c] \in RequestRows
  BY <1>1, LinksTyped DEF Reply, At, RequestSound
<1>3. CASE ~(InForce(a) /\ tickets[t].photos + photos <= MaxPhotos)
  BY <1>1, <1>3, EndAlone DEF Reply, StillInForce
<1>4. CASE InForce(a) /\ tickets[t].photos + photos <= MaxPhotos
  <2>1. PICK new : new = [status |-> Reopened(tickets[t].status),
                          revision |-> tickets[t].revision + 1,
                          photos |-> tickets[t].photos + photos]
    OBVIOUS
  <2>2. PICK notice : notice = [kind |-> "CUSTOMER_REPLY", ticket |-> t,
                                revision |-> tickets[t].revision + 1,
                                honoured |-> InForce(a)]
    OBVIOUS
  <2>3. /\ tickets' = [tickets EXCEPT ![t] = new] /\ notices' = Append(notices, notice)
        /\ EndRequest(c)
        /\ UNCHANGED <<linkOpen, agreed, offers, email, delivered, accesses>>
    BY <1>1, <1>4, <2>1, <2>2 DEF Reply, StillInForce, Enqueue
  <2>4. InForce(a) = TRUE
    BY <1>2, <1>4, LinksTyped DEF InForce, AccessRows
  <2>5. /\ tickets[t].revision + 1 \in 0 .. MaxRevision
        /\ tickets[t].photos + photos \in 0 .. MaxPhotos
        /\ Reopened(tickets[t].status) \in TicketStatuses
    BY <1>2, <1>4, CustomerLinksAssumption DEF TicketRows, Reopened, TicketStatuses
  <2>6. new \in TicketRows
    BY <2>1, <2>5 DEF TicketRows
  <2>7. notice \in NoticeRows /\ notice.honoured
    BY <1>1, <1>2, <2>2, <2>4, <2>5 DEF NoticeRows, RequestRows
  <2>8. tickets' \in Seq(TicketRows) /\ DOMAIN tickets \subseteq DOMAIN tickets'
    BY <1>2, <2>3, <2>6, LinksTyped
  <2>. QED
    BY <2>3, <2>7, <2>8, TicketWritten
<1>. QED
  BY <1>3, <1>4

LEMMA UpdateTicketKeeps ==
  ASSUME LinksInv, NEW t \in DOMAIN tickets, NEW status \in TicketStatuses,
         NEW message \in BOOLEAN, UpdateTicket(t, status, message)
  PROVE  LinksInv'
<1>1. tickets[t] \in TicketRows /\ tickets[t].revision < MaxRevision /\ t \in Nat
  BY LinksTyped DEF UpdateTicket
<1>2. PICK new : new = [tickets[t] EXCEPT !.status = status,
                                          !.revision = tickets[t].revision + 1]
  OBVIOUS
<1>3. tickets' = [tickets EXCEPT ![t] = new]
  BY <1>2, LinksTyped DEF UpdateTicket
<1>4. tickets[t].revision + 1 \in 0 .. MaxRevision
  BY <1>1, CustomerLinksAssumption DEF TicketRows
<1>5. new \in TicketRows
  BY <1>1, <1>2, <1>4 DEF TicketRows
<1>6. tickets' \in Seq(TicketRows) /\ DOMAIN tickets' = DOMAIN tickets
  BY <1>3, <1>5, LinksTyped
<1>7. PICK notice : notice = [kind |-> "CLIENT_UPDATE", ticket |-> t,
                              revision |-> tickets[t].revision + 1, honoured |-> TRUE]
  OBVIOUS
<1>8. notice \in NoticeRows /\ notice.honoured
  BY <1>1, <1>4, <1>7 DEF NoticeRows
<1>9. /\ notices' \in Seq(NoticeRows)
      /\ \A n \in DOMAIN notices' : notices'[n].honoured
  <2>1. \A n \in DOMAIN notices : notices[n].honoured
    BY DEF LinksInv, LinksHonoured
  <2>2. notices' = notices \/ notices' = Append(notices, notice)
    BY <1>7 DEF UpdateTicket, Enqueue
  <2>3. CASE notices' = notices
    BY <2>1, <2>3, LinksTyped
  <2>4. CASE notices' = Append(notices, notice)
    BY <1>8, <2>1, <2>4, LinksTyped
  <2>. QED
    BY <2>2, <2>3, <2>4
<1>10. UNCHANGED <<linkOpen, agreed, offers, email, delivered, accesses, request>>
  BY DEF UpdateTicket
<1>11. LinksTypeOK' /\ LinksHonoured' /\ AccessesSound'
  BY <1>6, <1>9, <1>10 DEF LinksInv, LinksTypeOK, LinksHonoured, AccessesSound
<1>. QED
  BY <1>6, <1>10, <1>11, RowsMove

LEMMA CreateAccessKeeps ==
  ASSUME LinksInv, CreateAccess
  PROVE  LinksInv'
<1> DEFINE old == [a \in DOMAIN accesses |-> [accesses[a] EXCEPT !.live = FALSE]]
<1>1. PICK new : new = [email |-> email, live |-> TRUE, expired |-> FALSE,
                        mail |-> "NOT_SENT", invited |-> 0]
  OBVIOUS
<1>2. new \in AccessRows /\ new.invited = 0
  BY <1>1, LinksTyped DEF AccessRows
<1>3. accesses' = Append(old, new)
      /\ UNCHANGED <<linkOpen, agreed, offers, email, delivered, tickets, notices, request>>
  BY <1>1 DEF CreateAccess
<1>4. \A a \in DOMAIN accesses : /\ old[a] \in AccessRows /\ ~old[a].live
                                 /\ old[a].mail = accesses[a].mail
                                 /\ old[a].invited = accesses[a].invited
  BY LinksTyped DEF AccessRows
<1>5. old \in Seq(AccessRows) /\ DOMAIN old = DOMAIN accesses
  BY <1>4, LinksTyped
<1> HIDE DEF old
<1>6. /\ accesses' \in Seq(AccessRows) /\ DOMAIN accesses \subseteq DOMAIN accesses'
      /\ \A a \in DOMAIN accesses' : a \in DOMAIN accesses \/ a = Len(old) + 1
      /\ \A a \in DOMAIN accesses : accesses'[a] = old[a]
      /\ accesses'[Len(old) + 1] = new
  BY <1>2, <1>3, <1>5
<1>7. LinksTypeOK'
  BY <1>3, <1>6 DEF LinksInv, LinksTypeOK
<1>8. AccessesSound'
  BY <1>2, <1>4, <1>6 DEF LinksInv, AccessesSound, AccessSound, Uninvited
<1>9. LinksHonoured'
  BY <1>2, <1>3, <1>4, <1>6 DEF LinksInv, LinksHonoured
<1>10. /\ offers' = offers /\ tickets' = tickets
       /\ \A a \in DOMAIN accesses : /\ accesses'[a].mail = accesses[a].mail
                                     /\ accesses'[a].invited = accesses[a].invited
  BY <1>3, <1>4, <1>6
<1>. QED
  BY <1>3, <1>6, <1>7, <1>8, <1>9, <1>10, RowsMove

\* An access loses its force.
LEMMA AccessWeakened ==
  ASSUME LinksInv, NEW a \in DOMAIN accesses, NEW row \in AccessRows,
         accesses' = [accesses EXCEPT ![a] = row],
         row.live => accesses[a].live, row.mail = accesses[a].mail,
         row.invited = accesses[a].invited,
         UNCHANGED <<linkOpen, agreed, offers, email, delivered, tickets, notices, request>>
  PROVE  LinksInv'
<1>1. /\ accesses' \in Seq(AccessRows) /\ DOMAIN accesses' = DOMAIN accesses
      /\ \A b \in DOMAIN accesses : /\ accesses'[b].live => accesses[b].live
                                    /\ accesses'[b].mail = accesses[b].mail
                                    /\ accesses'[b].invited = accesses[b].invited
  BY LinksTyped
<1>2. LinksTypeOK' /\ LinksHonoured'
  BY <1>1 DEF LinksInv, LinksTypeOK, LinksHonoured
<1>3. AccessesSound'
  BY <1>1 DEF LinksInv, AccessesSound, AccessSound, Uninvited
<1>4. offers' = offers /\ tickets' = tickets
  OBVIOUS
<1>. QED
  BY <1>1, <1>2, <1>3, <1>4, RowsMove

LEMMA RevokeKeeps ==
  ASSUME LinksInv, NEW a \in DOMAIN accesses, Revoke(a)
  PROVE  LinksInv'
<1>1. PICK row : row = [accesses[a] EXCEPT !.live = FALSE]
  OBVIOUS
<1>2. /\ row \in AccessRows /\ ~row.live
      /\ row.mail = accesses[a].mail /\ row.invited = accesses[a].invited
  BY <1>1, LinksTyped DEF AccessRows
<1>3. /\ accesses' = [accesses EXCEPT ![a] = row]
      /\ UNCHANGED <<linkOpen, agreed, offers, email, delivered, tickets, notices, request>>
  BY <1>1, LinksTyped DEF Revoke
<1>. QED
  BY <1>2, <1>3, AccessWeakened

LEMMA TimeKeeps ==
  ASSUME LinksInv, TimePasses
  PROVE  LinksInv'
<1>1. ASSUME offers' = [n \in DOMAIN offers |-> [offers[n] EXCEPT !.recent = FALSE]],
             UNCHANGED <<linkOpen, agreed, email, delivered, accesses, tickets, notices,
                         request>>
      PROVE  LinksInv'
  <2>1. /\ DOMAIN offers' = DOMAIN offers
        /\ \A n \in DOMAIN offers : /\ offers'[n] \in OfferRows
                                    /\ offers'[n].honoured = offers[n].honoured
    BY <1>1, LinksTyped DEF OfferRows
  <2>2. offers' \in Seq(OfferRows)
    BY <1>1, <2>1, LinksTyped
  <2>3. LinksTypeOK' /\ LinksHonoured' /\ AccessesSound'
    BY <1>1, <2>1, <2>2 DEF LinksInv, LinksTypeOK, LinksHonoured, AccessesSound
  <2>. QED
    BY <1>1, <2>1, <2>3, RowsMove
<1>2. ASSUME NEW a \in DOMAIN accesses,
             accesses' = [accesses EXCEPT ![a].expired = TRUE],
             UNCHANGED <<linkOpen, agreed, offers, email, delivered, tickets, notices,
                         request>>
      PROVE  LinksInv'
  <2>1. PICK row : row = [accesses[a] EXCEPT !.expired = TRUE]
    OBVIOUS
  <2>2. /\ row \in AccessRows /\ row.live = accesses[a].live
        /\ row.mail = accesses[a].mail /\ row.invited = accesses[a].invited
    BY <2>1, LinksTyped DEF AccessRows
  <2>3. accesses' = [accesses EXCEPT ![a] = row]
    BY <1>2, <2>1, LinksTyped
  <2>. QED
    BY <1>2, <2>2, <2>3, AccessWeakened
<1>. QED
  BY <1>1, <1>2 DEF TimePasses

\* The address, the delivery, the offer's link and the agreement change.
LEMMA RestKeeps ==
  ASSUME LinksInv, linkOpen' \in BOOLEAN, agreed' \in BOOLEAN, delivered' \in BOOLEAN,
         email' \in Emails, UNCHANGED <<offers, accesses, tickets, notices, request>>
  PROVE  LinksInv'
<1>1. LinksTypeOK' /\ LinksHonoured' /\ AccessesSound'
  BY DEF LinksInv, LinksTypeOK, LinksHonoured, AccessesSound
<1>. QED
  BY <1>1, RowsMove

LEMMA NextLinks == LinksInv /\ [LinksNext]_linksVars => LinksInv'
<1> SUFFICES ASSUME LinksInv, [LinksNext]_linksVars PROVE LinksInv'
  OBVIOUS
<1>1. ASSUME NEW c \in Requests, RequestStep(c) PROVE LinksInv'
  BY <1>1, BeginRequestKeeps, ClaimOfferKeeps, ClaimInviteKeeps, MailLinkKeeps, RecordMailKeeps,
     OpenTicketKeeps, ReplyKeeps, EndAlone DEF RequestStep, RequestFails
<1>2. CASE CreateAccess
  BY <1>2, CreateAccessKeeps
<1>3. ASSUME NEW a \in DOMAIN accesses, Revoke(a) PROVE LinksInv'
  BY <1>3, RevokeKeeps
<1>4. ASSUME NEW t \in DOMAIN tickets, NEW status \in TicketStatuses,
             NEW message \in BOOLEAN, UpdateTicket(t, status, message)
      PROVE  LinksInv'
  BY <1>4, UpdateTicketKeeps
<1>5. CASE LinkCloses \/ AgreementMoves \/ DeliveryChanges \/ UNCHANGED linksVars
  BY <1>5, RestKeeps, LinksTyped
     DEF LinkCloses, AgreementMoves, DeliveryChanges, linksVars
<1>6. ASSUME NEW e \in Emails, CustomerChanges(e) PROVE LinksInv'
  BY <1>6, RestKeeps, LinksTyped DEF CustomerChanges
<1>7. CASE TimePasses
  BY <1>7, TimeKeeps
<1>. QED
  BY <1>1, <1>2, <1>3, <1>4, <1>5, <1>6, <1>7 DEF LinksNext

\* Whatever is withdrawn, changed or lost between the check of a link and the
\* write, an offer is mailed and a ticket written only on a link in force, one
\* support link is in force at most, and its invitation arrives at most once.
THEOREM LinksAreHonoured == LinksSpec => []LinksHonoured
<1>1. LinksInv => LinksHonoured
  BY DEF LinksInv
<1>. QED
  BY <1>1, InitLinks, NextLinks, PTL DEF LinksSpec

-----------------------------------------------------------------------------
(* The suppliers' documents, while the ledger and the orders go on.        *)

DocumentsSpec ==
  /\ Init /\ RecordsInit
  /\ [][\/ Next /\ UNCHANGED records
        \/ RecordsNext /\ UNCHANGED ordersVars]_<<vars, records>>

\* A record supersedes older ones, and is on a cost of the work it was
\* ordered for when part of it counts.
RecordsSound ==
  /\ RecordsTypeOK
  /\ \A n \in DOMAIN records :
       /\ records[n].old < n
       /\ records[n].share > 0 <=> records[n].cost # 0
       /\ records[n].cost # 0 => records[n].cost \in PartCosts(records[n].order[1])

DocumentsInv == LedgerInv /\ EventsTypeOK /\ RecordsSound /\ SharesCovered

SharesOf(rs) == [n \in DOMAIN rs |-> rs[n].share]

\* Shares add up to a number, that of fewer records to no more.
LEMMA SharesAddUp ==
  ASSUME RecordsTypeOK, NEW R, R \subseteq DOMAIN records, NEW T, T \subseteq R
  PROVE  /\ IsFiniteSet(R)
         /\ Shares(R) = SumFunctionOnSet(SharesOf(records), R)
         /\ Shares(R) \in Nat /\ Shares(T) \in Nat
         /\ Shares(T) <= Shares(R)
<1>1. /\ DOMAIN records = 1..Len(records) /\ Len(records) \in Nat
      /\ \A n \in DOMAIN records : records[n] \in RecordRows
  BY DEF RecordsTypeOK
<1>2. IsFiniteSet(R)
  <2>1. IsFiniteSet(1..Len(records))
    BY <1>1, FS_Interval
  <2>. QED
    BY <1>1, <2>1, FS_Subset
<1>3. PICK f : f = SharesOf(records)
  OBVIOUS
<1>4. \A n \in R : f[n] \in Nat
  <2>1. Amounts \subseteq Nat
    BY LedgerAssumption DEF Amounts
  <2>. QED
    BY <1>1, <1>3, <2>1 DEF RecordRows, SharesOf
<1>5. SumFunctionOnSet(f, R) \in Nat /\ SumFunctionOnSet(f, T) \in Nat
      /\ SumFunctionOnSet(f, T) <= SumFunctionOnSet(f, R)
  BY <1>2, <1>4, SumMonotone
<1>6. Shares(R) = SumFunctionOnSet(f, R) /\ Shares(T) = SumFunctionOnSet(f, T)
  BY <1>3 DEF Shares, SharesOf
<1>. QED
  BY <1>2, <1>3, <1>5, <1>6

\* Shares that fit in a bound with a new record still do once it is saved.
LEMMA SharesFit ==
  ASSUME RecordsTypeOK, NEW row \in RecordRows, records' = Append(records, row),
         NEW R, R \subseteq DOMAIN records, NEW bound \in Int,
         NEW T, T \subseteq R \cup {Len(records) + 1}
  PROVE  /\ Shares(T)' \in Nat /\ Shares(R) \in Nat /\ row.share \in Nat
         /\ Shares(R) + row.share <= bound => Shares(T)' <= bound
         /\ T \subseteq R /\ Shares(R) <= bound => Shares(T)' <= bound
<1>1. PICK f, g, new : /\ f = SharesOf(records) /\ g = SharesOf(records)'
                       /\ new = Len(records) + 1
  OBVIOUS
<1>2. /\ DOMAIN records = 1..Len(records) /\ Len(records) \in Nat
      /\ DOMAIN records' = 1..new /\ new \notin DOMAIN records
      /\ \A n \in DOMAIN records : records'[n] = records[n] /\ records[n] \in RecordRows
      /\ records'[new] = row
  BY <1>1 DEF RecordsTypeOK
<1>3. /\ \A n \in R : g[n] = f[n] /\ f[n] \in Nat
      /\ g[new] = row.share /\ row.share \in Nat
  <2>1. Amounts \subseteq Nat
    BY LedgerAssumption DEF Amounts
  <2>2. \A n \in DOMAIN records : f[n] = records[n].share /\ records[n].share \in Nat
    BY <1>1, <1>2, <2>1 DEF SharesOf, RecordRows
  <2>3. \A n \in DOMAIN records' : g[n] = records'[n].share
    BY <1>1 DEF SharesOf
  <2>4. DOMAIN records \subseteq DOMAIN records' /\ new \in DOMAIN records'
    BY <1>1, <1>2
  <2>. QED
    BY <1>2, <2>1, <2>2, <2>3, <2>4 DEF RecordRows
<1>4. IsFiniteSet(R) /\ IsFiniteSet(R \cup {new}) /\ new \notin R
  BY <1>2, SharesAddUp, FS_AddElement
<1>5. SumFunctionOnSet(g, R) = Shares(R) /\ Shares(R) \in Nat
  <2>1. SumFunctionOnSet(g, R) = SumFunctionOnSet(f, R)
    BY <1>3, <1>4, SumSame
  <2>. QED
    BY <1>1, <2>1, SharesAddUp
<1>6. SumFunctionOnSet(g, R \cup {new}) = Shares(R) + row.share
  BY <1>3, <1>4, <1>5, SumAdd
<1>7. /\ SumFunctionOnSet(g, T) \in Nat
      /\ SumFunctionOnSet(g, T) <= SumFunctionOnSet(g, R \cup {new})
  BY <1>1, <1>3, <1>4, SumMonotone
<1>8. T \subseteq R => SumFunctionOnSet(g, T) <= SumFunctionOnSet(g, R)
  BY <1>3, <1>4, SumMonotone
<1>9. Shares(T)' = SumFunctionOnSet(g, T)
  BY <1>1 DEF Shares, SharesOf
<1>10. PICK before, after : before = Shares(R) /\ after = Shares(T)'
  OBVIOUS
<1>11. /\ before \in Nat /\ after \in Nat /\ row.share \in Nat
       /\ after <= before + row.share /\ (T \subseteq R => after <= before)
  BY <1>3, <1>5, <1>6, <1>7, <1>8, <1>9, <1>10
<1>12. /\ before + row.share <= bound => after <= bound
       /\ T \subseteq R /\ before <= bound => after <= bound
  BY <1>11
<1>. QED
  BY <1>10, <1>11, <1>12

\* The same, with something else under the bound.
LEMMA SharesFitUnder ==
  ASSUME RecordsTypeOK, NEW row \in RecordRows, records' = Append(records, row),
         NEW R, R \subseteq DOMAIN records, NEW bound \in Int, NEW part \in Int,
         NEW T, T \subseteq R \cup {Len(records) + 1}
  PROVE  /\ Shares(R) + row.share + part <= bound => Shares(T)' + part <= bound
         /\ T \subseteq R /\ Shares(R) + part <= bound => Shares(T)' + part <= bound
<1>1. PICK before, after : before = Shares(R) /\ after = Shares(T)'
  OBVIOUS
<1>2. bound - part \in Int
  OBVIOUS
<1>3. /\ before \in Nat /\ after \in Nat /\ row.share \in Nat
      /\ before + row.share <= bound - part => after <= bound - part
      /\ T \subseteq R /\ before <= bound - part => after <= bound - part
  BY <1>1, <1>2, SharesFit
<1>4. /\ before + row.share + part <= bound => after + part <= bound
      /\ T \subseteq R /\ before + part <= bound => after + part <= bound
  BY <1>3
<1>. QED
  BY <1>1, <1>4

\* The ledger only grows, and what an entry says of an older one stays.
EntriesGrow ==
  \A i \in DOMAIN entries : i \in DOMAIN entries' /\ entries'[i] = entries[i]

LEMMA RowsGrow ==
  ASSUME LedgerInv, NEW rows \in Seq(EntryRows), entries' = entries \o rows
  PROVE  EntriesGrow
<1>1. entries \in Seq(EntryRows)
  BY DEF LedgerInv, EntriesSound
<1>. QED
  BY <1>1 DEF EntriesGrow

LEMMA NextGrows == LedgerInv /\ EventsTypeOK /\ [Next]_vars => EntriesGrow
<1> SUFFICES ASSUME LedgerInv, EventsTypeOK, [Next]_vars PROVE EntriesGrow
  OBVIOUS
<1>1. CASE UNCHANGED entries
  BY <1>1 DEF EntriesGrow
<1>2. ASSUME NEW by, AddedBy(by) PROVE EntriesGrow
  BY <1>2, RowsGrow DEF AddedBy
<1>3. ASSUME NEW open, LedgerNext(open) PROVE EntriesGrow
  BY <1>1, <1>2, <1>3, AddKeeps, WorkCostsKeep, SettleKeeps DEF LedgerNext, CheckPayment
<1>4. ASSUME NEW key \in OrderKeys, NEW kind \in EventKinds,
             NEW old \in {0} \cup DOMAIN entries, SupplierEvent(key, kind, old)
      PROVE  EntriesGrow
  <2>1. Len(batches[key[1]]) + 1 \in Nat
    BY <1>4, OrdersAssumption DEF SupplierEvent, EventsTypeOK
  <2> QED BY <1>1, <1>2, <2>1, <1>4, OrderCostKeeps DEF SupplierEvent
<1>5. ASSUME NEW c \in Calls, SendStep(c) PROVE UNCHANGED entries
  <2>1. ASSUME NEW key, BeginSend(c, key) PROVE UNCHANGED entries
    BY <2>1 DEF BeginSend, ledgerVars
  <2>2. CASE Claim(c)
    BY <2>2 DEF Claim, ledgerVars
  <2>3. ASSUME NEW outcome, NEW reached, Mail(c, outcome, reached) PROVE UNCHANGED entries
    BY <2>3 DEF Mail, ledgerVars
  <2>4. CASE RecordOutcome(c)
    BY <2>4 DEF RecordOutcome, ledgerVars
  <2>. QED
    BY <1>5, <2>1, <2>2, <2>3, <2>4 DEF SendStep
<1>6. ASSUME NEW p, Prepare(p) \/ AgreementChanges(p) PROVE UNCHANGED entries
  BY <1>6 DEF Prepare, AgreementChanges, ledgerVars
<1>7. CASE CatalogWithdrawn \/ Crash \/ UNCHANGED vars
  BY <1>1, <1>7 DEF CatalogWithdrawn, Crash, vars, ledgerVars
<1> QED
  BY <1>1, <1>3, <1>4, <1>5, <1>6, <1>7 DEF Next

\* A cost stays one of its work, and what it superseded stays so.
LEMMA CostsGrow ==
  ASSUME EntriesGrow, NEW w
  PROVE  /\ \A i \in PartCosts(w) : i \in PartCosts(w)' /\ entries'[i].amount = entries[i].amount
         /\ \A i \in PartCosts(w)' : i \in DOMAIN entries => i \in PartCosts(w)
         /\ \A j \in PartCosts(w) : Ancestry(w, j) \subseteq Ancestry(w, j)'
<1>1. \A i \in DOMAIN entries : i \in DOMAIN entries' /\ entries'[i] = entries[i]
  BY DEF EntriesGrow
<1>2. \A i \in PartCosts(w) : i \in PartCosts(w)' /\ entries'[i] = entries[i]
  BY <1>1 DEF PartCosts
<1>3. \A i \in PartCosts(w)' : i \in DOMAIN entries => i \in PartCosts(w)
  BY <1>1 DEF PartCosts
<1>4. ASSUME NEW j \in PartCosts(w), NEW i \in Ancestry(w, j)
      PROVE  i \in Ancestry(w, j)'
  <2>1. PICK C, D : C = PartCosts(w) /\ D = PartCosts(w)'
    OBVIOUS
  <2>2. /\ i \in C /\ i \in D /\ C \subseteq D
        /\ \A S \in SUBSET C :
             (j \in S /\ \A k \in S : entries[k].old \in C => entries[k].old \in S) => i \in S
    BY <1>2, <1>4, <2>1 DEF Ancestry
  <2>3. ASSUME NEW S \in SUBSET D, j \in S,
               \A k \in S : entries'[k].old \in D => entries'[k].old \in S
        PROVE  i \in S
    <3>1. j \in S \cap C
      BY <2>1, <2>3
    <3>2. ASSUME NEW k \in S \cap C, entries[k].old \in C PROVE entries[k].old \in S \cap C
      BY <1>2, <2>1, <2>2, <2>3, <3>2
    <3>. QED
      BY <2>2, <3>1, <3>2
  <2>. QED
    BY <2>1, <2>2, <2>3 DEF Ancestry
<1>. QED
  BY <1>2, <1>3, <1>4

\* Whatever the services do to the ledger, the shares stay covered.
LEMMA LedgerKeepsShares ==
  ASSUME DocumentsInv, LedgerInv', EventsTypeOK', EntriesGrow, UNCHANGED records
  PROVE  DocumentsInv'
<1>1. /\ \A n : Counts(n)' = Counts(n)
      /\ Counting' = Counting
      /\ \A d : OfOriginal(d)' = OfOriginal(d)
      /\ \A i : Billed(i)' = Billed(i)
      /\ \A w : Credits(w)' = Credits(w)
      /\ \A w, v : CreditsOf(w, v)' = CreditsOf(w, v)
      /\ \A R : Shares(R)' = Shares(R)
  BY DEF Counts, Counting, OfOriginal, Billed, Credits, CreditsOf, Shares
<1>2. RecordsSound'
  <2>1. \A n \in DOMAIN records : records[n].cost # 0 =>
          records[n].cost \in PartCosts(records[n].order[1])'
    BY CostsGrow DEF DocumentsInv, RecordsSound
  <2>. QED
    BY <2>1 DEF DocumentsInv, RecordsSound, RecordsTypeOK
<1>3. ASSUME NEW n \in Counting
      PROVE  Shares(OfOriginal(records[n].original))' <= records'[n].net
  BY <1>1, <1>3 DEF DocumentsInv, SharesCovered
<1>4. ASSUME NEW w \in Works, NEW i \in PartCosts(w)'
      PROVE  Shares(Billed(i))' <= entries'[i].amount
  <2>1. CASE i \in DOMAIN entries
    BY <1>1, <1>4, <2>1, CostsGrow DEF DocumentsInv, SharesCovered
  <2>2. CASE i \notin DOMAIN entries
    <3>1. i \in DOMAIN entries' /\ entries' \in Seq(EntryRows)
      BY <1>4 DEF PartCosts, LedgerInv, EntriesSound
    <3>2. i # 0 /\ entries'[i].amount \in Nat
      <4>1. entries'[i] \in EntryRows /\ i # 0
        BY <3>1
      <4>. QED
        BY <4>1, LedgerAssumption DEF EntryRows, Amounts
    <3>3. Billed(i) = {}
      BY <2>2, <3>2 DEF Billed, Counting, PartCosts, DocumentsInv, RecordsSound
    <3>4. Shares(Billed(i))' = 0
      BY <1>1, <3>3, SumEmpty DEF Shares
    <3>. QED
      BY <3>2, <3>4
  <2>. QED
    BY <2>1, <2>2
<1>5. ASSUME NEW w \in Works, NEW n \in Credits(w)
      PROVE  /\ records[n].invoice \in Counting
             /\ Shares(CreditsOf(w, records[n].invoice)) <= records[records[n].invoice].net
             /\ \E j \in PartCosts(w)' :
                  /\ records[n].basis \in Ancestry(w, j)' \ {j}
                  /\ Shares(Credits(w)) + entries'[j].amount <= entries'[records[n].basis].amount
  <2>1. PICK j \in PartCosts(w) :
          /\ records[n].basis \in Ancestry(w, j) \ {j}
          /\ Shares(Credits(w)) + entries[j].amount <= entries[records[n].basis].amount
    BY <1>5 DEF DocumentsInv, SharesCovered
  <2>2. records[n].basis \in PartCosts(w)
    BY <2>1 DEF Ancestry
  <2>3. /\ j \in PartCosts(w)' /\ records[n].basis \in Ancestry(w, j)' \ {j}
        /\ entries'[j].amount = entries[j].amount
        /\ entries'[records[n].basis].amount = entries[records[n].basis].amount
    BY <2>1, <2>2, CostsGrow
  <2>. QED
    BY <1>5, <2>1, <2>3 DEF DocumentsInv, SharesCovered
<1>. QED
  BY <1>1, <1>2, <1>3, <1>4, <1>5 DEF DocumentsInv, SharesCovered

\* What is read of the records once one is saved.
LEMMA AfterSave ==
  ASSUME RecordsSound, NEW row \in RecordRows, SaveRecord(row)
  PROVE  LET new == Len(records) + 1
             current == Counting \ {row.old} IN
         /\ records' = Append(records, row) /\ RecordsTypeOK'
         /\ DOMAIN records' = DOMAIN records \cup {new} /\ new \notin DOMAIN records
         /\ \A n \in DOMAIN records : n < new /\ records'[n] = records[n]
         /\ records'[new] = row
         /\ Counting' = current \cup {new} /\ current \subseteq DOMAIN records
         /\ row.old \in {0} \cup DOMAIN records /\ 0 \notin DOMAIN records
<1>. PICK new, current : new = Len(records) + 1 /\ current = Counting \ {row.old}
  OBVIOUS
<1>1. records' = Append(records, row) /\ row.old \in {0} \cup DOMAIN records
  BY DEF SaveRecord
<1>2. /\ records \in Seq(RecordRows) /\ records' \in Seq(RecordRows)
      /\ Len(records) \in Nat /\ DOMAIN records = 1..Len(records)
      /\ DOMAIN records' = 1..(Len(records) + 1)
      /\ \A n \in 1..Len(records) : records'[n] = records[n]
      /\ records'[Len(records) + 1] = row
  BY <1>1, AppendProperties, LenProperties DEF RecordsSound, RecordsTypeOK
<1>3. /\ DOMAIN records' = DOMAIN records \cup {new} /\ new \notin DOMAIN records
      /\ \A n \in DOMAIN records : n < new
      /\ 0 \notin DOMAIN records
  BY <1>2
<1>4. /\ \A n \in DOMAIN records : records'[n] = records[n]
      /\ records'[new] = row
  BY <1>2
<1>5. current \subseteq DOMAIN records
  BY DEF Counting
<1>6. ASSUME NEW n \in DOMAIN records
      PROVE  n \in Counting' <=> n \in current
  <2>1. n \in Counting' <=> \A m \in DOMAIN records' : records'[m].old # n
    BY <1>3, <1>6 DEF Counting, Counts
  <2>2. n \in Counting <=> \A m \in DOMAIN records : records[m].old # n
    BY <1>6 DEF Counting, Counts
  <2>. QED
    BY <1>3, <1>4, <2>1, <2>2
<1>7. new \in Counting'
  <2>1. ASSUME NEW m \in DOMAIN records' PROVE records'[m].old # new
    <3>1. CASE m = new
      BY <1>1, <1>3, <1>4, <3>1
    <3>2. CASE m \in DOMAIN records
      <4>1. records[m] \in RecordRows /\ records[m].old < m /\ m \in Nat /\ m < new
        BY <1>2, <1>3, <3>2 DEF RecordsSound
      <4>2. records[m].old \in Nat
        BY <4>1 DEF RecordRows
      <4>. QED
        BY <1>2, <1>4, <3>2, <4>1, <4>2
    <3>. QED
      BY <1>3, <3>1, <3>2
  <2>. QED
    BY <1>3, <2>1 DEF Counting, Counts
<1>8. Counting' \subseteq DOMAIN records'
  BY DEF Counting
<1>9. Counting' = current \cup {new}
  BY <1>3, <1>5, <1>6, <1>7, <1>8
<1>. QED
  BY <1>1, <1>2, <1>3, <1>4, <1>5, <1>9 DEF RecordsTypeOK

\* The ledger is as it was when a record is saved.
LEMMA SaveLeavesLedger ==
  ASSUME NEW row, SaveRecord(row)
  PROVE  /\ entries' = entries
         /\ \A w : PartCosts(w)' = PartCosts(w)
         /\ \A w, i : Ancestry(w, i)' = Ancestry(w, i)
<1>1. entries' = entries
  BY DEF SaveRecord, ledgerVars
<1>2. \A w : PartCosts(w)' = PartCosts(w)
  BY <1>1 DEF PartCosts
<1>. QED
  BY <1>1, <1>2 DEF Ancestry, PartCosts

\* A saved record is sound.
LEMMA SaveSound ==
  ASSUME RecordsSound, NEW row \in RecordRows, SaveRecord(row)
  PROVE  RecordsSound'
<1>1. PICK new, current : new = Len(records) + 1 /\ current = Counting \ {row.old}
  OBVIOUS
<1>2. /\ DOMAIN records' = DOMAIN records \cup {new}
      /\ \A n \in DOMAIN records : n < new /\ records'[n] = records[n]
      /\ records'[new] = row /\ RecordsTypeOK' /\ row.old < new
  <2>1. records \in Seq(RecordRows)
    BY DEF RecordsSound, RecordsTypeOK
  <2>2. Len(records) \in Nat /\ DOMAIN records = 1..Len(records)
    BY <2>1
  <2>3. row.old \in {0} \cup DOMAIN records
    BY <1>1, AfterSave
  <2>4. row.old < new
    BY <1>1, <2>2, <2>3
  <2>. QED
    BY <1>1, <2>4, AfterSave
<1>3. /\ row.share > 0 <=> row.cost # 0
      /\ row.cost # 0 => row.cost \in PartCosts(row.order[1])'
  BY SaveLeavesLedger DEF SaveRecord, CostHolds
<1>4. ASSUME NEW n \in DOMAIN records'
      PROVE  /\ records'[n].old < n
             /\ records'[n].share > 0 <=> records'[n].cost # 0
             /\ (records[n].cost # 0 => records[n].cost \in PartCosts(records[n].order[1]))'
  <2>1. \A w : PartCosts(w)' = PartCosts(w)
    BY SaveLeavesLedger
  <2>2. CASE n = new
    BY <1>2, <1>3, <2>1, <2>2
  <2>3. CASE n \in DOMAIN records
    BY <1>2, <2>1, <2>3 DEF RecordsSound
  <2>. QED
    BY <1>2, <2>2, <2>3
<1>. QED
  BY <1>2, <1>4 DEF RecordsSound

\* No original is in the costs for more than its net.
LEMMA SaveKeepsOriginals ==
  ASSUME DocumentsInv, NEW row \in RecordRows, SaveRecord(row), NEW n \in Counting'
  PROVE  Shares(OfOriginal(records[n].original))' <= records'[n].net
<1>1. PICK new, current : new = Len(records) + 1 /\ current = Counting \ {row.old}
  OBVIOUS
<1>2. /\ records' = Append(records, row) /\ RecordsTypeOK /\ RecordsTypeOK'
      /\ \A m \in current : records'[m] = records[m]
      /\ records'[new] = row /\ Counting' = current \cup {new}
      /\ current \subseteq DOMAIN records /\ Counting' \subseteq DOMAIN records'
  <2>1. RecordsSound /\ RecordsTypeOK
    BY DEF DocumentsInv, RecordsSound
  <2>. QED
    BY <1>1, <2>1, AfterSave
<1>3. PICK d, T : d = records'[n].original /\ T = OfOriginal(d)'
  OBVIOUS
<1>4. T = {m \in current \cup {new} : records'[m].original = d}
  BY <1>2, <1>3 DEF OfOriginal
<1>5. records'[n] \in RecordRows /\ records'[n].net \in Int
  <2>1. records'[n] \in RecordRows
    BY <1>2 DEF RecordsTypeOK
  <2>. QED
    BY <2>1, LedgerAssumption DEF RecordRows, Amounts
<1>6. CASE d = row.original
  <2>1. PICK same : same = {m \in current : records[m].original = row.original}
    OBVIOUS
  <2>2. /\ \A m \in same : records[m].net = row.net
        /\ Shares(same) + row.share <= row.net
    BY <1>1, <2>1 DEF SaveRecord, OriginalHolds
  <2>3. records'[n].net = row.net
    BY <1>2, <1>3, <1>6, <2>1, <2>2
  <2>4. T \subseteq same \cup {new} /\ same \subseteq DOMAIN records
    BY <1>2, <1>4, <1>6, <2>1
  <2>. QED
    BY <1>1, <1>2, <1>3, <1>5, <2>2, <2>3, <2>4, SharesFit
<1>7. CASE d # row.original
  <2>1. n \in current /\ records'[n] = records[n] /\ records[n].original = d
    BY <1>2, <1>3, <1>7
  <2>2. T \subseteq OfOriginal(d) /\ OfOriginal(d) \subseteq DOMAIN records
    BY <1>1, <1>2, <1>4, <1>7 DEF OfOriginal, Counting
  <2>3. Shares(OfOriginal(d)) <= records[n].net
    BY <1>1, <2>1 DEF DocumentsInv, SharesCovered
  <2>. QED
    BY <1>2, <1>3, <1>5, <2>1, <2>2, <2>3, SharesFit
<1>. QED
  BY <1>6, <1>7

\* Nor a cost invoiced for more than it is.
LEMMA SaveKeepsBilled ==
  ASSUME DocumentsInv, NEW row \in RecordRows, SaveRecord(row),
         NEW w \in Works, NEW i \in PartCosts(w)
  PROVE  Shares(Billed(i))' <= entries[i].amount
<1>1. PICK new, current : new = Len(records) + 1 /\ current = Counting \ {row.old}
  OBVIOUS
<1>2. /\ records' = Append(records, row) /\ RecordsTypeOK /\ RecordsTypeOK'
      /\ \A m \in current : records'[m] = records[m]
      /\ records'[new] = row /\ Counting' = current \cup {new}
      /\ current \subseteq DOMAIN records /\ Counting' \subseteq DOMAIN records'
  <2>1. RecordsSound /\ RecordsTypeOK
    BY DEF DocumentsInv, RecordsSound
  <2>. QED
    BY <1>1, <2>1, AfterSave
<1>3. PICK T : T = Billed(i)'
  OBVIOUS
<1>4. T = {m \in current \cup {new} : records'[m].kind = "INVOICE" /\ records'[m].cost = i}
  BY <1>2, <1>3 DEF Billed
<1>5. entries[i].amount \in Int /\ i # 0
  <2>1. entries[i] \in EntryRows /\ i # 0
    BY DEF PartCosts, DocumentsInv, LedgerInv, EntriesSound
  <2>. QED
    BY <2>1, LedgerAssumption DEF EntryRows, Amounts
<1>6. CASE row.kind = "INVOICE" /\ row.cost = i
  <2>1. PICK R : R = {m \in current : records[m].kind # "CREDIT" /\ records[m].cost = row.cost}
    OBVIOUS
  <2>2. Shares(R) + row.share <= entries[i].amount
    BY <1>1, <1>5, <1>6, <2>1 DEF SaveRecord, CostHolds
  <2>3. T \subseteq R \cup {new} /\ R \subseteq DOMAIN records
    BY <1>2, <1>4, <1>6, <2>1
  <2>. QED
    BY <1>1, <1>2, <1>3, <1>5, <2>2, <2>3, SharesFit
<1>7. CASE ~(row.kind = "INVOICE" /\ row.cost = i)
  <2>1. T \subseteq Billed(i) /\ Billed(i) \subseteq DOMAIN records
    BY <1>1, <1>2, <1>4, <1>7 DEF Billed, Counting
  <2>2. Shares(Billed(i)) <= entries[i].amount
    BY DEF DocumentsInv, SharesCovered
  <2>. QED
    BY <1>2, <1>3, <1>5, <2>1, <2>2, SharesFit
<1>. QED
  BY <1>6, <1>7

\* The invoice a credit rests on stays, and covers what is credited of it.
LEMMA SaveKeepsInvoices ==
  ASSUME DocumentsInv, NEW row \in RecordRows, SaveRecord(row),
         NEW w \in Works, NEW n \in Credits(w)', NEW v, v = records'[n].invoice
  PROVE  v \in Counting' /\ Shares(CreditsOf(w, v))' <= records'[v].net
<1>1. PICK new, current : new = Len(records) + 1 /\ current = Counting \ {row.old}
  OBVIOUS
<1>2. /\ records' = Append(records, row) /\ RecordsTypeOK /\ RecordsTypeOK'
      /\ \A m \in current : records'[m] = records[m]
      /\ records'[new] = row /\ Counting' = current \cup {new}
      /\ current \subseteq DOMAIN records /\ Counting' \subseteq DOMAIN records'
      /\ row.old \in {0} \cup DOMAIN records /\ 0 \notin DOMAIN records
  <2>1. RecordsSound /\ RecordsTypeOK
    BY DEF DocumentsInv, RecordsSound
  <2>. QED
    BY <1>1, <2>1, AfterSave
<1>3. /\ n \in current \cup {new} /\ records'[n].kind = "CREDIT"
      /\ records'[n].share > 0 /\ records'[n].order[1] = w
  BY <1>2 DEF Credits
<1>4. v \in current
  <2>1. CASE n = new
    <3>1. /\ v \in Counting /\ records[v].kind = "INVOICE"
          /\ row.old # 0 => records[row.old].kind = "CREDIT"
      <4>1. row.kind = "CREDIT" /\ v = row.invoice
        BY <1>2, <1>3, <2>1
      <4>2. /\ CreditHolds(row, current)
            /\ row.old # 0 => records[row.old].kind = row.kind
        BY <1>1, <4>1 DEF SaveRecord
      <4>3. /\ row.invoice \in DOMAIN records /\ Counts(row.invoice)
            /\ records[row.invoice].kind = "INVOICE"
        BY <4>2 DEF CreditHolds
      <4>. QED
        BY <4>1, <4>2, <4>3 DEF Counting
    <3>2. v # 0 /\ v # row.old
      BY <1>2, <3>1 DEF Counting
    <3>. QED
      BY <1>1, <3>1, <3>2
  <2>2. CASE n \in current
    <3>1. n \in Credits(w) /\ records[n] = records'[n]
      BY <1>1, <1>2, <1>3, <2>2 DEF Credits
    <3>2. v \in Counting
      BY <3>1 DEF DocumentsInv, SharesCovered
    <3>3. CASE v = row.old
      <4>1. v # 0
        BY <1>2, <3>2 DEF Counting
      <4>2. Uncredited(row.old, current)
        BY <1>1, <3>3, <4>1 DEF SaveRecord
      <4>. QED
        BY <1>3, <2>2, <3>1, <3>3, <4>2 DEF Uncredited
    <3>. QED
      BY <1>1, <3>2, <3>3
  <2>. QED
    BY <1>3, <2>1, <2>2
<1>5. PICK T : T = CreditsOf(w, v)'
  OBVIOUS
<1>6. T = {m \in current \cup {new} : /\ records'[m].kind = "CREDIT" /\ records'[m].share > 0
                                      /\ records'[m].order[1] = w /\ records'[m].invoice = v}
  BY <1>2, <1>5 DEF CreditsOf, Credits
<1>7. records'[v] = records[v] /\ records[v].net \in Int
  <2>1. records'[v] = records[v] /\ v \in DOMAIN records
    BY <1>2, <1>4
  <2>2. records[v] \in RecordRows
    <3>1. records \in Seq(RecordRows)
      BY <1>2 DEF RecordsTypeOK
    <3>. QED
      BY <2>1, <3>1
  <2>. QED
    BY <2>1, <2>2, LedgerAssumption DEF RecordRows, Amounts
<1>8. CASE new \in T
  <2>1. PICK R : R = {m \in current : records[m].kind = "CREDIT" /\ records[m].invoice = v}
    OBVIOUS
  <2>2. row.kind = "CREDIT" /\ row.invoice = v
    BY <1>2, <1>6, <1>8
  <2>3. Shares(R) + row.share <= records[v].net
    BY <1>1, <2>1, <2>2 DEF SaveRecord, CreditHolds
  <2>4. T \subseteq R \cup {new} /\ R \subseteq DOMAIN records
    BY <1>2, <1>6, <2>1
  <2>. QED
    BY <1>1, <1>2, <1>4, <1>5, <1>7, <2>3, <2>4, SharesFit
<1>9. CASE new \notin T
  <2>1. n \in Credits(w) /\ records[n] = records'[n]
    <3>1. n # new
      BY <1>3, <1>6, <1>9
    <3>. QED
      BY <1>1, <1>2, <1>3, <3>1 DEF Credits
  <2>2. Shares(CreditsOf(w, v)) <= records[v].net
    BY <2>1 DEF DocumentsInv, SharesCovered
  <2>3. T \subseteq CreditsOf(w, v) /\ CreditsOf(w, v) \subseteq DOMAIN records
    BY <1>1, <1>2, <1>6, <1>9 DEF CreditsOf, Credits, Counting
  <2>. QED
    BY <1>2, <1>4, <1>5, <1>7, <2>2, <2>3, SharesFit
<1>. QED
  BY <1>8, <1>9

\* The credits of a work still fit in one reduction of its cost.
LEMMA SaveKeepsReduction ==
  ASSUME DocumentsInv, NEW row \in RecordRows, SaveRecord(row),
         NEW w \in Works, NEW n \in Credits(w)', NEW b, b = records'[n].basis
  PROVE  \E j \in PartCosts(w) : /\ b \in Ancestry(w, j) \ {j}
                                 /\ Shares(Credits(w))' + entries[j].amount <= entries[b].amount
<1>1. PICK new, current : new = Len(records) + 1 /\ current = Counting \ {row.old}
  OBVIOUS
<1>2. /\ records' = Append(records, row) /\ RecordsTypeOK /\ RecordsTypeOK'
      /\ \A m \in current : records'[m] = records[m]
      /\ records'[new] = row /\ Counting' = current \cup {new}
      /\ current \subseteq DOMAIN records /\ Counting' \subseteq DOMAIN records'
  <2>1. RecordsSound /\ RecordsTypeOK
    BY DEF DocumentsInv, RecordsSound
  <2>. QED
    BY <1>1, <2>1, AfterSave
<1>3. /\ n \in current \cup {new} /\ records'[n].kind = "CREDIT"
      /\ records'[n].share > 0 /\ records'[n].order[1] = w
  BY <1>2 DEF Credits
<1>4. PICK T : T = Credits(w)'
  OBVIOUS
<1>5. T = {m \in current \cup {new} : /\ records'[m].kind = "CREDIT" /\ records'[m].share > 0
                                      /\ records'[m].order[1] = w}
  BY <1>2, <1>4 DEF Credits
<1>6. \A i \in PartCosts(w) : entries[i].amount \in Int
  <2>1. \A i \in PartCosts(w) : entries[i] \in EntryRows
    BY DEF PartCosts, DocumentsInv, LedgerInv, EntriesSound
  <2>. QED
    BY <2>1, LedgerAssumption DEF EntryRows, Amounts
<1>7. \A j \in PartCosts(w) : \A i \in Ancestry(w, j) : i \in PartCosts(w)
  BY DEF Ancestry
<1>9. CASE new \in T
  <2>1. row.kind = "CREDIT" /\ row.share > 0 /\ row.order[1] = w
    BY <1>2, <1>5, <1>9
  <2>2. PICK j : j = row.cost
    OBVIOUS
  <2>3. /\ j \in PartCosts(w) /\ row.basis \in Ancestry(w, j) \ {j}
        /\ ReductionHolds(row, current)
    <3>1. row.share \in Nat /\ row.share # 0
      BY <2>1, LedgerAssumption DEF RecordRows, Amounts
    <3>2. CostHolds(row, current) /\ row.cost # 0
      BY <1>1, <2>1 DEF SaveRecord
    <3>3. CreditHolds(row, current)
      BY <1>1, <2>1 DEF SaveRecord
    <3>4. row.cost \in PartCosts(row.order[1])
      BY <3>2 DEF CostHolds
    <3>5. /\ row.basis \in Ancestry(row.order[1], row.cost) \ {row.cost}
          /\ ReductionHolds(row, current)
      BY <3>1, <3>3 DEF CreditHolds
    <3>. QED
      BY <2>1, <2>2, <3>4, <3>5
  <2>4. PICK R : R = {m \in current : records[m].kind = "CREDIT" /\ records[m].basis = row.basis}
    OBVIOUS
  <2>5. \A m \in current : records[m].kind = "CREDIT" /\ records[m].share > 0
                           /\ records[m].order[1] = w => m \in R
    <3>1. \A m \in current : records[m].share > 0 => records[m].cost \in PartCosts(records[m].order[1])
      BY <1>2 DEF DocumentsInv, RecordsSound
    <3>. QED
      BY <2>1, <2>3, <2>4, <3>1 DEF ReductionHolds
  <2>6. Shares(R) + row.share + entries[j].amount <= entries[row.basis].amount
    <3>1. {m \in {l \in current : records[l].kind = "CREDIT"} : records[m].basis = row.basis} = R
      BY <2>4
    <3>. QED
      BY <2>2, <2>3, <3>1 DEF ReductionHolds
  <2>7. T \subseteq R \cup {new} /\ R \subseteq DOMAIN records /\ b = row.basis
    BY <1>2, <1>3, <1>5, <2>4, <2>5
  <2>8. entries[j].amount \in Int /\ entries[b].amount \in Int
    BY <1>6, <1>7, <2>3, <2>7
  <2>9. PICK bound, rest : bound = entries[b].amount /\ rest = entries[j].amount
    OBVIOUS
  <2>10. Shares(R) + row.share + rest <= bound /\ bound \in Int /\ rest \in Int
    BY <2>6, <2>7, <2>8, <2>9
  <2>11. T \subseteq R \cup {Len(records) + 1}
    BY <1>1, <2>7
  <2>12. Shares(T)' + rest <= bound
    BY <1>2, <2>7, <2>10, <2>11, SharesFitUnder
  <2>. QED
    BY <1>4, <2>3, <2>7, <2>9, <2>12
<1>10. CASE new \notin T
  <2>1. n \in Credits(w) /\ records[n] = records'[n]
    <3>1. n # new
      BY <1>3, <1>5, <1>10
    <3>. QED
      BY <1>1, <1>2, <1>3, <3>1 DEF Credits
  <2>2. PICK j \in PartCosts(w) :
          /\ b \in Ancestry(w, j) \ {j}
          /\ Shares(Credits(w)) + entries[j].amount <= entries[b].amount
    BY <2>1 DEF DocumentsInv, SharesCovered
  <2>3. T \subseteq Credits(w) /\ Credits(w) \subseteq DOMAIN records
    BY <1>1, <1>2, <1>5, <1>10 DEF Credits, Counting
  <2>4. entries[j].amount \in Int /\ entries[b].amount \in Int
    BY <1>6, <1>7, <2>2
  <2>5. PICK bound, rest : bound = entries[b].amount /\ rest = entries[j].amount
    OBVIOUS
  <2>6. Shares(Credits(w)) + rest <= bound /\ bound \in Int /\ rest \in Int
    BY <2>2, <2>4, <2>5
  <2>7. Shares(T)' + rest <= bound
    BY <1>2, <2>3, <2>6, SharesFitUnder
  <2>. QED
    BY <1>4, <2>2, <2>5, <2>7
<1>. QED
  BY <1>9, <1>10

LEMMA SaveKeepsDocuments ==
  ASSUME DocumentsInv, NEW row \in RecordRows, SaveRecord(row), UNCHANGED ordersVars
  PROVE  DocumentsInv'
<1>1. /\ entries' = entries /\ \A w : PartCosts(w)' = PartCosts(w)
      /\ \A w, i : Ancestry(w, i)' = Ancestry(w, i)
  BY SaveLeavesLedger
<1>2. LedgerInv' /\ EventsTypeOK'
  <2>1. UNCHANGED vars
    BY DEF SaveRecord, vars
  <2>. QED
    BY <2>1, NextLedger, NextEvents DEF DocumentsInv
<1>3. RecordsSound'
  BY SaveSound DEF DocumentsInv
<1>4. \A n \in Counting' : Shares(OfOriginal(records[n].original))' <= records'[n].net
  BY SaveKeepsOriginals
<1>5. \A w \in Works : \A i \in PartCosts(w)' : Shares(Billed(i))' <= entries'[i].amount
  BY <1>1, SaveKeepsBilled
<1>6. ASSUME NEW w \in Works, NEW n \in Credits(w)'
      PROVE  (/\ records[n].invoice \in Counting
              /\ Shares(CreditsOf(w, records[n].invoice)) <= records[records[n].invoice].net
              /\ \E j \in PartCosts(w) :
                   /\ records[n].basis \in Ancestry(w, j) \ {j}
                   /\ Shares(Credits(w)) + entries[j].amount
                        <= entries[records[n].basis].amount)'
  <2>1. PICK v, b : v = records'[n].invoice /\ b = records'[n].basis
    OBVIOUS
  <2>2. v \in Counting' /\ Shares(CreditsOf(w, v))' <= records'[v].net
    BY <1>6, <2>1, SaveKeepsInvoices
  <2>3. PICK j \in PartCosts(w) :
          /\ b \in Ancestry(w, j) \ {j}
          /\ Shares(Credits(w))' + entries[j].amount <= entries[b].amount
    BY <1>6, <2>1, SaveKeepsReduction
  <2>4. CreditsOf(w, v)' = CreditsOf(w, records[n].invoice)'
    BY <2>1 DEF CreditsOf
  <2>5. Shares(CreditsOf(w, v))' = Shares(CreditsOf(w, records[n].invoice))'
    BY <2>4 DEF Shares
  <2>. QED
    BY <1>1, <2>1, <2>2, <2>3, <2>5
<1>. QED
  BY <1>2, <1>3, <1>4, <1>5, <1>6 DEF DocumentsInv, SharesCovered

LEMMA NextDocuments ==
  DocumentsInv /\ [\/ Next /\ UNCHANGED records
                   \/ RecordsNext /\ UNCHANGED ordersVars]_<<vars, records>> => DocumentsInv'
<1>1. ASSUME DocumentsInv, [Next]_vars, UNCHANGED records PROVE DocumentsInv'
  <2>1. LedgerInv /\ EventsTypeOK
    BY <1>1 DEF DocumentsInv
  <2>2. LedgerInv' /\ EventsTypeOK' /\ EntriesGrow
    BY <1>1, <2>1, NextLedger, NextEvents, NextGrows
  <2>. QED
    BY <1>1, <2>2, LedgerKeepsShares
<1>2. ASSUME DocumentsInv, RecordsNext, UNCHANGED ordersVars PROVE DocumentsInv'
  <2>1. PICK order \in Purchases, original \in Originals, kind \in RecordKinds,
             old \in {0} \cup DOMAIN records, net \in Amounts, share \in Amounts :
          \E cost \in (IF share > 0 THEN PartCosts(order[1]) ELSE {0}),
             basis \in (IF kind = "CREDIT" /\ share > 0 THEN PartCosts(order[1]) ELSE {0}),
             invoice \in (IF kind = "CREDIT" THEN DOMAIN records ELSE {0}) :
            SaveRecord([order |-> order, original |-> original, kind |-> kind, net |-> net,
                        share |-> share, cost |-> cost, basis |-> basis,
                        invoice |-> invoice, old |-> old])
    BY <1>2 DEF RecordsNext
  <2>2. /\ PartCosts(order[1]) \subseteq Nat /\ DOMAIN records \subseteq Nat
    BY <1>2 DEF PartCosts, DocumentsInv, LedgerInv, EntriesSound, RecordsSound, RecordsTypeOK
  <2>3. PICK cost \in Nat, basis \in Nat, invoice \in Nat :
          SaveRecord([order |-> order, original |-> original, kind |-> kind, net |-> net,
                      share |-> share, cost |-> cost, basis |-> basis,
                      invoice |-> invoice, old |-> old])
    BY <2>1, <2>2
  <2>4. PICK row : row = [order |-> order, original |-> original, kind |-> kind, net |-> net,
                          share |-> share, cost |-> cost, basis |-> basis,
                          invoice |-> invoice, old |-> old]
    OBVIOUS
  <2>5. row \in RecordRows
    BY <2>2, <2>4 DEF RecordRows
  <2>. QED
    BY <1>2, <2>3, <2>4, <2>5, SaveKeepsDocuments
<1>. QED
  BY <1>1, <1>2

LEMMA InitDocuments == Init /\ RecordsInit => DocumentsInv
<1> SUFFICES ASSUME Init, RecordsInit PROVE DocumentsInv
  OBVIOUS
<1>1. LedgerInv /\ EventsTypeOK
  BY InitLedger
<1>2. records = <<>> /\ DOMAIN records = {} /\ entries = <<>> /\ DOMAIN entries = {}
  BY DEF RecordsInit, Init, LedgerInit
<1>3. RecordsSound
  BY <1>2 DEF RecordsSound, RecordsTypeOK
<1>4. Counting = {} /\ \A w : PartCosts(w) = {} /\ Credits(w) = {}
  BY <1>2 DEF Counting, PartCosts, Credits
<1>. QED
  BY <1>1, <1>3, <1>4 DEF DocumentsInv, SharesCovered

\* In whatever order records and costs are corrected, and whatever else is
\* done to the ledger meanwhile: an original is not in the costs for more than
\* its net, nor the invoices of a cost for more than the cost; and the credits
\* of a work rest on invoices in force and fit in one reduction of its cost.
THEOREM SharesAreCovered == DocumentsSpec => []SharesCovered
<1>1. DocumentsInv => SharesCovered
  BY DEF DocumentsInv
<1>. QED
  BY <1>1, InitDocuments, NextDocuments, PTL DEF DocumentsSpec
=============================================================================
