-------------------------- MODULE NegotiationProofs --------------------------
(***************************************************************************)
(* For any number of pages, products, proposals and links: what a page     *)
(* shows can be compared with the rows by revision and version alone; the  *)
(* case row and the links tell one story and implement module Agreement;   *)
(* and a submission counts once.                                           *)
(***************************************************************************)
EXTENDS Negotiation, FiniteSetTheorems, TLAPS

-----------------------------------------------------------------------------
(* The seller's pages.                                                     *)

\* A page with the case's financeRevision shows the case as it is.
PagesCurrent ==
  \A r \in Requests : request[r] # None =>
    /\ request[r].seen.revision <= project.financeRevision
    /\ request[r].seen.revision = project.financeRevision =>
         /\ request[r].seen.items = items
         /\ request[r].seen.client = project.client

\* A row with the version an earlier copy has is that copy.
SameRow(copy, row) ==
  copy # None =>
    /\ row # None
    /\ copy.version <= row.version
    /\ copy.version = row.version => copy = row

\* What pages, and handlers before their transaction, have read.
CopiesOf(r) ==
    /\ \A i \in Items : SameRow(request[r].seen.items[i], items[i])
    /\ request[r].form.item # None =>
         /\ request[r].seen.items[request[r].form.item] # None
         /\ SameRow(request[r].old, items[request[r].form.item])
    /\ request[r].received /\ request[r].form.op = "pictures" =>
         /\ request[r].old # None
         /\ SameRow(request[r].seen.items[request[r].form.item], request[r].old)

CopiesCurrent == \A r \in Requests : request[r] # None => CopiesOf(r)

EditingInv == TypeOK /\ PagesCurrent /\ CopiesCurrent /\ PicturesMatch

-----------------------------------------------------------------------------

\* What a form carries is of the kind its operation needs.
LEMMA FormFields ==
  ASSUME NEW f \in Forms
  PROVE  /\ f.op \in AllOperations
         /\ f.item \in Items \cup {None}
         /\ f.item # None <=> f.op \in {"update", "archive", "pictures"}
         /\ f.op \in {"add", "update"} => f.config \in Configs
         /\ f.op = "pictures" => f.kinds \subseteq Kinds
         /\ f.flag \in BOOLEAN
         /\ f.op = "customer" => f.client \in Clients
  BY ProductsAssumption DEF Forms, AllOperations

\* A row that is not null is a row.
LEMMA Rows ==
  ASSUME TypeOK
  PROVE  /\ \A i \in Items : items[i] # None => items[i] \in ItemRows
         /\ \A r \in Requests : request[r] # None => request[r] \in Submissions
         /\ \A p \in Proposals : proposals[p] # None => proposals[p] \in ProposalRows
         /\ \A l \in Invitations : Sent(l) => invitation[l] \in InvitationRows
  BY DEF TypeOK, ProductsTypeOK, Sent

\* What a proposal lists is made of product rows.
LEMMA ListedType ==
  ASSUME ProductsTypeOK
  PROVE  Listed(items) \in [Items -> ItemRows \cup {None}]
  BY DEF Listed, Active, ProductsTypeOK

-----------------------------------------------------------------------------
(* The initial states.                                                     *)

\* Initially the case has no products and nobody has a page of it.
THEOREM EditingInit == Init => EditingInv
<1> SUFFICES ASSUME Init PROVE EditingInv
  OBVIOUS
<1>1. TypeOK
  <2>1. project \in Projects
    BY DEF Init, ProductsInit, Projects
  <2> QED
    BY <2>1 DEF Init, ProductsInit, TypeOK, ProductsTypeOK
<1>2. PagesCurrent /\ CopiesCurrent /\ PicturesMatch
  BY DEF Init, ProductsInit, PagesCurrent, CopiesCurrent, PicturesMatch
<1> QED
  BY <1>1, <1>2 DEF EditingInv

-----------------------------------------------------------------------------
(* The steps.                                                              *)

\* A commit that writes one row: its version moves, and so does the revision.
LEMMA RowWritten ==
  ASSUME EditingInv,
         NEW i \in Items, NEW row \in ItemRows,
         items[i] # None => row.version = items[i].version + 1,
         items' = [items EXCEPT ![i] = row],
         project'.financeRevision = project.financeRevision + 1,
         request' = request
  PROVE  PagesCurrent' /\ CopiesCurrent'
<1> USE DEF EditingInv
<1>1. project.financeRevision \in Nat
  BY DEF TypeOK, ProductsTypeOK, Projects
<1>2. \A r \in Requests : request[r] # None =>
         request[r] \in Submissions /\ request[r].seen \in Pages
  BY Rows DEF Submissions
<1>3. PagesCurrent'
  BY <1>1, <1>2 DEF PagesCurrent, Pages
<1>4. i \in DOMAIN items /\ \A j \in Items : items'[j] = IF j = i THEN row ELSE items[j]
  BY DEF TypeOK, ProductsTypeOK
<1>5. row # None /\ row.version \in Nat
  BY ProductsAssumption DEF ItemRows
<1>6. \A copy \in ItemRows \cup {None}, j \in Items :
         SameRow(copy, items[j]) => SameRow(copy, items'[j])
  <2> SUFFICES ASSUME NEW copy \in ItemRows, NEW j \in Items,
                      SameRow(copy, items[j]), copy # None
               PROVE  SameRow(copy, items'[j])
    BY DEF SameRow
  <2>1. CASE j = i
    <3>1. items[i] # None /\ copy.version <= items[i].version
      BY <2>1 DEF SameRow
    <3>2. copy.version \in Nat /\ items[i].version \in Nat
      BY <3>1, Rows DEF ItemRows
    <3>3. copy.version < row.version
      BY <3>1, <3>2
    <3> QED
      BY <2>1, <1>4, <1>5, <3>2, <3>3 DEF SameRow
  <2>2. CASE j # i
    BY <2>2, <1>4
  <2> QED
    BY <2>1, <2>2
<1>7. CopiesCurrent'
  <2> SUFFICES ASSUME NEW r \in Requests, request[r] # None
               PROVE  CopiesOf(r)'
    BY DEF CopiesCurrent
  <2>1. CopiesOf(r)
    BY DEF CopiesCurrent
  <2>2. /\ request[r].form.item \in Items \cup {None}
        /\ request[r].old \in ItemRows \cup {None}
        /\ \A j \in Items : request[r].seen.items[j] \in ItemRows \cup {None}
    BY <1>2, FormFields DEF Submissions, Pages
  <2>3. \A j \in Items : SameRow(request[r].seen.items[j], items'[j])
    BY <2>1, <2>2, <1>6 DEF CopiesOf
  <2>4. request[r].form.item # None =>
          SameRow(request[r].old, items'[request[r].form.item])
    BY <2>1, <2>2, <1>6 DEF CopiesOf
  <2> QED
    BY <2>1, <2>3, <2>4 DEF CopiesOf
<1> QED
  BY <1>3, <1>7

\* A commit that writes no product row.
LEMMA RowsKept ==
  ASSUME EditingInv,
         items' = items, request' = request,
         \/ project'.financeRevision = project.financeRevision + 1
         \/ /\ project'.financeRevision = project.financeRevision
            /\ project'.client = project.client
  PROVE  PagesCurrent' /\ CopiesCurrent' /\ PicturesMatch'
<1> USE DEF EditingInv
<1>1. project.financeRevision \in Nat
  BY DEF TypeOK, ProductsTypeOK, Projects
<1>2. \A r \in Requests : request[r] # None => request[r].seen.revision \in Nat
  BY Rows DEF Submissions, Pages
<1>3. PagesCurrent'
  BY <1>1, <1>2 DEF PagesCurrent
<1>4. CopiesCurrent' /\ PicturesMatch'
  BY DEF CopiesCurrent, CopiesOf, SameRow, PicturesMatch
<1> QED
  BY <1>3, <1>4

\* A page is loaded: it shows the rows as they are.
LEMMA LoadStep ==
  ASSUME EditingInv, NEW r \in Requests, NEW f \in Forms, Load(r, f),
         UNCHANGED linkVars
  PROVE  EditingInv'
<1> USE DEF EditingInv
<1> DEFINE new == [form |-> f, seen |-> Page, received |-> FALSE, old |-> None]
<1>1. Page \in Pages
  BY DEF Page, Pages, TypeOK, ProductsTypeOK, Projects
<1>2. new \in Submissions
  BY <1>1 DEF Submissions
<1>3. /\ request' = [request EXCEPT ![r] = new]
      /\ UNCHANGED <<project, items, proposals, activities>>
  BY DEF Load
<1>4. \A q \in Requests : request'[q] = IF q = r THEN new ELSE request[q]
  BY <1>3 DEF TypeOK, ProductsTypeOK
<1>5. TypeOK'
  BY <1>2, <1>3 DEF TypeOK, ProductsTypeOK, linkVars
<1>6. PagesCurrent'
  BY <1>3, <1>4 DEF PagesCurrent, Page, TypeOK, ProductsTypeOK, Projects
<1>7. CopiesCurrent'
  <2> SUFFICES ASSUME NEW q \in Requests, request'[q] # None
               PROVE  CopiesOf(q)'
    BY DEF CopiesCurrent
  <2>1. CASE q = r
    <3>1. \A i \in Items : SameRow(items[i], items[i])
      BY Rows DEF SameRow, ItemRows
    <3>2. f.item # None => f.item \in Items /\ items[f.item] # None
      BY FormFields DEF Load
    <3>3. request'[q] = new /\ new.form = f /\ new.old = None
          /\ new.received = FALSE /\ new.seen.items = items
      BY <2>1, <1>4 DEF Page
    <3>4. SameRow(None, items[f.item])
      BY DEF SameRow
    <3> QED
      BY <1>3, <3>1, <3>2, <3>3, <3>4 DEF CopiesOf
  <2>2. CASE q # r
    BY <2>2, <1>3, <1>4 DEF CopiesCurrent, CopiesOf
  <2> QED
    BY <2>1, <2>2
<1>8. PicturesMatch'
  BY <1>3 DEF PicturesMatch
<1> QED
  BY <1>5, <1>6, <1>7, <1>8

\* A handler reads before its transaction: what it keeps is the current row.
LEMMA ReceiveStep ==
  ASSUME EditingInv, NEW r \in Requests, Receive(r), UNCHANGED linkVars
  PROVE  EditingInv'
<1> USE DEF EditingInv
<1> DEFINE f == request[r].form
           read == IF f.op = "pictures" THEN items[f.item] ELSE None
           new == [request[r] EXCEPT !.received = TRUE, !.old = read]
<1>1. request[r] # None /\ request[r] \in Submissions /\ f \in Forms
  BY Rows DEF Receive, Submissions
<1>2. f.item \in Items \cup {None} /\ (f.op = "pictures" => f.item # None)
  BY <1>1, FormFields
<1>3. read \in ItemRows \cup {None}
  BY <1>2 DEF TypeOK, ProductsTypeOK
<1>4. new \in Submissions
  BY <1>1, <1>3 DEF Submissions
<1>5. /\ request' = [request EXCEPT ![r] = new]
      /\ UNCHANGED <<project, items, proposals, activities>>
  BY DEF Receive, TypeOK, ProductsTypeOK
<1>6. \A q \in Requests : request'[q] = IF q = r THEN new ELSE request[q]
  BY <1>5 DEF TypeOK, ProductsTypeOK
<1>7. /\ new.form = f /\ new.seen = request[r].seen /\ new.old = read
  BY <1>1, <1>4 DEF Submissions
<1>8. TypeOK'
  BY <1>4, <1>5 DEF TypeOK, ProductsTypeOK, linkVars
<1>9. PagesCurrent'
  BY <1>1, <1>5, <1>6, <1>7 DEF PagesCurrent
<1>10. CopiesCurrent'
  <2> SUFFICES ASSUME NEW q \in Requests, request'[q] # None
               PROVE  CopiesOf(q)'
    BY DEF CopiesCurrent
  <2>1. CASE q = r
    <3>1. CopiesOf(r)
      BY <1>1 DEF CopiesCurrent
    <3>2. f.item # None =>
            /\ f.item \in Items
            /\ SameRow(request[r].seen.items[f.item], items[f.item])
            /\ request[r].seen.items[f.item] # None
            /\ items[f.item] # None
      BY <1>2, <3>1 DEF CopiesOf, SameRow
    <3>3. f.item # None => SameRow(items[f.item], items[f.item])
      <4>1. f.item # None => items[f.item] \in ItemRows
        BY <3>2, Rows
      <4>2. f.item # None => items[f.item].version \in Nat
        BY <4>1 DEF ItemRows
      <4> QED
        BY <3>2, <4>2 DEF SameRow
    <3>4. SameRow(None, items[f.item])
      BY DEF SameRow
    <3>5. f.item # None => SameRow(read, items[f.item])
      BY <3>3, <3>4
    <3>6. f.op = "pictures" => read # None
                    /\ SameRow(request[r].seen.items[f.item], read)
      BY <3>2, <1>2
    <3>7. request'[q] = new
      BY <2>1, <1>6
    <3> HIDE DEF new, f, read
    <3> QED
      BY <1>5, <1>7, <3>1, <3>2, <3>5, <3>6, <3>7 DEF CopiesOf, f
  <2>2. CASE q # r
    BY <2>2, <1>5, <1>6 DEF CopiesCurrent, CopiesOf
  <2> QED
    BY <2>1, <2>2
<1>11. PicturesMatch'
  BY <1>5 DEF PicturesMatch
<1> QED
  BY <1>8, <1>9, <1>10, <1>11

\* Moving financeRevision leaves every other column of the case alone.
LEMMA BumpedType ==
  ASSUME TypeOK
  PROVE  /\ Bumped(project) \in Projects
         /\ BumpedOpen(project) \in Projects
         /\ \A p \in {Bumped(project), BumpedOpen(project)} :
              p.financeRevision = project.financeRevision + 1
         /\ Bumped(project).costsComplete = project.costsComplete
         /\ BumpedOpen(project).costsComplete = FALSE
<1>1. project \in Projects /\ project.financeRevision + 1 \in Nat
  BY DEF TypeOK, ProductsTypeOK, Projects
<1>2. Bumped(project) \in Projects
  BY <1>1 DEF Bumped, Projects
<1>3. BumpedOpen(project) \in Projects
  BY <1>1 DEF BumpedOpen, Projects
<1>4. /\ Bumped(project).financeRevision = project.financeRevision + 1
      /\ BumpedOpen(project).financeRevision = project.financeRevision + 1
      /\ Bumped(project).costsComplete = project.costsComplete
      /\ BumpedOpen(project).costsComplete = FALSE
  BY <1>1 DEF Bumped, BumpedOpen, Projects
<1> QED
  BY <1>2, <1>3, <1>4

\* Writing one row well typed and with pictures of its own configuration.
LEMMA RowStep ==
  ASSUME EditingInv,
         NEW i \in Items, NEW row \in ItemRows,
         items[i] # None => row.version = items[i].version + 1,
         \A k \in Kinds : row.pictures[k] \in {None, row.config},
         items' = [items EXCEPT ![i] = row],
         project' \in {Bumped(project), BumpedOpen(project)},
         UNCHANGED <<proposals, activities, request>>,
         UNCHANGED linkVars
  PROVE  EditingInv'
<1> USE DEF EditingInv
<1>1. TypeOK'
  BY BumpedType DEF TypeOK, ProductsTypeOK, linkVars
<1>2. PagesCurrent' /\ CopiesCurrent'
  BY RowWritten, BumpedType
<1>3. \A j \in Items : items'[j] = IF j = i THEN row ELSE items[j]
  BY DEF TypeOK, ProductsTypeOK
<1>4. PicturesMatch'
  BY <1>3 DEF PicturesMatch
<1> QED
  BY <1>1, <1>2, <1>4

\* A product without pictures has a well-formed picture column.
LEMMA NoPicturesType ==
  /\ NoPictures \in [Kinds -> Configs \cup {None}]
  /\ \A k \in Kinds : NoPictures[k] = None
  BY DEF NoPictures

\* A product is added: it has no pictures yet.
LEMMA AddItemStep ==
  ASSUME EditingInv, NEW r \in Requests, NEW i \in Items, AddItem(r, i),
         UNCHANGED linkVars
  PROVE  EditingInv'
<1> DEFINE row == [requestKey |-> r, config |-> request[r].form.config,
                   version |-> 1, pictures |-> NoPictures, archived |-> FALSE,
                   lastKey |-> None]
<1>1. request[r].form \in Forms /\ request[r].form.op = "add"
  BY Rows DEF EditingInv, AddItem, Submitted, Submissions
<1>2. row \in ItemRows
  BY <1>1, FormFields, NoPicturesType DEF ItemRows
<1>3. \A k \in Kinds : row.pictures[k] \in {None, row.config}
  BY NoPicturesType
<1>4. /\ items[i] = None
      /\ items' = [items EXCEPT ![i] = row]
      /\ project' = BumpedOpen(project)
      /\ UNCHANGED <<proposals, activities, request>>
  BY DEF AddItem
<1> QED
  BY <1>2, <1>3, <1>4, RowStep

\* The item an edit is about, and the row the page showed.
LEMMA EditedRow ==
  ASSUME EditingInv, NEW r \in Requests, NEW op \in {"update", "archive", "pictures"},
         Submitted(r, op)
  PROVE  LET i == request[r].form.item IN
         /\ i \in Items
         /\ request[r].form \in Forms
         /\ items[i] \in ItemRows
         /\ request[r].seen.items[i] # None
         /\ SameRow(request[r].seen.items[i], items[i])
<1> DEFINE i == request[r].form.item
<1>1. request[r] # None /\ request[r].form \in Forms /\ request[r].form.op = op
  BY Rows DEF EditingInv, Submitted, Submissions
<1>2. i \in Items /\ i # None
  BY <1>1, FormFields, ProductsAssumption
<1>3. CopiesOf(r)
  BY <1>1 DEF EditingInv, CopiesCurrent
<1>4. request[r].seen.items[i] # None /\ SameRow(request[r].seen.items[i], items[i])
  BY <1>2, <1>3 DEF CopiesOf
<1>5. items[i] \in ItemRows
  BY <1>2, <1>4, Rows DEF SameRow, EditingInv
<1> QED
  BY <1>1, <1>2, <1>4, <1>5

\* A product configured anew is a well-formed row without pictures.
LEMMA ReconfiguredType ==
  ASSUME NEW row \in ItemRows, NEW c \in Configs, NEW r \in Requests
  PROVE  /\ Reconfigured(row, c, r) \in ItemRows
         /\ Reconfigured(row, c, r).version = row.version + 1
         /\ Reconfigured(row, c, r).pictures = NoPictures
<1>1. /\ row.version + 1 \in Nat
      /\ NoPictures \in [Kinds -> Configs \cup {None}]
  BY NoPicturesType DEF ItemRows
<1> QED
  BY <1>1 DEF ItemRows, Reconfigured

\* Archiving changes neither configuration nor pictures.
LEMMA ArchiveSetType ==
  ASSUME NEW row \in ItemRows, NEW flag \in BOOLEAN
  PROVE  /\ ArchiveSet(row, flag) \in ItemRows
         /\ ArchiveSet(row, flag).version = row.version + 1
         /\ ArchiveSet(row, flag).pictures = row.pictures
         /\ ArchiveSet(row, flag).config = row.config
<1>1. row.version + 1 \in Nat
  BY DEF ItemRows
<1> QED
  BY <1>1 DEF ItemRows, ArchiveSet

\* A picture merged into the row read before fits the row, the version being
\* unchanged.
LEMMA PicturedType ==
  ASSUME NEW row \in ItemRows, NEW ks \in SUBSET Kinds,
         NEW r \in Requests
  PROVE  LET new == Pictured(row, row, ks, row, r) IN
         /\ new \in ItemRows
         /\ new.version = row.version + 1
         /\ new.config = row.config
         /\ new.archived = row.archived
         /\ \A k \in Kinds : new.pictures[k] \in {row.config, row.pictures[k]}
<1>1. /\ row.version + 1 \in Nat
      /\ [k \in Kinds |-> IF k \in ks THEN row.config ELSE row.pictures[k]]
           \in [Kinds -> Configs \cup {None}]
  BY DEF ItemRows
<1> QED
  BY <1>1 DEF ItemRows, Pictured

\* A product is configured anew.
LEMMA UpdateItemStep ==
  ASSUME EditingInv, NEW r \in Requests, UpdateItem(r), UNCHANGED linkVars
  PROVE  EditingInv'
<1> DEFINE i == request[r].form.item
           row == Reconfigured(items[i], request[r].form.config, r)
<1>1. /\ Submitted(r, "update")
      /\ items' = [items EXCEPT ![i] = row]
      /\ project' = BumpedOpen(project)
      /\ UNCHANGED <<proposals, activities, request>>
  BY DEF UpdateItem
<1>2. i \in Items /\ items[i] \in ItemRows /\ request[r].form \in Forms
  BY <1>1, EditedRow
<1>3. request[r].form.config \in Configs
  BY <1>1, <1>2, FormFields DEF Submitted
<1>4. row \in ItemRows /\ row.version = items[i].version + 1
      /\ row.pictures = NoPictures
  BY <1>2, <1>3, ReconfiguredType
<1>5. \A k \in Kinds : row.pictures[k] \in {None, row.config}
  BY <1>4, NoPicturesType
<1> HIDE DEF i, row
<1> QED
  BY <1>1, <1>2, <1>4, <1>5, RowStep

\* A product is archived or restored.
LEMMA ArchiveItemStep ==
  ASSUME EditingInv, NEW r \in Requests, ArchiveItem(r), UNCHANGED linkVars
  PROVE  EditingInv'
<1> DEFINE i == request[r].form.item
           row == ArchiveSet(items[i], request[r].form.flag)
<1>1. /\ Submitted(r, "archive")
      /\ items' = [items EXCEPT ![i] = row]
      /\ project' = BumpedOpen(project)
      /\ UNCHANGED <<proposals, activities, request>>
  BY DEF ArchiveItem
<1>2. i \in Items /\ items[i] \in ItemRows /\ request[r].form \in Forms
  BY <1>1, EditedRow
<1>3. request[r].form.flag \in BOOLEAN
  BY <1>2, FormFields
<1>4. row \in ItemRows /\ row.version = items[i].version + 1
      /\ row.pictures = items[i].pictures /\ row.config = items[i].config
  BY <1>2, <1>3, ArchiveSetType
<1>5. \A k \in Kinds : row.pictures[k] \in {None, row.config}
  BY <1>2, <1>4, ProductsAssumption DEF EditingInv, PicturesMatch
<1> HIDE DEF i, row
<1> QED
  BY <1>1, <1>2, <1>4, <1>5, RowStep

\* The row read before the transaction is the row the transaction finds: its
\* version lies between the page's and the row's, which the commit finds equal.
LEMMA PicturedRow ==
  ASSUME EditingInv, NEW r \in Requests, SavePictures(r)
  PROVE  LET i == request[r].form.item
             row == Pictured(items[i], request[r].old, request[r].form.kinds,
                             request[r].seen.items[i], r)
         IN  /\ row \in ItemRows /\ row.version = items[i].version + 1
             /\ \A k \in Kinds : row.pictures[k] \in {None, row.config}
<1> DEFINE i == request[r].form.item
           ks == request[r].form.kinds
           seen == request[r].seen.items[i]
           old == request[r].old
           row == Pictured(items[i], old, ks, seen, r)
<1>1. Submitted(r, "pictures")
  BY DEF SavePictures
<1>2. /\ i \in Items /\ items[i] \in ItemRows /\ request[r].form \in Forms
      /\ seen # None /\ SameRow(seen, items[i])
  BY <1>1, EditedRow
<1>3. /\ CopiesOf(r) /\ request[r] \in Submissions
      /\ request[r].received /\ request[r].form.op = "pictures"
  BY <1>1, Rows DEF Submitted, EditingInv, CopiesCurrent
<1>4. ks \subseteq Kinds
  BY <1>2, <1>3, FormFields
<1>5. /\ i # None /\ old # None /\ SameRow(old, items[i]) /\ SameRow(seen, old)
  BY <1>2, <1>3, ProductsAssumption DEF CopiesOf
<1>6. old \in ItemRows /\ seen \in ItemRows
  BY <1>2, <1>3, <1>5 DEF Submissions, Pages
<1>7. items[i].version = seen.version
  BY DEF SavePictures, SeenVersion
<1>8. seen = items[i] /\ old = items[i]
  <2>1. /\ seen.version \in Nat /\ old.version \in Nat
        /\ items[i].version \in Nat
    BY <1>2, <1>6 DEF ItemRows
  <2> HIDE DEF row, i, ks, seen, old
  <2>2. /\ seen.version <= old.version
        /\ old.version <= items[i].version
        /\ old.version = items[i].version => old = items[i]
        /\ seen.version = items[i].version => seen = items[i]
    BY <1>2, <1>5 DEF SameRow
  <2>3. old.version = items[i].version
    BY <2>1, <2>2, <1>7
  <2> QED
    BY <2>2, <2>3, <1>7
<1>10. /\ row \in ItemRows /\ row.version = items[i].version + 1
       /\ row.config = items[i].config
       /\ \A k \in Kinds :
            row.pictures[k] \in {items[i].config, items[i].pictures[k]}
  <2>1. row = Pictured(items[i], items[i], ks, items[i], r)
    BY <1>8
  <2> HIDE DEF row, i, ks, seen, old
  <2> QED
    BY <2>1, <1>2, <1>4, PicturedType
<1>11. \A k \in Kinds : items[i].pictures[k] \in {None, items[i].config}
  BY <1>2, ProductsAssumption DEF EditingInv, PicturesMatch
<1>12. items[i].pictures \in [Kinds -> Configs \cup {None}]
  BY <1>2 DEF ItemRows
<1>13. \A k \in Kinds : row.pictures[k] \in {None, row.config}
  BY <1>10, <1>11, <1>12
<1> HIDE DEF row, ks, seen, old
<1> QED
  BY <1>10, <1>13 DEF row, ks, seen, old

\* Pictures are merged into the row.
LEMMA SavePicturesStep ==
  ASSUME EditingInv, NEW r \in Requests, SavePictures(r), UNCHANGED linkVars
  PROVE  EditingInv'
<1> DEFINE i == request[r].form.item
           row == Pictured(items[i], request[r].old, request[r].form.kinds,
                           request[r].seen.items[i], r)
<1>1. /\ Submitted(r, "pictures")
      /\ items' = [items EXCEPT ![i] = row]
      /\ project' = Bumped(project)
      /\ UNCHANGED <<proposals, activities, request>>
  BY DEF SavePictures
<1>2. i \in Items
  BY <1>1, EditedRow
<1>3. /\ row \in ItemRows /\ row.version = items[i].version + 1
      /\ \A k \in Kinds : row.pictures[k] \in {None, row.config}
  BY PicturedRow
<1> HIDE DEF i, row
<1> QED
  BY <1>1, <1>2, <1>3, RowStep

\* The customer's data change: no product row is touched.
LEMMA UpdateCustomerStep ==
  ASSUME EditingInv, NEW r \in Requests, UpdateCustomer(r), UNCHANGED linkVars
  PROVE  EditingInv'
<1>1. request[r].form \in Forms /\ request[r].form.op = "customer"
  BY Rows DEF EditingInv, UpdateCustomer, Submitted, Submissions
<1>2. request[r].form.client \in Clients
  BY <1>1, FormFields
<1>3. /\ Bumped(project) \in Projects
      /\ Bumped(project).financeRevision = project.financeRevision + 1
  BY BumpedType DEF EditingInv
<1>4. /\ project' = [Bumped(project) EXCEPT !.client = request[r].form.client]
      /\ activities' = activities \cup {r}
      /\ UNCHANGED <<items, proposals, request>>
  BY DEF UpdateCustomer
<1>5. project' \in Projects /\ project'.financeRevision = project.financeRevision + 1
  BY <1>2, <1>3, <1>4 DEF Projects
<1>6. TypeOK'
  BY <1>4, <1>5 DEF EditingInv, TypeOK, ProductsTypeOK, linkVars
<1> QED
  BY <1>4, <1>5, <1>6, RowsKept DEF EditingInv

\* A proposal is written: it freezes well-formed rows.
LEMMA ProposeStep ==
  ASSUME EditingInv, NEW r \in Requests, NEW p \in Proposals,
         NEW lapsed \in BOOLEAN, Propose(r, p, lapsed), UNCHANGED linkVars
  PROVE  EditingInv'
<1> DEFINE new == [number |-> project.proposalRevision + 1, requestKey |-> r,
                   snapshot |-> [items |-> Listed(items), client |-> project.client],
                   lapsed |-> lapsed]
<1>1. project \in Projects /\ project.proposalRevision + 1 \in Nat
      /\ project.client \in Clients
  BY DEF EditingInv, TypeOK, ProductsTypeOK, Projects
<1>2. new \in ProposalRows
  BY <1>1, ListedType DEF ProposalRows, Snapshots, EditingInv, TypeOK
<1>3. /\ Bumped(project) \in Projects
      /\ Bumped(project).financeRevision = project.financeRevision + 1
  BY BumpedType DEF EditingInv
<1>4. /\ project' = [Bumped(project) EXCEPT !.proposalRevision = @ + 1]
      /\ proposals' = [proposals EXCEPT ![p] = new]
      /\ UNCHANGED <<items, activities, request>>
  BY DEF Propose
<1>5. project' \in Projects /\ project'.financeRevision = project.financeRevision + 1
  BY <1>3, <1>4 DEF Projects
<1>6. TypeOK'
  BY <1>2, <1>4, <1>5 DEF EditingInv, TypeOK, ProductsTypeOK, linkVars
<1> QED
  BY <1>4, <1>5, <1>6, RowsKept DEF EditingInv

\* The other proposals stay, the new one is a row.
LEMMA ProposedRow ==
  ASSUME EditingInv, NEW r \in Requests, NEW p \in Proposals,
         NEW lapsed \in BOOLEAN, Propose(r, p, lapsed)
  PROVE  /\ proposals'[p] \in ProposalRows
         /\ \A q \in Proposals : q # p => proposals'[q] = proposals[q]
<1> DEFINE new == [number |-> project.proposalRevision + 1, requestKey |-> r,
                   snapshot |-> [items |-> Listed(items), client |-> project.client],
                   lapsed |-> lapsed]
<1>1. project.proposalRevision + 1 \in Nat /\ project.client \in Clients
  BY DEF EditingInv, TypeOK, ProductsTypeOK, Projects
<1>2. new \in ProposalRows
  BY <1>1, ListedType DEF ProposalRows, Snapshots, EditingInv, TypeOK
<1>3. proposals' = [proposals EXCEPT ![p] = new]
  BY DEF Propose
<1> QED
  BY <1>2, <1>3 DEF EditingInv, TypeOK, ProductsTypeOK

\* The costs are declared complete, or not: no product row is touched.
LEMMA DeclareCostsStep ==
  ASSUME EditingInv, NEW r \in Requests, DeclareCosts(r), UNCHANGED linkVars
  PROVE  EditingInv'
<1>1. request[r].form \in Forms
  BY Rows DEF EditingInv, DeclareCosts, Submitted, Submissions
<1>2. request[r].form.flag \in BOOLEAN
  BY <1>1, FormFields
<1>3. /\ Bumped(project) \in Projects
      /\ Bumped(project).financeRevision = project.financeRevision + 1
  BY BumpedType DEF EditingInv
<1>4. /\ project' = [Bumped(project) EXCEPT !.costsComplete = request[r].form.flag]
      /\ UNCHANGED <<items, proposals, activities, request>>
  BY DEF DeclareCosts
<1>5. project' \in Projects /\ project'.financeRevision = project.financeRevision + 1
  BY <1>2, <1>3, <1>4 DEF Projects
<1>6. TypeOK'
  BY <1>4, <1>5 DEF EditingInv, TypeOK, ProductsTypeOK, linkVars
<1> QED
  BY <1>4, <1>5, <1>6, RowsKept DEF EditingInv

\* A proposal lapses: its snapshot stays.
LEMMA LapseStep ==
  ASSUME EditingInv, NEW p \in Proposals, Lapse(p), UNCHANGED linkVars
  PROVE  EditingInv'
<1> DEFINE new == [proposals[p] EXCEPT !.lapsed = TRUE]
<1>1. proposals[p] \in ProposalRows
  BY Rows DEF EditingInv, Lapse
<1>2. new \in ProposalRows
  BY <1>1 DEF ProposalRows
<1>3. /\ proposals' = [proposals EXCEPT ![p] = new]
      /\ UNCHANGED <<project, items, activities, request>>
  BY DEF Lapse
<1>4. TypeOK'
  BY <1>2, <1>3 DEF EditingInv, TypeOK, ProductsTypeOK, linkVars
<1> QED
  BY <1>3, <1>4, RowsKept DEF EditingInv

\* A step of the negotiation: neither the products nor what pages compare
\* them by.
LEMMA LinkStep ==
  ASSUME EditingInv, LinkNext, UNCHANGED <<items, proposals, activities, request>>
  PROVE  EditingInv'
<1> DEFINE Quiet == /\ project' \in Projects
                    /\ project'.financeRevision = project.financeRevision
                    /\ project'.client = project.client
                    /\ project'.costsComplete = project.costsComplete
           Typed == /\ invitation' \in [Invitations -> InvitationRows \cup {None}]
                    /\ accepting' \subseteq Invitations
                    /\ notices' \subseteq Invitations \X NoticeKinds
<1>1. project \in Projects /\ invitation \in [Invitations -> InvitationRows \cup {None}]
      /\ accepting \subseteq Invitations /\ notices \subseteq Invitations \X NoticeKinds
  BY DEF EditingInv, TypeOK, ProductsTypeOK
<1>2. \A l \in Invitations : Sent(l) =>
        /\ invitation[l] \in InvitationRows
        /\ invitation[l].proposal \in Proposals
        /\ [invitation[l] EXCEPT !.revoked = TRUE] \in InvitationRows
        /\ [invitation[l] EXCEPT !.expired = TRUE] \in InvitationRows
        /\ [invitation[l] EXCEPT !.accepted = TRUE] \in InvitationRows
        /\ [invitation[l] EXCEPT !.confirmed = TRUE] \in InvitationRows
        /\ [invitation[l] EXCEPT !.rejected = TRUE] \in InvitationRows
  BY Rows DEF EditingInv, InvitationRows
<1>3. ASSUME NEW l \in Invitations, NEW p \in Proposals, Invite(l, p)
      PROVE  Quiet /\ Typed
  <2>1. AllWithdrawn \in [Invitations -> InvitationRows \cup {None}]
    BY <1>1, <1>2 DEF AllWithdrawn, Live
  <2>2. [proposal |-> p, revoked |-> FALSE, expired |-> FALSE, accepted |-> FALSE,
         confirmed |-> FALSE, rejected |-> FALSE] \in InvitationRows
    BY DEF InvitationRows
  <2> QED
    BY <1>1, <1>3, <2>1, <2>2 DEF Invite
<1>4. ASSUME NEW l \in Invitations, CheckAcceptance(l)
      PROVE  Quiet /\ Typed
  BY <1>1, <1>4 DEF CheckAcceptance
<1>5. ASSUME NEW l \in Invitations, Accept(l)
      PROVE  Quiet /\ Typed
  <2>1. Sent(l)
    BY <1>5 DEF Accept
  <2>2. Quiet
    BY <1>1, <1>2, <1>5, <2>1 DEF Accept, Projects
  <2>3. Typed
    BY <1>1, <1>2, <1>5, <2>1 DEF Accept, Enqueued, NoticeKinds
  <2> QED
    BY <2>2, <2>3
<1>6. ASSUME NEW l \in Invitations, Revoke(l)
      PROVE  Quiet /\ Typed
  BY <1>1, <1>2, <1>6 DEF Revoke, Live
<1>7. ASSUME NEW l \in Invitations, Confirm(l)
      PROVE  Quiet /\ Typed
  <2>1. Sent(l)
    BY <1>7 DEF Confirm, Decidable
  <2>2. Quiet
    BY <1>1, <1>2, <1>7, <2>1 DEF Confirm, Projects
  <2>3. Typed
    BY <1>1, <1>2, <1>7, <2>1 DEF Confirm, Enqueued, NoticeKinds
  <2> QED
    BY <2>2, <2>3
<1>8. ASSUME NEW l \in Invitations, Reject(l)
      PROVE  Quiet /\ Typed
  <2>1. Sent(l)
    BY <1>8 DEF Reject, Decidable
  <2>2. Quiet
    BY <1>1, <1>2, <1>8, <2>1 DEF Reject, Projects
  <2>3. Typed
    BY <1>1, <1>2, <1>8, <2>1 DEF Reject, Enqueued, NoticeKinds
  <2> QED
    BY <2>2, <2>3
<1>9. ASSUME NEW l \in Invitations, Expire(l)
      PROVE  Quiet /\ Typed
  BY <1>1, <1>2, <1>9 DEF Expire, Live
<1>10. Quiet /\ Typed
  BY <1>3, <1>4, <1>5, <1>6, <1>7, <1>8, <1>9 DEF LinkNext
<1>11. TypeOK'
  BY <1>10 DEF EditingInv, TypeOK, ProductsTypeOK
<1> QED
  BY <1>10, <1>11, RowsKept DEF EditingInv

\* Every step of the pages and of the links keeps EditingInv.
THEOREM EditingStep == EditingInv /\ [Next]_vars => EditingInv'
<1> SUFFICES ASSUME EditingInv, [Next]_vars PROVE EditingInv'
  OBVIOUS
<1>1. CASE ProductsNext /\ UNCHANGED linkVars
  <2>1. ASSUME NEW r \in Requests, NEW f \in Forms, Load(r, f)
        PROVE  EditingInv'
    BY <1>1, <2>1, LoadStep
  <2>2. ASSUME NEW r \in Requests, Receive(r)
        PROVE  EditingInv'
    BY <1>1, <2>2, ReceiveStep
  <2>3. ASSUME NEW r \in Requests, NEW i \in Items, AddItem(r, i)
        PROVE  EditingInv'
    BY <1>1, <2>3, AddItemStep
  <2>4. ASSUME NEW r \in Requests, UpdateItem(r)
        PROVE  EditingInv'
    BY <1>1, <2>4, UpdateItemStep
  <2>5. ASSUME NEW r \in Requests, ArchiveItem(r)
        PROVE  EditingInv'
    BY <1>1, <2>5, ArchiveItemStep
  <2>6. ASSUME NEW r \in Requests, SavePictures(r)
        PROVE  EditingInv'
    BY <1>1, <2>6, SavePicturesStep
  <2>7. ASSUME NEW r \in Requests, UpdateCustomer(r)
        PROVE  EditingInv'
    BY <1>1, <2>7, UpdateCustomerStep
  <2>8. ASSUME NEW r \in Requests, NEW p \in Proposals, NEW lapsed \in BOOLEAN,
               Propose(r, p, lapsed)
        PROVE  EditingInv'
    BY <1>1, <2>8, ProposeStep
  <2>9. ASSUME NEW r \in Requests, DeclareCosts(r)
        PROVE  EditingInv'
    BY <1>1, <2>9, DeclareCostsStep
  <2>10. ASSUME NEW p \in Proposals, Lapse(p)
         PROVE  EditingInv'
    BY <1>1, <2>10, LapseStep
  <2> QED
    BY <1>1, <2>1, <2>2, <2>3, <2>4, <2>5, <2>6, <2>7, <2>8, <2>9, <2>10
       DEF ProductsNext
<1>2. CASE LinkNext /\ UNCHANGED <<items, proposals, activities, request>>
  BY <1>2, LinkStep
<1>3. CASE UNCHANGED vars
  BY <1>3 DEF vars, EditingInv, TypeOK, ProductsTypeOK, PagesCurrent,
              CopiesCurrent, CopiesOf, SameRow, PicturesMatch
<1> QED
  BY <1>1, <1>2, <1>3 DEF Next

-----------------------------------------------------------------------------
(* The theorems.                                                           *)

\* Revisions and versions identify contents: in every reachable state a page
\* with the current revision shows the case as it is, and a copy of a row
\* with the row's version is that row.
THEOREM EditingInvariant == Spec => []EditingInv
<1> QED
  BY EditingInit, EditingStep, PTL DEF Spec

\* Every row keeps its type.
THEOREM TypeCorrect == Spec => []TypeOK
<1>1. EditingInv => TypeOK
  BY DEF EditingInv
<1> QED
  BY <1>1, EditingInvariant, PTL

\* The pictures of a product always show its present configuration, whatever
\* the order of the pages that render, reconfigure and archive it.
THEOREM PicturesAlwaysMatch == Spec => []PicturesMatch
<1>1. EditingInv => PicturesMatch
  BY DEF EditingInv
<1> QED
  BY <1>1, EditingInvariant, PTL

\* A commit guarded by the revision acts on the case its page showed.
LEMMA RevisionGuard ==
  ASSUME EditingInv, NEW r \in Requests, request[r] # None,
         project.financeRevision = request[r].seen.revision
  PROVE  request[r].seen.items = items /\ request[r].seen.client = project.client
  BY DEF EditingInv, PagesCurrent

\* A commit guarded by the version acts on the row its page showed.
LEMMA VersionGuard ==
  ASSUME EditingInv, NEW r \in Requests,
         NEW op \in {"update", "archive", "pictures"}, Submitted(r, op),
         items[request[r].form.item].version = SeenVersion(r)
  PROVE  request[r].seen.items[request[r].form.item] = items[request[r].form.item]
  BY EditedRow DEF SameRow, SeenVersion

\* What a step does to products, customer and proposals, action by action.
LEMMA WhoWrites ==
  ASSUME EditingInv, [Next]_vars
  PROVE  \/ UNCHANGED <<items, proposals, project.client, project.costsComplete>>
         \/ \E r \in Requests, i \in Items : AddItem(r, i)
         \/ \E r \in Requests : UpdateItem(r)
         \/ \E r \in Requests : ArchiveItem(r)
         \/ \E r \in Requests : SavePictures(r)
         \/ \E r \in Requests : UpdateCustomer(r)
         \/ \E r \in Requests, p \in Proposals, b \in BOOLEAN : Propose(r, p, b)
         \/ \E r \in Requests : DeclareCosts(r)
         \/ \E p \in Proposals : Lapse(p)
<1>1. CASE ProductsNext
  BY <1>1 DEF ProductsNext, Load, Receive
<1>2. CASE LinkNext /\ UNCHANGED <<items, proposals, activities, request>>
  <2>1. project \in Projects
    BY DEF EditingInv, TypeOK, ProductsTypeOK
  <2> QED
    BY <1>2, <2>1 DEF LinkNext, Invite, CheckAcceptance, Accept, Revoke, Confirm,
                      Reject, Expire, Projects
<1>3. CASE UNCHANGED vars
  BY <1>3 DEF vars
<1> QED
  BY <1>1, <1>2, <1>3 DEF Next

\* A product row and the customer's data are only overwritten by a page that
\* showed their current contents.
THEOREM NoUpdateIsLost == Spec => NoLostUpdate
<1> USE DEF RowsOverwrittenAsSeen, ClientOverwrittenAsSeen
<1> DEFINE Seen == RowsOverwrittenAsSeen
           Known == ClientOverwrittenAsSeen
<1>1. ASSUME EditingInv, [Next]_vars
      PROVE  Seen /\ Known
  <2>1. project \in Projects /\ items \in [Items -> ItemRows \cup {None}]
    BY <1>1 DEF EditingInv, TypeOK, ProductsTypeOK
  <2>2. CASE UNCHANGED <<items, proposals, project.client, project.costsComplete>>
    BY <2>2
  <2>3. ASSUME NEW r \in Requests, NEW i \in Items, AddItem(r, i)
        PROVE  Seen /\ Known
    BY <2>1, <2>3 DEF AddItem, BumpedOpen, Projects
  <2>4. ASSUME NEW r \in Requests, UpdateItem(r)
        PROVE  Seen /\ Known
    <3>1. request[r] # None /\ request[r].seen.items[request[r].form.item]
                                = items[request[r].form.item]
      BY <1>1, <2>4, VersionGuard DEF UpdateItem, Submitted
    <3> QED
      BY <2>1, <2>4, <3>1 DEF UpdateItem, BumpedOpen, Projects
  <2>5. ASSUME NEW r \in Requests, ArchiveItem(r)
        PROVE  Seen /\ Known
    <3>1. request[r] # None /\ request[r].seen.items[request[r].form.item]
                                = items[request[r].form.item]
      BY <1>1, <2>5, VersionGuard DEF ArchiveItem, Submitted
    <3> QED
      BY <2>1, <2>5, <3>1 DEF ArchiveItem, BumpedOpen, Projects
  <2>6. ASSUME NEW r \in Requests, SavePictures(r)
        PROVE  Seen /\ Known
    <3>1. request[r] # None /\ request[r].seen.items[request[r].form.item]
                                = items[request[r].form.item]
      BY <1>1, <2>6, VersionGuard DEF SavePictures, Submitted
    <3> QED
      BY <2>1, <2>6, <3>1 DEF SavePictures, Bumped, Projects
  <2>7. ASSUME NEW r \in Requests, UpdateCustomer(r)
        PROVE  Seen /\ Known
    <3>1. /\ request[r] # None
          /\ request[r].seen.items = items
          /\ request[r].seen.client = project.client
      BY <1>1, <2>7, RevisionGuard DEF UpdateCustomer, Submitted
    <3> QED
      BY <2>7, <3>1 DEF UpdateCustomer
  <2>8. ASSUME NEW r \in Requests, NEW p \in Proposals, NEW b \in BOOLEAN,
               Propose(r, p, b)
        PROVE  Seen /\ Known
    BY <2>1, <2>8 DEF Propose, Bumped, Projects
  <2>9. ASSUME NEW r \in Requests, DeclareCosts(r)
        PROVE  Seen /\ Known
    BY <2>1, <2>9 DEF DeclareCosts, Bumped, Projects
  <2>10. ASSUME NEW p \in Proposals, Lapse(p)
         PROVE  Seen /\ Known
    BY <2>10 DEF Lapse
  <2> QED
    BY <1>1, <2>2, <2>3, <2>4, <2>5, <2>6, <2>7, <2>8, <2>9, <2>10, WhoWrites
<1>2. EditingInv /\ [Next]_vars => [RowsOverwrittenAsSeen /\ ClientOverwrittenAsSeen]_vars
  BY <1>1
<1> HIDE DEF RowsOverwrittenAsSeen, ClientOverwrittenAsSeen
<1> QED
  BY <1>2, EditingInvariant, PTL DEF Spec, NoLostUpdate

\* A proposal freezes exactly what the page that issued it was showing.
THEOREM ProposalsAreReviewed == Spec => ProposalAsReviewed
<1> DEFINE Reviewed == \A p \in Proposals : proposals[p] = None /\ proposals'[p] # None =>
                         LET page == request[proposals'[p].requestKey].seen
                         IN  proposals'[p].snapshot = [items  |-> Listed(page.items),
                                                       client |-> page.client]
<1>1. ASSUME EditingInv, [Next]_vars
      PROVE  Reviewed
  <2>1. proposals \in [Proposals -> ProposalRows \cup {None}]
    BY <1>1 DEF EditingInv, TypeOK, ProductsTypeOK
  <2>2. ASSUME NEW r \in Requests, NEW p \in Proposals, NEW b \in BOOLEAN,
               Propose(r, p, b)
        PROVE  Reviewed
    <3>1. /\ request[r].seen.items = items
          /\ request[r].seen.client = project.client
      BY <1>1, <2>2, RevisionGuard DEF Propose, Submitted
    <3> QED
      BY <2>1, <2>2, <3>1 DEF Propose
  <2>3. ASSUME NEW p \in Proposals, Lapse(p)
        PROVE  Reviewed
    BY <2>1, <2>3 DEF Lapse
  <2>4. CASE UNCHANGED proposals
    BY <2>4
  <2> QED
    BY <1>1, <2>2, <2>3, <2>4, WhoWrites DEF AddItem, UpdateItem, ArchiveItem,
       SavePictures, UpdateCustomer, DeclareCosts
<1>2. EditingInv /\ [Next]_vars => [Reviewed]_vars
  BY <1>1
<1> QED
  BY <1>2, EditingInvariant, PTL DEF Spec, ProposalAsReviewed

\* New pictures are no change of what is for sale.
LEMMA PicturesKeepGoods ==
  ASSUME EditingInv, EditingInv', NEW r \in Requests, SavePictures(r)
  PROVE  OnSale' = OnSale
<1> DEFINE i == request[r].form.item
           row == Pictured(items[i], request[r].old, request[r].form.kinds,
                           request[r].seen.items[i], r)
<1>1. /\ i \in Items /\ i # None
      /\ items[i] \in ItemRows /\ items[i] # None
      /\ items' = [items EXCEPT ![i] = row]
      /\ request' = request /\ request[r] # None
  BY EditedRow, ProductsAssumption DEF SavePictures, Submitted
<1>2. row.config = items[i].config /\ row.archived = items[i].archived
  BY <1>1 DEF Pictured, ItemRows
<1>3. \A j \in Items : items'[j] = IF j = i THEN row ELSE items[j]
  BY <1>1 DEF EditingInv, TypeOK, ProductsTypeOK
<1>4. items'[i] # None
  BY <1>1 DEF EditingInv, CopiesCurrent, CopiesOf, SameRow
<1>5. row # None
  BY <1>1, <1>3, <1>4
<1> HIDE DEF row
<1>6. \A j \in Items : /\ items'[j] = None <=> items[j] = None
                      /\ items'[j].config = items[j].config
                      /\ items'[j].archived = items[j].archived
  BY <1>1, <1>2, <1>3, <1>5
<1> QED
  BY <1>6 DEF OnSale

\* "All costs are entered" is declared on the products the page showed and
\* does not outlive a change of the products.
THEOREM CostsDeclarationIsCurrent == Spec => CostsDeclarationCurrent
<1> USE DEF CostsDeclaredAsSeen
<1> DEFINE Kept == CostsDeclaredAsSeen
<1>1. ASSUME EditingInv, [Next]_vars
      PROVE  Kept
  <2>1. project \in Projects /\ items \in [Items -> ItemRows \cup {None}]
    BY <1>1 DEF EditingInv, TypeOK, ProductsTypeOK
  <2>2. CASE UNCHANGED <<items, proposals, project.client, project.costsComplete>>
    BY <2>2 DEF OnSale
  <2>3. CASE project' = BumpedOpen(project)
    BY <1>1, <2>3, BumpedType DEF EditingInv
  <2>4. ASSUME NEW r \in Requests, SavePictures(r)
        PROVE  Kept
    <3>1. OnSale' = OnSale
      BY <1>1, <2>4, EditingStep, PicturesKeepGoods
    <3>2. project'.costsComplete = project.costsComplete
      BY <1>1, <2>4, BumpedType DEF SavePictures, EditingInv
    <3> QED
      BY <3>1, <3>2
  <2>5. ASSUME NEW r \in Requests, UpdateCustomer(r)
        PROVE  Kept
    BY <2>1, <2>5 DEF UpdateCustomer, Bumped, OnSale, Projects
  <2>6. ASSUME NEW r \in Requests, NEW p \in Proposals, NEW b \in BOOLEAN,
               Propose(r, p, b)
        PROVE  Kept
    BY <2>1, <2>6 DEF Propose, Bumped, OnSale, Projects
  <2>7. ASSUME NEW r \in Requests, DeclareCosts(r)
        PROVE  Kept
    <3>1. request[r] # None /\ request[r].seen.items = items
      BY <1>1, <2>7, RevisionGuard DEF DeclareCosts, Submitted
    <3>2. items' = items
      BY <2>7 DEF DeclareCosts
    <3> QED
      BY <3>1, <3>2 DEF OnSale
  <2>8. ASSUME NEW p \in Proposals, Lapse(p)
        PROVE  Kept
    BY <2>8 DEF Lapse, OnSale
  <2> QED
    BY <1>1, <2>2, <2>3, <2>4, <2>5, <2>6, <2>7, <2>8, WhoWrites
       DEF AddItem, UpdateItem, ArchiveItem
<1>2. EditingInv /\ [Next]_vars => [CostsDeclaredAsSeen]_vars
  BY <1>1
<1> HIDE DEF CostsDeclaredAsSeen
<1> QED
  BY <1>2, EditingInvariant, PTL DEF Spec, CostsDeclarationCurrent

-----------------------------------------------------------------------------
(* The agreement.                                                          *)

\* What a single invitation row may say.
OutcomesConsistent ==
  \A l \in Invitations : Sent(l) =>
    /\ proposals[invitation[l].proposal] # None
    /\ invitation[l].confirmed => invitation[l].accepted
    /\ invitation[l].rejected => invitation[l].accepted
    /\ ~(invitation[l].confirmed /\ invitation[l].rejected)

LinksInv ==
  /\ EditingInv
  /\ OutcomesConsistent
  /\ OneLiveLink
  /\ WithdrawnNeverAccepted
  /\ AgreementBacked
  /\ NoticesMatchOutcomes

\* Initially no link was sent and nothing is agreed.
THEOREM LinksInit == Init => LinksInv
<1> SUFFICES ASSUME Init PROVE LinksInv
  OBVIOUS
<1>1. EditingInv
  BY EditingInit
<1>2. \A l \in Invitations : ~Sent(l)
  BY DEF Init, Sent
<1>3. project.accepted = None /\ project.confirmed = None /\ notices = {}
  BY DEF Init, ProductsInit
<1> QED
  BY <1>1, <1>2, <1>3 DEF LinksInv, OutcomesConsistent, OneLiveLink, Live,
     WithdrawnNeverAccepted, AgreementBacked, Standing, NoticesMatchOutcomes

-----------------------------------------------------------------------------
(* Steps of the seller's pages.                                            *)

\* The pages never touch the agreement, nor do they take proposals away.
LEMMA PagesKeepDeal ==
  ASSUME EditingInv, ProductsNext
  PROVE  /\ project'.accepted = project.accepted
         /\ project'.confirmed = project.confirmed
         /\ \A p \in Proposals : proposals[p] # None =>
              proposals'[p] # None /\ TermsOf(p)' = TermsOf(p)
<1> USE DEF TermsOf
<1>1. /\ project \in Projects
      /\ proposals \in [Proposals -> ProposalRows \cup {None}]
      /\ \A p \in Proposals : proposals[p] # None => proposals[p] \in ProposalRows
  BY DEF EditingInv, TypeOK, ProductsTypeOK
<1>2. CASE UNCHANGED <<project, proposals>>
  BY <1>2
<1>3. CASE project' \in {Bumped(project), BumpedOpen(project)} /\ UNCHANGED proposals
  BY <1>1, <1>3 DEF Bumped, BumpedOpen, Projects
<1>4. ASSUME NEW r \in Requests, UpdateCustomer(r)
      PROVE  project'.accepted = project.accepted
             /\ project'.confirmed = project.confirmed /\ UNCHANGED proposals
  BY <1>1, <1>4 DEF UpdateCustomer, Bumped, Projects
<1>5. ASSUME NEW r \in Requests, DeclareCosts(r)
      PROVE  project'.accepted = project.accepted
             /\ project'.confirmed = project.confirmed /\ UNCHANGED proposals
  BY <1>1, <1>5 DEF DeclareCosts, Bumped, Projects
<1>6. ASSUME NEW r \in Requests, NEW p \in Proposals, NEW b \in BOOLEAN,
             Propose(r, p, b)
      PROVE  /\ project'.accepted = project.accepted
             /\ project'.confirmed = project.confirmed
             /\ \A q \in Proposals : proposals[q] # None => proposals'[q] = proposals[q]
  BY <1>1, <1>6 DEF Propose, Bumped, Projects
<1>7. ASSUME NEW p \in Proposals, Lapse(p)
      PROVE  /\ project' = project
             /\ \A q \in Proposals : proposals[q] # None =>
                  proposals'[q] # None /\ TermsOf(q)' = TermsOf(q)
  <2>1. proposals[p] \in ProposalRows
    BY <1>1, <1>7 DEF Lapse
  <2>2. [proposals[p] EXCEPT !.lapsed = TRUE] \in ProposalRows
    BY <2>1 DEF ProposalRows
  <2>3. [proposals[p] EXCEPT !.lapsed = TRUE] # None
    BY <2>2, ProductsAssumption
  <2>4. proposals' = [proposals EXCEPT ![p] = [proposals[p] EXCEPT !.lapsed = TRUE]]
        /\ project' = project
    BY <1>7 DEF Lapse
  <2>5. \A q \in Proposals : proposals'[q] =
          IF q = p THEN [proposals[p] EXCEPT !.lapsed = TRUE] ELSE proposals[q]
    BY <1>1, <2>4
  <2>6. /\ [proposals[p] EXCEPT !.lapsed = TRUE].number = proposals[p].number
        /\ [proposals[p] EXCEPT !.lapsed = TRUE].snapshot = proposals[p].snapshot
    BY <2>1 DEF ProposalRows
  <2> QED
    BY <2>3, <2>4, <2>5, <2>6
<1> QED
  BY <1>2, <1>3, <1>4, <1>5, <1>6, <1>7 DEF ProductsNext, Load, Receive, AddItem,
     UpdateItem, ArchiveItem, SavePictures

\* The pages of the seller do not disturb the links.
LEMMA PagesStep ==
  ASSUME LinksInv, ProductsNext, UNCHANGED linkVars, EditingInv'
  PROVE  LinksInv'
<1>1. /\ project'.accepted = project.accepted
      /\ project'.confirmed = project.confirmed
      /\ \A p \in Proposals : proposals[p] # None => proposals'[p] # None
  BY PagesKeepDeal DEF LinksInv
<1>2. \A l \in Invitations : Sent(l) => invitation[l].proposal \in Proposals
  BY Rows DEF LinksInv, EditingInv, InvitationRows
<1>3. OutcomesConsistent'
  BY <1>1, <1>2 DEF LinksInv, OutcomesConsistent, linkVars, Sent
<1>4. OneLiveLink' /\ WithdrawnNeverAccepted' /\ NoticesMatchOutcomes'
  BY DEF LinksInv, OneLiveLink, WithdrawnNeverAccepted, NoticesMatchOutcomes,
         linkVars, Sent, Live
<1>5. AgreementBacked'
  BY <1>1 DEF LinksInv, AgreementBacked, linkVars, Standing, Sent
<1> QED
  BY <1>3, <1>4, <1>5 DEF LinksInv

-----------------------------------------------------------------------------
(* Steps of the negotiation.                                               *)

\* A link that was sent has a row.
LEMMA LinkRow ==
  ASSUME LinksInv, NEW l \in Invitations, Sent(l)
  PROVE  invitation[l] \in InvitationRows /\ invitation[l].proposal \in Proposals
  BY Rows DEF LinksInv, EditingInv, InvitationRows

\* The state the negotiation works on.
LEMMA LinkTypes ==
  ASSUME LinksInv
  PROVE  /\ invitation \in [Invitations -> InvitationRows \cup {None}]
         /\ project \in Projects
         /\ None \notin InvitationRows
         /\ None \notin Proposals
         /\ \A l \in Invitations : invitation[l] # None => invitation[l] \in InvitationRows
  BY Rows, NegotiationAssumption, ProductsAssumption
     DEF LinksInv, EditingInv, TypeOK, ProductsTypeOK, Sent

\* A new link withdraws the others.
LEMMA InviteStep ==
  ASSUME LinksInv, NEW l \in Invitations, NEW p \in Proposals, Invite(l, p),
         UNCHANGED proposals
  PROVE  /\ OutcomesConsistent' /\ OneLiveLink' /\ WithdrawnNeverAccepted'
         /\ AgreementBacked' /\ NoticesMatchOutcomes'
<1> DEFINE new == [proposal |-> p, revoked |-> FALSE, expired |-> FALSE,
                   accepted |-> FALSE, confirmed |-> FALSE, rejected |-> FALSE]
<1>1. /\ new \in InvitationRows /\ new # None /\ new.proposal = p
      /\ ~new.revoked /\ ~new.accepted /\ ~new.confirmed /\ ~new.rejected
  <2>1. new \in InvitationRows
    BY DEF InvitationRows
  <2> QED
    BY <2>1, NegotiationAssumption
<1>2. /\ invitation' = [AllWithdrawn EXCEPT ![l] = new]
      /\ ~Sent(l) /\ proposals[p] # None
      /\ UNCHANGED <<project, notices, proposals>>
  BY DEF Invite, Sent
<1>3. /\ l \in DOMAIN AllWithdrawn
      /\ \A m \in Invitations : AllWithdrawn[m] =
           IF Live(m) THEN [invitation[m] EXCEPT !.revoked = TRUE] ELSE invitation[m]
  BY DEF AllWithdrawn
<1>4. \A m \in Invitations : invitation'[m] =
        IF m = l THEN new
        ELSE IF Live(m) THEN [invitation[m] EXCEPT !.revoked = TRUE] ELSE invitation[m]
  BY <1>2, <1>3 DEF AllWithdrawn
<1>5. \A m \in Invitations : m # l =>
        /\ Sent(m)' <=> Sent(m)
        /\ Sent(m) => /\ invitation'[m].proposal = invitation[m].proposal
                      /\ invitation'[m].accepted = invitation[m].accepted
                      /\ invitation'[m].confirmed = invitation[m].confirmed
                      /\ invitation'[m].rejected = invitation[m].rejected
                      /\ invitation'[m].revoked => invitation[m].revoked \/ Live(m)
                      /\ Live(m) => invitation'[m].revoked
                      /\ ~Live(m) => invitation'[m] = invitation[m]
  <2> SUFFICES ASSUME NEW m \in Invitations, m # l, Sent(m) \/ Sent(m)'
               PROVE  <1>5!(m)!2
    BY DEF Sent
  <2>1. CASE Live(m)
    <3>1. invitation[m] \in InvitationRows
      BY <2>1, LinkRow DEF Live
    <3>2. [invitation[m] EXCEPT !.revoked = TRUE] \in InvitationRows
      BY <3>1 DEF InvitationRows
    <3>3. invitation'[m] = [invitation[m] EXCEPT !.revoked = TRUE]
      BY <2>1, <1>4
    <3> QED
      BY <2>1, <3>1, <3>2, <3>3, LinkTypes DEF InvitationRows, Sent, Live
  <2>2. CASE ~Live(m)
    BY <2>2, <1>4 DEF Sent
  <2> QED
    BY <2>1, <2>2
<1>6. Sent(l)' /\ invitation'[l] = new
  BY <1>1, <1>4 DEF Sent
<1> HIDE DEF new
<1>7. OutcomesConsistent'
  BY <1>1, <1>2, <1>5, <1>6 DEF LinksInv, OutcomesConsistent
<1>8. OneLiveLink'
  BY <1>5, <1>6 DEF OneLiveLink, Live
<1>9. WithdrawnNeverAccepted'
  BY <1>1, <1>5, <1>6 DEF LinksInv, WithdrawnNeverAccepted, Live
<1>10. \A m \in Invitations : Standing(m)' <=> Standing(m)
  BY <1>1, <1>2, <1>5, <1>6 DEF Standing
<1>11. AgreementBacked'
  BY <1>2, <1>5, <1>10 DEF LinksInv, AgreementBacked, Standing
<1>12. NoticesMatchOutcomes'
  <2>1. \A m \in Invitations :
          /\ (Sent(m) /\ invitation[m].accepted)' <=> Sent(m) /\ invitation[m].accepted
          /\ (Sent(m) /\ invitation[m].confirmed)' <=> Sent(m) /\ invitation[m].confirmed
          /\ (Sent(m) /\ invitation[m].rejected)' <=> Sent(m) /\ invitation[m].rejected
    BY <1>1, <1>2, <1>5, <1>6
  <2> QED
    BY <1>2, <2>1 DEF LinksInv, NoticesMatchOutcomes
<1> QED
  BY <1>7, <1>8, <1>9, <1>11, <1>12

\* An acceptance: case, link and notices change together.
LEMMA AcceptStep ==
  ASSUME LinksInv, NEW l \in Invitations, Accept(l), UNCHANGED proposals
  PROVE  /\ OutcomesConsistent' /\ OneLiveLink' /\ WithdrawnNeverAccepted'
         /\ AgreementBacked' /\ NoticesMatchOutcomes'
<1> DEFINE new == [invitation[l] EXCEPT !.accepted = TRUE]
<1>1. /\ Sent(l)
      /\ invitation' = [invitation EXCEPT ![l] = new]
  BY LinkTypes DEF Accept, Sent
<1>2. invitation[l] \in InvitationRows
  BY <1>1, LinkRow
<1>3. /\ new.accepted = TRUE /\ new.proposal = invitation[l].proposal
      /\ new.revoked = invitation[l].revoked
      /\ new.confirmed = invitation[l].confirmed
      /\ new.rejected = invitation[l].rejected
      /\ new.expired = invitation[l].expired
      /\ new # None
  <2>1. new \in InvitationRows
    BY <1>2 DEF InvitationRows
  <2> QED
    BY <2>1, <1>2, NegotiationAssumption DEF InvitationRows
<1>4. \A m \in Invitations : invitation'[m] = IF m = l THEN new ELSE invitation[m]
  BY <1>1, LinkTypes
<1> HIDE DEF new
<1>5. /\ \A m \in Invitations : Sent(m)' <=> Sent(m)
      /\ Sent(l)' /\ invitation'[l] = new
      /\ \A m \in Invitations : m # l => invitation'[m] = invitation[m]
  BY <1>1, <1>3, <1>4 DEF Sent
<1>6. /\ ~invitation[l].revoked /\ ~invitation[l].accepted /\ ~invitation[l].rejected
      /\ ~invitation[l].confirmed
      /\ project.accepted = None /\ project.confirmed = None
      /\ project'.accepted = invitation[l].proposal /\ project'.confirmed = None
      /\ notices' = notices \cup ({l} \X {"CLIENT_ACCEPTED", "CLIENT_ACCEPTANCE_RECEIPT"})
  BY <1>1, LinkTypes DEF Accept, StillOpen, Unlocked, Enqueued, Projects,
     LinksInv, OutcomesConsistent
<1>7. OutcomesConsistent'
  BY <1>1, <1>3, <1>5, <1>6 DEF LinksInv, OutcomesConsistent
<1>8. OneLiveLink' /\ WithdrawnNeverAccepted'
  BY <1>1, <1>3, <1>5, <1>6 DEF LinksInv, OneLiveLink, WithdrawnNeverAccepted, Live
<1>9. \A m \in Invitations : ~Standing(m)
  BY <1>6 DEF LinksInv, AgreementBacked
<1>10. \A m \in Invitations : Standing(m)' <=> m = l
  BY <1>1, <1>3, <1>5, <1>6, <1>9 DEF Standing
<1>11. invitation[l].proposal # None
  BY <1>1, LinkRow, LinkTypes
<1>12. AgreementBacked'
  BY <1>3, <1>5, <1>6, <1>10, <1>11 DEF AgreementBacked
<1>13. NoticesMatchOutcomes'
  <2> SUFFICES ASSUME NEW m \in Invitations PROVE NoticesMatchOutcomes!(m)'
    BY DEF NoticesMatchOutcomes
  <2>1. NoticesMatchOutcomes!(m)
    BY DEF LinksInv, NoticesMatchOutcomes
  <2>2. CASE m = l
    BY <1>1, <1>3, <1>5, <1>6, <2>1, <2>2 DEF Sent
  <2>3. CASE m # l
    BY <1>1, <1>5, <1>6, <2>1, <2>3
  <2> QED
    BY <2>2, <2>3
<1> QED
  BY <1>7, <1>8, <1>12, <1>13

\* A link not used yet is withdrawn.
LEMMA RevokeStep ==
  ASSUME LinksInv, NEW l \in Invitations, Revoke(l), UNCHANGED proposals
  PROVE  /\ OutcomesConsistent' /\ OneLiveLink' /\ WithdrawnNeverAccepted'
         /\ AgreementBacked' /\ NoticesMatchOutcomes'
<1> DEFINE new == [invitation[l] EXCEPT !.revoked = TRUE]
<1>1. /\ Sent(l)
      /\ invitation' = [invitation EXCEPT ![l] = new]
  BY LinkTypes DEF Revoke, Live, Sent
<1>2. invitation[l] \in InvitationRows
  BY <1>1, LinkRow
<1>3. /\ new.revoked = TRUE /\ new.proposal = invitation[l].proposal
      /\ new.accepted = invitation[l].accepted
      /\ new.confirmed = invitation[l].confirmed
      /\ new.rejected = invitation[l].rejected
      /\ new.expired = invitation[l].expired
      /\ new # None
  <2>1. new \in InvitationRows
    BY <1>2 DEF InvitationRows
  <2> QED
    BY <2>1, <1>2, NegotiationAssumption DEF InvitationRows
<1>4. \A m \in Invitations : invitation'[m] = IF m = l THEN new ELSE invitation[m]
  BY <1>1, LinkTypes
<1> HIDE DEF new
<1>5. /\ \A m \in Invitations : Sent(m)' <=> Sent(m)
      /\ Sent(l)' /\ invitation'[l] = new
      /\ \A m \in Invitations : m # l => invitation'[m] = invitation[m]
  BY <1>1, <1>3, <1>4 DEF Sent
<1>6. Live(l) /\ UNCHANGED <<project, notices>>
  BY DEF Revoke
<1>7. OutcomesConsistent'
  <2> SUFFICES ASSUME NEW m \in Invitations, Sent(m)
               PROVE  OutcomesConsistent!(m)!2'
    BY <1>5 DEF OutcomesConsistent
  <2>1. /\ invitation'[m].proposal = invitation[m].proposal
        /\ invitation'[m].accepted = invitation[m].accepted
        /\ invitation'[m].confirmed = invitation[m].confirmed
        /\ invitation'[m].rejected = invitation[m].rejected
    BY <1>3, <1>5
  <2>2. OutcomesConsistent!(m)!2
    BY DEF LinksInv, OutcomesConsistent
  <2> QED
    BY <2>1, <2>2
<1>8. OneLiveLink' /\ WithdrawnNeverAccepted'
  BY <1>1, <1>3, <1>5, <1>6 DEF LinksInv, OneLiveLink, WithdrawnNeverAccepted, Live
<1>9. \A m \in Invitations : Standing(m)' <=> Standing(m)
  BY <1>1, <1>3, <1>5 DEF Standing
<1>10. AgreementBacked'
  BY <1>3, <1>5, <1>6, <1>9 DEF LinksInv, AgreementBacked
<1>11. NoticesMatchOutcomes'
  <2> SUFFICES ASSUME NEW m \in Invitations PROVE NoticesMatchOutcomes!(m)'
    BY DEF NoticesMatchOutcomes
  <2>1. NoticesMatchOutcomes!(m)
    BY DEF LinksInv, NoticesMatchOutcomes
  <2>2. CASE m = l
    BY <1>1, <1>3, <1>5, <1>6, <2>1, <2>2 DEF Sent
  <2>3. CASE m # l
    BY <1>1, <1>5, <1>6, <2>1, <2>3
  <2> QED
    BY <2>2, <2>3
<1> QED
  BY <1>7, <1>8, <1>10, <1>11

\* A link expires.
LEMMA ExpireStep ==
  ASSUME LinksInv, NEW l \in Invitations, Expire(l), UNCHANGED proposals
  PROVE  /\ OutcomesConsistent' /\ OneLiveLink' /\ WithdrawnNeverAccepted'
         /\ AgreementBacked' /\ NoticesMatchOutcomes'
<1> DEFINE new == [invitation[l] EXCEPT !.expired = TRUE]
<1>1. /\ Sent(l)
      /\ invitation' = [invitation EXCEPT ![l] = new]
  BY LinkTypes DEF Expire, Live, Sent
<1>2. invitation[l] \in InvitationRows
  BY <1>1, LinkRow
<1>3. /\ new.expired = TRUE /\ new.proposal = invitation[l].proposal
      /\ new.revoked = invitation[l].revoked
      /\ new.accepted = invitation[l].accepted
      /\ new.confirmed = invitation[l].confirmed
      /\ new.rejected = invitation[l].rejected
      /\ new # None
  <2>1. new \in InvitationRows
    BY <1>2 DEF InvitationRows
  <2> QED
    BY <2>1, <1>2, NegotiationAssumption DEF InvitationRows
<1>4. \A m \in Invitations : invitation'[m] = IF m = l THEN new ELSE invitation[m]
  BY <1>1, LinkTypes
<1> HIDE DEF new
<1>5. /\ \A m \in Invitations : Sent(m)' <=> Sent(m)
      /\ Sent(l)' /\ invitation'[l] = new
      /\ \A m \in Invitations : m # l => invitation'[m] = invitation[m]
  BY <1>1, <1>3, <1>4 DEF Sent
<1>6. Live(l) /\ UNCHANGED <<project, notices>>
  BY DEF Expire
<1>7. OutcomesConsistent'
  <2> SUFFICES ASSUME NEW m \in Invitations, Sent(m)
               PROVE  OutcomesConsistent!(m)!2'
    BY <1>5 DEF OutcomesConsistent
  <2>1. /\ invitation'[m].proposal = invitation[m].proposal
        /\ invitation'[m].accepted = invitation[m].accepted
        /\ invitation'[m].confirmed = invitation[m].confirmed
        /\ invitation'[m].rejected = invitation[m].rejected
    BY <1>3, <1>5
  <2>2. OutcomesConsistent!(m)!2
    BY DEF LinksInv, OutcomesConsistent
  <2> QED
    BY <2>1, <2>2
<1>8. OneLiveLink' /\ WithdrawnNeverAccepted'
  BY <1>1, <1>3, <1>5, <1>6 DEF LinksInv, OneLiveLink, WithdrawnNeverAccepted, Live
<1>9. \A m \in Invitations : Standing(m)' <=> Standing(m)
  BY <1>1, <1>3, <1>5 DEF Standing
<1>10. AgreementBacked'
  BY <1>3, <1>5, <1>6, <1>9 DEF LinksInv, AgreementBacked
<1>11. NoticesMatchOutcomes'
  <2> SUFFICES ASSUME NEW m \in Invitations PROVE NoticesMatchOutcomes!(m)'
    BY DEF NoticesMatchOutcomes
  <2>1. NoticesMatchOutcomes!(m)
    BY DEF LinksInv, NoticesMatchOutcomes
  <2>2. CASE m = l
    BY <1>1, <1>3, <1>5, <1>6, <2>1, <2>2 DEF Sent
  <2>3. CASE m # l
    BY <1>1, <1>5, <1>6, <2>1, <2>3
  <2> QED
    BY <2>2, <2>3
<1> QED
  BY <1>7, <1>8, <1>10, <1>11

\* The dealer confirms the standing acceptance.
LEMMA ConfirmStep ==
  ASSUME LinksInv, NEW l \in Invitations, Confirm(l), UNCHANGED proposals
  PROVE  /\ OutcomesConsistent' /\ OneLiveLink' /\ WithdrawnNeverAccepted'
         /\ AgreementBacked' /\ NoticesMatchOutcomes'
<1> DEFINE new == [invitation[l] EXCEPT !.confirmed = TRUE]
<1>1. /\ Sent(l)
      /\ invitation' = [invitation EXCEPT ![l] = new]
  BY LinkTypes DEF Confirm, Decidable, Sent
<1>2. invitation[l] \in InvitationRows
  BY <1>1, LinkRow
<1>3. /\ new.confirmed = TRUE /\ new.proposal = invitation[l].proposal
      /\ new.revoked = invitation[l].revoked
      /\ new.accepted = invitation[l].accepted
      /\ new.rejected = invitation[l].rejected
      /\ new.expired = invitation[l].expired
      /\ new # None
  <2>1. new \in InvitationRows
    BY <1>2 DEF InvitationRows
  <2> QED
    BY <2>1, <1>2, NegotiationAssumption DEF InvitationRows
<1>4. \A m \in Invitations : invitation'[m] = IF m = l THEN new ELSE invitation[m]
  BY <1>1, LinkTypes
<1> HIDE DEF new
<1>5. /\ \A m \in Invitations : Sent(m)' <=> Sent(m)
      /\ Sent(l)' /\ invitation'[l] = new
      /\ \A m \in Invitations : m # l => invitation'[m] = invitation[m]
  BY <1>1, <1>3, <1>4 DEF Sent
<1>6. /\ invitation[l].accepted /\ ~invitation[l].revoked
      /\ ~invitation[l].confirmed /\ ~invitation[l].rejected
      /\ project.accepted = invitation[l].proposal /\ project.confirmed = None
      /\ project'.accepted = invitation[l].proposal
      /\ project'.confirmed = invitation[l].proposal
      /\ notices' = notices \cup ({l} \X {"SELLER_CONFIRMED"})
  BY LinkTypes DEF Confirm, Decidable, Enqueued, Projects
<1>7. OutcomesConsistent'
  <2> SUFFICES ASSUME NEW m \in Invitations, Sent(m)
               PROVE  OutcomesConsistent!(m)!2'
    BY <1>5 DEF OutcomesConsistent
  <2>1. OutcomesConsistent!(m)!2
    BY DEF LinksInv, OutcomesConsistent
  <2>2. CASE m = l
    <3>1. /\ new.accepted /\ (new.confirmed => ~new.rejected)
          /\ proposals'[new.proposal] # None
      BY <1>1, <1>3, <1>6, <2>1, <2>2
    <3> QED
      BY <1>5, <2>2, <3>1
  <2>3. CASE m # l
    BY <1>5, <2>1, <2>3
  <2> QED
    BY <2>2, <2>3
<1>8. OneLiveLink' /\ WithdrawnNeverAccepted'
  <2>1. \A m \in Invitations : Live(m)' => m # l /\ Live(m)
    BY <1>3, <1>5, <1>6 DEF Live
  <2>2. OneLiveLink'
    BY <2>1 DEF LinksInv, OneLiveLink
  <2>3. WithdrawnNeverAccepted'
    BY <1>1, <1>3, <1>5, <1>6 DEF LinksInv, WithdrawnNeverAccepted
  <2> QED
    BY <2>2, <2>3
<1>9. \A m \in Invitations : Standing(m) <=> m = l
  BY <1>1, <1>6 DEF LinksInv, AgreementBacked, Standing
<1>10. \A m \in Invitations : Standing(m)' <=> m = l
  BY <1>1, <1>3, <1>5, <1>6, <1>9 DEF Standing
<1>11. invitation[l].proposal # None
  BY <1>1, LinkRow, LinkTypes
<1>12. AgreementBacked'
  BY <1>3, <1>5, <1>6, <1>10, <1>11 DEF AgreementBacked
<1>13. NoticesMatchOutcomes'
  <2> SUFFICES ASSUME NEW m \in Invitations PROVE NoticesMatchOutcomes!(m)'
    BY DEF NoticesMatchOutcomes
  <2>1. NoticesMatchOutcomes!(m)
    BY DEF LinksInv, NoticesMatchOutcomes
  <2>2. CASE m = l
    <3>1. \A k : <<l, k>> \in notices' <=> <<l, k>> \in notices \/ k = "SELLER_CONFIRMED"
      BY <1>6
    <3>2. /\ invitation'[l].accepted = invitation[l].accepted
          /\ invitation'[l].rejected = invitation[l].rejected
          /\ invitation'[l].confirmed = TRUE
          /\ Sent(l) /\ Sent(l)'
      BY <1>1, <1>3, <1>5
    <3> QED
      BY <3>1, <3>2, <2>1, <2>2
  <2>3. CASE m # l
    BY <1>1, <1>5, <1>6, <2>1, <2>3
  <2> QED
    BY <2>2, <2>3
<1> QED
  BY <1>7, <1>8, <1>12, <1>13

\* The dealer rejects the standing acceptance.
LEMMA RejectStep ==
  ASSUME LinksInv, NEW l \in Invitations, Reject(l), UNCHANGED proposals
  PROVE  /\ OutcomesConsistent' /\ OneLiveLink' /\ WithdrawnNeverAccepted'
         /\ AgreementBacked' /\ NoticesMatchOutcomes'
<1> DEFINE new == [invitation[l] EXCEPT !.rejected = TRUE]
<1>1. /\ Sent(l)
      /\ invitation' = [invitation EXCEPT ![l] = new]
  BY LinkTypes DEF Reject, Decidable, Sent
<1>2. invitation[l] \in InvitationRows
  BY <1>1, LinkRow
<1>3. /\ new.rejected = TRUE /\ new.proposal = invitation[l].proposal
      /\ new.revoked = invitation[l].revoked
      /\ new.accepted = invitation[l].accepted
      /\ new.confirmed = invitation[l].confirmed
      /\ new.expired = invitation[l].expired
      /\ new # None
  <2>1. new \in InvitationRows
    BY <1>2 DEF InvitationRows
  <2> QED
    BY <2>1, <1>2, NegotiationAssumption DEF InvitationRows
<1>4. \A m \in Invitations : invitation'[m] = IF m = l THEN new ELSE invitation[m]
  BY <1>1, LinkTypes
<1> HIDE DEF new
<1>5. /\ \A m \in Invitations : Sent(m)' <=> Sent(m)
      /\ Sent(l)' /\ invitation'[l] = new
      /\ \A m \in Invitations : m # l => invitation'[m] = invitation[m]
  BY <1>1, <1>3, <1>4 DEF Sent
<1>6. /\ invitation[l].accepted /\ ~invitation[l].revoked
      /\ ~invitation[l].confirmed /\ ~invitation[l].rejected
      /\ project.accepted = invitation[l].proposal /\ project.confirmed = None
      /\ project'.accepted = None /\ project'.confirmed = None
      /\ notices' = notices \cup ({l} \X {"SELLER_REJECTED"})
  BY LinkTypes DEF Reject, Decidable, Enqueued, Projects
<1>7. OutcomesConsistent'
  <2> SUFFICES ASSUME NEW m \in Invitations, Sent(m)
               PROVE  OutcomesConsistent!(m)!2'
    BY <1>5 DEF OutcomesConsistent
  <2>1. OutcomesConsistent!(m)!2
    BY DEF LinksInv, OutcomesConsistent
  <2>2. CASE m = l
    <3>1. /\ new.accepted /\ (new.confirmed => ~new.rejected)
          /\ proposals'[new.proposal] # None
      BY <1>1, <1>3, <1>6, <2>1, <2>2
    <3> QED
      BY <1>5, <2>2, <3>1
  <2>3. CASE m # l
    BY <1>5, <2>1, <2>3
  <2> QED
    BY <2>2, <2>3
<1>8. OneLiveLink' /\ WithdrawnNeverAccepted'
  <2>1. \A m \in Invitations : Live(m)' => m # l /\ Live(m)
    BY <1>3, <1>5, <1>6 DEF Live
  <2>2. OneLiveLink'
    BY <2>1 DEF LinksInv, OneLiveLink
  <2>3. WithdrawnNeverAccepted'
    BY <1>1, <1>3, <1>5, <1>6 DEF LinksInv, WithdrawnNeverAccepted
  <2> QED
    BY <2>2, <2>3
<1>9. \A m \in Invitations : Standing(m) <=> m = l
  BY <1>1, <1>6 DEF LinksInv, AgreementBacked, Standing
<1>10. \A m \in Invitations : Standing(m)' <=> FALSE
  BY <1>1, <1>3, <1>5, <1>6, <1>9 DEF Standing
<1>11. invitation[l].proposal # None
  BY <1>1, LinkRow, LinkTypes
<1>12. AgreementBacked'
  BY <1>3, <1>5, <1>6, <1>10, <1>11 DEF AgreementBacked
<1>13. NoticesMatchOutcomes'
  <2> SUFFICES ASSUME NEW m \in Invitations PROVE NoticesMatchOutcomes!(m)'
    BY DEF NoticesMatchOutcomes
  <2>1. NoticesMatchOutcomes!(m)
    BY DEF LinksInv, NoticesMatchOutcomes
  <2>2. CASE m = l
    <3>1. \A k : <<l, k>> \in notices' <=> <<l, k>> \in notices \/ k = "SELLER_REJECTED"
      BY <1>6
    <3>2. /\ invitation'[l].accepted = invitation[l].accepted
          /\ invitation'[l].confirmed = invitation[l].confirmed
          /\ invitation'[l].rejected = TRUE
          /\ Sent(l) /\ Sent(l)'
      BY <1>1, <1>3, <1>5
    <3> QED
      BY <3>1, <3>2, <2>1, <2>2
  <2>3. CASE m # l
    BY <1>1, <1>5, <1>6, <2>1, <2>3
  <2> QED
    BY <2>2, <2>3
<1> QED
  BY <1>7, <1>8, <1>12, <1>13

\* Every step of the pages and of the links keeps LinksInv.
THEOREM LinksStep == LinksInv /\ [Next]_vars => LinksInv'
<1> SUFFICES ASSUME LinksInv, [Next]_vars PROVE LinksInv'
  OBVIOUS
<1> DEFINE Rest == /\ OutcomesConsistent' /\ OneLiveLink' /\ WithdrawnNeverAccepted'
                   /\ AgreementBacked' /\ NoticesMatchOutcomes'
<1>1. EditingInv'
  BY EditingStep DEF LinksInv
<1>2. CASE ProductsNext /\ UNCHANGED linkVars
  BY <1>1, <1>2, PagesStep
<1>3. CASE LinkNext /\ UNCHANGED <<items, proposals, activities, request>>
  <2>1. ASSUME NEW l \in Invitations, NEW p \in Proposals, Invite(l, p)
        PROVE  Rest
    BY <1>3, <2>1, InviteStep
  <2>2. ASSUME NEW l \in Invitations, CheckAcceptance(l)
        PROVE  Rest
    <3>1. UNCHANGED <<project, invitation, notices, proposals>>
      BY <1>3, <2>2 DEF CheckAcceptance
    <3> QED
      BY <3>1 DEF LinksInv, OutcomesConsistent, OneLiveLink, Live, Standing, Sent,
         WithdrawnNeverAccepted, AgreementBacked, NoticesMatchOutcomes
  <2>3. ASSUME NEW l \in Invitations, Accept(l)
        PROVE  Rest
    BY <1>3, <2>3, AcceptStep
  <2>4. ASSUME NEW l \in Invitations, Revoke(l)
        PROVE  Rest
    BY <1>3, <2>4, RevokeStep
  <2>5. ASSUME NEW l \in Invitations, Confirm(l)
        PROVE  Rest
    BY <1>3, <2>5, ConfirmStep
  <2>6. ASSUME NEW l \in Invitations, Reject(l)
        PROVE  Rest
    BY <1>3, <2>6, RejectStep
  <2>7. ASSUME NEW l \in Invitations, Expire(l)
        PROVE  Rest
    BY <1>3, <2>7, ExpireStep
  <2>8. Rest
    BY <1>3, <2>1, <2>2, <2>3, <2>4, <2>5, <2>6, <2>7 DEF LinkNext
  <2> QED
    BY <1>1, <2>8 DEF LinksInv
<1>4. CASE UNCHANGED vars
  BY <1>1, <1>4 DEF vars, LinksInv, OutcomesConsistent, OneLiveLink, Live, Standing,
     Sent, WithdrawnNeverAccepted, AgreementBacked, NoticesMatchOutcomes
<1> QED
  BY <1>2, <1>3, <1>4 DEF Next

\* LinksInv holds in every reachable state.
THEOREM LinksInvariant == Spec => []LinksInv
<1> QED
  BY LinksInit, LinksStep, PTL DEF Spec

\* The customer holds at most one usable link per case.
THEOREM AtMostOneLiveLink == Spec => []OneLiveLink
<1>1. LinksInv => OneLiveLink
  BY DEF LinksInv
<1> QED
  BY <1>1, LinksInvariant, PTL

\* A link withdrawn while its acceptance was under way agrees nothing.
THEOREM WithdrawnLinksAgreeNothing == Spec => []WithdrawnNeverAccepted
<1>1. LinksInv => WithdrawnNeverAccepted
  BY DEF LinksInv
<1> QED
  BY <1>1, LinksInvariant, PTL

\* The case row and the invitation rows agree on what was accepted and
\* confirmed, in every reachable state.
THEOREM AgreementAlwaysBacked == Spec => []AgreementBacked
<1>1. LinksInv => AgreementBacked
  BY DEF LinksInv
<1> QED
  BY <1>1, LinksInvariant, PTL

\* Notices are enqueued for exactly the outcomes recorded.
THEOREM NoticesAlwaysMatch == Spec => []NoticesMatchOutcomes
<1>1. LinksInv => NoticesMatchOutcomes
  BY DEF LinksInv
<1> QED
  BY <1>1, LinksInvariant, PTL

-----------------------------------------------------------------------------
(* The rows implement the agreement.                                       *)

\* The refinement mapping of Negotiation!Deal, by name.
offeredBar == {TermsOf(p) : p \in {q \in Proposals : proposals[q] # None}}
askedBar == IF project.accepted = None THEN None ELSE TermsOf(project.accepted)
closedBar == project.confirmed # None

\* The products on sale are goods of the abstract agreement.
LEMMA OnSaleType ==
  ASSUME TypeOK
  PROVE  OnSale \in Goods
<1>1. \A i \in Items : items[i] # None =>
        [config |-> items[i].config, archived |-> items[i].archived]
          \in [config: Configs, archived: BOOLEAN]
  BY Rows DEF ItemRows
<1> QED
  BY <1>1 DEF OnSale, Goods

\* The same in the next state.
LEMMA OnSaleTypeNext == TypeOK' => (OnSale \in Goods)'
<1>1. TypeOK => OnSale \in Goods
  BY OnSaleType
<1> QED
  BY <1>1, PTL

\* What was offered are terms of the abstract agreement.
LEMMA TermsType ==
  ASSUME TypeOK, NEW p \in Proposals, proposals[p] # None
  PROVE  TermsOf(p) \in Terms
  BY Rows DEF TermsOf, Terms, ProposalRows

\* The same in the next state.
LEMMA OfferedTypeNext == TypeOK' => (offeredBar \subseteq Terms)'
<1>1. TypeOK => offeredBar \subseteq Terms
  BY TermsType DEF offeredBar
<1> QED
  BY <1>1, PTL

\* The initial states are initial states of the agreement.
THEOREM AgreementInitRefines == Init => Deal!AgreementInit
<1> SUFFICES ASSUME Init PROVE Deal!AgreementInit
  OBVIOUS
<1>1. OnSale \in Goods
  BY EditingInit, OnSaleType DEF EditingInv
<1>2. /\ project.accepted = None /\ project.confirmed = None
      /\ \A q \in Proposals : proposals[q] = None
  BY DEF Init, ProductsInit
<1> QED
  BY <1>1, <1>2 DEF Deal!AgreementInit

\* While the agreement stands still the goods may change only if nothing is
\* accepted.
LEMMA GoodsStep ==
  ASSUME TypeOK', project.accepted = None,
         UNCHANGED <<offeredBar, askedBar, closedBar>>
  PROVE  Deal!AgreementNext
<1>1. OnSale' \in Goods
  BY OnSaleTypeNext
<1> QED
  BY <1>1 DEF Deal!AgreementNext, Deal!Rework, offeredBar, askedBar, closedBar

\* Every step of the rows is a step of the agreement, or changes nothing of it.
THEOREM AgreementStepRefines ==
  LinksInv /\ [Next]_vars => [Deal!AgreementNext]_Deal!agreementVars
<1> SUFFICES ASSUME LinksInv, [Next]_vars
             PROVE  \/ Deal!AgreementNext
                    \/ UNCHANGED <<offeredBar, OnSale, askedBar, closedBar>>
  BY DEF Deal!agreementVars, offeredBar, askedBar, closedBar
<1> USE DEF offeredBar, askedBar, closedBar
<1>1. /\ EditingInv /\ TypeOK'
  <2>1. LinksInv'
    BY LinksStep
  <2> QED
    BY <2>1 DEF LinksInv, EditingInv
<1>2. project.accepted # None => proposals[project.accepted] # None
                                /\ project.accepted \in Proposals
  <2>1. ASSUME project.accepted # None
        PROVE  \E l \in Invitations : Standing(l) /\ project.accepted = invitation[l].proposal
    BY <2>1 DEF LinksInv, AgreementBacked
  <2> QED
    BY <2>1, LinkRow DEF LinksInv, OutcomesConsistent, Standing
<1>3. \A p \in Proposals : proposals[p] # None => TermsOf(p) # None
  BY <1>1, TermsType, NegotiationAssumption DEF EditingInv
<1>4. CASE ProductsNext /\ UNCHANGED linkVars
  <2>1. /\ project'.accepted = project.accepted
        /\ project'.confirmed = project.confirmed
        /\ \A p \in Proposals : proposals[p] # None =>
             proposals'[p] # None /\ TermsOf(p)' = TermsOf(p)
    BY <1>1, <1>4, PagesKeepDeal
  <2>2. UNCHANGED <<askedBar, closedBar>>
    BY <1>2, <2>1
  <2>3. ASSUME NEW r \in Requests, NEW p \in Proposals, NEW b \in BOOLEAN,
               Propose(r, p, b)
        PROVE  Deal!AgreementNext
    <3>1. /\ proposals[p] = None /\ project.accepted = None /\ OnSale' = OnSale
      BY <2>3 DEF Propose, Unlocked, OnSale
    <3>2. /\ proposals'[p] # None
          /\ \A q \in Proposals : q # p => proposals'[q] = proposals[q]
      BY <1>1, <2>3, ProposedRow, ProductsAssumption
    <3>3. \A q \in Proposals : q # p => TermsOf(q)' = TermsOf(q)
      BY <3>2 DEF TermsOf
    <3>4. offeredBar' = offeredBar \cup {TermsOf(p)'}
      BY <3>1, <3>2, <3>3
    <3>5. offeredBar' \subseteq Terms
      BY <1>1, OfferedTypeNext
    <3>6. askedBar = None
      BY <3>1
    <3> HIDE DEF offeredBar, askedBar, closedBar
    <3> QED
      BY <2>2, <3>1, <3>4, <3>5, <3>6
         DEF Deal!AgreementNext, Deal!Offer, offeredBar, askedBar, closedBar
  <2>4. CASE ~ \E r \in Requests, p \in Proposals, b \in BOOLEAN : Propose(r, p, b)
    <3>1. \A q \in Proposals : proposals[q] = None => proposals'[q] = None
      <4>1. ASSUME NEW p \in Proposals, Lapse(p)
            PROVE  \A q \in Proposals : proposals[q] = None => proposals'[q] = None
        BY <4>1 DEF Lapse
      <4>2. \/ proposals' = proposals
            \/ \E p \in Proposals : Lapse(p)
        BY <1>4, <2>4 DEF ProductsNext, Load, Receive, AddItem, UpdateItem,
           ArchiveItem, SavePictures, UpdateCustomer, DeclareCosts
      <4> QED
        BY <4>1, <4>2
    <3>2. offeredBar' = offeredBar
      BY <2>1, <3>1
    <3>3. \/ project.accepted = None
          \/ OnSale' = OnSale
      <4>1. ASSUME NEW r \in Requests, SavePictures(r)
            PROVE  OnSale' = OnSale
        BY <1>1, <4>1, EditingStep, PicturesKeepGoods
      <4>2. \/ project.accepted = None
            \/ items' = items
            \/ \E r \in Requests : SavePictures(r)
        BY <1>4 DEF ProductsNext, Load, Receive, AddItem, UpdateItem, ArchiveItem,
           UpdateCustomer, Propose, DeclareCosts, Lapse, Unlocked
      <4> QED
        BY <4>1, <4>2 DEF OnSale
    <3> HIDE DEF offeredBar, askedBar, closedBar
    <3>4. CASE project.accepted = None
      BY <1>1, <2>2, <3>2, <3>4, GoodsStep
    <3>5. CASE OnSale' = OnSale
      BY <2>2, <3>2, <3>5
    <3> QED
      BY <3>3, <3>4, <3>5
  <2> QED
    BY <2>3, <2>4
<1>5. CASE LinkNext /\ UNCHANGED <<items, proposals, activities, request>>
  <2>1. offeredBar' = offeredBar /\ OnSale' = OnSale
        /\ \A p \in Proposals : TermsOf(p)' = TermsOf(p)
    BY <1>5 DEF OnSale, TermsOf
  <2>2. ASSUME NEW l \in Invitations, Accept(l)
        PROVE  Deal!AgreementNext
    <3>1. /\ project.accepted = None /\ project.confirmed = None
          /\ invitation[l].proposal \in Proposals
          /\ proposals[invitation[l].proposal] # None
          /\ project'.accepted = invitation[l].proposal
          /\ project'.confirmed = None
      <4>1. Sent(l) /\ project \in Projects
        BY <2>2, LinkTypes DEF Accept
      <4> QED
        BY <2>2, <4>1, LinkRow DEF Accept, Unlocked, Projects, LinksInv, OutcomesConsistent
    <3>2. askedBar = None /\ askedBar' = TermsOf(invitation[l].proposal)
      BY <3>1, <2>1, ProductsAssumption
    <3>3. TermsOf(invitation[l].proposal) \in offeredBar
      BY <3>1
    <3>4. closedBar' = closedBar
      BY <3>1
    <3> HIDE DEF offeredBar, askedBar, closedBar
    <3> QED
      BY <2>1, <3>2, <3>3, <3>4
         DEF Deal!AgreementNext, Deal!Ask, offeredBar, askedBar, closedBar
  <2>3. ASSUME NEW l \in Invitations, Confirm(l) \/ Reject(l)
        PROVE  Deal!AgreementNext
    <3>1. /\ Sent(l) /\ project \in Projects
          /\ project.accepted = invitation[l].proposal /\ project.confirmed = None
      BY <2>3, LinkTypes DEF Confirm, Reject, Decidable
    <3>2. invitation[l].proposal \in Proposals /\ project.accepted # None
      BY <3>1, LinkRow, ProductsAssumption
    <3>3. askedBar # None /\ ~closedBar
      BY <1>2, <1>3, <3>1, <3>2
    <3>4. CASE Confirm(l)
      <4>1. closedBar' = TRUE /\ askedBar' = askedBar
        BY <2>1, <3>1, <3>2, <3>4 DEF Confirm, Projects
      <4> HIDE DEF offeredBar, askedBar, closedBar
      <4> QED
        BY <2>1, <3>3, <4>1
           DEF Deal!AgreementNext, Deal!Close, offeredBar, askedBar, closedBar
    <3>5. CASE Reject(l)
      <4>1. askedBar' = None /\ closedBar' = closedBar
        BY <3>1, <3>5 DEF Reject, Projects
      <4> HIDE DEF offeredBar, askedBar, closedBar
      <4> QED
        BY <2>1, <3>3, <4>1
           DEF Deal!AgreementNext, Deal!Refuse, offeredBar, askedBar, closedBar
    <3> QED
      BY <2>3, <3>4, <3>5
  <2>4. CASE UNCHANGED project
    BY <1>2, <2>1, <2>4
  <2> QED
    BY <1>5, <2>2, <2>3, <2>4 DEF LinkNext, Invite, CheckAcceptance, Revoke, Expire
<1>6. CASE UNCHANGED vars
  BY <1>6 DEF vars, OnSale, TermsOf
<1> QED
  BY <1>4, <1>5, <1>6 DEF Next

\* The negotiation implements the agreement: offers are made and products change
\* only while nothing is accepted, what is accepted was offered, and a
\* confirmed deal never changes.
THEOREM NegotiationImplementsAgreement == Spec => ImplementsAgreement
<1> QED
  BY AgreementInitRefines, AgreementStepRefines, LinksInvariant, PTL
     DEF Spec, ImplementsAgreement, Deal!AgreementSpec
-----------------------------------------------------------------------------
(* A submission counts once.                                               *)

\* What the server keeps of a submission, which refuses it from then on: the
\* row it added, a later version of the row it edits, a later revision of the
\* case.
SpentOn(r) ==
  LET f == request[r].form IN
  CASE f.op = "add" -> \E i \in Items : items[i] # None /\ items[i].requestKey = r
    [] f.op \in {"update", "archive", "pictures"} ->
         request[r].seen.items[f.item].version < items[f.item].version
    [] OTHER -> request[r].seen.revision < project.financeRevision

Loaded == {r \in Requests : request[r] # None}
Spent == {r \in Loaded : SpentOn(r)}

\* Every move of the revision has spent a submission of its own.
OnceInv == /\ EditingInv
           /\ IsFiniteSet(Loaded)
           /\ project.financeRevision <= Cardinality(Spent)

\* The revision of the case and the versions of its rows only grow, and what a
\* submission was loaded with stays.
OnlyGrows ==
  /\ project.financeRevision <= project'.financeRevision
  /\ \A i \in Items : items[i] # None =>
       /\ items'[i] # None
       /\ items'[i].requestKey = items[i].requestKey
       /\ items[i].version <= items'[i].version
  /\ \A r \in Requests : request[r] # None =>
       /\ request'[r] # None
       /\ request'[r].form = request[r].form
       /\ request'[r].seen = request[r].seen

\* A submission spent stays spent.
LEMMA SpentKept ==
  ASSUME EditingInv, TypeOK', OnlyGrows
  PROVE  Spent \subseteq Spent'
<1> SUFFICES ASSUME NEW r \in Spent PROVE r \in Spent'
  OBVIOUS
<1> DEFINE f == request[r].form
           seen == request[r].seen
<1>1. r \in Requests /\ request[r] # None /\ SpentOn(r) /\ CopiesOf(r)
  BY DEF Spent, Loaded, EditingInv, CopiesCurrent
<1>2. request[r] \in Submissions /\ f \in Forms /\ seen \in Pages
  BY <1>1, Rows DEF EditingInv, Submissions
<1>3. request'[r] # None /\ request'[r].form = f /\ request'[r].seen = seen
  BY <1>1 DEF OnlyGrows
<1>4. /\ project.financeRevision \in Nat /\ project'.financeRevision \in Nat
      /\ project.financeRevision <= project'.financeRevision
  BY DEF EditingInv, TypeOK, ProductsTypeOK, Projects, OnlyGrows
<1>5. SpentOn(r)'
  <2>1. CASE f.op = "add"
    <3>1. PICK i \in Items : items[i] # None /\ items[i].requestKey = r
      BY <1>1, <2>1 DEF SpentOn
    <3>2. items'[i] # None /\ items'[i].requestKey = r
      BY <3>1 DEF OnlyGrows
    <3> QED
      BY <2>1, <1>3, <3>2 DEF SpentOn
  <2>2. CASE f.op \in {"update", "archive", "pictures"}
    <3>1. f.item \in Items /\ f.item # None
      BY <1>2, <2>2, FormFields, ProductsAssumption
    <3>2. /\ seen.items[f.item] # None /\ items[f.item] # None
          /\ seen.items[f.item].version < items[f.item].version
      BY <1>1, <2>2, <3>1 DEF CopiesOf, SameRow, SpentOn
    <3>3. /\ items'[f.item] # None
          /\ items[f.item].version <= items'[f.item].version
      BY <3>1, <3>2 DEF OnlyGrows
    <3>4. /\ seen.items[f.item].version \in Nat
          /\ items[f.item].version \in Nat
          /\ items'[f.item].version \in Nat
      BY <1>2, <3>1, <3>2, <3>3 DEF Pages, ItemRows, EditingInv, TypeOK, ProductsTypeOK
    <3>5. seen.items[f.item].version < items'[f.item].version
      BY <3>2, <3>3, <3>4
    <3> QED
      BY <2>2, <1>3, <3>5 DEF SpentOn
  <2>3. CASE f.op \notin {"add", "update", "archive", "pictures"}
    <3>1. seen.revision < project.financeRevision
      BY <1>1, <2>3 DEF SpentOn
    <3>2. seen.revision < project'.financeRevision
      BY <1>2, <1>4, <3>1 DEF Pages
    <3> HIDE DEF f, seen
    <3>3. f = request[r].form /\ seen = request[r].seen
      BY DEF f, seen
    <3> QED
      BY <2>3, <1>3, <3>2 DEF SpentOn
  <2> QED
    BY <2>1, <2>2, <2>3
<1>6. r \in Loaded'
  BY <1>1, <1>3 DEF Loaded
<1> QED
  BY <1>5, <1>6 DEF Spent

\* A step that leaves the revision alone loads one page at most; the others
\* commit a submission not spent before.
Quietly == /\ project'.financeRevision = project.financeRevision
           /\ \/ Loaded' \subseteq Loaded
              \/ \E r \in Requests : Loaded' \subseteq Loaded \cup {r}
CommitOf(r) == /\ project'.financeRevision = project.financeRevision + 1
               /\ UNCHANGED request
               /\ r \in Loaded
               /\ ~SpentOn(r)
               /\ SpentOn(r)'
Counted == Quietly \/ \E r \in Requests : CommitOf(r)

\* A commit that writes one row.
LEMMA RowGrows ==
  ASSUME EditingInv, NEW i \in Items, NEW row \in ItemRows,
         \/ items[i] = None
         \/ /\ row.requestKey = items[i].requestKey
            /\ row.version = items[i].version + 1,
         items' = [items EXCEPT ![i] = row],
         project' \in {Bumped(project), BumpedOpen(project)},
         UNCHANGED request
  PROVE  /\ OnlyGrows
         /\ project'.financeRevision = project.financeRevision + 1
         /\ items'[i] = row
<1>1. /\ items \in [Items -> ItemRows \cup {None}]
      /\ project.financeRevision \in Nat
      /\ project'.financeRevision = project.financeRevision + 1
  BY BumpedType DEF EditingInv, TypeOK, ProductsTypeOK, Projects
<1>2. \A j \in Items : items'[j] = IF j = i THEN row ELSE items[j]
  BY <1>1
<1>3. \A j \in Items : items[j] # None => items[j].version \in Nat
  BY <1>1 DEF ItemRows
<1>4. row # None
  BY ProductsAssumption
<1>5. project.financeRevision <= project'.financeRevision
  BY <1>1
<1>6. ASSUME NEW j \in Items, items[j] # None
      PROVE  /\ items'[j] # None
             /\ items'[j].requestKey = items[j].requestKey
             /\ items[j].version <= items'[j].version
  <2>1. CASE j = i
    BY <2>1, <1>2, <1>3, <1>4, <1>6
  <2>2. CASE j # i
    BY <2>2, <1>2, <1>3, <1>6
  <2> QED
    BY <2>1, <2>2
<1> QED
  BY <1>1, <1>2, <1>5, <1>6 DEF OnlyGrows

\* A commit that writes no row.
LEMMA CaseGrows ==
  ASSUME EditingInv, UNCHANGED <<items, request>>,
         \/ project'.financeRevision = project.financeRevision + 1
         \/ project'.financeRevision = project.financeRevision
  PROVE  OnlyGrows
<1>1. items \in [Items -> ItemRows \cup {None}] /\ project.financeRevision \in Nat
  BY DEF EditingInv, TypeOK, ProductsTypeOK, Projects
<1>2. \A j \in Items : items[j] # None => items[j].version \in Nat
  BY <1>1 DEF ItemRows
<1>3. project.financeRevision <= project'.financeRevision
  BY <1>1
<1>4. \A j \in Items : items[j] # None => items[j].version <= items'[j].version
  BY <1>2
<1> QED
  BY <1>3, <1>4 DEF OnlyGrows

\* A row edited under its version: the version the page showed is then past.
LEMMA EditCommits ==
  ASSUME EditingInv, NEW r \in Requests,
         NEW op \in {"update", "archive", "pictures"}, Submitted(r, op),
         items[request[r].form.item].version = SeenVersion(r),
         NEW row \in ItemRows,
         row.requestKey = items[request[r].form.item].requestKey,
         row.version = items[request[r].form.item].version + 1,
         items' = [items EXCEPT ![request[r].form.item] = row],
         project' \in {Bumped(project), BumpedOpen(project)},
         UNCHANGED request
  PROVE  OnlyGrows /\ CommitOf(r)
<1>1. PICK i \in Items : /\ i = request[r].form.item
                         /\ items[i] \in ItemRows
  BY EditedRow
<1>2. /\ OnlyGrows
      /\ project'.financeRevision = project.financeRevision + 1
      /\ items'[i] = row
  BY <1>1, RowGrows
<1>3. PICK v \in Nat : v = items[i].version /\ v = request[r].seen.items[i].version
  BY <1>1 DEF SeenVersion, ItemRows
<1>4. ~(v < v) /\ v < v + 1
  OBVIOUS
<1>5. /\ request[r] # None
      /\ request[r].form.op = op
      /\ request'[r] = request[r]
  BY DEF Submitted
<1>6. ~SpentOn(r)
  BY <1>1, <1>3, <1>4, <1>5 DEF SpentOn
<1>7. items'[i].version = v + 1
  BY <1>1, <1>2, <1>3
<1>8. SpentOn(r)'
  BY <1>1, <1>3, <1>4, <1>5, <1>7 DEF SpentOn
<1> QED
  BY <1>2, <1>5, <1>6, <1>8 DEF CommitOf, Loaded

\* A commit guarded by the revision: the revision the page showed is then past.
LEMMA RevisionCommits ==
  ASSUME EditingInv, NEW r \in Requests,
         NEW op \in {"customer", "propose", "costs"}, Submitted(r, op),
         project.financeRevision = request[r].seen.revision,
         project'.financeRevision = project.financeRevision + 1,
         UNCHANGED <<items, request>>
  PROVE  OnlyGrows /\ CommitOf(r)
<1>1. PICK n \in Nat : n = project.financeRevision
  BY DEF EditingInv, TypeOK, ProductsTypeOK, Projects
<1>2. ~(n < n) /\ n < n + 1
  OBVIOUS
<1>3. /\ request[r] # None
      /\ request[r].form.op = op
      /\ request'[r] = request[r]
  BY DEF Submitted
<1>4. ~SpentOn(r)
  BY <1>1, <1>2, <1>3 DEF SpentOn
<1>5. SpentOn(r)'
  BY <1>1, <1>2, <1>3 DEF SpentOn
<1>6. OnlyGrows
  BY CaseGrows
<1> QED
  BY <1>3, <1>4, <1>5, <1>6 DEF CommitOf, Loaded

\* Every step only grows what is kept and counts for itself.
LEMMA StepCounts ==
  ASSUME EditingInv, [Next]_vars
  PROVE  OnlyGrows /\ Counted
<1> DEFINE Fine == OnlyGrows /\ Counted
<1>0. /\ project \in Projects
      /\ items \in [Items -> ItemRows \cup {None}]
      /\ request \in [Requests -> Submissions \cup {None}]
  BY DEF EditingInv, TypeOK, ProductsTypeOK
<1>1. ASSUME UNCHANGED <<items, request>>,
             project'.financeRevision = project.financeRevision
      PROVE  Fine
  BY <1>1, CaseGrows DEF Counted, Quietly, Loaded
<1>2. ASSUME UNCHANGED <<project, items>>, NEW r \in Requests, NEW new,
             new # None,
             request' = [request EXCEPT ![r] = new],
             request[r] # None => /\ new.form = request[r].form
                                  /\ new.seen = request[r].seen
      PROVE  Fine
  <2>1. \A q \in Requests : request'[q] = IF q = r THEN new ELSE request[q]
    BY <1>0, <1>2
  <2>2. \A i \in Items : items[i] # None => items[i].version <= items[i].version
    BY <1>0 DEF ItemRows
  <2>3. OnlyGrows
    BY <1>0, <1>2, <2>1, <2>2 DEF OnlyGrows, Projects
  <2>4. Loaded' \subseteq Loaded \cup {r}
    BY <2>1 DEF Loaded
  <2> QED
    BY <1>2, <2>3, <2>4 DEF Counted, Quietly
<1>3. ASSUME NEW r \in Requests, NEW f \in Forms, Load(r, f)
      PROVE  Fine
  <2> DEFINE new == [form |-> f, seen |-> Page, received |-> FALSE, old |-> None]
  <2>1. Page \in Pages
    BY <1>0 DEF Page, Pages, Projects
  <2>2. new # None
    <3>1. new \in Submissions
      BY <2>1 DEF Submissions
    <3> HIDE DEF new
    <3> QED
      BY <3>1, ProductsAssumption
  <2>3. /\ request' = [request EXCEPT ![r] = new]
        /\ request[r] = None
        /\ UNCHANGED <<project, items>>
    BY <1>3 DEF Load
  <2> HIDE DEF new
  <2> QED
    BY <1>2, <2>2, <2>3
<1>4. ASSUME NEW r \in Requests, Receive(r)
      PROVE  Fine
  <2> DEFINE old == IF request[r].form.op = "pictures"
                      THEN items[request[r].form.item] ELSE None
             new == [request[r] EXCEPT !.received = TRUE, !.old = old]
  <2>1. request[r] \in Submissions
    BY <1>0, <1>4 DEF Receive
  <2>2. /\ request' = [request EXCEPT ![r] = new]
        /\ UNCHANGED <<project, items>>
    BY <1>0, <1>4 DEF Receive
  <2>3. new.form = request[r].form /\ new.seen = request[r].seen
    BY <2>1 DEF Submissions
  <2>4. request[r].form \in Forms
    BY <2>1 DEF Submissions
  <2>5. old \in ItemRows \cup {None}
    BY <1>0, <2>4, FormFields, ProductsAssumption
  <2>6. new \in Submissions
    BY <2>1, <2>5 DEF Submissions
  <2>7. new # None
    BY <2>6, ProductsAssumption
  <2> HIDE DEF new
  <2> QED
    BY <1>2, <2>2, <2>3, <2>7
<1>5. ASSUME NEW r \in Requests, NEW i \in Items, AddItem(r, i)
      PROVE  Fine
  <2> DEFINE row == [requestKey |-> r, config |-> request[r].form.config,
                     version |-> 1, pictures |-> NoPictures, archived |-> FALSE,
                     lastKey |-> None]
  <2>1. /\ request[r] # None /\ request[r].form.op = "add"
        /\ items[i] = None
        /\ items' = [items EXCEPT ![i] = row]
        /\ project' = BumpedOpen(project)
        /\ UNCHANGED request
    BY <1>5 DEF AddItem, Submitted
  <2>2. request[r].form \in Forms
    BY <1>0, <2>1 DEF Submissions
  <2>3. row \in ItemRows
    BY <2>1, <2>2, FormFields, NoPicturesType DEF ItemRows
  <2>4. row.requestKey = r /\ row # None
    BY <2>3, ProductsAssumption
  <2> HIDE DEF row
  <2>5. /\ OnlyGrows
        /\ project'.financeRevision = project.financeRevision + 1
        /\ items'[i] = row
    BY <2>1, <2>3, RowGrows
  <2>6. ~SpentOn(r)
    BY <1>5, <2>1 DEF SpentOn, AddItem, AlreadyApplied
  <2>7. SpentOn(r)'
    BY <2>1, <2>4, <2>5 DEF SpentOn
  <2> QED
    BY <2>1, <2>5, <2>6, <2>7 DEF Counted, CommitOf, Loaded
<1>6. ASSUME NEW r \in Requests, UpdateItem(r)
      PROVE  Fine
  <2> DEFINE row == Reconfigured(items[request[r].form.item],
                                 request[r].form.config, r)
  <2>1. /\ Submitted(r, "update")
        /\ items[request[r].form.item].version = SeenVersion(r)
        /\ items' = [items EXCEPT ![request[r].form.item] = row]
        /\ project' = BumpedOpen(project)
        /\ UNCHANGED request
    BY <1>6 DEF UpdateItem
  <2>2. items[request[r].form.item] \in ItemRows /\ request[r].form.config \in Configs
    BY <2>1, EditedRow, FormFields DEF Submitted
  <2>3. row \in ItemRows /\ row.version = items[request[r].form.item].version + 1
    BY <2>2, ReconfiguredType
  <2>4. row.requestKey = items[request[r].form.item].requestKey
    BY <2>2 DEF Reconfigured, ItemRows
  <2> HIDE DEF row
  <2>5. OnlyGrows /\ CommitOf(r)
    BY <2>1, <2>3, <2>4, EditCommits
  <2> QED
    BY <2>5 DEF Counted
<1>7. ASSUME NEW r \in Requests, ArchiveItem(r)
      PROVE  Fine
  <2> DEFINE row == ArchiveSet(items[request[r].form.item], request[r].form.flag)
  <2>1. /\ Submitted(r, "archive")
        /\ items[request[r].form.item].version = SeenVersion(r)
        /\ items' = [items EXCEPT ![request[r].form.item] = row]
        /\ project' = BumpedOpen(project)
        /\ UNCHANGED request
    BY <1>7 DEF ArchiveItem
  <2>2. items[request[r].form.item] \in ItemRows /\ request[r].form.flag \in BOOLEAN
    BY <2>1, EditedRow, FormFields DEF Submitted
  <2>3. row \in ItemRows /\ row.version = items[request[r].form.item].version + 1
    BY <2>2, ArchiveSetType
  <2>4. row.requestKey = items[request[r].form.item].requestKey
    BY <2>2 DEF ArchiveSet, ItemRows
  <2> HIDE DEF row
  <2>5. OnlyGrows /\ CommitOf(r)
    BY <2>1, <2>3, <2>4, EditCommits
  <2> QED
    BY <2>5 DEF Counted
<1>8. ASSUME NEW r \in Requests, SavePictures(r)
      PROVE  Fine
  <2> DEFINE row == Pictured(items[request[r].form.item], request[r].old,
                             request[r].form.kinds,
                             request[r].seen.items[request[r].form.item], r)
  <2>1. /\ Submitted(r, "pictures")
        /\ items[request[r].form.item].version = SeenVersion(r)
        /\ items' = [items EXCEPT ![request[r].form.item] = row]
        /\ project' = Bumped(project)
        /\ UNCHANGED request
    BY <1>8 DEF SavePictures
  <2>2. PICK i \in Items : i = request[r].form.item /\ items[i] \in ItemRows
    BY <2>1, EditedRow
  <2>3. row.requestKey = items[i].requestKey /\ row.version = items[i].version + 1
    BY <2>2 DEF Pictured, ItemRows
  <2>4. row \in ItemRows
    BY <1>8, <2>1, <2>2, PicturedRow
  <2> HIDE DEF row
  <2>5. OnlyGrows /\ CommitOf(r)
    BY <2>1, <2>2, <2>3, <2>4, EditCommits
  <2> QED
    BY <2>5 DEF Counted
<1>9. ASSUME NEW r \in Requests, UpdateCustomer(r)
      PROVE  Fine
  <2>1. /\ Submitted(r, "customer")
        /\ project.financeRevision = request[r].seen.revision
        /\ UNCHANGED <<items, request>>
    BY <1>9 DEF UpdateCustomer
  <2>2. project'.financeRevision = project.financeRevision + 1
    BY <1>0, <1>9 DEF UpdateCustomer, Bumped, Projects
  <2>3. OnlyGrows /\ CommitOf(r)
    BY <2>1, <2>2, RevisionCommits
  <2> QED
    BY <2>3 DEF Counted
<1>10. ASSUME NEW r \in Requests, NEW p \in Proposals, NEW b \in BOOLEAN,
              Propose(r, p, b)
       PROVE  Fine
  <2>1. /\ Submitted(r, "propose")
        /\ project.financeRevision = request[r].seen.revision
        /\ UNCHANGED <<items, request>>
    BY <1>10 DEF Propose
  <2>2. project'.financeRevision = project.financeRevision + 1
    BY <1>0, <1>10 DEF Propose, Bumped, Projects
  <2>3. OnlyGrows /\ CommitOf(r)
    BY <2>1, <2>2, RevisionCommits
  <2> QED
    BY <2>3 DEF Counted
<1>11. ASSUME NEW r \in Requests, DeclareCosts(r)
       PROVE  Fine
  <2>1. /\ Submitted(r, "costs")
        /\ project.financeRevision = request[r].seen.revision
        /\ UNCHANGED <<items, request>>
    BY <1>11 DEF DeclareCosts
  <2>2. project'.financeRevision = project.financeRevision + 1
    BY <1>0, <1>11 DEF DeclareCosts, Bumped, Projects
  <2>3. OnlyGrows /\ CommitOf(r)
    BY <2>1, <2>2, RevisionCommits
  <2> QED
    BY <2>3 DEF Counted
<1>12. ASSUME NEW p \in Proposals, Lapse(p)
       PROVE  Fine
  BY <1>12, <1>1 DEF Lapse
<1> HIDE DEF Fine
<1>13. ProductsNext => Fine
  BY <1>3, <1>4, <1>5, <1>6, <1>7, <1>8, <1>9, <1>10, <1>11, <1>12
     DEF ProductsNext
<1>14. LinkNext /\ UNCHANGED <<items, proposals, activities, request>> => Fine
  <2> SUFFICES ASSUME LinkNext,
                      UNCHANGED <<items, proposals, activities, request>>
               PROVE  Fine
    OBVIOUS
  <2>1. project'.financeRevision = project.financeRevision
    BY <1>0 DEF LinkNext, Invite, CheckAcceptance, Accept, Revoke, Confirm,
                Reject, Expire, Projects
  <2> QED
    BY <1>1, <2>1
<1>15. UNCHANGED vars => Fine
  BY <1>1 DEF vars
<1>16. Fine
  BY <1>13, <1>14, <1>15 DEF Next
<1> QED
  BY <1>16 DEF Fine

\* The count of the submissions spent keeps up with the revision.
THEOREM OnceStep == OnceInv /\ [Next]_vars => OnceInv'
<1> SUFFICES ASSUME OnceInv, [Next]_vars PROVE OnceInv'
  OBVIOUS
<1>1. EditingInv /\ EditingInv'
  BY EditingStep DEF OnceInv
<1>2. OnlyGrows /\ Counted
  BY <1>1, StepCounts
<1>3. Spent \subseteq Spent'
  BY <1>1, <1>2, SpentKept DEF EditingInv
<1>4. IsFiniteSet(Loaded')
  <2>1. CASE Loaded' \subseteq Loaded
    BY <2>1, FS_Subset DEF OnceInv
  <2>2. CASE \E r \in Requests : Loaded' \subseteq Loaded \cup {r}
    <3>1. PICK r \in Requests : Loaded' \subseteq Loaded \cup {r}
      BY <2>2
    <3>2. IsFiniteSet(Loaded \cup {r})
      BY FS_AddElement DEF OnceInv
    <3> QED
      BY <3>1, <3>2, FS_Subset
  <2>3. CASE UNCHANGED request
    BY <2>3 DEF OnceInv, Loaded
  <2> QED
    BY <1>2, <2>1, <2>2, <2>3 DEF Counted, Quietly, CommitOf
<1>5. IsFiniteSet(Spent) /\ IsFiniteSet(Spent')
  <2>1. Spent \subseteq Loaded /\ Spent' \subseteq Loaded'
    BY DEF Spent
  <2> QED
    BY <1>4, <2>1, FS_Subset DEF OnceInv
<1>6. PICK n \in Nat : n = Cardinality(Spent)
  BY <1>5, FS_CardinalityType
<1>7. PICK m \in Nat : m = Cardinality(Spent')
  BY <1>5, FS_CardinalityType
<1>8. n <= m
  BY <1>3, <1>5, <1>6, <1>7, FS_Subset
<1>9. PICK v \in Nat : v = project.financeRevision
  BY <1>1 DEF EditingInv, TypeOK, ProductsTypeOK, Projects
<1>10. v <= n
  BY <1>6, <1>9 DEF OnceInv
<1>11. project'.financeRevision <= m
  <2>1. CASE Quietly
    BY <2>1, <1>8, <1>9, <1>10 DEF Quietly
  <2>2. CASE \E r \in Requests : CommitOf(r)
    <3>1. PICK r \in Requests : CommitOf(r)
      BY <2>2
    <3>2. r \notin Spent /\ r \in Spent'
      BY <3>1 DEF CommitOf, Spent, Loaded
    <3>3. Spent \cup {r} \subseteq Spent'
      BY <1>3, <3>2
    <3>4. IsFiniteSet(Spent \cup {r}) /\ Cardinality(Spent \cup {r}) = n + 1
      BY <1>5, <1>6, <3>2, FS_AddElement
    <3>5. n + 1 <= m
      BY <1>5, <1>7, <3>3, <3>4, FS_Subset
    <3>6. project'.financeRevision = v + 1
      BY <3>1, <1>9 DEF CommitOf
    <3> QED
      BY <1>10, <3>5, <3>6
  <2> QED
    BY <1>2, <2>1, <2>2 DEF Counted
<1> QED
  BY <1>1, <1>4, <1>7, <1>11 DEF OnceInv

\* A submission changes the case at most once, however often it is delivered
\* and whatever the other pages commit in between.
THEOREM SubmissionsCountOnce == Spec => []AtMostOnce
<1>1. Init => OnceInv
  <2> SUFFICES ASSUME Init PROVE OnceInv
    OBVIOUS
  <2>1. Loaded = {} /\ Spent = {} /\ project.financeRevision = 0
    BY DEF Init, ProductsInit, Loaded, Spent
  <2> QED
    BY <2>1, EditingInit, FS_EmptySet DEF OnceInv
<1>2. OnceInv => AtMostOnce
  <2> SUFFICES ASSUME OnceInv PROVE project.financeRevision <= Cardinality(Loaded)
    BY DEF AtMostOnce, Loaded
  <2>1. Spent \subseteq Loaded
    BY DEF Spent
  <2>2. IsFiniteSet(Spent) /\ Cardinality(Spent) <= Cardinality(Loaded)
    BY <2>1, FS_Subset DEF OnceInv
  <2>3. Cardinality(Spent) \in Nat /\ Cardinality(Loaded) \in Nat
    BY <2>2, FS_CardinalityType DEF OnceInv
  <2>4. project.financeRevision \in Nat
    BY DEF OnceInv, EditingInv, TypeOK, ProductsTypeOK, Projects
  <2> QED
    BY <2>2, <2>3, <2>4 DEF OnceInv
<1> QED
  BY <1>1, <1>2, OnceStep, PTL DEF Spec

=============================================================================
