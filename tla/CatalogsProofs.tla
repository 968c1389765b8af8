--------------------------- MODULE CatalogsProofs ---------------------------
(***************************************************************************)
(* For any number of catalogs, documents, trials, conversions, requests    *)
(* and restarts: what is approved is what was reviewed, a conversion ends  *)
(* well only on the draft it has read, and a set-up that counts as         *)
(* completed is complete.                                                  *)
(***************************************************************************)
EXTENDS DealerSetup, SequenceTheorems, TLAPS

-----------------------------------------------------------------------------
(* The invariants.                                                         *)

\* A trial reviewed at the present revision was reviewed on what the catalog
\* is: whatever changes that moves the revision.
ReviewedAsIs(c) ==
  \A t \in checks[c] :
    t.revision = catalogs[c].revision /\ t.key # 0 /\ t.result # "new" =>
      t.seen = Snapshot(c)

\* What the catalog was approved on.
ApprovedSound(c) ==
  catalogs[c].status = "APPROVED" =>
    /\ catalogs[c].approved = Snapshot(c)
    /\ \A k \in Trials(catalogs[c].dataset.content) :
         \E t \in checks[c] : t.key = k /\ t.result = "passed" /\ t.seen = Snapshot(c)

TrialsSound ==
  \A c \in DOMAIN catalogs :
    /\ \A t \in checks[c] : t.revision <= catalogs[c].revision
    /\ ReviewedAsIs(c)
    /\ ApprovedSound(c)

\* A conversion was started at a revision of its catalog.
JobSound(j) ==
  /\ jobs[j].catalog \in DOMAIN catalogs
  /\ jobs[j].revision <= catalogs[jobs[j].catalog].revision

\* What a request goes on with.
CallSound(k) ==
  call[k] # None =>
    /\ call[k].catalog \in DOMAIN catalogs
    /\ call[k].step = "create" => call[k].dataset \in Datasets
    /\ call[k].step = "commit" => call[k].revision # 0
    /\ call[k].step = "launch" => call[k].job \in DOMAIN jobs

\* As long as the catalog is at the revision of the conversion, what the
\* conversion has read is what is there.
ExecutionSound(j) ==
  executing[j] # None =>
    /\ j \in DOMAIN jobs
    /\ executing[j].step \in {"convert", "apply"} =>
         /\ executing[j].dataset \in Datasets
         /\ catalogs[jobs[j].catalog].revision = jobs[j].revision =>
              executing[j].dataset = catalogs[jobs[j].catalog].dataset
    /\ executing[j].step = "apply" =>
         /\ executing[j].output \in Datasets
         /\ catalogs[jobs[j].catalog].revision = jobs[j].revision =>
              executing[j].documents = Uploaded(jobs[j].catalog, Documents)

JobsSound ==
  /\ Len(jobs) <= MaxJobs
  /\ \A j \in DOMAIN jobs : JobSound(j)
  /\ \A k \in Calls : CallSound(k)
  /\ \A j \in 1..MaxJobs : ExecutionSound(j)

CatalogsInv == TypeOK /\ TrialsSound /\ JobsSound

\* The set-up: what a completion has read is past, or still true.
SetupSound ==
  /\ setup # None => accepted # {}
  /\ setup # None /\ setup.completed =>
       /\ setup.profile.complete /\ setup.mailed
       /\ \/ setup.profile.preset /\ PresetCatalogs
          \/ \E c \in DOMAIN catalogs : catalogs[c].approved # None
  /\ \A k \in Calls : completing[k] # None =>
       /\ setup # None
       /\ completing[k].row.revision <= setup.revision
       /\ completing[k].row.revision = setup.revision =>
            completing[k].row.profile = setup.profile
       /\ completing[k].row.mailed => setup.mailed
       /\ completing[k].approved # None /\ completing[k].approved =>
            \E c \in DOMAIN catalogs : catalogs[c].approved # None

SetupInv == CatalogsInv /\ SetupTypeOK /\ SetupSound

\* The rows of the catalogs have their types.
RowsTypeOK ==
  /\ catalogs \in Seq(CatalogRows)
  /\ sources \in Seq([Names -> SourceRows \cup {None}])
  /\ checks \in Seq(SUBSET CheckRows)
  /\ Len(sources) = Len(catalogs) /\ Len(checks) = Len(catalogs)

\* No catalog goes away, an approval stays, and at the same revision a catalog
\* has the same dataset and documents.
Moves(c) ==
  /\ c \in DOMAIN catalogs'
  /\ catalogs[c].revision <= catalogs'[c].revision
  /\ catalogs[c].approved # None => catalogs'[c].approved # None
  /\ catalogs'[c].revision = catalogs[c].revision =>
       /\ catalogs'[c].dataset = catalogs[c].dataset
       /\ Uploaded(c, Documents)' = Uploaded(c, Documents)

RowsMove == \A c \in DOMAIN catalogs : Moves(c)

-----------------------------------------------------------------------------
(* The rows.                                                               *)

LEMMA RowTypes ==
  ASSUME RowsTypeOK, NEW c \in DOMAIN catalogs
  PROVE  /\ catalogs[c] \in CatalogRows
         /\ c \in DOMAIN sources
         /\ c \in DOMAIN checks
         /\ sources[c] \in [Names -> SourceRows \cup {None}]
         /\ checks[c] \in SUBSET CheckRows
         /\ \A n \in Names : sources[c][n] # None => sources[c][n] \in SourceRows
<1>1. DOMAIN sources = DOMAIN catalogs /\ DOMAIN checks = DOMAIN catalogs
  BY LenProperties DEF RowsTypeOK
<1>2. /\ catalogs[c] \in CatalogRows
      /\ sources[c] \in [Names -> SourceRows \cup {None}]
      /\ checks[c] \in SUBSET CheckRows
  BY <1>1, ElementOfSeq DEF RowsTypeOK
<1> QED
  BY <1>1, <1>2

LEMMA UploadedType ==
  ASSUME RowsTypeOK, NEW c \in DOMAIN catalogs, NEW names \in SUBSET Names
  PROVE  Uploaded(c, names) \in SUBSET (names \X Hashes)
<1>1. \A n \in names : sources[c][n] # None => sources[c][n].hash \in Hashes
  BY RowTypes DEF SourceRows
<1> QED
  BY <1>1 DEF Uploaded

LEMMA SnapshotType ==
  ASSUME RowsTypeOK, NEW c \in DOMAIN catalogs
  PROVE  Snapshot(c) \in Snapshots /\ Snapshot(c) # None
<1>1. catalogs[c].dataset \in Datasets
  BY RowTypes DEF CatalogRows
<1>2. Uploaded(c, Names) \in SUBSET (Names \X Hashes)
  BY UploadedType
<1>3. Snapshot(c) \in Snapshots
  BY <1>1, <1>2 DEF Snapshot, Snapshots
<1> QED
  BY <1>3, CatalogsAssumption

\* A catalog whose rows stay as they are is what it was.
LEMMA SameCatalog ==
  ASSUME NEW c, catalogs'[c] = catalogs[c], sources'[c] = sources[c]
  PROVE  /\ Snapshot(c)' = Snapshot(c)
         /\ \A names : Uploaded(c, names)' = Uploaded(c, names)
<1>1. \A names : Uploaded(c, names)' = Uploaded(c, names)
  BY DEF Uploaded
<1> QED
  BY <1>1 DEF Snapshot

LEMMA SameMoves ==
  ASSUME RowsTypeOK, NEW c \in DOMAIN catalogs, c \in DOMAIN catalogs',
         catalogs'[c] = catalogs[c], sources'[c] = sources[c]
  PROVE  Moves(c)
<1>1. catalogs[c].revision \in Nat
  BY RowTypes, CatalogsAssumption DEF CatalogRows
<1> QED
  BY <1>1, SameCatalog DEF Moves

LEMMA SameTrials ==
  ASSUME NEW c, catalogs'[c] = catalogs[c], sources'[c] = sources[c],
         checks'[c] = checks[c],
         \A t \in checks[c] : t.revision <= catalogs[c].revision,
         ReviewedAsIs(c), ApprovedSound(c)
  PROVE  /\ \A t \in checks'[c] : t.revision <= catalogs'[c].revision
         /\ ReviewedAsIs(c)'
         /\ ApprovedSound(c)'
<1>1. Snapshot(c)' = Snapshot(c)
  BY SameCatalog
<1>2. ReviewedAsIs(c)'
  BY <1>1 DEF ReviewedAsIs
<1>3. ApprovedSound(c)'
  BY <1>1 DEF ApprovedSound, Trials
<1> QED
  BY <1>2, <1>3

LEMMA NothingMoves ==
  ASSUME CatalogsInv, UNCHANGED rows
  PROVE  RowsTypeOK' /\ TrialsSound' /\ RowsMove
<1>1. RowsTypeOK /\ RowsTypeOK'
  BY DEF CatalogsInv, TypeOK, RowsTypeOK, rows
<1>2. RowsMove
  BY <1>1, SameMoves DEF RowsMove, rows
<1>3. TrialsSound'
  BY SameTrials DEF TrialsSound, CatalogsInv, rows
<1> QED
  BY <1>1, <1>2, <1>3

\* A catalog is edited: its revision moves, and no trial counts any more.
LEMMA EditMoves ==
  ASSUME CatalogsInv, NEW c \in DOMAIN catalogs,
         NEW row \in CatalogRows, NEW src \in [Names -> SourceRows \cup {None}],
         row.status # "APPROVED",
         row.revision = catalogs[c].revision + 1,
         row.approved = catalogs[c].approved,
         catalogs' = [catalogs EXCEPT ![c] = row],
         sources' = [sources EXCEPT ![c] = src],
         UNCHANGED checks
  PROVE  RowsTypeOK' /\ TrialsSound' /\ RowsMove
<1>1. RowsTypeOK
  BY DEF CatalogsInv, TypeOK, RowsTypeOK
<1>2. c \in DOMAIN sources
  BY <1>1, RowTypes
<1>3. /\ catalogs' \in Seq(CatalogRows)
      /\ Len(catalogs') = Len(catalogs)
      /\ \A d \in DOMAIN catalogs : catalogs'[d] = IF d = c THEN row ELSE catalogs[d]
      /\ DOMAIN catalogs' = DOMAIN catalogs
  BY <1>1, ExceptSeq DEF RowsTypeOK
<1>4. /\ sources' \in Seq([Names -> SourceRows \cup {None}])
      /\ Len(sources') = Len(sources)
      /\ \A d \in DOMAIN sources : sources'[d] = IF d = c THEN src ELSE sources[d]
  BY <1>1, <1>2, ExceptSeq DEF RowsTypeOK
<1>5. RowsTypeOK'
  BY <1>1, <1>3, <1>4 DEF RowsTypeOK
<1>6. ASSUME NEW d \in DOMAIN catalogs, d # c
      PROVE  catalogs'[d] = catalogs[d] /\ sources'[d] = sources[d]
  BY <1>1, <1>3, <1>4, <1>6, RowTypes
<1>7. catalogs[c].revision \in Nat /\ catalogs'[c] = row
  BY <1>1, <1>3, RowTypes, CatalogsAssumption DEF CatalogRows
<1>8. RowsMove
  <2> SUFFICES ASSUME NEW d \in DOMAIN catalogs PROVE Moves(d)
    BY DEF RowsMove
  <2>1. CASE d = c
    BY <2>1, <1>3, <1>7 DEF Moves
  <2>2. CASE d # c
    BY <2>2, <1>1, <1>3, <1>6, SameMoves
  <2> QED
    BY <2>1, <2>2
<1>9. TrialsSound'
  <2> SUFFICES ASSUME NEW d \in DOMAIN catalogs
               PROVE  /\ \A t \in checks'[d] : t.revision <= catalogs'[d].revision
                      /\ ReviewedAsIs(d)'
                      /\ ApprovedSound(d)'
    BY <1>3 DEF TrialsSound
  <2>1. CASE d = c
    <3>1. \A t \in checks[c] : t.revision \in Nat /\ t.revision <= catalogs[c].revision
      BY <1>1, RowTypes, CatalogsAssumption DEF CheckRows, CatalogsInv, TrialsSound
    <3>2. \A t \in checks'[c] : /\ t.revision <= catalogs'[c].revision
                                /\ t.revision # catalogs'[c].revision
      BY <3>1, <1>7
    <3> QED
      BY <2>1, <3>2, <1>7 DEF ReviewedAsIs, ApprovedSound
  <2>2. CASE d # c
    BY <2>2, <1>6, SameTrials DEF CatalogsInv, TrialsSound
  <2> QED
    BY <2>1, <2>2
<1> QED
  BY <1>5, <1>8, <1>9

\* A catalog is added.
LEMMA NewMoves ==
  ASSUME CatalogsInv,
         NEW row \in CatalogRows, NEW src \in [Names -> SourceRows \cup {None}],
         row.status # "APPROVED",
         catalogs' = Append(catalogs, row),
         sources' = Append(sources, src),
         checks' = Append(checks, {})
  PROVE  RowsTypeOK' /\ TrialsSound' /\ RowsMove
<1> DEFINE n == Len(catalogs) + 1
<1>1. RowsTypeOK
  BY DEF CatalogsInv, TypeOK, RowsTypeOK
<1>2. /\ catalogs' \in Seq(CatalogRows)
      /\ Len(catalogs') = n
      /\ DOMAIN catalogs' = 1 .. n /\ DOMAIN catalogs = 1 .. Len(catalogs)
      /\ \A d \in DOMAIN catalogs : catalogs'[d] = catalogs[d]
      /\ catalogs'[n] = row
      /\ Len(catalogs) \in Nat
  BY <1>1, AppendProperties, LenProperties DEF RowsTypeOK
<1>3. /\ sources' \in Seq([Names -> SourceRows \cup {None}])
      /\ Len(sources') = n
      /\ \A d \in DOMAIN sources : sources'[d] = sources[d]
  BY <1>1, AppendProperties, LenProperties DEF RowsTypeOK
<1>4. /\ checks' \in Seq(SUBSET CheckRows)
      /\ Len(checks') = n
      /\ \A d \in DOMAIN checks : checks'[d] = checks[d]
      /\ checks'[n] = {}
  <2>1. {} \in SUBSET CheckRows
    OBVIOUS
  <2> QED
    BY <1>1, <2>1, AppendProperties, LenProperties DEF RowsTypeOK
<1>5. RowsTypeOK'
  BY <1>2, <1>3, <1>4 DEF RowsTypeOK
<1>6. ASSUME NEW d \in DOMAIN catalogs
      PROVE  /\ catalogs'[d] = catalogs[d] /\ sources'[d] = sources[d]
             /\ checks'[d] = checks[d] /\ d \in DOMAIN catalogs'
  BY <1>1, <1>2, <1>3, <1>4, <1>6, RowTypes
<1>7. RowsMove
  BY <1>1, <1>6, SameMoves DEF RowsMove
<1>8. TrialsSound'
  <2> SUFFICES ASSUME NEW d \in DOMAIN catalogs'
               PROVE  /\ \A t \in checks'[d] : t.revision <= catalogs'[d].revision
                      /\ ReviewedAsIs(d)'
                      /\ ApprovedSound(d)'
    BY DEF TrialsSound
  <2>1. CASE d \in DOMAIN catalogs
    BY <2>1, <1>6, SameTrials DEF CatalogsInv, TrialsSound
  <2>2. CASE d = n
    BY <2>2, <1>2, <1>4 DEF ReviewedAsIs, ApprovedSound
  <2>3. d \in DOMAIN catalogs \/ d = n
    BY <1>2
  <2> QED
    BY <2>1, <2>2, <2>3
<1> QED
  BY <1>5, <1>7, <1>8

\* The chunks of a document not complete are no part of the catalog.
LEMMA PartMoves ==
  ASSUME CatalogsInv, NEW c \in DOMAIN catalogs, NEW n \in Names,
         NEW file \in Hashes \cup {None}, Part(c, n, file)
  PROVE  RowsTypeOK' /\ TrialsSound' /\ RowsMove
<1>1. RowsTypeOK
  BY DEF CatalogsInv, TypeOK, RowsTypeOK
<1>2. /\ c \in DOMAIN sources
      /\ sources[c] \in [Names -> SourceRows \cup {None}]
      /\ sources[c][n] # None /\ sources[c][n] \in SourceRows
      /\ ~sources[c][n].complete
  BY <1>1, RowTypes DEF Part
<1> DEFINE doc == [sources[c][n] EXCEPT !.stored = file]
           src == [sources[c] EXCEPT ![n] = doc]
<1>3. doc \in SourceRows /\ ~doc.complete
  BY <1>2 DEF SourceRows
<1>4. src \in [Names -> SourceRows \cup {None}] /\ src[n] = doc
      /\ \A m \in Names : m # n => src[m] = sources[c][m]
  BY <1>2, <1>3
<1>5. sources' = [sources EXCEPT ![c] = src] /\ UNCHANGED <<catalogs, checks>>
  BY DEF Part
<1>6. /\ sources' \in Seq([Names -> SourceRows \cup {None}])
      /\ Len(sources') = Len(sources)
      /\ \A d \in DOMAIN sources : sources'[d] = IF d = c THEN src ELSE sources[d]
  <2> HIDE DEF src
  <2> QED
    BY <1>1, <1>2, <1>4, <1>5, ExceptSeq DEF RowsTypeOK
<1>7. RowsTypeOK'
  BY <1>1, <1>5, <1>6 DEF RowsTypeOK
<1>8. ASSUME NEW names \in SUBSET Names
      PROVE  Uploaded(c, names)' = Uploaded(c, names)
  <2> DEFINE Whole(f) == {m \in names : f[m] # None /\ f[m].complete}
  <2>1. Whole(src) = Whole(sources[c])
    BY <1>2, <1>3, <1>4, CatalogsAssumption
  <2>2. \A m \in Whole(src) : src[m] = sources[c][m]
    BY <1>3, <1>4
  <2>3. {<<m, src[m].hash>> : m \in Whole(src)}
          = {<<m, sources[c][m].hash>> : m \in Whole(sources[c])}
    <3> HIDE DEF Whole, src
    <3> QED
      BY <2>1, <2>2
  <2>4. sources'[c] = src
    BY <1>2, <1>6
  <2> QED
    BY <2>3, <2>4 DEF Uploaded
<1> HIDE DEF src
<1>9. Snapshot(c)' = Snapshot(c)
  BY <1>5, <1>8 DEF Snapshot
<1>10. ASSUME NEW d \in DOMAIN catalogs, d # c
       PROVE  sources'[d] = sources[d]
  BY <1>1, <1>6, <1>10, RowTypes
<1>11. catalogs[c].revision \in Nat
  BY <1>1, RowTypes, CatalogsAssumption DEF CatalogRows
<1>12. RowsMove
  <2> SUFFICES ASSUME NEW d \in DOMAIN catalogs PROVE Moves(d)
    BY DEF RowsMove
  <2>1. CASE d = c
    <3>1. Uploaded(c, Documents)' = Uploaded(c, Documents)
      BY <1>8 DEF Names
    <3> QED
      BY <2>1, <3>1, <1>5, <1>11 DEF Moves
  <2>2. CASE d # c
    BY <2>2, <1>1, <1>5, <1>10, SameMoves
  <2> QED
    BY <2>1, <2>2
<1>13. TrialsSound'
  <2> SUFFICES ASSUME NEW d \in DOMAIN catalogs
               PROVE  /\ \A t \in checks'[d] : t.revision <= catalogs'[d].revision
                      /\ ReviewedAsIs(d)'
                      /\ ApprovedSound(d)'
    BY <1>5 DEF TrialsSound
  <2>0. /\ \A t \in checks[d] : t.revision <= catalogs[d].revision
        /\ ReviewedAsIs(d)
        /\ ApprovedSound(d)
    BY DEF CatalogsInv, TrialsSound
  <2>1. CASE d = c
    BY <2>0, <2>1, <1>5, <1>9 DEF ReviewedAsIs, ApprovedSound, Trials
  <2>2. CASE d # c
    BY <2>0, <2>2, <1>5, <1>10, SameTrials
  <2> QED
    BY <2>1, <2>2
<1> QED
  BY <1>7, <1>12, <1>13

\* The trials of a draft change.
LEMMA TrialsMove ==
  ASSUME CatalogsInv, NEW c \in DOMAIN catalogs, Draft(c),
         NEW S \in SUBSET CheckRows,
         \A t \in S :
           /\ t.revision <= catalogs[c].revision
           /\ t.revision = catalogs[c].revision /\ t.key # 0 /\ t.result # "new" =>
                t.seen = Snapshot(c),
         checks' = [checks EXCEPT ![c] = S],
         UNCHANGED <<catalogs, sources>>
  PROVE  RowsTypeOK' /\ TrialsSound' /\ RowsMove
<1>1. RowsTypeOK
  BY DEF CatalogsInv, TypeOK, RowsTypeOK
<1>2. c \in DOMAIN checks
  BY <1>1, RowTypes
<1>3. /\ checks' \in Seq(SUBSET CheckRows)
      /\ Len(checks') = Len(checks)
      /\ \A d \in DOMAIN checks : checks'[d] = IF d = c THEN S ELSE checks[d]
  BY <1>1, <1>2, ExceptSeq DEF RowsTypeOK
<1>4. RowsTypeOK'
  BY <1>1, <1>3 DEF RowsTypeOK
<1>5. RowsMove
  BY <1>1, SameMoves DEF RowsMove
<1>6. TrialsSound'
  <2> SUFFICES ASSUME NEW d \in DOMAIN catalogs
               PROVE  /\ \A t \in checks'[d] : t.revision <= catalogs'[d].revision
                      /\ ReviewedAsIs(d)'
                      /\ ApprovedSound(d)'
    BY DEF TrialsSound
  <2>1. CASE d = c
    <3>1. Snapshot(c)' = Snapshot(c)
      BY SameCatalog
    <3>2. checks'[c] = S
      BY <1>2, <1>3
    <3>3. ReviewedAsIs(c)'
      BY <3>1, <3>2 DEF ReviewedAsIs
    <3>4. ApprovedSound(c)'
      BY DEF ApprovedSound, Draft
    <3> QED
      BY <2>1, <3>2, <3>3, <3>4
  <2>2. CASE d # c
    <3>1. checks'[d] = checks[d]
      BY <2>2, <1>1, <1>3, RowTypes
    <3>2. /\ \A t \in checks[d] : t.revision <= catalogs[d].revision
          /\ ReviewedAsIs(d)
          /\ ApprovedSound(d)
      BY DEF CatalogsInv, TrialsSound
    <3> QED
      BY <3>1, <3>2, SameTrials
  <2> QED
    BY <2>1, <2>2
<1> QED
  BY <1>4, <1>5, <1>6

LEMMA ApproveMoves ==
  ASSUME CatalogsInv, NEW c \in DOMAIN catalogs, Approve(c)
  PROVE  RowsTypeOK' /\ TrialsSound' /\ RowsMove
<1> DEFINE content == catalogs[c].dataset.content
           row == [catalogs[c] EXCEPT !.status = "APPROVED", !.approved = Snapshot(c)]
<1>1. RowsTypeOK
  BY DEF CatalogsInv, TypeOK, RowsTypeOK
<1>2. catalogs[c] \in CatalogRows /\ catalogs[c].revision \in Nat
  BY <1>1, RowTypes, CatalogsAssumption DEF CatalogRows
<1>3. /\ row \in CatalogRows
      /\ row.revision = catalogs[c].revision /\ row.dataset = catalogs[c].dataset
      /\ row.approved = Snapshot(c)
  BY <1>1, <1>2, SnapshotType DEF CatalogRows
<1>4. Snapshot(c) # None
  BY <1>1, SnapshotType
<1>5. catalogs' = [catalogs EXCEPT ![c] = row] /\ UNCHANGED <<sources, checks>>
  BY DEF Approve
<1>6. /\ catalogs' \in Seq(CatalogRows)
      /\ Len(catalogs') = Len(catalogs)
      /\ \A d \in DOMAIN catalogs : catalogs'[d] = IF d = c THEN row ELSE catalogs[d]
      /\ DOMAIN catalogs' = DOMAIN catalogs
  <2> HIDE DEF row
  <2> QED
    BY <1>1, <1>3, <1>5, ExceptSeq DEF RowsTypeOK
<1>7. RowsTypeOK'
  BY <1>1, <1>5, <1>6 DEF RowsTypeOK
<1>8. /\ \A names : Uploaded(c, names)' = Uploaded(c, names)
      /\ Snapshot(c)' = Snapshot(c)
  <2>1. \A names : Uploaded(c, names)' = Uploaded(c, names)
    BY <1>5 DEF Uploaded
  <2>2. catalogs'[c].dataset = catalogs[c].dataset
    BY <1>3, <1>6
  <2> QED
    BY <2>1, <2>2 DEF Snapshot
<1>9. \A k \in Trials(content) :
        \E t \in checks[c] : t.key = k /\ t.result = "passed" /\ t.seen = Snapshot(c)
  <2> SUFFICES ASSUME NEW k \in Trials(content)
               PROVE  \E t \in checks[c] : t.key = k /\ t.result = "passed"
                                           /\ t.seen = Snapshot(c)
    OBVIOUS
  <2>1. <<k, content>> \in {<<t.key, t.content>> : t \in Generated(c)}
    BY DEF Approve, Counted
  <2>2. PICK t \in Generated(c) : t.key = k
    BY <2>1
  <2>3. t.result = "passed"
    BY DEF Approve, Counted
  <2>4. t \in checks[c] /\ t.revision = catalogs[c].revision /\ t.key # 0
    BY DEF Generated
  <2>5. ReviewedAsIs(c)
    BY DEF CatalogsInv, TrialsSound
  <2>6. t.seen = Snapshot(c)
    BY <2>3, <2>4, <2>5 DEF ReviewedAsIs
  <2> QED
    BY <2>2, <2>3, <2>4, <2>6
<1> HIDE DEF row
<1>10. RowsMove
  <2> SUFFICES ASSUME NEW d \in DOMAIN catalogs PROVE Moves(d)
    BY DEF RowsMove
  <2>1. CASE d = c
    BY <2>1, <1>2, <1>3, <1>4, <1>6, <1>8 DEF Moves
  <2>2. CASE d # c
    BY <2>2, <1>1, <1>5, <1>6, SameMoves
  <2> QED
    BY <2>1, <2>2
<1>11. TrialsSound'
  <2> SUFFICES ASSUME NEW d \in DOMAIN catalogs
               PROVE  /\ \A t \in checks'[d] : t.revision <= catalogs'[d].revision
                      /\ ReviewedAsIs(d)'
                      /\ ApprovedSound(d)'
    BY <1>6 DEF TrialsSound
  <2>0. /\ \A t \in checks[d] : t.revision <= catalogs[d].revision
        /\ ReviewedAsIs(d)
        /\ ApprovedSound(d)
    BY DEF CatalogsInv, TrialsSound
  <2>1. CASE d = c
    <3>1. catalogs'[c] = row /\ checks' = checks
      BY <1>5, <1>6
    <3>2. ReviewedAsIs(c)'
      BY <2>0, <2>1, <3>1, <1>3, <1>8 DEF ReviewedAsIs
    <3>3. ApprovedSound(c)'
      BY <3>1, <1>3, <1>8, <1>9 DEF ApprovedSound, Trials
    <3> QED
      BY <2>0, <2>1, <3>1, <3>2, <3>3, <1>3
  <2>2. CASE d # c
    BY <2>0, <2>2, <1>5, <1>6, SameTrials
  <2> QED
    BY <2>1, <2>2
<1> QED
  BY <1>7, <1>10, <1>11

LEMMA NewCatalogMoves ==
  ASSUME CatalogsInv, NEW dataset \in Datasets, NEW previous \in Nat,
         NewCatalog(dataset, previous),
         NEW src \in [Names -> SourceRows \cup {None}],
         sources' = Append(sources, src)
  PROVE  RowsTypeOK' /\ TrialsSound' /\ RowsMove
<1> DEFINE row == [status |-> "DRAFT", revision |-> 1, dataset |-> dataset,
                   previous |-> previous, approved |-> None]
<1>1. row \in CatalogRows /\ row.status # "APPROVED"
  BY CatalogsAssumption DEF CatalogRows
<1>2. catalogs' = Append(catalogs, row) /\ checks' = Append(checks, {})
  BY DEF NewCatalog
<1> HIDE DEF row
<1> QED
  BY <1>1, <1>2, NewMoves

LEMMA CreateMoves ==
  ASSUME CatalogsInv, NEW dataset \in Drafts, Create(dataset)
  PROVE  RowsTypeOK' /\ TrialsSound' /\ RowsMove
<1>1. dataset \in Datasets
  BY CatalogsAssumption
<1>2. [n \in Names |-> None] \in [Names -> SourceRows \cup {None}]
  OBVIOUS
<1>3. NewCatalog(dataset, 0) /\ sources' = Append(sources, [n \in Names |-> None])
  BY DEF Create
<1> QED
  BY <1>1, <1>2, <1>3, NewCatalogMoves

LEMMA CreateRevisionMoves ==
  ASSUME CatalogsInv, NEW k \in Calls, CreateRevision(k)
  PROVE  RowsTypeOK' /\ TrialsSound' /\ RowsMove
<1> DEFINE c == call[k].catalog
           src == [n \in Names |->
               IF sources[c][n] # None /\ sources[c][n].complete
               THEN [sources[c][n] EXCEPT !.stored = None] ELSE None]
<1>1. CASE UNCHANGED rows
  BY <1>1, NothingMoves
<1>2. CASE NewCatalog(call[k].dataset, c) /\ sources' = Append(sources, src)
  <2>1. call[k] # None /\ call[k].step = "create" /\ CallSound(k)
    BY DEF CreateRevision, CatalogsInv, JobsSound
  <2>2. c \in DOMAIN catalogs /\ call[k].dataset \in Datasets
    BY <2>1 DEF CallSound
  <2>3. RowsTypeOK
    BY DEF CatalogsInv, TypeOK, RowsTypeOK
  <2>4. c \in Nat
    BY <2>2, <2>3, LenProperties DEF RowsTypeOK
  <2>5. \A n \in Names : sources[c][n] # None => sources[c][n] \in SourceRows
    BY <2>2, <2>3, RowTypes
  <2>6. \A r \in SourceRows : [r EXCEPT !.stored = None] \in SourceRows
    BY DEF SourceRows
  <2>7. src \in [Names -> SourceRows \cup {None}]
    BY <2>5, <2>6
  <2> HIDE DEF src, c
  <2> QED
    BY <1>2, <2>2, <2>4, <2>7, NewCatalogMoves DEF c
<1> QED
  BY <1>1, <1>2 DEF CreateRevision

\* A catalog revised by one field or two.
LEMMA RevisedMoves ==
  ASSUME CatalogsInv, NEW c \in DOMAIN catalogs,
         catalogs[c].revision < MaxRevision,
         NEW dataset \in Datasets, NEW status \in {"DRAFT", "DELETED"},
         NEW src \in [Names -> SourceRows \cup {None}],
         catalogs' = [catalogs EXCEPT ![c] = [catalogs[c] EXCEPT
           !.revision = catalogs[c].revision + 1, !.dataset = dataset, !.status = status]],
         sources' = [sources EXCEPT ![c] = src],
         UNCHANGED checks
  PROVE  RowsTypeOK' /\ TrialsSound' /\ RowsMove
<1> DEFINE row == [catalogs[c] EXCEPT
           !.revision = catalogs[c].revision + 1, !.dataset = dataset, !.status = status]
<1>1. catalogs[c] \in CatalogRows
  BY RowTypes DEF CatalogsInv, TypeOK, RowsTypeOK
<1>2. catalogs[c].revision + 1 \in 1 .. MaxRevision
  BY <1>1, CatalogsAssumption DEF CatalogRows
<1>3. /\ row \in CatalogRows
      /\ row.status # "APPROVED"
      /\ row.revision = catalogs[c].revision + 1
      /\ row.approved = catalogs[c].approved
  BY <1>1, <1>2 DEF CatalogRows
<1>4. catalogs' = [catalogs EXCEPT ![c] = row]
  OBVIOUS
<1> HIDE DEF row
<1> QED
  BY <1>3, <1>4, EditMoves

\* The row a draft has, and the documents.
LEMMA DraftRow ==
  ASSUME CatalogsInv, NEW c \in DOMAIN catalogs
  PROVE  /\ catalogs[c] \in CatalogRows
         /\ catalogs[c].dataset \in Datasets
         /\ sources[c] \in [Names -> SourceRows \cup {None}]
         /\ sources = [sources EXCEPT ![c] = sources[c]]
         /\ catalogs[c] = [catalogs[c] EXCEPT !.dataset = catalogs[c].dataset]
<1>1. RowsTypeOK
  BY DEF CatalogsInv, TypeOK, RowsTypeOK
<1>2. /\ catalogs[c] \in CatalogRows
      /\ sources[c] \in [Names -> SourceRows \cup {None}]
      /\ c \in DOMAIN sources
  BY <1>1, RowTypes
<1>3. PICK n \in Nat : sources \in [1 .. n -> [Names -> SourceRows \cup {None}]]
  BY <1>1, LenProperties DEF RowsTypeOK
<1>4. sources = [sources EXCEPT ![c] = sources[c]]
  BY <1>2, <1>3
<1> QED
  BY <1>2, <1>4 DEF CatalogRows

\* The revision and one more field of a row are set.
LEMMA RevisedRow ==
  ASSUME CatalogsInv, NEW c \in DOMAIN catalogs, NEW row, row = catalogs[c]
  PROVE  Revised(c) = [catalogs EXCEPT ![c] =
           [row EXCEPT !.revision = row.revision + 1, !.dataset = row.dataset,
                       !.status = row.status]]
<1>1. row \in CatalogRows
  BY DraftRow
<1>2. [row EXCEPT !.revision = row.revision + 1, !.dataset = row.dataset,
                  !.status = row.status] = [row EXCEPT !.revision = row.revision + 1]
  BY <1>1 DEF CatalogRows
<1> QED
  BY <1>2 DEF Revised

LEMMA RevisedDataset ==
  ASSUME CatalogsInv, NEW c \in DOMAIN catalogs, NEW row, row = catalogs[c], NEW x
  PROVE  [Revised(c) EXCEPT ![c].dataset = x] = [catalogs EXCEPT ![c] =
           [row EXCEPT !.revision = row.revision + 1, !.dataset = x,
                       !.status = row.status]]
<1>1. PICK n \in Nat : catalogs \in [1 .. n -> CatalogRows] /\ c \in 1 .. n
  BY LenProperties DEF CatalogsInv, TypeOK
<1>2. row \in CatalogRows
  BY <1>1
<1>3. PICK next : next = [row EXCEPT !.revision = row.revision + 1]
  OBVIOUS
<1>4. Revised(c) = [catalogs EXCEPT ![c] = next]
  BY <1>3 DEF Revised
<1>5. [Revised(c) EXCEPT ![c].dataset = x]
        = [catalogs EXCEPT ![c] = [next EXCEPT !.dataset = x]]
  BY <1>1, <1>4
<1>6. [next EXCEPT !.dataset = x]
        = [row EXCEPT !.revision = row.revision + 1, !.dataset = x, !.status = row.status]
  BY <1>2, <1>3 DEF CatalogRows
<1> QED
  BY <1>5, <1>6

LEMMA RevisedStatus ==
  ASSUME CatalogsInv, NEW c \in DOMAIN catalogs, NEW row, row = catalogs[c], NEW x
  PROVE  [Revised(c) EXCEPT ![c].status = x] = [catalogs EXCEPT ![c] =
           [row EXCEPT !.revision = row.revision + 1, !.dataset = row.dataset,
                       !.status = x]]
<1>1. PICK n \in Nat : catalogs \in [1 .. n -> CatalogRows] /\ c \in 1 .. n
  BY LenProperties DEF CatalogsInv, TypeOK
<1>2. row \in CatalogRows
  BY <1>1
<1>3. PICK next : next = [row EXCEPT !.revision = row.revision + 1]
  OBVIOUS
<1>4. Revised(c) = [catalogs EXCEPT ![c] = next]
  BY <1>3 DEF Revised
<1>5. [Revised(c) EXCEPT ![c].status = x]
        = [catalogs EXCEPT ![c] = [next EXCEPT !.status = x]]
  BY <1>1, <1>4
<1>6. [next EXCEPT !.status = x]
        = [row EXCEPT !.revision = row.revision + 1, !.dataset = row.dataset, !.status = x]
  BY <1>2, <1>3 DEF CatalogRows
<1> QED
  BY <1>5, <1>6

LEMMA UpdateMoves ==
  ASSUME CatalogsInv, NEW c \in DOMAIN catalogs, NEW dataset \in Drafts,
         Update(c, dataset)
  PROVE  RowsTypeOK' /\ TrialsSound' /\ RowsMove
<1> DEFINE row == catalogs[c]
<1>1. dataset \in Datasets
  BY CatalogsAssumption
<1>2. row \in CatalogRows /\ row.revision < MaxRevision /\ row.status = "DRAFT"
  BY DraftRow DEF Update, Revisable, Draft
<1>3. catalogs' = [Revised(c) EXCEPT ![c].dataset = dataset]
  BY DEF Update
<1>4. catalogs' = [catalogs EXCEPT ![c] =
         [row EXCEPT !.revision = row.revision + 1, !.dataset = dataset,
                     !.status = "DRAFT"]]
  <2>1. PICK old : old = catalogs[c]
    OBVIOUS
  <2>2. [Revised(c) EXCEPT ![c].dataset = dataset] = [catalogs EXCEPT ![c] =
           [old EXCEPT !.revision = old.revision + 1, !.dataset = dataset,
                       !.status = old.status]]
    BY <2>1, RevisedDataset
  <2> QED
    BY <1>2, <1>3, <2>1, <2>2
<1>5. sources' = [sources EXCEPT ![c] = sources[c]] /\ UNCHANGED checks
  BY DraftRow DEF Update
<1> QED
  BY <1>1, <1>2, <1>4, <1>5, DraftRow, RevisedMoves

LEMMA RemoveMoves ==
  ASSUME CatalogsInv, NEW c \in DOMAIN catalogs, Remove(c)
  PROVE  RowsTypeOK' /\ TrialsSound' /\ RowsMove
<1> DEFINE row == catalogs[c]
<1>1. row \in CatalogRows /\ row.revision < MaxRevision /\ row.dataset \in Datasets
  BY DraftRow DEF Remove
<1>2. catalogs' = [Revised(c) EXCEPT ![c].status = "DELETED"]
  BY DEF Remove
<1>3. catalogs' = [catalogs EXCEPT ![c] =
         [row EXCEPT !.revision = row.revision + 1, !.dataset = row.dataset,
                     !.status = "DELETED"]]
  <2>1. PICK old : old = catalogs[c]
    OBVIOUS
  <2>2. [Revised(c) EXCEPT ![c].status = "DELETED"] = [catalogs EXCEPT ![c] =
           [old EXCEPT !.revision = old.revision + 1, !.dataset = old.dataset,
                       !.status = "DELETED"]]
    BY <2>1, RevisedStatus
  <2> QED
    BY <1>2, <2>1, <2>2
<1>4. sources' = [sources EXCEPT ![c] = sources[c]] /\ UNCHANGED checks
  BY DraftRow DEF Remove
<1> QED
  BY <1>1, <1>3, <1>4, DraftRow, RevisedMoves

\* A draft revised by its documents only.
LEMMA DocumentMoves ==
  ASSUME CatalogsInv, NEW c \in DOMAIN catalogs, Revisable(c),
         NEW n \in Names, NEW doc \in SourceRows,
         catalogs' = Revised(c),
         sources' = [sources EXCEPT ![c] = [sources[c] EXCEPT ![n] = doc]],
         UNCHANGED checks
  PROVE  RowsTypeOK' /\ TrialsSound' /\ RowsMove
<1> DEFINE row == catalogs[c]
           src == [sources[c] EXCEPT ![n] = doc]
<1>1. /\ row \in CatalogRows /\ row.revision < MaxRevision
      /\ row.status = "DRAFT" /\ row.dataset \in Datasets
  BY DraftRow DEF Revisable, Draft
<1>2. catalogs' = [catalogs EXCEPT ![c] =
         [row EXCEPT !.revision = row.revision + 1, !.dataset = row.dataset,
                     !.status = "DRAFT"]]
  BY <1>1, RevisedRow
<1>3. src \in [Names -> SourceRows \cup {None}]
  BY DraftRow
<1> HIDE DEF src
<1>4. sources' = [sources EXCEPT ![c] = src]
  BY DEF src
<1> QED
  BY <1>1, <1>2, <1>3, <1>4, RevisedMoves

LEMMA BeginMoves ==
  ASSUME CatalogsInv, NEW c \in DOMAIN catalogs, NEW n \in Names,
         NEW hash \in Hashes, Begin(c, n, hash)
  PROVE  RowsTypeOK' /\ TrialsSound' /\ RowsMove
<1> DEFINE doc == [hash |-> hash, complete |-> FALSE, stored |-> None]
<1>1. doc \in SourceRows
  BY DEF SourceRows
<1>2. /\ Revisable(c) /\ catalogs' = Revised(c) /\ UNCHANGED checks
      /\ sources' = [sources EXCEPT ![c] = [sources[c] EXCEPT ![n] = doc]]
  BY DEF Begin
<1> HIDE DEF doc
<1> QED
  BY <1>1, <1>2, DocumentMoves

LEMMA FinishMoves ==
  ASSUME CatalogsInv, NEW c \in DOMAIN catalogs, NEW n \in Names, Finish(c, n)
  PROVE  RowsTypeOK' /\ TrialsSound' /\ RowsMove
<1> DEFINE doc == [sources[c][n] EXCEPT !.complete = TRUE, !.stored = None]
<1>1. sources[c][n] \in SourceRows
  BY DraftRow DEF Finish
<1>2. doc \in SourceRows
  BY <1>1 DEF SourceRows
<1>3. PICK m \in Nat : sources \in [1 .. m -> [Names -> SourceRows \cup {None}]]
  BY LenProperties DEF CatalogsInv, TypeOK
<1>4. c \in 1 .. m
  BY <1>3, RowTypes DEF CatalogsInv, TypeOK, RowsTypeOK
<1>5. sources' = [sources EXCEPT ![c] = [sources[c] EXCEPT ![n] = doc]]
  <2> DEFINE done == [sources[c][n] EXCEPT !.complete = TRUE]
             src == [sources[c] EXCEPT ![n] = done]
             first == [sources EXCEPT ![c] = src]
  <2>1. sources' = [first EXCEPT ![c] = [first[c] EXCEPT ![n] =
                      [first[c][n] EXCEPT !.stored = None]]]
    BY DEF Finish
  <2>2. done \in SourceRows /\ doc = [done EXCEPT !.stored = None]
    BY <1>1 DEF SourceRows
  <2>3. sources[c] \in [Names -> SourceRows \cup {None}]
    BY DraftRow
  <2> HIDE DEF done, doc
  <2>4. src[n] = done /\ [src EXCEPT ![n] = doc] = [sources[c] EXCEPT ![n] = doc]
    BY <2>3
  <2> HIDE DEF src
  <2>5. first[c] = src /\ \A x : [first EXCEPT ![c] = x] = [sources EXCEPT ![c] = x]
    BY <1>3, <1>4
  <2> HIDE DEF first
  <2> QED
    BY <2>1, <2>2, <2>4, <2>5
<1>6. Revisable(c) /\ catalogs' = Revised(c) /\ UNCHANGED checks
  BY DEF Finish
<1> HIDE DEF doc
<1> QED
  BY <1>2, <1>5, <1>6, DocumentMoves

LEMMA CheckMoves ==
  ASSUME CatalogsInv, NEW c \in DOMAIN catalogs, NEW result \in {"passed", "refused"},
         Check(c, result)
  PROVE  RowsTypeOK' /\ TrialsSound' /\ RowsMove
<1> DEFINE typed == [revision |-> catalogs[c].revision, key |-> 0, result |-> result,
                     content |-> catalogs[c].dataset.content, seen |-> None]
           S == checks[c] \cup {typed}
<1>1. /\ catalogs[c] \in CatalogRows /\ catalogs[c].dataset.content \in Contents
      /\ catalogs[c].revision \in Nat
  BY DraftRow, CatalogsAssumption DEF CatalogRows, Datasets
<1>2. typed \in CheckRows
  BY <1>1 DEF CheckRows, CatalogRows
<1>3. checks[c] \in SUBSET CheckRows
  BY RowTypes DEF CatalogsInv, TypeOK, RowsTypeOK
<1>4. \A t \in checks[c] :
        /\ t.revision <= catalogs[c].revision
        /\ t.revision = catalogs[c].revision /\ t.key # 0 /\ t.result # "new" =>
             t.seen = Snapshot(c)
  BY DEF CatalogsInv, TrialsSound, ReviewedAsIs
<1>5. typed.revision <= catalogs[c].revision /\ typed.key = 0
  BY <1>1
<1>6. Draft(c) /\ checks' = [checks EXCEPT ![c] = S] /\ UNCHANGED <<catalogs, sources>>
  BY DEF Check
<1> HIDE DEF typed
<1>7. S \in SUBSET CheckRows
  BY <1>2, <1>3
<1>8. \A t \in S :
        /\ t.revision <= catalogs[c].revision
        /\ t.revision = catalogs[c].revision /\ t.key # 0 /\ t.result # "new" =>
             t.seen = Snapshot(c)
  BY <1>4, <1>5
<1> HIDE DEF S
<1> QED
  BY <1>6, <1>7, <1>8, TrialsMove

LEMMA GenerateMoves ==
  ASSUME CatalogsInv, NEW c \in DOMAIN catalogs, Generate(c)
  PROVE  RowsTypeOK' /\ TrialsSound' /\ RowsMove
<1> DEFINE content == catalogs[c].dataset.content
           trial(k) == [revision |-> catalogs[c].revision, key |-> k, result |-> "new",
                        content |-> content, seen |-> None]
           missing == Trials(content) \ {t.key : t \in Generated(c)}
           S == checks[c] \cup {trial(k) : k \in missing}
<1>1. /\ catalogs[c] \in CatalogRows /\ content \in Contents
      /\ catalogs[c].revision \in Nat /\ catalogs[c].revision \in 1 .. MaxRevision
  BY DraftRow, CatalogsAssumption DEF CatalogRows, Datasets
<1>2. \A k \in missing : k \in Nat
  BY <1>1, CatalogsAssumption DEF Trials
<1>3. \A k \in missing : trial(k) \in CheckRows
  BY <1>1, <1>2 DEF CheckRows
<1>4. checks[c] \in SUBSET CheckRows
  BY RowTypes DEF CatalogsInv, TypeOK, RowsTypeOK
<1>5. \A t \in checks[c] :
        /\ t.revision <= catalogs[c].revision
        /\ t.revision = catalogs[c].revision /\ t.key # 0 /\ t.result # "new" =>
             t.seen = Snapshot(c)
  BY DEF CatalogsInv, TrialsSound, ReviewedAsIs
<1>6. \A k \in missing : trial(k).revision <= catalogs[c].revision
                         /\ trial(k).result = "new"
  BY <1>1
<1>7. Draft(c) /\ checks' = [checks EXCEPT ![c] = S] /\ UNCHANGED <<catalogs, sources>>
  BY DEF Generate
<1> HIDE DEF trial, missing
<1>8. S \in SUBSET CheckRows
  BY <1>3, <1>4
<1>9. \A t \in S :
        /\ t.revision <= catalogs[c].revision
        /\ t.revision = catalogs[c].revision /\ t.key # 0 /\ t.result # "new" =>
             t.seen = Snapshot(c)
  BY <1>5, <1>6
<1> HIDE DEF S
<1> QED
  BY <1>7, <1>8, <1>9, TrialsMove

LEMMA ReviewMoves ==
  ASSUME CatalogsInv, NEW c \in DOMAIN catalogs, NEW u \in checks[c],
         NEW result \in {"passed", "refused"}, Review(c, u, result)
  PROVE  RowsTypeOK' /\ TrialsSound' /\ RowsMove
<1> DEFINE reviewed == [u EXCEPT !.result = result, !.seen = Snapshot(c)]
           S == (checks[c] \ {u}) \cup {reviewed}
<1>1. checks[c] \in SUBSET CheckRows /\ u \in CheckRows
  BY RowTypes DEF CatalogsInv, TypeOK, RowsTypeOK
<1>2. Snapshot(c) \in Snapshots
  BY SnapshotType DEF CatalogsInv, TypeOK, RowsTypeOK
<1>3. /\ reviewed \in CheckRows
      /\ reviewed.revision = u.revision /\ reviewed.seen = Snapshot(c)
  BY <1>1, <1>2 DEF CheckRows
<1>4. \A t \in checks[c] :
        /\ t.revision <= catalogs[c].revision
        /\ t.revision = catalogs[c].revision /\ t.key # 0 /\ t.result # "new" =>
             t.seen = Snapshot(c)
  BY DEF CatalogsInv, TrialsSound, ReviewedAsIs
<1>5. Draft(c) /\ checks' = [checks EXCEPT ![c] = S] /\ UNCHANGED <<catalogs, sources>>
  BY DEF Review
<1> HIDE DEF reviewed
<1>6. S \in SUBSET CheckRows
  BY <1>1, <1>3
<1>7. \A t \in S :
        /\ t.revision <= catalogs[c].revision
        /\ t.revision = catalogs[c].revision /\ t.key # 0 /\ t.result # "new" =>
             t.seen = Snapshot(c)
  BY <1>3, <1>4
<1> HIDE DEF S
<1> QED
  BY <1>5, <1>6, <1>7, TrialsMove

LEMMA AnswerMoves ==
  ASSUME CatalogsInv, NEW c \in DOMAIN catalogs, Answer(c)
  PROVE  RowsTypeOK' /\ TrialsSound' /\ RowsMove
<1> DEFINE row == catalogs[c]
           dataset == [row.dataset EXCEPT !.rules.question = "answered"]
<1>1. /\ row \in CatalogRows /\ row.revision < MaxRevision /\ row.status = "DRAFT"
      /\ row.dataset \in Datasets /\ row.dataset.rules # None
  BY DraftRow DEF Answer, Revisable, Draft
<1>2. dataset \in Datasets
  <2>1. row.dataset.rules \in Rules
    BY <1>1 DEF Datasets
  <2>2. [row.dataset.rules EXCEPT !.question = "answered"] \in Rules
    BY <2>1 DEF Rules
  <2> QED
    BY <1>1, <2>2 DEF Datasets
<1>3. PICK n \in Nat : catalogs \in [1 .. n -> CatalogRows]
  BY LenProperties DEF CatalogsInv, TypeOK
<1>4. catalogs' = [catalogs EXCEPT ![c] =
         [row EXCEPT !.revision = row.revision + 1, !.dataset = dataset,
                     !.status = "DRAFT"]]
  <2> DEFINE next == [row EXCEPT !.revision = row.revision + 1, !.dataset = row.dataset,
                                 !.status = row.status]
  <2>1. Revised(c) = [catalogs EXCEPT ![c] = next]
    BY RevisedRow
  <2> HIDE DEF dataset
  <2>2. next.dataset = row.dataset
    BY <1>1 DEF CatalogRows
  <2>3. [next EXCEPT !.dataset = dataset]
           = [row EXCEPT !.revision = row.revision + 1, !.dataset = dataset,
                         !.status = "DRAFT"]
    BY <1>1 DEF CatalogRows
  <2> HIDE DEF next
  <2>4. Revised(c)[c] = next
    BY <1>3, <2>1
  <2>5. catalogs' = [Revised(c) EXCEPT ![c] = [Revised(c)[c] EXCEPT !.dataset =
           [Revised(c)[c].dataset EXCEPT !.rules =
             [Revised(c)[c].dataset.rules EXCEPT !.question = "answered"]]]]
    BY DEF Answer
  <2>6. catalogs' = [Revised(c) EXCEPT ![c] = [next EXCEPT !.dataset = dataset]]
    BY <2>2, <2>4, <2>5 DEF dataset
  <2>7. \A x : [Revised(c) EXCEPT ![c] = x] = [catalogs EXCEPT ![c] = x]
    BY <1>3, <2>1
  <2> QED
    BY <2>3, <2>6, <2>7
<1>5. sources' = [sources EXCEPT ![c] = sources[c]] /\ UNCHANGED checks
  BY DraftRow DEF Answer
<1> HIDE DEF dataset
<1> QED
  BY <1>1, <1>2, <1>4, <1>5, DraftRow, RevisedMoves

LEMMA ApplyMoves ==
  ASSUME CatalogsInv, NEW j \in DOMAIN jobs, ApplyResult(j)
  PROVE  RowsTypeOK' /\ TrialsSound' /\ RowsMove
<1> DEFINE c == jobs[j].catalog
           row == catalogs[c]
           output == executing[j].output
<1>1. CASE ~StillAsRead(j)
  BY <1>1, NothingMoves DEF ApplyResult, rows
<1>2. CASE StillAsRead(j)
  <2>1. JobSound(j) /\ Len(jobs) <= MaxJobs
    BY DEF CatalogsInv, JobsSound
  <2>2. c \in DOMAIN catalogs /\ j \in 1 .. MaxJobs
    BY <2>1, LenProperties, CatalogsAssumption DEF JobSound, CatalogsInv, TypeOK
  <2>3. /\ row \in CatalogRows /\ row.revision < MaxRevision /\ row.status = "DRAFT"
    BY <1>2, <2>2, DraftRow DEF ApplyResult, StillAsRead, Draft
  <2>4. output \in Datasets
    BY <2>2 DEF ApplyResult, Executes, CatalogsInv, JobsSound, ExecutionSound
  <2>5. catalogs' = [Revised(c) EXCEPT ![c].dataset = output] /\ UNCHANGED <<sources, checks>>
    BY <1>2 DEF ApplyResult
  <2>6. catalogs' = [catalogs EXCEPT ![c] =
           [row EXCEPT !.revision = row.revision + 1, !.dataset = output,
                       !.status = row.status]]
    <3>1. PICK k, old, x : k = c /\ old = row /\ x = output
      OBVIOUS
    <3>2. k \in DOMAIN catalogs /\ old = catalogs[k]
      BY <2>2, <3>1
    <3> HIDE DEF c, row, output
    <3>3. [Revised(k) EXCEPT ![k].dataset = x] = [catalogs EXCEPT ![k] =
             [old EXCEPT !.revision = old.revision + 1, !.dataset = x,
                         !.status = old.status]]
      BY <3>2, RevisedDataset
    <3> QED
      BY <2>5, <3>1, <3>3
  <2>7. catalogs' = [catalogs EXCEPT ![c] =
           [row EXCEPT !.revision = row.revision + 1, !.dataset = output,
                       !.status = "DRAFT"]]
    BY <2>3, <2>6
  <2>8. sources' = [sources EXCEPT ![c] = sources[c]] /\ UNCHANGED checks
    BY <2>2, <2>5, DraftRow
  <2>9. sources[c] \in [Names -> SourceRows \cup {None}]
    BY <2>2, DraftRow
  <2> HIDE DEF c, output
  <2> QED
    BY <2>2, <2>3, <2>4, <2>7, <2>8, <2>9, RevisedMoves
<1> QED
  BY <1>1, <1>2

\* What a step does to the catalogs, their documents and their trials.
LEMMA RowsStep ==
  ASSUME CatalogsInv, [Next]_vars
  PROVE  RowsTypeOK' /\ TrialsSound' /\ RowsMove
<1>1. CASE UNCHANGED rows
  BY <1>1, NothingMoves
<1>2. ASSUME NEW c \in DOMAIN catalogs, Edit(c)
      PROVE  RowsTypeOK' /\ TrialsSound' /\ RowsMove
  BY <1>2, UpdateMoves, RemoveMoves, BeginMoves, PartMoves, FinishMoves DEF Edit
<1>3. ASSUME NEW c \in DOMAIN catalogs, Verify(c)
      PROVE  RowsTypeOK' /\ TrialsSound' /\ RowsMove
  BY <1>3, CheckMoves, GenerateMoves, ReviewMoves, ApproveMoves DEF Verify
<1>4. ASSUME NEW j \in DOMAIN jobs, Conversion(j)
      PROVE  RowsTypeOK' /\ TrialsSound' /\ RowsMove
  <2>1. ApplyResult(j) \/ UNCHANGED rows
    BY <1>4 DEF Conversion, ReadDraft, Convert, ConversionFails, TimePasses
  <2> QED
    BY <1>1, <2>1, ApplyMoves
<1>5. ASSUME NEW k \in Calls, Request(k)
      PROVE  RowsTypeOK' /\ TrialsSound' /\ RowsMove
  <2>1. CreateRevision(k) \/ UNCHANGED rows
    BY <1>5 DEF Request, BeginRevision, Start, CommitStart, Launch
  <2> QED
    BY <1>1, <2>1, CreateRevisionMoves
<1>6. ASSUME NEW c \in DOMAIN catalogs, Status(c) \/ Answer(c)
      PROVE  RowsTypeOK' /\ TrialsSound' /\ RowsMove
  BY <1>1, <1>6, AnswerMoves DEF Status
<1>7. ASSUME NEW d \in Drafts, Create(d)
      PROVE  RowsTypeOK' /\ TrialsSound' /\ RowsMove
  BY <1>7, CreateMoves
<1>8. CASE Crash \/ UNCHANGED vars
  BY <1>1, <1>8 DEF Crash, vars
<1> QED
  BY <1>2, <1>3, <1>4, <1>5, <1>6, <1>7, <1>8 DEF Next

-----------------------------------------------------------------------------
(* The conversions and the requests.                                       *)

JobsTypeOK ==
  /\ jobs \in Seq(JobRows)
  /\ call \in [Calls -> CallRows \cup {None}]
  /\ executing \in [1..MaxJobs -> ExecutionRows \cup {None}]

\* No conversion goes away, or changes its catalog or revision.
SameJobs(new) ==
  \A j \in DOMAIN jobs : /\ j \in DOMAIN new
                         /\ new[j].catalog = jobs[j].catalog
                         /\ new[j].revision = jobs[j].revision

LEMMA JobTypes ==
  ASSUME CatalogsInv, NEW j \in DOMAIN jobs
  PROVE  /\ j \in 1 .. MaxJobs /\ j \in Nat
         /\ jobs[j] \in JobRows
         /\ jobs[j].catalog \in DOMAIN catalogs
         /\ jobs[j].revision \in Nat
         /\ jobs[j].revision <= catalogs[jobs[j].catalog].revision
<1>1. jobs \in Seq(JobRows) /\ Len(jobs) <= MaxJobs /\ JobSound(j)
  BY DEF CatalogsInv, TypeOK, JobsSound
<1>2. DOMAIN jobs = 1 .. Len(jobs) /\ Len(jobs) \in Nat
  BY <1>1, LenProperties
<1>3. jobs[j] \in JobRows
  BY <1>1, <1>2, ElementOfSeq
<1> QED
  BY <1>1, <1>2, <1>3, CatalogsAssumption DEF JobSound, JobRows

\* A row of a conversion is rewritten.
LEMMA JobRewritten ==
  ASSUME jobs \in Seq(JobRows), NEW n, NEW row \in JobRows,
         n \in DOMAIN jobs => /\ row.catalog = jobs[n].catalog
                              /\ row.revision = jobs[n].revision
  PROVE  LET new == [jobs EXCEPT ![n] = row] IN
         /\ new \in Seq(JobRows) /\ Len(new) = Len(jobs) /\ SameJobs(new)
         /\ \A j \in DOMAIN jobs : new[j] = IF j = n THEN row ELSE jobs[j]
<1> DEFINE new == [jobs EXCEPT ![n] = row]
<1>1. DOMAIN jobs = 1 .. Len(jobs)
  BY LenProperties
<1>2. CASE n \in DOMAIN jobs
  BY <1>1, <1>2, ExceptSeq DEF SameJobs
<1>3. CASE n \notin DOMAIN jobs
  <2>1. PICK m \in Nat : jobs \in [1 .. m -> JobRows]
    BY LenProperties
  <2>2. new = jobs
    BY <1>3, <2>1
  <2> HIDE DEF new
  <2>3. \A j \in DOMAIN jobs : new[j] = IF j = n THEN row ELSE jobs[j]
    BY <1>3, <2>2
  <2> QED
    BY <2>2, <2>3 DEF SameJobs, new
<1> QED
  BY <1>2, <1>3

LEMMA StatusSet ==
  ASSUME CatalogsInv, NEW n \in DOMAIN jobs,
         NEW status \in {"RUNNING", "FAILED", "COMPLETED", "NEEDS_ANSWERS"}
  PROVE  LET new == [jobs EXCEPT ![n].status = status] IN
         /\ new \in Seq(JobRows) /\ Len(new) = Len(jobs) /\ SameJobs(new)
         /\ \A j \in DOMAIN jobs :
              new[j].status = IF j = n THEN status ELSE jobs[j].status
<1> DEFINE row == [jobs[n] EXCEPT !.status = status]
<1>1. jobs[n] \in JobRows
  BY JobTypes
<1>2. /\ row \in JobRows /\ row.status = status
      /\ row.catalog = jobs[n].catalog /\ row.revision = jobs[n].revision
  BY <1>1 DEF JobRows
<1>3. jobs \in Seq(JobRows)
  BY DEF CatalogsInv, TypeOK
<1> HIDE DEF row
<1>4. LET new == [jobs EXCEPT ![n] = row] IN
      /\ new \in Seq(JobRows) /\ Len(new) = Len(jobs) /\ SameJobs(new)
      /\ \A j \in DOMAIN jobs : new[j] = IF j = n THEN row ELSE jobs[j]
  BY <1>2, <1>3, JobRewritten
<1>5. [jobs EXCEPT ![n].status = status] = [jobs EXCEPT ![n] = row]
  BY DEF row
<1> QED
  BY <1>2, <1>4, <1>5

\* Looking at the state of a conversion fails it at most.
LEMMA SettledJobs ==
  ASSUME CatalogsInv, NEW c
  PROVE  /\ Settled(c) \in Seq(JobRows)
         /\ Len(Settled(c)) = Len(jobs)
         /\ SameJobs(Settled(c))
         /\ \A j \in DOMAIN jobs : Settled(c)[j].status \in {jobs[j].status, "FAILED"}
<1>1. CASE Settled(c) = jobs
  BY <1>1 DEF SameJobs, CatalogsInv, TypeOK
<1>2. CASE Settled(c) = [jobs EXCEPT ![Latest(c)].status = "FAILED"]
           /\ Latest(c) \in DOMAIN jobs
  <2>1. PICK n \in DOMAIN jobs : n = Latest(c)
    BY <1>2
  <2>2. LET new == [jobs EXCEPT ![n].status = "FAILED"] IN
        /\ new \in Seq(JobRows) /\ Len(new) = Len(jobs) /\ SameJobs(new)
        /\ \A j \in DOMAIN jobs :
             new[j].status = IF j = n THEN "FAILED" ELSE jobs[j].status
    BY StatusSet
  <2>3. Settled(c) = [jobs EXCEPT ![n].status = "FAILED"]
    BY <1>2, <2>1
  <2> QED
    BY <2>2, <2>3
<1>3. CASE Settled(c) = [jobs EXCEPT ![Latest(c)].status = "FAILED"]
           /\ Latest(c) \notin DOMAIN jobs
  <2>1. PICK m \in Nat : jobs \in [1 .. m -> JobRows]
    BY LenProperties DEF CatalogsInv, TypeOK
  <2>2. Settled(c) = jobs
    BY <1>3, <2>1
  <2> QED
    BY <1>1, <2>2
<1> QED
  BY <1>1, <1>2, <1>3 DEF Settled

\* What is known of a conversion, a request or its work in memory stays known.
LEMMA JobKept ==
  ASSUME CatalogsInv, RowsTypeOK', RowsMove, SameJobs(jobs'), NEW j \in DOMAIN jobs
  PROVE  JobSound(j)'
<1> DEFINE c == jobs[j].catalog
<1>1. /\ c \in DOMAIN catalogs /\ jobs[j].revision \in Nat
      /\ jobs[j].revision <= catalogs[c].revision
  BY JobTypes
<1>2. Moves(c)
  BY <1>1 DEF RowsMove
<1>3. /\ jobs'[j].catalog = c /\ jobs'[j].revision = jobs[j].revision
  BY DEF SameJobs
<1>4. c \in DOMAIN catalogs' /\ catalogs[c].revision <= catalogs'[c].revision
  BY <1>2 DEF Moves
<1>5. catalogs[c].revision \in Nat
  BY <1>1, DraftRow, CatalogsAssumption DEF CatalogRows
<1>6. catalogs'[c].revision \in Nat
  <2>1. catalogs'[c] \in CatalogRows
    BY <1>4, LenProperties, ElementOfSeq DEF RowsTypeOK
  <2> QED
    BY <2>1, CatalogsAssumption DEF CatalogRows
<1>7. jobs'[j].revision <= catalogs'[c].revision
  BY <1>1, <1>3, <1>4, <1>5, <1>6
<1> QED
  BY <1>3, <1>4, <1>7 DEF JobSound

LEMMA CallKept ==
  ASSUME CatalogsInv, RowsMove, SameJobs(jobs'), NEW k \in Calls,
         call'[k] \in {call[k], None}
  PROVE  CallSound(k)'
<1>1. CallSound(k)
  BY DEF CatalogsInv, JobsSound
<1>2. CASE call'[k] = None
  BY <1>2 DEF CallSound
<1>3. CASE call'[k] = call[k] /\ call[k] # None
  <2>1. call[k].catalog \in DOMAIN catalogs'
    BY <1>1, <1>3 DEF CallSound, RowsMove, Moves
  <2>2. call[k].step = "launch" => call[k].job \in DOMAIN jobs'
    BY <1>1, <1>3 DEF CallSound, SameJobs
  <2> QED
    BY <1>1, <1>3, <2>1, <2>2 DEF CallSound
<1> QED
  BY <1>2, <1>3

LEMMA ExecutionKept ==
  ASSUME CatalogsInv, RowsTypeOK', RowsMove, SameJobs(jobs'), NEW j \in 1 .. MaxJobs,
         executing'[j] \in {executing[j], None}
  PROVE  ExecutionSound(j)'
<1> DEFINE c == jobs[j].catalog
<1>1. ExecutionSound(j)
  BY DEF CatalogsInv, JobsSound
<1>2. CASE executing'[j] = None
  BY <1>2 DEF ExecutionSound
<1>3. CASE executing'[j] = executing[j] /\ executing[j] # None
  <2>1. j \in DOMAIN jobs
    BY <1>1, <1>3 DEF ExecutionSound
  <2>2. /\ c \in DOMAIN catalogs /\ jobs[j].revision \in Nat
        /\ jobs[j].revision <= catalogs[c].revision
    BY <2>1, JobTypes
  <2>3. catalogs[c].revision \in Nat
    BY <2>2, DraftRow, CatalogsAssumption DEF CatalogRows
  <2>4. Moves(c)
    BY <2>2 DEF RowsMove
  <2>5. /\ j \in DOMAIN jobs'
        /\ jobs'[j].catalog = c /\ jobs'[j].revision = jobs[j].revision
    BY <2>1 DEF SameJobs
  <2>6. ASSUME catalogs'[c].revision = jobs[j].revision
        PROVE  /\ catalogs[c].revision = jobs[j].revision
               /\ catalogs'[c].dataset = catalogs[c].dataset
               /\ Uploaded(c, Documents)' = Uploaded(c, Documents)
    <3>1. catalogs[c].revision <= catalogs'[c].revision
      BY <2>4 DEF Moves
    <3>2. catalogs[c].revision = jobs[j].revision
      BY <2>2, <2>3, <2>6, <3>1
    <3> QED
      BY <2>4, <2>6, <3>2 DEF Moves
  <2>7. Uploaded(c, Documents)' = Uploaded(jobs[j].catalog, Documents)'
    OBVIOUS
  <2> HIDE DEF c
  <2> QED
    BY <1>1, <1>3, <2>5, <2>6 DEF ExecutionSound, c
<1> QED
  BY <1>2, <1>3

\* A step that starts nothing and reads nothing.
LEMMA JobsKept ==
  ASSUME CatalogsInv, RowsTypeOK', RowsMove,
         jobs' \in Seq(JobRows), Len(jobs') = Len(jobs), SameJobs(jobs'),
         call' \in [Calls -> CallRows \cup {None}],
         \A k \in Calls : call'[k] \in {call[k], None},
         executing' \in [1..MaxJobs -> ExecutionRows \cup {None}],
         \A j \in 1 .. MaxJobs : executing'[j] \in {executing[j], None}
  PROVE  JobsTypeOK' /\ JobsSound'
<1>1. JobsTypeOK'
  BY DEF JobsTypeOK
<1>2. jobs \in Seq(JobRows) /\ Len(jobs') <= MaxJobs
  BY DEF CatalogsInv, TypeOK, JobsSound
<1>3. DOMAIN jobs' = DOMAIN jobs
  BY <1>2, LenProperties
<1>4. \A j \in DOMAIN jobs' : JobSound(j)'
  BY <1>3, JobKept
<1>5. \A k \in Calls : CallSound(k)'
  BY CallKept
<1>6. \A j \in 1 .. MaxJobs : ExecutionSound(j)'
  BY ExecutionKept
<1> QED
  BY <1>1, <1>2, <1>4, <1>5, <1>6 DEF JobsSound

\* The rows stay, and so do the conversions: one request goes on.
LEMMA CallMoves ==
  ASSUME CatalogsInv, UNCHANGED rows, UNCHANGED executing,
         jobs' \in Seq(JobRows), Len(jobs') = Len(jobs), SameJobs(jobs'),
         NEW k \in Calls, NEW new \in CallRows,
         new.catalog \in DOMAIN catalogs,
         new.step = "create" => new.dataset \in Datasets,
         new.step = "commit" => new.revision # 0,
         new.step = "launch" => new.job \in DOMAIN jobs,
         call' = [call EXCEPT ![k] = new]
  PROVE  JobsTypeOK' /\ JobsSound'
<1>1. RowsTypeOK' /\ RowsMove
  BY NothingMoves
<1>2. /\ call \in [Calls -> CallRows \cup {None}]
      /\ executing \in [1..MaxJobs -> ExecutionRows \cup {None}]
      /\ jobs \in Seq(JobRows) /\ Len(jobs) <= MaxJobs
  BY DEF CatalogsInv, TypeOK, JobsSound
<1>3. JobsTypeOK'
  BY <1>2 DEF JobsTypeOK
<1>4. \A q \in Calls : call'[q] = IF q = k THEN new ELSE call[q]
  BY <1>2
<1>5. \A q \in Calls : CallSound(q)'
  <2> SUFFICES ASSUME NEW q \in Calls PROVE CallSound(q)'
    OBVIOUS
  <2>1. CASE q = k
    <3>1. call'[q] = new
      BY <2>1, <1>4
    <3>2. new.step = "launch" => new.job \in DOMAIN jobs'
      BY DEF SameJobs
    <3> QED
      BY <3>1, <3>2 DEF CallSound, rows
  <2>2. CASE q # k
    BY <2>2, <1>1, <1>4, CallKept
  <2> QED
    BY <2>1, <2>2
<1>6. DOMAIN jobs' = DOMAIN jobs
  BY <1>2, LenProperties
<1>7. \A j \in DOMAIN jobs' : JobSound(j)'
  BY <1>1, <1>6, JobKept
<1>8. \A j \in 1 .. MaxJobs : ExecutionSound(j)'
  BY <1>1, ExecutionKept
<1> QED
  BY <1>2, <1>3, <1>5, <1>7, <1>8 DEF JobsSound

LEMMA BeginRevisionStep ==
  ASSUME CatalogsInv, NEW k \in Calls, NEW c \in DOMAIN catalogs, NEW d \in Drafts,
         BeginRevision(k, c, d)
  PROVE  JobsTypeOK' /\ JobsSound'
<1> DEFINE new == [step |-> "create", catalog |-> c, revision |-> 0,
                   job |-> 0, dataset |-> d]
<1>1. c \in Nat /\ d \in Datasets
  BY LenProperties, CatalogsAssumption DEF CatalogsInv, TypeOK
<1>2. new \in CallRows
  BY <1>1, CatalogsAssumption DEF CallRows
<1>3. /\ call' = [call EXCEPT ![k] = new]
      /\ UNCHANGED rows /\ UNCHANGED jobs /\ UNCHANGED executing
  BY DEF BeginRevision
<1>4. jobs' \in Seq(JobRows) /\ Len(jobs') = Len(jobs) /\ SameJobs(jobs')
  BY <1>3 DEF SameJobs, CatalogsInv, TypeOK
<1>5. /\ new.catalog = c /\ new.step = "create" /\ new.dataset = d
  OBVIOUS
<1> HIDE DEF new
<1> QED
  BY <1>1, <1>2, <1>3, <1>4, <1>5, CallMoves

LEMMA StartStep ==
  ASSUME CatalogsInv, NEW k \in Calls, NEW c \in DOMAIN catalogs, Start(k, c)
  PROVE  JobsTypeOK' /\ JobsSound'
<1> DEFINE new == [step |-> "commit", catalog |-> c, job |-> 0,
                   revision |-> catalogs[c].revision, dataset |-> None]
<1>1. c \in Nat /\ catalogs[c].revision \in 1 .. MaxRevision
  BY LenProperties, DraftRow DEF CatalogsInv, TypeOK, CatalogRows
<1>2. new \in CallRows
  BY <1>1, CatalogsAssumption DEF CallRows
<1>3. /\ call' = [call EXCEPT ![k] = new]
      /\ UNCHANGED rows /\ UNCHANGED executing /\ jobs' = Settled(c)
  BY DEF Start
<1>4. jobs' \in Seq(JobRows) /\ Len(jobs') = Len(jobs) /\ SameJobs(jobs')
  BY <1>3, SettledJobs
<1>5. /\ new.catalog = c /\ new.step = "commit" /\ new.revision # 0
  BY <1>1, CatalogsAssumption
<1> HIDE DEF new
<1> QED
  BY <1>2, <1>3, <1>4, <1>5, CallMoves

\* A conversion is added, at the revision its catalog has.
LEMMA CommitStartStep ==
  ASSUME CatalogsInv, NEW k \in Calls, CommitStart(k)
  PROVE  JobsTypeOK' /\ JobsSound'
<1> DEFINE c == call[k].catalog
           running == {j \in DOMAIN jobs : jobs[j].catalog = c /\ jobs[j].status = "RUNNING"}
<1>1. /\ call \in [Calls -> CallRows \cup {None}]
      /\ executing \in [1..MaxJobs -> ExecutionRows \cup {None}]
      /\ jobs \in Seq(JobRows) /\ Len(jobs) <= MaxJobs
  BY DEF CatalogsInv, TypeOK, JobsSound
<1>2. /\ call[k] # None /\ call[k].step = "commit" /\ CallSound(k)
      /\ UNCHANGED rows /\ UNCHANGED executing
  BY DEF CommitStart, CatalogsInv, JobsSound
<1>3. /\ call[k] \in CallRows /\ c \in DOMAIN catalogs
      /\ call[k].revision \in 0 .. MaxRevision /\ call[k].revision # 0
  BY <1>1, <1>2 DEF CallSound, CallRows
<1>4. RowsTypeOK' /\ RowsMove
  BY <1>2, NothingMoves
<1>5. CASE UNCHANGED jobs /\ call' = [call EXCEPT ![k] = None]
  <2>1. /\ call' \in [Calls -> CallRows \cup {None}]
        /\ \A q \in Calls : call'[q] \in {call[q], None}
    BY <1>1, <1>5
  <2>2. jobs' \in Seq(JobRows) /\ Len(jobs') = Len(jobs) /\ SameJobs(jobs')
    BY <1>1, <1>5 DEF SameJobs
  <2> QED
    BY <1>1, <1>2, <1>4, <2>1, <2>2, JobsKept
<1>6. ASSUME NEW j \in running, UNCHANGED jobs,
             call' = [call EXCEPT ![k].step = "launch", ![k].job = j]
      PROVE  JobsTypeOK' /\ JobsSound'
  <2> DEFINE new == [call[k] EXCEPT !.step = "launch", !.job = j]
  <2>1. j \in DOMAIN jobs /\ j \in Nat
    BY <1>1, LenProperties
  <2>2. /\ new \in CallRows /\ new.catalog = c /\ new.step = "launch" /\ new.job = j
    BY <1>3, <2>1 DEF CallRows
  <2>3. call' = [call EXCEPT ![k] = new]
    BY <1>1, <1>6
  <2>4. jobs' \in Seq(JobRows) /\ Len(jobs') = Len(jobs) /\ SameJobs(jobs')
    BY <1>1, <1>6 DEF SameJobs
  <2> HIDE DEF new, running
  <2> QED
    BY <1>2, <1>3, <2>1, <2>2, <2>3, <2>4, CallMoves
<1>7. CASE /\ ~(~Draft(c) \/ catalogs[c].revision # call[k].revision)
           /\ Len(jobs) < MaxJobs
           /\ jobs' = Append(jobs, [catalog |-> c, revision |-> call[k].revision,
                                    status |-> "RUNNING", old |-> FALSE])
           /\ call' = [call EXCEPT ![k].step = "launch", ![k].job = Len(jobs) + 1]
  <2>0. PICK n \in Nat : n = Len(jobs) + 1
    BY <1>1, LenProperties
  <2> DEFINE job == [catalog |-> c, revision |-> call[k].revision,
                     status |-> "RUNNING", old |-> FALSE]
             new == [call[k] EXCEPT !.step = "launch", !.job = n]
  <2>1. c \in Nat /\ call[k].revision \in 1 .. MaxRevision /\ Len(jobs) \in Nat
    BY <1>1, <1>3, LenProperties, CatalogsAssumption DEF CatalogsInv, TypeOK
  <2>2. job \in JobRows
    BY <2>1 DEF JobRows
  <2>3. /\ jobs' \in Seq(JobRows) /\ Len(jobs') = n
        /\ DOMAIN jobs' = 1 .. n /\ DOMAIN jobs = 1 .. Len(jobs)
        /\ \A j \in DOMAIN jobs : jobs'[j] = jobs[j]
        /\ jobs'[n] = job
    BY <1>1, <1>7, <2>0, <2>2, AppendProperties, LenProperties
  <2>4. SameJobs(jobs')
    BY <2>0, <2>1, <2>3 DEF SameJobs
  <2>5. n <= MaxJobs /\ n \in Nat /\ \A j \in DOMAIN jobs' : j \in DOMAIN jobs \/ j = n
    BY <1>7, <2>0, <2>1, <2>3, CatalogsAssumption
  <2>6. new \in CallRows /\ new.catalog = c /\ new.step = "launch" /\ new.job = n
    BY <1>3, <2>5 DEF CallRows
  <2>7. \A q \in Calls : call'[q] = IF q = k THEN new ELSE call[q]
    BY <1>1, <1>7, <2>0
  <2>8. call' \in [Calls -> CallRows \cup {None}]
    BY <1>1, <2>6, <2>7, <1>7, <2>0
  <2>9. JobsTypeOK'
    BY <1>1, <1>2, <2>3, <2>8 DEF JobsTypeOK
  <2>10. JobSound(n)'
    <3>1. /\ jobs'[n].catalog = c /\ jobs'[n].revision = catalogs[c].revision
      BY <1>7, <2>3
    <3>2. catalogs' = catalogs /\ catalogs[c].revision \in Nat
      BY <1>2, <1>3, DraftRow, CatalogsAssumption DEF rows, CatalogRows
    <3> QED
      BY <1>3, <3>1, <3>2 DEF JobSound
  <2>11. \A j \in DOMAIN jobs' : JobSound(j)'
    BY <1>4, <2>4, <2>5, <2>10, JobKept
  <2>12. call'[k] = new /\ n \in DOMAIN jobs' /\ catalogs' = catalogs
    BY <1>2, <2>0, <2>1, <2>3, <2>7 DEF rows
  <2> HIDE DEF new, job
  <2>13. ASSUME NEW q \in Calls PROVE CallSound(q)'
    <3>1. CASE q = k
      BY <1>3, <2>6, <2>12, <3>1 DEF CallSound
    <3>2. CASE q # k
      <4>1. call'[q] \in {call[q], None}
        BY <2>7, <3>2
      <4> QED
        BY <1>4, <2>4, <4>1, CallKept
    <3> QED
      BY <3>1, <3>2
  <2>14. \A j \in 1 .. MaxJobs : ExecutionSound(j)'
    BY <1>2, <1>4, <2>4, ExecutionKept
  <2> QED
    BY <2>3, <2>5, <2>9, <2>11, <2>13, <2>14 DEF JobsSound
<1> QED
  BY <1>5, <1>6, <1>7 DEF CommitStart

\* The rows stay, and so do conversions and requests: the work of one
\* conversion in memory goes on.
LEMMA ExecutionMoves ==
  ASSUME CatalogsInv, UNCHANGED rows, UNCHANGED jobs,
         call' \in [Calls -> CallRows \cup {None}],
         \A k \in Calls : call'[k] \in {call[k], None},
         NEW j \in DOMAIN jobs, NEW new \in ExecutionRows,
         new.step \in {"convert", "apply"} =>
           /\ new.dataset \in Datasets
           /\ catalogs[jobs[j].catalog].revision = jobs[j].revision =>
                new.dataset = catalogs[jobs[j].catalog].dataset,
         new.step = "apply" =>
           /\ new.output \in Datasets
           /\ catalogs[jobs[j].catalog].revision = jobs[j].revision =>
                new.documents = Uploaded(jobs[j].catalog, Documents),
         executing' = [executing EXCEPT ![j] = new]
  PROVE  JobsTypeOK' /\ JobsSound'
<1>1. RowsTypeOK' /\ RowsMove
  BY NothingMoves
<1>2. /\ executing \in [1..MaxJobs -> ExecutionRows \cup {None}]
      /\ jobs \in Seq(JobRows) /\ Len(jobs) <= MaxJobs
      /\ SameJobs(jobs')
  BY DEF CatalogsInv, TypeOK, JobsSound, SameJobs
<1>3. JobsTypeOK'
  BY <1>2 DEF JobsTypeOK
<1>4. \A i \in 1 .. MaxJobs : executing'[i] = IF i = j THEN new ELSE executing[i]
  BY <1>2
<1>5. \A i \in DOMAIN jobs' : JobSound(i)'
  BY <1>1, <1>2, JobKept
<1>6. \A k \in Calls : CallSound(k)'
  BY <1>1, <1>2, CallKept
<1>7. ASSUME NEW i \in 1 .. MaxJobs PROVE ExecutionSound(i)'
  <2>1. CASE i = j
    <3>1. executing'[i] = new
      BY <2>1, <1>4
    <3>2. \A c : Uploaded(c, Documents)' = Uploaded(c, Documents)
      BY DEF rows, Uploaded
    <3> QED
      BY <2>1, <3>1, <3>2 DEF ExecutionSound, rows
  <2>2. CASE i # j
    BY <2>2, <1>1, <1>2, <1>4, ExecutionKept
  <2> QED
    BY <2>1, <2>2
<1> QED
  BY <1>2, <1>3, <1>5, <1>6, <1>7 DEF JobsSound

LEMMA LaunchStep ==
  ASSUME CatalogsInv, NEW k \in Calls, Launch(k)
  PROVE  JobsTypeOK' /\ JobsSound'
<1> DEFINE j == call[k].job
           new == [step |-> "read", dataset |-> None, documents |-> {}, output |-> None]
<1>1. /\ call \in [Calls -> CallRows \cup {None}]
      /\ executing \in [1..MaxJobs -> ExecutionRows \cup {None}]
      /\ jobs \in Seq(JobRows)
  BY DEF CatalogsInv, TypeOK
<1>2. /\ call[k] # None /\ call[k].step = "launch" /\ CallSound(k)
      /\ call' = [call EXCEPT ![k] = None]
      /\ UNCHANGED rows /\ UNCHANGED jobs
  BY DEF Launch, CatalogsInv, JobsSound
<1>3. /\ call' \in [Calls -> CallRows \cup {None}]
      /\ \A q \in Calls : call'[q] \in {call[q], None}
  BY <1>1, <1>2
<1>4. j \in DOMAIN jobs
  BY <1>2 DEF CallSound
<1>5. CASE executing' = executing
  <2>1. RowsTypeOK' /\ RowsMove
    BY <1>2, NothingMoves
  <2>2. jobs' \in Seq(JobRows) /\ Len(jobs') = Len(jobs) /\ SameJobs(jobs')
    BY <1>1, <1>2 DEF SameJobs
  <2>3. /\ executing' \in [1..MaxJobs -> ExecutionRows \cup {None}]
        /\ \A i \in 1 .. MaxJobs : executing'[i] \in {executing[i], None}
    BY <1>1, <1>5
  <2> QED
    BY <1>3, <2>1, <2>2, <2>3, JobsKept
<1>6. CASE executing' = [executing EXCEPT ![j] = new]
  <2>1. new \in ExecutionRows /\ new.step = "read"
    BY DEF ExecutionRows
  <2> HIDE DEF new, j
  <2> QED
    BY <1>2, <1>3, <1>4, <1>6, <2>1, ExecutionMoves
<1> QED
  BY <1>5, <1>6 DEF Launch

LEMMA ReadDraftStep ==
  ASSUME CatalogsInv, NEW j \in DOMAIN jobs, ReadDraft(j)
  PROVE  JobsTypeOK' /\ JobsSound'
<1> DEFINE c == jobs[j].catalog
           new == [executing[j] EXCEPT !.step = "convert", !.dataset = catalogs[c].dataset]
<1>1. /\ call \in [Calls -> CallRows \cup {None}]
      /\ executing \in [1..MaxJobs -> ExecutionRows \cup {None}]
  BY DEF CatalogsInv, TypeOK
<1>2. j \in 1 .. MaxJobs /\ c \in DOMAIN catalogs
  BY JobTypes
<1>3. executing[j] \in ExecutionRows
  BY <1>1, <1>2 DEF ReadDraft, Executes
<1>4. catalogs[c].dataset \in Datasets
  BY <1>2, DraftRow
<1>5. new \in ExecutionRows /\ new.step = "convert" /\ new.dataset = catalogs[c].dataset
  BY <1>3, <1>4 DEF ExecutionRows
<1>6. /\ executing' = [executing EXCEPT ![j] = new]
      /\ UNCHANGED rows /\ UNCHANGED jobs /\ UNCHANGED call
  BY <1>1, <1>2 DEF ReadDraft
<1>7. /\ call' \in [Calls -> CallRows \cup {None}]
      /\ \A q \in Calls : call'[q] \in {call[q], None}
  BY <1>1, <1>6
<1> HIDE DEF new
<1> QED
  BY <1>4, <1>5, <1>6, <1>7, ExecutionMoves

LEMMA ConvertStep ==
  ASSUME CatalogsInv, NEW j \in DOMAIN jobs, NEW content \in Contents,
         NEW question \in {"none", "open", "answered", "applied"},
         Convert(j, content, question)
  PROVE  JobsTypeOK' /\ JobsSound'
<1> DEFINE c == jobs[j].catalog
           documents == Uploaded(c, Documents)
           output == [content |-> content, confirmed |-> TRUE,
                      rules |-> [from |-> documents, question |-> question]]
           new == [executing[j] EXCEPT !.step = "apply", !.documents = documents,
                                       !.output = output]
<1>1. /\ call \in [Calls -> CallRows \cup {None}]
      /\ executing \in [1..MaxJobs -> ExecutionRows \cup {None}]
  BY DEF CatalogsInv, TypeOK
<1>2. j \in 1 .. MaxJobs /\ c \in DOMAIN catalogs
  BY JobTypes
<1>3. /\ executing[j] # None /\ executing[j].step = "convert"
      /\ executing[j] \in ExecutionRows /\ ExecutionSound(j)
  BY <1>1, <1>2 DEF Convert, Executes, CatalogsInv, JobsSound
<1>4. documents \in SUBSET (Documents \X Hashes)
  BY <1>2, UploadedType DEF CatalogsInv, TypeOK, RowsTypeOK, Names
<1> HIDE DEF documents
<1>5. output \in Datasets
  <2>1. [from |-> documents, question |-> question] \in Rules
    BY <1>4 DEF Rules
  <2> QED
    BY <2>1 DEF Datasets
<1> HIDE DEF output
<1>6. /\ new \in ExecutionRows /\ new.step = "apply"
      /\ new.dataset = executing[j].dataset
      /\ new.output = output /\ new.documents = documents
  BY <1>3, <1>4, <1>5 DEF ExecutionRows
<1>7. /\ executing' = [executing EXCEPT ![j] = new]
      /\ UNCHANGED rows /\ UNCHANGED jobs /\ UNCHANGED call
  BY <1>1, <1>2 DEF Convert, output, documents
<1>8. /\ call' \in [Calls -> CallRows \cup {None}]
      /\ \A q \in Calls : call'[q] \in {call[q], None}
  BY <1>1, <1>7
<1>9. /\ executing[j].dataset \in Datasets
      /\ catalogs[c].revision = jobs[j].revision =>
           executing[j].dataset = catalogs[c].dataset
  BY <1>3 DEF ExecutionSound
<1>10. documents = Uploaded(jobs[j].catalog, Documents)
  BY DEF documents
<1> HIDE DEF new
<1> QED
  BY <1>5, <1>6, <1>7, <1>8, <1>9, <1>10, ExecutionMoves

\* A conversion ends, or its row is rewritten.
LEMMA JobEnds ==
  ASSUME CatalogsInv, RowsTypeOK', RowsMove, NEW j \in DOMAIN jobs,
         NEW status \in {"RUNNING", "FAILED", "COMPLETED", "NEEDS_ANSWERS"},
         jobs' = [jobs EXCEPT ![j].status = status],
         executing' = [executing EXCEPT ![j] = None],
         UNCHANGED call
  PROVE  JobsTypeOK' /\ JobsSound'
<1>1. /\ call' \in [Calls -> CallRows \cup {None}]
      /\ \A k \in Calls : call'[k] \in {call[k], None}
      /\ executing' \in [1..MaxJobs -> ExecutionRows \cup {None}]
      /\ \A i \in 1 .. MaxJobs : executing'[i] \in {executing[i], None}
  BY DEF CatalogsInv, TypeOK
<1>2. jobs' \in Seq(JobRows) /\ Len(jobs') = Len(jobs) /\ SameJobs(jobs')
  BY StatusSet
<1> QED
  BY <1>1, <1>2, JobsKept

LEMMA ApplyStep ==
  ASSUME CatalogsInv, NEW j \in DOMAIN jobs, ApplyResult(j)
  PROVE  JobsTypeOK' /\ JobsSound'
<1>1. RowsTypeOK' /\ RowsMove
  BY ApplyMoves
<1>2. PICK status \in {"RUNNING", "FAILED", "COMPLETED", "NEEDS_ANSWERS"} :
        jobs' = [jobs EXCEPT ![j].status = status]
  <2>1. CASE StillAsRead(j)
    BY <2>1 DEF ApplyResult
  <2>2. CASE ~StillAsRead(j)
    BY <2>2 DEF ApplyResult
  <2> QED
    BY <2>1, <2>2
<1>3. executing' = [executing EXCEPT ![j] = None] /\ UNCHANGED call
  BY DEF ApplyResult
<1> QED
  BY <1>1, <1>2, <1>3, JobEnds

LEMMA ConversionFailsStep ==
  ASSUME CatalogsInv, NEW j \in DOMAIN jobs, ConversionFails(j)
  PROVE  JobsTypeOK' /\ JobsSound'
<1>1. RowsTypeOK' /\ RowsMove
  BY NothingMoves DEF ConversionFails
<1>2. /\ jobs' = [jobs EXCEPT ![j].status = "FAILED"]
      /\ executing' = [executing EXCEPT ![j] = None] /\ UNCHANGED call
  BY DEF ConversionFails
<1> QED
  BY <1>1, <1>2, JobEnds

\* Nothing starts and nothing is read, and the rows of conversions keep their
\* catalogs and revisions.
LEMMA OthersStep ==
  ASSUME CatalogsInv, RowsTypeOK', RowsMove,
         jobs' \in Seq(JobRows), Len(jobs') = Len(jobs), SameJobs(jobs'),
         \/ UNCHANGED <<call, executing>>
         \/ /\ UNCHANGED executing
            /\ \E k \in Calls : call' = [call EXCEPT ![k] = None]
         \/ /\ call' = [k \in Calls |-> None]
            /\ executing' = [j \in 1..MaxJobs |-> None]
  PROVE  JobsTypeOK' /\ JobsSound'
<1>1. /\ call \in [Calls -> CallRows \cup {None}]
      /\ executing \in [1..MaxJobs -> ExecutionRows \cup {None}]
  BY DEF CatalogsInv, TypeOK
<1>2. /\ call' \in [Calls -> CallRows \cup {None}]
      /\ \A k \in Calls : call'[k] \in {call[k], None}
  BY <1>1
<1>3. /\ executing' \in [1..MaxJobs -> ExecutionRows \cup {None}]
      /\ \A i \in 1 .. MaxJobs : executing'[i] \in {executing[i], None}
  BY <1>1
<1> QED
  BY <1>2, <1>3, JobsKept

LEMMA TimePassesStep ==
  ASSUME CatalogsInv, NEW j \in DOMAIN jobs, TimePasses(j)
  PROVE  JobsTypeOK' /\ JobsSound'
<1> DEFINE row == [jobs[j] EXCEPT !.old = TRUE]
<1>1. RowsTypeOK' /\ RowsMove
  BY NothingMoves DEF TimePasses
<1>2. jobs[j] \in JobRows /\ jobs \in Seq(JobRows)
  BY JobTypes DEF CatalogsInv, TypeOK
<1>3. /\ row \in JobRows /\ row.catalog = jobs[j].catalog
      /\ row.revision = jobs[j].revision
  BY <1>2 DEF JobRows
<1>4. jobs' = [jobs EXCEPT ![j] = row] /\ UNCHANGED <<call, executing>>
  BY DEF TimePasses
<1> HIDE DEF row
<1>5. jobs' \in Seq(JobRows) /\ Len(jobs') = Len(jobs) /\ SameJobs(jobs')
  BY <1>2, <1>3, <1>4, JobRewritten
<1> QED
  BY <1>1, <1>4, <1>5, OthersStep

\* What a step does to conversions and requests.
LEMMA JobsStep ==
  ASSUME CatalogsInv, [Next]_vars
  PROVE  JobsTypeOK' /\ JobsSound'
<1>0. RowsTypeOK' /\ RowsMove
  BY RowsStep
<1>1. ASSUME UNCHANGED <<jobs, call, executing>>
      PROVE  JobsTypeOK' /\ JobsSound'
  <2>1. jobs' \in Seq(JobRows) /\ Len(jobs') = Len(jobs) /\ SameJobs(jobs')
    BY <1>1 DEF CatalogsInv, TypeOK, SameJobs
  <2> QED
    BY <1>0, <1>1, <2>1, OthersStep
<1>2. ASSUME NEW c \in DOMAIN catalogs, Edit(c) \/ Verify(c) \/ Answer(c)
      PROVE  JobsTypeOK' /\ JobsSound'
  BY <1>1, <1>2 DEF Edit, Update, Remove, Begin, Part, Finish, Verify, Check,
                    Generate, Review, Approve, Answer
<1>3. ASSUME NEW c \in DOMAIN catalogs, Status(c)
      PROVE  JobsTypeOK' /\ JobsSound'
  <2>1. jobs' \in Seq(JobRows) /\ Len(jobs') = Len(jobs) /\ SameJobs(jobs')
    BY <1>3, SettledJobs DEF Status
  <2> QED
    BY <1>0, <1>3, <2>1, OthersStep DEF Status
<1>4. ASSUME NEW j \in DOMAIN jobs, Conversion(j)
      PROVE  JobsTypeOK' /\ JobsSound'
  BY <1>4, ReadDraftStep, ConvertStep, ApplyStep, ConversionFailsStep, TimePassesStep
     DEF Conversion
<1>5. ASSUME NEW k \in Calls, CreateRevision(k)
      PROVE  JobsTypeOK' /\ JobsSound'
  <2>1. jobs' \in Seq(JobRows) /\ Len(jobs') = Len(jobs) /\ SameJobs(jobs')
    BY <1>5 DEF CreateRevision, CatalogsInv, TypeOK, SameJobs
  <2>2. UNCHANGED executing /\ call' = [call EXCEPT ![k] = None]
    BY <1>5 DEF CreateRevision
  <2> QED
    BY <1>0, <2>1, <2>2, OthersStep
<1>6. ASSUME NEW k \in Calls, Request(k)
      PROVE  JobsTypeOK' /\ JobsSound'
  BY <1>5, <1>6, BeginRevisionStep, StartStep, CommitStartStep, LaunchStep DEF Request
<1>7. ASSUME Crash
      PROVE  JobsTypeOK' /\ JobsSound'
  <2>1. jobs' \in Seq(JobRows) /\ Len(jobs') = Len(jobs) /\ SameJobs(jobs')
    BY <1>7 DEF Crash, CatalogsInv, TypeOK, SameJobs
  <2> QED
    BY <1>0, <1>7, <2>1, OthersStep DEF Crash
<1>8. ASSUME NEW d \in Drafts, Create(d)
      PROVE  JobsTypeOK' /\ JobsSound'
  BY <1>1, <1>8 DEF Create
<1>9. CASE UNCHANGED vars
  BY <1>1, <1>9 DEF vars
<1> QED
  BY <1>2, <1>3, <1>4, <1>6, <1>7, <1>8, <1>9 DEF Next

LEMMA CatalogsInitially == Init => CatalogsInv
<1> SUFFICES ASSUME Init PROVE CatalogsInv
  OBVIOUS
<1>1. /\ catalogs \in Seq(CatalogRows)
      /\ sources \in Seq([Names -> SourceRows \cup {None}])
      /\ checks \in Seq(SUBSET CheckRows)
      /\ jobs \in Seq(JobRows)
      /\ Len(catalogs) = 0 /\ Len(sources) = 0 /\ Len(checks) = 0 /\ Len(jobs) = 0
      /\ DOMAIN catalogs = {} /\ DOMAIN jobs = {}
  BY EmptySeq DEF Init
<1>2. /\ call = [k \in Calls |-> None]
      /\ executing = [j \in 1..MaxJobs |-> None]
  BY DEF Init
<1>3. TypeOK
  BY <1>1, <1>2 DEF TypeOK
<1>4. TrialsSound
  BY <1>1 DEF TrialsSound
<1>5. JobsSound
  BY <1>1, <1>2, CatalogsAssumption DEF JobsSound, CallSound, ExecutionSound
<1> QED
  BY <1>3, <1>4, <1>5 DEF CatalogsInv

LEMMA CatalogsStep ==
  ASSUME CatalogsInv, [Next]_vars
  PROVE  CatalogsInv' /\ RowsMove
<1>1. RowsTypeOK' /\ TrialsSound' /\ RowsMove
  BY RowsStep
<1>2. JobsTypeOK' /\ JobsSound'
  BY JobsStep
<1>3. TypeOK'
  BY <1>1, <1>2 DEF TypeOK, RowsTypeOK, JobsTypeOK
<1> QED
  BY <1>1, <1>2, <1>3 DEF CatalogsInv

-----------------------------------------------------------------------------
(* A conversion that ends well.                                            *)

LEMMA ConversionEnds ==
  ASSUME CatalogsInv, [Next]_vars, NEW j \in DOMAIN jobs,
         jobs'[j].status \in {"COMPLETED", "NEEDS_ANSWERS"} \ {jobs[j].status}
  PROVE  /\ executing[j].dataset = catalogs[jobs[j].catalog].dataset
         /\ executing[j].documents = Uploaded(jobs[j].catalog, Documents)
<1>1. jobs' # jobs
  OBVIOUS
<1>2. ASSUME NEW c, jobs' = Settled(c) PROVE FALSE
  BY <1>2, SettledJobs
<1>3. ASSUME NEW i \in DOMAIN jobs, NEW status,
             jobs' = [jobs EXCEPT ![i].status = status]
      PROVE  i = j /\ status \in {"COMPLETED", "NEEDS_ANSWERS"}
  <2>1. jobs \in Seq(JobRows) /\ jobs[j] \in JobRows
    BY JobTypes DEF CatalogsInv, TypeOK
  <2>2. i # j => jobs'[j] = jobs[j]
    BY <1>3
  <2>3. i = j => jobs'[j].status = status
    BY <1>3, <2>1 DEF JobRows
  <2> QED
    BY <2>2, <2>3
<1>4. ASSUME NEW i \in DOMAIN jobs, Conversion(i)
      PROVE  i = j /\ ApplyResult(j) /\ StillAsRead(j)
  <2>1. ~ConversionFails(i)
    BY <1>3 DEF ConversionFails
  <2>2. ~TimePasses(i)
    <3>1. SUFFICES ASSUME TimePasses(i) PROVE FALSE
      OBVIOUS
    <3>2. jobs' = [jobs EXCEPT ![i].old = TRUE] /\ jobs[j] \in JobRows
      BY <3>1, JobTypes DEF TimePasses
    <3>3. jobs'[j].status = jobs[j].status
      BY <3>2 DEF JobRows
    <3> QED
      BY <3>3
  <2>3. ApplyResult(i)
    BY <1>1, <1>4, <2>1, <2>2 DEF Conversion, ReadDraft, Convert
  <2>4. CASE ~StillAsRead(i)
    BY <1>3, <2>3, <2>4 DEF ApplyResult
  <2>5. CASE StillAsRead(i)
    <3>1. PICK status : jobs' = [jobs EXCEPT ![i].status = status]
      BY <2>3, <2>5 DEF ApplyResult
    <3> QED
      BY <1>3, <2>3, <2>5, <3>1
  <2> QED
    BY <2>4, <2>5
<1>5. ASSUME NEW k \in Calls, CommitStart(k) PROVE FALSE
  <2>1. PICK row : jobs' = Append(jobs, row)
    BY <1>1, <1>5 DEF CommitStart
  <2>2. jobs \in Seq(JobRows)
    BY DEF CatalogsInv, TypeOK
  <2>3. jobs'[j] = jobs[j]
    BY <2>1, <2>2
  <2> QED
    BY <2>3
<1>6. ASSUME NEW k \in Calls, Request(k) PROVE FALSE
  BY <1>1, <1>2, <1>5, <1>6 DEF Request, BeginRevision, CreateRevision, Start, Launch
<1>7. ASSUME NEW c \in DOMAIN catalogs, Edit(c) \/ Verify(c) \/ Status(c) \/ Answer(c)
      PROVE  FALSE
  BY <1>1, <1>2, <1>7 DEF Edit, Update, Remove, Begin, Part, Finish, Verify, Check,
                          Generate, Review, Approve, Status, Answer
<1>8. ApplyResult(j) /\ StillAsRead(j)
  BY <1>1, <1>4, <1>6, <1>7 DEF Next, Create, Crash, vars
<1>9. /\ executing[j] # None /\ executing[j].step = "apply"
      /\ catalogs[jobs[j].catalog].revision = jobs[j].revision
  BY <1>8 DEF ApplyResult, Executes, StillAsRead
<1>10. ExecutionSound(j)
  BY JobTypes DEF CatalogsInv, JobsSound
<1> QED
  BY <1>9, <1>10 DEF ExecutionSound

-----------------------------------------------------------------------------
(* The set-up.                                                             *)

Opened == \E c \in DOMAIN catalogs : catalogs[c].approved # None

LEMMA OpenedKept ==
  ASSUME RowsMove, Opened
  PROVE  Opened'
<1>1. PICK c \in DOMAIN catalogs : catalogs[c].approved # None
  BY DEF Opened
<1>2. c \in DOMAIN catalogs' /\ catalogs'[c].approved # None
  BY <1>1 DEF RowsMove, Moves
<1> QED
  BY <1>2 DEF Opened

\* What is known of the set-up itself.
RowSound ==
  setup # None =>
    /\ accepted # {}
    /\ setup.completed =>
         /\ setup.profile.complete /\ setup.mailed
         /\ (setup.profile.preset /\ PresetCatalogs) \/ Opened

\* What is known of a completion under way.
CompletingSound(k) ==
  completing[k] # None =>
    /\ setup # None
    /\ completing[k].row.revision <= setup.revision
    /\ completing[k].row.revision = setup.revision =>
         completing[k].row.profile = setup.profile
    /\ completing[k].row.mailed => setup.mailed
    /\ completing[k].approved # None /\ completing[k].approved => Opened

LEMMA SetupParts ==
  SetupSound <=> RowSound /\ \A k \in Calls : CompletingSound(k)
BY DEF SetupSound, RowSound, CompletingSound, Opened

SetupRowsTypeOK ==
  /\ contract \in Contracts /\ accepted \subseteq Contracts
  /\ setup \in SetupRows \cup {None}
  /\ completing \in [Calls -> CompletingRows \cup {None}]

LEMMA SetupInitially == SetupInit => SetupInv
<1> SUFFICES ASSUME SetupInit PROVE SetupInv
  OBVIOUS
<1>1. CatalogsInv
  BY CatalogsInitially DEF SetupInit
<1>2. SetupTypeOK
  BY <1>1 DEF SetupInit, SetupTypeOK, CatalogsInv
<1>3. SetupSound
  BY DEF SetupInit, SetupSound
<1> QED
  BY <1>1, <1>2, <1>3 DEF SetupInv

\* The catalogs move on beside the set-up.
LEMMA CatalogsBeside ==
  ASSUME SetupInv, RowsMove, UNCHANGED <<setup, accepted>>,
         \A k \in Calls : completing'[k] \in {completing[k], None}
  PROVE  SetupSound'
<1>1. RowSound /\ \A k \in Calls : CompletingSound(k)
  BY SetupParts DEF SetupInv
<1>2. Opened => Opened'
  BY OpenedKept
<1>3. RowSound'
  BY <1>1, <1>2 DEF RowSound
<1>4. ASSUME NEW k \in Calls PROVE CompletingSound(k)'
  <2>1. CASE completing'[k] = None
    BY <2>1 DEF CompletingSound
  <2>2. CASE completing'[k] = completing[k]
    BY <1>1, <1>2, <2>2 DEF CompletingSound
  <2> QED
    BY <2>1, <2>2
<1> QED
  BY <1>3, <1>4 DEF SetupSound, RowSound, CompletingSound, Opened

\* A step of the set-up, and nothing else.
LEMMA AcceptStep ==
  ASSUME SetupInv, UNCHANGED vars, Accept
  PROVE  SetupRowsTypeOK' /\ RowSound' /\ \A k \in Calls : CompletingSound(k)'
<1>1. RowSound /\ \A k \in Calls : CompletingSound(k)
  BY SetupParts DEF SetupInv
<1>2. SetupRowsTypeOK'
  BY DEF SetupInv, SetupTypeOK, SetupRowsTypeOK, Accept
<1>3. Opened' = Opened
  BY DEF Opened, vars, rows
<1>4. RowSound'
  BY <1>1, <1>3 DEF RowSound, Accept
<1>5. \A k \in Calls : CompletingSound(k)'
  BY <1>1, <1>3 DEF CompletingSound, Accept
<1> QED
  BY <1>2, <1>4, <1>5

LEMMA SaveStep ==
  ASSUME SetupInv, UNCHANGED vars, NEW profile \in Profiles, Save(profile)
  PROVE  SetupRowsTypeOK' /\ RowSound' /\ \A k \in Calls : CompletingSound(k)'
<1>1. RowSound /\ \A k \in Calls : CompletingSound(k)
  BY SetupParts DEF SetupInv
<1>2. /\ contract \in Contracts /\ accepted \subseteq Contracts
      /\ setup \in SetupRows \cup {None}
      /\ completing \in [Calls -> CompletingRows \cup {None}]
      /\ accepted # {}
      /\ UNCHANGED <<contract, accepted, completing>>
  BY DEF SetupInv, SetupTypeOK, Save, Agreed
<1>3. Opened' = Opened
  BY DEF Opened, vars, rows
<1>4. CASE setup = None
  <2> DEFINE row == [revision |-> 1, profile |-> profile, mailed |-> FALSE,
                     completed |-> FALSE]
  <2>a. setup' = row
    BY <1>4 DEF Save
  <2>b. 1 \in 1 .. MaxSaves
    BY DealerSetupAssumption
  <2>c. row \in SetupRows /\ ~row.completed
    BY <2>b DEF SetupRows
  <2>1. /\ setup' \in SetupRows /\ setup' # None /\ ~setup'.completed
    BY <2>a, <2>c, DealerSetupAssumption
  <2> HIDE DEF row
  <2>2. SetupRowsTypeOK'
    BY <1>2, <2>1 DEF SetupRowsTypeOK
  <2>3. RowSound'
    BY <1>2, <2>1 DEF RowSound
  <2>4. \A k \in Calls : CompletingSound(k)'
    BY <1>1, <1>2, <1>4 DEF CompletingSound
  <2> QED
    BY <2>2, <2>3, <2>4
<1>5. CASE setup # None
  <2>1. setup \in SetupRows /\ setup.revision \in 1 .. MaxSaves
        /\ setup.revision < MaxSaves
    BY <1>2, <1>5 DEF SetupRows, Save
  <2>2. setup' = [setup EXCEPT !.revision = setup.revision + 1, !.profile = profile,
                               !.completed = FALSE]
    BY <1>5 DEF Save
  <2>a. setup.revision + 1 \in 1 .. MaxSaves
    BY <2>1, DealerSetupAssumption
  <2>3. /\ setup' \in SetupRows /\ setup'.revision = setup.revision + 1
        /\ setup'.mailed = setup.mailed /\ ~setup'.completed
    BY <2>1, <2>2, <2>a DEF SetupRows
  <2>4. setup' # None
    BY <2>3, DealerSetupAssumption
  <2>5. SetupRowsTypeOK'
    BY <1>2, <2>3 DEF SetupRowsTypeOK
  <2>6. RowSound'
    BY <1>2, <2>3 DEF RowSound
  <2>7. ASSUME NEW k \in Calls PROVE CompletingSound(k)'
    <3>1. CASE completing[k] = None
      BY <1>2, <3>1 DEF CompletingSound
    <3>2. CASE completing[k] # None
      <4>1. completing[k] \in CompletingRows
        BY <1>2, <3>2
      <4>2. completing[k].row.revision \in Nat /\ setup.revision \in Nat
        BY <2>1, <4>1, DealerSetupAssumption DEF CompletingRows, SetupRows
      <4> QED
        BY <1>1, <1>2, <1>3, <2>3, <2>4, <3>2, <4>2 DEF CompletingSound
    <3> QED
      BY <3>1, <3>2
  <2> QED
    BY <2>5, <2>6, <2>7
<1> QED
  BY <1>4, <1>5

LEMMA TestMailStep ==
  ASSUME SetupInv, UNCHANGED vars, TestMail
  PROVE  SetupRowsTypeOK' /\ RowSound' /\ \A k \in Calls : CompletingSound(k)'
<1>1. RowSound /\ \A k \in Calls : CompletingSound(k)
  BY SetupParts DEF SetupInv
<1>2. /\ contract \in Contracts /\ accepted \subseteq Contracts
      /\ setup \in SetupRows /\ setup # None
      /\ completing \in [Calls -> CompletingRows \cup {None}]
      /\ accepted # {}
      /\ UNCHANGED <<contract, accepted, completing>>
      /\ setup' = [setup EXCEPT !.mailed = TRUE]
  BY DEF SetupInv, SetupTypeOK, TestMail, Agreed
<1>3. Opened' = Opened
  BY DEF Opened, vars, rows
<1>4. /\ setup' \in SetupRows /\ setup'.mailed
      /\ setup'.revision = setup.revision /\ setup'.profile = setup.profile
      /\ setup'.completed = setup.completed
  BY <1>2 DEF SetupRows
<1>5. setup' # None
  BY <1>4, DealerSetupAssumption
<1>6. SetupRowsTypeOK'
  BY <1>2, <1>4 DEF SetupRowsTypeOK
<1>7. RowSound'
  BY <1>1, <1>2, <1>3, <1>4 DEF RowSound
<1>8. \A k \in Calls : CompletingSound(k)'
  BY <1>1, <1>2, <1>3, <1>4, <1>5 DEF CompletingSound
<1> QED
  BY <1>6, <1>7, <1>8

\* A completion has read more, or is over.
LEMMA CompletingMoves ==
  ASSUME SetupInv, UNCHANGED vars, UNCHANGED <<contract, accepted, setup>>,
         NEW k \in Calls, NEW new \in CompletingRows \cup {None},
         completing' = [completing EXCEPT ![k] = new],
         new # None =>
           /\ setup # None
           /\ new.row.revision <= setup.revision
           /\ new.row.revision = setup.revision => new.row.profile = setup.profile
           /\ new.row.mailed => setup.mailed
           /\ new.approved # None /\ new.approved => Opened
  PROVE  SetupRowsTypeOK' /\ RowSound' /\ \A q \in Calls : CompletingSound(q)'
<1>1. RowSound /\ \A q \in Calls : CompletingSound(q)
  BY SetupParts DEF SetupInv
<1>2. /\ contract \in Contracts /\ accepted \subseteq Contracts
      /\ setup \in SetupRows \cup {None}
      /\ completing \in [Calls -> CompletingRows \cup {None}]
  BY DEF SetupInv, SetupTypeOK
<1>3. Opened' = Opened
  BY DEF Opened, vars, rows
<1>4. /\ completing' \in [Calls -> CompletingRows \cup {None}]
      /\ \A q \in Calls : completing'[q] = IF q = k THEN new ELSE completing[q]
  BY <1>2
<1>5. SetupRowsTypeOK'
  BY <1>2, <1>4 DEF SetupRowsTypeOK
<1>6. RowSound'
  BY <1>1, <1>3 DEF RowSound
<1>7. ASSUME NEW q \in Calls PROVE CompletingSound(q)'
  <2>1. CASE q = k
    BY <1>3, <1>4, <2>1 DEF CompletingSound
  <2>2. CASE q # k
    BY <1>1, <1>3, <1>4, <2>2 DEF CompletingSound
  <2> QED
    BY <2>1, <2>2
<1> QED
  BY <1>5, <1>6, <1>7

LEMMA ReadSetupStep ==
  ASSUME SetupInv, UNCHANGED vars, NEW k \in Calls, ReadSetup(k)
  PROVE  SetupRowsTypeOK' /\ RowSound' /\ \A q \in Calls : CompletingSound(q)'
<1> DEFINE new == [row |-> setup, approved |-> None]
<1>1. setup \in SetupRows /\ setup # None
  BY DEF SetupInv, SetupTypeOK, ReadSetup
<1>2. new \in CompletingRows
  BY <1>1 DEF CompletingRows
<1>3. /\ setup.revision \in Nat /\ new.row = setup /\ new.approved = None
  BY <1>1, DealerSetupAssumption DEF SetupRows
<1>4. /\ completing' = [completing EXCEPT ![k] = new]
      /\ UNCHANGED <<contract, accepted, setup>>
  BY DEF ReadSetup
<1>5. new \in CompletingRows \cup {None}
  BY <1>2
<1> HIDE DEF new
<1>6. /\ new.row.revision <= setup.revision
      /\ new.row.revision = setup.revision => new.row.profile = setup.profile
      /\ new.row.mailed => setup.mailed
      /\ new.approved # None /\ new.approved => Opened
  BY <1>3
<1> QED
  BY <1>1, <1>4, <1>5, <1>6, CompletingMoves

\* An approved catalog has what it was approved on.
LEMMA CountApprovedStep ==
  ASSUME SetupInv, UNCHANGED vars, NEW k \in Calls, CountApproved(k)
  PROVE  SetupRowsTypeOK' /\ RowSound' /\ \A q \in Calls : CompletingSound(q)'
<1> DEFINE counted == \E c \in DOMAIN catalogs : catalogs[c].status = "APPROVED"
           new == [completing[k] EXCEPT !.approved = counted]
<1>1. completing[k] \in CompletingRows /\ completing[k] # None /\ CompletingSound(k)
  BY SetupParts DEF SetupInv, SetupTypeOK, CountApproved
<1>2. counted \in BOOLEAN
  OBVIOUS
<1>3. counted => Opened
  <2>1. RowsTypeOK /\ TrialsSound
    BY DEF SetupInv, CatalogsInv, TypeOK, RowsTypeOK
  <2>2. ASSUME NEW c \in DOMAIN catalogs, catalogs[c].status = "APPROVED"
        PROVE  catalogs[c].approved # None
    <3>1. catalogs[c].approved = Snapshot(c)
      BY <2>1, <2>2 DEF TrialsSound, ApprovedSound
    <3> QED
      BY <2>1, <3>1, SnapshotType
  <2> QED
    BY <2>2 DEF Opened
<1>4. completing' = [completing EXCEPT ![k] = new]
  BY DEF CountApproved
<1> HIDE DEF counted
<1>5. /\ new \in CompletingRows
      /\ new.row = completing[k].row /\ new.approved = counted
  BY <1>1, <1>2 DEF CompletingRows
<1>6. UNCHANGED <<contract, accepted, setup>>
  BY DEF CountApproved
<1> HIDE DEF new
<1>7. /\ setup # None
      /\ new.row.revision <= setup.revision
      /\ new.row.revision = setup.revision => new.row.profile = setup.profile
      /\ new.row.mailed => setup.mailed
  BY <1>1, <1>5 DEF CompletingSound
<1>8. new.approved # None /\ new.approved => Opened
  BY <1>3, <1>5
<1> QED
  BY <1>4, <1>5, <1>6, <1>7, <1>8, CompletingMoves

\* The revision is compared, and a mail that went out stays so.
LEMMA CompleteStep ==
  ASSUME SetupInv, UNCHANGED vars, NEW k \in Calls, Complete(k)
  PROVE  SetupRowsTypeOK' /\ RowSound' /\ \A q \in Calls : CompletingSound(q)'
<1>1. RowSound /\ \A q \in Calls : CompletingSound(q)
  BY SetupParts DEF SetupInv
<1>2. /\ contract \in Contracts /\ accepted \subseteq Contracts
      /\ setup \in SetupRows \cup {None}
      /\ completing \in [Calls -> CompletingRows \cup {None}]
      /\ UNCHANGED <<contract, accepted>>
      /\ completing[k] # None
      /\ completing' = [completing EXCEPT ![k] = None]
  BY DEF SetupInv, SetupTypeOK, Complete
<1>3. Opened' = Opened
  BY DEF Opened, vars, rows
<1>4. CASE UNCHANGED setup
  <2>1. None \in CompletingRows \cup {None}
    OBVIOUS
  <2> QED
    BY <1>2, <1>4, <2>1, CompletingMoves
<1>5. CASE /\ Completable(completing[k].row, completing[k].approved)
           /\ completing[k].approved # None
           /\ SameRevision(completing[k].row)
           /\ setup' = [setup EXCEPT !.completed = TRUE]
  <2>1. CompletingSound(k) /\ setup # None /\ setup \in SetupRows
    BY <1>1, <1>2 DEF CompletingSound
  <2>2. /\ setup' \in SetupRows /\ setup'.completed
        /\ setup'.revision = setup.revision /\ setup'.profile = setup.profile
        /\ setup'.mailed = setup.mailed
    BY <1>5, <2>1 DEF SetupRows
  <2>3. setup' # None
    BY <2>2, DealerSetupAssumption
  <2>4. completing[k].row.profile = setup.profile
    BY <1>2, <1>5, <2>1 DEF CompletingSound, SameRevision
  <2>5. /\ setup.profile.complete /\ setup.mailed
        /\ (setup.profile.preset /\ PresetCatalogs) \/ Opened
    BY <1>2, <1>5, <2>1, <2>4 DEF CompletingSound, Completable
  <2>6. SetupRowsTypeOK'
    BY <1>2, <2>2 DEF SetupRowsTypeOK
  <2>7. RowSound'
    BY <1>1, <1>2, <1>3, <2>1, <2>2, <2>5 DEF RowSound
  <2>8. ASSUME NEW q \in Calls PROVE CompletingSound(q)'
    <3>1. completing'[q] = IF q = k THEN None ELSE completing[q]
      BY <1>2
    <3> QED
      BY <1>1, <1>3, <2>2, <2>3, <3>1 DEF CompletingSound
  <2> QED
    BY <2>6, <2>7, <2>8
<1> QED
  BY <1>4, <1>5 DEF Complete

\* The process is started again.
LEMMA RedeployStep ==
  ASSUME SetupInv, NEW text \in Contracts, Redeploy(text)
  PROVE  SetupInv'
<1>1. CatalogsInv /\ UNCHANGED rows /\ UNCHANGED jobs
  BY DEF SetupInv, Redeploy
<1>2. RowsTypeOK' /\ TrialsSound' /\ RowsMove
  BY <1>1, NothingMoves
<1>3. jobs' \in Seq(JobRows) /\ Len(jobs') = Len(jobs) /\ SameJobs(jobs')
  BY <1>1 DEF CatalogsInv, TypeOK, SameJobs
<1>4. /\ call' = [k \in Calls |-> None]
      /\ executing' = [j \in 1..MaxJobs |-> None]
  BY DEF Redeploy
<1>5. JobsTypeOK' /\ JobsSound'
  BY <1>1, <1>2, <1>3, <1>4, OthersStep
<1>6. CatalogsInv'
  BY <1>2, <1>5 DEF CatalogsInv, TypeOK, RowsTypeOK, JobsTypeOK
<1>7. SetupTypeOK'
  BY <1>6 DEF SetupInv, SetupTypeOK, CatalogsInv, Redeploy
<1>8. SetupSound'
  BY <1>2, CatalogsBeside DEF Redeploy
<1> QED
  BY <1>6, <1>7, <1>8 DEF SetupInv

LEMMA SetupStepKeeps ==
  ASSUME SetupInv, SetupStep, UNCHANGED vars
  PROVE  SetupInv'
<1>1. CatalogsInv'
  BY CatalogsStep DEF SetupInv
<1>2. SetupRowsTypeOK' /\ RowSound' /\ \A k \in Calls : CompletingSound(k)'
  BY AcceptStep, SaveStep, TestMailStep, ReadSetupStep, CountApprovedStep, CompleteStep
     DEF SetupStep
<1>3. SetupTypeOK'
  BY <1>1, <1>2 DEF SetupTypeOK, SetupRowsTypeOK, CatalogsInv
<1>4. SetupSound'
  BY <1>2 DEF SetupSound, RowSound, CompletingSound, Opened
<1> QED
  BY <1>1, <1>3, <1>4 DEF SetupInv

LEMMA SetupInductive ==
  ASSUME SetupInv, [SetupNext]_<<vars, setupVars>>
  PROVE  SetupInv'
<1>1. CASE SetupStep /\ UNCHANGED vars
  BY <1>1, SetupStepKeeps
<1>2. ASSUME [Next]_vars, UNCHANGED setupVars
      PROVE  SetupInv'
  <2>1. CatalogsInv' /\ RowsMove
    BY <1>2, CatalogsStep DEF SetupInv
  <2>2. SetupTypeOK'
    BY <1>2, <2>1 DEF SetupInv, SetupTypeOK, CatalogsInv, setupVars
  <2>3. SetupSound'
    BY <1>2, <2>1, CatalogsBeside DEF setupVars
  <2> QED
    BY <2>1, <2>2, <2>3 DEF SetupInv
<1>3. ASSUME NEW text \in Contracts, Redeploy(text)
      PROVE  SetupInv'
  BY <1>3, RedeployStep
<1> QED
  BY <1>1, <1>2, <1>3 DEF SetupNext

\* The invariant holds throughout, in the catalogs and in the set-up.
THEOREM SetupInvariant == SetupSpec => []SetupInv
<1>1. SetupInit => SetupInv
  BY SetupInitially
<1>2. SetupInv /\ [SetupNext]_<<vars, setupVars>> => SetupInv'
  BY SetupInductive
<1> QED
  BY <1>1, <1>2, PTL DEF SetupSpec

-----------------------------------------------------------------------------
(* The theorems.                                                           *)

\* Type correctness of the catalogs and the set-up.
THEOREM SetupTypeCorrect == SetupSpec => []SetupTypeOK
<1>1. SetupInv => SetupTypeOK
  BY DEF SetupInv
<1> QED
  BY <1>1, SetupInvariant, PTL

\* A catalog that is approved is the one the dealer reviewed, trial by trial
\* and document by document (review, approve), whatever was edited, uploaded,
\* answered or converted meanwhile, and whenever the process stopped.
THEOREM ApprovalsAreReviewed == SetupSpec => []ApprovedAsReviewed
<1>1. SetupInv => ApprovedAsReviewed
  BY DEF SetupInv, CatalogsInv, TrialsSound, ApprovedSound, ApprovedAsReviewed
<1> QED
  BY <1>1, SetupInvariant, PTL

\* A set-up that counts as completed has what a completion asks for, though
\* the profile, the mail and the catalogs may change between the reads of a
\* completion and its write (finish).
THEOREM CompletionsAreChecked == SetupSpec => []CompletedAsChecked
<1>1. SetupInv => CompletedAsChecked
  BY DEF SetupInv, SetupSound, CompletedAsChecked
<1> QED
  BY <1>1, SetupInvariant, PTL

\* A conversion that ends well replaces the dataset it has read, and has read
\* the documents that are there (start, execute), whatever second conversions,
\* edits and restarts fell in between.
THEOREM ConversionsApplyToTheirDraft == SetupSpec => ConvertedFromDraft
<1> DEFINE Ends ==
      \A j \in DOMAIN jobs :
        jobs'[j].status \in {"COMPLETED", "NEEDS_ANSWERS"} \ {jobs[j].status} =>
          /\ executing[j].dataset = catalogs[jobs[j].catalog].dataset
          /\ executing[j].documents = Uploaded(jobs[j].catalog, Documents)
<1>1. SetupInv /\ [SetupNext]_<<vars, setupVars>> => [Ends]_vars
  <2> SUFFICES ASSUME SetupInv, [SetupNext]_<<vars, setupVars>>, vars' # vars
               PROVE  Ends
    OBVIOUS
  <2>1. CatalogsInv
    BY DEF SetupInv
  <2>2. CASE [Next]_vars
    BY <2>1, <2>2, ConversionEnds
  <2>3. CASE UNCHANGED jobs
    BY <2>3
  <2> QED
    BY <2>2, <2>3 DEF SetupNext, Redeploy
<1>2. SetupSpec => [][Ends]_vars
  BY <1>1, SetupInvariant, PTL DEF SetupSpec
<1> QED
  BY <1>2 DEF ConvertedFromDraft
=============================================================================
