------------------------------ MODULE Catalogs ------------------------------
(***************************************************************************)
(* The catalogs a dealer imports (DealerCatalogsService): a draft gets its *)
(* original documents, its tables and rules, the trial quotes that the     *)
(* dealer reviews, and is approved; and the conversion that proposes the   *)
(* rules from the documents (CatalogConversionService), which runs on in   *)
(* memory after its request.                                               *)
(*                                                                         *)
(* Every write happens in a transaction that first locks the row as a      *)
(* draft, most of them at a given revision; a request that was refused is  *)
(* a step not taken.  A dataset is a content with or without its rules;    *)
(* which trials it has and what they are worth belong to the content.      *)
(* Limits on the size of documents, and names, are left out.               *)
(***************************************************************************)
EXTENDS Null, Naturals, Sequences, FiniteSets, FiniteSetsExt

CONSTANTS
  Contents,       \* tables of a dataset
  Drafts,         \* datasets a page sends
  Calculable,     \* trials of a content that have a price
  MinCalculable,  \* calculable trials an approval asks for (5)
  NeedsRules,     \* contents with more than their tables say
  Documents,      \* names of PDF and CSV files
  Images,         \* names of pictures
  Hashes,         \* contents of a file
  Calls,          \* requests served at the same time
  MaxActive,      \* conversions at the same time (2)
  MaxJobs,        \* conversions in an hour (6)
  MaxCatalogs, MaxRevision    \* bounds

Names == Documents \cup Images

\* `from': the documents the rules come from; the state of their questions.
Rules == [from : SUBSET (Documents \X Hashes),
          question : {"none", "open", "answered", "applied"}]
Datasets == [content : Contents, confirmed : BOOLEAN, rules : Rules \cup {None}]

Snapshots == [dataset : Datasets, documents : SUBSET (Names \X Hashes)]

\* `approved': what approvedHash is the hash of.
CatalogRows == [status : {"DRAFT", "APPROVED", "DELETED"}, revision : 1..MaxRevision,
                dataset : Datasets, previous : Nat, approved : Snapshots \cup {None}]

\* `stored': the file its chunks make up, None while they make up none.
SourceRows == [hash : Hashes, complete : BOOLEAN, stored : Hashes \cup {None}]

\* `seen': history, the catalog when the trial was reviewed.
CheckRows == [revision : 1..MaxRevision, key : Nat, content : Contents,
              result : {"new", "passed", "refused"}, seen : Snapshots \cup {None}]

\* `old': not updated for 15 minutes.
JobRows == [catalog : Nat, revision : 1..MaxRevision, old : BOOLEAN,
            status : {"RUNNING", "FAILED", "COMPLETED", "NEEDS_ANSWERS"}]

CallRows == [step : {"create", "commit", "launch"}, catalog : Nat,
             revision : 0..MaxRevision, job : Nat, dataset : Datasets \cup {None}]

ExecutionRows == [step : {"read", "convert", "apply"}, dataset : Datasets \cup {None},
                  documents : SUBSET (Documents \X Hashes), output : Datasets \cup {None}]

ASSUME CatalogsAssumption ==
  /\ Drafts \subseteq Datasets
  /\ Calculable \in [Contents -> Nat]
  /\ NeedsRules \subseteq Contents
  /\ {MinCalculable, MaxActive, MaxJobs, MaxCatalogs} \subseteq Nat
  /\ MaxRevision \in Nat \ {0}
  /\ None \notin Rules
  /\ None \notin Datasets
  /\ None \notin Snapshots
  /\ None \notin SourceRows
  /\ None \notin CallRows
  /\ None \notin ExecutionRows

VARIABLES
  catalogs,   \* the DealerCatalog rows, by age
  sources,    \* the CatalogSource rows of each, by name
  checks,     \* the CatalogCheck rows of each
  jobs,       \* the CatalogConversion rows, by age
  call,       \* the requests under way
  executing   \* the conversions under way in memory, by job

rows == <<catalogs, sources, checks>>
vars == <<rows, jobs, call, executing>>

TypeOK ==
  /\ catalogs \in Seq(CatalogRows)
  /\ sources \in Seq([Names -> SourceRows \cup {None}])
  /\ checks \in Seq(SUBSET CheckRows)
  /\ Len(sources) = Len(catalogs) /\ Len(checks) = Len(catalogs)
  /\ jobs \in Seq(JobRows)
  /\ call \in [Calls -> CallRows \cup {None}]
  /\ executing \in [1..MaxJobs -> ExecutionRows \cup {None}]

Init ==
  /\ catalogs = <<>> /\ sources = <<>> /\ checks = <<>> /\ jobs = <<>>
  /\ call = [k \in Calls |-> None]
  /\ executing = [j \in 1..MaxJobs |-> None]

-----------------------------------------------------------------------------
(* Catalogs.                                                               *)

Draft(c) == catalogs[c].status = "DRAFT"

Revisable(c) == Draft(c) /\ catalogs[c].revision < MaxRevision

Revised(c) == [catalogs EXCEPT ![c].revision = @ + 1]

Uploaded(c, names) ==
  {<<n, sources[c][n].hash>> : n \in {m \in names : sources[c][m] # None /\ sources[c][m].complete}}

Snapshot(c) == [dataset |-> catalogs[c].dataset, documents |-> Uploaded(c, Names)]

NewCatalog(dataset, previous) ==
  /\ Len(catalogs) < MaxCatalogs
  /\ catalogs' = Append(catalogs, [status |-> "DRAFT", revision |-> 1, dataset |-> dataset,
                                   previous |-> previous, approved |-> None])
  /\ checks' = Append(checks, {})

\* create of a first version.
Create(dataset) ==
  /\ NewCatalog(dataset, 0)
  /\ sources' = Append(sources, [n \in Names |-> None])
  /\ UNCHANGED <<jobs, call, executing>>

\* create of a next version, before its transaction: a version removed counts.
BeginRevision(k, c, dataset) ==
  /\ call[k] = None
  /\ catalogs[c].status = "APPROVED"
  /\ \A d \in DOMAIN catalogs : catalogs[d].previous # c
  /\ call' = [call EXCEPT ![k] = [step |-> "create", catalog |-> c, revision |-> 0,
                                  job |-> 0, dataset |-> dataset]]
  /\ UNCHANGED <<rows, jobs, executing>>

\* previousId is unique; the complete documents are copied.
CreateRevision(k) ==
  LET c == call[k].catalog IN
  /\ call[k] # None /\ call[k].step = "create"
  /\ IF \A d \in DOMAIN catalogs : catalogs[d].previous # c
     THEN /\ NewCatalog(call[k].dataset, c)
          /\ sources' = Append(sources, [n \in Names |->
               IF sources[c][n] # None /\ sources[c][n].complete
               THEN [sources[c][n] EXCEPT !.stored = None] ELSE None])
     ELSE UNCHANGED rows
  /\ call' = [call EXCEPT ![k] = None]
  /\ UNCHANGED <<jobs, executing>>

Update(c, dataset) ==
  /\ Revisable(c)
  /\ catalogs' = [Revised(c) EXCEPT ![c].dataset = dataset]
  /\ UNCHANGED <<sources, checks, jobs, call, executing>>

Remove(c) ==
  /\ catalogs[c].status # "DELETED" /\ catalogs[c].revision < MaxRevision
  /\ catalogs' = [Revised(c) EXCEPT ![c].status = "DELETED"]
  /\ UNCHANGED <<sources, checks, jobs, call, executing>>

-----------------------------------------------------------------------------
(* Documents.                                                              *)

\* begin: a new document, or another file under the name of an old one.
Begin(c, n, hash) ==
  /\ Revisable(c)
  /\ sources[c][n] # None => sources[c][n].hash # hash
  /\ sources' = [sources EXCEPT ![c][n] = [hash |-> hash, complete |-> FALSE, stored |-> None]]
  /\ catalogs' = Revised(c)
  /\ UNCHANGED <<checks, jobs, call, executing>>

\* part: chunks of one page or of two that upload different files.
Part(c, n, file) ==
  /\ Draft(c)
  /\ sources[c][n] # None /\ ~sources[c][n].complete /\ sources[c][n].stored # file
  /\ sources' = [sources EXCEPT ![c][n].stored = file]
  /\ UNCHANGED <<catalogs, checks, jobs, call, executing>>

Finish(c, n) ==
  /\ Revisable(c)
  /\ sources[c][n] # None /\ ~sources[c][n].complete
  /\ sources[c][n].stored = sources[c][n].hash
  /\ sources' = [sources EXCEPT ![c][n].complete = TRUE, ![c][n].stored = None]
  /\ catalogs' = Revised(c)
  /\ UNCHANGED <<checks, jobs, call, executing>>

-----------------------------------------------------------------------------
(* Trials and approval.                                                    *)

\* generatedTrials: the priced ones and one the catalog must refuse.
Trials(content) == 1..(Calculable[content] + 1)

\* The trials generated for the revision the draft is at.
Generated(c) == {t \in checks[c] : t.revision = catalogs[c].revision /\ t.key # 0}

\* check: a price typed by hand, right or wrong (key 0).
Check(c, result) ==
  /\ Draft(c)
  /\ checks' = [checks EXCEPT ![c] = @ \cup
       {[revision |-> catalogs[c].revision, key |-> 0, result |-> result,
         content |-> catalogs[c].dataset.content, seen |-> None]}]
  /\ UNCHANGED <<catalogs, sources, jobs, call, executing>>

\* generate: a trial already there stays as it is.
Generate(c) ==
  LET content == catalogs[c].dataset.content IN
  /\ Draft(c) /\ catalogs[c].dataset.confirmed
  /\ checks' = [checks EXCEPT ![c] = @ \cup
       {[revision |-> catalogs[c].revision, key |-> k, result |-> "new",
         content |-> content, seen |-> None] :
           k \in Trials(content) \ {t.key : t \in Generated(c)}}]
  /\ UNCHANGED <<catalogs, sources, jobs, call, executing>>

\* review: once, and in the order of the keys.
Review(c, t, result) ==
  /\ Draft(c)
  /\ t \in Generated(c) /\ t.result = "new"
  /\ \A u \in Generated(c) : u.key < t.key => u.result # "new"
  /\ checks' = [checks EXCEPT ![c] = (@ \ {t}) \cup
                  {[t EXCEPT !.result = result, !.seen = Snapshot(c)]}]
  /\ UNCHANGED <<catalogs, sources, jobs, call, executing>>

\* commercialCoverage: a question open or not in the rules, a document that
\* is not the one converted.
Uncovered(rules, documents) ==
  \/ rules.question \in {"open", "answered"}
  \/ ~(documents \subseteq rules.from)

\* coverageGaps, pictures apart.
Gaps(c) ==
  LET dataset == catalogs[c].dataset IN
  IF dataset.rules = None THEN dataset.content \in NeedsRules
  ELSE Uncovered(dataset.rules, Uploaded(c, Documents))

\* Faulty: trials of any revision count.
GeneratedEver(c) == {t \in checks[c] : t.key # 0}

Counted(c) == Generated(c)

Approve(c) ==
  LET content == catalogs[c].dataset.content IN
  /\ Draft(c)
  /\ \E n \in Documents : sources[c][n] # None
  /\ \A n \in Names : sources[c][n] # None => sources[c][n].complete
  /\ catalogs[c].dataset.confirmed
  /\ ~Gaps(c)
  /\ {<<t.key, t.content>> : t \in Counted(c)} = Trials(content) \X {content}
  /\ \A t \in Counted(c) : t.result = "passed"
  /\ Calculable[content] >= MinCalculable
  /\ catalogs' = [catalogs EXCEPT ![c].status = "APPROVED", ![c].approved = Snapshot(c)]
  /\ UNCHANGED <<sources, checks, jobs, call, executing>>

-----------------------------------------------------------------------------
(* Conversion.                                                             *)

Latest(c) == Max({0} \cup {j \in DOMAIN jobs : jobs[j].catalog = c})

\* status: the latest conversion, failed if nothing was heard of it for long.
Settled(c) ==
  IF Latest(c) # 0 /\ jobs[Latest(c)].status = "RUNNING" /\ jobs[Latest(c)].old
  THEN [jobs EXCEPT ![Latest(c)].status = "FAILED"]
  ELSE jobs

Status(c) ==
  /\ jobs' = Settled(c) /\ jobs' # jobs
  /\ UNCHANGED <<rows, call, executing>>

Active == Cardinality({j \in DOMAIN executing : executing[j] # None})

\* start, before its transaction.
Start(k, c) ==
  /\ call[k] = None /\ Draft(c)
  /\ Latest(c) # 0 => Settled(c)[Latest(c)].status # "RUNNING"
  /\ Active < MaxActive
  /\ Uploaded(c, Documents) # {}
  /\ jobs' = Settled(c)
  /\ call' = [call EXCEPT ![k] = [step |-> "commit", catalog |-> c, job |-> 0,
                revision |-> catalogs[c].revision, dataset |-> None]]
  /\ UNCHANGED <<rows, executing>>

\* Its transaction, which takes a conversion running by now for its own.
CommitStart(k) ==
  LET c == call[k].catalog
      running == {j \in DOMAIN jobs : jobs[j].catalog = c /\ jobs[j].status = "RUNNING"} IN
  /\ call[k] # None /\ call[k].step = "commit"
  /\ IF ~Draft(c) \/ catalogs[c].revision # call[k].revision
     THEN UNCHANGED jobs /\ call' = [call EXCEPT ![k] = None]
     ELSE IF running # {}
     THEN /\ UNCHANGED jobs
          /\ \E j \in running : call' = [call EXCEPT ![k].step = "launch", ![k].job = j]
     ELSE /\ Len(jobs) < MaxJobs
          /\ jobs' = Append(jobs, [catalog |-> c, revision |-> call[k].revision,
                                   status |-> "RUNNING", old |-> FALSE])
          /\ call' = [call EXCEPT ![k].step = "launch", ![k].job = Len(jobs) + 1]
  /\ UNCHANGED <<rows, executing>>

Launch(k) ==
  LET j == call[k].job IN
  /\ call[k] # None /\ call[k].step = "launch"
  /\ executing' = IF jobs[j].revision = call[k].revision /\ executing[j] = None
                  THEN [executing EXCEPT ![j] = [step |-> "read", dataset |-> None,
                          documents |-> {}, output |-> None]]
                  ELSE executing
  /\ call' = [call EXCEPT ![k] = None]
  /\ UNCHANGED <<rows, jobs>>

Executes(j, step) == executing[j] # None /\ executing[j].step = step

\* execute: the draft as it is by now.
ReadDraft(j) ==
  /\ Executes(j, "read") /\ catalogs[jobs[j].catalog].status # "DELETED"
  /\ executing' = [executing EXCEPT ![j].step = "convert",
                     ![j].dataset = catalogs[jobs[j].catalog].dataset]
  /\ UNCHANGED <<rows, jobs, call>>

\* The questions of a dataset read again: an answer stays, and has to be in
\* the new rules.
Questions(dataset) ==
  IF dataset.rules # None /\ dataset.rules.question \in {"answered", "applied"}
  THEN {"answered", "applied", "open"} ELSE {"none", "open"}

\* Its documents, and what the service makes of them.
Convert(j, content, question) ==
  LET documents == Uploaded(jobs[j].catalog, Documents) IN
  /\ Executes(j, "convert") /\ documents # {}
  /\ question \in Questions(executing[j].dataset)
  /\ executing' = [executing EXCEPT ![j].step = "apply", ![j].documents = documents,
       ![j].output = [content |-> content, confirmed |-> TRUE,
                      rules |-> [from |-> documents, question |-> question]]]
  /\ UNCHANGED <<rows, jobs, call>>

\* Faulty: the result goes to the draft, whatever became of it.
StillDraft(j) == Draft(jobs[j].catalog)

StillAsRead(j) ==
  /\ Draft(jobs[j].catalog)
  /\ catalogs[jobs[j].catalog].revision = jobs[j].revision

ApplyResult(j) ==
  LET c == jobs[j].catalog
      output == executing[j].output IN
  /\ Executes(j, "apply")
  /\ IF StillAsRead(j)
     THEN /\ catalogs[c].revision < MaxRevision
          /\ catalogs' = [Revised(c) EXCEPT ![c].dataset = output]
          /\ jobs' = [jobs EXCEPT ![j].status =
               IF Uncovered(output.rules, executing[j].documents)
               THEN "NEEDS_ANSWERS" ELSE "COMPLETED"]
     ELSE UNCHANGED catalogs /\ jobs' = [jobs EXCEPT ![j].status = "FAILED"]
  /\ executing' = [executing EXCEPT ![j] = None]
  /\ UNCHANGED <<sources, checks, call>>

\* Any step of it may fail.
ConversionFails(j) ==
  /\ executing[j] # None
  /\ jobs' = [jobs EXCEPT ![j].status = "FAILED"]
  /\ executing' = [executing EXCEPT ![j] = None]
  /\ UNCHANGED <<rows, call>>

\* answer: by the dealer, and not in the rules yet.
Answer(c) ==
  /\ Revisable(c)
  /\ catalogs[c].dataset.rules # None /\ catalogs[c].dataset.rules.question # "none"
  /\ catalogs' = [Revised(c) EXCEPT ![c].dataset.rules.question = "answered"]
  /\ UNCHANGED <<sources, checks, jobs, call, executing>>

\* A conversion in memory ends well before its row is old.
TimePasses(j) ==
  /\ jobs[j].status = "RUNNING" /\ ~jobs[j].old /\ executing[j] = None
  /\ \A k \in Calls : call[k] # None => call[k].job # j
  /\ jobs' = [jobs EXCEPT ![j].old = TRUE]
  /\ UNCHANGED <<rows, call, executing>>

\* The process stops: its requests and its conversions are gone.
Crash ==
  /\ Active > 0 \/ call # [k \in Calls |-> None]
  /\ call' = [k \in Calls |-> None]
  /\ executing' = [j \in 1..MaxJobs |-> None]
  /\ UNCHANGED <<rows, jobs>>

-----------------------------------------------------------------------------

Edit(c) ==
  \/ \E d \in Drafts : Update(c, d)
  \/ Remove(c)
  \/ \E n \in Names : \E h \in Hashes : Begin(c, n, h)
  \/ \E n \in Names : \E f \in Hashes \cup {None} : Part(c, n, f)
  \/ \E n \in Names : Finish(c, n)

Verify(c) ==
  \/ \E r \in {"passed", "refused"} : Check(c, r)
  \/ Generate(c)
  \/ \E t \in checks[c], r \in {"passed", "refused"} : Review(c, t, r)
  \/ Approve(c)

Conversion(j) ==
  \/ ReadDraft(j)
  \/ \E content \in Contents, q \in {"none", "open", "answered", "applied"} :
       Convert(j, content, q)
  \/ ApplyResult(j)
  \/ ConversionFails(j)
  \/ TimePasses(j)

Request(k) ==
  \/ \E c \in DOMAIN catalogs : \E d \in Drafts : BeginRevision(k, c, d)
  \/ CreateRevision(k)
  \/ \E c \in DOMAIN catalogs : Start(k, c)
  \/ CommitStart(k)
  \/ Launch(k)

Next ==
  \/ \E d \in Drafts : Create(d)
  \/ \E c \in DOMAIN catalogs : Edit(c) \/ Verify(c) \/ Status(c) \/ Answer(c)
  \/ \E j \in DOMAIN jobs : Conversion(j)
  \/ \E k \in Calls : Request(k)
  \/ Crash

Spec == Init /\ [][Next]_vars

-----------------------------------------------------------------------------
(* Properties.                                                             *)

\* An approved catalog is the one the dealer reviewed: each trial of it was
\* passed on the very dataset and documents it has, and they are those the
\* approval was hashed from (review, approve; begin and finish of documents,
\* update, answer and conversion in between, or after).
ApprovedAsReviewed ==
  \A c \in DOMAIN catalogs : catalogs[c].status = "APPROVED" =>
    /\ catalogs[c].approved = Snapshot(c)
    /\ \A k \in Trials(catalogs[c].dataset.content) :
         \E t \in checks[c] : t.key = k /\ t.result = "passed" /\ t.seen = Snapshot(c)

\* A conversion that ends well replaces the dataset and has read the documents
\* the draft has at that moment, whatever restarts, second conversions and
\* edits fell in the minutes it took (start, execute).
ConvertedFromDraft ==
  [][\A j \in DOMAIN jobs :
       jobs'[j].status \in {"COMPLETED", "NEEDS_ANSWERS"} \ {jobs[j].status} =>
         /\ executing[j].dataset = catalogs[jobs[j].catalog].dataset
         /\ executing[j].documents = Uploaded(jobs[j].catalog, Documents)]_vars
=============================================================================
