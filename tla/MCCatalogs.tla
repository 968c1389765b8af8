----------------------------- MODULE MCCatalogs -----------------------------
(* A dealer's set-up and catalogs: one PDF of two editions, a dataset that *)
(* is complete as it is and one that needs its rules.                      *)
EXTENDS DealerSetup, TLC

CONSTANTS a, b, pdf, h1, h2, k1, k2, t1, t2

MCContents == {a, b}
MCCalculable == (a :> 2) @@ (b :> 1)
MCNeedsRules == {b}
MCDocuments == {pdf}
MCHashes == {h1, h2}
MCCalls == {k1, k2}
MCContracts == {t1, t2}
MCDrafts == {[content |-> a, confirmed |-> TRUE, rules |-> None],
             [content |-> b, confirmed |-> FALSE, rules |-> None]}
Interchangeable == Permutations(MCHashes) \cup Permutations(MCCalls) \cup Permutations(MCContracts)

Idle == \A k \in Calls : call[k] # None => call[k].step = "create"

\* Trials are reviewed while no conversion runs, for two revisions at most,
\* those typed by hand on new drafts; conversions run while there are none.
TrialsOrConversions ==
  \/ \A c \in DOMAIN catalogs : checks[c] = {}
  \/ /\ Idle /\ Active = 0 /\ Len(jobs) <= 1
     /\ \A c \in DOMAIN catalogs : /\ \A t \in checks[c] : t.key = 0 => t.revision = 1
                                 /\ Cardinality({t.revision : t \in checks[c]}) <= 2

\* A next version begins on a catalog that was never converted, and is only
\* given documents.
NextVersion ==
  (Len(catalogs) > 1 \/ \E k \in Calls : call[k] # None /\ call[k].step = "create") =>
    /\ jobs = <<>> /\ catalogs[1].status # "DRAFT"
    /\ Len(catalogs) > 1 => checks[2] = {} /\ catalogs[2].previous = 1

\* The fifth revision, that of an answer or of a second document, is reached
\* with one conversion at most.
LastRevision ==
  (\E c \in DOMAIN catalogs : catalogs[c].revision = MaxRevision) => Len(jobs) <= 1 /\ Idle

\* The set-up goes on beside one plain catalog, or is still to begin.
OneAtATime ==
  \/ setup = None /\ accepted = {contract} /\ completing = [k \in Calls |-> None]
  \/ catalogs = <<>>
  \/ /\ Len(catalogs) = 1 /\ catalogs[1].revision <= 4 /\ jobs = <<>>
     /\ catalogs[1].dataset.content = a
     /\ \A t \in checks[1] : t.key # 0 /\ t.revision = 3 /\ t.result # "refused"
     /\ \A k \in Calls : call[k] = None

Focused == TrialsOrConversions /\ NextVersion /\ LastRevision /\ OneAtATime
=============================================================================
