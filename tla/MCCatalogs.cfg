SPECIFICATION SetupSpec
SYMMETRY Interchangeable
CONSTANTS
  a = a
  b = b
  pdf = pdf
  h1 = h1
  h2 = h2
  k1 = k1
  k2 = k2
  Contents <- MCContents
  Drafts <- MCDrafts
  Calculable <- MCCalculable
  MinCalculable = 1
  NeedsRules <- MCNeedsRules
  Documents <- MCDocuments
  Images = {}
  Hashes <- MCHashes
  Calls <- MCCalls
  MaxActive = 1
  MaxJobs = 2
  MaxCatalogs = 2
  MaxRevision = 5
  None = None
  t1 = t1
  t2 = t2
  Contracts <- MCContracts
  PresetCatalogs = TRUE
  MaxSaves = 2
CONSTRAINT Focused
INVARIANT ApprovedAsReviewed
INVARIANT CompletedAsChecked
PROPERTY ConvertedFromDraft
