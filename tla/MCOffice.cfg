\* Two overlapping calls; four entries; two offers, accesses and tickets.
SPECIFICATION MCSpec
SYMMETRY Interchangeable
CONSTRAINT Focused
CONSTANTS
  p1 = p1
  p2 = p2
  g1 = g1
  w1 = w1
  c1 = c1
  c2 = c2
  e1 = e1
  e2 = e2
  o1 = o1
  o2 = o2
  d1 = d1
  d2 = d2
  d3 = d3
  None = None
  Nothing = Nothing
  Proposals <- MCProposals
  Groups <- MCGroups
  OrderKeys <- MCOrderKeys
  Works = {w1}
  Calls <- MCCalls
  Kinds = {"SUPPLIER", "REVENUE", "CASH_IN", "CASH_OUT"}
  WorkKinds = {"SUPPLIER"}
  MaxAmount = 1
  MaxEntries = 4
  Required = 1
  MaxEvents = 3
  Purchases <- MCPurchases
  Originals <- MCOriginals
  MaxRecords = 4
  MaxAttempts = 2
  Requests <- MCCalls
  Emails = {e1, e2}
  MaxPhotos = 1
  MaxTickets = 1
  MaxOffers = 2
  MaxAccesses = 2
  MaxRevision = 1
INVARIANT CountedOnce
INVARIANT RefundsCovered
INVARIANT OrderedOnceAgreed
INVARIANT CostAsInvoiced
INVARIANT LinksHonoured
INVARIANT SharesCovered
