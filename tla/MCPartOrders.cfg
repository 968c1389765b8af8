SPECIFICATION Spec
CONSTANTS
  w1 = w1
  p1 = p1
  p2 = p2
  Cases = {"case"}
  Works = {w1}
  Scopes <- MCWarranty
  CrewNames = {"crew"}
  CrewKey <- MCCrewKey
  MaxTime = 0
  MaxRevision = 2
  Processes = {p1, p2}
  MaxQuotes = 0
  MaxOrders = 2
  MaxMails = 2
  None = None
INVARIANTS OrdersMatchWork OrderedOnce OrderStatusTruthful
SYMMETRY Symmetric
CHECK_DEADLOCK FALSE
