SPECIFICATION Spec
CONSTANTS
  w1 = w1
  p1 = p1
  p2 = p2
  Cases = {"case"}
  Works = {w1}
  Scopes <- MCQuoted
  CrewNames = {"crew"}
  CrewKey <- MCCrewKey
  MaxTime = 1
  MaxRevision = 4
  Processes = {p1, p2}
  MaxQuotes = 3
  MaxOrders = 1
  MaxMails = 0
  None = None
INVARIANT WorksBacked
SYMMETRY Symmetric
CHECK_DEADLOCK FALSE
