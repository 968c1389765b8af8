SPECIFICATION SchedulingSpec
CONSTANTS
  w1 = w1
  w2 = w2
  c1 = c1
  c2 = c2
  n1 = n1
  n2 = n2
  site = site
  Cases = {c1, c2}
  Works = {w1, w2}
  Scopes <- MCScopes
  CrewNames = {n1, n2}
  CrewKey <- MCCrewKey
  MaxTime = 2
  MaxRevision = 2
  Addresses = {site}
  MaxSaves = 3
  MaxSupplies = 5
  None = None
INVARIANTS NoDoubleBooking DeliveredAsReported
SYMMETRY Symmetric
CHECK_DEADLOCK FALSE
