SPECIFICATION Spec
CONSTANTS
  Notices = {n1, n2}
  Workers = {w1, w2}
  Batch = 1
  MaxRetries = 1
  MaxFaults = 1
  None = None
INVARIANTS HistoryAgrees
PROPERTIES ImplementsMailOutbox EveryNoticeSettles
CHECK_DEADLOCK FALSE
