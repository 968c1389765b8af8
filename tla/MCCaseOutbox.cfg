SPECIFICATION Spec
CONSTANTS
  Notices = {n1, n2, n3}
  Batch = 2
  MaxRetries = 1
  MaxFaults = 1
  None = None
PROPERTIES ImplementsMailOutbox EveryNoticeSettles
CHECK_DEADLOCK FALSE
