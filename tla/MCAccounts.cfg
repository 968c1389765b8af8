\* Two overlapping calls on one account.
SPECIFICATION Spec
SYMMETRY Interchangeable
CONSTANTS
  c1 = c1
  c2 = c2
  Calls <- MCCalls
  VerificationEnabled = TRUE
  MaxAttempts = 1
  MaxFailed = 2
  MaxCodes = 2
  MaxSessions = 1
  MaxPasswords = 2
  MaxWrong = 2
  None = None
INVARIANT GuessesBounded
INVARIANT SessionsRenewed
INVARIANT FailuresCounted
