SPECIFICATION EmailCodeSpec
CONSTANTS
  Requests = {r1, r2, r3}
  Attempts = {a1, a2}
  Emails = {e1, e2}
  MaxAttempts = 1
  MaxSends = 2
  Resend = 1
  Validity = 2
  MaxClock = 2
  None = None
SYMMETRY Symmetry
INVARIANTS GuessesBounded VerifiedByItsMail SpentOnAcceptance StatusOfCurrentCode MailsPaced
CHECK_DEADLOCK FALSE
