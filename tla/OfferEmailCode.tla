--------------------------- MODULE OfferEmailCode ---------------------------
(***************************************************************************)
(* The six-digit code that verifies the customer's e-mail address before   *)
(* an acceptance (OfferEmailCodeService), for one invitation: one row,     *)
(* overwritten by every new code, and the calls of `requestCode' and       *)
(* `accept' that read and write it concurrently.                           *)
(*                                                                         *)
(* A call is several steps: every statement or transaction of its own is   *)
(* one.  A call that fails, or whose process dies, takes no further step.  *)
(* A code is named after the call that made it; only a reader of its mail  *)
(* types it (nobody hits one of 900,000 codes by chance).                  *)
(***************************************************************************)
EXTENDS NoticeMail, Naturals, FiniteSets

CONSTANTS
  Requests,     \* calls of requestCode; each makes a code of its own
  Attempts,     \* calls of accept
  Emails,       \* addresses in the form they are compared, trimmed and lowered
  MaxAttempts,  \* comparisons allowed per code (5)
  MaxSends,     \* codes allowed per invitation (5)
  Resend,       \* the pause before another code (60 seconds)
  Validity,     \* the life of a code (10 minutes)
  MaxClock      \* bound: the time at which the model stops

CodeRows == [codeHash: Requests, email: Emails, expiresAt: Nat, sentAt: Nat,
             attempts: Nat, sends: Nat, consumed: BOOLEAN,
             status: Outcomes \cup {"SENDING"}]

Links == [status: {"open", "withdrawn", "accepted", "rejected"},
          email: Emails \cup {None},        \* acceptedEmail
          verified: Requests \cup {None}]   \* emailVerifiedAt: by which code

\* `now' is read before the transaction; `stored' once it has committed.
RequestCalls == [email: Emails, now: Nat, stored: BOOLEAN,
                 outcome: Outcomes \cup {None}]

\* `codeHash' is the code of the row that was read, then of the ticket.
AttemptCalls == [email: Emails, guess: Requests \cup {None}, verify: BOOLEAN,
                 phase: {"checked", "read", "ready", "wrong"},
                 codeHash: Requests \cup {None}]

ASSUME CodeAssumption ==
  /\ {MaxAttempts, MaxSends, Resend, Validity, MaxClock} \subseteq Nat \ {0}
  /\ None \notin Requests \cup Emails \cup Outcomes
  /\ None \notin CodeRows \cup RequestCalls \cup AttemptCalls

VARIABLES
  required,     \* OFFER_EMAIL_VERIFICATION_REQUIRED, as the process was started
  clock,
  code,         \* the OfferEmailCode row
  link,         \* the ProposalInvitation row
  request,      \* the calls of requestCode
  attempt,      \* the calls of accept
  compared      \* history: how often a guess was compared with each code

emailCodeVars == <<required, clock, code, link, request, attempt, compared>>

EmailCodeTypeOK ==
  /\ required \in BOOLEAN
  /\ clock \in Nat
  /\ code \in CodeRows \cup {None}
  /\ link \in Links
  /\ request \in [Requests -> RequestCalls \cup {None}]
  /\ attempt \in [Attempts -> AttemptCalls \cup {None}]
  /\ compared \in [Requests -> Nat]

EmailCodeInit ==
  /\ required \in BOOLEAN
  /\ clock = 0
  /\ code = None
  /\ link = [status |-> "open", email |-> None, verified |-> None]
  /\ request = [r \in Requests |-> None]
  /\ attempt = [a \in Attempts |-> None]
  /\ compared = [r \in Requests |-> 0]

-----------------------------------------------------------------------------
(* request: a new code is made, stored and mailed.                         *)

\* requestCode looks at the link; request draws a code and reads the time.
StartRequest(r, e) ==
  /\ link.status = "open"
  /\ request[r] = None
  /\ request' = [request EXCEPT ![r] =
       [email |-> e, now |-> clock, stored |-> FALSE, outcome |-> None]]
  /\ UNCHANGED <<required, clock, code, link, attempt, compared>>

\* Faulty: the pause is forgotten.
ReplaceableAtOnce(now) == ~code.consumed /\ code.sends < MaxSends

\* A stored code may be replaced by one made at `now'.
Replaceable(now) ==
  /\ ~code.consumed
  /\ now >= code.sentAt + Resend
  /\ code.sends < MaxSends

\* The transaction of request.
StoreCode(r) ==
  /\ request[r] # None
  /\ ~request[r].stored
  /\ code # None => Replaceable(request[r].now)
  /\ code' = [codeHash |-> r, email |-> request[r].email,
              expiresAt |-> request[r].now + Validity,
              sentAt |-> request[r].now, attempts |-> 0,
              sends |-> IF code = None THEN 1 ELSE code.sends + 1,
              consumed |-> FALSE, status |-> "SENDING"]
  /\ request' = [request EXCEPT ![r].stored = TRUE]
  /\ UNCHANGED <<required, clock, link, attempt, compared>>

\* The mail is sent, refused for good, or nobody knows.
Mail(r, outcome) ==
  /\ request[r] # None
  /\ request[r].stored
  /\ request[r].outcome = None
  /\ request' = [request EXCEPT ![r].outcome = outcome]
  /\ UNCHANGED <<required, clock, code, link, attempt, compared>>

\* Faulty: whatever code the row holds by now.
AnyCode(r) == code # None

\* The row still holds the code of this call.
StillHolds(r) == code # None /\ code.codeHash = r

\* request writes the outcome, only onto the code it mailed.
RecordOutcome(r) ==
  /\ request[r] # None
  /\ request[r].outcome # None
  /\ StillHolds(r)
  /\ code' = [code EXCEPT !.status = request[r].outcome]
  /\ UNCHANGED <<required, clock, link, request, attempt, compared>>

-----------------------------------------------------------------------------
(* accept: a code is verified, then used in the transaction.               *)

\* What the customer may type: a code whose mail may have arrived, or none
\* that matches.
Readable ==
  {r \in Requests : /\ request[r] # None
                    /\ request[r].outcome \in {"SMTP_ACCEPTED", "UNKNOWN"}}

\* accept's first checks; without a code typed, and none required, it goes
\* straight to its transaction.
StartAttempt(a, e, g, withCode) ==
  /\ link.status = "open"
  /\ attempt[a] = None
  /\ withCode \/ ~required
  /\ g # None => withCode /\ g \in Readable
  /\ attempt' = [attempt EXCEPT ![a] =
       [email |-> e, guess |-> g, verify |-> withCode, codeHash |-> None,
        phase |-> IF withCode THEN "checked" ELSE "ready"]]
  /\ UNCHANGED <<required, clock, code, link, request, compared>>

\* verify's first look at the row, for the address e the customer gave.
Usable(e) ==
  /\ code.email = e
  /\ ~code.consumed
  /\ clock < code.expiresAt
  /\ code.attempts < MaxAttempts
  /\ code.status # "FAILED"

ReadCode(a) ==
  /\ attempt[a] # None
  /\ attempt[a].phase = "checked"
  /\ code # None
  /\ Usable(attempt[a].email)
  /\ attempt' = [attempt EXCEPT ![a].phase = "read",
                                ![a].codeHash = code.codeHash]
  /\ UNCHANGED <<required, clock, code, link, request, compared>>

\* Faulty: the counter was checked when the row was read.
ClaimableUnchecked(h) ==
  code # None /\ code.codeHash = h /\ ~code.consumed /\ clock < code.expiresAt

\* The WHERE of the update that takes one of the five attempts.
Claimable(h) ==
  /\ code # None
  /\ code.codeHash = h
  /\ code.attempts < MaxAttempts
  /\ ~code.consumed
  /\ clock < code.expiresAt

\* verify takes an attempt and compares the guess with the code it read.
Compare(a) ==
  LET h == attempt[a].codeHash IN
  /\ attempt[a] # None
  /\ attempt[a].phase = "read"
  /\ Claimable(h)
  /\ code' = [code EXCEPT !.attempts = @ + 1]
  /\ compared' = [compared EXCEPT ![h] = @ + 1]
  /\ attempt' = [attempt EXCEPT ![a].phase =
                   IF attempt[a].guess = h THEN "ready" ELSE "wrong"]
  /\ UNCHANGED <<required, clock, link, request>>

\* Faulty: a replaced code is as good as the current one.
RedeemableOld(h) == code # None /\ ~code.consumed /\ clock < code.expiresAt

\* consume: the ticket's code is still the current one, unused and alive.
\* (The ticket's address is the row's: it comes with the code.)
Redeemable(h) ==
  /\ code # None
  /\ code.codeHash = h
  /\ ~code.consumed
  /\ clock < code.expiresAt

\* A code is consumed, when one was verified.
Consumed(a) ==
  \/ ~attempt[a].verify /\ UNCHANGED code
  \/ /\ attempt[a].verify
     /\ Redeemable(attempt[a].codeHash)
     /\ code' = [code EXCEPT !.consumed = TRUE]

AcceptedBy(a) == [status |-> "accepted", email |-> attempt[a].email,
                  verified |-> attempt[a].codeHash]

\* Faulty: nobody looks at how many rows the update changed.
LinkTakenUnchecked(a) ==
  link' = IF link.status = "open" THEN AcceptedBy(a) ELSE link

\* The link is accepted, unless it is not open any more.
LinkTaken(a) == link.status = "open" /\ link' = AcceptedBy(a)

\* accept's transaction: both writes, or neither.
Accept(a) ==
  /\ attempt[a] # None
  /\ attempt[a].phase = "ready"
  /\ Consumed(a)
  /\ LinkTaken(a)
  /\ UNCHANGED <<required, clock, request, attempt, compared>>

-----------------------------------------------------------------------------
(* The seller and the time.                                                *)

\* The link is revoked, replaced by another or expires.
Withdraw ==
  /\ link.status = "open"
  /\ link' = [link EXCEPT !.status = "withdrawn"]
  /\ UNCHANGED <<required, clock, code, request, attempt, compared>>

\* decide, rejecting.
Reject ==
  /\ link.status = "accepted"
  /\ link' = [link EXCEPT !.status = "rejected"]
  /\ UNCHANGED <<required, clock, code, request, attempt, compared>>

Tick ==
  /\ clock < MaxClock
  /\ clock' = clock + 1
  /\ UNCHANGED <<required, code, link, request, attempt, compared>>

EmailCodeNext ==
  \/ \E r \in Requests, e \in Emails : StartRequest(r, e)
  \/ \E r \in Requests : StoreCode(r)
  \/ \E r \in Requests, outcome \in Outcomes : Mail(r, outcome)
  \/ \E r \in Requests : RecordOutcome(r)
  \/ \E a \in Attempts, e \in Emails, g \in Requests \cup {None},
        withCode \in BOOLEAN : StartAttempt(a, e, g, withCode)
  \/ \E a \in Attempts : ReadCode(a)
  \/ \E a \in Attempts : Compare(a)
  \/ \E a \in Attempts : Accept(a)
  \/ Withdraw
  \/ Reject
  \/ Tick

EmailCodeSpec == EmailCodeInit /\ [][EmailCodeNext]_emailCodeVars

-----------------------------------------------------------------------------
(* Properties.                                                             *)

\* Nobody gets more than five guesses at a code, however many calls run at
\* once: the row is read, then an attempt is taken (verify).
GuessesBounded == \A r \in Requests : compared[r] <= MaxAttempts

\* An acceptance marked as verified was made from the address that the code
\* was mailed to, with the code mailed last, although the code can be replaced
\* and the link reopened to other calls between verify and the transaction.
VerifiedByItsMail ==
  link.verified # None =>
    /\ code # None /\ code.codeHash = link.verified
    /\ link.verified \in Readable
    /\ link.email = request[link.verified].email

\* A code is used up exactly when the acceptance it verified was recorded: no
\* code is spent on an acceptance that was rolled back, and none is spent twice.
SpentOnAcceptance ==
  /\ link.verified # None <=> code # None /\ code.consumed
  /\ required /\ link.status \in {"accepted", "rejected"} =>
       link.verified # None

\* The status in the row is that of the code in the row: the late outcome of
\* the mail of a replaced code never discredits, or vouches for, a newer one.
StatusOfCurrentCode ==
  code # None => code.status \in {"SENDING", request[code.codeHash].outcome}

Stored == {r \in Requests : request[r] # None /\ request[r].stored}

\* However the calls of requestCode overlap, the customer is sent a limited
\* number of codes, and no two were made within a minute.
MailsPaced ==
  /\ Cardinality(Stored) <= MaxSends
  /\ \A r, s \in Stored : r = s \/ request[r].now >= request[s].now + Resend
                               \/ request[s].now >= request[r].now + Resend

=============================================================================
