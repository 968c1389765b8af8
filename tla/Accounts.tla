------------------------------ MODULE Accounts ------------------------------
(***************************************************************************)
(* A seller's account: registration, the codes mailed to confirm the       *)
(* address or to reset the password, login with its lockout, and sessions  *)
(* (AuthService, VerificationCodeService, PrismaSessionStore,              *)
(* SessionAuthGuard), for one e-mail address.                              *)
(*                                                                         *)
(* Nothing here is a transaction: every awaited statement is a step, and   *)
(* a call keeps what it has read until it writes.  `step' names the        *)
(* statement a call will execute next.  Time is four flags that only       *)
(* time sets: a code's pause and life, a lock and a session run out.       *)
(* `deletedAt' is left out: nothing in the program ever sets it.           *)
(***************************************************************************)
EXTENDS Null, Naturals, Sequences, FiniteSets, FiniteSetsExt

CONSTANTS
  Calls,                \* requests served at the same time
  VerificationEnabled,  \* EMAIL_VERIFICATION_ENABLED
  MaxAttempts,          \* MAX_VERIFICATION_ATTEMPTS (5)
  MaxFailed,            \* MAX_FAILED_LOGIN_ATTEMPTS (5)
  MaxCodes,             \* bound: codes of both purposes
  MaxSessions, MaxPasswords, MaxWrong   \* bounds

Purposes == {"EMAIL_VERIFICATION", "PASSWORD_RESET"}

CodeRows == [attempts: Nat, consumed: BOOLEAN, expired: BOOLEAN,
             cooling: BOOLEAN,   \* createdAt less than a minute ago
             mailed: BOOLEAN]    \* the seller can know it

\* Passwords are numbered in the order they are set; 0 before registration.
SellerRows == [password: Nat, verified: BOOLEAN, failures: Nat,
               lock: {"none", "future", "past"}]     \* lockedUntil

SessionRows == [status: {"live", "expired", "deleted"},
                password: Nat,       \* history: the one its login checked
                overlapped: BOOLEAN] \* history: its login overlapped a reset

Steps == {"create", "recent", "store", "mail", "find", "compare", "apply",
          "sweep", "password", "open", "touch", "drop"}

\* What a call has read: a code's place, the seller, or a session's place.
CallRows == [step: Steps, purpose: Purposes, typed: Nat, row: Nat,
             seller: SellerRows \cup {None}, overlapped: BOOLEAN]

ASSUME AccountsAssumption ==
  /\ IsFiniteSet(Calls)
  /\ VerificationEnabled \in BOOLEAN
  /\ {MaxAttempts, MaxFailed} \subseteq Nat \ {0}
  /\ {MaxCodes, MaxSessions, MaxPasswords, MaxWrong} \subseteq Nat
  /\ None \notin CallRows \cup SellerRows

VARIABLES
  seller,    \* the Seller row of the address
  codes,     \* its VerificationCode rows, in order of createdAt
  sessions,  \* its Session rows, deleted ones included
  call,      \* the calls under way
  swept,     \* history: the newest password a completed reset left
  alone,     \* history: no write ever fell between a login's read and write
  wrong      \* history, while alone: wrong passwords since the last right one
             \* or reset

vars == <<seller, codes, sessions, call, swept, alone, wrong>>

TypeOK ==
  /\ seller \in SellerRows
  /\ codes \in [Purposes -> Seq(CodeRows)]
  /\ sessions \in Seq(SessionRows)
  /\ call \in [Calls -> CallRows \cup {None}]
  /\ swept \in Nat /\ wrong \in Nat /\ alone \in BOOLEAN

Init ==
  /\ seller = [password |-> 0, verified |-> FALSE, failures |-> 0,
               lock |-> "none"]
  /\ codes = [p \in Purposes |-> <<>>]
  /\ sessions = <<>>
  /\ call = [c \in Calls |-> None]
  /\ swept = 0 /\ wrong = 0 /\ alone = TRUE

At(c, step) == call[c] # None /\ call[c].step = step
Goes(c, step) == call' = [call EXCEPT ![c].step = step]
Ends(c) == call' = [call EXCEPT ![c] = None]
Begin(c, step, purpose, typed, row, read) ==
  /\ call[c] = None
  /\ call' = [call EXCEPT ![c] =
       [step |-> step, purpose |-> purpose, typed |-> typed, row |-> row,
        seller |-> read, overlapped |-> FALSE]]

Registered == seller.password # 0

-----------------------------------------------------------------------------
(* Registration, and the codes it and its sisters mail.                    *)

Register(c) ==
  /\ ~Registered
  /\ Begin(c, "create", "EMAIL_VERIFICATION", 0, 0, None)
  /\ UNCHANGED <<seller, codes, sessions, swept, alone, wrong>>

\* The address is unique: of two overlapping registrations one fails.
CreateSeller(c) ==
  /\ At(c, "create")
  /\ IF Registered THEN UNCHANGED seller
     ELSE seller' = [password |-> 1, verified |-> ~VerificationEnabled,
                     failures |-> 0, lock |-> "none"]
  /\ IF Registered \/ ~VerificationEnabled THEN Ends(c) ELSE Goes(c, "recent")
  /\ UNCHANGED <<codes, sessions, swept, alone, wrong>>

ResendCode(c) ==
  /\ Registered /\ ~seller.verified
  /\ Begin(c, "recent", "EMAIL_VERIFICATION", 0, 0, None)
  /\ UNCHANGED <<seller, codes, sessions, swept, alone, wrong>>

ForgotPassword(c) ==
  /\ Registered
  /\ Begin(c, "recent", "PASSWORD_RESET", 0, 0, None)
  /\ UNCHANGED <<seller, codes, sessions, swept, alone, wrong>>

\* The newest code is a minute old.
Rested(rows) == rows = <<>> \/ ~rows[Len(rows)].cooling

ReadRecent(c) ==
  /\ At(c, "recent")
  /\ IF Rested(codes[call[c].purpose]) THEN Goes(c, "store") ELSE Ends(c)
  /\ UNCHANGED <<seller, codes, sessions, swept, alone, wrong>>

\* `row' is the code to be mailed.
StoreCode(c) ==
  LET rows == codes[call[c].purpose] IN
  /\ At(c, "store")
  /\ Len(codes["EMAIL_VERIFICATION"]) + Len(codes["PASSWORD_RESET"]) < MaxCodes
  /\ codes' = [codes EXCEPT ![call[c].purpose] =
       Append(rows, [attempts |-> 0, consumed |-> FALSE, expired |-> FALSE,
                     cooling |-> TRUE, mailed |-> FALSE])]
  /\ call' = [call EXCEPT ![c].step = "mail", ![c].row = Len(rows) + 1]
  /\ UNCHANGED <<seller, sessions, swept, alone, wrong>>

\* MailService.send; that it fails is CallFails.
MailCode(c) ==
  /\ At(c, "mail")
  /\ codes' = [codes EXCEPT ![call[c].purpose][call[c].row].mailed = TRUE]
  /\ Ends(c)
  /\ UNCHANGED <<seller, sessions, swept, alone, wrong>>

-----------------------------------------------------------------------------
(* A code is typed: verifyEmail and resetPassword.                         *)

\* The seller types a code received, or (0) something else.
TypeCode(c, purpose, typed) ==
  /\ Registered
  /\ typed # 0 => codes[purpose][typed].mailed
  /\ Begin(c, "find", purpose, typed, 0, None)
  /\ UNCHANGED <<seller, codes, sessions, swept, alone, wrong>>

\* Faulty: an exhausted code may be tried again.
GuessableExhausted(row) == ~row.expired

Guessable(row) == ~row.expired /\ row.attempts < MaxAttempts

\* findFirst: the newest code that was not used.
FindCode(c) ==
  LET rows == codes[call[c].purpose]
      open == {k \in DOMAIN rows : ~rows[k].consumed} IN
  /\ At(c, "find")
  /\ IF open # {} /\ Guessable(rows[Max(open)])
     THEN call' = [call EXCEPT ![c].step = "compare", ![c].row = Max(open)]
     ELSE Ends(c)
  /\ UNCHANGED <<seller, codes, sessions, swept, alone, wrong>>

CompareCode(c) ==
  /\ At(c, "compare")
  /\ IF call[c].typed = call[c].row
     THEN /\ codes' = [codes EXCEPT ![call[c].purpose][call[c].row].consumed = TRUE]
          /\ Goes(c, "apply")
     ELSE /\ codes' = [codes EXCEPT ![call[c].purpose][call[c].row].attempts = @ + 1]
          /\ Ends(c)
  /\ UNCHANGED <<seller, sessions, swept, alone, wrong>>

ConfirmEmail(c) ==
  /\ At(c, "apply") /\ call[c].purpose = "EMAIL_VERIFICATION"
  /\ seller' = [seller EXCEPT !.verified = TRUE]
  /\ Ends(c)
  /\ UNCHANGED <<codes, sessions, swept, alone, wrong>>

ReadingLogins(c) == {d \in Calls \ {c} : At(d, "password")}

SetPassword(c) ==
  /\ At(c, "apply") /\ call[c].purpose = "PASSWORD_RESET"
  /\ seller.password < MaxPasswords
  /\ seller' = [seller EXCEPT !.password = @ + 1, !.failures = 0, !.lock = "none"]
  /\ Goes(c, "sweep")
  /\ wrong' = 0
  /\ alone' = (alone /\ ReadingLogins(c) = {})
  /\ UNCHANGED <<codes, sessions, swept>>

\* Faulty: only sessions that have run out are deleted.
ExpiredDeleted(rows) ==
  [s \in DOMAIN rows |-> IF rows[s].status = "expired"
                         THEN [rows[s] EXCEPT !.status = "deleted"] ELSE rows[s]]

\* deleteAllForSeller.
AllDeleted(rows) == [s \in DOMAIN rows |-> [rows[s] EXCEPT !.status = "deleted"]]

Sweep(c) ==
  /\ At(c, "sweep")
  /\ sessions' = AllDeleted(sessions)
  /\ call' = [d \in Calls |->
       IF d = c THEN None
       ELSE IF At(d, "password") \/ At(d, "open")
       THEN [call[d] EXCEPT !.overlapped = TRUE] ELSE call[d]]
  /\ swept' = seller.password
  /\ UNCHANGED <<seller, codes, wrong, alone>>

-----------------------------------------------------------------------------
(* Login and its lockout.                                                  *)

\* The seller is read once; all of login relies on what was read.
Login(c) ==
  /\ Registered /\ seller.lock # "future" /\ seller.failures < MaxWrong
  /\ Begin(c, "password", "EMAIL_VERIFICATION", 0, 0, seller)
  /\ alone' = (alone /\ ReadingLogins(c) = {})
  /\ wrong' = IF alone' THEN wrong ELSE 0
  /\ UNCHANGED <<seller, codes, sessions, swept>>

\* Faulty: one failure too late.
LockAbove(failures) == IF failures > MaxFailed THEN "future" ELSE "none"

LockAfter(failures) == IF failures >= MaxFailed THEN "future" ELSE "none"

\* registerFailedAttempt, from the count that was read.
WrongPassword(c) ==
  LET failures == call[c].seller.failures + 1 IN
  /\ At(c, "password")
  /\ seller' = [seller EXCEPT !.failures = failures, !.lock = LockAfter(failures)]
  /\ Ends(c)
  /\ wrong' = IF alone THEN wrong + 1 ELSE 0
  /\ UNCHANGED <<codes, sessions, swept, alone>>

Unconfirmed(c) ==
  /\ At(c, "password")
  /\ VerificationEnabled /\ ~call[c].seller.verified
  /\ Ends(c)
  /\ UNCHANGED <<seller, codes, sessions, swept, alone, wrong>>

RightPassword(c) ==
  /\ At(c, "password")
  /\ VerificationEnabled => call[c].seller.verified
  /\ seller' = [seller EXCEPT !.failures = 0, !.lock = "none"]
  /\ Goes(c, "open")
  /\ wrong' = 0
  /\ UNCHANGED <<codes, sessions, swept, alone>>

OpenSession(c) ==
  /\ At(c, "open") /\ Len(sessions) < MaxSessions
  /\ sessions' = Append(sessions,
       [status |-> "live", password |-> call[c].seller.password,
        overlapped |-> call[c].overlapped])
  /\ Ends(c)
  /\ UNCHANGED <<seller, codes, swept, alone, wrong>>

-----------------------------------------------------------------------------
(* Sessions.                                                               *)

\* A request with the cookie of session s: SessionAuthGuard, validateSession.
Validate(c, s) ==
  /\ sessions[s].status # "deleted"
  /\ Begin(c, IF sessions[s].status = "expired" THEN "drop" ELSE "touch",
           "EMAIL_VERIFICATION", 0, s, None)
  /\ UNCHANGED <<seller, codes, sessions, swept, alone, wrong>>

\* Sliding expiry; the update of a row deleted meanwhile fails.
Touched(row) ==
  IF row.status = "deleted" THEN row ELSE [row EXCEPT !.status = "live"]

Touch(c) ==
  /\ At(c, "touch")
  /\ sessions' = [sessions EXCEPT ![call[c].row] = Touched(@)]
  /\ Ends(c)
  /\ UNCHANGED <<seller, codes, swept, alone, wrong>>

DropExpired(c) ==
  /\ At(c, "drop")
  /\ sessions' = [sessions EXCEPT ![call[c].row].status = "deleted"]
  /\ Ends(c)
  /\ UNCHANGED <<seller, codes, swept, alone, wrong>>

Logout(s) ==
  /\ sessions' = [sessions EXCEPT ![s].status = "deleted"]
  /\ UNCHANGED <<seller, codes, call, swept, alone, wrong>>

-----------------------------------------------------------------------------
(* Time and faults.                                                        *)

\* The pause ends for the oldest code first.
PauseEnds(p, k) ==
  /\ codes[p][k].cooling
  /\ \A j \in 1..(k - 1) : ~codes[p][j].cooling
  /\ codes' = [codes EXCEPT ![p][k].cooling = FALSE]
  /\ UNCHANGED <<seller, sessions, call, swept, alone, wrong>>

\* Only an open code's life matters.
CodeExpires(p, k) ==
  /\ ~codes[p][k].cooling /\ ~codes[p][k].consumed /\ ~codes[p][k].expired
  /\ \A j \in 1..(k - 1) : codes[p][j].expired \/ codes[p][j].consumed
  /\ codes' = [codes EXCEPT ![p][k].expired = TRUE]
  /\ UNCHANGED <<seller, sessions, call, swept, alone, wrong>>

LockLapses ==
  /\ seller.lock = "future"
  /\ seller' = [seller EXCEPT !.lock = "past"]
  /\ UNCHANGED <<codes, sessions, call, swept, alone, wrong>>

SessionExpires(s) ==
  /\ sessions[s].status = "live"
  /\ sessions' = [sessions EXCEPT ![s].status = "expired"]
  /\ UNCHANGED <<seller, codes, call, swept, alone, wrong>>

\* A statement or the mail fails, or the process stops: no further step.
CallFails(c) ==
  /\ call[c] # None
  /\ Ends(c)
  /\ UNCHANGED <<seller, codes, sessions, swept, alone, wrong>>

CodeStep(c) ==
  \/ Register(c) \/ CreateSeller(c) \/ ResendCode(c) \/ ForgotPassword(c)
  \/ ReadRecent(c) \/ StoreCode(c) \/ MailCode(c)
  \/ \E p \in Purposes : \E k \in {0} \cup DOMAIN codes[p] : TypeCode(c, p, k)
  \/ FindCode(c) \/ CompareCode(c) \/ ConfirmEmail(c) \/ SetPassword(c) \/ Sweep(c)

SessionStep(c) ==
  \/ Login(c) \/ WrongPassword(c) \/ Unconfirmed(c) \/ RightPassword(c)
  \/ OpenSession(c) \/ Touch(c) \/ DropExpired(c)
  \/ \E s \in DOMAIN sessions : Validate(c, s)

TimePasses ==
  \/ \E p \in Purposes : \E k \in DOMAIN codes[p] : PauseEnds(p, k) \/ CodeExpires(p, k)
  \/ LockLapses
  \/ \E s \in DOMAIN sessions : SessionExpires(s)

Next ==
  \/ \E c \in Calls : CodeStep(c) \/ SessionStep(c) \/ CallFails(c)
  \/ \E s \in DOMAIN sessions : Logout(s)
  \/ TimePasses

Spec == Init /\ [][Next]_vars

-----------------------------------------------------------------------------
(* Properties.                                                             *)

\* A code is compared with at most MaxAttempts wrong guesses, plus those of
\* calls that had all read it before the last one counted
\* (VerificationCodeService.verify: read, compare and increment are separate).
GuessesBounded ==
  \A p \in Purposes : \A k \in DOMAIN codes[p] :
    codes[p][k].attempts < MaxAttempts + Cardinality(Calls)

\* Once a reset has completed, every session still open was opened with the
\* password it set or a later one, unless its login was already under way
\* (resetPassword, deleteAllForSeller; a touch brings no session back).
SessionsRenewed ==
  \A s \in DOMAIN sessions :
    sessions[s].status # "deleted" =>
      sessions[s].password >= swept \/ sessions[s].overlapped

\* As long as no other write falls between a login's read and its write, the
\* counter is the number of consecutive failures and the account is locked
\* at MaxFailed of them (login, registerFailedAttempt, resetPassword).
FailuresCounted ==
  alone => /\ seller.failures = wrong
           /\ seller.lock = "none" <=> wrong < MaxFailed
=============================================================================
