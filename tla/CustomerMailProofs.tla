------------------------- MODULE CustomerMailProofs -------------------------
(***************************************************************************)
(* What is mailed to the customer of a case: the code that verifies the    *)
(* address of an acceptance, and the notices of what became of it.         *)
(*                                                                         *)
(* Codes, for any number of calls and any limits.  CodeInv is inductive:   *)
(* beside the properties it says that the row always holds the code stored *)
(* last, counts its comparisons and the codes stored, and what a call of   *)
(* accept has established in each phase.                                   *)
(*                                                                         *)
(* Notices, for any number of them, of retries and of faults.  OutboxInv   *)
(* is inductive: it follows each notice through its statuses and says, for *)
(* each, how many mails can have gone out; for the one being sent that     *)
(* depends on whether its mail has left.                                   *)
(***************************************************************************)
EXTENDS OfferEmailCode, CaseOutbox, FiniteSetTheorems, TLAPS

-----------------------------------------------------------------------------
(* The e-mailed code: the inductive invariant.                             *)

\* The row is that of the last code stored, and counts what happened to it.
RowCurrent ==
  code # None =>
    /\ code.codeHash \in Stored
    /\ code.email = request[code.codeHash].email
    /\ code.sentAt = request[code.codeHash].now
    /\ code.attempts = compared[code.codeHash]

\* A code not stored yet was never compared with anything.
NotComparedBefore == \A r \in Requests : r \notin Stored => compared[r] = 0

\* Codes are counted, and the last one is a pause later than all others.
CodesCounted ==
  /\ IsFiniteSet(Stored)
  /\ Cardinality(Stored) = IF code = None THEN 0 ELSE code.sends
  /\ Cardinality(Stored) <= MaxSends
  /\ \A r \in Stored :
       r = code.codeHash \/ code.sentAt >= request[r].now + Resend

\* What a call of accept knows in each of its phases.
AttemptKnows(a) ==
  LET at == attempt[a] IN
  /\ at.guess # None => at.guess \in Readable
  /\ at.verify \/ ~required
  /\ ~at.verify => at.codeHash = None /\ at.phase = "ready"
  /\ at.phase = "read" \/ (at.phase = "ready" /\ at.verify) =>
       at.codeHash \in Stored /\ request[at.codeHash].email = at.email
  /\ at.phase = "ready" /\ at.verify => at.guess = at.codeHash

AttemptsKnow == \A a \in Attempts : attempt[a] # None => AttemptKnows(a)

OpenUnverified == link.status = "open" => link.verified = None

CodeInv ==
  /\ EmailCodeTypeOK
  /\ RowCurrent
  /\ NotComparedBefore
  /\ CodesCounted
  /\ AttemptsKnow
  /\ OpenUnverified
  /\ GuessesBounded
  /\ VerifiedByItsMail
  /\ SpentOnAcceptance
  /\ StatusOfCurrentCode
  /\ MailsPaced

-----------------------------------------------------------------------------

\* A null column is told from every value and every row.
LEMMA NoneIsNoCode ==
  /\ None \notin Requests /\ None \notin Emails /\ None \notin Outcomes
  /\ None \notin CodeRows /\ None \notin RequestCalls
  /\ None \notin AttemptCalls
BY CodeAssumption

\* The limits and the pauses can be compared and added.
LEMMA LimitsAreNumbers ==
  /\ MaxAttempts \in Nat /\ MaxAttempts > 0
  /\ MaxSends \in Nat /\ MaxSends > 0
  /\ Resend \in Nat /\ Validity \in Nat
BY CodeAssumption

\* Initially there is no code and no call.
THEOREM CodeInit == EmailCodeInit => CodeInv
<1> SUFFICES ASSUME EmailCodeInit PROVE CodeInv
  OBVIOUS
<1>1. Stored = {}
  BY DEF EmailCodeInit, Stored
<1>2. EmailCodeTypeOK
  BY DEF EmailCodeInit, EmailCodeTypeOK, Links
<1>3. CodesCounted /\ MailsPaced
  BY <1>1, FS_EmptySet, CodeAssumption DEF EmailCodeInit, CodesCounted, MailsPaced
<1>4. RowCurrent /\ NotComparedBefore /\ AttemptsKnow /\ OpenUnverified
  BY DEF EmailCodeInit, RowCurrent, NotComparedBefore, AttemptsKnow, OpenUnverified
<1>5. GuessesBounded
  BY CodeAssumption DEF EmailCodeInit, GuessesBounded
<1>6. VerifiedByItsMail /\ SpentOnAcceptance /\ StatusOfCurrentCode
  BY DEF EmailCodeInit, VerifiedByItsMail, SpentOnAcceptance, StatusOfCurrentCode
<1>. QED
  BY <1>2, <1>3, <1>4, <1>5, <1>6 DEF CodeInv

\* A step that changes neither the codes stored, nor their outcomes, nor a
\* call of accept, keeps what those calls know.
LEMMA KnownStays ==
  ASSUME CodeInv, UNCHANGED <<required, attempt>>,
         Readable \subseteq Readable', Stored \subseteq Stored',
         \A r \in Stored : request'[r].email = request[r].email
  PROVE  AttemptsKnow'
<1> SUFFICES ASSUME NEW a \in Attempts, attempt[a] # None
             PROVE  AttemptKnows(a)'
  BY DEF AttemptsKnow
<1>1. AttemptKnows(a)
  BY DEF CodeInv, AttemptsKnow
<1>. QED
  BY <1>1 DEF AttemptKnows

\* A call of requestCode starts.
LEMMA StartRequestStep ==
  ASSUME CodeInv, NEW r \in Requests, NEW e \in Emails, StartRequest(r, e)
  PROVE  CodeInv'
<1> DEFINE new == [email |-> e, now |-> clock, stored |-> FALSE,
                   outcome |-> None]
<1>1. /\ request' = [request EXCEPT ![r] = new]
      /\ request[r] = None
      /\ UNCHANGED <<required, clock, code, link, attempt, compared>>
  BY DEF StartRequest
<1>2. EmailCodeTypeOK
  BY DEF CodeInv
<1>3. new \in RequestCalls /\ new # None
  <2>1. new \in RequestCalls
    BY <1>2 DEF EmailCodeTypeOK, RequestCalls
  <2>. QED
    BY <2>1, NoneIsNoCode
<1>4. /\ request'[r] = new
      /\ \A s \in Requests : s # r => request'[s] = request[s]
  BY <1>1, <1>2 DEF EmailCodeTypeOK
<1>5. Stored' = Stored
  BY <1>1, <1>3, <1>4 DEF Stored
<1>6. Readable' = Readable
  BY <1>1, <1>3, <1>4, CodeAssumption DEF Readable, Outcomes
<1>7. r \notin Stored /\ r \notin Readable
  BY <1>1 DEF Stored, Readable
<1>8. EmailCodeTypeOK'
  BY <1>1, <1>2, <1>3 DEF EmailCodeTypeOK
<1>9. AttemptsKnow'
  BY <1>1, <1>4, <1>5, <1>6, <1>7, KnownStays
<1>10. RowCurrent' /\ NotComparedBefore' /\ StatusOfCurrentCode'
  BY <1>1, <1>4, <1>5, <1>7
     DEF CodeInv, RowCurrent, NotComparedBefore, StatusOfCurrentCode
<1>11. CodesCounted' /\ MailsPaced'
  BY <1>1, <1>4, <1>5, <1>7 DEF CodeInv, CodesCounted, MailsPaced
<1>12. OpenUnverified' /\ GuessesBounded' /\ SpentOnAcceptance'
  BY <1>1 DEF CodeInv, OpenUnverified, GuessesBounded, SpentOnAcceptance
<1>13. VerifiedByItsMail'
  BY <1>1, <1>4, <1>6, <1>7 DEF CodeInv, VerifiedByItsMail
<1>. QED
  BY <1>8, <1>9, <1>10, <1>11, <1>12, <1>13 DEF CodeInv

\* The transaction of request replaces the code.
LEMMA StoreCodeStep ==
  ASSUME CodeInv, NEW r \in Requests, StoreCode(r)
  PROVE  CodeInv'
<1>1. /\ request[r] # None /\ ~request[r].stored
      /\ code # None => Replaceable(request[r].now)
      /\ request' = [request EXCEPT ![r].stored = TRUE]
      /\ UNCHANGED <<required, clock, link, attempt, compared>>
  BY DEF StoreCode
<1>2. EmailCodeTypeOK
  BY DEF CodeInv
<1>3. request[r] \in RequestCalls
  BY <1>1, <1>2 DEF EmailCodeTypeOK
<1>4. /\ request'[r] = [request[r] EXCEPT !.stored = TRUE]
      /\ \A s \in Requests : s # r => request'[s] = request[s]
  BY <1>1, <1>2 DEF EmailCodeTypeOK
<1>5. /\ request'[r] \in RequestCalls /\ request'[r] # None
      /\ request'[r].stored
      /\ request'[r].now = request[r].now
      /\ request'[r].email = request[r].email
      /\ request'[r].outcome = request[r].outcome
  BY <1>3, <1>4, CodeAssumption DEF RequestCalls
<1>6. Stored' = Stored \cup {r} /\ r \notin Stored
  BY <1>1, <1>4, <1>5 DEF Stored
<1>7. Readable' = Readable
  BY <1>1, <1>4, <1>5 DEF Readable
<1>8. /\ code' \in CodeRows /\ code' # None
      /\ code'.codeHash = r /\ code'.email = request[r].email
      /\ code'.sentAt = request[r].now /\ code'.attempts = 0
      /\ code'.sends = IF code = None THEN 1 ELSE code.sends + 1
      /\ code'.consumed = FALSE /\ code'.status = "SENDING"
  <2>1. request[r].now + Validity \in Nat
    BY <1>3, CodeAssumption DEF RequestCalls
  <2>2. (IF code = None THEN 1 ELSE code.sends + 1) \in Nat
    BY <1>2 DEF EmailCodeTypeOK, CodeRows
  <2>3. request[r].email \in Emails /\ request[r].now \in Nat
    BY <1>3 DEF RequestCalls
  <2>4. code' \in CodeRows
    BY <2>1, <2>2, <2>3 DEF StoreCode, CodeRows
  <2>5. code' # None
    BY <2>4, NoneIsNoCode
  <2>. QED
    BY <2>4, <2>5 DEF StoreCode
<1>9. EmailCodeTypeOK'
  BY <1>1, <1>2, <1>5, <1>8 DEF EmailCodeTypeOK
<1>10. AttemptsKnow'
  BY <1>1, <1>4, <1>5, <1>6, <1>7, KnownStays
<1>11. RowCurrent' /\ NotComparedBefore' /\ StatusOfCurrentCode'
  <2>1. compared[r] = 0
    BY <1>6 DEF CodeInv, NotComparedBefore
  <2>. QED
    BY <1>1, <1>4, <1>5, <1>6, <1>8, <2>1
       DEF CodeInv, RowCurrent, NotComparedBefore, StatusOfCurrentCode
<1>12. IsFiniteSet(Stored)' /\ Cardinality(Stored)' = Cardinality(Stored) + 1
  BY <1>6, FS_AddElement DEF CodeInv, CodesCounted
<1>13. Cardinality(Stored) \in Nat
  BY FS_CardinalityType DEF CodeInv, CodesCounted
<1>14. Cardinality(Stored)' = code'.sends /\ Cardinality(Stored)' <= MaxSends
  <2>1. CASE code = None
    BY <1>8, <1>12, <1>13, <2>1, LimitsAreNumbers DEF CodeInv, CodesCounted
  <2>2. CASE code # None
    BY <1>1, <1>2, <1>8, <1>12, <1>13, <2>2, LimitsAreNumbers
       DEF CodeInv, CodesCounted, Replaceable, EmailCodeTypeOK, CodeRows
  <2>. QED
    BY <2>1, <2>2
<1>15. \A s \in Stored : request[r].now >= request[s].now + Resend
  <2> SUFFICES ASSUME NEW s \in Stored
               PROVE  request[r].now >= request[s].now + Resend
    OBVIOUS
  <2>1. code # None
    BY <1>13, FS_EmptySet DEF CodeInv, CodesCounted
  <2>2. request[s] \in RequestCalls
    BY <1>2 DEF EmailCodeTypeOK, Stored
  <2>3. request[r].now >= code.sentAt + Resend
    BY <1>1, <2>1 DEF Replaceable
  <2>4. code.sentAt >= request[s].now
    BY <1>2, <2>1, <2>2, LimitsAreNumbers
       DEF CodeInv, CodesCounted, RowCurrent, EmailCodeTypeOK, CodeRows, RequestCalls
  <2>. QED
    BY <1>2, <1>3, <2>1, <2>2, <2>3, <2>4, LimitsAreNumbers
       DEF EmailCodeTypeOK, CodeRows, RequestCalls
<1>16. CodesCounted'
  BY <1>1, <1>4, <1>5, <1>6, <1>8, <1>12, <1>14, <1>15 DEF CodesCounted
<1>17. MailsPaced'
  <2>1. ASSUME NEW p \in Stored', NEW q \in Stored', p # q
        PROVE  \/ request'[p].now >= request'[q].now + Resend
               \/ request'[q].now >= request'[p].now + Resend
    <3>1. CASE p = r
      BY <1>4, <1>5, <1>6, <1>15, <2>1, <3>1 DEF Stored
    <3>2. CASE q = r
      BY <1>4, <1>5, <1>6, <1>15, <2>1, <3>2 DEF Stored
    <3>3. CASE p # r /\ q # r
      BY <1>4, <1>6, <2>1, <3>3 DEF CodeInv, MailsPaced, Stored
    <3>. QED
      BY <3>1, <3>2, <3>3
  <2>. QED
    BY <1>14, <2>1 DEF MailsPaced
<1>18. link.verified = None
  BY <1>1 DEF CodeInv, SpentOnAcceptance, Replaceable
<1>19. /\ OpenUnverified' /\ GuessesBounded' /\ SpentOnAcceptance'
       /\ VerifiedByItsMail'
  BY <1>1, <1>8, <1>18
     DEF CodeInv, OpenUnverified, GuessesBounded, SpentOnAcceptance,
         VerifiedByItsMail
<1>. QED
  BY <1>9, <1>10, <1>11, <1>16, <1>17, <1>19 DEF CodeInv

\* The mail of a code goes out, or not.
LEMMA MailStep ==
  ASSUME CodeInv, NEW r \in Requests, NEW o \in Outcomes, Mail(r, o)
  PROVE  CodeInv'
<1>1. /\ request[r] # None /\ request[r].stored /\ request[r].outcome = None
      /\ request' = [request EXCEPT ![r].outcome = o]
      /\ UNCHANGED <<required, clock, code, link, attempt, compared>>
  BY DEF Mail
<1>2. EmailCodeTypeOK
  BY DEF CodeInv
<1>3. request[r] \in RequestCalls
  BY <1>1, <1>2 DEF EmailCodeTypeOK
<1>4. /\ request'[r] = [request[r] EXCEPT !.outcome = o]
      /\ \A s \in Requests : s # r => request'[s] = request[s]
  BY <1>1, <1>2 DEF EmailCodeTypeOK
<1>5. /\ request'[r] \in RequestCalls
      /\ request'[r].stored
      /\ request'[r].now = request[r].now
      /\ request'[r].email = request[r].email
      /\ request'[r].outcome = o
  BY <1>1, <1>3, <1>4 DEF RequestCalls
<1>6. request'[r] # None
  BY <1>5, NoneIsNoCode
<1>7. Stored' = Stored
  BY <1>1, <1>4, <1>5, <1>6 DEF Stored
<1>8. r \notin Readable /\ Readable \subseteq Readable'
  BY <1>1, <1>4, NoneIsNoCode DEF Readable, Outcomes
<1>9. EmailCodeTypeOK'
  BY <1>1, <1>2, <1>5 DEF EmailCodeTypeOK
<1>10. AttemptsKnow'
  BY <1>1, <1>4, <1>5, <1>7, <1>8, KnownStays DEF Stored
<1>11. RowCurrent' /\ NotComparedBefore'
  BY <1>1, <1>4, <1>5, <1>7 DEF CodeInv, RowCurrent, NotComparedBefore, Stored
<1>12. StatusOfCurrentCode'
  <2>1. CASE code # None /\ code.codeHash = r
    <3>1. code.status = "SENDING"
      BY <1>1, <1>2, <2>1, NoneIsNoCode
         DEF CodeInv, StatusOfCurrentCode, EmailCodeTypeOK, CodeRows
    <3>. QED
      BY <1>1, <3>1 DEF StatusOfCurrentCode
  <2>2. CASE ~(code # None /\ code.codeHash = r)
    BY <1>1, <1>4, <2>2
       DEF CodeInv, RowCurrent, StatusOfCurrentCode, Stored
  <2>. QED
    BY <2>1, <2>2
<1>13. CodesCounted'
  BY <1>1, <1>4, <1>5, <1>7 DEF CodeInv, CodesCounted, Stored
<1>14. MailsPaced'
  BY <1>4, <1>5, <1>7 DEF CodeInv, MailsPaced, Stored
<1>15. OpenUnverified' /\ GuessesBounded' /\ SpentOnAcceptance'
  BY <1>1 DEF CodeInv, OpenUnverified, GuessesBounded, SpentOnAcceptance
<1>16. VerifiedByItsMail'
  BY <1>1, <1>4, <1>8 DEF CodeInv, VerifiedByItsMail, Readable
<1>. QED
  BY <1>9, <1>10, <1>11, <1>12, <1>13, <1>14, <1>15, <1>16 DEF CodeInv

\* The outcome of a mail is written into the row that still holds its code.
LEMMA RecordOutcomeStep ==
  ASSUME CodeInv, NEW r \in Requests, RecordOutcome(r)
  PROVE  CodeInv'
<1>1. /\ request[r] # None /\ request[r].outcome # None
      /\ code # None /\ code.codeHash = r
      /\ code' = [code EXCEPT !.status = request[r].outcome]
      /\ UNCHANGED <<required, clock, link, request, attempt, compared>>
  BY DEF RecordOutcome, StillHolds
<1>2. EmailCodeTypeOK
  BY DEF CodeInv
<1>3. request[r].outcome \in Outcomes
  BY <1>1, <1>2 DEF EmailCodeTypeOK, RequestCalls
<1>4. /\ code' \in CodeRows /\ code' # None
      /\ code'.codeHash = r /\ code'.email = code.email
      /\ code'.sentAt = code.sentAt /\ code'.attempts = code.attempts
      /\ code'.sends = code.sends /\ code'.consumed = code.consumed
      /\ code'.status = request[r].outcome
  <2>1. code' \in CodeRows
    BY <1>1, <1>2, <1>3 DEF EmailCodeTypeOK, CodeRows
  <2>2. code \in CodeRows
    BY <1>1, <1>2 DEF EmailCodeTypeOK
  <2>. QED
    BY <1>1, <2>1, <2>2, NoneIsNoCode DEF CodeRows
<1>5. Stored' = Stored /\ Readable' = Readable
  BY <1>1 DEF Stored, Readable
<1>6. EmailCodeTypeOK'
  BY <1>1, <1>2, <1>4 DEF EmailCodeTypeOK
<1>7. AttemptsKnow'
  BY <1>1, <1>5, KnownStays
<1>8. RowCurrent' /\ NotComparedBefore' /\ StatusOfCurrentCode'
  BY <1>1, <1>4, <1>5
     DEF CodeInv, RowCurrent, NotComparedBefore, StatusOfCurrentCode
<1>9. CodesCounted' /\ MailsPaced'
  BY <1>1, <1>4, <1>5 DEF CodeInv, CodesCounted, MailsPaced
<1>10. /\ OpenUnverified' /\ GuessesBounded' /\ SpentOnAcceptance'
       /\ VerifiedByItsMail'
  BY <1>1, <1>4, <1>5
     DEF CodeInv, OpenUnverified, GuessesBounded, SpentOnAcceptance,
         VerifiedByItsMail
<1>. QED
  BY <1>6, <1>7, <1>8, <1>9, <1>10 DEF CodeInv

\* A step that leaves the codes and the link alone only has to keep what the
\* calls of accept know.
LEMMA CodesStay ==
  ASSUME CodeInv, UNCHANGED <<required, code, link, request, compared>>,
         EmailCodeTypeOK', AttemptsKnow'
  PROVE  CodeInv'
<1>1. Stored' = Stored /\ Readable' = Readable
  BY DEF Stored, Readable
<1>2. RowCurrent' /\ NotComparedBefore' /\ StatusOfCurrentCode'
  BY <1>1 DEF CodeInv, RowCurrent, NotComparedBefore, StatusOfCurrentCode
<1>3. CodesCounted' /\ MailsPaced'
  BY <1>1 DEF CodeInv, CodesCounted, MailsPaced
<1>4. /\ OpenUnverified' /\ GuessesBounded' /\ SpentOnAcceptance'
      /\ VerifiedByItsMail'
  BY <1>1 DEF CodeInv, OpenUnverified, GuessesBounded, SpentOnAcceptance,
              VerifiedByItsMail
<1>. QED
  BY <1>2, <1>3, <1>4 DEF CodeInv

\* One call of accept moves on: it is enough to look at what it knows now.
LEMMA OneAttempt ==
  ASSUME CodeInv, NEW a \in Attempts, NEW at \in AttemptCalls,
         attempt' = [attempt EXCEPT ![a] = at],
         UNCHANGED required, Stored' = Stored, Readable' = Readable,
         UNCHANGED request, AttemptKnows(a)'
  PROVE  AttemptsKnow'
<1> SUFFICES ASSUME NEW b \in Attempts, attempt'[b] # None
             PROVE  AttemptKnows(b)'
  BY DEF AttemptsKnow
<1>1. CASE b = a
  BY <1>1
<1>2. CASE b # a
  <2>1. attempt'[b] = attempt[b]
    BY <1>2 DEF CodeInv, EmailCodeTypeOK
  <2>2. AttemptKnows(b)
    BY <2>1 DEF CodeInv, AttemptsKnow
  <2>. QED
    BY <2>1, <2>2 DEF AttemptKnows
<1>. QED
  BY <1>1, <1>2

\* A call of accept starts.
LEMMA StartAttemptStep ==
  ASSUME CodeInv, NEW a \in Attempts, NEW e \in Emails,
         NEW g \in Requests \cup {None}, NEW w \in BOOLEAN,
         StartAttempt(a, e, g, w)
  PROVE  CodeInv'
<1> DEFINE at == [email |-> e, guess |-> g, verify |-> w, codeHash |-> None,
                  phase |-> IF w THEN "checked" ELSE "ready"]
<1>1. /\ attempt' = [attempt EXCEPT ![a] = at]
      /\ w \/ ~required
      /\ g # None => g \in Readable
      /\ UNCHANGED <<required, clock, code, link, request, compared>>
  BY DEF StartAttempt
<1>2. at \in AttemptCalls
  BY DEF AttemptCalls
<1>3. Stored' = Stored /\ Readable' = Readable
  BY <1>1 DEF Stored, Readable
<1>4. attempt'[a] = at
  BY <1>1 DEF CodeInv, EmailCodeTypeOK
<1>5. AttemptKnows(a)'
  BY <1>1, <1>3, <1>4 DEF AttemptKnows
<1>6. AttemptsKnow'
  BY <1>1, <1>2, <1>3, <1>5, OneAttempt
<1>7. EmailCodeTypeOK'
  BY <1>1, <1>2 DEF CodeInv, EmailCodeTypeOK
<1>. QED
  BY <1>1, <1>6, <1>7, CodesStay

\* verify reads the row, for the address the call has given.
LEMMA ReadCodeStep ==
  ASSUME CodeInv, NEW a \in Attempts, ReadCode(a)
  PROVE  CodeInv'
<1> DEFINE at == [attempt[a] EXCEPT !.phase = "read",
                                    !.codeHash = code.codeHash]
<1>1. /\ attempt[a] # None /\ attempt[a].phase = "checked"
      /\ code # None /\ code.email = attempt[a].email
      /\ attempt' = [attempt EXCEPT ![a] = at]
      /\ UNCHANGED <<required, clock, code, link, request, compared>>
  BY DEF ReadCode, Usable
<1>2. attempt[a] \in AttemptCalls /\ code.codeHash \in Requests
  BY <1>1 DEF CodeInv, EmailCodeTypeOK, CodeRows
<1>3. at \in AttemptCalls
  BY <1>2 DEF AttemptCalls
<1>4. /\ at.email = attempt[a].email /\ at.guess = attempt[a].guess
      /\ at.verify = attempt[a].verify /\ at.phase = "read"
      /\ at.codeHash = code.codeHash
  BY <1>2 DEF AttemptCalls
<1>5. Stored' = Stored /\ Readable' = Readable
  BY <1>1 DEF Stored, Readable
<1>6. attempt'[a] = at
  BY <1>1 DEF CodeInv, EmailCodeTypeOK
<1>7. AttemptKnows(a) /\ RowCurrent
  BY <1>1 DEF CodeInv, AttemptsKnow
<1>8. AttemptKnows(a)'
  <2>1. code.codeHash \in Stored
        /\ code.email = request[code.codeHash].email
    BY <1>1, <1>7 DEF RowCurrent
  <2>2. AttemptKnows(a)
    BY <1>7
  <2>. QED
    BY <1>1, <1>4, <1>5, <1>6, <2>1, <2>2 DEF AttemptKnows
<1>9. AttemptsKnow'
  BY <1>1, <1>3, <1>5, <1>8, OneAttempt
<1>10. EmailCodeTypeOK'
  BY <1>1, <1>3 DEF CodeInv, EmailCodeTypeOK
<1>. QED
  BY <1>1, <1>9, <1>10, CodesStay

\* verify takes an attempt and compares the guess with the code.
LEMMA CompareStep ==
  ASSUME CodeInv, NEW a \in Attempts, Compare(a)
  PROVE  CodeInv'
<1> DEFINE h == attempt[a].codeHash
           at == [attempt[a] EXCEPT !.phase =
                    IF attempt[a].guess = h THEN "ready" ELSE "wrong"]
<1>1. /\ attempt[a] # None /\ attempt[a].phase = "read"
      /\ code # None /\ code.codeHash = h /\ code.attempts < MaxAttempts
      /\ code' = [code EXCEPT !.attempts = @ + 1]
      /\ compared' = [compared EXCEPT ![h] = @ + 1]
      /\ attempt' = [attempt EXCEPT ![a] = at]
      /\ UNCHANGED <<required, clock, link, request>>
  BY DEF Compare, Claimable
<1>2. attempt[a] \in AttemptCalls /\ code \in CodeRows /\ h \in Requests
  BY <1>1 DEF CodeInv, EmailCodeTypeOK, CodeRows
<1>3. at \in AttemptCalls
  BY <1>2 DEF AttemptCalls
<1>4. /\ at.email = attempt[a].email /\ at.guess = attempt[a].guess
      /\ at.verify = attempt[a].verify /\ at.codeHash = h
      /\ at.phase \in {"ready", "wrong"}
      /\ at.phase = "ready" => at.guess = h
  BY <1>2 DEF AttemptCalls
<1>5. /\ code' \in CodeRows /\ code' # None
      /\ code'.codeHash = h /\ code'.email = code.email
      /\ code'.sentAt = code.sentAt /\ code'.sends = code.sends
      /\ code'.consumed = code.consumed /\ code'.status = code.status
      /\ code'.attempts = code.attempts + 1
  <2>1. code' \in CodeRows
    BY <1>1, <1>2 DEF CodeRows
  <2>. QED
    BY <1>1, <1>2, <2>1, NoneIsNoCode DEF CodeRows
<1>6. Stored' = Stored /\ Readable' = Readable
  BY <1>1 DEF Stored, Readable
<1>7. attempt'[a] = at
  BY <1>1 DEF CodeInv, EmailCodeTypeOK
<1>8. AttemptKnows(a)
  BY <1>1 DEF CodeInv, AttemptsKnow
<1>9. AttemptKnows(a)'
  BY <1>1, <1>4, <1>6, <1>7, <1>8 DEF AttemptKnows
<1>10. AttemptsKnow'
  BY <1>1, <1>3, <1>6, <1>9, OneAttempt
<1>11. compared[h] = code.attempts /\ compared[h] \in Nat /\ h \in Stored
  BY <1>1, <1>2 DEF CodeInv, EmailCodeTypeOK, RowCurrent
<1>12. /\ compared'[h] = compared[h] + 1
       /\ \A r \in Requests : r # h => compared'[r] = compared[r]
       /\ compared' \in [Requests -> Nat]
  BY <1>1, <1>2, <1>11 DEF CodeInv, EmailCodeTypeOK
<1>13. EmailCodeTypeOK'
  BY <1>1, <1>3, <1>5, <1>12 DEF CodeInv, EmailCodeTypeOK
<1>14. GuessesBounded'
  BY <1>1, <1>2, <1>11, <1>12, LimitsAreNumbers
     DEF CodeInv, GuessesBounded, CodeRows
<1>15. RowCurrent' /\ NotComparedBefore' /\ StatusOfCurrentCode'
  BY <1>1, <1>5, <1>6, <1>11, <1>12
     DEF CodeInv, RowCurrent, NotComparedBefore, StatusOfCurrentCode
<1>16. CodesCounted' /\ MailsPaced'
  BY <1>1, <1>5, <1>6 DEF CodeInv, CodesCounted, MailsPaced
<1>17. OpenUnverified' /\ SpentOnAcceptance' /\ VerifiedByItsMail'
  BY <1>1, <1>5, <1>6
     DEF CodeInv, OpenUnverified, SpentOnAcceptance, VerifiedByItsMail
<1>. QED
  BY <1>10, <1>13, <1>14, <1>15, <1>16, <1>17 DEF CodeInv

\* The transaction of accept.
LEMMA AcceptStep ==
  ASSUME CodeInv, NEW a \in Attempts, Accept(a)
  PROVE  CodeInv'
<1> DEFINE at == attempt[a]
           h == attempt[a].codeHash
<1>1. /\ at # None /\ at.phase = "ready"
      /\ link.status = "open"
      /\ link' = AcceptedBy(a)
      /\ UNCHANGED <<required, clock, request, attempt, compared>>
  BY DEF Accept, LinkTaken
<1>2. at \in AttemptCalls /\ AttemptKnows(a)
  BY <1>1 DEF CodeInv, EmailCodeTypeOK, AttemptsKnow
<1>3. Stored' = Stored /\ Readable' = Readable
  BY <1>1 DEF Stored, Readable
<1>4. link.verified = None
  BY <1>1 DEF CodeInv, OpenUnverified
<1>5. /\ link'.status = "accepted" /\ link'.email = at.email
      /\ link'.verified = h /\ link' \in Links
  BY <1>1, <1>2 DEF AcceptedBy, AttemptCalls, Links
<1>6. AttemptsKnow'
  BY <1>1, <1>3, KnownStays
<1>7. OpenUnverified' /\ GuessesBounded'
  BY <1>1, <1>5 DEF CodeInv, OpenUnverified, GuessesBounded
<1>8. CASE ~at.verify /\ code' = code
  <2>1. h = None /\ ~required
    BY <1>2, <1>8 DEF AttemptKnows
  <2>2. EmailCodeTypeOK'
    BY <1>1, <1>5, <1>8 DEF CodeInv, EmailCodeTypeOK
  <2>3. RowCurrent' /\ NotComparedBefore' /\ StatusOfCurrentCode'
    BY <1>1, <1>3, <1>8
       DEF CodeInv, RowCurrent, NotComparedBefore, StatusOfCurrentCode
  <2>4. CodesCounted' /\ MailsPaced'
    BY <1>1, <1>3, <1>8 DEF CodeInv, CodesCounted, MailsPaced
  <2>5. SpentOnAcceptance' /\ VerifiedByItsMail'
    BY <1>1, <1>4, <1>5, <1>8, <2>1
       DEF CodeInv, SpentOnAcceptance, VerifiedByItsMail
  <2>. QED
    BY <1>6, <1>7, <2>2, <2>3, <2>4, <2>5 DEF CodeInv
<1>9. CASE at.verify /\ Redeemable(h)
           /\ code' = [code EXCEPT !.consumed = TRUE]
  <2>1. code # None /\ code.codeHash = h /\ code \in CodeRows
    BY <1>9 DEF Redeemable, CodeInv, EmailCodeTypeOK
  <2>2. /\ code' \in CodeRows /\ code' # None
        /\ code'.codeHash = h /\ code'.email = code.email
        /\ code'.sentAt = code.sentAt /\ code'.sends = code.sends
        /\ code'.attempts = code.attempts /\ code'.status = code.status
        /\ code'.consumed = TRUE
    <3>1. code' \in CodeRows
      BY <1>9, <2>1 DEF CodeRows
    <3>. QED
      BY <1>9, <2>1, <3>1, NoneIsNoCode DEF CodeRows
  <2>3. h \in Requests /\ h # None
    BY <2>1, NoneIsNoCode DEF CodeRows
  <2>4. h \in Readable /\ request[h].email = at.email
    BY <1>1, <1>2, <1>9, <2>3 DEF AttemptKnows
  <2>5. EmailCodeTypeOK'
    BY <1>1, <1>5, <2>2 DEF CodeInv, EmailCodeTypeOK
  <2>6. RowCurrent' /\ NotComparedBefore' /\ StatusOfCurrentCode'
    BY <1>1, <1>3, <2>1, <2>2
       DEF CodeInv, RowCurrent, NotComparedBefore, StatusOfCurrentCode
  <2>7. CodesCounted' /\ MailsPaced'
    BY <1>1, <1>3, <2>1, <2>2 DEF CodeInv, CodesCounted, MailsPaced
  <2>8. SpentOnAcceptance' /\ VerifiedByItsMail'
    BY <1>1, <1>3, <1>5, <2>2, <2>3, <2>4
       DEF SpentOnAcceptance, VerifiedByItsMail
  <2>. QED
    BY <1>6, <1>7, <2>5, <2>6, <2>7, <2>8 DEF CodeInv
<1>. QED
  BY <1>8, <1>9 DEF Accept, Consumed

\* The link is withdrawn or the acceptance rejected: no code is touched.
LEMMA LinkStep ==
  ASSUME CodeInv, Withdraw \/ Reject
  PROVE  CodeInv'
<1>1. /\ \/ /\ link.status = "open"
            /\ link' = [link EXCEPT !.status = "withdrawn"]
         \/ /\ link.status = "accepted"
            /\ link' = [link EXCEPT !.status = "rejected"]
      /\ UNCHANGED <<required, clock, code, request, attempt, compared>>
  BY DEF Withdraw, Reject
<1>2. link \in Links
  BY DEF CodeInv, EmailCodeTypeOK
<1>3. /\ link' \in Links
      /\ link'.email = link.email /\ link'.verified = link.verified
      /\ \/ link'.status = "withdrawn"
         \/ link'.status = "rejected" /\ link.status = "accepted"
  BY <1>1, <1>2 DEF Links
<1>4. Stored' = Stored /\ Readable' = Readable
  BY <1>1 DEF Stored, Readable
<1>5. EmailCodeTypeOK'
  BY <1>1, <1>3 DEF CodeInv, EmailCodeTypeOK
<1>6. AttemptsKnow'
  BY <1>1, <1>4, KnownStays
<1>7. /\ RowCurrent' /\ NotComparedBefore' /\ StatusOfCurrentCode'
      /\ CodesCounted' /\ MailsPaced' /\ GuessesBounded'
  BY <1>1, <1>4
     DEF CodeInv, RowCurrent, NotComparedBefore, StatusOfCurrentCode,
         CodesCounted, MailsPaced, GuessesBounded
<1>8. OpenUnverified' /\ SpentOnAcceptance' /\ VerifiedByItsMail'
  BY <1>1, <1>3, <1>4
     DEF CodeInv, OpenUnverified, SpentOnAcceptance, VerifiedByItsMail
<1>. QED
  BY <1>5, <1>6, <1>7, <1>8 DEF CodeInv

\* The time passes: the properties do not depend on it.
LEMMA TickStep ==
  ASSUME CodeInv, Tick \/ UNCHANGED emailCodeVars
  PROVE  CodeInv'
<1>1. UNCHANGED <<required, code, link, request, attempt, compared>>
  BY DEF Tick, emailCodeVars
<1>2. clock' \in Nat
  BY DEF CodeInv, EmailCodeTypeOK, Tick, emailCodeVars
<1>3. Stored' = Stored /\ Readable' = Readable
  BY <1>1 DEF Stored, Readable
<1>4. EmailCodeTypeOK'
  BY <1>1, <1>2 DEF CodeInv, EmailCodeTypeOK
<1>5. AttemptsKnow'
  BY <1>1, <1>3, KnownStays
<1>. QED
  BY <1>1, <1>4, <1>5, CodesStay

\* Every step of every call keeps CodeInv.
THEOREM CodeStep == CodeInv /\ [EmailCodeNext]_emailCodeVars => CodeInv'
<1> SUFFICES ASSUME CodeInv, [EmailCodeNext]_emailCodeVars PROVE CodeInv'
  OBVIOUS
<1>1. CASE \E r \in Requests, e \in Emails : StartRequest(r, e)
  BY <1>1, StartRequestStep
<1>2. CASE \E r \in Requests : StoreCode(r)
  BY <1>2, StoreCodeStep
<1>3. CASE \E r \in Requests, answer \in Outcomes : Mail(r, answer)
  BY <1>3, MailStep
<1>4. CASE \E r \in Requests : RecordOutcome(r)
  BY <1>4, RecordOutcomeStep
<1>5. CASE \E a \in Attempts, e \in Emails, g \in Requests \cup {None},
              withCode \in BOOLEAN : StartAttempt(a, e, g, withCode)
  BY <1>5, StartAttemptStep
<1>6. CASE \E a \in Attempts : ReadCode(a)
  BY <1>6, ReadCodeStep
<1>7. CASE \E a \in Attempts : Compare(a)
  BY <1>7, CompareStep
<1>8. CASE \E a \in Attempts : Accept(a)
  BY <1>8, AcceptStep
<1>9. CASE Withdraw \/ Reject
  BY <1>9, LinkStep
<1>10. CASE Tick \/ UNCHANGED emailCodeVars
  BY <1>10, TickStep
<1>. QED
  BY <1>1, <1>2, <1>3, <1>4, <1>5, <1>6, <1>7, <1>8, <1>9, <1>10 DEF EmailCodeNext

\* CodeInv holds in every reachable state.
THEOREM CodeInvariant == EmailCodeSpec => []CodeInv
<1>1. EmailCodeInit => CodeInv
  BY CodeInit
<1>2. CodeInv /\ [EmailCodeNext]_emailCodeVars => CodeInv'
  BY CodeStep
<1>. QED
  BY <1>1, <1>2, PTL DEF EmailCodeSpec

\* The rows and the calls keep their types.
THEOREM CodeTypeCorrect == EmailCodeSpec => []EmailCodeTypeOK
<1>1. CodeInv => EmailCodeTypeOK
  BY DEF CodeInv
<1>. QED
  BY <1>1, CodeInvariant, PTL

\* Nobody gets more guesses at a code than allowed, however many calls of
\* accept read the row before any of them takes an attempt.
THEOREM GuessesAreBounded == EmailCodeSpec => []GuessesBounded
<1>1. CodeInv => GuessesBounded
  BY DEF CodeInv
<1>. QED
  BY <1>1, CodeInvariant, PTL

\* An acceptance marked as verified was made by a reader of the mail that
\* carried the last code, from the address it went to.
THEOREM VerifiedByTheMail == EmailCodeSpec => []VerifiedByItsMail
<1>1. CodeInv => VerifiedByItsMail
  BY DEF CodeInv
<1>. QED
  BY <1>1, CodeInvariant, PTL

\* A code is spent exactly on the acceptance it verified.
THEOREM CodeSpentOnAcceptance == EmailCodeSpec => []SpentOnAcceptance
<1>1. CodeInv => SpentOnAcceptance
  BY DEF CodeInv
<1>. QED
  BY <1>1, CodeInvariant, PTL

\* The status in the row is never that of a replaced code.
THEOREM StatusIsCurrent == EmailCodeSpec => []StatusOfCurrentCode
<1>1. CodeInv => StatusOfCurrentCode
  BY DEF CodeInv
<1>. QED
  BY <1>1, CodeInvariant, PTL

\* Codes are limited in number and made a pause apart.
THEOREM MailsArePaced == EmailCodeSpec => []MailsPaced
<1>1. CodeInv => MailsPaced
  BY DEF CodeInv
<1>. QED
  BY <1>1, CodeInvariant, PTL

-----------------------------------------------------------------------------
(* The notices: the inductive invariant.                                   *)

\* The mails a notice has cost so far, given its status.
Accounted(n) ==
  /\ notice[n] = None => delivered[n] = 0
  /\ Is(n, "PENDING") \/ Is(n, "FAILED") => delivered[n] <= doubts[n]
  /\ delivered[n] <= doubts[n] + 1
  /\ Is(n, "SMTP_ACCEPTED") => delivered[n] > 0
  /\ sending = n /\ ~left => delivered[n] <= doubts[n]
  /\ sending = n /\ left => delivered[n] > 0

\* The worker sends a row it has claimed, and knows what it can know.
WorkerSound ==
  /\ sending # None => Is(sending, "SENDING")
  /\ sending = None => outcome = None /\ ~left
  /\ outcome = "SMTP_ACCEPTED" => left
  /\ outcome = "FAILED" => ~left

OutboxInv ==
  /\ TypeOK
  /\ IsFiniteSet({n \in Notices : notice[n] # None})
  /\ WorkerSound
  /\ \A n \in Notices : Accounted(n)

\* A null column is told from every row and every outcome.
LEMMA NoneApart ==
  None \notin Notices /\ None \notin Rows /\ None \notin Outcomes
BY OutboxAssumption

-----------------------------------------------------------------------------

\* Initially nothing is queued and nothing was mailed.
THEOREM OutboxInit == Init => OutboxInv
<1> SUFFICES ASSUME Init PROVE OutboxInv
  OBVIOUS
<1>1. TypeOK
  BY DEF Init, Idle, TypeOK
<1>2. {n \in Notices : notice[n] # None} = {}
  BY DEF Init
<1>3. IsFiniteSet({n \in Notices : notice[n] # None})
  BY <1>2, FS_EmptySet
<1>4. WorkerSound
  BY NoneApart DEF Init, Idle, WorkerSound, Outcomes
<1>5. \A n \in Notices : Accounted(n)
  BY NoneApart DEF Init, Idle, Accounted, Is
<1>. QED
  BY <1>1, <1>3, <1>4, <1>5 DEF OutboxInv

\* One row gets another status, the others keep theirs.
LEMMA StatusSet ==
  ASSUME TypeOK, NEW n \in Notices, notice[n] # None, NEW s \in Statuses,
         notice' = [notice EXCEPT ![n].status = s]
  PROVE  /\ notice' \in [Notices -> Rows \cup {None}]
         /\ notice'[n] # None /\ notice'[n].status = s
         /\ \A m \in Notices : m # n => notice'[m] = notice[m]
         /\ {m \in Notices : notice'[m] # None} =
              {m \in Notices : notice[m] # None}
<1>1. notice[n] \in Rows
  BY DEF TypeOK
<1>2. [notice[n] EXCEPT !.status = s] \in Rows
  BY <1>1 DEF Rows
<1>3. notice' = [notice EXCEPT ![n] = [notice[n] EXCEPT !.status = s]]
  OBVIOUS
<1>4. /\ notice'[n] = [notice[n] EXCEPT !.status = s]
      /\ \A m \in Notices : m # n => notice'[m] = notice[m]
  BY <1>3 DEF TypeOK
<1>5. notice'[n] # None /\ notice'[n].status = s
  BY <1>1, <1>2, <1>4, NoneApart DEF Rows
<1>6. notice' \in [Notices -> Rows \cup {None}]
  BY <1>2, <1>3 DEF TypeOK
<1>7. \A m \in Notices : notice'[m] # None <=> notice[m] # None
  BY <1>4, <1>5
<1>. QED
  BY <1>4, <1>5, <1>6, <1>7

\* A notice is queued by the transaction that records its occasion.
LEMMA EnqueueStep ==
  ASSUME OutboxInv, NEW n \in Notices, NEW recipient \in BOOLEAN,
         Enqueue(n, recipient)
  PROVE  OutboxInv'
<1> DEFINE Queued == {m \in Notices : notice[m] # None}
           row == [status |-> IF recipient THEN "PENDING" ELSE "FAILED",
                   recipient |-> recipient, createdAt |-> Cardinality(Queued)]
<1>1. /\ notice[n] = None
      /\ notice' = [notice EXCEPT ![n] = row]
      /\ UNCHANGED <<configured, running, batch, sending, left, outcome,
                     delivered, doubts, stranded, retries, faults>>
  BY DEF Enqueue, worker
<1>2. Cardinality(Queued) \in Nat
  BY FS_CardinalityType DEF OutboxInv
<1>3. row \in Rows
  <2>1. row.status \in Statuses
    BY DEF Statuses, Outcomes
  <2>. QED
    BY <1>2, <2>1 DEF Rows
<1>4. row # None
  BY <1>3, NoneApart
<1>5. /\ notice'[n] = row
      /\ \A m \in Notices : m # n => notice'[m] = notice[m]
  BY <1>1 DEF OutboxInv, TypeOK
<1>6. TypeOK'
  BY <1>1, <1>3 DEF OutboxInv, TypeOK
<1>7. {m \in Notices : notice'[m] # None} = Queued \cup {n}
  BY <1>4, <1>5
<1>8. IsFiniteSet({m \in Notices : notice'[m] # None})
  BY <1>7, FS_AddElement DEF OutboxInv
<1>9. sending # n
  BY <1>1, NoneApart DEF OutboxInv, WorkerSound, Is
<1>10. WorkerSound'
  BY <1>1, <1>5, <1>9 DEF OutboxInv, TypeOK, WorkerSound, Is
<1>11. ASSUME NEW m \in Notices PROVE Accounted(m)'
  <2>1. CASE m = n
    <3>1. delivered[n] = 0 /\ doubts[n] \in Nat
      BY <1>1 DEF OutboxInv, TypeOK, Accounted
    <3>2. row.status # "SMTP_ACCEPTED"
      OBVIOUS
    <3>. QED
      BY <1>1, <1>4, <1>5, <1>9, <2>1, <3>1, <3>2 DEF Accounted, Is
  <2>2. CASE m # n
    BY <1>1, <1>5, <2>2 DEF OutboxInv, Accounted, Is
  <2>. QED
    BY <2>1, <2>2
<1>. QED
  BY <1>6, <1>8, <1>10, <1>11 DEF OutboxInv

\* A seller queues a notice again.
LEMMA RetryStep ==
  ASSUME OutboxInv, NEW n \in Notices, Retry(n)
  PROVE  OutboxInv'
<1>1. /\ Is(n, "FAILED") \/ Is(n, "UNKNOWN")
      /\ notice' = [notice EXCEPT ![n].status = "PENDING"]
      /\ doubts' = IF Is(n, "UNKNOWN") THEN [doubts EXCEPT ![n] = @ + 1]
                                       ELSE doubts
      /\ retries' = retries + 1
      /\ UNCHANGED <<configured, running, batch, sending, left, outcome,
                     delivered, stranded, faults>>
  BY DEF Retry, worker
<1>2. TypeOK /\ notice[n] # None /\ "PENDING" \in Statuses
  BY <1>1 DEF OutboxInv, Is, Statuses
<1>3. /\ notice' \in [Notices -> Rows \cup {None}]
      /\ notice'[n] # None /\ notice'[n].status = "PENDING"
      /\ \A m \in Notices : m # n => notice'[m] = notice[m]
      /\ {m \in Notices : notice'[m] # None} =
           {m \in Notices : notice[m] # None}
  BY <1>1, <1>2, StatusSet
<1>4. /\ doubts' \in [Notices -> Nat]
      /\ \A m \in Notices : m # n => doubts'[m] = doubts[m]
      /\ doubts'[n] = IF Is(n, "UNKNOWN") THEN doubts[n] + 1 ELSE doubts[n]
  BY <1>1, <1>2 DEF TypeOK
<1>5. TypeOK'
  BY <1>1, <1>2, <1>3, <1>4 DEF TypeOK
<1>6. sending # n
  BY <1>1, NoneApart DEF OutboxInv, WorkerSound, Is
<1>7. WorkerSound'
  BY <1>1, <1>2, <1>3, <1>6 DEF OutboxInv, TypeOK, WorkerSound, Is
<1>8. ASSUME NEW m \in Notices PROVE Accounted(m)'
  <2>1. CASE m = n
    <3>1. Accounted(n) /\ delivered[n] \in Nat /\ doubts[n] \in Nat
      BY DEF OutboxInv, TypeOK
    <3>2. delivered[n] <= doubts'[n]
      BY <1>1, <1>4, <3>1 DEF Accounted
    <3>3. doubts'[n] \in Nat
      BY <1>4
    <3>. QED
      BY <1>1, <1>3, <1>6, <2>1, <3>1, <3>2, <3>3 DEF Accounted, Is
  <2>2. CASE m # n
    BY <1>1, <1>3, <1>4, <2>2 DEF OutboxInv, Accounted, Is
  <2>. QED
    BY <2>1, <2>2
<1>9. IsFiniteSet({m \in Notices : notice'[m] # None})
  BY <1>3 DEF OutboxInv
<1>. QED
  BY <1>5, <1>7, <1>8, <1>9 DEF OutboxInv

\* The worker claims a row: a waiting row has no mail in doubt.
LEMMA ClaimStep ==
  ASSUME OutboxInv, NEW n \in Notices, Claim(n)
  PROVE  OutboxInv'
<1>1. /\ sending = None /\ Is(n, "PENDING")
      /\ notice' = [notice EXCEPT ![n].status = "SENDING"]
      /\ sending' = n
      /\ batch' = batch \ {n}
      /\ UNCHANGED <<configured, running, left, outcome, delivered, doubts,
                     stranded, retries, faults>>
  BY DEF Claim, IsNext
<1>2. TypeOK /\ notice[n] # None /\ "SENDING" \in Statuses
  BY <1>1 DEF OutboxInv, Is, Statuses
<1>3. /\ notice' \in [Notices -> Rows \cup {None}]
      /\ notice'[n] # None /\ notice'[n].status = "SENDING"
      /\ \A m \in Notices : m # n => notice'[m] = notice[m]
      /\ {m \in Notices : notice'[m] # None} =
           {m \in Notices : notice[m] # None}
  BY <1>1, <1>2, StatusSet
<1>4. TypeOK'
  BY <1>1, <1>2, <1>3 DEF TypeOK
<1>5. ~left /\ outcome = None
  BY <1>1 DEF OutboxInv, WorkerSound
<1>6. WorkerSound'
  BY <1>1, <1>3, <1>5, NoneApart DEF WorkerSound, Is, Outcomes
<1>7. ASSUME NEW m \in Notices PROVE Accounted(m)'
  <2>1. CASE m = n
    <3>1. delivered[n] <= doubts[n] /\ delivered[n] <= doubts[n] + 1
      BY <1>1 DEF OutboxInv, Accounted
    <3>. QED
      BY <1>1, <1>3, <1>5, <2>1, <3>1 DEF Accounted, Is
  <2>2. CASE m # n
    BY <1>1, <1>3, <2>2 DEF OutboxInv, Accounted, Is
  <2>. QED
    BY <2>1, <2>2
<1>8. IsFiniteSet({m \in Notices : notice'[m] # None})
  BY <1>3 DEF OutboxInv
<1>. QED
  BY <1>4, <1>6, <1>7, <1>8 DEF OutboxInv

\* The mail leaves, once.
LEMMA DeliverStep ==
  ASSUME OutboxInv, Deliver
  PROVE  OutboxInv'
<1> DEFINE n == sending
<1>1. /\ n \in Notices /\ outcome = None /\ ~left
      /\ left' = TRUE
      /\ delivered' = [delivered EXCEPT ![n] = @ + 1]
      /\ UNCHANGED <<notice, configured, running, batch, sending, outcome,
                     doubts, stranded, retries, faults>>
  BY DEF Deliver, OutboxInv, TypeOK
<1>2. /\ delivered' \in [Notices -> Nat]
      /\ delivered'[n] = delivered[n] + 1
      /\ \A m \in Notices : m # n => delivered'[m] = delivered[m]
      /\ delivered[n] \in Nat /\ doubts[n] \in Nat
  BY <1>1 DEF OutboxInv, TypeOK
<1>3. TypeOK'
  BY <1>1, <1>2 DEF OutboxInv, TypeOK
<1>4. WorkerSound'
  BY <1>1, NoneApart DEF OutboxInv, WorkerSound, Is, Outcomes
<1>5. Is(n, "SENDING")
  BY <1>1, NoneApart DEF OutboxInv, WorkerSound
<1>6. ASSUME NEW m \in Notices PROVE Accounted(m)'
  <2>1. CASE m = n
    <3>1. delivered[n] <= doubts[n]
      BY <1>1 DEF OutboxInv, Accounted
    <3>2. delivered'[n] <= doubts[n] + 1 /\ delivered'[n] > 0
      BY <1>2, <3>1
    <3>. QED
      BY <1>1, <1>5, <2>1, <3>2 DEF Accounted, Is
  <2>2. CASE m # n
    BY <1>1, <1>2, <2>2 DEF OutboxInv, Accounted, Is
  <2>. QED
    BY <2>1, <2>2
<1>. QED
  BY <1>1, <1>3, <1>4, <1>6 DEF OutboxInv

\* sendNotice ends; it only claims what it can know.
LEMMA AnswerStep ==
  ASSUME OutboxInv, NEW answer \in Outcomes, Answer(answer)
  PROVE  OutboxInv'
<1>1. /\ sending # None
      /\ answer = "SMTP_ACCEPTED" => left
      /\ answer = "FAILED" => ~left
      /\ outcome' = answer
      /\ UNCHANGED <<notice, configured, running, batch, sending, left,
                     delivered, doubts, stranded, retries, faults>>
  BY DEF Answer
<1>2. TypeOK'
  BY <1>1 DEF OutboxInv, TypeOK
<1>3. WorkerSound'
  BY <1>1 DEF OutboxInv, WorkerSound, Is
<1>4. \A m \in Notices : Accounted(m)'
  BY <1>1 DEF OutboxInv, Accounted, Is
<1>. QED
  BY <1>1, <1>2, <1>3, <1>4 DEF OutboxInv

\* The outcome becomes the status of the row.
LEMMA RecordStep ==
  ASSUME OutboxInv, Record
  PROVE  OutboxInv'
<1> DEFINE n == sending
<1>1. /\ outcome # None
      /\ notice' = [notice EXCEPT ![n].status = outcome]
      /\ sending' = None /\ left' = FALSE /\ outcome' = None
      /\ UNCHANGED <<configured, running, batch, delivered, doubts,
                     stranded, retries, faults>>
  BY DEF Record, Recorded
<1>2. n \in Notices /\ Is(n, "SENDING") /\ outcome \in Outcomes
  BY <1>1 DEF OutboxInv, TypeOK, WorkerSound
<1>3. TypeOK /\ notice[n] # None /\ outcome \in Statuses
  BY <1>2 DEF OutboxInv, Is, Statuses
<1>4. /\ notice' \in [Notices -> Rows \cup {None}]
      /\ notice'[n] # None /\ notice'[n].status = outcome
      /\ \A m \in Notices : m # n => notice'[m] = notice[m]
      /\ {m \in Notices : notice'[m] # None} =
           {m \in Notices : notice[m] # None}
  BY <1>1, <1>2, <1>3, StatusSet
<1>5. TypeOK'
  BY <1>1, <1>3, <1>4 DEF TypeOK
<1>6. WorkerSound'
  BY <1>1, NoneApart DEF WorkerSound, Outcomes
<1>7. ASSUME NEW m \in Notices PROVE Accounted(m)'
  <2>1. sending' # m
    BY <1>1, NoneApart
  <2>2. CASE m = n
    <3>1. /\ delivered[n] <= doubts[n] + 1
          /\ outcome = "FAILED" => delivered[n] <= doubts[n]
          /\ outcome = "SMTP_ACCEPTED" => delivered[n] > 0
      BY <1>2 DEF OutboxInv, WorkerSound, Accounted
    <3>2. outcome # "PENDING"
      BY <1>2 DEF Outcomes
    <3>. QED
      BY <1>1, <1>4, <2>1, <2>2, <3>1, <3>2 DEF Accounted, Is
  <2>3. CASE m # n
    BY <1>1, <1>4, <2>1, <2>3 DEF OutboxInv, Accounted, Is
  <2>. QED
    BY <2>2, <2>3
<1>8. IsFiniteSet({m \in Notices : notice'[m] # None})
  BY <1>4 DEF OutboxInv
<1>. QED
  BY <1>5, <1>6, <1>7, <1>8 DEF OutboxInv

\* A flush starts or ends, or a statement fails: no status changes.
LEMMA FlushStep ==
  ASSUME OutboxInv, StartFlush \/ EndFlush \/ StatementFails \/ UNCHANGED vars
  PROVE  OutboxInv'
<1>1. UNCHANGED <<notice, configured, delivered, doubts, retries>>
  BY DEF StartFlush, EndFlush, StatementFails, vars, worker
<1>2. \/ UNCHANGED <<sending, left, outcome>>
      \/ sending' = None /\ left' = FALSE /\ outcome' = None
  BY DEF StartFlush, EndFlush, StatementFails, Dropped, vars, worker
<1>3. TypeOK'
  <2>1. CASE StartFlush
    BY <2>1 DEF OutboxInv, TypeOK, StartFlush, Oldest, Pending
  <2>2. CASE EndFlush
    BY <2>2 DEF OutboxInv, TypeOK, EndFlush, Released
  <2>3. CASE StatementFails
    <3>1. stranded' \subseteq Notices
      BY <2>3 DEF OutboxInv, TypeOK, WorkerSound, StatementFails
    <3>2. UNCHANGED <<notice, configured, delivered, doubts, retries>>
          /\ running' = FALSE /\ batch' = {} /\ sending' = None
          /\ left' = FALSE /\ outcome' = None /\ faults' = faults + 1
      BY <2>3 DEF StatementFails, Dropped, Released
    <3>3. faults' \in Nat /\ batch' \subseteq Notices
      BY <3>2 DEF OutboxInv, TypeOK
    <3>. QED
      BY <3>1, <3>2, <3>3 DEF OutboxInv, TypeOK
  <2>4. CASE UNCHANGED vars
    BY <2>4 DEF OutboxInv, TypeOK, vars, worker
  <2>. QED
    BY <2>1, <2>2, <2>3, <2>4
<1>4. WorkerSound'
  BY <1>1, <1>2, NoneApart DEF OutboxInv, WorkerSound, Is, Outcomes
<1>5. ASSUME NEW m \in Notices PROVE Accounted(m)'
  <2>1. (sending' = sending /\ left' = left) \/ sending' # m
    BY <1>2, NoneApart
  <2>. QED
    BY <1>1, <2>1 DEF OutboxInv, Accounted, Is
<1>. QED
  BY <1>1, <1>3, <1>4, <1>5 DEF OutboxInv

\* A restart turns what was being sent into something unknown.
LEMMA RestartStep ==
  ASSUME OutboxInv, Restart
  PROVE  OutboxInv'
<1>1. /\ notice' = RecoveredAtBoot
      /\ configured' \in BOOLEAN /\ stranded' = {} /\ faults' = faults + 1
      /\ running' = FALSE /\ batch' = {} /\ sending' = None
      /\ left' = FALSE /\ outcome' = None
      /\ UNCHANGED <<delivered, doubts, retries>>
  BY DEF Restart, Dropped
<1>2. TypeOK
  BY DEF OutboxInv
<1>3. ASSUME NEW m \in Notices
      PROVE  /\ notice'[m] \in Rows \cup {None}
             /\ notice'[m] = None <=> notice[m] = None
             /\ Is(m, "SENDING") => notice'[m].status = "UNKNOWN"
             /\ ~Is(m, "SENDING") => notice'[m] = notice[m]
  <2>1. CASE Is(m, "SENDING")
    <3>1. notice[m] \in Rows /\ notice[m] # None
      BY <1>2, <2>1 DEF TypeOK, Is
    <3>2. notice'[m] = [notice[m] EXCEPT !.status = "UNKNOWN"]
      BY <1>1, <2>1 DEF RecoveredAtBoot
    <3>3. notice'[m] \in Rows /\ notice'[m].status = "UNKNOWN"
      BY <3>1, <3>2 DEF Rows, Statuses, Outcomes
    <3>. QED
      BY <2>1, <3>1, <3>3, NoneApart
  <2>2. CASE ~Is(m, "SENDING")
    BY <1>1, <1>2, <2>2 DEF RecoveredAtBoot, TypeOK
  <2>. QED
    BY <2>1, <2>2
<1>4. notice' \in [Notices -> Rows \cup {None}]
  BY <1>1, <1>3 DEF RecoveredAtBoot
<1>5. TypeOK'
  <2>1. faults' \in Nat /\ batch' \subseteq Notices
    BY <1>1, <1>2 DEF TypeOK
  <2>. QED
    BY <1>1, <1>2, <1>4, <2>1 DEF TypeOK
<1>6. {m \in Notices : notice'[m] # None} = {m \in Notices : notice[m] # None}
  BY <1>3
<1>7. WorkerSound'
  BY <1>1, NoneApart DEF WorkerSound, Outcomes
<1>8. ASSUME NEW m \in Notices PROVE Accounted(m)'
  <2>1. sending' # m
    BY <1>1, NoneApart
  <2>2. Accounted(m)
    BY DEF OutboxInv
  <2>3. CASE Is(m, "SENDING")
    BY <1>1, <1>3, <2>1, <2>2, <2>3 DEF Accounted, Is
  <2>4. CASE ~Is(m, "SENDING")
    BY <1>1, <1>3, <2>1, <2>2, <2>4 DEF Accounted, Is
  <2>. QED
    BY <2>3, <2>4
<1>. QED
  BY <1>5, <1>6, <1>7, <1>8 DEF OutboxInv

-----------------------------------------------------------------------------

\* Every step of the sellers, the worker and the process keeps OutboxInv.
THEOREM OutboxStep == OutboxInv /\ [Next]_vars => OutboxInv'
<1> SUFFICES ASSUME OutboxInv, [Next]_vars PROVE OutboxInv'
  OBVIOUS
<1>1. CASE \E n \in Notices, recipient \in BOOLEAN : Enqueue(n, recipient)
  BY <1>1, EnqueueStep
<1>2. CASE \E n \in Notices : Retry(n)
  BY <1>2, RetryStep
<1>3. CASE \E n \in Notices : Claim(n)
  BY <1>3, ClaimStep
<1>4. CASE Deliver
  BY <1>4, DeliverStep
<1>5. CASE \E answer \in Outcomes : Answer(answer)
  BY <1>5, AnswerStep
<1>6. CASE Record
  BY <1>6, RecordStep
<1>7. CASE StartFlush \/ EndFlush \/ StatementFails \/ UNCHANGED vars
  BY <1>7, FlushStep
<1>8. CASE Restart
  BY <1>8, RestartStep
<1>. QED
  BY <1>1, <1>2, <1>3, <1>4, <1>5, <1>6, <1>7, <1>8 DEF Next

\* OutboxInv holds in every reachable state.
THEOREM OutboxInvariant == Spec => []OutboxInv
<1>1. Init => OutboxInv
  BY OutboxInit
<1>2. OutboxInv /\ [Next]_vars => OutboxInv'
  BY OutboxStep
<1>. QED
  BY <1>1, <1>2, PTL DEF Spec

\* The rows and the worker keep their types.
THEOREM OutboxTypeCorrect == Spec => []TypeOK
<1>1. OutboxInv => TypeOK
  BY DEF OutboxInv
<1>. QED
  BY <1>1, OutboxInvariant, PTL

\* No notice is mailed twice, unless a seller sends again what is in doubt.
THEOREM NoticesAreDeliveredOnce == Spec => []DeliveredOnce
<1>1. OutboxInv => DeliveredOnce
  BY DEF OutboxInv, TypeOK, Accounted, DeliveredOnce
<1>. QED
  BY <1>1, OutboxInvariant, PTL

\* What the status of a notice says about its mail is true.
THEOREM StatusesAreTruthful == Spec => []StatusTruthful
<1>1. OutboxInv => StatusTruthful
  BY DEF OutboxInv, Accounted, StatusTruthful
<1>. QED
  BY <1>1, OutboxInvariant, PTL
-----------------------------------------------------------------------------
(* The refinement of MailOutbox.                                           *)

standingBar == [n \in Notices |-> Said(notice[n])]

\* When one row changes, so does what is said of that notice alone.
LEMMA OneStanding ==
  ASSUME NEW n \in Notices,
         \A m \in Notices : m # n => notice'[m] = notice[m]
  PROVE  standingBar' = [standingBar EXCEPT ![n] = Said(notice'[n])]
BY DEF standingBar

\* What is said of a notice, by the status of its row.
LEMMA SaidOfStatus ==
  ASSUME NEW row, row # None
  PROVE  /\ row.status = "PENDING" => Said(row) = "waiting"
         /\ row.status = "SENDING" => Said(row) = "under way"
         /\ row.status = "SMTP_ACCEPTED" => Said(row) = "accepted"
         /\ row.status = "FAILED" => Said(row) = "failed"
         /\ row.status = "UNKNOWN" => Said(row) = "unknown"
BY DEF Said

\* Nothing is said of a notice that is not there.
LEMMA SaidOfNone == Said(None) = "none"
BY DEF Said

\* An empty outbox is an empty outbox.
LEMMA InitRefines == Init => Outbox!OutboxInit
BY SaidOfNone DEF Init, Outbox!OutboxInit

\* A notice is queued.
LEMMA EnqueueRefines ==
  ASSUME OutboxInv, NEW n \in Notices, NEW recipient \in BOOLEAN,
         Enqueue(n, recipient), OutboxInv'
  PROVE  Outbox!Queue(n)
<1>1. /\ notice[n] = None
      /\ \A m \in Notices : m # n => notice'[m] = notice[m]
      /\ notice'[n].status = IF recipient THEN "PENDING" ELSE "FAILED"
      /\ delivered' = delivered /\ doubts' = doubts
  BY DEF Enqueue, OutboxInv, TypeOK
<1>2. notice'[n] # None
  <2> DEFINE row == [status |-> IF recipient THEN "PENDING" ELSE "FAILED",
                     recipient |-> recipient,
                     createdAt |-> Cardinality({m \in Notices : notice[m] # None})]
  <2>1. notice'[n] = row
    BY DEF Enqueue, OutboxInv, TypeOK
  <2>2. row.createdAt \in Nat
    BY FS_CardinalityType DEF OutboxInv
  <2>3. row \in Rows
    BY <2>2 DEF Rows, Statuses, Outcomes
  <2>. QED
    BY <2>1, <2>3, NoneApart
<1>3. Said(notice[n]) = "none" /\ Said(notice'[n]) \in {"waiting", "failed"}
  BY <1>1, <1>2, SaidOfNone, SaidOfStatus
<1>. QED
  BY <1>1, <1>3, OneStanding DEF Outbox!Queue, Outbox!Move, standingBar

\* A seller sends a notice again.
LEMMA RetryRefines ==
  ASSUME OutboxInv, NEW n \in Notices, Retry(n)
  PROVE  Outbox!Again(n) \/ Outbox!AgainInDoubt(n)
<1>1. TypeOK /\ notice[n] # None /\ "PENDING" \in Statuses
  BY DEF Retry, OutboxInv, Is, Statuses
<1>2. /\ notice'[n] # None /\ notice'[n].status = "PENDING"
      /\ \A m \in Notices : m # n => notice'[m] = notice[m]
  BY <1>1, StatusSet DEF Retry
<1>3. Said(notice'[n]) = "waiting"
  BY <1>2, SaidOfStatus DEF Is
<1>4. CASE Is(n, "FAILED")
  <2>1. Said(notice[n]) = "failed" /\ doubts' = doubts /\ delivered' = delivered
    BY <1>4, SaidOfStatus DEF Retry, Is
  <2>. QED
    BY <1>2, <1>3, <2>1, OneStanding DEF Outbox!Again, Outbox!Move, standingBar
<1>5. CASE Is(n, "UNKNOWN")
  <2>1. /\ Said(notice[n]) = "unknown" /\ delivered' = delivered
        /\ doubts' = [doubts EXCEPT ![n] = @ + 1]
    BY <1>5, SaidOfStatus DEF Retry, Is
  <2>. QED
    BY <1>2, <1>3, <2>1, OneStanding
       DEF Outbox!AgainInDoubt, Outbox!Move, standingBar
<1>. QED
  BY <1>4, <1>5 DEF Retry

\* The worker claims a row.
LEMMA ClaimRefines ==
  ASSUME OutboxInv, NEW n \in Notices, Claim(n)
  PROVE  Outbox!Try(n)
<1>1. TypeOK /\ notice[n] # None /\ "SENDING" \in Statuses
  BY DEF Claim, OutboxInv, Is, Statuses
<1>2. /\ notice'[n] # None /\ notice'[n].status = "SENDING"
      /\ \A m \in Notices : m # n => notice'[m] = notice[m]
  BY <1>1, StatusSet DEF Claim
<1>3. Said(notice[n]) = "waiting" /\ Said(notice'[n]) = "under way"
  BY <1>2, SaidOfStatus DEF Claim, Is
<1>. QED
  BY <1>2, <1>3, OneStanding DEF Claim, Outbox!Try, Outbox!Move, standingBar

\* The mail leaves for the first time, or after a doubt.
LEMMA DeliverRefines ==
  ASSUME OutboxInv, Deliver
  PROVE  Outbox!Leave(sending)
<1>1. sending \in Notices /\ Is(sending, "SENDING")
  BY DEF Deliver, OutboxInv, TypeOK, WorkerSound
<1>2. delivered[sending] <= doubts[sending]
  BY <1>1 DEF Deliver, OutboxInv, Accounted
<1>3. Said(notice[sending]) = "under way" /\ standingBar' = standingBar
  BY <1>1, SaidOfStatus DEF Deliver, Is, standingBar
<1>. QED
  BY <1>1, <1>2, <1>3 DEF Deliver, Outbox!Leave, standingBar

\* What became of the mail is recorded.
LEMMA RecordRefines ==
  ASSUME OutboxInv, Record
  PROVE  Outbox!Learn(sending) \/ Outbox!LoseTrack({sending})
<1> DEFINE n == sending
<1>1. /\ n \in Notices /\ Is(n, "SENDING") /\ TypeOK /\ Accounted(n)
      /\ outcome \in Outcomes
  BY DEF Record, OutboxInv, TypeOK, WorkerSound
<1>2. notice[n] # None /\ outcome \in Statuses
      /\ notice' = [notice EXCEPT ![n].status = outcome]
  BY <1>1 DEF Record, Recorded, Is, Statuses
<1>3. /\ notice'[n] # None /\ notice'[n].status = outcome
      /\ \A m \in Notices : m # n => notice'[m] = notice[m]
  BY <1>1, <1>2, StatusSet
<1>4. standingBar' = [standingBar EXCEPT ![n] = Said(notice'[n])]
  BY <1>1, <1>3, OneStanding
<1>5. Said(notice[n]) = "under way"
  BY <1>1, SaidOfStatus DEF Is
<1>6. delivered' = delivered /\ doubts' = doubts
  BY DEF Record
<1>7. CASE outcome = "SMTP_ACCEPTED"
  <2>1. Said(notice'[n]) = "accepted" /\ delivered[n] > 0
    BY <1>1, <1>3, <1>7, SaidOfStatus
       DEF Is, OutboxInv, WorkerSound, Accounted
  <2>. QED
    BY <1>1, <1>4, <1>5, <1>6, <2>1 DEF Outbox!Learn, Outbox!Move, standingBar
<1>8. CASE outcome = "FAILED"
  <2>1. Said(notice'[n]) = "failed" /\ delivered[n] <= doubts[n]
    BY <1>1, <1>3, <1>8, SaidOfStatus
       DEF Is, OutboxInv, WorkerSound, Accounted
  <2>. QED
    BY <1>1, <1>4, <1>5, <1>6, <2>1 DEF Outbox!Learn, Outbox!Move, standingBar
<1>9. CASE outcome = "UNKNOWN"
  <2>1. Said(notice'[n]) = "unknown"
    BY <1>1, <1>3, <1>9, SaidOfStatus DEF Is
  <2>. QED
    BY <1>1, <1>4, <1>5, <1>6, <2>1 DEF Outbox!LoseTrack, standingBar
<1>. QED
  BY <1>1, <1>7, <1>8, <1>9 DEF Outcomes

\* A restart does not know what became of the mails under way.
LEMMA RestartRefines ==
  ASSUME OutboxInv, Restart
  PROVE  Outbox!LoseTrack({n \in Notices : Is(n, "SENDING")})
<1> DEFINE lost == {n \in Notices : Is(n, "SENDING")}
<1>1. ASSUME NEW n \in Notices
      PROVE  Said(notice'[n]) = IF n \in lost THEN "unknown" ELSE Said(notice[n])
  <2>1. CASE n \in lost
    <3>1. TypeOK /\ notice[n] \in Rows
      BY <2>1 DEF OutboxInv, TypeOK, Is
    <3>2. notice'[n] = [notice[n] EXCEPT !.status = "UNKNOWN"]
      BY <2>1 DEF Restart, RecoveredAtBoot
    <3>3. notice'[n] \in Rows /\ notice'[n].status = "UNKNOWN"
      BY <3>1, <3>2 DEF Rows, Statuses, Outcomes
    <3>. QED
      BY <2>1, <3>3, NoneApart, SaidOfStatus DEF Is
  <2>2. CASE n \notin lost
    BY <2>2 DEF Restart, RecoveredAtBoot
  <2>. QED
    BY <2>1, <2>2
<1>2. \A n \in lost : Said(notice[n]) = "under way"
  BY SaidOfStatus DEF Is
<1>. QED
  BY <1>1, <1>2 DEF Restart, Outbox!LoseTrack

\* Every step is a step of the outbox, or none.
LEMMA StepRefines ==
  ASSUME OutboxInv, [Next]_vars
  PROVE  [Outbox!OutboxNext]_(Outbox!outboxVars)
<1>1. OutboxInv'
  BY OutboxStep
<1>2. CASE \E n \in Notices, recipient \in BOOLEAN : Enqueue(n, recipient)
  BY <1>1, <1>2, EnqueueRefines DEF Outbox!OutboxNext
<1>3. CASE \E n \in Notices : Retry(n)
  BY <1>3, RetryRefines DEF Outbox!OutboxNext
<1>4. CASE \E n \in Notices : Claim(n)
  BY <1>4, ClaimRefines DEF Outbox!OutboxNext
<1>5. CASE Deliver
  <2>1. sending \in Notices
    BY <1>5 DEF Deliver, OutboxInv, TypeOK
  <2>. QED
    BY <1>5, <2>1, DeliverRefines DEF Outbox!OutboxNext
<1>6. CASE Record
  <2>1. sending \in Notices
    BY <1>6 DEF Record, OutboxInv, TypeOK, WorkerSound
  <2>. QED
    BY <1>6, <2>1, RecordRefines DEF Outbox!OutboxNext
<1>7. CASE Restart
  <2>1. {n \in Notices : Is(n, "SENDING")} \in SUBSET Notices
    OBVIOUS
  <2>. QED
    BY <1>7, <2>1, RestartRefines DEF Outbox!OutboxNext
<1>8. CASE UNCHANGED <<notice, delivered, doubts>>
  BY <1>8 DEF Outbox!outboxVars
<1>. QED
  BY <1>2, <1>3, <1>4, <1>5, <1>6, <1>7, <1>8
     DEF Next, vars, StartFlush, Answer, EndFlush, StatementFails

\* The worker implements the outbox: only a person sends again what may have
\* been mailed, and what is said of a mail is true.
THEOREM CaseOutboxImplements == Spec => ImplementsMailOutbox
<1>1. Init => Outbox!OutboxInit
  BY InitRefines
<1>2. OutboxInv /\ [Next]_vars => [Outbox!OutboxNext]_(Outbox!outboxVars)
  BY StepRefines
<1>. QED
  BY <1>1, <1>2, OutboxInvariant, PTL
     DEF Spec, ImplementsMailOutbox, Outbox!MailOutboxSpec
=============================================================================
