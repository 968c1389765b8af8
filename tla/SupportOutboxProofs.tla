------------------------ MODULE SupportOutboxProofs -------------------------
(***************************************************************************)
(* The safety of the support's notices, for any number of processes,       *)
(* notices, retries and faults.  SupportInv is inductive.  What it adds to *)
(* the properties is why an answer that comes after its row was given up   *)
(* does no harm: a row SENDING or UNKNOWN is tried by nobody else, so the  *)
(* attempt that a worker holds is the row's last one, and no two workers   *)
(* hold the same row.                                                      *)
(***************************************************************************)
EXTENDS SupportOutbox, FiniteSetTheorems, TLAPS

\* What the attempts of a row and its mails must be, given its status.
RowSound(n) ==
  /\ notice[n] = None => history[n] = <<>> /\ delivered[n] = 0
  /\ notice[n] # None =>
       /\ Len(history[n]) = notice[n].attempts
       /\ \A k \in 1..notice[n].attempts :
            history[n][k] =
              IF k < notice[n].attempts \/ Is(n, "PENDING") \/ Is(n, "CANCELLED")
                THEN "FAILED" ELSE notice[n].status
       /\ delivered[n] <= 1
       /\ Is(n, "SMTP_ACCEPTED") => delivered[n] = 1
       /\ Is(n, "PENDING") \/ Is(n, "FAILED") \/ Is(n, "CANCELLED") =>
            delivered[n] = 0

\* A worker with a mail under way holds the last attempt of its row, knows
\* whether the mail left, and no other worker holds that row.
WorkerSound(w) ==
  /\ worker[w].sending = None => worker[w].outcome = None /\ ~worker[w].left
  /\ worker[w].sending # None =>
       /\ Is(worker[w].sending, "SENDING") \/ Is(worker[w].sending, "UNKNOWN")
       /\ worker[w].number = notice[worker[w].sending].attempts
       /\ worker[w].number > 0
       /\ delivered[worker[w].sending] = IF worker[w].left THEN 1 ELSE 0
       /\ \A v \in Workers : v # w => worker[v].sending # worker[w].sending
  /\ worker[w].outcome = "SMTP_ACCEPTED" => worker[w].left
  /\ worker[w].outcome = "FAILED" => ~worker[w].left

SupportInv ==
  /\ TypeOK
  /\ IsFiniteSet({n \in Notices : notice[n] # None})
  /\ \A n \in Notices : RowSound(n)
  /\ \A w \in Workers : WorkerSound(w)

\* A null column is told from every row, notice and outcome.
LEMMA NoneApart ==
  None \notin Notices /\ None \notin Rows /\ None \notin Outcomes
BY SupportAssumption

\* A step leaves the mail of a worker alone, or takes it from it.
SameMail(w) ==
  /\ worker'[w].sending = worker[w].sending
  /\ worker'[w].number = worker[w].number
  /\ worker'[w].left = worker[w].left
  /\ worker'[w].outcome = worker[w].outcome

Freed(w) ==
  worker'[w].sending = None /\ worker'[w].outcome = None /\ ~worker'[w].left

\* A step keeps what a worker with this row relies on.
RowHeld(n) ==
  /\ Is(n, "SENDING") \/ Is(n, "UNKNOWN") =>
       notice'[n] # None /\ notice'[n].status \in {"SENDING", "UNKNOWN"}
  /\ notice'[n].attempts = notice[n].attempts
  /\ delivered'[n] = delivered[n]

-----------------------------------------------------------------------------

\* Initially there is no notice and no worker does anything.
THEOREM SupportInit == Init => SupportInv
<1> SUFFICES ASSUME Init PROVE SupportInv
  OBVIOUS
<1>1. TypeOK
  <2>1. <<>> \in Seq(Outcomes \cup {"SENDING"})
    OBVIOUS
  <2>2. Idle \in WorkerStates
    BY DEF Idle, WorkerStates
  <2>. QED
    BY <2>1, <2>2 DEF Init, TypeOK
<1>2. IsFiniteSet({n \in Notices : notice[n] # None})
  <2>1. {n \in Notices : notice[n] # None} = {}
    BY DEF Init
  <2>. QED
    BY <2>1, FS_EmptySet
<1>3. \A n \in Notices : RowSound(n)
  BY DEF Init, RowSound
<1>4. \A w \in Workers : WorkerSound(w)
  BY NoneApart DEF Init, Idle, WorkerSound, Outcomes
<1>. QED
  BY <1>1, <1>2, <1>3, <1>4 DEF SupportInv

\* A row that a step does not touch stays sound.
LEMMA RowKept ==
  ASSUME NEW n \in Notices, RowSound(n),
         notice'[n] = notice[n], history'[n] = history[n],
         delivered'[n] = delivered[n]
  PROVE  RowSound(n)'
BY DEF RowSound, Is

\* A worker whose mail is left alone, or taken from it, stays sound.
LEMMA WorkerKept ==
  ASSUME SupportInv, NEW w \in Workers, SameMail(w) \/ Freed(w),
         SameMail(w) /\ worker[w].sending # None =>
           RowHeld(worker[w].sending),
         \A v \in Workers : v # w =>
           \/ worker'[v].sending = worker[v].sending
           \/ worker'[v].sending # worker[w].sending
  PROVE  WorkerSound(w)'
<1>1. WorkerSound(w)
  BY DEF SupportInv
<1>2. CASE Freed(w)
  BY <1>2, NoneApart DEF Freed, WorkerSound, Outcomes
<1>3. CASE SameMail(w) /\ worker[w].sending = None
  BY <1>1, <1>3 DEF SameMail, WorkerSound
<1>4. CASE SameMail(w) /\ worker[w].sending # None
  <2> DEFINE n == worker[w].sending
  <2>1. (Is(n, "SENDING") \/ Is(n, "UNKNOWN"))'
    BY <1>1, <1>4 DEF RowHeld, WorkerSound, SameMail, Is
  <2>2. notice'[n].attempts = notice[n].attempts /\ delivered'[n] = delivered[n]
    BY <1>4 DEF RowHeld
  <2>3. \A v \in Workers : v # w => worker'[v].sending # n
    BY <1>1, <1>4 DEF WorkerSound
  <2>. QED
    BY <1>1, <1>4, <2>1, <2>2, <2>3 DEF WorkerSound, SameMail
<1>. QED
  BY <1>2, <1>3, <1>4

\* One row gets another status and keeps its number of attempts.
LEMMA StatusSet ==
  ASSUME TypeOK, NEW n \in Notices, notice[n] # None, NEW s \in Statuses,
         notice' = [notice EXCEPT ![n].status = s]
  PROVE  /\ notice' \in [Notices -> Rows \cup {None}]
         /\ notice'[n] # None /\ notice'[n].status = s
         /\ notice'[n].attempts = notice[n].attempts
         /\ notice[n].attempts \in Nat
         /\ \A m \in Notices : m # n => notice'[m] = notice[m]
         /\ {m \in Notices : notice'[m] # None} =
              {m \in Notices : notice[m] # None}
<1>1. notice[n] \in Rows
  BY DEF TypeOK
<1>2. [notice[n] EXCEPT !.status = s] \in Rows
  BY <1>1 DEF Rows
<1>3. notice' = [notice EXCEPT ![n] = [notice[n] EXCEPT !.status = s]]
  OBVIOUS
<1>4. /\ notice'[n] = [notice[n] EXCEPT !.status = s]
      /\ \A m \in Notices : m # n => notice'[m] = notice[m]
  BY <1>3 DEF TypeOK
<1>5. /\ notice'[n] # None /\ notice'[n].status = s
      /\ notice'[n].attempts = notice[n].attempts
      /\ notice[n].attempts \in Nat
  BY <1>1, <1>2, <1>4, NoneApart DEF Rows
<1>6. notice' \in [Notices -> Rows \cup {None}]
  BY <1>2, <1>3 DEF TypeOK
<1>7. \A m \in Notices : notice'[m] # None <=> notice[m] # None
  BY <1>4, <1>5
<1>. QED
  BY <1>4, <1>5, <1>6, <1>7

-----------------------------------------------------------------------------

\* A notice is queued, or has failed for want of an address.
LEMMA EnqueueStep ==
  ASSUME SupportInv, NEW n \in Notices, NEW address \in BOOLEAN,
         Enqueue(n, address)
  PROVE  /\ SupportInv'
         /\ notice'[n] # None
         /\ notice'[n].status = IF address THEN "PENDING" ELSE "FAILED"
         /\ \A m \in Notices : m # n => notice'[m] = notice[m]
<1> DEFINE Queued == {m \in Notices : notice[m] # None}
           row == [status |-> IF address THEN "PENDING" ELSE "FAILED",
                   attempts |-> 0, stale |-> FALSE,
                   createdAt |-> Cardinality(Queued)]
<1>1. /\ notice[n] = None
      /\ notice' = [notice EXCEPT ![n] = row]
      /\ UNCHANGED <<history, configured, worker, delivered, retries, faults>>
  BY DEF Enqueue
<1>2. row \in Rows
  <2>1. Cardinality(Queued) \in Nat
    BY FS_CardinalityType DEF SupportInv
  <2>2. row.status \in Statuses
    BY DEF Statuses, Outcomes
  <2>. QED
    BY <2>1, <2>2 DEF Rows
<1>3. row # None
  BY <1>2, NoneApart
<1>4. /\ notice'[n] = row
      /\ \A m \in Notices : m # n => notice'[m] = notice[m]
  BY <1>1 DEF SupportInv, TypeOK
<1>5. TypeOK'
  BY <1>1, <1>2 DEF SupportInv, TypeOK
<1>6. IsFiniteSet({m \in Notices : notice'[m] # None})
  <2>1. {m \in Notices : notice'[m] # None} = Queued \cup {n}
    BY <1>3, <1>4
  <2>. QED
    BY <2>1, FS_AddElement DEF SupportInv
<1>7. ASSUME NEW m \in Notices PROVE RowSound(m)'
  <2>1. RowSound(m)
    BY DEF SupportInv
  <2>2. CASE m = n
    <3>1. Len(history[n]) = 0 /\ delivered[n] = 0
      BY <1>1, <2>1, <2>2 DEF RowSound
    <3>. HIDE DEF row
    <3>2. row.attempts = 0 /\ row.status \in {"PENDING", "FAILED"}
      BY DEF row
    <3>3. 1..0 = {}
      OBVIOUS
    <3>. QED
      BY <1>1, <1>3, <1>4, <2>2, <3>1, <3>2, <3>3 DEF RowSound, Is
  <2>3. CASE m # n
    BY <1>1, <1>4, <2>1, <2>3, RowKept
  <2>. QED
    BY <2>2, <2>3
<1>8. ASSUME NEW w \in Workers PROVE WorkerSound(w)'
  <2>1. SameMail(w)
    BY <1>1 DEF SameMail
  <2>2. WorkerSound(w)
    BY DEF SupportInv
  <2>3. worker[w].sending # None =>
          worker[w].sending \in Notices /\ worker[w].sending # n
    BY <1>1, <2>2 DEF WorkerSound, Is, SupportInv, TypeOK, WorkerStates
  <2>4. worker[w].sending # None => RowHeld(worker[w].sending)
    BY <1>1, <1>4, <2>3 DEF RowHeld, Is
  <2>. QED
    BY <1>1, <2>1, <2>4, WorkerKept
<1>. QED
  BY <1>3, <1>4, <1>5, <1>6, <1>7, <1>8 DEF SupportInv

\* A row that waits or has failed is held by no worker.
LEMMA NotHeld ==
  ASSUME SupportInv, NEW n \in Notices, Is(n, "PENDING") \/ Is(n, "FAILED"),
         NEW w \in Workers
  PROVE  worker[w].sending # n
<1>1. SUFFICES ASSUME worker[w].sending = n PROVE FALSE
  OBVIOUS
<1>2. WorkerSound(w) /\ n # None
  BY NoneApart DEF SupportInv
<1>. QED
  BY <1>1, <1>2 DEF WorkerSound, Is

\* A row held by no worker gets a status that fits its attempts.
LEMMA FreeRowMoves ==
  ASSUME SupportInv, NEW n \in Notices, Is(n, "PENDING") \/ Is(n, "FAILED"),
         NEW s \in {"PENDING", "CANCELLED"},
         notice' = [notice EXCEPT ![n].status = s],
         UNCHANGED <<history, delivered>>,
         \A w \in Workers : SameMail(w),
         (worker \in [Workers -> WorkerStates])',
         (configured \in [Workers -> BOOLEAN])',
         (retries \in Nat)', (faults \in Nat)'
  PROVE  /\ SupportInv'
         /\ notice'[n] # None /\ notice'[n].status = s
         /\ \A m \in Notices : m # n => notice'[m] = notice[m]
<1>1. TypeOK /\ notice[n] # None /\ s \in Statuses /\ RowSound(n)
  BY DEF SupportInv, Is, Statuses
<1>2. /\ notice' \in [Notices -> Rows \cup {None}]
      /\ notice'[n] # None /\ notice'[n].status = s
      /\ notice'[n].attempts = notice[n].attempts
      /\ notice[n].attempts \in Nat
      /\ \A m \in Notices : m # n => notice'[m] = notice[m]
      /\ {m \in Notices : notice'[m] # None} =
           {m \in Notices : notice[m] # None}
  BY <1>1, StatusSet
<1>3. TypeOK'
  BY <1>1, <1>2 DEF TypeOK
<1>4. ASSUME NEW m \in Notices PROVE RowSound(m)'
  <2>1. RowSound(m)
    BY DEF SupportInv
  <2>2. CASE m = n
    <3>1. \A k \in 1..notice[n].attempts : history[n][k] = "FAILED"
      BY <1>1 DEF RowSound, Is
    <3>2. Len(history[n]) = notice[n].attempts /\ delivered[n] = 0
      BY <1>1 DEF RowSound, Is
    <3>. QED
      BY <1>2, <2>2, <3>1, <3>2 DEF RowSound, Is
  <2>3. CASE m # n
    BY <1>2, <2>1, <2>3, RowKept
  <2>. QED
    BY <2>2, <2>3
<1>5. ASSUME NEW w \in Workers PROVE WorkerSound(w)'
  <2>1. worker[w].sending # n
    BY NotHeld
  <2>2. worker[w].sending # None =>
          worker[w].sending \in Notices /\ RowHeld(worker[w].sending)
    <3> DEFINE m == worker[w].sending
    <3>1. SUFFICES ASSUME m # None PROVE m \in Notices /\ RowHeld(m)
      OBVIOUS
    <3>2. m \in Notices
      BY <1>1, <3>1 DEF TypeOK, WorkerStates
    <3>3. notice'[m] = notice[m] /\ delivered'[m] = delivered[m]
      BY <1>2, <2>1, <3>2
    <3>. QED
      BY <3>2, <3>3 DEF RowHeld, Is
  <2>3. \A v \in Workers : worker'[v].sending = worker[v].sending
    BY DEF SameMail
  <2>4. SameMail(w)
    OBVIOUS
  <2>. QED
    BY <2>2, <2>3, <2>4, WorkerKept
<1>. QED
  BY <1>2, <1>3, <1>4, <1>5 DEF SupportInv

\* A seller has a notice sent again.
LEMMA RetryStep ==
  ASSUME SupportInv, NEW n \in Notices, Retry(n)
  PROVE  /\ SupportInv'
         /\ notice'[n] # None /\ notice'[n].status = "PENDING"
         /\ \A m \in Notices : m # n => notice'[m] = notice[m]
<1>1. /\ Is(n, "FAILED")
      /\ notice' = [notice EXCEPT ![n].status = "PENDING"]
      /\ retries' = retries + 1
      /\ UNCHANGED <<history, configured, worker, delivered, faults>>
  BY DEF Retry, Retriable
<1>2. \A w \in Workers : SameMail(w)
  BY <1>1 DEF SameMail
<1>3. /\ (worker \in [Workers -> WorkerStates])'
      /\ (configured \in [Workers -> BOOLEAN])'
      /\ (retries \in Nat)' /\ (faults \in Nat)'
  BY <1>1 DEF SupportInv, TypeOK
<1>. QED
  BY <1>1, <1>2, <1>3, FreeRowMoves

\* A worker finds that there is no reader for a notice any more.
LEMMA CancelStep ==
  ASSUME SupportInv, NEW w \in Workers, NEW n \in Notices, Cancel(w, n)
  PROVE  /\ SupportInv'
         /\ notice'[n] # None /\ notice'[n].status = "CANCELLED"
         /\ \A m \in Notices : m # n => notice'[m] = notice[m]
<1>1. /\ Is(n, "PENDING")
      /\ notice' = [notice EXCEPT ![n].status = "CANCELLED"]
      /\ worker' = [worker EXCEPT ![w].batch = @ \ {n}]
      /\ UNCHANGED <<history, configured, delivered, retries, faults>>
  BY DEF Cancel, Claimable
<1>2. \A v \in Workers : SameMail(v)
  BY <1>1 DEF SameMail, SupportInv, TypeOK, WorkerStates
<1>3. /\ (worker \in [Workers -> WorkerStates])'
      /\ (configured \in [Workers -> BOOLEAN])'
      /\ (retries \in Nat)' /\ (faults \in Nat)'
  <2>1. worker \in [Workers -> WorkerStates] /\ worker[w] \in WorkerStates
    BY DEF SupportInv, TypeOK
  <2>2. [worker[w] EXCEPT !.batch = @ \ {n}] \in WorkerStates
    BY <2>1 DEF WorkerStates
  <2>3. (worker \in [Workers -> WorkerStates])'
    BY <1>1, <2>1, <2>2
  <2>. QED
    BY <1>1, <2>3 DEF SupportInv, TypeOK
<1>. QED
  BY <1>1, <1>2, <1>3, FreeRowMoves

\* Time passes: only the age of the row changes.
LEMMA AgeStep ==
  ASSUME SupportInv, NEW n \in Notices, Age(n)
  PROVE  /\ SupportInv'
         /\ notice'[n] # None /\ notice'[n].status = notice[n].status
         /\ \A m \in Notices : m # n => notice'[m] = notice[m]
<1>1. /\ Is(n, "SENDING")
      /\ notice' = [notice EXCEPT ![n].stale = TRUE]
      /\ UNCHANGED <<history, configured, worker, delivered, retries, faults>>
  BY DEF Age
<1>2. TypeOK /\ notice[n] # None /\ notice[n] \in Rows /\ RowSound(n)
  BY <1>1 DEF SupportInv, TypeOK, Is
<1>3. /\ notice'[n] = [notice[n] EXCEPT !.stale = TRUE]
      /\ \A m \in Notices : m # n => notice'[m] = notice[m]
  BY <1>1, <1>2 DEF TypeOK
<1>4. /\ notice'[n] \in Rows /\ notice'[n] # None
      /\ notice'[n].status = notice[n].status
      /\ notice'[n].attempts = notice[n].attempts
  BY <1>2, <1>3, NoneApart DEF Rows
<1>5. TypeOK'
  BY <1>1, <1>2, <1>4 DEF TypeOK
<1>6. IsFiniteSet({m \in Notices : notice'[m] # None})
  <2>1. {m \in Notices : notice'[m] # None} = {m \in Notices : notice[m] # None}
    BY <1>2, <1>3, <1>4
  <2>. QED
    BY <2>1 DEF SupportInv
<1>7. ASSUME NEW m \in Notices PROVE RowSound(m)'
  <2>1. RowSound(m)
    BY DEF SupportInv
  <2>2. CASE m = n
    BY <1>1, <1>2, <1>4, <2>2 DEF RowSound, Is
  <2>3. CASE m # n
    BY <1>1, <1>3, <2>1, <2>3, RowKept
  <2>. QED
    BY <2>2, <2>3
<1>8. ASSUME NEW w \in Workers PROVE WorkerSound(w)'
  <2>1. SameMail(w)
    BY <1>1 DEF SameMail
  <2>2. worker[w].sending # None =>
          worker[w].sending \in Notices /\ RowHeld(worker[w].sending)
    BY <1>1, <1>2, <1>3, <1>4 DEF RowHeld, Is, TypeOK, WorkerStates
  <2>. QED
    BY <1>1, <2>1, <2>2, WorkerKept
<1>. QED
  BY <1>3, <1>4, <1>5, <1>6, <1>7, <1>8 DEF SupportInv

\* What a worker holds: the last attempt of a row that nobody else tries.
LEMMA Holding ==
  ASSUME SupportInv, NEW w \in Workers, worker[w].sending # None
  PROVE  /\ worker[w].sending \in Notices
         /\ notice[worker[w].sending] \in Rows
         /\ notice[worker[w].sending] # None
         /\ Awaited(worker[w].sending, worker[w].number)
         /\ worker[w].number \in 1..notice[worker[w].sending].attempts
<1> DEFINE n == worker[w].sending
<1>1. WorkerSound(w) /\ TypeOK
  BY DEF SupportInv
<1>2. n \in Notices
  BY <1>1 DEF TypeOK, WorkerStates
<1>3. Is(n, "SENDING") \/ Is(n, "UNKNOWN")
  BY <1>1 DEF WorkerSound
<1>4. notice[n] # None /\ notice[n] \in Rows
  BY <1>1, <1>2, <1>3 DEF Is, TypeOK
<1>5. notice[n].attempts \in Nat
  BY <1>4 DEF Rows
<1>6. worker[w].number = notice[n].attempts /\ worker[w].number > 0
  BY <1>1 DEF WorkerSound
<1>. QED
  BY <1>2, <1>3, <1>4, <1>5, <1>6 DEF Awaited

\* A worker claims a row and opens its next attempt.
LEMMA ClaimStep ==
  ASSUME SupportInv, NEW w \in Workers, NEW n \in Notices, Claim(w, n)
  PROVE  /\ SupportInv'
         /\ notice'[n] # None /\ notice'[n].status = "SENDING"
         /\ \A m \in Notices : m # n => notice'[m] = notice[m]
<1> DEFINE row == [notice[n] EXCEPT !.status = "SENDING", !.stale = FALSE,
                                    !.attempts = notice[n].attempts + 1]
           claimed == [worker[w] EXCEPT !.batch = worker[w].batch \ {n},
                         !.sending = n, !.number = notice[n].attempts + 1]
<1>1. /\ Is(n, "PENDING") /\ worker[w].sending = None
      /\ notice' = [notice EXCEPT ![n] = row]
      /\ history' = [history EXCEPT ![n] = Append(history[n], "SENDING")]
      /\ worker' = [worker EXCEPT ![w] = claimed]
      /\ UNCHANGED <<configured, delivered, retries, faults>>
  BY DEF Claim, IsNext, Claimable
<1>2. /\ TypeOK /\ notice[n] # None /\ notice[n] \in Rows /\ RowSound(n)
      /\ worker[w] \in WorkerStates /\ WorkerSound(w)
  BY <1>1 DEF SupportInv, TypeOK, Is
<1>3. notice[n].attempts \in Nat /\ notice[n].attempts + 1 \in Nat
  BY <1>2 DEF Rows
<1>4. /\ row \in Rows /\ row # None
      /\ row.status = "SENDING" /\ row.attempts = notice[n].attempts + 1
  <2>1. "SENDING" \in Statuses
    BY DEF Statuses
  <2>2. row \in Rows
    BY <1>2, <1>3, <2>1 DEF Rows
  <2>. QED
    BY <1>2, <2>2, NoneApart DEF Rows
<1>5. /\ claimed \in WorkerStates
      /\ claimed.sending = n /\ claimed.number = notice[n].attempts + 1
      /\ claimed.left = worker[w].left /\ claimed.outcome = worker[w].outcome
  BY <1>2, <1>3 DEF WorkerStates
<1> HIDE DEF row, claimed
<1>6. /\ notice'[n] = row
      /\ \A m \in Notices : m # n => notice'[m] = notice[m]
      /\ worker'[w] = claimed
      /\ \A v \in Workers : v # w => worker'[v] = worker[v]
      /\ history'[n] = Append(history[n], "SENDING")
      /\ \A m \in Notices : m # n => history'[m] = history[m]
  BY <1>1, <1>2 DEF TypeOK
<1>7. TypeOK'
  <2>1. Append(history[n], "SENDING") \in Seq(Outcomes \cup {"SENDING"})
    BY <1>2 DEF TypeOK
  <2>2. history' \in [Notices -> Seq(Outcomes \cup {"SENDING"})]
    BY <1>1, <1>2, <2>1 DEF TypeOK
  <2>3. notice' \in [Notices -> Rows \cup {None}]
    BY <1>1, <1>2, <1>4 DEF TypeOK
  <2>4. worker' \in [Workers -> WorkerStates]
    BY <1>1, <1>2, <1>5 DEF TypeOK
  <2>. QED
    BY <1>1, <1>2, <2>2, <2>3, <2>4 DEF TypeOK
<1>8. IsFiniteSet({m \in Notices : notice'[m] # None})
  <2>1. {m \in Notices : notice'[m] # None} = {m \in Notices : notice[m] # None}
    BY <1>2, <1>4, <1>6
  <2>. QED
    BY <2>1 DEF SupportInv
<1>9. delivered[n] = 0
  BY <1>1, <1>2 DEF RowSound
<1>10. ASSUME NEW m \in Notices PROVE RowSound(m)'
  <2>1. RowSound(m)
    BY DEF SupportInv
  <2>2. CASE m = n
    <3>1. /\ Len(history[n]) = notice[n].attempts
          /\ \A k \in 1..notice[n].attempts : history[n][k] = "FAILED"
      BY <1>1, <1>2 DEF RowSound, Is
    <3>2. history[n] \in Seq(Outcomes \cup {"SENDING"})
      BY <1>2 DEF TypeOK
    <3>3. Len(history'[n]) = notice[n].attempts + 1
      BY <1>6, <3>1, <3>2
    <3>4. /\ \A k \in 1..notice[n].attempts : history'[n][k] = "FAILED"
          /\ history'[n][notice[n].attempts + 1] = "SENDING"
      BY <1>3, <1>6, <3>1, <3>2
    <3>5. \A k \in 1..(notice[n].attempts + 1) :
            history'[n][k] = IF k < notice[n].attempts + 1 THEN "FAILED"
                                                           ELSE "SENDING"
      BY <1>3, <3>4
    <3>. QED
      BY <1>1, <1>4, <1>6, <1>9, <2>2, <3>3, <3>5 DEF RowSound, Is
  <2>3. CASE m # n
    BY <1>1, <1>6, <2>1, <2>3, RowKept
  <2>. QED
    BY <2>2, <2>3
<1>11. \A v \in Workers : worker[v].sending # n
  BY <1>1, NotHeld
<1>12. ASSUME NEW v \in Workers PROVE WorkerSound(v)'
  <2>1. CASE v = w
    <3>1. worker[w].outcome = None /\ ~worker[w].left
      BY <1>1, <1>2 DEF WorkerSound
    <3>2. \A u \in Workers : u # w => worker'[u].sending # n
      BY <1>6, <1>11
    <3>3. notice[n].attempts + 1 > 0
      BY <1>3
    <3>4. Is(n, "SENDING")'
      BY <1>4, <1>6 DEF Is
    <3>. QED
      BY <1>1, <1>4, <1>5, <1>6, <1>9, <2>1, <3>1, <3>2, <3>3, <3>4, NoneApart
         DEF WorkerSound, Outcomes
  <2>2. CASE v # w
    <3>1. SameMail(v)
      BY <1>6, <2>2 DEF SameMail
    <3>2. worker[v].sending # None => RowHeld(worker[v].sending)
      BY <1>1, <1>6, <1>11, Holding DEF RowHeld, Is
    <3>3. \A u \in Workers : u # v =>
            \/ worker'[u].sending = worker[u].sending
            \/ worker'[u].sending # worker[v].sending
      BY <1>5, <1>6, <1>11
    <3>. QED
      BY <3>1, <3>2, <3>3, WorkerKept
  <2>. QED
    BY <2>1, <2>2
<1>. QED
  BY <1>4, <1>6, <1>7, <1>8, <1>10, <1>12 DEF SupportInv

\* The SMTP server takes a mail, for the first time.
LEMMA DeliverStep ==
  ASSUME SupportInv, NEW w \in Workers, Deliver(w)
  PROVE  SupportInv'
<1> DEFINE n == worker[w].sending
           sent == [worker[w] EXCEPT !.left = TRUE]
<1>1. /\ n # None /\ worker[w].outcome = None /\ ~worker[w].left
      /\ worker' = [worker EXCEPT ![w] = sent]
      /\ delivered' = [delivered EXCEPT ![n] = delivered[n] + 1]
      /\ UNCHANGED <<notice, history, configured, retries, faults>>
  BY DEF Deliver
<1>2. /\ n \in Notices /\ notice[n] # None /\ WorkerSound(w) /\ TypeOK
      /\ worker[w] \in WorkerStates
  BY <1>1, Holding DEF SupportInv, TypeOK
<1>3. /\ Is(n, "SENDING") \/ Is(n, "UNKNOWN")
      /\ delivered[n] = 0
      /\ \A v \in Workers : v # w => worker[v].sending # n
  BY <1>1, <1>2 DEF WorkerSound
<1>4. /\ worker'[w] = sent
      /\ \A v \in Workers : v # w => worker'[v] = worker[v]
      /\ delivered'[n] = 1
      /\ \A m \in Notices : m # n => delivered'[m] = delivered[m]
  BY <1>1, <1>2, <1>3 DEF TypeOK
<1>5. /\ sent \in WorkerStates /\ sent.left = TRUE /\ sent.sending = n
      /\ sent.number = worker[w].number /\ sent.outcome = None
  BY <1>1, <1>2 DEF WorkerStates
<1>6. TypeOK'
  BY <1>1, <1>2, <1>3, <1>5 DEF TypeOK
<1>7. ASSUME NEW m \in Notices PROVE RowSound(m)'
  <2>1. RowSound(m)
    BY DEF SupportInv
  <2>2. CASE m = n
    BY <1>1, <1>2, <1>3, <1>4, <2>1, <2>2 DEF RowSound, Is
  <2>3. CASE m # n
    BY <1>1, <1>4, <2>1, <2>3, RowKept
  <2>. QED
    BY <2>2, <2>3
<1>8. ASSUME NEW v \in Workers PROVE WorkerSound(v)'
  <2>1. CASE v = w
    <3>. HIDE DEF sent
    <3>1. \A u \in Workers : u # w => worker'[u].sending # n
      BY <1>3, <1>4
    <3>2. worker'[w].sending = n /\ worker'[w].number = worker[w].number
          /\ worker'[w].left = TRUE /\ worker'[w].outcome = None
      BY <1>4, <1>5
    <3>3. /\ notice'[n] # None
          /\ notice'[n].status = "SENDING" \/ notice'[n].status = "UNKNOWN"
      BY <1>1, <1>3 DEF Is
    <3>4. notice'[n] = notice[n]
      BY <1>1
    <3>5. worker[w].number = notice[n].attempts /\ worker[w].number > 0
      BY <1>1, <1>2 DEF WorkerSound
    <3>. HIDE DEF n
    <3>. QED
      BY <1>1, <1>4, <2>1, <3>1, <3>2, <3>3, <3>4, <3>5, NoneApart
         DEF WorkerSound, Outcomes, Is
  <2>2. CASE v # w
    <3>1. SameMail(v)
      BY <1>4, <2>2 DEF SameMail
    <3>2. worker[v].sending # n
      BY <1>3, <2>2
    <3>3. worker[v].sending # None => RowHeld(worker[v].sending)
      BY <1>1, <1>4, <3>2, Holding DEF RowHeld, Is
    <3>4. \A u \in Workers : worker'[u].sending = worker[u].sending
      BY <1>4, <1>5
    <3>. QED
      BY <3>1, <3>3, <3>4, WorkerKept
  <2>. QED
    BY <2>1, <2>2
<1>9. IsFiniteSet({m \in Notices : notice'[m] # None})
  BY <1>1 DEF SupportInv
<1>. QED
  BY <1>6, <1>7, <1>8, <1>9 DEF SupportInv

\* sendNotice ends, and only says what it can know.
LEMMA AnswerStep ==
  ASSUME SupportInv, NEW w \in Workers, NEW answer \in Outcomes,
         Answer(w, answer)
  PROVE  SupportInv'
<1> DEFINE n == worker[w].sending
           answered == [worker[w] EXCEPT !.outcome = answer]
<1>1. /\ n # None
      /\ answer = "SMTP_ACCEPTED" => worker[w].left
      /\ answer = "FAILED" => ~worker[w].left
      /\ worker' = [worker EXCEPT ![w] = answered]
      /\ UNCHANGED <<notice, history, configured, delivered, retries, faults>>
  BY DEF Answer
<1>2. TypeOK /\ worker[w] \in WorkerStates /\ WorkerSound(w)
  BY DEF SupportInv, TypeOK
<1>3. /\ answered \in WorkerStates /\ answered.sending = n
      /\ answered.number = worker[w].number
      /\ answered.left = worker[w].left /\ answered.outcome = answer
  BY <1>2 DEF WorkerStates
<1>4. /\ worker'[w] = answered
      /\ \A v \in Workers : v # w => worker'[v] = worker[v]
  BY <1>1, <1>2 DEF TypeOK
<1>5. TypeOK'
  BY <1>1, <1>2, <1>3 DEF TypeOK
<1>6. ASSUME NEW m \in Notices PROVE RowSound(m)'
  BY <1>1, RowKept DEF SupportInv
<1> HIDE DEF answered
<1>7. ASSUME NEW v \in Workers PROVE WorkerSound(v)'
  <2>1. CASE v = w
    BY <1>1, <1>2, <1>3, <1>4, <2>1, NoneApart DEF WorkerSound, Is
  <2>2. CASE v # w
    <3>1. SameMail(v)
      BY <1>4, <2>2 DEF SameMail
    <3>2. worker[v].sending # None => RowHeld(worker[v].sending)
      BY <1>1 DEF RowHeld, Is
    <3>3. \A u \in Workers : worker'[u].sending = worker[u].sending
      BY <1>3, <1>4
    <3>. QED
      BY <3>1, <3>2, <3>3, WorkerKept
  <2>. QED
    BY <2>1, <2>2
<1>8. IsFiniteSet({m \in Notices : notice'[m] # None})
  BY <1>1 DEF SupportInv
<1>. QED
  BY <1>5, <1>6, <1>7, <1>8 DEF SupportInv

\* The answer, late or not, goes into the last attempt and into the row.
LEMMA RecordStep ==
  ASSUME SupportInv, NEW w \in Workers, Record(w)
  PROVE  /\ SupportInv'
         /\ worker[w].sending \in Notices
         /\ notice'[worker[w].sending] # None
         /\ notice'[worker[w].sending].status = worker[w].outcome
         /\ \A m \in Notices : m # worker[w].sending => notice'[m] = notice[m]
<1> DEFINE n == worker[w].sending
           outcome == worker[w].outcome
           number == worker[w].number
           done == [worker[w] EXCEPT !.sending = None, !.number = 0,
                                     !.left = FALSE, !.outcome = None]
<1>1. /\ outcome # None
      /\ history' = [history EXCEPT ![n] = [history[n] EXCEPT ![number] = outcome]]
      /\ notice' = IF Awaited(n, number)
                     THEN [notice EXCEPT ![n].status = outcome] ELSE notice
      /\ worker' = [worker EXCEPT ![w] = done]
      /\ UNCHANGED <<configured, delivered, retries, faults>>
  BY DEF Record
<1>2. TypeOK /\ worker[w] \in WorkerStates /\ WorkerSound(w) /\ n # None
  BY <1>1 DEF SupportInv, TypeOK, WorkerSound
<1>3. /\ n \in Notices /\ notice[n] \in Rows /\ notice[n] # None
      /\ Awaited(n, number) /\ number \in 1..notice[n].attempts
      /\ RowSound(n)
  BY <1>2, Holding DEF SupportInv
<1>4. outcome \in Outcomes /\ outcome \in Statuses
  BY <1>1, <1>2 DEF WorkerStates, Statuses
<1>5. notice' = [notice EXCEPT ![n].status = outcome]
  BY <1>1, <1>3
<1>6. /\ notice' \in [Notices -> Rows \cup {None}]
      /\ notice'[n] # None /\ notice'[n].status = outcome
      /\ notice'[n].attempts = notice[n].attempts
      /\ notice[n].attempts \in Nat
      /\ \A m \in Notices : m # n => notice'[m] = notice[m]
      /\ {m \in Notices : notice'[m] # None} =
           {m \in Notices : notice[m] # None}
  <2> HIDE DEF n, outcome
  <2>. QED
    BY <1>2, <1>3, <1>4, <1>5, StatusSet
<1>7. number = notice[n].attempts
  BY <1>3 DEF Awaited
<1>8. /\ history[n] \in Seq(Outcomes \cup {"SENDING"})
      /\ Len(history[n]) = notice[n].attempts
      /\ \A k \in 1..notice[n].attempts :
           k < notice[n].attempts => history[n][k] = "FAILED"
  BY <1>2, <1>3 DEF TypeOK, RowSound
<1>9. /\ done \in WorkerStates /\ done.sending = None /\ done.left = FALSE
      /\ done.outcome = None
  BY <1>2 DEF WorkerStates
<1>10. /\ worker'[w] = done
       /\ \A v \in Workers : v # w => worker'[v] = worker[v]
       /\ history'[n] = [history[n] EXCEPT ![number] = outcome]
       /\ \A m \in Notices : m # n => history'[m] = history[m]
  BY <1>1, <1>2, <1>3 DEF TypeOK
<1> HIDE DEF done
<1>11. /\ history'[n] \in Seq(Outcomes \cup {"SENDING"})
       /\ Len(history'[n]) = notice[n].attempts
       /\ \A k \in 1..notice[n].attempts :
            history'[n][k] = IF k < notice[n].attempts THEN "FAILED" ELSE outcome
  <2> HIDE DEF n, number, outcome
  <2>. QED
    BY <1>3, <1>4, <1>6, <1>7, <1>8, <1>10
<1>12. TypeOK'
  <2>1. history' \in [Notices -> Seq(Outcomes \cup {"SENDING"})]
    BY <1>1, <1>2, <1>10, <1>11 DEF TypeOK
  <2>2. worker' \in [Workers -> WorkerStates]
    BY <1>1, <1>2, <1>9 DEF TypeOK
  <2>. QED
    BY <1>1, <1>2, <1>6, <2>1, <2>2 DEF TypeOK
<1>13. /\ delivered[n] <= 1
       /\ outcome = "SMTP_ACCEPTED" => delivered[n] = 1
       /\ outcome = "FAILED" => delivered[n] = 0
  BY <1>2 DEF WorkerSound
<1>14. ASSUME NEW m \in Notices PROVE RowSound(m)'
  <2>1. RowSound(m)
    BY DEF SupportInv
  <2>2. CASE m = n
    <3>1. /\ outcome # "PENDING" /\ outcome # "CANCELLED"
      BY <1>4 DEF Outcomes
    <3> HIDE DEF n, outcome, number
    <3>. QED
      BY <1>1, <1>6, <1>11, <1>13, <2>2, <3>1 DEF RowSound, Is
  <2>3. CASE m # n
    BY <1>1, <1>6, <1>10, <2>1, <2>3, RowKept
  <2>. QED
    BY <2>2, <2>3
<1>15. ASSUME NEW v \in Workers PROVE WorkerSound(v)'
  <2>1. CASE v = w
    <3>1. Freed(w)
      BY <1>9, <1>10 DEF Freed
    <3>2. \A u \in Workers : u # w => worker'[u].sending = worker[u].sending
      BY <1>10
    <3>. QED
      BY <2>1, <3>1, <3>2, WorkerKept DEF Freed, SameMail
  <2>2. CASE v # w
    <3>1. SameMail(v)
      BY <1>10, <2>2 DEF SameMail
    <3>2. worker[v].sending # n
      BY <1>2, <2>2 DEF WorkerSound
    <3>3. worker[v].sending # None => RowHeld(worker[v].sending)
      <4> HIDE DEF n
      <4>. QED
        BY <1>1, <1>6, <3>2, Holding DEF RowHeld, Is
    <3>4. \A u \in Workers : u # v =>
            \/ worker'[u].sending = worker[u].sending
            \/ worker'[u].sending = None
      BY <1>9, <1>10
    <3>5. worker[v].sending = None \/ worker[v].sending # None
      OBVIOUS
    <3>6. CASE worker[v].sending # None
      BY <3>1, <3>3, <3>4, <3>6, WorkerKept
    <3>7. CASE worker[v].sending = None
      BY <3>1, <3>7 DEF SameMail, WorkerSound, SupportInv
    <3>. QED
      BY <3>6, <3>7
  <2>. QED
    BY <2>1, <2>2
<1>16. IsFiniteSet({m \in Notices : notice'[m] # None})
  BY <1>6 DEF SupportInv
<1>. QED
  BY <1>3, <1>6, <1>12, <1>14, <1>15, <1>16 DEF SupportInv

\* Giving up rows SENDING for five minutes keeps what the rows and their
\* attempts say together, and what the workers rely on.
LEMMA RecoveredKeeps ==
  ASSUME SupportInv, Recovered, delivered' = delivered, NEW n \in Notices
  PROVE  /\ notice'[n] \in Rows \cup {None}
         /\ history'[n] \in Seq(Outcomes \cup {"SENDING"})
         /\ notice'[n] = None <=> notice[n] = None
         /\ n \in Stale => notice'[n].status = "UNKNOWN"
         /\ n \notin Stale => notice'[n] = notice[n]
         /\ RowSound(n)'
         /\ notice[n] # None => RowHeld(n)
<1>1. TypeOK /\ RowSound(n)
  BY DEF SupportInv
<1>2. CASE n \notin Stale
  <2>1. notice'[n] = notice[n] /\ history'[n] = history[n]
    BY <1>2 DEF Recovered
  <2>. QED
    BY <1>1, <1>2, <2>1, RowKept DEF TypeOK, RowHeld, Is
<1>3. CASE n \in Stale
  <2>1. Is(n, "SENDING") /\ notice[n] # None /\ notice[n] \in Rows
    BY <1>1, <1>3 DEF Stale, Is, TypeOK
  <2>2. notice'[n] = [notice[n] EXCEPT !.status = "UNKNOWN"]
    BY <1>3 DEF Recovered, GivenUp
  <2>3. /\ notice'[n] \in Rows /\ notice'[n] # None
        /\ notice'[n].status = "UNKNOWN"
        /\ notice'[n].attempts = notice[n].attempts
        /\ notice[n].attempts \in Nat
    BY <2>1, <2>2, NoneApart DEF Rows, Statuses, Outcomes
  <2>4. history'[n] = [k \in DOMAIN history[n] |->
                         IF history[n][k] = "SENDING" THEN "UNKNOWN"
                                                      ELSE history[n][k]]
    BY <1>3 DEF Recovered, AttemptsClosed
  <2>5. /\ history[n] \in Seq(Outcomes \cup {"SENDING"})
        /\ Len(history[n]) = notice[n].attempts
        /\ \A k \in 1..notice[n].attempts :
             history[n][k] = IF k < notice[n].attempts THEN "FAILED"
                                                       ELSE "SENDING"
    BY <1>1, <2>1 DEF TypeOK, RowSound, Is
  <2>6. /\ history'[n] \in Seq(Outcomes \cup {"SENDING"})
        /\ Len(history'[n]) = notice[n].attempts
        /\ \A k \in 1..notice[n].attempts :
             history'[n][k] = IF k < notice[n].attempts THEN "FAILED"
                                                        ELSE "UNKNOWN"
    <3>1. "UNKNOWN" \in Outcomes
      BY DEF Outcomes
    <3>. QED
      BY <2>3, <2>4, <2>5, <3>1
  <2>7. delivered[n] <= 1
    BY <1>1, <2>1 DEF RowSound
  <2>8. RowSound(n)'
    BY <2>3, <2>6, <2>7 DEF RowSound, Is
  <2>9. RowHeld(n)
    BY <2>3 DEF RowHeld
  <2>. QED
    BY <1>3, <2>1, <2>3, <2>6, <2>8, <2>9
<1>. QED
  BY <1>2, <1>3

\* A flush begins, or a process restarts: both give up the old rows.
LEMMA RecoveryStep ==
  ASSUME SupportInv, NEW w \in Workers, StartFlush(w) \/ Restart(w)
  PROVE  SupportInv'
<1>1. Recovered /\ delivered' = delivered /\ retries' = retries
  BY DEF StartFlush, Restart
<1>2. TypeOK
  BY DEF SupportInv
<1>3. worker' \in [Workers -> WorkerStates]
  <2>1. CASE StartFlush(w)
    <3>1. worker \in [Workers -> WorkerStates] /\ worker[w] \in WorkerStates
      BY <1>2 DEF TypeOK
    <3>2. [worker[w] EXCEPT !.phase = "started"] \in WorkerStates
      BY <3>1 DEF WorkerStates
    <3>. QED
      BY <2>1, <3>1, <3>2 DEF StartFlush
  <2>2. CASE Restart(w)
    <3>1. Idle \in WorkerStates
      BY DEF Idle, WorkerStates
    <3>. QED
      BY <1>2, <2>2, <3>1 DEF TypeOK, Restart
  <2>. QED
    BY <2>1, <2>2
<1>4. TypeOK'
  <2>1. notice' \in [Notices -> Rows \cup {None}]
    <3>1. notice' = [n \in Notices |-> notice'[n]]
      BY <1>1 DEF Recovered
    <3>. QED
      BY <1>1, <3>1, RecoveredKeeps
  <2>2. history' \in [Notices -> Seq(Outcomes \cup {"SENDING"})]
    <3>1. history' = [n \in Notices |-> history'[n]]
      BY <1>1 DEF Recovered
    <3>. QED
      BY <1>1, <3>1, RecoveredKeeps
  <2>3. configured' \in [Workers -> BOOLEAN] /\ faults' \in Nat
    BY <1>2 DEF TypeOK, StartFlush, Restart
  <2>. QED
    BY <1>1, <1>2, <1>3, <2>1, <2>2, <2>3 DEF TypeOK
<1>5. IsFiniteSet({n \in Notices : notice'[n] # None})
  <2>1. {n \in Notices : notice'[n] # None} = {n \in Notices : notice[n] # None}
    BY <1>1, RecoveredKeeps
  <2>. QED
    BY <2>1 DEF SupportInv
<1>6. \A n \in Notices : RowSound(n)'
  BY <1>1, RecoveredKeeps
<1>7. ASSUME NEW v \in Workers PROVE WorkerSound(v)'
  <2>1. SameMail(v) \/ Freed(v)
    <3>1. CASE StartFlush(w)
      BY <1>2, <3>1 DEF StartFlush, SameMail, TypeOK, WorkerStates
    <3>2. CASE Restart(w)
      BY <1>2, <3>2 DEF Restart, SameMail, Freed, Idle, TypeOK, WorkerStates
    <3>. QED
      BY <3>1, <3>2
  <2>2. worker[v].sending # None => RowHeld(worker[v].sending)
    BY <1>1, RecoveredKeeps, Holding
  <2>3. \A u \in Workers : \/ worker'[u].sending = worker[u].sending
                           \/ worker'[u].sending = None
    <3>1. CASE StartFlush(w)
      BY <1>2, <3>1 DEF StartFlush, TypeOK, WorkerStates
    <3>2. CASE Restart(w)
      BY <1>2, <3>2 DEF Restart, Idle, TypeOK, WorkerStates
    <3>. QED
      BY <3>1, <3>2
  <2>4. CASE worker[v].sending # None
    BY <2>1, <2>2, <2>3, <2>4, WorkerKept
  <2>5. CASE worker[v].sending = None
    <3>1. WorkerSound(v)
      BY DEF SupportInv
    <3>. QED
      BY <2>1, <2>5, <3>1, NoneApart DEF SameMail, Freed, WorkerSound, Outcomes
  <2>. QED
    BY <2>4, <2>5
<1>. QED
  BY <1>4, <1>5, <1>6, <1>7 DEF SupportInv

\* Rows are read or passed over, a flush ends, a statement fails: no row is
\* written.
LEMMA FlushStep ==
  ASSUME SupportInv,
         \/ \E w \in Workers : \/ ReadPending(w) \/ EndFlush(w)
                               \/ StatementFails(w)
                               \/ \E n \in Notices : PassOver(w, n)
         \/ UNCHANGED vars
  PROVE  SupportInv'
<1>1. UNCHANGED <<notice, history, configured, delivered, retries>>
  BY DEF ReadPending, PassOver, EndFlush, StatementFails, vars
<1>2. TypeOK /\ Idle \in WorkerStates
  BY DEF SupportInv, Idle, WorkerStates
<1>3. /\ worker' \in [Workers -> WorkerStates] /\ faults' \in Nat
      /\ \A v \in Workers : SameMail(v) \/ Freed(v)
  <2>1. ASSUME NEW w \in Workers, ReadPending(w)
        PROVE  /\ worker' \in [Workers -> WorkerStates] /\ faults' \in Nat
               /\ \A v \in Workers : SameMail(v) \/ Freed(v)
    <3> DEFINE rows == Oldest({n \in Notices : Is(n, "PENDING")})
               reader == [Idle EXCEPT !.phase = "mailing", !.batch = rows]
    <3>1. rows \subseteq Notices
      BY DEF Oldest
    <3>2. /\ worker' = [worker EXCEPT ![w] = IF configured[w] THEN reader ELSE Idle]
          /\ faults' = faults
      BY <2>1 DEF ReadPending
    <3> HIDE DEF rows
    <3>3. /\ reader \in WorkerStates /\ reader.sending = None
          /\ reader.outcome = None /\ reader.left = FALSE
      BY <1>2, <3>1 DEF Idle, WorkerStates
    <3>4. /\ Idle.sending = None /\ Idle.outcome = None /\ Idle.left = FALSE
      BY DEF Idle
    <3> HIDE DEF reader
    <3>. QED
      BY <1>2, <3>2, <3>3, <3>4 DEF SameMail, Freed, TypeOK
  <2>2. ASSUME NEW w \in Workers, EndFlush(w) \/ StatementFails(w)
        PROVE  /\ worker' \in [Workers -> WorkerStates] /\ faults' \in Nat
               /\ \A v \in Workers : SameMail(v) \/ Freed(v)
    <3>1. worker' = [worker EXCEPT ![w] = Idle]
      BY <2>2 DEF EndFlush, StatementFails
    <3>2. faults' \in Nat
      BY <1>2, <2>2 DEF EndFlush, StatementFails, TypeOK
    <3>3. Idle.sending = None /\ Idle.outcome = None /\ Idle.left = FALSE
      BY DEF Idle
    <3>. QED
      BY <1>2, <3>1, <3>2, <3>3 DEF SameMail, Freed, TypeOK
  <2>3. ASSUME NEW w \in Workers, NEW n \in Notices, PassOver(w, n)
        PROVE  /\ worker' \in [Workers -> WorkerStates] /\ faults' \in Nat
               /\ \A v \in Workers : SameMail(v) \/ Freed(v)
    BY <1>2, <2>3 DEF PassOver, SameMail, TypeOK, WorkerStates
  <2>4. CASE UNCHANGED vars
    BY <1>2, <2>4 DEF vars, SameMail, TypeOK
  <2>. QED
    BY <2>1, <2>2, <2>3, <2>4
<1>4. TypeOK'
  BY <1>1, <1>2, <1>3 DEF TypeOK
<1>5. \A n \in Notices : RowSound(n)'
  BY <1>1, RowKept DEF SupportInv
<1>6. ASSUME NEW v \in Workers PROVE WorkerSound(v)'
  <2>1. worker[v].sending # None => RowHeld(worker[v].sending)
    BY <1>1 DEF RowHeld, Is
  <2>2. \A u \in Workers : \/ worker'[u].sending = worker[u].sending
                           \/ worker'[u].sending = None
    BY <1>3 DEF SameMail, Freed
  <2>3. SameMail(v) \/ Freed(v)
    BY <1>3
  <2>4. CASE worker[v].sending # None
    BY <2>1, <2>2, <2>3, <2>4, WorkerKept
  <2>5. CASE worker[v].sending = None
    <3>1. WorkerSound(v)
      BY DEF SupportInv
    <3>. QED
      BY <2>3, <2>5, <3>1, NoneApart DEF SameMail, Freed, WorkerSound, Outcomes
  <2>. QED
    BY <2>4, <2>5
<1>7. IsFiniteSet({m \in Notices : notice'[m] # None})
  BY <1>1 DEF SupportInv
<1>. QED
  BY <1>4, <1>5, <1>6, <1>7 DEF SupportInv

-----------------------------------------------------------------------------

\* Every step of the sellers, the workers and the processes keeps SupportInv.
THEOREM SupportStep == SupportInv /\ [Next]_vars => SupportInv'
<1> SUFFICES ASSUME SupportInv, [Next]_vars PROVE SupportInv'
  OBVIOUS
<1>1. CASE \E n \in Notices, address \in BOOLEAN : Enqueue(n, address)
  BY <1>1, EnqueueStep
<1>2. CASE \E n \in Notices : Retry(n) \/ Age(n)
  BY <1>2, RetryStep, AgeStep
<1>3. CASE \E w \in Workers, n \in Notices : Cancel(w, n) \/ Claim(w, n)
  BY <1>3, CancelStep, ClaimStep
<1>4. CASE \E w \in Workers : Deliver(w) \/ Record(w)
  BY <1>4, DeliverStep, RecordStep
<1>5. CASE \E w \in Workers, answer \in Outcomes : Answer(w, answer)
  BY <1>5, AnswerStep
<1>6. CASE \E w \in Workers : StartFlush(w) \/ Restart(w)
  BY <1>6, RecoveryStep
<1>7. CASE \/ \E w \in Workers : \/ ReadPending(w) \/ EndFlush(w)
                                 \/ StatementFails(w)
                                 \/ \E n \in Notices : PassOver(w, n)
           \/ UNCHANGED vars
  BY <1>7, FlushStep
<1>. QED
  BY <1>1, <1>2, <1>3, <1>4, <1>5, <1>6, <1>7 DEF Next

\* SupportInv holds in every reachable state.
THEOREM SupportInvariant == Spec => []SupportInv
<1>1. Init => SupportInv
  BY SupportInit
<1>2. SupportInv /\ [Next]_vars => SupportInv'
  BY SupportStep
<1>. QED
  BY <1>1, <1>2, PTL DEF Spec

\* The notices, their attempts and the workers keep their types.
THEOREM SupportTypeCorrect == Spec => []TypeOK
<1>1. SupportInv => TypeOK
  BY DEF SupportInv
<1>. QED
  BY <1>1, SupportInvariant, PTL

\* However late an answer comes, the row and its attempts tell one story
\* (flush, recover).
THEOREM HistoriesAgree == Spec => []HistoryAgrees
<1>1. SupportInv => HistoryAgrees
  BY DEF SupportInv, RowSound, HistoryAgrees
<1>. QED
  BY <1>1, SupportInvariant, PTL

\* A notice is mailed once at most, and what its status says is true.
THEOREM SupportStatusesAreTruthful == Spec => []StatusTruthful
<1>1. SupportInv => StatusTruthful
  BY DEF SupportInv, RowSound, StatusTruthful, Is
<1>. QED
  BY <1>1, SupportInvariant, PTL

-----------------------------------------------------------------------------
(* The refinement of MailOutbox.                                           *)

standingBar == [n \in Notices |-> Said(notice[n])]

\* When one row changes, so does what is said of that notice alone.
LEMMA OneStanding ==
  ASSUME NEW n \in Notices,
         \A m \in Notices : m # n => notice'[m] = notice[m]
  PROVE  standingBar' = [standingBar EXCEPT ![n] = Said(notice'[n])]
BY DEF standingBar

\* What is said of a notice, by the status of its row.
LEMMA SaidOfStatus ==
  ASSUME NEW row, row # None
  PROVE  /\ row.status = "PENDING" => Said(row) = "waiting"
         /\ row.status = "SENDING" => Said(row) = "under way"
         /\ row.status = "SMTP_ACCEPTED" => Said(row) = "accepted"
         /\ row.status = "FAILED" => Said(row) = "failed"
         /\ row.status = "UNKNOWN" => Said(row) = "unknown"
         /\ row.status = "CANCELLED" => Said(row) = "dropped"
BY DEF Said

\* Nothing is said of a notice that is not there.
LEMMA SaidOfNone == Said(None) = "none"
BY DEF Said

\* An empty outbox is an empty outbox.
LEMMA InitRefines == Init => Outbox!OutboxInit
BY SaidOfNone DEF Init, Outbox!OutboxInit

\* A notice is queued, or has failed at once.
LEMMA EnqueueRefines ==
  ASSUME SupportInv, NEW n \in Notices, NEW address \in BOOLEAN,
         Enqueue(n, address)
  PROVE  Outbox!Queue(n)
<1>1. notice[n] = None /\ delivered' = delivered
  BY DEF Enqueue
<1>2. /\ notice'[n] # None
      /\ notice'[n].status = IF address THEN "PENDING" ELSE "FAILED"
      /\ \A m \in Notices : m # n => notice'[m] = notice[m]
  BY EnqueueStep
<1>3. Said(notice[n]) = "none" /\ Said(notice'[n]) \in {"waiting", "failed"}
  BY <1>1, <1>2, SaidOfNone, SaidOfStatus
<1>. QED
  BY <1>1, <1>2, <1>3, OneStanding DEF Outbox!Queue, Outbox!Move, standingBar

\* Only what has surely failed is sent again.
LEMMA RetryRefines ==
  ASSUME SupportInv, NEW n \in Notices, Retry(n)
  PROVE  Outbox!Again(n)
<1>1. /\ notice'[n] # None /\ notice'[n].status = "PENDING"
      /\ \A m \in Notices : m # n => notice'[m] = notice[m]
  BY RetryStep
<1>2. Said(notice[n]) = "failed" /\ Said(notice'[n]) = "waiting"
  BY <1>1, SaidOfStatus DEF Retry, Retriable, Is
<1>3. delivered' = delivered
  BY DEF Retry
<1>. QED
  BY <1>1, <1>2, <1>3, OneStanding DEF Outbox!Again, Outbox!Move, standingBar

\* Time passing changes nothing that is said.
LEMMA AgeRefines ==
  ASSUME SupportInv, NEW n \in Notices, Age(n)
  PROVE  standingBar' = standingBar /\ delivered' = delivered
<1>1. /\ notice[n] # None /\ notice[n].status = "SENDING"
      /\ notice'[n] # None /\ notice'[n].status = "SENDING"
      /\ \A m \in Notices : m # n => notice'[m] = notice[m]
      /\ delivered' = delivered
  BY AgeStep DEF Age, Is
<1>2. Said(notice[n]) = "under way" /\ Said(notice'[n]) = "under way"
  BY <1>1, SaidOfStatus
<1>. QED
  BY <1>1, <1>2, OneStanding DEF standingBar

\* A worker cancels or claims a row that waits.
LEMMA TakeRefines ==
  ASSUME SupportInv, NEW w \in Workers, NEW n \in Notices,
         Cancel(w, n) \/ Claim(w, n)
  PROVE  Outbox!Drop(n) \/ Outbox!Try(n)
<1>1. /\ notice[n] # None /\ notice[n].status = "PENDING"
      /\ delivered' = delivered
  BY DEF Cancel, Claim, Claimable, Is
<1>2. CASE Cancel(w, n)
  <2>1. /\ notice'[n] # None /\ notice'[n].status = "CANCELLED"
        /\ \A m \in Notices : m # n => notice'[m] = notice[m]
    BY <1>2, CancelStep
  <2>2. Said(notice[n]) = "waiting" /\ Said(notice'[n]) = "dropped"
    BY <1>1, <2>1, SaidOfStatus
  <2>. QED
    BY <1>1, <2>1, <2>2, OneStanding DEF Outbox!Drop, Outbox!Move, standingBar
<1>3. CASE Claim(w, n)
  <2>1. /\ notice'[n] # None /\ notice'[n].status = "SENDING"
        /\ \A m \in Notices : m # n => notice'[m] = notice[m]
    BY <1>3, ClaimStep
  <2>2. Said(notice[n]) = "waiting" /\ Said(notice'[n]) = "under way"
    BY <1>1, <2>1, SaidOfStatus
  <2>. QED
    BY <1>1, <2>1, <2>2, OneStanding DEF Outbox!Try, Outbox!Move, standingBar
<1>. QED
  BY <1>2, <1>3

\* The mail leaves once, known to be under way or already given up.
LEMMA DeliverRefines ==
  ASSUME SupportInv, NEW w \in Workers, Deliver(w)
  PROVE  worker[w].sending \in Notices /\ Outbox!Leave(worker[w].sending)
<1> DEFINE n == worker[w].sending
<1>1. /\ n # None /\ ~worker[w].left /\ notice' = notice
      /\ delivered' = [delivered EXCEPT ![n] = delivered[n] + 1]
  BY DEF Deliver
<1>2. /\ n \in Notices /\ notice[n] # None /\ Awaited(n, worker[w].number)
      /\ WorkerSound(w)
  BY <1>1, Holding DEF SupportInv
<1>3. delivered[n] = 0
  BY <1>1, <1>2 DEF WorkerSound
<1>4. Said(notice[n]) \in {"under way", "unknown"}
  BY <1>2, SaidOfStatus DEF Awaited, Is
<1>5. standingBar' = standingBar
  BY <1>1 DEF standingBar
<1>6. delivered[n] <= [m \in Notices |-> 0][n]
  BY <1>2, <1>3
<1> HIDE DEF n
<1>7. Outbox!Leave(n)
  BY <1>1, <1>2, <1>4, <1>5, <1>6 DEF Outbox!Leave, standingBar
<1>. QED
  BY <1>2, <1>7 DEF n

\* What became of a mail is learnt, late perhaps, or nothing is learnt.
LEMMA RecordRefines ==
  ASSUME SupportInv, NEW w \in Workers, Record(w)
  PROVE  \/ Outbox!Learn(worker[w].sending)
         \/ Outbox!LoseTrack({worker[w].sending})
         \/ standingBar' = standingBar /\ delivered' = delivered
<1> DEFINE n == worker[w].sending
           outcome == worker[w].outcome
<1>1. /\ n \in Notices /\ notice'[n] # None /\ notice'[n].status = outcome
      /\ \A m \in Notices : m # n => notice'[m] = notice[m]
  BY RecordStep
<1>2. outcome # None /\ delivered' = delivered
  BY DEF Record
<1>3. /\ WorkerSound(w) /\ n # None /\ outcome \in Outcomes
  BY <1>2 DEF SupportInv, TypeOK, WorkerStates, WorkerSound
<1>4. notice[n] # None /\ Awaited(n, worker[w].number)
  BY <1>3, Holding
<1>5. Said(notice[n]) \in {"under way", "unknown"}
  BY <1>4, SaidOfStatus DEF Awaited, Is
<1>6. /\ outcome = "SMTP_ACCEPTED" => delivered[n] > 0
      /\ outcome = "FAILED" => delivered[n] <= 0
  BY <1>3 DEF WorkerSound
<1>7. /\ outcome = "SMTP_ACCEPTED" => Said(notice'[n]) = "accepted"
      /\ outcome = "FAILED" => Said(notice'[n]) = "failed"
      /\ outcome = "UNKNOWN" => Said(notice'[n]) = "unknown"
  <2> HIDE DEF outcome, n
  <2>. QED
    BY <1>1, SaidOfStatus
<1> HIDE DEF outcome, n
<1>8. standingBar' = [standingBar EXCEPT ![n] = Said(notice'[n])]
  BY <1>1, OneStanding
<1>9. CASE outcome \in {"SMTP_ACCEPTED", "FAILED"}
  <2>1. Outbox!Learn(n)
    BY <1>1, <1>2, <1>5, <1>6, <1>7, <1>8, <1>9
       DEF Outbox!Learn, Outbox!Move, standingBar
  <2>. QED
    BY <2>1 DEF n
<1>10. CASE outcome = "UNKNOWN"
  <2>1. CASE Said(notice[n]) = "under way"
    <3>1. Outbox!LoseTrack({n})
      BY <1>1, <1>2, <1>7, <1>8, <1>10, <2>1 DEF Outbox!LoseTrack, standingBar
    <3>. QED
      BY <3>1 DEF n
  <2>2. CASE Said(notice[n]) = "unknown"
    BY <1>1, <1>2, <1>7, <1>8, <1>10, <2>2 DEF standingBar
  <2>. QED
    BY <1>5, <2>1, <2>2
<1>. QED
  BY <1>3, <1>9, <1>10 DEF Outcomes, outcome, n

\* Of the mails given up it is not known what became of them.
LEMMA RecoveryRefines ==
  ASSUME SupportInv, Recovered, delivered' = delivered
  PROVE  Outbox!LoseTrack(Stale)
<1>1. ASSUME NEW n \in Notices
      PROVE  Said(notice'[n]) = IF n \in Stale THEN "unknown"
                                               ELSE Said(notice[n])
  <2>1. CASE n \in Stale
    <3>1. notice[n] # None
      BY <2>1 DEF Stale, Is
    <3>2. notice'[n] # None /\ notice'[n].status = "UNKNOWN"
      BY <2>1, <3>1, RecoveredKeeps
    <3>. QED
      BY <2>1, <3>2, SaidOfStatus
  <2>2. CASE n \notin Stale
    BY <2>2, RecoveredKeeps
  <2>. QED
    BY <2>1, <2>2
<1>2. \A n \in Stale : n \in Notices /\ Said(notice[n]) = "under way"
  BY SaidOfStatus DEF Stale, Is
<1>. QED
  BY <1>1, <1>2 DEF Outbox!LoseTrack

\* Every step is a step of the outbox, or none; none sends in doubt.
LEMMA StepRefines ==
  ASSUME SupportInv, [Next]_vars
  PROVE  [Outbox!OutboxNext]_(Outbox!outboxVars)
<1>1. CASE \E n \in Notices, address \in BOOLEAN : Enqueue(n, address)
  BY <1>1, EnqueueRefines DEF Outbox!OutboxNext
<1>2. CASE \E n \in Notices : Retry(n)
  BY <1>2, RetryRefines DEF Outbox!OutboxNext
<1>3. CASE \E n \in Notices : Age(n)
  BY <1>3, AgeRefines DEF Outbox!outboxVars, standingBar
<1>4. CASE \E w \in Workers, n \in Notices : Cancel(w, n) \/ Claim(w, n)
  BY <1>4, TakeRefines DEF Outbox!OutboxNext
<1>5. CASE \E w \in Workers : Deliver(w)
  BY <1>5, DeliverRefines DEF Outbox!OutboxNext
<1>6. CASE \E w \in Workers : Record(w)
  <2>1. PICK w \in Workers : Record(w)
    BY <1>6
  <2>2. worker[w].sending \in Notices
    BY <2>1, RecordStep
  <2>3. {worker[w].sending} \in SUBSET Notices
    BY <2>2
  <2>4. CASE Outbox!Learn(worker[w].sending)
    BY <2>2, <2>4 DEF Outbox!OutboxNext
  <2>5. CASE Outbox!LoseTrack({worker[w].sending})
    BY <2>3, <2>5 DEF Outbox!OutboxNext
  <2>6. CASE standingBar' = standingBar /\ delivered' = delivered
    BY <2>6 DEF Outbox!outboxVars, standingBar
  <2>. QED
    BY <2>1, <2>4, <2>5, <2>6, RecordRefines
<1>7. CASE \E w \in Workers : StartFlush(w) \/ Restart(w)
  <2>1. Recovered /\ delivered' = delivered
    BY <1>7 DEF StartFlush, Restart
  <2>2. Stale \in SUBSET Notices
    BY DEF Stale
  <2>. QED
    BY <2>1, <2>2, RecoveryRefines DEF Outbox!OutboxNext
<1>8. CASE UNCHANGED <<notice, delivered>>
  BY <1>8 DEF Outbox!outboxVars
<1>. QED
  BY <1>1, <1>2, <1>3, <1>4, <1>5, <1>6, <1>7, <1>8
     DEF Next, vars, ReadPending, PassOver, Answer, EndFlush, StatementFails

\* The workers implement the outbox without ever sending in doubt: nothing
\* leaves twice, for any number of processes, restarts and late answers.
THEOREM SupportOutboxImplements == Spec => ImplementsMailOutbox
<1>1. Init => Outbox!OutboxInit
  BY InitRefines
<1>2. SupportInv /\ [Next]_vars => [Outbox!OutboxNext]_(Outbox!outboxVars)
  BY StepRefines
<1>. QED
  BY <1>1, <1>2, SupportInvariant, PTL
     DEF Spec, ImplementsMailOutbox, Outbox!MailOutboxSpec

=============================================================================
