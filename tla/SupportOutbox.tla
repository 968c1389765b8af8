---------------------------- MODULE SupportOutbox ---------------------------
(***************************************************************************)
(* The notices of the support (SupportNotification rows, and for each mail *)
(* tried a SupportNotificationAttempt row) and the workers that mail them  *)
(* (SupportNotificationsService).  A row is claimed in a transaction that  *)
(* also checks that its reader is still the right one; a row that has been *)
(* SENDING for five minutes is given up, and yet the answer of its mail    *)
(* may still come.                                                         *)
(*                                                                         *)
(* Each process has one worker.  More than one process serves the database *)
(* while one is being replaced by another.                                 *)
(***************************************************************************)
EXTENDS NoticeMail, Naturals, Sequences, FiniteSets

CONSTANTS
  Notices,      \* identifiers of SupportNotification rows
  Workers,      \* the processes
  Batch,        \* how many rows one flush takes (10)
  MaxRetries,   \* bound: how often sellers retry
  MaxFaults     \* bound: how often a process restarts or a statement fails

Statuses == Outcomes \cup {"PENDING", "SENDING", "CANCELLED"}

\* `attempts' numbers the mails tried; `stale': SENDING for five minutes.
Rows == [status: Statuses, attempts: Nat, stale: BOOLEAN, createdAt: Nat]

\* A worker in flush: the rows read and not dealt with yet, the row whose
\* mail is under way and the number of that attempt.
WorkerStates == [phase: {"idle", "started", "mailing"}, batch: SUBSET Notices,
                 sending: Notices \cup {None}, number: Nat, left: BOOLEAN,
                 outcome: Outcomes \cup {None}]

ASSUME SupportAssumption ==
  /\ Batch \in Nat \ {0}
  /\ {MaxRetries, MaxFaults} \subseteq Nat
  /\ None \notin Notices \cup Outcomes
  /\ None \notin Rows

VARIABLES
  notice,       \* the SupportNotification rows
  history,      \* the statuses of their attempts, by number
  configured,   \* the process has SMTP_HOST and SMTP_FROM
  worker,       \* what each process is doing
  delivered,    \* history variable: mails the SMTP server took, by notice
  retries, faults   \* counters of the bounds

vars == <<notice, history, configured, worker, delivered, retries, faults>>

TypeOK ==
  /\ notice \in [Notices -> Rows \cup {None}]
  /\ history \in [Notices -> Seq(Outcomes \cup {"SENDING"})]
  /\ configured \in [Workers -> BOOLEAN]
  /\ worker \in [Workers -> WorkerStates]
  /\ delivered \in [Notices -> Nat]
  /\ retries \in Nat
  /\ faults \in Nat

Idle == [phase |-> "idle", batch |-> {}, sending |-> None, number |-> 0,
         left |-> FALSE, outcome |-> None]

Init ==
  /\ notice = [n \in Notices |-> None]
  /\ history = [n \in Notices |-> <<>>]
  /\ configured \in [Workers -> BOOLEAN]
  /\ worker = [w \in Workers |-> Idle]
  /\ delivered = [n \in Notices |-> 0]
  /\ retries = 0
  /\ faults = 0

Is(n, status) == notice[n] # None /\ notice[n].status = status

-----------------------------------------------------------------------------
(* Sellers and customers.                                                  *)

\* enqueueSupportNotification, the first time for a ticket, revision and kind
\* (again it changes nothing); without an address it has already failed.
Enqueue(n, address) ==
  /\ notice[n] = None
  /\ notice' = [notice EXCEPT ![n] =
       [status |-> IF address THEN "PENDING" ELSE "FAILED", attempts |-> 0,
        stale |-> FALSE,
        createdAt |-> Cardinality({m \in Notices : notice[m] # None})]]
  /\ UNCHANGED <<history, configured, worker, delivered, retries, faults>>

\* Only what has surely failed.
Retriable(n) == Is(n, "FAILED")

\* retry, by a seller who has read the error.
Retry(n) ==
  /\ retries < MaxRetries
  /\ Retriable(n)
  /\ notice' = [notice EXCEPT ![n].status = "PENDING"]
  /\ retries' = retries + 1
  /\ UNCHANGED <<history, configured, worker, delivered, faults>>

-----------------------------------------------------------------------------
(* The workers.                                                            *)

\* Five minutes have passed since the row was claimed.
Age(n) ==
  /\ Is(n, "SENDING")
  /\ ~notice[n].stale
  /\ notice' = [notice EXCEPT ![n].stale = TRUE]
  /\ UNCHANGED <<history, configured, worker, delivered, retries, faults>>

\* Faulty: nothing is ever given up.
NoneStale == {}

Stale == {n \in Notices : Is(n, "SENDING") /\ notice[n].stale}

\* Faulty: what is given up is mailed again.
GivenUpRequeued(n) == [notice[n] EXCEPT !.status = "PENDING"]

GivenUp(n) == [notice[n] EXCEPT !.status = "UNKNOWN"]

AttemptsClosed(n) ==
  [k \in DOMAIN history[n] |->
     IF history[n][k] = "SENDING" THEN "UNKNOWN" ELSE history[n][k]]

\* recover: the rows given up and their attempts, in one transaction.
Recovered ==
  /\ notice' = [n \in Notices |-> IF n \in Stale THEN GivenUp(n) ELSE notice[n]]
  /\ history' = [n \in Notices |->
                   IF n \in Stale THEN AttemptsClosed(n) ELSE history[n]]

\* flush, called by the timer, begins by recovering.
StartFlush(w) ==
  /\ worker[w].phase = "idle"
  /\ Recovered
  /\ worker' = [worker EXCEPT ![w].phase = "started"]
  /\ UNCHANGED <<configured, delivered, retries, faults>>

Older(m, n) == notice[m].createdAt < notice[n].createdAt

\* The first rows of the query, ordered by createdAt.
Oldest(rows) == {n \in rows : Cardinality({m \in rows : Older(m, n)}) < Batch}

\* The oldest rows pending are read; without SMTP flush ends here.
ReadPending(w) ==
  /\ worker[w].phase = "started"
  /\ worker' = [worker EXCEPT ![w] =
       IF configured[w]
         THEN [Idle EXCEPT !.phase = "mailing",
                           !.batch = Oldest({n \in Notices : Is(n, "PENDING")})]
         ELSE Idle]
  /\ UNCHANGED <<notice, history, configured, delivered, retries, faults>>

\* The row a worker deals with next.
IsNext(w, n) ==
  /\ worker[w].phase = "mailing"
  /\ worker[w].sending = None
  /\ n \in worker[w].batch
  /\ \A m \in worker[w].batch : ~Older(m, n)

\* The row is still pending in the transaction that claims it.
Claimable(n) == Is(n, "PENDING")

\* A row that another worker has taken is passed over.
PassOver(w, n) ==
  /\ IsNext(w, n)
  /\ ~Claimable(n)
  /\ worker' = [worker EXCEPT ![w].batch = @ \ {n}]
  /\ UNCHANGED <<notice, history, configured, delivered, retries, faults>>

\* The address has changed since, or the customer's access is gone.
Cancel(w, n) ==
  /\ IsNext(w, n)
  /\ Claimable(n)
  /\ notice' = [notice EXCEPT ![n].status = "CANCELLED"]
  /\ worker' = [worker EXCEPT ![w].batch = @ \ {n}]
  /\ UNCHANGED <<history, configured, delivered, retries, faults>>

\* The row is claimed and its attempt opened.
Claim(w, n) ==
  /\ IsNext(w, n)
  /\ Claimable(n)
  /\ notice' = [notice EXCEPT
       ![n].status = "SENDING", ![n].stale = FALSE, ![n].attempts = @ + 1]
  /\ history' = [history EXCEPT ![n] = Append(@, "SENDING")]
  /\ worker' = [worker EXCEPT
       ![w].batch = @ \ {n}, ![w].sending = n,
       ![w].number = notice[n].attempts + 1]
  /\ UNCHANGED <<configured, delivered, retries, faults>>

\* The SMTP server takes the mail.
Deliver(w) ==
  LET n == worker[w].sending IN
  /\ n # None
  /\ worker[w].outcome = None
  /\ ~worker[w].left
  /\ worker' = [worker EXCEPT ![w].left = TRUE]
  /\ delivered' = [delivered EXCEPT ![n] = @ + 1]
  /\ UNCHANGED <<notice, history, configured, retries, faults>>

\* sendNotice ends: accepted; refused, or an error from before the mail left
\* (EAUTH, EENVELOPE, ECONNREFUSED, EDNS); or an error that says nothing.
Answer(w, answer) ==
  /\ worker[w].sending # None
  /\ worker[w].outcome = None
  /\ answer = "SMTP_ACCEPTED" => worker[w].left
  /\ answer = "FAILED" => ~worker[w].left
  /\ worker' = [worker EXCEPT ![w].outcome = answer]
  /\ UNCHANGED <<notice, history, configured, delivered, retries, faults>>

\* Faulty: an answer that comes after the row was given up is ignored.
AwaitedOnTime(n, number) ==
  Is(n, "SENDING") /\ notice[n].attempts = number

\* The row still waits for the answer to this attempt, given up or not.
Awaited(n, number) ==
  (Is(n, "SENDING") \/ Is(n, "UNKNOWN")) /\ notice[n].attempts = number

\* The outcome goes into the attempt and, if awaited, into the row.
Record(w) ==
  LET n == worker[w].sending
      outcome == worker[w].outcome
  IN
  /\ outcome # None
  /\ history' = [history EXCEPT ![n][worker[w].number] = outcome]
  /\ notice' = IF Awaited(n, worker[w].number)
                 THEN [notice EXCEPT ![n].status = outcome] ELSE notice
  /\ worker' = [worker EXCEPT ![w].sending = None, ![w].number = 0,
                              ![w].left = FALSE, ![w].outcome = None]
  /\ UNCHANGED <<configured, delivered, retries, faults>>

EndFlush(w) ==
  /\ worker[w].phase = "mailing"
  /\ worker[w].sending = None
  /\ worker[w].batch = {}
  /\ worker' = [worker EXCEPT ![w] = Idle]
  /\ UNCHANGED <<notice, history, configured, delivered, retries, faults>>

\* A statement fails and nothing of it is done: flush ends.
StatementFails(w) ==
  /\ faults < MaxFaults
  /\ \/ worker[w].phase = "started"
     \/ worker[w].sending = None /\ worker[w].batch # {}
     \/ worker[w].outcome # None
  /\ worker' = [worker EXCEPT ![w] = Idle]
  /\ faults' = faults + 1
  /\ UNCHANGED <<notice, history, configured, delivered, retries>>

\* A process stops, wherever it was; onModuleInit recovers.
Restart(w) ==
  /\ faults < MaxFaults
  /\ worker' = [worker EXCEPT ![w] = Idle]
  /\ Recovered
  /\ \E value \in BOOLEAN : configured' = [configured EXCEPT ![w] = value]
  /\ faults' = faults + 1
  /\ UNCHANGED <<delivered, retries>>

Next ==
  \/ \E n \in Notices, address \in BOOLEAN : Enqueue(n, address)
  \/ \E n \in Notices : Retry(n)
  \/ \E n \in Notices : Age(n)
  \/ \E w \in Workers : StartFlush(w)
  \/ \E w \in Workers : ReadPending(w)
  \/ \E w \in Workers, n \in Notices : PassOver(w, n)
  \/ \E w \in Workers, n \in Notices : Cancel(w, n)
  \/ \E w \in Workers, n \in Notices : Claim(w, n)
  \/ \E w \in Workers : Deliver(w)
  \/ \E w \in Workers, answer \in Outcomes : Answer(w, answer)
  \/ \E w \in Workers : Record(w)
  \/ \E w \in Workers : EndFlush(w)
  \/ \E w \in Workers : StatementFails(w)
  \/ \E w \in Workers : Restart(w)

\* The timer fires for ever, time passes, and every step of a flush ends:
\* sendMail has connection, greeting and socket time-outs.
Working(w) ==
  \/ StartFlush(w) \/ ReadPending(w) \/ Record(w) \/ EndFlush(w)
  \/ \E n \in Notices : PassOver(w, n) \/ Cancel(w, n) \/ Claim(w, n)
  \/ \E answer \in Outcomes : Answer(w, answer)

Fairness ==
  /\ \A w \in Workers : WF_vars(Working(w))
  /\ \A n \in Notices : WF_vars(Age(n))

Spec == Init /\ [][Next]_vars /\ Fairness

-----------------------------------------------------------------------------
(* Properties.                                                             *)

\* The row and its attempts, written in separate statements by workers that
\* may have been given up, tell one story: every attempt but the last has
\* failed, and the last one says what the row says (flush, recover).
HistoryAgrees ==
  \A n \in Notices : notice[n] # None =>
    /\ Len(history[n]) = notice[n].attempts
    /\ \A k \in 1..notice[n].attempts :
         history[n][k] =
           IF k < notice[n].attempts \/ Is(n, "PENDING") \/ Is(n, "CANCELLED")
             THEN "FAILED" ELSE notice[n].status

\* A notice is mailed once at most, for any number of processes, retries and
\* late answers; one said to be accepted was mailed, and one that failed,
\* waits or was cancelled was not.
StatusTruthful ==
  \A n \in Notices :
    /\ delivered[n] <= 1
    /\ Is(n, "SMTP_ACCEPTED") => delivered[n] = 1
    /\ Is(n, "PENDING") \/ Is(n, "FAILED") \/ Is(n, "CANCELLED") =>
         delivered[n] = 0

Settled(n) == \E status \in Outcomes \cup {"CANCELLED"} : Is(n, status)

\* What waits is settled unless no process can mail, and what is being mailed
\* is settled in any case, whatever process stops or statement fails.
EveryNoticeSettles ==
  \A n \in Notices :
    /\ Is(n, "PENDING") ~> (Settled(n) \/ \A w \in Workers : ~configured[w])
    /\ Is(n, "SENDING") ~> Settled(n)

\* What a row says of its notice, in the words of MailOutbox.
Said(row) ==
  IF row = None THEN "none"
  ELSE CASE row.status = "PENDING"       -> "waiting"
         [] row.status = "SENDING"       -> "under way"
         [] row.status = "SMTP_ACCEPTED" -> "accepted"
         [] row.status = "FAILED"        -> "failed"
         [] row.status = "UNKNOWN"       -> "unknown"
         [] row.status = "CANCELLED"     -> "dropped"

Outbox == INSTANCE MailOutbox WITH
  standing <- [n \in Notices |-> Said(notice[n])],
  mails    <- delivered,
  doubts   <- [n \in Notices |-> 0]

\* The workers implement the outbox, without ever sending in doubt.
ImplementsMailOutbox == Outbox!MailOutboxSpec

=============================================================================
