----------------------------- MODULE CaseOutbox -----------------------------
(***************************************************************************)
(* The notices of the cases (CaseNotification rows) and the worker that    *)
(* mails them (CaseNotificationsService).  A notice is queued in the       *)
(* transaction that records the outcome it tells; every 30 seconds `flush' *)
(* mails the oldest ones one by one.  The process may stop at any point,   *)
(* the answer of the SMTP server may be lost, a statement may fail; a      *)
(* seller who has looked into the mailbox may queue a notice again         *)
(* (CaseNotificationsController.retry).                                    *)
(*                                                                         *)
(* One process serves the database, so there is one worker.                *)
(***************************************************************************)
EXTENDS NoticeMail, Naturals, FiniteSets

CONSTANTS
  Notices,      \* identifiers of CaseNotification rows
  Batch,        \* how many rows one flush takes (10)
  MaxRetries,   \* bound: how often sellers retry
  MaxFaults     \* bound: how often the process restarts or a statement fails

Statuses == Outcomes \cup {"PENDING", "SENDING"}

Rows == [status: Statuses, recipient: BOOLEAN, createdAt: Nat]

ASSUME OutboxAssumption ==
  /\ Batch \in Nat \ {0}
  /\ {MaxRetries, MaxFaults} \subseteq Nat
  /\ None \notin Notices \cup Outcomes
  /\ None \notin Rows

VARIABLES
  notice,       \* the rows
  configured,   \* SMTP_HOST and SMTP_FROM are set
  running,      \* the worker's flag
  batch,        \* the rows flush has read and not dealt with yet
  sending,      \* the row whose mail is under way, or None
  left,         \* that mail has reached the SMTP server
  outcome,      \* what sendNotice answered, or None
  delivered,    \* history: mails the SMTP server took, by notice
  doubts,       \* history: retries of a notice whose outcome was unknown
  stranded,     \* history: rows a failed statement left SENDING
  retries, faults   \* counters of the bounds

worker == <<running, batch, sending, left, outcome>>
vars == <<notice, configured, worker, delivered, doubts, stranded,
          retries, faults>>

TypeOK ==
  /\ notice \in [Notices -> Rows \cup {None}]
  /\ configured \in BOOLEAN
  /\ running \in BOOLEAN
  /\ batch \subseteq Notices
  /\ sending \in Notices \cup {None}
  /\ left \in BOOLEAN
  /\ outcome \in Outcomes \cup {None}
  /\ delivered \in [Notices -> Nat]
  /\ doubts \in [Notices -> Nat]
  /\ stranded \subseteq Notices
  /\ retries \in Nat
  /\ faults \in Nat

Idle ==
  /\ running = FALSE
  /\ batch = {}
  /\ sending = None
  /\ left = FALSE
  /\ outcome = None

Init ==
  /\ notice = [n \in Notices |-> None]
  /\ configured \in BOOLEAN
  /\ Idle
  /\ delivered = [n \in Notices |-> 0]
  /\ doubts = [n \in Notices |-> 0]
  /\ stranded = {}
  /\ retries = 0
  /\ faults = 0

Is(n, status) == notice[n] # None /\ notice[n].status = status

-----------------------------------------------------------------------------
(* Sellers and customers.                                                  *)

\* enqueue, the first time; a row without recipient has already failed.
Enqueue(n, recipient) ==
  /\ notice[n] = None
  /\ notice' = [notice EXCEPT ![n] =
       [status |-> IF recipient THEN "PENDING" ELSE "FAILED",
        recipient |-> recipient,
        createdAt |-> Cardinality({m \in Notices : notice[m] # None})]]
  /\ UNCHANGED <<configured, worker, delivered, doubts, stranded, retries,
                 faults>>

\* retry: the seller has checked the mailbox.
Retry(n) ==
  /\ retries < MaxRetries
  /\ Is(n, "FAILED") \/ Is(n, "UNKNOWN")
  /\ notice[n].recipient
  /\ notice' = [notice EXCEPT ![n].status = "PENDING"]
  /\ doubts' = IF Is(n, "UNKNOWN") THEN [doubts EXCEPT ![n] = @ + 1] ELSE doubts
  /\ retries' = retries + 1
  /\ UNCHANGED <<configured, worker, delivered, stranded, faults>>

-----------------------------------------------------------------------------
(* The worker.                                                             *)

Pending == {n \in Notices : Is(n, "PENDING")}

Older(m, n) == notice[m].createdAt < notice[n].createdAt

\* The first rows of the query, ordered by createdAt.
Oldest(rows) == {n \in rows : Cardinality({m \in rows : Older(m, n)}) < Batch}

\* flush, called by the timer: returns while another one is running or
\* nothing can be mailed, and otherwise reads the oldest rows pending.
StartFlush ==
  /\ ~running
  /\ configured
  /\ running' = TRUE
  /\ batch' = Oldest(Pending)
  /\ UNCHANGED <<notice, configured, sending, left, outcome, delivered,
                 doubts, stranded, retries, faults>>

\* The row of the batch that is dealt with next.
IsNext(n) == sending = None /\ n \in batch /\ \A m \in batch : ~Older(m, n)

\* flush claims the row.  (Its update also passes over a row that is not
\* pending any more; with one worker there is none.)
Claim(n) ==
  /\ IsNext(n)
  /\ Is(n, "PENDING")
  /\ notice' = [notice EXCEPT ![n].status = "SENDING"]
  /\ sending' = n
  /\ batch' = batch \ {n}
  /\ UNCHANGED <<configured, running, left, outcome, delivered, doubts,
                 stranded, retries, faults>>

\* The SMTP server takes the mail: from here on it will be delivered.
Deliver ==
  /\ sending # None
  /\ outcome = None
  /\ ~left
  /\ left' = TRUE
  /\ delivered' = [delivered EXCEPT ![sending] = @ + 1]
  /\ UNCHANGED <<notice, configured, running, batch, sending, outcome,
                 doubts, stranded, retries, faults>>

\* What sendNotice ends with: the recipient accepted; rejected, or an error
\* that comes before the mail leaves (EAUTH, EENVELOPE, ECONNREFUSED, EDNS);
\* or an error that says nothing.
Answer(answer) ==
  /\ sending # None
  /\ outcome = None
  /\ answer = "SMTP_ACCEPTED" => left
  /\ answer = "FAILED" => ~left
  /\ outcome' = answer
  /\ UNCHANGED <<notice, configured, running, batch, sending, left,
                 delivered, doubts, stranded, retries, faults>>

\* The status an outcome is recorded as.
Recorded == outcome

Record ==
  /\ outcome # None
  /\ notice' = [notice EXCEPT ![sending].status = Recorded]
  /\ sending' = None
  /\ left' = FALSE
  /\ outcome' = None
  /\ UNCHANGED <<configured, running, batch, delivered, doubts,
                 stranded, retries, faults>>

\* Faulty: no `finally' resets the flag.
KeptRunning == UNCHANGED running

\* flush resets its flag however it ends.
Released == running' = FALSE

EndFlush ==
  /\ running
  /\ sending = None
  /\ batch = {}
  /\ Released
  /\ UNCHANGED <<notice, configured, batch, sending, left, outcome,
                 delivered, doubts, stranded, retries, faults>>

\* What flush was doing is over.
Dropped ==
  /\ batch' = {}
  /\ sending' = None
  /\ left' = FALSE
  /\ outcome' = None

\* A claim or the record of an outcome fails: flush ends there, and the row
\* keeps the status it had.
StatementFails ==
  /\ faults < MaxFaults
  /\ \/ sending = None /\ batch # {} /\ UNCHANGED stranded
     \/ outcome # None /\ stranded' = stranded \cup {sending}
  /\ Released
  /\ Dropped
  /\ faults' = faults + 1
  /\ UNCHANGED <<notice, configured, delivered, doubts, retries>>

\* Faulty: an interrupted mail is simply queued again.
RequeuedAtBoot ==
  [n \in Notices |->
     IF Is(n, "SENDING") THEN [notice[n] EXCEPT !.status = "PENDING"]
     ELSE notice[n]]

\* onModuleInit: a mail interrupted may or may not have been sent.
RecoveredAtBoot ==
  [n \in Notices |->
     IF Is(n, "SENDING") THEN [notice[n] EXCEPT !.status = "UNKNOWN"]
     ELSE notice[n]]

\* The process stops, wherever the worker was, and is started again, with
\* the environment of that day.
Restart ==
  /\ faults < MaxFaults
  /\ running' = FALSE
  /\ Dropped
  /\ notice' = RecoveredAtBoot
  /\ configured' \in BOOLEAN
  /\ stranded' = {}
  /\ faults' = faults + 1
  /\ UNCHANGED <<delivered, doubts, retries>>

Next ==
  \/ \E n \in Notices, recipient \in BOOLEAN : Enqueue(n, recipient)
  \/ \E n \in Notices : Retry(n)
  \/ StartFlush
  \/ \E n \in Notices : Claim(n)
  \/ Deliver
  \/ \E answer \in Outcomes : Answer(answer)
  \/ Record
  \/ EndFlush
  \/ StatementFails
  \/ Restart

\* The timer fires for ever, and every step of a flush ends: sendMail has
\* connection, greeting and socket time-outs.
Fairness ==
  /\ WF_vars(StartFlush)
  /\ WF_vars(\E n \in Notices : Claim(n))
  /\ WF_vars(\E answer \in Outcomes : Answer(answer))
  /\ WF_vars(Record)
  /\ WF_vars(EndFlush)

Spec == Init /\ [][Next]_vars /\ Fairness

-----------------------------------------------------------------------------
(* Properties.                                                             *)

\* A notice reaches its recipient once, and once more at most for each time
\* a seller sent it again without knowing the outcome: neither a restart, nor
\* a lost answer, nor a failed statement mails it twice (flush, onModuleInit).
DeliveredOnce == \A n \in Notices : delivered[n] <= 1 + doubts[n]

\* The status the seller decides upon can be trusted: a notice accepted was
\* delivered, one that failed or waits was not, but for earlier doubts.
StatusTruthful ==
  \A n \in Notices :
    /\ Is(n, "SMTP_ACCEPTED") => delivered[n] > 0
    /\ Is(n, "FAILED") \/ Is(n, "PENDING") => delivered[n] <= doubts[n]

Settled(n) == \E status \in Outcomes : Is(n, status)

\* Every notice that waits gets an outcome, however the flushes are cut short
\* by faults, and whatever else is queued; the exceptions are a process
\* without SMTP, and the row of a failed statement, SENDING until the restart.
EveryNoticeSettles ==
  \A n \in Notices :
    Is(n, "PENDING") ~> (Settled(n) \/ ~configured \/ n \in stranded)

\* What a row says of its notice, in the words of MailOutbox.
Said(row) ==
  IF row = None THEN "none"
  ELSE CASE row.status = "PENDING"       -> "waiting"
         [] row.status = "SENDING"       -> "under way"
         [] row.status = "SMTP_ACCEPTED" -> "accepted"
         [] row.status = "FAILED"        -> "failed"
         [] row.status = "UNKNOWN"       -> "unknown"

Outbox == INSTANCE MailOutbox WITH
  standing <- [n \in Notices |-> Said(notice[n])], mails <- delivered

\* The worker implements the outbox: whatever is interrupted, only a person
\* sends again what may have been mailed (flush, onModuleInit, retry).
ImplementsMailOutbox == Outbox!MailOutboxSpec

=============================================================================
