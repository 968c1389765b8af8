----------------------------- MODULE MailOutbox -----------------------------
(***************************************************************************)
(* What an outbox of notices promises, whoever works on it and however     *)
(* often it is interrupted: a mail goes out once, and once more only for   *)
(* each time a person decided to send in doubt; what is said to be         *)
(* accepted was mailed, what is said to have failed was not; what may have *)
(* been mailed is never tried again by itself.                             *)
(***************************************************************************)
EXTENDS Naturals

CONSTANT Notices

VARIABLES
  standing,     \* what is said of each notice
  mails,        \* how many mails went out for it
  doubts        \* how often a person sent it again in doubt

outboxVars == <<standing, mails, doubts>>

Standings == {"none", "waiting", "under way", "accepted", "failed",
              "unknown", "dropped"}

OutboxInit ==
  /\ standing = [n \in Notices |-> "none"]
  /\ mails = [n \in Notices |-> 0]
  /\ doubts = [n \in Notices |-> 0]

Move(n, from, to) ==
  /\ standing[n] \in from
  /\ standing' = [standing EXCEPT ![n] = to]

\* A notice is queued, or has failed for want of an address.
Queue(n) ==
  /\ Move(n, {"none"}, "waiting") \/ Move(n, {"none"}, "failed")
  /\ UNCHANGED <<mails, doubts>>

Try(n) ==
  /\ Move(n, {"waiting"}, "under way")
  /\ UNCHANGED <<mails, doubts>>

\* There is no reader for it any more.
Drop(n) ==
  /\ Move(n, {"waiting"}, "dropped")
  /\ UNCHANGED <<mails, doubts>>

\* The mail goes out; nobody may learn of it.
Leave(n) ==
  /\ standing[n] \in {"under way", "unknown"}
  /\ mails[n] <= doubts[n]
  /\ mails' = [mails EXCEPT ![n] = @ + 1]
  /\ UNCHANGED <<standing, doubts>>

\* What became of the mail is learnt, late perhaps.
Learn(n) ==
  /\ \/ mails[n] > 0 /\ Move(n, {"under way", "unknown"}, "accepted")
     \/ mails[n] <= doubts[n] /\ Move(n, {"under way", "unknown"}, "failed")
  /\ UNCHANGED <<mails, doubts>>

\* It is not known what became of some mails.
LoseTrack(lost) ==
  /\ \A n \in lost : standing[n] = "under way"
  /\ standing' = [n \in Notices |-> IF n \in lost THEN "unknown" ELSE standing[n]]
  /\ UNCHANGED <<mails, doubts>>

\* A person sends again what has failed, or what may have been mailed.
Again(n) ==
  /\ Move(n, {"failed"}, "waiting")
  /\ UNCHANGED <<mails, doubts>>

AgainInDoubt(n) ==
  /\ Move(n, {"unknown"}, "waiting")
  /\ doubts' = [doubts EXCEPT ![n] = @ + 1]
  /\ UNCHANGED mails

OutboxNext ==
  \/ \E n \in Notices : \/ Queue(n) \/ Try(n) \/ Drop(n) \/ Leave(n)
                        \/ Learn(n) \/ Again(n) \/ AgainInDoubt(n)
  \/ \E lost \in SUBSET Notices : LoseTrack(lost)

MailOutboxSpec == OutboxInit /\ [][OutboxNext]_outboxVars

=============================================================================
