----------------------------- MODULE NoticeMail -----------------------------
(***************************************************************************)
(* What becomes of a notice handed to the SMTP server                      *)
(* (ProposalMailTransport.sendNotice, as its callers read it): the server  *)
(* took it, it certainly did not, or nobody knows.                         *)
(***************************************************************************)
EXTENDS Null

Outcomes == {"SMTP_ACCEPTED", "FAILED", "UNKNOWN"}
=============================================================================
