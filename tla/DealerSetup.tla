----------------------------- MODULE DealerSetup ----------------------------
(***************************************************************************)
(* The set-up of a dealer (SetupService): the agreement with the service,  *)
(* the company's profile, a trial mail, and the completion that opens the  *)
(* rest of the application (SetupGuard).  It is done beside the dealer's   *)
(* catalogs, which need the agreement alone.                               *)
(*                                                                         *)
(* The agreement is the one the process was started with.  Acceptances     *)
(* are never undone, so the check of one and the statement that follows    *)
(* are one step; a completion is three.                                    *)
(***************************************************************************)
EXTENDS Catalogs

CONSTANTS
  Contracts,       \* texts of the agreement, deployment after deployment
  PresetCatalogs,  \* the catalogs of the deployment are there
  MaxSaves         \* bound: revisions of the profile

\* `complete': it has what a completion asks for; `preset': presetReviewed.
Profiles == [complete : BOOLEAN, preset : BOOLEAN]

SetupRows == [revision : 1..MaxSaves, profile : Profiles,
              mailed : BOOLEAN, completed : BOOLEAN]

\* What a completion has read of the row, and of the catalogs.
CompletingRows == [row : SetupRows, approved : BOOLEAN \cup {None}]

ASSUME DealerSetupAssumption ==
  /\ PresetCatalogs \in BOOLEAN
  /\ MaxSaves \in Nat \ {0}
  /\ None \notin SetupRows
  /\ None \notin CompletingRows

VARIABLES
  contract,    \* currentContract()
  accepted,    \* the DealerAgreement rows
  setup,       \* the DealerSetup row, or None
  completing   \* what the completions under way have read

setupVars == <<contract, accepted, setup, completing>>

SetupTypeOK ==
  /\ TypeOK
  /\ contract \in Contracts /\ accepted \subseteq Contracts
  /\ setup \in SetupRows \cup {None}
  /\ completing \in [Calls -> CompletingRows \cup {None}]

SetupInit ==
  /\ Init
  /\ contract \in Contracts /\ accepted = {}
  /\ setup = None
  /\ completing = [k \in Calls |-> None]

Agreed == contract \in accepted

Accept ==
  /\ ~Agreed
  /\ accepted' = accepted \cup {contract}
  /\ UNCHANGED <<contract, setup, completing>>

\* save: the first one makes the row, the next ones undo the completion.
Save(profile) ==
  /\ Agreed
  /\ IF setup = None
     THEN setup' = [revision |-> 1, profile |-> profile, mailed |-> FALSE, completed |-> FALSE]
     ELSE /\ setup.revision < MaxSaves
          /\ setup' = [setup EXCEPT !.revision = @ + 1, !.profile = profile,
                                    !.completed = FALSE]
  /\ UNCHANGED <<contract, accepted, completing>>

\* testMail, when the server takes the mail.
TestMail ==
  /\ Agreed /\ setup # None
  /\ setup' = [setup EXCEPT !.mailed = TRUE]
  /\ UNCHANGED <<contract, accepted, completing>>

\* finish reads the row, then counts the approved catalogs.
ReadSetup(k) ==
  /\ Agreed /\ completing[k] = None /\ setup # None
  /\ completing' = [completing EXCEPT ![k] = [row |-> setup, approved |-> None]]
  /\ UNCHANGED <<contract, accepted, setup>>

CountApproved(k) ==
  /\ completing[k] # None /\ completing[k].approved = None
  /\ completing' = [completing EXCEPT ![k].approved =
       \E c \in DOMAIN catalogs : catalogs[c].status = "APPROVED"]
  /\ UNCHANGED <<contract, accepted, setup>>

Completable(row, approved) ==
  /\ row.profile.complete /\ row.mailed
  /\ approved \/ (row.profile.preset /\ PresetCatalogs)

\* Faulty: the row is written whatever it has become.
AnyRevision(row) == TRUE

SameRevision(row) == setup.revision = row.revision

Complete(k) ==
  /\ completing[k] # None /\ completing[k].approved # None
  /\ setup' = IF Completable(completing[k].row, completing[k].approved)
                 /\ SameRevision(completing[k].row)
              THEN [setup EXCEPT !.completed = TRUE] ELSE setup
  /\ completing' = [completing EXCEPT ![k] = None]
  /\ UNCHANGED <<contract, accepted>>

\* The process is started again, with this agreement or another.
Redeploy(text) ==
  /\ contract' = text
  /\ completing' = [k \in Calls |-> None]
  /\ call' = [k \in Calls |-> None]
  /\ executing' = [j \in 1..MaxJobs |-> None]
  /\ UNCHANGED <<rows, jobs, accepted, setup>>

SetupStep ==
  \/ Accept
  \/ \E profile \in Profiles : Save(profile)
  \/ TestMail
  \/ \E k \in Calls : ReadSetup(k) \/ CountApproved(k) \/ Complete(k)

\* SetupGuard lets the requests on catalogs pass once the agreement is there.
SetupNext ==
  \/ SetupStep /\ UNCHANGED vars
  \/ Agreed /\ Next /\ UNCHANGED setupVars
  \/ \E text \in Contracts : Redeploy(text)

SetupSpec == SetupInit /\ [][SetupNext]_<<vars, setupVars>>

-----------------------------------------------------------------------------
(* Properties.                                                             *)

\* A set-up that counts as completed is complete as it stands: its profile,
\* a mail that went out, an agreement, and catalogs that were there, be they
\* saved, mailed or deleted while the completion ran (save, finish).
CompletedAsChecked ==
  setup # None /\ setup.completed =>
    /\ setup.profile.complete /\ setup.mailed /\ accepted # {}
    /\ \/ setup.profile.preset /\ PresetCatalogs
       \/ \E c \in DOMAIN catalogs : catalogs[c].approved # None
=============================================================================
