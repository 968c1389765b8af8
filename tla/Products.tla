------------------------------ MODULE Products ------------------------------
(***************************************************************************)
(* The seller's side of one customer case (CustomerCase row): its product  *)
(* rows, their pictures, the customer's data and the numbered proposals.   *)
(* Every browser page of the seller works on what it loaded some time ago; *)
(* the server accepts a mutation only if the row's `version' or the case's *)
(* `financeRevision' is still the one that page shows.                     *)
(*                                                                         *)
(* A request is loaded (the page is rendered, the seller fills the form),  *)
(* received (the handler's reads before its transaction) and committed     *)
(* (its $transaction callback, one atomic step).  A request can be         *)
(* delivered again at any time: its commit stays enabled.                  *)
(*                                                                         *)
(* The rows `project.accepted' and `project.confirmed' are written by      *)
(* module Negotiation, which extends this one.                             *)
(***************************************************************************)
EXTENDS Null, Naturals, FiniteSets

CONSTANTS
  Requests,     \* request keys (UUIDs made by the page), one per submission
  Items,        \* identifiers of product rows
  Configs,      \* configurations a product can have, price included
  Kinds,        \* kinds of picture: one view of the configured product each
  Clients,      \* customer data: name, address, e-mail
  Proposals,    \* identifiers of proposal rows
  Operations    \* the operations the sellers use

AllOperations == {"add", "update", "archive", "pictures", "customer",
                  "propose", "costs"}

ItemRows == [requestKey: Requests, config: Configs, version: Nat,
             pictures: [Kinds -> Configs \cup {None}],
             archived: BOOLEAN, lastKey: Requests \cup {None}]

\* What a proposal freezes of the case: the products and the customer.
Snapshots == [items: [Items -> ItemRows \cup {None}], client: Clients]

ProposalRows == [number: Nat, requestKey: Requests, snapshot: Snapshots,
                 lapsed: BOOLEAN]

Pages == [revision: Nat, items: [Items -> ItemRows \cup {None}],
          client: Clients]

\* What a form carries, by operation; `flag' is its check box.
Forms ==
  [op: {"add"}, item: {None}, config: Configs, kinds: {{}}, flag: {FALSE},
   client: {None}] \cup
  [op: {"update"}, item: Items, config: Configs, kinds: {{}}, flag: {FALSE},
   client: {None}] \cup
  [op: {"archive"}, item: Items, config: {None}, kinds: {{}}, flag: BOOLEAN,
   client: {None}] \cup
  [op: {"pictures"}, item: Items, config: {None},
   kinds: SUBSET Kinds \ {{}}, flag: {FALSE}, client: {None}] \cup
  [op: {"customer"}, item: {None}, config: {None}, kinds: {{}},
   flag: {FALSE}, client: Clients] \cup
  [op: {"propose"}, item: {None}, config: {None}, kinds: {{}},
   flag: {FALSE}, client: {None}] \cup
  [op: {"costs"}, item: {None}, config: {None}, kinds: {{}},
   flag: BOOLEAN, client: {None}]

Submissions == [form: Forms, seen: Pages, received: BOOLEAN,
                old: ItemRows \cup {None}]

ASSUME ProductsAssumption ==
  /\ Operations \subseteq AllOperations
  /\ None \notin Requests \cup Configs \cup Proposals \cup Items
  /\ None \notin ItemRows
  /\ None \notin ProposalRows
  /\ None \notin Submissions

VARIABLES
  project,      \* the CustomerCase row
  items,        \* its CaseItem rows
  proposals,    \* its CaseProposal rows
  activities,   \* request keys of its CaseActivity rows
  request       \* what each page has submitted

productVars == <<project, items, proposals, activities, request>>

Projects == [financeRevision: Nat, proposalRevision: Nat, client: Clients,
             accepted: Proposals \cup {None},
             confirmed: Proposals \cup {None}, costsComplete: BOOLEAN]

ProductsTypeOK ==
  /\ project \in Projects
  /\ items \in [Items -> ItemRows \cup {None}]
  /\ proposals \in [Proposals -> ProposalRows \cup {None}]
  /\ activities \subseteq Requests
  /\ request \in [Requests -> Submissions \cup {None}]

\* A case just opened by CasesService.create.
ProductsInit ==
  /\ \E cl \in Clients : project =
       [financeRevision |-> 0, proposalRevision |-> 0, client |-> cl,
        accepted |-> None, confirmed |-> None, costsComplete |-> FALSE]
  /\ items = [i \in Items |-> None]
  /\ proposals = [p \in Proposals |-> None]
  /\ activities = {}
  /\ request = [r \in Requests |-> None]

-----------------------------------------------------------------------------
(* A page is loaded and submitted; the server receives the request.        *)

\* What CasesService.get returns to the page.
Page == [revision |-> project.financeRevision, items |-> items,
         client |-> project.client]

\* The seller fills a form with what the page shows of the case.
Load(r, f) ==
  /\ request[r] = None
  /\ f.op \in Operations
  /\ f.item # None => items[f.item] # None
  /\ request' = [request EXCEPT ![r] =
       [form |-> f, seen |-> Page, received |-> FALSE, old |-> None]]
  /\ UNCHANGED <<project, items, proposals, activities>>

\* Faulty: no request is recognised as applied before.
NeverApplied(r) == FALSE

\* The row's lastMutationKey or the unique request key: already applied.
AlreadyApplied(r) ==
  CASE request[r].form.op = "add" ->
         \E i \in Items : items[i] # None /\ items[i].requestKey = r
    [] request[r].form.op \in {"update", "pictures"} ->
         items[request[r].form.item].lastKey = r
    [] request[r].form.op = "propose" ->
         \E p \in Proposals : proposals[p] # None /\ proposals[p].requestKey = r
    [] OTHER -> FALSE

\* The reads a handler makes before its transaction; a request that was
\* applied before returns here.  Received again, it reads again.
Receive(r) ==
  /\ request[r] # None
  /\ ~AlreadyApplied(r)
  /\ request' = [request EXCEPT
       ![r].received = TRUE,
       ![r].old = IF request[r].form.op = "pictures"
                    THEN items[request[r].form.item] ELSE None]
  /\ UNCHANGED <<project, items, proposals, activities>>

Submitted(r, op) == request[r] # None /\ request[r].form.op = op /\ request[r].received

-----------------------------------------------------------------------------
(* The transactions.                                                       *)

\* Faulty: only a confirmed offer locks the case.
UnlockedUnlessConfirmed == project.confirmed = None

\* CasesService.lockForProducts: no offer is accepted or confirmed.
Unlocked == project.accepted = None /\ project.confirmed = None

\* Faulty: a mutation forgets financeRevision.
NotBumped(p) == p

\* Every mutation of the case moves financeRevision; one of its products
\* also withdraws the declaration that all costs are entered.
Bumped(p) == [p EXCEPT !.financeRevision = @ + 1]
BumpedOpen(p) == [p EXCEPT !.financeRevision = @ + 1, !.costsComplete = FALSE]

NoPictures == [k \in Kinds |-> None]

AddItem(r, i) ==
  /\ Submitted(r, "add")
  /\ ~AlreadyApplied(r)
  /\ Unlocked
  /\ items[i] = None
  /\ items' = [items EXCEPT ![i] =
       [requestKey |-> r, config |-> request[r].form.config, version |-> 1,
        pictures |-> NoPictures, archived |-> FALSE, lastKey |-> None]]
  /\ project' = BumpedOpen(project)
  /\ UNCHANGED <<proposals, activities, request>>

\* Faulty: the version is read from the row it should be compared with.
CurrentVersion(r) == items[request[r].form.item].version

\* The version the page showed of the product it edits.
SeenVersion(r) == request[r].seen.items[request[r].form.item].version

\* A configuration saved anew drops the pictures of the old one.
Reconfigured(row, c, r) ==
  [row EXCEPT !.version = @ + 1, !.config = c, !.pictures = NoPictures,
              !.lastKey = r]

UpdateItem(r) ==
  LET i == request[r].form.item IN
  /\ Submitted(r, "update")
  /\ Unlocked
  /\ items[i].version = SeenVersion(r)
  /\ ~items[i].archived
  /\ items' = [items EXCEPT ![i] =
                  Reconfigured(items[i], request[r].form.config, r)]
  /\ project' = BumpedOpen(project)
  /\ UNCHANGED <<proposals, activities, request>>

ArchiveSet(row, flag) == [row EXCEPT !.version = @ + 1, !.archived = flag]

ArchiveItem(r) ==
  LET i == request[r].form.item IN
  /\ Submitted(r, "archive")
  /\ Unlocked
  /\ items[i].version = SeenVersion(r)
  /\ items' = [items EXCEPT ![i] =
                  ArchiveSet(items[i], request[r].form.flag)]
  /\ project' = BumpedOpen(project)
  /\ UNCHANGED <<proposals, activities, request>>

\* The pictures a page rendered of its copy of the product, merged into those
\* of the row `old' that the handler read before the transaction.
Pictured(row, old, kinds, copy, r) ==
  [row EXCEPT !.version = @ + 1, !.lastKey = r,
              !.pictures = [k \in Kinds |-> IF k \in kinds THEN copy.config
                                                           ELSE old.pictures[k]]]

\* CaseMediaService.save takes no product lock: pictures may still be
\* replaced after the acceptance.
SavePictures(r) ==
  LET i == request[r].form.item IN
  /\ Submitted(r, "pictures")
  /\ items[i].version = SeenVersion(r)
  /\ ~items[i].archived
  /\ items' = [items EXCEPT ![i] =
                  Pictured(items[i], request[r].old, request[r].form.kinds,
                           request[r].seen.items[i], r)]
  /\ project' = Bumped(project)
  /\ UNCHANGED <<proposals, activities, request>>

\* CaseManagementService.customer: allowed whatever was accepted.
UpdateCustomer(r) ==
  /\ Submitted(r, "customer")
  /\ r \notin activities
  /\ project.financeRevision = request[r].seen.revision
  /\ project' = [Bumped(project) EXCEPT !.client = request[r].form.client]
  /\ activities' = activities \cup {r}
  /\ UNCHANGED <<items, proposals, request>>

Active(rows) == {i \in Items : rows[i] # None /\ ~rows[i].archived}

\* The products a proposal lists: those not archived.
Listed(rows) == [i \in Items |-> IF i \in Active(rows) THEN rows[i] ELSE None]

\* CasesService.proposal; the terms may carry a date already past.
Propose(r, p, lapsed) ==
  /\ Submitted(r, "propose")
  /\ ~AlreadyApplied(r)
  /\ Active(items) # {}
  /\ Unlocked
  /\ project.financeRevision = request[r].seen.revision
  /\ proposals[p] = None
  /\ proposals' = [proposals EXCEPT ![p] =
       [number |-> project.proposalRevision + 1, requestKey |-> r,
        snapshot |-> [items |-> Listed(items), client |-> project.client],
        lapsed |-> lapsed]]
  /\ project' = [Bumped(project) EXCEPT !.proposalRevision = @ + 1]
  /\ UNCHANGED <<items, activities, request>>

\* FinanceService.state, for the declaration that all costs are entered (or
\* its withdrawal).  The works and documents that may still forbid it, and the
\* delivery flag, are not modelled: here it is never refused for them.
DeclareCosts(r) ==
  /\ Submitted(r, "costs")
  /\ project.financeRevision = request[r].seen.revision
  /\ project' = [Bumped(project) EXCEPT !.costsComplete = request[r].form.flag]
  /\ UNCHANGED <<items, proposals, activities, request>>

\* The last day of validity of a proposal passes.
Lapse(p) ==
  /\ proposals[p] # None
  /\ ~proposals[p].lapsed
  /\ proposals' = [proposals EXCEPT ![p].lapsed = TRUE]
  /\ UNCHANGED <<project, items, activities, request>>

ProductsNext ==
  \/ \E r \in Requests, f \in Forms : Load(r, f)
  \/ \E r \in Requests : Receive(r)
  \/ \E r \in Requests, i \in Items : AddItem(r, i)
  \/ \E r \in Requests : UpdateItem(r)
  \/ \E r \in Requests : ArchiveItem(r)
  \/ \E r \in Requests : SavePictures(r)
  \/ \E r \in Requests : UpdateCustomer(r)
  \/ \E r \in Requests, p \in Proposals, lapsed \in BOOLEAN :
        Propose(r, p, lapsed)
  \/ \E r \in Requests : DeclareCosts(r)
  \/ \E p \in Proposals : Lapse(p)

=============================================================================
