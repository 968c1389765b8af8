# Verification of pergolando-backend

TLA+ models of the back end in this repository (NestJS, Prisma, SQLite), TLC
runs that check them on small instances, and TLAPS proofs of the results that
matter for every instance.

## 1. Inventory

One process serves one tenant; its state is one SQLite file. A *case*
(`CustomerCase`) is the record everything hangs from: products, proposals,
invitations, ledger, orders, installation, handover, support.

How the parts work together: HTTP handlers read rows, check, then run one
`prisma.$transaction` callback. The rows are the only shared state; there is no
in-process lock. What protects a handler from another is (a) that transaction
callbacks are serialised by SQLite's single writer, (b) guarded updates
(`updateMany` with the expected revision, version or status in its `where`, and
a check of `count`), (c) unique keys (`requestKey`) that make a retried call a
no-op. Everything read *before* the transaction can be stale inside it.

| Component | State | Operations | Hard behaviour | What makes it correct |
|---|---|---|---|---|
| Offer negotiation (`cases.service`, `invitations.service`, `media.service`) | case: `acceptedProposalId`, `confirmedProposalId`, `financeRevision`, `proposalRevision`; items with `version`, `archivedAt`; proposals (immutable snapshots); invitations with `revokedAt`, `acceptedAt`, `rejectedAt`, `confirmedAt` | add / update / archive product, save pictures, create proposal, create / revoke invitation, client accepts, seller confirms or rejects | the client's accept reads its invitation, then works; in between the seller may revoke, re-invite, confirm another; two clients, two tabs, retries; expiry | at most one live link; one pending or confirmed agreement per case, backed by exactly the right invitation; products frozen while an agreement stands; a confirmed agreement never changes |
| Offer e-mail code (`offer-email-code.service`) | one challenge per invitation: hash, attempts, sends, `consumedAt`, expiry, mail status | request, verify, consume (inside accept) | code replaced between verify and consume; attempt counter under concurrency; mail answer arriving late | no acceptance on a replaced, used or expired code; at most 5 tries per code, 5 sends |
| Case notifications (`notifications.service`) | outbox rows PENDING / SENDING / SMTP_ACCEPTED / FAILED / UNKNOWN, in-process `running` flag, 30 s timer | enqueue (in the business transaction), flush, recovery at boot | crash between claim, send and completion; answer lost | a message is handed to SMTP at most once; the row says what happened; every queued row is eventually settled |
| Support notifications (`support-notifications.service`) | as above plus attempt history, `startedAt`, cancellation on changed recipient or revoked access | enqueue, flush, recover after 5 min, retry of FAILED | recovery racing a late answer, retry racing completion | an uncertain or accepted message is never sent again; history and row agree |
| Proposal deliveries (`deliveries.service`) | delivery rows per proposal and request key | preview, send | crash after the row exists; two sends | one row per key, no two concurrent sends within two minutes (kept as a guard; a later second mail is not excluded) |
| Ledger (`finance.service`, `finance-summary`, `payments.service`) | append-only entries with `supersedesId` / `absorbsEntryId`, `financeRevision`, `costsComplete`, `deliveredAt`, payment checks | add, replace, state, check | stale revision; who may replace what; sums over the active entries | replacement is linear; each entry counts once; `costsComplete` only while nothing is pending |
| Supplier orders (`orders.service`, `order-costs`) | batch per confirmed proposal, events with revision, deliveries | prepare, send, event | prerequisites change between preview and send; uncertain e-mail | one batch per proposal; no second mail unless the first surely failed; an invoiced cost is never replaced by a forecast |
| Installation (`installation.service`) | event history per case, latest = current plan | save | two cases wanting the same crew; prerequisites changing later | no crew double-booked, with support visits included |
| Handover (`handover.service`) | reports with revision, linked files | save | ledger's delivered flag and the latest report | `deliveredAt` agrees with the latest report |
| Support tickets and access (`support.service`) | accesses, tickets, events, photos | create / revoke access, invite, ticket, reply, update | access revoked between check and write; invite mail crash | one live access; ticket revision = number of events |
| Support works and quotes (`support-work`, `support-quote`) | work status and scope, quotes, costs | create, save, issue, decide | quote decided while the work changes | chargeable work is confirmed only on an accepted quote of the same scope; one current quote |
| Spare-part orders (`support-part-order`, `-mail`, `-document`) | orders, events, mail deliveries, in-process `active` set, document links | create, event, send, recover, resolve, record document | late SMTP answer after manual resolution, crash | ordered quantity within need; returns within arrivals; no second mail on an uncertain one |
| Support settlement (`support-settlement.service`) | revenue and cash entries of a work | record | corrections of corrections | refunds never exceed payments; revenue within the quote |
| Dealer catalogs (`catalogs.service`) | catalog with revision, sources, chunks, checks | create, update, upload, generate, review, approve, remove | changes after the checks were made | an approved catalog was fully reviewed at exactly its revision |
| Catalog conversion (`conversion.service`) | jobs, in-process `running` / `active` | start, execute, status, answer | job outliving its draft, restart | result applied only to the revision it was computed from |
| Dealer setup (`setup.service`, `setup.guard`) | profile revision, agreement, mail check | accept, save, test, finish | profile edited while finishing | `completedAt` refers to the reviewed revision |
| Accounts (`auth.service`, `verification-code.service`, `prisma-session-store`) | sellers, codes, sessions | register, verify, login, reset, logout | read-modify-write of the failure counter; resets racing logins; no transaction anywhere | guesses bounded, sessions do not outlive the password, failures counted |
| Case management, files, imported items | activities, files, products from catalogs | add / complete activity, add / remove file | same revision discipline | as for the case |
| Pricing (`bundle`, `commercial-engine`, `table-pricing`) | the catalogs loaded at boot | price | missing or invalid bundles; rounding, boundaries | a product is priced by its own catalog or refused |
| Rendering, perspective, 3D (`render`, `scene3d`, `perspective`) | none of their own; three services called over HTTP | validate, draw, generate, calibrate | services missing, silent, failing, or answering what cannot be read; a retry | failures have names; the generator is shown the product asked for |
| Mail transport, PDF, health | none | call out | time-outs | not modelled: input and output only |


## 2. Plan

The order follows what would hurt most: first the agreement between dealer and
customer, then everything that sends mail, then money, then appointments and
material, then catalogs and accounts.

| # | Modules | Composes / refines | Questions for TLC | Results for TLAPS |
|---|---|---|---|---|
| 1 (done) | `Products`, `Negotiation`, `Agreement` | `Negotiation` EXTENDS `Products` and implements `Agreement` | stale pages, repeated deliveries, links racing decisions | all its safety properties; the refinement |
| 2 (done) | `OfferEmailCode` | abstracts `Negotiation`'s link to its status | overlapping requests and acceptances | all its safety properties |
| 3 (done) | `CaseOutbox` | | crashes, lost answers, failing statements, liveness of the worker | its safety properties |
| 4 (done) | `MailOutbox` (abstract), `SupportOutbox` | `CaseOutbox` and `SupportOutbox` implement `MailOutbox`: a mail may be lost or in doubt, never silently doubled | recovery racing a late answer, retry racing completion, cancellation on changed access | one inductive invariant per worker, the two refinements |
| 5 (done) | `CustomerLinks` | the rows of `deliveries.service` and of the support's links; `Negotiation`, `Products`, `Scheduling` as its environment | overlapping sends, a row left SENDING by a crash, access withdrawn between check and write | one live access, at most one invitation each |
| 6 (done) | `Ledger` | entries of `finance`, `order-costs`, `support-work-costs`, `support-settlement` | replacing, absorbing, correcting in any order | each entry is replaced at most once; refunds within payments |
| 7 (done) | `Orders` | EXTENDS `Ledger`; the confirmed proposal as its environment | agreement or deposit changing between preview and send; invoices before confirmations | no order reaches a producer twice |
| 8 (done) | `SupportWork`, `Scheduling` | `Scheduling` EXTENDS `SupportWork`: installations, works of the support and handovers of several cases | crews booked by two services; plans gone stale | no crew is booked twice |
| 9 (done) | `SupportWork` | works, quotes, bills; run by both modules that extend it; their costs in `Ledger` | a quote decided while the work changes | chargeable work rests on an accepted quote of its scope |
| 10 (done) | `PartOrders`; `PartDocuments` EXTENDS `Ledger` | mail as in 4; documents on the costs of works | late answers after a manual resolution; records and costs corrected in any order | returned ≤ arrived ≤ ordered ≤ needed; no order is made twice; documents within the costs |
| 11 (done) | `Catalogs`; `DealerSetup` EXTENDS it; `Accounts` | a set-up is completed on a catalog | approval against change, jobs outliving drafts, resets racing logins | an approved catalog is the one reviewed; guesses bounded, sessions renewed |
| 12 (done) | `StudioForms`; `Studio` EXTENDS it | the services as nondeterministic answers | what each failure is answered with, what the generator is shown | both, as one invariant of the requests |
| 13 | `Pricing` | operators only | the engine against a reference definition on bounded inputs | bounds of the rounding helpers |

Every safety property that a run checks is proved (section 6); row 13 is what the plan
has left.

## 3. Assumptions shared by all modules

* Each `prisma.$transaction` callback, and each single statement outside of
  one, is one atomic step: SQLite has a single writer and Prisma one connection
  to it. What a handler reads before its transaction is a step of its own, and
  stale afterwards. An exception inside the callback undoes all of it, so a
  failing guard is an action that is not enabled.
* One process serves the database (`CaseOutbox` depends on it: its `running`
  flag is a variable of the process, and its recovery at boot takes every row
  being sent for one of its own). `SupportOutbox` does without: its code claims
  rows in transactions and recovers by age, so it is checked with two processes;
  so is `PartOrders`, for the same reason. `Catalogs` depends on one process, too:
  the conversions under way are known to its memory alone.
* Two services do without transactions and are modelled statement by statement:
  `Accounts`, and what precedes the transaction in `Orders`, `CustomerLinks` and
  `Catalogs`.
* Times are compared, never computed with: expiry is an action that may happen
  at any moment (`Lapse`, `Expire`, `TimePasses`), except in `OfferEmailCode`,
  whose pauses and validities need a clock.
* Prices, texts, PDFs and layouts are data that no property tells apart: a
  configuration, a customer or an e-mail address is a model value.
* A request refused because its page is stale (a revision that is not the row's)
  or because its key was used before changes nothing. Where every handler of a
  row asks for the current revision, a page is therefore not modelled and a
  refused request is a step not taken; `Products` and `SupportWork`, where some
  handlers do not ask, have pages.

## 4. Modules

### Products (with Negotiation: the case under edit)

`project`, `items`, `proposals`, `activities` are the rows of one
`CustomerCase` and its children. `request[r]` is what the page that made request
key `r` holds: the filled form, the case as the page *saw* it, whether the server
has received it, and for the pictures the row the handler read before its
transaction (`old`). A submission is three steps, `Load`, `Receive` and one of
the transactions, with any other page's steps between; nothing removes a
submission, so every commit may be delivered again.

| Action | Code |
|---|---|
| `AddItem`, `UpdateItem`, `ArchiveItem` | `CasesService.add`, `updateItem`, `archiveItem` |
| `SavePictures` | `CaseMediaService.save` (no product lock there: it stays possible after an acceptance) |
| `UpdateCustomer` | `CaseManagementService.customer` |
| `Propose` | `CasesService.proposal` |
| `DeclareCosts` | `FinanceService.state`; its other reasons to refuse are left out, so it is allowed more often than in the code |
| `Lapse` | the end of a proposal's `validUntil` |

Products added from an imported catalog (`ImportedCaseItemsService`) go through
the same transactions as `AddItem` and `UpdateItem`.

### Negotiation and Agreement

`invitation` holds the links, `accepting` the links for which an acceptance has
passed the checks made before its transaction, `notices` the outbox keys.
`Invite` withdraws every link still open; `CheckAcceptance` and `Accept` are the
two halves of `accept`; `Revoke`, `Confirm`, `Reject`, `Expire` are the rest.
A link never leaves `accepting`: a delivery may be repeated.

`Agreement` is what both parties may rely on: offers made, one asked for, closed
or refused, products frozen meanwhile. `Deal` in `Negotiation` maps the rows to
it: offered = the (number, snapshot) pairs of the proposal rows, goods = the
configuration and archive flag of each product, asked = the terms of
`acceptedProposalId`, closed = `confirmedProposalId` not null. Versions, pictures
and request keys are not part of the agreement.

### OfferEmailCode

One link with its code row. `request[r]` is a call of `requestCode`, `r` at the
same time standing for the code that call draws; `attempt[a]` is a call of
`accept` in the phases *start*, *read* (verify has read the row), *ready* (the
guess was right). `StoreCode`, `Mail` and `RecordOutcome` are the transaction, the
mail and the final update of `request`; `ReadCode` and `Compare` the two steps of
`verify`; `Accept` is the transaction of `accept`, with `consume` in it. Whether
a code is required is read from the environment and does not change while the
process runs. The modelling assumption: a code is known only to who reads its
mail (`Readable`); nobody hits a six-digit code by chance.

### CaseOutbox

The rows of `CaseNotification` and the worker `flush`, one action per awaited
statement: `StartFlush`, `Claim`, `Answer`, `Record`, `EndFlush`; `Deliver` is the
SMTP server taking the mail, which the process may never learn of.
`StatementFails` and `Restart` are the faults, each possible at every point.
`delivered`, `doubts` and `stranded` are history variables: the code does not
have them, the properties need them.

`Null` declares the one model value that stands for a missing column, field or row in
every module; `NoticeMail` the three outcomes of handing a notice to the SMTP server,
for `CaseOutbox` and `SupportOutbox`.

`MailOutbox` says what an outbox promises, for both workers: a mail goes out
once, and once more for each time a person sent it again in doubt; what may have
been mailed is never tried again by itself. `Said` maps a row's status to it
(`PENDING` waits, `SENDING` is under way, `CANCELLED` is dropped, the others are
themselves); the mails are `delivered`, the doubts `doubts`.

### SupportOutbox

The rows of `SupportNotification` with their attempts, and for each process what
its `flush` is doing: `StartFlush` (with `recover`), `ReadPending`, then for each
row `PassOver`, `Cancel` or `Claim` (the three ends of the claiming transaction),
`Deliver`, `Answer`, `Record`, and `EndFlush`. `Age` is the five minutes after
which `recover` gives a row up, whether or not its mail is still under way: the
answer may come later and is then recorded all the same. Whether the reader's
address or access has changed is a free choice (`Cancel`). Nothing may be
retried but what surely failed, so there are no doubts here.

### SupportWork

`work`, `quotes` and `billed` are the rows of `SupportWork`, `SupportQuote` and,
of the settlement's ledger entries, the quote they refer to. A *scope* is what
`supportScope` compares: coverage and parts, here how many of them are required.
A page matters where a quote is issued: the seller prices what the page shows,
the server stores the scope of the row, and only the two revisions in the
request keep them together. All other handlers overwrite with the whole form,
so the form is a free choice and a stale page is a step not taken.

| Action | Code |
|---|---|
| `CreateWork`, `SaveWork` | `SupportWorkService.create`, `save`, with the checks against quotes, entries, orders, other works and installations |
| `Issue`, `Decide`, `Lapse` | `SupportQuoteService.issue`, `decide`, the end of `validUntil` |
| `Bill` | `SupportSettlementService.record`, as to work and quote |

A crew is known by its name; `CrewKey` is `crewKey`, which ignores case and
blanks: two spellings may be one crew. Bookings are half-open intervals.

### PartOrders (with SupportWork)

`orders[w]` are the orders of a work, `mails[w]` their `SupportPartOrderDelivery`
rows. `CreateOrder` is `SupportPartOrderService.create`; `SentByHand`, `Receipt`,
`Return`, `CancelOrder` are the kinds of `event` (a `CONFIRMATION` only adds an
event). The totals of arrivals and returns are in the order; the code finds them
in the last event of the kind. `Send` is the claim of
`SupportPartOrderMailService.send`, which builds the preview again; `Deliver` and
`Answer` are the SMTP server; `Record` is the transaction that writes the
outcome, `RecordFails` its failure. `sender` is the process that has the mail in
its `active` set; `Restart` empties that set, `Recover` gives up what is SENDING
and not in the set of the process whose timer runs, `Resolve` is the seller's
word, who has asked the supplier.

### Scheduling (with SupportWork)

`plan` is the latest `CaseInstallationEvent` of each case, `handover` the outcome
of the latest report, `deliveredAt` whether the case counts as delivered, which
the ledger's page writes as well (`DeclareDelivery`). `supply` is what
`readiness` and the handover read of the orders to producers. `SavePlan` and
`SaveHandover` are the `save` of the two services; the works of `SupportWork`
are booked by `SaveWork`, and both look at all cases of the seller. Its specification
is named `SchedulingSpec`, so that its proofs and those of `PartOrders`, which share
`SupportWork`, can stand in one module.

### Ledger

`entries` are the `CaseFinanceEntry` rows by age, `checks` the latest payment
check of each. `old` and `absorbs` are `supersedesId` and `absorbsEntryId`, as
places; an entry is *active* if none names it. Amounts matter for cash and for
the costs of a work; the others are zero. `Settle` refers to works in the state
`SupportWork` calls agreed, given as the constant `Works`.

| Action | Code |
|---|---|
| `AddEntry` | `FinanceService.add` |
| `CheckPayment` | `CasePaymentsService.check` |
| `RecordOrderCost` | `recordOrderCost`, called by the event of an order |
| `RecordWorkCosts` | `supportWorkCosts`, called by `SupportWorkService.save` |
| `Settle` | `SupportSettlementService.record` |

### PartDocuments (with Ledger)

`records` are the `SupportPartDocument` rows: which share of a supplier's
original is in which cost of a work, and which share of a credit note in the
reduction of that cost against an earlier one (`basis`). `SaveRecord` is the
whole of `SupportPartDocumentService.save`, one transaction that reads everything
afresh. What can go wrong is the sum: records and costs are corrected
independently, in any order. `Ancestry` is the code's walk from a cost along
`supersedesId` inside the costs of one work, stated as the least set closed under
that step.

### Orders (with Ledger)

`batches[p]` are the events of the order batch of proposal `p`, `attempts[<<p, g>>]`
the e-mails of its groups, `call[c]` a call of `send` between the reading of its
preview, its transaction, the mail and the recording of the outcome. The
proposal confirmed and the approval of the catalogs change at any moment
(`AgreementChanges`, `CatalogWithdrawn`). `reached` (did the producer get this
mail) and `backed` (was everything in order when the row was made) are history
variables. `Crash` ends every call and leaves their rows as they are.

Two things the model makes visible, neither contradicted by a comment or a test:
a crash between the row and the answer leaves an order SENDING, and nothing ever
resolves it, so that it is neither sent again nor known to be sent; and the
batch of a proposal stays when the agreement changes, so that a second proposal
confirmed later gets a batch of its own beside it. `ECONNECTION` is a failure for
an offer but an uncertain outcome for an order; each module follows its code.

### CustomerLinks

The offer's mail (`ProposalDeliveriesService`) and the support's link
(`CaseSupportService`). `request[c]` is a request that has checked its link and
not yet written, or has its mail under way. `PrepareOffer`, `ClaimOffer`, `MailLink`,
`RecordMail` are the parts of `send`; `CreateAccess`, `Revoke`, `ClaimInvite`,
`OpenTicket`, `Reply`, `UpdateTicket` the handlers of the support. The state of the
offer's link, the agreement, the customer's address and the delivery belong to
`Negotiation`, `Products` and `Scheduling`; here they change at any moment.
Notices are only queued; `SupportOutbox` mails them. A second send of an offer is
refused only while a row SENDING is younger than two minutes: after a crash, or
with an answer slower than that, an offer can be mailed twice, which the code
accepts and no property forbids; only the support's invitation is proved to arrive
at most once.

### Catalogs

`catalogs`, `sources` and `checks` are the rows of a dealer's catalogs, `jobs` the
`CatalogConversion` rows, `executing` the conversions in memory, `call` the requests
between their reading and their transaction. A dataset is a content with or
without its rules; the number of its trials that have a price is a constant.

| Action | Code |
|---|---|
| `Create`, `BeginRevision`, `CreateRevision`, `Update`, `Remove` | `create` of a first or a next version, `update`, `remove` |
| `Begin`, `Part`, `Finish` | the upload of a document, by chunks that two pages may mix |
| `Check`, `Generate`, `Review`, `Approve` | trials, their review, the approval |
| `Status`, `Start`, `CommitStart`, `Launch` | `status`, and `start` before, in and after its transaction |
| `ReadDraft`, `Convert`, `ApplyResult`, `ConversionFails`, `Answer` | `execute`, and `answer` |

Consequences of the code that the model shows: the limit of conversions under way
is checked before two awaits, so more than that may run (`MaxActive` is not an
invariant); a conversion interrupted by a restart blocks the next one until its row
is 15 minutes old; a next version that was deleted keeps its `previousId`, which is
unique, so the version before can never be revised again.

### DealerSetup (with Catalogs)

`contract` is the agreement the process was started with, `accepted` the
`DealerAgreement` rows, `setup` the row of the set-up, `completing` what the calls of
`finish` have read: `ReadSetup`, `CountApproved` and `Complete` are its three
statements. `Redeploy` starts the process with the same agreement or another.
The mail check is never reset by later saves, and a catalog the completion rested
on may be withdrawn later, or already between the count and the write: nothing in
the code prevents either. `CompletedAsChecked` therefore asks for a catalog that was
approved once; what it catches is the other half, a profile saved while the
completion is checking it.

### Accounts

One address: `seller`, its `codes` of both purposes, its `sessions`. Nothing here is
a transaction: each awaited statement is a step, `call[c].step` the one a call
executes next, and what a call has read stays in it. `password` is a number that
grows with each change. Pauses, validities, the lock and the sessions run out by
steps of time. The counter of failed logins is written from a value read before:
two overlapping failures count once, and a failure overlapping a success undoes the
reset, although `prisma/schema.prisma:22` calls the field the consecutive failures.
`FailuresCounted` therefore states what holds while no write falls between a login's
read and its write (`alone`), which is what the field promises in the absence of
overlaps: overlaps are excluded from it, not caught by it, and the run follows the
counter to its first lock.

Likewise `prisma/schema.prisma:49-51` words the limit of guesses as a code "rejected
outright past MAX_VERIFICATION_ATTEMPTS". `verify` compares first and counts
afterwards, so that under overlap a code is compared with up to one more wrong guess
for each further call that overlaps: `GuessesBounded` is that bound, and in the run
two calls do reach `MaxAttempts + 1`.

### StudioForms and Studio

`StudioForms` has what a request may carry (configurations, masks, scenes, photos,
calibrations), when each form is valid, the scene the 3D service is asked for, and
the errors with their status. Colours, options and the words of a prompt are passed
on without a decision, and left out. `Studio` is the process: `Boot` loads the
bundles or refuses to start. `Receive` is everything that can happen before a
handler, in its order: the body parser with its limit of 15 MB (`main.ts`), whose
error is no `HttpException` and so ends in an anonymous 500, the throttle,
`SetupGuard`, `SessionAuthGuard`, the validation. A session deleted after
`validateSession` has found it fails when it is prolonged (`auth.service.ts:209`),
again an anonymous 500. A body that is no JSON at all is answered by the framework,
and not modelled. Each handler is a step and each awaited service another, with the
outcomes a service can have. Requests share nothing but what boot left, so one is
served at a time.

`FailuresNamed` gives the answer to a request from what happened to it, without the
handlers: `heard` is what the services did, in order, `Verdict` what the page must
be told of the last of it, `MissingCode` and `FailureCode` the codes that name the
services. A 200 for a service that failed, another service's code, or a service
called for a request that is not in order, all violate it.

Kept as the code has it: both renderings price the product in the primary catalog
and ignore the `catalogo` of the form; a reference view's height may come out as
zero or less if the drop exceeds the height; a generator that throws and an answer
of Blender or GeoCalib whose body cannot be read end in an anonymous 500, the
detection of a photo's lines and the mask do not.

## 5. What the runs check

| Run | Bounds | Why they are enough |
|---|---|---|
| `editing` (`MCEditing.cfg`) | 4 submissions, 2 products, 2 configurations, 2 views, 2 customers, 1 proposal, 1 link | a stale write needs a page, a competing commit, and a third to repeat or to merge; the fourth leaves room for the proposal. Requests, products, configurations, views and customers are symmetric |
| `offers` (`MCOffers.cfg`) | 2 proposals, 3 links, 4 submissions that add, archive or propose | two offers can compete, and a third link is withdrawn or replaces one while another is being accepted |
| `codes` (`MCOfferEmailCode.cfg`) | 3 requests, 2 acceptances, 2 addresses, 1 guess, 2 mails, pause 1, validity 2, clock 2 | two overlapping calls of each kind and a third request that meets the limit of mails; the second guess meets the limit of guesses |
| `outbox` (`MCCaseOutbox.cfg`) | 3 notices, batches of 2, 1 retry, 1 fault | one notice more than a batch, a fault before or after the retry; no symmetry because of liveness |
| `support_outbox` (`MCSupportOutbox.cfg`) | 2 processes, 2 notices, batches of 1, 1 retry, 1 fault | both processes hold the same row, which is given up, answered late, retried and mailed again while the other process goes on; larger batches are in `outbox` |
| `works` (`MCWorks.cfg`) | 1 work saved at most 4 times, 3 scopes (two chargeable), 3 quotes, 1 order without mails, one crew and hour | a quote is accepted, the work changed and changed back, a second quote superseded by a third; a page can be older in either of its two revisions. Works do not touch each other's quotes |
| `part_orders` (`MCPartOrders.cfg`) | 1 work saved at most twice, under warranty (two scopes), 2 orders, 2 mails, 2 processes | a mail given up by the other process is resolved and sent again while its answer is under way; two orders can exceed the need of the smaller scope. Processes are symmetric |
| `scheduling` (`MCScheduling.cfg`) | 2 cases, 2 works, one crew with two names, 2 hours, 3 saves, 5 other changes | every pair of appointments can meet, overlap or touch; five changes prepare, send, confirm and complete an order and leave one for the address or the delivery. Cases, works and names are symmetric |
| `office` (`MCOffice.cfg`) | 4 entries, 2 proposals, 1 producer, 1 work, 3 events, 2 mails, 2 calls; 2 offers, 2 accesses, 1 ticket, 1 photo, 1 reply or update, 2 addresses; 3 originals, 2 orders of parts, 4 records on at most 2 costs; amounts 0 and 1 | an entry can be replaced, its replacement corrected, and another absorbed; a second send can overtake the first at each of its steps; a document can be shared between two orders and corrected. Calls, originals and the orders of parts are symmetric |
| `catalogs` (`MCCatalogs.cfg`) | 2 catalogs, 5 revisions, 1 document in 2 editions, 2 datasets, 2 conversions, 1 active, 2 requests, 2 agreements, 2 revisions of the profile | a conversion can meet an edit, a second conversion or a restart; a catalog is tried at two revisions; approval asks for 1 trial with a price instead of 5, one dataset having exactly that |
| `accounts` (`MCAccounts.cfg`) | 2 calls, 2 codes, 1 session, 2 passwords, 1 guess, lock at 2 failures | two calls overlap at every statement; a change of password meets a login, a second code and a touch. Calls are symmetric |
| `studio` (`MCStudio.cfg`) | every route, with a form in order and forms that differ from it in one point, callers with every session, oversized bodies; 8 environments, every state of the bundles; one request at a time | each refusal has a form or a caller of its own, each service each outcome |

`office` and `catalogs` explore parts that share little state one beside the other, by
a state constraint each (`Focused`). In `office`, sends depend on the ledger by its
cash alone, and the ledger does not depend on sends: sends run with at most one entry
of cash, the ledger from a batch prepared on a verified deposit, documents on the
costs of a work; offers are mailed before the delivery and the support follows it;
invitations are mailed or tickets written. In `catalogs`, trials are reviewed while
no conversion runs, a next version begins on a catalog never converted, and the
set-up goes on beside one plain catalog. A constraint hides the interplay it
excludes; the comments beside each conjunct say why nothing is lost that the
properties are about.

Deadlock is not checked in the first eight runs, where the system may come to rest
when its bounded supply of requests, links or notices is used up. The other four
always have a step, a customer's, a seller's or one of time, and TLC checks it.

What they show:

* `editing`: `AtMostOnce` (a submission changes the case at most once),
  `PicturesMatch` (a picture kept on a product shows its current configuration),
  `ProposalAsReviewed` (an offer is exactly what its page showed),
  `NoLostUpdate`, `CostsDeclarationCurrent`.
* `offers`: `OneLiveLink`, `WithdrawnNeverAccepted`, `AgreementBacked`
  (case row and links tell the same story), `NoticesMatchOutcomes`, and that the
  rows implement `Agreement`.
* `codes`: `GuessesBounded`, `VerifiedByItsMail`, `SpentOnAcceptance`,
  `StatusOfCurrentCode`, `MailsPaced`.
* `outbox`: that the worker implements `MailOutbox` (which says that no mail goes out
  twice unless a person sent it again in doubt), and `EveryNoticeSettles`.
* `support_outbox`: `HistoryAgrees` (rows and attempts, written by
  workers that may have been given up, tell one story), `EveryNoticeSettles`, and
  `MailOutbox` again, without doubts: no notice is mailed twice.
* `works`: `WorksBacked` (chargeable work and what is charged for it rest on the
  one quote in force, accepted for exactly its scope).
* `part_orders`: `OrdersMatchWork` (orders in force are for the parts
  the work lists, and not more than it needs), `OrderedOnce` (a supplier gets an
  order once, and once more for each mail a person declared not received),
  `OrderStatusTruthful` (what mails, arrivals and returns did is in the order).
  A late answer can come after the order was cancelled; `Record` then leaves the
  order alone, and the property fails if it does not.
* `scheduling`: `NoDoubleBooking` (across both services and all
  spellings), `DeliveredAsReported`.
* `office`: `CountedOnce` (four services replace and absorb entries, none twice, and
  each order, line of a work and revenue has one that counts), `RefundsCovered`,
  `CostAsInvoiced` (the cost that counts is the last invoice's, whatever came before
  or after it), `OrderedOnceAgreed`, `SharesCovered` (documents never add up to more
  than the cost or the reduction they are part of), `LinksHonoured`.
* `catalogs`: `ApprovedAsReviewed`, `ConvertedFromDraft`, `CompletedAsChecked`.
* `accounts`: `GuessesBounded` (per code, up to the calls that overlap),
  `SessionsRenewed` (after a change of password no older session is left but of a
  login that was under way), `FailuresCounted`.
* `studio`: `FailuresNamed` (a page is told how the service it needs fared, under that
  service's code and no other's, and no service is called for a request that is not
  in order), `FinaleAsAsked` (the generator is shown exactly the views Blender drew of
  the product asked for, and asked at most twice).

The type invariants and the truth of statuses in the modules with proofs are proved
(section 6) rather than run; those of `Ledger`, `Orders` and `CustomerLinks` as parts
of `LedgerInv`, `SendsInv` and `LinksInv`.

Definitions headed *Faulty* are plausible slips of the code, kept beside the
definition they would replace. Each property of a run is
violated when one of them takes the place of its definition.

Fairness is only assumed of the outbox workers and, in `SupportOutbox`, of time
passing (`Age`). `StartFlush` is fair because a
30-second timer calls `flush` for ever; `Claim`, `Record` and `EndFlush` because
they are statements of a running function; `Answer` because the SMTP transport has
connection, greeting and socket time-outs, so `sendMail` always ends. The SMTP
server is not assumed to take the mail, nor the process to restart.
`EveryNoticeSettles` therefore excepts a row that a failed statement left
`SENDING`: the code only looks at such rows when the process starts.

## 6. What is proved

The proofs hold for every number of requests, products, links, calls, orders,
catalogs and notices, and every limit. They use only the named assumptions of the
constants (`ProductsAssumption`, `NegotiationAssumption`, `CodeAssumption`,
`OutboxAssumption`, `SupportAssumption`, `SupportWorkAssumption`,
`PartOrdersAssumption`, `SchedulingAssumption`, `LedgerAssumption`,
`OrdersAssumption`, `CustomerLinksAssumption`, `CatalogsAssumption`,
`DealerSetupAssumption`, `AccountsAssumption`, `StudioAssumption`): limits are natural
numbers, null differs from every row and status, no order has the id of a work, drafts
are datasets, finitely many calls are under way at once, requests go to routes there
are with a session of one of four kinds, the measures of a final rendering are whole numbers, and what the primary catalog
prices has a mounting.

A proof goes the same way each time: the invariant holds initially, each action
keeps it (one lemma for each, or for each kind of action), and it implies the
property. The invariants, and why they are needed:

* **NegotiationProofs**, the case under edit. `EditingInv` adds to the types: a page
  whose revision is the case's shows the case as it is (`PagesCurrent`), and a copy
  with a row's version is that row (`CopiesCurrent`), for what pages show and for
  what `CaseMediaService.save` has read. `PicturesMatch` is not inductive without it:
  the merge uses the older copy. From it follow `PicturesMatch`, and as action
  properties `NoLostUpdate`, `ProposalAsReviewed`, `CostsDeclarationCurrent`.

  The links: `LinksInv` adds what a link row may say
  (`OutcomesConsistent`) to the four link properties, which only together are
  inductive: that one link is live needs that a standing one blocks `Invite`, which
  is `AgreementBacked`. `NegotiationImplementsAgreement` maps every step to a step
  of `Agreement` or a stutter.

  A submission counts once: `AtMostOnce` compares the revision with the number of
  submissions, and says nothing of which submission moved it. `OnceInv` calls a
  submission *spent* (`SpentOn`) when the server holds what refuses it from then on:
  the row it added, a later version of the row it edits, a later revision of the
  case; and says that the revision is at most the number of submissions spent.
  Rows and revisions only grow (`OnlyGrows`), so that a spent submission stays
  spent; and each action that moves the revision spends a submission that was not
  (`StepCounts`).
* **CustomerMailProofs**, the codes. `CodeInv` says in addition that the row is that of
  the code stored last and counts its comparisons and the codes stored
  (`RowCurrent`, `CodesCounted`), and what a call of `accept` knows in each phase
  (`AttemptKnows`).

  The notices of a case: `OutboxInv` follows each notice through its statuses and
  says for each how many mails can have gone out (`Accounted`), the one being
  sent depending on whether its mail has left (`WorkerSound`). With it,
  `CaseOutboxImplements` maps each step to a step of `MailOutbox` or a stutter:
  `Accounted` is what makes `Leave` and `Learn` possible there.
* **SupportOutboxProofs.** Workers of several processes can be given up and answer
  later. `SupportInv` says why that does no harm: a row SENDING or UNKNOWN is
  tried by nobody else, so the attempt a worker holds is the row's last one, no two
  workers hold one row (`WorkerSound`), and all attempts but the last have failed
  (`RowSound`). From it follow `HistoryAgrees`, `StatusTruthful` and the refinement
  of `MailOutbox`, whose doubtful resends never happen here.
* **SumTheorems.** What `SumFunctionOnSet` of the community modules returns: an
  element can be added or taken away, functions that agree have one sum, fewer
  natural numbers come to no more. The definition chooses a recursive function over
  the subsets of a set; that this function exists and is unique is shown by taking
  a smallest subset at which it would fail, not by a theorem of induction, which
  the provers could not apply.
* **SupportWorkProofs**, quotes. `QuotesInv` adds to `WorksBacked` and `PricedAsSeen`
  that a page with the work's revision shows the work's scope (`PagesShow`), without
  which a quote priced on an old page could carry the new scope, and that only
  works there are have quotes (`NoneBefore`). It is a conjunction over the works
  (`Sound`), and each step changes the rows of one: the steps of orders and
  mails, of restarts and recoveries change none of it.

  The orders of parts: `PartInv` adds to it what an order is against its work
  (`OrdersSound`) and its mails (`MailsSound`). An order has at most one mail that
  the supplier may act upon (`Open`: it has not failed, and nobody said that it was
  not received), and a mail a process still waits for is SENDING or was given up
  (`MailSound`): so a late answer finds the row it belongs to. `OrderedOnce` counts
  mails that left against those declared not received; it follows from `PartInv`
  by comparing two finite sets. `OrdersMatchWork` is a sum, kept by
  `SumTheorems` when an order is added, cancelled or returned.

  Appointments: `ScheduleInv` says that confirmed works and plans carry a
  booking (`Booked`) and that no two of them meet by the code's comparison of
  ends (`Apart`); that this comparison excludes every common hour is a lemma.
  `DeliveredAsReported` follows by itself.
* **OfficeProofs**, the ledger. `LedgerInv` says of each entry what it may replace
  (`Follows`: one of its kind and its own writer, or the seller's), that no entry is
  replaced twice (`ReplacedOnce`), and that of two entries of the same order, line of
  a work or revenue one is replaced (`OneCounts`). One lemma (`RecordKeeps`) says
  that rows which only replace active entries, no two the same, and replace the
  one they stand for (`Fitting`), keep it; each service is then shown to write
  fitting rows. `RefundsCovered` is inductive on top of it: only `Settle` writes cash
  of a work, and the balance it checks is the one that counts afterwards, because
  what it replaces is an active entry of the same work.
  `CostsInv` adds that an order has an entry once something was
  said, of the event that counts, and final exactly once there is an invoice
  (`CostsCurrent`): without the stage, a forecast could not be told outdated.

  The orders: `SendsInv` says that the row of a send stays SENDING until its
  outcome is recorded (`SendersSound`), that no two sends have one row
  (`SendersApart`), and that of the rows of a group all but one have failed and
  reached nobody (`RowsSound`). A crash only removes sends, and leaves a row that
  no later send passes by.

  The links: its `LinksInv` says that a request refers to rows there are
  (`RequestSound`), that an invitation under way has its row to itself
  (`InvitingApart`) and, as long as it may still be mailed or has failed, has not
  arrived; and that an access never invited, or free to be invited again, has
  reached nobody (`AccessSound`).

  The suppliers' documents (`DocumentsSpec`: they are saved while everything else
  happens to the ledger and the orders): `DocumentsInv` adds to `SharesCovered` that a
  record supersedes older ones only, and that what counts of it is on a cost of the
  work it was ordered for (`RecordsSound`): without it, the credits of a work could
  rest on the cost of another. The ledger's side of the argument is that entries
  only grow in number (`EntriesGrow`), so that a cost keeps its ancestry
  (`CostsGrow`) and no record is on a new one; the other side, that a record adds
  its share to the sums it was checked against, and to no others (`SharesFit`, with
  `SumTheorems`).
* **CatalogsProofs.** `CatalogsInv` says that a trial reviewed at the present
  revision was reviewed on what the catalog is (`ReviewedAsIs`): every edit moves the
  revision, and chunks of a document that is not complete are no part of the catalog
  (`PartMoves`). For conversions, it says that what was read still is there as long
  as the catalog has the revision of the conversion (`ExecutionSound`). One relation
  between two states (`RowsMove`: no catalog goes away, and at one revision nothing
  of it changes) carries both through all actions. `ConvertedFromDraft`
  is proved as an action property from it. `SetupInv` adds that what a completion has
  read is either of an older revision or still so, and that a mail sent and a
  catalog once approved stay (`SetupSound`).

* **SellerProofs**, accounts. Nothing there is a transaction, so `AccountsInv` says what a
  call between two statements can rely on. The rows it has read are there, and the
  password a login has read is one the seller had, none older than the last completed
  reset left unless the login was under way then (`CallSound`, from which
  `SessionsRenewed`). The guesses of a code and those under way, together, stay below
  the limit and the number of calls (`GuessesLeft`, from which `GuessesBounded`): a
  call reads the code only while it has attempts left. While no login has overlapped
  another write, at most one is between its read and its write, and the counter it
  read is still the row's (`Counted`, with `FailuresCounted`).

  The studio: `StudioInv` says of a request not yet answered, by what it waits for,
  which checks it has passed, that its service is there, what it has drawn and how often
  the generator was asked, at most twice. That the request is in order is kept from
  `Receive` to the last outcome; each handler's answer is then shown to be the verdict
  of that outcome, which is `FailuresNamed`. `FinaleAsAsked` is the other end: of what
  is shown, the pictures that were asked for.

Proved and not run: the type invariants of the case under edit, of its links, of
`OfferEmailCode`, `CaseOutbox`, `SupportOutbox`, `PartOrders`, `Scheduling` and
`DealerSetup` with `Catalogs`; `DeliveredOnce`, `StatusTruthful` and `PricedAsSeen`.

Only model-checked: `EveryNoticeSettles` of both outboxes, because liveness under fairness
and ENABLED are beyond the proof system used here.

## 7. What is not modelled

* Pictures, PDFs, texts, colours, options and the words of a prompt (`prompt.ts`) are
  data.
* What a table or a rule comes to: `table-pricing.ts`, `commercial-engine.ts`,
  `semantic-trials.ts` and `generated-trials.ts` compute in floating point and build
  texts; `Studio` has the price as an answer given or refused, `Catalogs` the number of
  trials with a price. Operators on bounded integers are planned (section 2, row 13).
* The geometry inside Blender and GeoCalib: services outside of this repository's
  back end, of which the calls and their outcomes are modelled.
* The checks of single fields of the dealer's profile, and the limits on sizes of
  files: a profile is complete or not, a file is stored or not.
* Activities and files of a case only ever add rows or mark one as done; no other
  state depends on them. `ImportedCaseItemsService` checks its catalog before the
  transaction: that the catalog may be withdrawn in between is not part of `Catalogs`,
  which has no products.
* Mail transport, PDF and health: input and output only. What a mail can answer is
  part of each module that sends one. The wiring of the process (modules, sessions'
  middleware, static files) has no behaviour of its own beyond the order of guards,
  which `Studio` has.
