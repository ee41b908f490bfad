# Verification of the bin tracker

TLA+ models of the bin tracking platform, checked with TLC and proved with TLAPS.
The platform is a pnpm monorepo: an API server (Fastify, tRPC, Prisma on Postgres,
`src/apps/api`), a React application (`src/apps/web`), a marketing site, and shared
packages (`src/packages/db`, `types`, `validators`). All state that matters lives in
Postgres, in the queue of one worker, and in the browsers' pages; the API processes
keep nothing between requests but the buckets of a rate limiter. So the hard behaviours
are those of many requests over shared rows, of jobs that crash and run again, and of
pages whose answers come late, twice or never.

## 1. Inventory

| Component | State | Operations | What is hard | What makes it correct |
|---|---|---|---|---|
| Bin scans (`bin.service.ts`, `cycle.service.ts`) | `bins`, `bin_cycles`, `event_logs` | start, startDynamic, pickup, deliver | guards on a snapshot, by-id updates, lock waits, serialization failures without retry | a bin's status is that of its one open cycle; the log replays each cycle; tenants stay apart; completed cycles are frozen; no cycle is stranded |
| Request context (`trpc/`) | none; role and tenant copied into the request | createContext, resolveOrgId, role gates | the role is stale by the time of the transaction | who delivers was assigned, or ADMIN of the bin's tenant |
| Blockchain anchoring (`blockchain.service.ts`, `BlockchainAnchorModal.tsx`) | `anchored`, `anchorTxHash`; the modal's state; the chain | getDailySummary, confirmAnchor, the modal's handlers | data read long before it is confirmed, refreshed summaries, lost and late calls, two browsers, closed pages | an anchor names a transaction whose root holds the row; anchors are permanent; success is complete; a root holds one tenant |
| Merkle tree (`lib/merkle.ts`) | none | buildMerkleRoot, buildMerkleProof | odd levels | a proof leads to the root; a root commits to its leaves |
| Members and invitations (`org-member.service.ts`, `invitation.service.ts`, `AcceptInvitePage.tsx`) | `organization_members`, `invitations`, `user_facilities`; the page | updateMemberRole, removeMember, createInvitation, acceptInvitation, revokeInvitation | rails read outside the write; accept against rotate, revoke and remove; two callers of accept on one page | every role was chosen for its holder; joining spends an invitation; access needs membership; one accept a visit |
| Signup (`auth.service.ts`, `OnboardingWizard.tsx`) | `users`, `organizations`; the wizard's step | bootstrap, createOrganization | two tabs, lost answers | no step is shown that the server has not earned |
| Billing and modules (`billing.service.ts`, `module-service.ts`, `OrgModulesPage.tsx`) | `subscriptions`, `organization_modules`; the table | Stripe webhooks, createTrialSubscription, reconcile, overrides | events out of order, duplicated, half done; a signup that writes under another clock; statements without a transaction; optimistic flips | the newest event wins; overrides stand; the table settles on the truth |
| Sensor fleet (`sensor-fleet.service.ts`, `sensor-ingest.service.ts`, `unknown-device-log.service.ts`, `sensor-fleet-read.service.ts`) | `sensor_devices`, `sensor_readings`, audit, `unknown_sensor_device_ids` | add, assign, reassign, deactivate, reactivate, ingest, record, dismiss; summary, list | compare-and-set without the name; ingest against reassign; a capped log; rows gathered by separate statements | placements agree with the tenant; a tenant sees its own window; the audit chains; the log is bounded; tiles add up |
| Zones (`zone.service.ts`, `ZonesAdminPage.tsx`, `ZonePage.tsx`) | `zones`; the pages' queries | create, reorder, remove | a list checked outside its transaction; three queries and a network that goes | the order is one administrator's list; a valid link stays |
| Facilities | `facilities` | create (plan limit), update, remove | deletion under open cycles and devices | tenants stay apart |
| Attendance and payroll (`attendance.service.ts`, `payroll.service.ts`, `worker.ts`) | `work_sessions`, `attendance_events`, `payroll_runs`, lines, exceptions; the queue | scan, autoCloseStaleSessions, computeRun, resolveException, approve | a computation of several statements against scans, resolutions and approval; a worker that dies | one open session; every session accounted for once; resolutions and approval stand; waiting ends |
| Payroll settings (`settings.service.ts`) | `settings` | update | read before the transaction, lost answers, a crash before the notice | the replaced manager is the one to be told |
| Employees, bank links (`employee.service.ts`, `BankDetailsPage.tsx`) | `employees` | register, requestBankDetails, submitBankDetails | limit race; a link used twice, expired or rotated | a link works once; the receipt is true |
| Forms (`form.service.ts`, `FormBuilder.tsx`, `SubmissionDetailPage.tsx`) | `form_templates`, `form_submissions`, audit trail | submit, updateSubmission, the designer | corrections at once; fields hidden and required | a correction is traced; a designed form can be filled |
| Digitizing (`form-digitize.service.ts`, `form-schema-utils.ts`, `FormImportPage.tsx`) | jobs, a draft | enqueue, poll, refine, save; repair of the schema | late refinements, crashes; a model's output | the draft is of the photo; turning lists into tables loses no field, aligning with the known layout no table that was read whole; no id twice |
| Voice (`form-voice-fill.service.ts`, `useVoiceRecorder.ts`) | a page's answers; a microphone | fill, the recorder's handlers | taps during an utterance, a day that ends; a stream that opens late | answers are explained; the microphone is released |
| Intake, shipments (`farmer.service.ts`, `shipment.service.ts`) | `animal_*`, `shipments` | register, transcribe | utterances against typing and submitting; colliding codes | what is stored is explained; one row a submission |
| Scanning pages (`ScanPanel`, `CameraScanner`, driver, guard, tablet) | camera, timers, a call | scan, type, reset | asynchronous start, answers after a reset | the camera is released; an answer is of its code |
| Dashboard (`dashboard.service.ts`, `DashboardPage.tsx`) | none; the page's lists | stats, priority queue | figures counted by separate queries, of different facilities | quiet figures add up but for hidden facilities; running cycles come first |
| Usage, rate limits (`usage.service.ts`, `trpc/rate-limit.ts`) | `usage_counters`; buckets in memory | check, increment; hit | concurrent calls at the limit | a reading is counted before it is bought; no window is overfull |

How they interact: every request resolves its tenant and role from
`organization_members` before its service reads anything else; scans read facilities
and assignments that administrators change; anchoring reads completed cycles and
writes two columns of their rows; billing switches the modules whose procedures the
other routers gate; sensor assignment switches a module on; payroll reads the sessions
attendance writes, through a queue; pages meet the services through a query cache that
is refetched, invalidated and rolled back. On the server, components meet in the
database only.

## 2. Modules

| Module | Models |
|---|---|
| `BinLifecycle` | the promise: every scan is one atomic step on the current rows |
| `BinLifecycle_proofs` | its invariants, proved |
| `BinTransactions` | the scans as the server runs them; implements `BinLifecycle` |
| `BinTransactions_proofs` | that implementation, proved, with the properties it inherits |
| `MCBinTransactions` | instances of it |
| `Anchoring`, `MCAnchoring`, `Anchoring_proofs` | `BinLifecycle` with the blockchain service, the modals, the network |
| `Merkle` | the tree that a transaction's root stands for |
| `Membership`, `Membership_proofs` | organizations, members, invitations, statement by statement |
| `InvitePage` | the page behind an invitation's link |
| `Onboarding` | the signup wizard in several tabs |
| `Billing` | Stripe's events, the subscription, the modules, the overrides |
| `OrgModules` | the operator's table of modules |
| `SensorFleet`, `MCSensorFleet`, `SensorFleet_proofs` | devices, placements, readings, zones removed meanwhile |
| `UnknownLog` | the capped log of unknown device ids and its card |
| `FleetView` | the operator's tiles, alerts and filters |
| `Zones`, `ZoneView` | a facility's zones and their order; a tenant's page of one zone |
| `Attendance`, `Payroll`, `Payroll_proofs` | the time clock; one month's payroll on top of it, with queue, worker and page |
| `PayrollSettings` | the settings' cards, the update and its notice |
| `Employees` | registration at the plan's limit; bank links |
| `FormRecords` | submissions, corrections and their audit trail |
| `FormBuilder` | the designer of forms |
| `FormImport`, `FormSchema` | the import of a photographed form; the repair of what a model read |
| `VoiceRecorder`, `VoiceFill` | the microphone; a form filled from an utterance |
| `Intake`, `Shipments` | animals registered by hand and voice; shipments |
| `ScanPages` | the three pages that scan codes, with the camera |
| `Dashboard` | the figures and the list of cycles |
| `RateLimit` | the sliding window of the limiter in memory |
| `Services`, `MCServices`, `Services_proofs` | components of the server side by side: the first state chooses one, only that one moves |
| `Pages`, `MCPages`, `Pages_proofs` | the same for the pages |

`Services` and `Pages` exist because these components share no state: one run checks
them side by side, its registers `r1`..`r9` carry the variables of the chosen one, and
each of its properties reads "if the subject is X, then X's property". Components that do
share state are composed in earnest: `Anchoring` on `BinLifecycle`, `Payroll` on
`Attendance`, `BinTransactions` onto `BinLifecycle`.

Conventions. A component's VARIABLES are the rows or React state it keeps; an action is
one statement, handler or callback; a request in flight is a record with the statement
it is about to run (`pc`) and what it has read. An answer that is lost is an action that
ends the caller's wait and leaves the rows as they are. A bound on requests, mails,
utterances or time is a constant called a bound at its declaration. A variable marked
"history" is read by properties only.

### BinLifecycle

`bin`, `cycle`, `events` are the three tables; a row that does not exist is
`"ABSENT"`, a NULL is `Null`. `events[c]` is the log of one cycle in insertion order.
The tenant of a bin, its type's time limit and the facility a registered bin stands at
are constants, because no operation of the API changes them. A bin whose `Home` is
`Null` does not exist until `StartDynamic` makes it up. Times are hours on an abstract
clock; the vehicle, the coordinates and the countdown are left out, for no guard reads
them.

### BinTransactions

A request goes through the code's own steps: `Resolve` (createContext copies tenant and
role), `Open...` (the transaction takes its snapshot and all guards of the service pass
on it), `Write` twice (the row updates of the body, in the code's order, waiting for
locks), `Commit` (its rows, its event, all at once), or `RollBack` (P2034, P2002) or
`GiveUp` (a refused guard, the transaction's timeout, a failure of the server or its
connection). Postgres is represented by what it owes a Serializable transaction:

- an update waits while another open transaction has written the row, and fails when a
  transaction that committed after its snapshot has written it (`Missed`; the flags
  `binMissed` and `cycleMissed` record this at each commit);
- the partial unique index makes a `start` wait for another open one of the bin, and
  fail when the bin has an open cycle;
- writers with the default isolation level (deletion of a facility, changes of
  membership) cause no conflict.

Serializable isolation also refuses some histories of reads and writes that these rules
let through; the model has them, so that its safety results do not lean on that check.
`now` is read between the snapshot and the first write (the first `Write` picks any
clock reading in between). The rail that an ADMIN remains is one step here; `Membership`
has its reads and its write apart.

### Anchoring

`anchor[c]` is `anchorTxHash`. Each modal is a record of the React state: the step, the
date range, the query's answer (`summary`), the summary that the running
`handleSignAndSubmit` captured (`closure`) and the hash it got. The query may be
answered again at any time (react-query refetches), the user may go back while the
handler runs, the page may be closed at any point. `call[t]` is the confirmAnchor
request sent for a transaction: it may run at once, late, after the page is gone, or
never, and its answer may be lost. An answer kept by the query's cache for a range left
before is not shown again. `chain[t]` is what the network makes of a transaction. A
Merkle root is the set of its leaves; a leaf is the canonical form of a row, which is
why the rows of `BinLifecycle` are part of this model.

### Merkle

One step per level of `buildMerkleProof`; `Root` is `buildMerkleRoot`. Hashes are
records, so that two are equal only when they were built alike: SHA-256 is taken to have
no collisions, and leaf and node never coincide because a leaf is JSON text and a node
hashes 128 hex digits. `buildMerkleProof` is called by the tests alone so far; they also
hold the verifier's loop that `Recompute` models.

### Membership, InvitePage, Onboarding

Each statement of `auth.service.ts`, `org-member.service.ts` and `invitation.service.ts`
is a step, at Postgres's default isolation level. `chosen` remembers which role an ADMIN
chose for whom, so that `RolesAreChosen` can tell a role that was granted from one that
was meant. `InvitePage` has the three places that await `invitation.accept` and the ref
that keeps them apart. `Onboarding` is the wizard in two tabs over bootstrap,
createOrganization with Stripe's trial, the first facility and the first invitations.

What the model shows and no property forbids: a token that is rotated between its lookup
and the grant joins at the role of the lookup (a role chosen for that person all the
same); two createInvitation at once leave two pending rows; an invitation sent again
while its old link is being accepted mails a dead link; createOrganization never asks
whether the caller has an organization already, so that two tabs make two, and the
facility goes to the older one.

### Billing, OrgModules

A webhook is a sequence of statements: the staleness check against `lastEventAt`, the
subscription, then the modules one by one. It may stop after any of them, and Stripe
sends it again. The signup runs the same statements for the trial it has created
(`CreateTrial`), but under the time of its own server, which may be before or after what
Stripe says, and nobody repeats it when it fails. A subscription bought through the
checkout is one beside the trial's; both write the organization's one row. Event 0 is
the checkout's: it carries the time of the purchase and applies the subscription bought
as it is by then.

`overlapped` marks behaviours in which two syncs were in flight at once - as those of a
signup and of its first webhook, which Stripe sends at once, nearly always are - until
the newest change, later than all others, is written while nothing else runs
(`Mends`). `NewestEventWins` and `ModulesFollowPlan` claim nothing in between, because
there the code does not hold them: the older one may write last. `NewestEventWins` is
moreover stated of changes whose second nobody shares and that are not dated before the
signup's time (`Decisive`): a cancellation at Stripe that its clock dates before the
signup's own is dropped as stale for good. The modules do not suffer from that, as the
trial is of the plan they were provisioned for. When a change falls into the second of
the purchase, the checkout's handling may fail half-way and, retried after the price has
become unknown, be acknowledged as it is, with modules missing; `ModulesFollowPlan` is
stated of behaviours `Apart` from this. `ToggleModule` stands for every caller of
setModuleOverride, of which there is one more: the assignment of a sensor
(`sensor-fleet.service.ts:116`) switches a module on. `OrgModules` is the
optimistic table: flips, rollbacks to the snapshot of the click, one list request at a
time, cancelled and replaced as the query library does.

### SensorFleet, UnknownLog, FleetView

An administrator's request reads the device, checks its target, and updates it in a
transaction whose WHERE names state and placement as they were read. `audit` is the
newest row of a device's trail; a registration's row has no old value, and the device's
place only if it was registered in one. An upload looks its device up, then stores the
reading with the owner it saw. `claim` remembers who owned a device when, and who was to.
Two administrators who only rename a device both pass the compare-and-set; a reading
looked up before a deactivation is stored after it; neither breaks a property.
`FleetView` reads devices, newest readings and threshold in statements of their own: a
device whose first reading arrives between the first two is shown OFFLINE, never WAITING,
though it has just reported. One device is enough for its run, as every figure is a sum
over devices. The list's filter by health asks all devices unless a state is chosen;
`TilesAddUp` compares the tiles with the list of the active ones, and says of the list of
all that each device is in one of "online", "offline" and "waiting". `readingsLastHour`,
charts and pages of 25 are left out.

### Zones, ZoneView

`Zones` has the reorder as the code has it: the completeness of the list is checked
before, and outside, the transaction of updates. `order` says who comes before whom on
the list last saved, with the zones made since behind it and without those removed;
`crossed` marks behaviours in which a zone was made while another one was being made,
even if it has gone since, or between a check and its transaction, after which two zones
may share a place.
`ZoneView` is one tenant's page over three queries of the library, each with status,
fetch state and kept data; a query paused because the browser is offline is pending but
not loading, as in the library's version 5.

### Attendance, Payroll, PayrollSettings

`Payroll` EXTENDS `Attendance`: scans, debounce and the automatic close go on while a
job computes the month. The job is a Read Committed transaction in six steps (`Take`,
`Check`, `KeepResolved`, `DeleteUnresolved`, `PayClean`, `Commit`); it may fail, or its
worker die, at each; a stalled job is run again once. `desk[a]` is the resolution an
administrator is making. `settled` says that nothing has changed since the last
computation began, and only then `MonthAccounted` claims that every session is counted
once: a check-out between two statements of a computation leaves a session neither paid
nor held until the next one. `PayrollSettings` has the read of the previous manager
apart from the write, and the write apart from the notice; the server may crash before
each (`Crash`). `standing` is who approves and has since before any update under way
read the row; whom such an update replaces is owed a notice (`replaced`), and
`ManagersAreTold` says that it is out, refused or lost in a crash, or about to be sent.
An address that came and went while another update was between its read and its write is
told of nothing: nobody has read it.

### Employees

Each statement of registration and of the bank link is a step: count, insert, rotate,
look up, store and clear. A link is the number of the mail that carries it. `raced`
marks links that two submissions used at once, of which both store.

### Forms: FormRecords, FormBuilder, FormImport, FormSchema

`FormRecords` has one question with a required follow-up: the page's check, the server's,
the correction and its audit row in one Read Committed transaction. `FormImport` is the
wizard, the queue, the quota and the second reading of a region; drafts are told by their
photo; another photo may be chosen before a refinement has answered, which the page
itself does not offer. `FormSchema` computes the repair of every small schema by the
code's own folds: a photo's lists become tables, and a livestock form is aligned with the
layout known of it. The first loses no field (`NoFieldIsLost`). The second completes the
known layout and keeps short lists and every table that was read whole
(`RepairKeepsTables`); it drops, as the code does, the columns of a table it rebuilds
because it was read in part (fewer than 8 columns of the monitoring's 11, fewer than 5 of
the deviations' 6), blanks beside a table, and blanks of the verification that are no
known ones; a column that is a known one by another name is folded into it. `FormBuilder`
is the designer, event by event; it is mounted on no route of the application, and its
Save stores nothing.

### Voice, intake, shipments, scanning

`VoiceRecorder` has the two awaits of opening a microphone as steps of their own;
`ScanPages` those of a camera, with timers and calls, for three pages of which one is
mounted. `VoiceFill` computes an answer in the service's order - blanket, spoken word,
free text - and merges it into what was tapped meanwhile; `why` keeps, by an independent
reading of the utterance, where each answer came from. A table's one row is blank if it
is what a blank row is when the utterance's answer comes, and a blank row has the day's
date, in UTC: past midnight the row a form was opened with is no longer blank
(`Midnight`), and what is spoken then comes below it. `Intake` and `Shipments` are the
two registration pages with their services; a code that collides is tried again.

### Dashboard, RateLimit

Each figure of `getStats` is counted by a step of its own while cycles move; a moved
cycle, or a facility removed, marks the count as disturbed. The totals count the cycles
of every facility the caller may see, the figures by facility only those of facilities
that were not removed and process bins; `hidden` are the others. A bin at work there is
in the totals alone. `RateLimit` is one key's bucket of call times.

## 3. Runs

| Run | Instance | Shows |
|---|---|---|
| `scans` | a registered bin and one to be made up, two cycles, two tenants, two users, two requests, the clock stands still | `TypeOK`, `BinMirrorsCycle`, `TenantsStayApart`, `OneCyclePerDynamicBin`, `AssignedDriverDelivers`, and that the transactions implement `BinLifecycle` (`ImplementsLifecycle`) |
| `clock` | one bin, two cycles, three requests, three clock readings | `EventLogReplaysCycle`, `HistoryIsFrozen`: waiting for locks does not turn times round, the second cycle starts after the first is over, cycles come out on time and late |
| `stranded` | one bin, one cycle, an ADMIN and a driver, two requests | `NoCycleStranded` |
| `anchoring` | two modals of one tenant, two ranges (everything delivered, nothing), two cycles of the tenant or another, two transactions | `AnchorsAreGenuine`, `AnchorsArePermanent`, `SuccessLeavesNoneBehind`, `RootsHoldOneTenant` |
| `confirmation` | one modal, one cycle | `MarkedAfterConfirmation`, a violation: section 6 |
| `members` | two accounts, one organization, one invitation that may be rotated once, two requests | `RolesAreChosen`, `AccessNeedsMembership`, `JoinsSpendInvitations` |
| `last_admin` | the same with one mail | `AnAdminRemains`, a violation: section 6 |
| `sensors` | one device, two organizations with a facility each, two zones, two administrators, one upload | `PlacementsFit`, `WindowsAreOwn`, `AuditTellsTheTruth` |
| `payroll` | one employee with two sessions, one administrator, two jobs, one crash, a month and a tick beyond | `OneOpenSession`, `MonthAccounted`, `ApprovedIsFrozen`, `ResolutionsStand`, `WaitingEnds` |
| `form_audit` | two administrators with one correction each | `AuditChains`, a violation: section 6 |
| `services` | eight components: a signup and webhooks, two in flight at once, two modules, two plans; two corrections; two photos, one refinement, one crash; schemas of up to two sections and five columns; three employees, one seat, two links; three unknown ids, a cap of one; a window of three ticks; Merkle trees of one to five leaves | one property for each question: `NewestEventWins`, `ModulesAreDue`, `CorrectionsAreTraced`, `ReadingsAreOfThePhoto`, `FormsAreWhole`, `LinksWorkOnce`, `LimitsHold`, `ProofsAreSound` |
| `pages` | fourteen pages, each with two of what meets there (tabs, stations, administrators, codes, cycles, utterances) | `ClicksCountOnce`, `DevicesAreReleased`, `SpeechIsExplained`, `PagesShowTheTruth`, `StepsAreEarned`, `ManagersAreTold`, `FiguresAddUp`, `OrdersAreWhole` |

Bounds. A conflict of two transactions needs two requests; three make one wait while two
others commit in turn. Two cycles are the fewest for which a bin's second cycle can meet
its first, for a root to commit to more than one leaf, and for a confirmation to find
part of its cycles anchored. Two transactions are the fewest with which cycles can be
minted twice. Five leaves are the fewest with an odd level above an odd one. Two mails
are the fewest for a token to be rotated, two links for one to replace another, two jobs
for a computation to meet what an earlier one left, two webhooks for one to be stale; the
signup's time is one before Stripe's first and one after its last. One slot of a form and
one device of the fleet are enough, for neither's answer depends on another's. `MaxShift`
and `Debounce` are one tick, so that a month of three holds a session that must be closed
and one that must not. The sliding window is three ticks of a clock of nine: calls come,
expire and come again. Four zones are two at the start and two made since; four requests
are the fewest with which a zone comes and goes and the list is moved while another zone
is being made. Three toggles are two cells with one of them flipped back. Every bound
says so at its declaration; `Granted` is empty in the safety runs because a membership
that only shrinks already lets every role be stale.

Deadlock is not checked where the system may really stop: when ids, mails or time are
used up, at the root of a tree, when nobody has anything left to do. Ids that are told
apart by nothing but their name are symmetric; the runs with liveness use no symmetry.

Fairness is assumed in `stranded` and `payroll` only. In `stranded` the server owes its
requests a next step: it answers what it has begun (weak fairness of opening or
refusing), statements follow one another and Postgres wakes waiters (strong, because
locks come and go). People who have to deliver keep trying, and not every attempt fails
at the same point for ever (strong fairness of `Resolve`, `OpenDeliver`, and of the
writes). No start, pickup or administration is assumed. In this run roles are only taken
away: an ADMIN who handed a driver's role back and forth for ever could always be between
the steps of the driver's request. The property needs the ADMIN's alternative in
`deliver`: without it the mutant `OpenDeliver_DriverOnly` leaves the cycle of a removed
driver on the road. In `payroll` the worker takes and runs its jobs, BullMQ looks for
stalled ones, and the page polls every second and a half - weak fairness of `Serve`,
`Recover` and `Poll`, and of nothing a person does. It rests on one worker with
concurrency one, on finished jobs that are kept for an hour (long before which the page
has polled), and on polling that goes on after errors, all of which the code sets.

## 4. Proofs

For every number of bins, cycles, facilities, users, tenants and requests, and for any
clock. The assumptions are those on the constants only (`LifecycleConstants`,
`TransactionConstants`): facilities and bins have a tenant, a registered bin stands at
a facility of its tenant, NULL is not a value.

`BinLifecycle_proofs`. `IInv` strengthens the properties by what they need to be
inductive: rows are as complete as their status says (`RowsComplete`), a registered bin
stays at its home and an uncreated one is unused (`HomeKept`, `UncreatedUnused`), and
`BinMirrorsCycle` is split into `OpenIsMirrored`, `OneOpen` and `BusyHasOpen`, each
preserved on its own. From it follow `TypeCorrect`, `BinsMirrorCycles`,
`LogsReplayCycles`, `TenantsAreSeparate`, `DynamicBinsServeOnce`, and the action
property `HistoryStaysFrozen`.

`BinTransactions_proofs`. `TxInv` adds what holds of the requests in flight. The core is
`GuardsHold`: as long as a transaction has missed no commit on a row, the guards it
passed on its snapshot still hold on the committed row; `LocksExclude`: two open
transactions have not both written the same row; and `WritesAreCurrent`: what an open
transaction has written, it has not missed. So at `Commit` the guards hold on the
current rows, and the commit is a step of `BinLifecycle`
(`TransactionsImplementLifecycle`). The safety properties carry over by the refinement,
and `DeliveriesAreAssigned` is proved of the commit directly. The proof never uses the
partial unique index: the row conflicts of Serializable isolation are enough, and the
index is the second guard it is meant to be. Without the serialization failure
(`Missed_ReadCommitted`, what the code would be without its `isolationLevel`) both the
runs and the proof fail.

`Membership_proofs`. For every set of accounts, organizations, invitations, mails and
requests. `IInv` adds to the properties what a request in flight may still rely on
(`Backed`): the role it carries was chosen for the person it carries, and the invitation
it has read cannot have become somebody else's. The rows it has read may change
meanwhile, but only `Forward`: a choice is not forgotten, a row that has left PENDING
never returns to it, and a pending one keeps its address. This is why the second look at
`acceptedAt` inside acceptInvitation's transaction is enough; the mutant without it
(`StillUnaccepted_Trusting`) lets a spent token join again. From `IInv` follow
`MembershipTypeCorrect`, `RolesAreAlwaysChosen`, `AccessAlwaysNeedsMembership` and the
action property `JoiningSpendsAnInvitation`. Its assumptions (`MembershipConstants`): the
roles on offer are roles, the number of mails is a natural number, NULL is no value, and
accounts are finitely many.

`Anchoring_proofs`. For every set of modals, date ranges, cycles and transactions, on top
of `BinLifecycle_proofs`. A row is read long before it is marked, and by then the modal
may show another summary. `AInv` follows the leaves instead: each summary, closure and
root holds only leaves that are `Genuine` - the canonical form of a completed row - and
completed rows are frozen, so a genuine leaf stays one. `CallFits` ties the ids of each
confirmAnchor to the leaves of its own transaction; this is where the capture of the
summary by the running handler counts: a handler that sent the ids of the summary on
display (`SubmitTx_Shown`) would break it, and does violate the run's property. From
`AInv`: `AnchorsAreAlwaysGenuine`, `SuccessIsComplete`, `RootsAlwaysHoldOneTenant`,
`AnchorsStay`. Assumed: each modal works for an organization, NULL is no hash.

`SensorFleet_proofs`. For every set of devices, tenants, facilities, zones, requests and
uploads. A tenant's window opens at `assignedAt`, the time at which the placing
transaction was opened, and not at which it committed. `FInv` says that since that time
the device was claimed for its owner at every tick (`Owned`), and that the same holds
already of a transaction still in flight (`Backed`), so the time of the commit, and of
the arrival of a reading, make no difference; a move within one organization keeps the
old window, which the compare-and-set makes safe, because the owner compared is the owner
replaced. From it `PlacementsAlwaysFit`, `WindowsAreAlwaysOwn` and, with the
compare-and-set alone, `AuditsAreTrue`. Assumed: facilities have a tenant and zones a
facility, NULL is no value.

`Payroll_proofs`. For every set of employees and administrators, any number of sessions,
computations and crashes, any month and debounce window. `PInv` needs, beside the rows'
shapes, that an open session of a worker is the last one (so that "the latest open
session" finds the only one), and that what a computation is about to delete was never
resolved (`NoneResolvedGoes`): a resolution made between its read and its delete waits
for the lock. From it `OneSessionIsOpen`, `ResolutionsAreFinal`; `ApprovalIsFinal` needs
the guards alone. `MonthIsAccounted` needs `MonthIsKept` beside `PInv`: while nothing
disturbs a computation, what it has set aside, deleted and paid so far is what the tables
still say, so that its commit accounts for the month.

`Services_proofs`. For every set of plans, modules, webhooks, administrators, employees,
requests, tabs and devices, and every bound. `ServicesInv` is the inductive invariant
`IInv` of the component the behaviour is of; each module states its own, and there is
nothing to show of the others. One section for each component:

- `Billing`: `NewestEvent` and `ModulesDue`. Stripe's times rise (`TimesRise`); a webhook
  carries a version (`HooksAreTrue`); while the signup is under way nothing has been
  acknowledged, and the modules are those of the first plan (`TrialIsFirst`); and while
  syncs do not overlap, an event is due or has been written (`AcknowledgedIsWritten`), the
  modules follow the row or a webhook that is due, or under way, will make them (`Owed`),
  and the checkout brings nothing that is not there, still to come or stale
  (`CheckoutIsHarmless`, `PurchaseIsWritten`). Here the attempt at a proof found the
  exception named in section 2: without `Apart` the last part is not preserved, and with
  three changes of a subscription TLC finds the modules wrong in the end.
- `FormRecords`: `CorrectionsTraced`. The trail has one row less than the record has
  values, and each row tells the value it wrote (`RecordIsTold`); what a desk has cached,
  read or shows outside of edit mode is a value the record has had (`DesksAreTrue`).
- `FormImport`: `ReadingsOfThePhoto`. The page polls the job of its photo
  (`JobIsOfThePhoto`), one job at most is active, and a slot of the quota is held by every
  photo read or still to be read (`SlotsAreTaken`): a job that runs again after a crash
  uses the slot it has.
- `Employees`: `LinksOnce`. A link was mailed to the employee whose row it is in
  (`LinksAreMailed`); a link that has stored details is in no row any more, unless two
  submissions used it at once (`UsedIsBurnt`); what a tab shows as stored is what the row
  holds (`DetailsAreOfTheTab`). And for `LimitsAreHeld`, rows and registrations that have
  passed the count are fewer than the seats and the requests together (`SeatsAreCounted`).
- `UnknownLog`, `RateLimit`: the rest of `LimitsAreHeld`. Rows and ids about to be
  written are counted together: whoever counts is not among them. Every call of the last
  window is remembered, so that a call is let through only if its window has room.
- `Merkle`: `ProofsAlwaysSound`. The levels the loop of the proof goes through are those
  of the root (`LevelsAreOfTheRoot`). No node stands twice in a level but the copy that
  pairs an odd last one, so that a level tells the one below it, and a root its leaves;
  a level is shorter than the one below, so that the least height with one node exists
  and is where root and proof both end.
- `FormSchema`: `FormsAlwaysWhole`. The operators fold over lists, and each fold is
  unfolded into its turns (`SplitUnfold` and its like). A turn of the split puts one field
  into one of two lists, so that a section holds each label as often as before
  (`CoerceKeeps`), and so does the form (`LabelsHold`). The alignment changes one section
  at a time, and each change leaves the others and the tables read whole (`RepairKeeps`).
  An id is new because it has one more suffixed form than there are ids in use
  (`FreshIsNew`).

Assumed (`ServicesConstants`): a plan's modules are modules and the first plan is a plan,
the server's clock shows positive numbers, the known table of deviations has more than
one column, limits are natural numbers, requests, writers and leaves are finitely many
and there is a request and a writer, and what a model reads from a photo is sections.

Neither the levels of a tree nor the folds need an induction theorem, which would take an
operator: what holds of every length is proved by way of the least length that fails
(`LeastIsThere`), and a fold, which is chosen as the function that satisfies its
recursion, by showing that there is one (`TurnsAreThere`, `LevelsAreThere`).

`Pages_proofs`. For every set of places, stations, codes, employees, tabs, cells,
administrators and fields, every finite set of cycles, facilities and devices, and every
bound. `PagesInv` is built like `ServicesInv`; its theorems are `ClicksCount`,
`DevicesReleased`, `SpeechExplained`, `TruthShown`, `StepsEarned`, `ManagersTold`,
`FiguresAlwaysAddUp` and `OrdersStayWhole`. The components' invariants say what a page
may rely on between a click and its answer:

- `InvitePage`: one place at a time waits for a session, and only with the ref claimed
  (`SessionsAreAwaited`), so that the three ways to accept do not meet.
- `Shipments`: two stations never have one number (`RequestsAreOwn`), and a submission
  whose loop goes on has no row yet (`LoopsHaveNoRow`): a taken code may be followed by
  another attempt, a lost answer may not.
- `VoiceRecorder`: the latch lets one call at a time open the microphone (`OneCall`), and
  an open one is needed (`OpenIsNeeded`).
- `ScanPages`: only the camera mounted last is on the page (`LastIsLive`); a call the page
  still listens to is about the code it has (`CallsAreOfTheCode`).
- `VoiceFill`: until it is touched by hand, a table is blank, or spoken below the row it
  was opened with (`RowsAreSpoken`); `Intake`: what is on the form, on its way or stored
  is explained by the transcript beside it.
- `Onboarding`: a call is made from its own step (`CallsAreOfTheStep`) and the organization
  a tab goes on with is there (`OrgsAreThere`). `PayrollSettings`: an
  update that is about to write has read who stands (`IInv`), so that whom it replaces is
  whom it tells.
- `OrgModules`: a list on its way is what is stored, but for changes that are yet to
  settle, each of which asks for another list (`ListsAreTrue`).
- `FormBuilder`: a field is found by its id (`IdsAreApart`), and stays usable.
- `ZoneView`: a query that is on is under way or answered (`QueriesAreAsked`), and what
  was answered is so while the server does not change (`AnswersAreTrue`).

- `Dashboard`: while no cycle moves and no facility goes, a figure stays what was counted
  (`FiguresAreOfNow`), and the figures of one moment add up because every cycle is at one
  facility, hidden or counted (`SumIsWhole`). The list is cut behind the running cycles
  because a list of a finite set without repetition has them all (`ListHasAll`).
- `FleetView`: who was seen has a reading, also among the rows gathered, since devices are
  read before their readings (`SeenHaveReadings`): a device is offline or waiting, never
  both.
- `Zones`: zones stand as they were ordered, no two at one place (`OrderIsKept`), and the
  place of a zone being made is behind all others and no less than their number
  (`NewComesLast`), so that a list renumbered meanwhile does not reach it. The attempt at
  this proof found a gap in `crossed`, which used to compare only the zones there are: a
  zone that was made and removed again leaves no trace there, but a renumbering in between
  takes the place that was reserved. With four requests TLC finds it too.

Assumed: NULL is no employee, no truth value, no status, no number and no reading
(`NullIsNoValue`, `PageConstants`), hours and the length of the list are natural numbers,
and there is room for a facility's two default zones. What needs an induction over
finite sets (`SumIsWhole`, `GreatestIsThere`) is proved by way of a smallest set that
fails, from the library's theorem that inclusion of finite sets is well-founded: the
induction theorems themselves take an operator.

Only model-checked: liveness (`NoCycleStranded`, `WaitingEnds`), which is out of the
prover's reach.

## 5. Not modelled

Reads that change nothing (the lists, the countdowns, charts, exports), stateless code
(encryption, validation of formats, e-mail texts), speech, vision and language models,
Stripe's checkout, the wallet and the chain beyond what they may answer, routing and
navigation, the marketing site, seeds and scripts. Of components that are modelled:

- facilities: creation at the plan's limit counts before it inserts, as registration of
  employees does (`SeatsAreBounded`), and renaming;
- employees: hourly rates (the audit row's old value is read before its transaction; the
  cell writes its old value back on blur), the redaction of lists, the counter of codes;
- zones: renaming, which changes neither slug nor order; the choice between facilities;
- dashboard: the slide-over, which keeps the row that was clicked, and the date filter;
- signup: the race for a slug, which the code documents;
- sessions: login and logout forms. Only logout clears the query cache and the cached
  modules: after a session that expires, or is replaced in another tab, the former
  account's modules stay until they are fetched again (`moduleCache.ts:30` intends
  otherwise). `setSelectedOrgId` is only ever called with null, so that no request names
  an organization and the oldest membership is taken;
- signup: an invitation that is accepted elsewhere while the wizard is open;
- the operator's table of modules: other operators, or Stripe, changing modules meanwhile;
- voice: a browser that refuses to start a recorder on the stream it has just opened;
- scans: one clock is assumed for all processes of the API;
- two inputs that hold a draft (the offline threshold, a zone's name) clear it on
  success, with what was typed while the request was under way.

Consequences no property states, because the rows cannot tell them: a lost answer of
`startDynamic`, of a form's submission, of an animal's or a shipment's registration,
followed by a second try, makes a second row for one thing; a delivery may name a
facility that was deleted between its snapshot and its commit; cycles delivered in one
millisecond have no stored order in their Merkle tree; after `autoClose` has listed a
session, a check-out made meanwhile is overwritten.

## 6. Where comments and code part

With a run that shows it:

- `blockchain.service.ts:180` says that confirmAnchor is "called by the frontend after
  the transaction is confirmed on-chain"; the modal (`BlockchainAnchorModal.tsx:290`)
  calls it when the transaction is submitted. Run `confirmation`: cycles are marked
  with a pending transaction, which may expire at its `invalidHereafter` slot. They
  keep its hash, since confirmAnchor touches only rows that are not anchored.
- `org-member.service.ts:36`: "the last ADMIN can never be demoted or removed". Run
  `last_admin`: two ADMINs demote each other at once; each counts two.
- `form.service.ts:375`: "Re-read INSIDE the transaction so `oldValue` is the row this
  update actually replaces". Run `form_audit`: at the default isolation level and without
  a lock both transactions read the same row, and the trail's second old value is not
  the first one's new value. `CorrectionsAreTraced` is what does hold.

Seen while modelling; the modules contain the behaviour, and the properties are stated
around it:

- `bin.service.ts:13` speaks of `@@unique([binId, status])`. The schema has no such
  constraint, and its own note (lines 536-539) says why: it would forbid a bin's second
  completed cycle. The guard in the database is the partial unique index of migration
  20260218053452, which is what `OpenCycles` and `Duplicate` model.
- `admin.service.ts:50-53`, `module-service.ts:34`: an override of a module the plan
  includes does not survive the next reconciliation; `OverridesStand` is stated of the
  others.
- `sensor-fleet.service.ts:47-52`: two administrators who rename at once both pass.
- `payroll.service.ts:288`: a dismissed open session that is checked out later is paid at
  the next computation. A DISMISS between the reads and the delete of a computation
  doubles its exception. `queue.ts` speaks of no retries; BullMQ runs a stalled job once
  more. `settings.service.ts:24-26`: of overlapping updates the intermediate manager is
  never told, and nobody is when the server crashes after the commit: "best-effort".
  autoCloseStaleSessions has no caller.
- `form-validation.ts:4-9`, `form.ts:34-36`: the server requires fields that a field's
  own condition hides. `SubmissionDetailPage.tsx:33-40`: after a save the page shows the
  cached record until it is opened again.
- `billing.service.ts:66`: the signup's sync takes the server's time for an event's, so
  that a change that Stripe dates earlier counts as stale although it came later.
- `RepeatingRowFormRenderer.tsx:55-63`: "a worker who filled the table hands-free had to
  find and delete a row they never touched" - a form that was opened before midnight UTC
  and filled after it still has that row, if the table has a column for a date.
- `dashboard.service.ts:22-25, 67-68`: bins at work at a facility that was removed, or is
  no processing plant, are in the totals and in no facility's figure.
- `form-digitize.repair.ts:185-204`: a table read in part is replaced by the known one, and
  columns that only the photo has are gone with it.
- `employee.service.ts:295`: two overlapping submissions of one link both store
  (`raced`); a link rotated between lookup and store is cleared with the old one.
- `auth.service.ts:117`: "the caller's first organization" is not checked to be the first.
- `unknown-device-log.service.ts:3`: the "hard cap" is exceeded by the writers in flight.
  `unknown-ids.ts:17-21`: an id that reappears is still selected.
- `zone.service.ts:98`: the check that would keep sortOrder consistent is outside the
  transaction, and so is the read that a new zone's place comes from (line 77): two zones
  may then share a place (`crossed`).
- `sensor-fleet-read.service.ts:144`: a device that has just reported for the first time
  may be shown OFFLINE.
- `zone-view.ts:77-80`: a link opened, or retried, offline leads to the dashboard, and
  before the modules are known a mock layout may flash.
- The dashboard's "most urgent first" sorts by status first, so that an overdue cycle on
  the road comes after every one that is not.

## 7. Plan

Done: the components of section 1, each in a module of its own, and proofs of all of
their properties but liveness. What could follow:

1. The last parts of facilities and usage: creation at the plan's limit and the hard cap,
   which repeat `SeatsAreBounded` and the quota of `FormImport`.
2. An abstract payroll (compute, resolve, approve as single steps) that `Payroll`
   implements while nothing disturbs a computation, as `BinLifecycle` is to
   `BinTransactions`.
3. Larger instances: three requests in `members`, two devices in `sensors`, two employees
   in `payroll`. Each multiplies the states of a run that is already among the longest; the
   theorems of these three modules hold at every size meanwhile.
