# TLA+ models of FSi Portal (fsi-buchhaltung)

FSi Portal is the accounting and member administration of a students' association: a Nuxt 4
application whose server side (Nitro, `src/server`, about 46,000 lines) runs as **one Node process**
in front of one MariaDB database. There is no queue and no second server, and yet the hard behaviour
of the program is concurrent: requests are interleaved at every `await`, each transaction runs on its
own connection of a pool of five at InnoDB's REPEATABLE READ, a timer dispatches notifications every
30 seconds beside the requests, and mail that has left cannot be rolled back.

This directory holds the models of that behaviour, the configurations TLC checks them with, and
machine-checked proofs. Where a definition stands for code, `PROJECT.json` ("map") names the lines.

    tlc -config Payments_serial.cfg MCPayments.tla          # one run
    tlapm PaymentsProofs.tla                                # one proof module

## 1. The system: inventory

Status: **M** modelled, **p** partly, **–** not modelled.

| Component | State it keeps | Operations | Hard behaviour | What makes it correct |
|---|---|---|---|---|
| **M** Receipts | `receipts`, positions, attachments | create, PUT | the PUT decides on a snapshot, writes current rows | a booked receipt keeps status, head and file, and loses positions only to a form that misnames them |
| **p** Invoices | `invoices`, positions, PDF | create, PUT, finalize, pay | finalize against a save of the draft | a finalized invoice never changes and never is a draft again |
| **M** Reimbursements | `reimbursements`, `reimbursement_positions` | create, PUT, stages submitted → checked → disbursed | moves of receipts between records; lock on the disbursed | one payment per receipt; the receipt's status follows the stage |
| **M** Bank statements | `bank_statements`, `bank_statement_positions` | create, PUT (always through the unlock) | positions changed in place, released records | paid records are paid, released ones are open again |
| **M** Transactions | snapshot, row locks | `withTransaction`, `withAuditTransaction` | write skew; rollback on `{ ok: false }` | nothing half-written |
| **M** Record locks | derived from the record | `lockError`, `unlock` | the lock is checked before the write | only an unlocked request changes a locked record |
| **p** File attachments | `file_attachments` | attach, detach | the active one is the latest | required files stay |
| **p** Cash ledger | none (computed) | `assignTransactions`, `computeTotalMoney`, `buildCashLedger` | two algorithms for one balance; order within a day; invoices of broken cents | both agree up to rounding; differences are explained by the payments |
| **p** Cash counts | `cash_counts`, positions, `cash_count_discrepancy_bookings` | create, PUT, confirm, withdraw | the lock and the difference are read outside the writing transaction | confirmed counts change only unlocked; reports repeat what was confirmed |
| **p** Notification outbox | `notifications`, `notification_deliveries` | enqueue, cancel, dispatch, retry | crash between send and record, quiet hours, cancellation during a pass | at most one mail, nothing lost, silence after a cancellation |
| **p** Change digests | JSON in a waiting notification | merge, drop, plan | merging into a row that is being sent | no merge into a mailed summary; a summary says exactly what is new to its reader |
| **p** Reminder sweep, clusters | `notifications` by `dedupe_key` | sweep, drop, group | planning and sending read what planners change | who is told of what, when, and once |
| **p** Notification contents, recipients | none | `personalizeReminder` | computed at the moment of sending | the message lists the shifts of its group |
| **p** Event shifts | `event_shift_slots`, `event_shift_members` | replace plan, sign up, leave | shifts move while reminders wait | the reminder moves with its shift |
| **p** Tasks and checklists | `event_tasks`, `event_checklists`, items | list saves, tick, status, link | one status with three writers; saves from stale copies | a linked task follows its items; no reminder outlives its reason |
| **p** Permissions, roles, positions | `users`, `user_permissions`, roles, positions, assignments | seven routes under `withLastAdminGuard` | the guard counts in a snapshot; three ways to the same permission | one active administrator remains |
| **p** Members | status, `left_at`, account, positions | PUT, daily dispatch | due list read before the transactions; failed runs, restarts | who has left loses account and positions |
| **p** Wiki | `wiki_articles`, revisions, images, grants | create, save, sort, publish, restore, archive, delete, grant | the tree, its visibility and its images under any order of requests | nothing vanishes from the tree; published texts are complete |
| **–** Invoice numbers | `app_settings` counter | reserve | lookup in a snapshot under a locked counter | numbers unique, a save rarely fails |
| **–** Member self-service | pending changes | request, approve, reject | approve against a new request | what was approved is what is applied |
| **–** Login, rate limits | in-memory windows and locks | failure, success, prune | boundaries of window, lock and cool-down | the backoff grows |
| **–** Snapshots and restore | in-memory sessions | preview, confirm | expiry, replacement | a confirmed preview is the one shown |
| **–** Document export, audit log, reports, calendar, master data, public and cash register API, browser code | | | formatting, I/O, triggers and single-row saves | – |

How they interact. Reimbursements and bank statements write the **status of receipts and invoices**
and read each other's position tables; the record locks guard both. The records **paid in cash**
are the payments of the cash ledger, whose differences the cash counts let
somebody confirm. Events, shifts, members and appointments **queue notifications** in their own
transactions; the dispatcher shares nothing with them but the two notification tables, and the shift
planner edits rows that the dispatcher may be sending. Tasks take their status from checklists, and
both save paths drop reminders the sweep has planned. Accounts, positions and members meet in the
question who may manage permissions, which every one of their routes can change. The wiki reads
permissions and positions and writes neither.

## 2. Modules

| Module | Models | Run through |
|---|---|---|
| `PaymentLedger` | abstract: who pays a record, and its status | `ImplementsLedger` of `Payments` |
| `Payments` | receipts, invoices, reimbursements, bank statements | `MCPayments`, proofs in `PaymentsProofs` |
| `NotificationOutbox` | abstract: what may become of a notification | `ImplementsOutbox` of `NotificationDispatch` |
| `NotificationDispatch` | outbox, dispatcher, retries, shift digests | `MCNotificationDispatch`, `NotificationDispatchProofs` |
| `CashLedger` | the computations of the cash balance, as operators | through `CashCounts` |
| `CashCounts` | the requests on cash counts, over `CashLedger` | `MCCashCounts`, `CashCountsProofs` |
| `EventTasks` | tasks, checklists, items, deadline reminders of one event | `MCEventTasks`, `EventTasksProofs` |
| `Members` | accounts, role, position, members, their leaving, the guard | `MCMembers`, `MembersProofs` |
| `ShiftReminders` | shift plan, reminder sweep, groups, personalization | `MCShiftReminders`, `ShiftRemindersProofs` |
| `ShiftDigests` | what the summaries of shift changes say | `MCShiftDigests`, `ShiftDigestsProofs` |
| `WikiArticles` | the articles of a wiki space, their images and grants | `MCWikiArticles`, `WikiArticlesProofs` |

Operators named `<definition>_<variant>` (for example `ReimKeyFree_always`) are wrong variants of the
definition after them; a property is only kept if some variant breaks it.

### Transactions

At REPEATABLE READ (with MariaDB 11.4's default, `innodb_snapshot_isolation` off) plain `SELECT`s
answer from the snapshot of the transaction's first read, while `INSERT`, `UPDATE`, `DELETE` and
`SELECT … FOR UPDATE` meet the current rows. A handler is therefore two actions. `Read…` evaluates
every check of the handler on the tables and stores a **plan**, the list of its writes; `Write…`
applies the plan to the tables as they are then and commits. Between the two everybody else may run.
`Rollback` (`Fail` in `CashCounts`) ends the transaction without effect: a duplicate key, a deadlock,
a failing file check, a dying process. A handler whose checks read no row that another request writes
(creating a receipt, an invoice, a cash count) is one action.

### Payments

`receipts`, `invoices`, `reimbursement` and `statements` are the records, `reimPos` and `bankPos` the
position tables, `tx` the plan of each session. A receipt has its head (company, date and number, a
member of `Heads`) and its `positions`, whose fields are members of `Contents`, as is what finalizing
freezes of an invoice. A form of the receipt PUT names positions by their number (`exact`), by something that
only `Number()` turns into it (`loose`), more than once (`again`), or not at all (`new`): the lock
(`changesLockedReceiptFields`) counts entries and reads ids with `Number()`, the save matches the ids
themselves, and deletes what it finds unmatched. `SameMoney` holds the amounts that the lock takes for the same and
the column does not. `reimbursement[m]` is the stage that
`checked_at` and `disbursed_at` encode. `ReadReceiptPut`/`WriteReceipt` are `receipts/[id].put.ts`,
`ReadInvoicePut`/`WriteInvoice` are `invoices/[id].put.ts`, and so on; `Payable` is
`validateBankStatementRelations`, `Settled` is `restoreUnlinkedRecordStatuses` and
`releaseRemovedReimbursementReceipts`. The unique keys are the guards `ReimKeyFree` and, in
`WriteStatement`, the three conjuncts about collisions: a statement's positions are updated one after
the other, so an exchange of targets collides although the result would not. Auto-increment ids are
fresh with respect to every row and every open plan.

`PaymentLedger` is what this promises without rows, forms and plans. Its `payer` maps every record to
nobody or to one payment record, its `status` follows. `Pay` books a set of records on one payment
record, gives all of them one status and lets go of the rest; `EditUnpaid` is everything else. The
refinement mapping reads the payer off the position tables (`PaidBy`); `Read…` and `Rollback` are
stuttering steps, the two writes of payment records are `Pay`, the others `EditUnpaid`. The ledger
promises nothing about the status of a record that is let go: finding 1 below, and form entries whose
position id the statement no longer has, whose targets the code marks paid without booking them, leave
no more to promise.

### NotificationDispatch

`note` holds the `notifications` rows (status, `scheduled_for`, `bundle_started_at`, number of merged
changes), `rows` the committed deliveries, `arrived` what actually left the system, which no rollback
undoes. `pass` is the dispatcher: one pass at a time (`GET_LOCK`), the list of due rows, the open
transaction of the row in hand (`todo`, `new`, `deferred`, `failed`) and the retry list. Each
recipient and channel is a step of its own (`Deliver`), so that cancellations, planners, the clock and
crashes fall between any two. `planner` is the second session, `replaceEventShiftSlots` with
`queueShiftChanges`: its snapshot remembers which summaries had been delivered, because the
`NOT EXISTS` of the merge query is not a locking read. "email" stands for e-mail and push, which an
administrator can switch off or the server may lack: `pass.on` is whose mail works by the settings the
pass has read, and the next pass may read others (`Setups`). While a channel is off, a first delivery is
recorded as skipped, or not owed at all (`Unconfigured`), and a failed one is left failed and due
(`LeaveFailed`), a place in the list of every pass until its reminder's moment is over. `mishaps`
counts crashes and rollbacks by the notification they hit, so that the properties can say *which*
message may be sent twice. `EventuallySettled` and `RetriesGoOn` use `FairSpec`.

`NotificationOutbox` is what this promises, without passes, locks, transactions and crashes. A notification
waits; it is withdrawn, or its copies leave and what became of them is recorded. A copy only leaves while
the notification waits and outside the quiet hours, or once more when it is on record as failed, and
never to somebody who has one already, unless a mishap hit this notification. Only a delivery that is
complete, as far as its channel works, settles it, and what is settled, cancelled or deleted stays so. The
refinement mapping reads status and records off the two tables, the copies off `arrived`, the hour and
whose mail works off the pass: a pass computes its clock and reads the settings once. Listing, locking, merging, the clock and the planner's reads are stuttering steps
(`Passes`); a commit is `Record` or `Resolve`, a crash or a rollback `Mishap`.

Left out: the switch `notifications_enabled`, pruning, a recipient whose personalized text is empty, a
failed delivery of a channel that the program no longer knows (`dispatch.ts:292`; it had an address, or
it would not have failed), the test notification, the sweep that decides which reminders to enqueue (its
effect is `Enqueue`), and changes of the time zone's offset (the clock is monotonic).

### CashLedger and CashCounts

`CashLedger` translates the two computations of `cashPosition.ts`. `assignTransactions` decides which
register paid: with one register a payment on the day of its last count goes before or after that
count, whichever leaves less missing; with several, the register whose open interval fits the payment
best gets it. `computeTotalMoney` adds what is pending to the last counts; `buildCashLedger` walks
through payments and counts in the order of days and books differences. Lists in order are made by
`InOrder` from the elements before each one, a sort that theorems can use; the walks themselves are folds.
The bank column is left out (both sum the same rows), and so are the rows as displayed.

What is counted and the positions of a receipt are whole cents in the database, but an invoice is the
unrounded sum of quantity × price × (1 + tax / 100), three numbers of two decimals. Payments and their sums
are therefore in millionths of a cent (`Parts`), and `rc` rounds where the code does: the ledger after each
payment (`BookPayment`), the total once (`BalanceAfter`). `rc` takes a double to the nearest cent; of exactly half a
cent the double may lie on either side, which the constant `HalvesUp` decides per amount. That doubles
are exact apart from it (which of two deltas is smaller, of two that are equal; how a sum of several payments came
about, when it is half a cent) is an abstraction.

`CashCounts` puts the requests on top: `CashPayment` adds, changes or removes a payment (an id has one), `CreateCount` and
`ReadCountPut`/`WriteCountPut` write counts, and a confirmation is three steps because
`discrepancies.post.ts` reads the lock, then the books, then writes, each on its own connection.
`OneEditor` is an assumption of the model: two simultaneous edits of one count, merged by row id, are
not covered.

### EventTasks

`task`, `link`, `item` are the rows of `event_tasks`, `event_checklists` (their `task_id`) and
`event_checklist_items`; ids are auto-increment, so a row is `absent`, there, or `gone` for good.
`reminder` is the outbox row of each task's deadline by its dedupe key, `sweep` what the sweep has read
and not yet planned. `ReadTasks`/`WriteTasks` are `replaceEventTasks` with its removal of what the list
lacks, the linked tasks' status, and the drop of reminders; `ReadChecklists`/`WriteChecklists` are
`replaceEventChecklists` with `syncChecklistItems` and `syncLinkedTaskStatuses`;
`ReadItemDone`/`WriteItemDone` and `ReadTaskStatus`/`WriteTaskStatus` are a single tick and a task's own
status. What a list save does to rows in order (links that move between checklists under a unique key)
is in `KeysAllow`. `BeginSweep`, `PlanReminder`, `EndSweep` are `sweepTaskDeadlineReminders`, which uses
no transaction. `Overlap` says whether requests and the sweep may overlap; the run and the theorems have
it FALSE. Left out: assignments and their summaries, templates, overdue reminders, changed lead times.

### Members

`db` holds all tables; `Written(snap, cur, r)` is what request `r` makes of the rows `cur` when it has
read `snap`, so that a request alone is `Written(db, db, r)` and two that overlap are
`Written(db, Written(db, db, s), r)`, each with the guard on its own snapshot. `Admins` translates the
SQL of `countActivePermissionAdmins`, `MayManage` the functions that grant the permission
(`getEffectivePermissions`); they are two texts in the code, and the model keeps them apart. The
dispatcher is `FindDueMembers` (the list it reads), `DispatchLeave` (one transaction per member) and
`Midnight`; `FailRun` is a run ended by an error, `Restart` a new process, which runs at once. A list of
assignments may name any member, and any position: `Assign` replaces what its owners hold (the member of
a PUT, or everybody for the modelled position) and adds what it sends for others, as
`syncPositionAssignments` does, so the assignments of one member can overlap. Whose id a row is sent with is
not modelled: with the id of an assignment of another position even an inactive position takes it. Left out:
other permissions, subdivisions (which go with the positions), personal data, mails.

### ShiftReminders

`slots` and `assigned` are the plan, `rows` the reminder of each shift in the outbox, `queue` the list a
pass of the dispatcher has read, `inbox` what members were told. `Current` is the walk of
`clusterByLeadTime`, a recursive function that gives each shift the group that is current after it, and
`Clusters` collects the groups by their leaders; it serves both modes, shifts (`"span"`) and deadlines
(`"leader"`). A pass is `stage` by `stage`: `BeginPass` reads the keys that are taken, `ReadShifts` the
shifts, `PlanReminder` inserts one reminder at a time from what was read, `ReadDue` lists what is due and
`Send` evaluates `personalShiftReminder` when its row is sent. `ChangeShift`, `AddShift`, `DeleteShift`,
`addSelfToShift`, `removeSelfFromShift` are the writers, each one step, between any two of these. A row
notes whether its shift had changed since the sweep read it (`outdated`, which the code does not know).
`Tick` needs a finished pass: the timer runs more often than time is counted. Left out: quiet hours
and failing deliveries (they are `NotificationDispatch`), several lead times, changed settings.

### ShiftDigests

`slots` and `assigned` are the plan, `summary` the `shift_list` of each member's waiting summary, one
entry per shift, and `told` what the member knows of each shift, by the messages sent and by their own
doing; the code has no such record, the properties need it. `save` is the open save of the whole plan:
`BeginSave` is the first read of `replaceEventShiftSlots`, whose snapshot also answers the later reads
of the members, `CommitSave` is everything it writes, with `Change` for the entry it pushes about each
shift and member, `MergeShiftEntry` and `Merged` for the merging, `SummaryAfter` for `queueShiftChanges`
and `storeDigest`. Sign-ups and leavings (`addSelfToShift`, `removeSelfFromShift`), which queue nothing,
come in between. `Send`, `Cancel` and `Switch` are what else happens to a waiting summary; when it is
due and how its delivery can fail is `NotificationDispatch`. A name or a time is a value, a slot a
function of the fields that are compared. Left out: two saves that overlap, the capacity and the
description of a shift, the summaries of tasks.

### WikiArticles

`status`, `parent`, `draft`, `content`, `revisions` are columns of an article and its revisions,
`image` the article each image is attached to, `grants` the grants by scope. A text is opaque except for
the images it shows (`Refs`) and for being blank. `Upward` is the walk that follows `parent_id`, defined
as a least set so that theorems can use it; `ValidParent` is `validateParent`, `Below` the subtree,
`Applicable` and `HasLevel` the inheritance of grants, `Visible`, `Tops` and `Shown` the three passes of
`buildVisibleTree` and `flattenTree`. A viewer is any set of subjects with any global level. Each route
is one action. The routes check their request before they open the transaction, so this is the
system without overlapping requests; what overlap breaks is in section 5. The sidebar sends the children
of one parent, and so does `ReorderArticles` in `Next`. Left out: several spaces, owners, titles and
positions among siblings, review intervals, checklists in texts, tags, paths, glossary.

## 3. Runs

| Run | Bounds | Checks | Distinct states |
|---|---|---|---|
| `payments_serial` | 2 receipts, 1 invoice, 2 reimbursements, 1 statement, two of the records created, 2 rows of each position table, 1 file id, 1 head, 2 contents, forms of 2, one session | what pays a record, its status and its document agree; what stays of a booked, a finalized and a disbursed record; the requests implement `PaymentLedger` | 614,000 |
| `payments_concurrent` | 1 receipt, 2 reimbursements, 2 statements, two sessions | the unique keys hold whatever overlaps | 706,000 |
| `payments_unbooked_by_statement` | one session | **violated**: a receipt taken off a position stays paid | |
| `dispatch_outbox` | 2 notifications, one a warning, one a summary; a member and a guest; clock 0–3, quiet at 1; the member's mail on or off in each pass; 2 attempts; 1 crash or rollback | at most one mail, one copy, merging against sending, silence after a cancellation; the dispatcher implements `NotificationOutbox`, quiet hours included | 2,560,000 |
| `dispatch_live` | 2 notifications, 2 people, the mail of one on or off in each pass, passes of one row, clock 0–2 | everything planned is settled; retries go on, unless their channel is off or others fill the list | 801,000 |
| `cash_ledger` | 3 counts out of 5 forms, 2 payments of 2 forms each, three of them of broken cents, 2 registers, 3 days of 2 moments, 1 confirmation | both balances agree up to rounding, differences explained, reports repeat the page, the lock | 1,321,000 |
| `event_tasks_serial` | 1 task, 2 checklists, 3 items, no deadline and 2 deadlines, one session | a linked task follows its items; finished and moved tasks leave no wrong reminder | 172,000 |
| `members_guarded` | 2 accounts, 1 member, the permission by role or position, days 0–2, 2 assignments, failed runs and restarts | an administrator remains; leaving takes effect | 300,000 |
| `members_last_admin` | 2 accounts, requests in pairs | **violated**: no administrator is left | |
| `shift_reminders` | 3 shifts (one added later) in 4 slots, 1 member, lead and grace 1, clock 0–3, 2 changes, at any step of a pass | groups as documented; told in time, once, and not during a shift | 2,450,000 |
| `shift_digests` | 2 shifts (one added later), 1 member and the office, 2 fields, 3 names and times, 3 saves, one switch | a summary of many saves is exactly what is new to its reader | 406,000 |
| `wiki_space` | 2 articles, 1 image, 3 texts, 2 grants, 2 publications each | the tree hides nothing; what is published is the latest revision, with its images; no grant without article | 805,000 |

Why the bounds are enough to mean something. In `Payments` two receipts and two positions allow a
receipt to move between records while another stays, a form to keep, replace and drop a position, and
an exchange of targets; two contents are what "changed" needs, and two ids of receipt positions what a form
that names one twice needs. `MaxRecords` lets two of the two receipts and the invoice exist. One head never
changes, so that part of `BookedReceiptsFrozen` rests on the theorem. One session makes the run sequential,
which is what its properties are claimed for. A configuration switches deadlock checking off where
records, ids or days run out. Symmetry is used for the safety checks of `Payments` (no
constant of `Contents` or `FileIds` is permuted) and of `WikiArticles`. In `NotificationDispatch` the day is long enough to
have hours before, within and after the quiet ones, so that a notification is deferred, its failed
mail retried, and a summary's bundle ends at its cap; two rows and a limit of two (one in
`dispatch_live`) let a pass list a row that changes before it is reached, and make rows wait for a
later pass. In `dispatch_live` the one row is also what one failed delivery whose channel is off needs to
keep the other recipient's from being tried; without that exception, or without the one for the own
channel, TLC finds a counterexample to `RetriesGoOn`. There summaries are planned and withdrawn but not
merged into, which only postpones them. A mishap may hit every step once. The clock stops at `MaxTime`, which lies outside the
quiet hours; summaries are only planned when they come due before that. In `CashCounts` the forms
differ in the registers they cover and in their differences, the payments fall on days of counts and
between them and can change their day and their amount, and three counts are the least with a register whose interval is closed, reopened by an
edit and closed again. Two payments of 1.44 cents are 2 cents for the ledger and 3 for the total, so TLC finds
`ClosingTotalsAgree` violated without its bound; one of 1.5 cents is rounded up or down, depending on the books it meets.

`EventTasks` needs two checklists for a link that moves, one with two items for a task in progress,
and two deadlines for a move; the theorems cover more tasks and sessions. In `Members` two accounts
are the least with one administrator to lose and one to remain; the member connects an account with a
position, and days 0 to 2 hold a leaving in the past, today and in the future, and an assignment that
begins later. Of the three periods a form may send two are disjoint and one overlaps both, and two
assignments of the member are the least that overlap. Restarts are bounded on the last day only. Requests stop a day before the end, so that `LeavingTakesEffect` asks what the dispatcher
makes of them. In `ShiftReminders` three shifts form every grouping that two cannot (a chain, a pair and
a single one), and two changes of the plan can be one before and one after a reminder; moments stop when
every shift has begun. In `ShiftDigests` three saves give, change and take a shift in every order within
one summary, the fields differ one by one and together, and the second shift keeps a summary alive when
nothing is left to say about the first; members do not meet each other, so one is enough, and the theorem
has any number. In `WikiArticles` two articles form a circle, an inherited grant, a hidden
parent and a subtree; two publications make a restored revision differ from the published one.

Some properties carry a condition, and each condition is worth knowing.
`ClosingTotalsAgree` excludes a payment on the day of the only register's last count (see section 5)
and two counts of a day entered in the wrong order: the ledger sorts
them by id, the totals by time. `ReportAgreesWithPage` excludes registers that are not counted
together: then a later count can move an old payment to the other register, and a confirmed difference
of −1 becomes +1 in a later report. `AdminRemains` excepts linking an account to a member and the
passing of days: nothing guards against the administrator's position ending or moving with an account.
`ToldInTime` asks for a plan unchanged since the reminder's moment, and for a group whose first reminder
had not gone out before the last change. It and `NotDuringShift` except a reminder that the sweep inserted
after its shift had been changed under it (`outdated`; see section 5). `RetriesGoOn` excepts a channel
that passes find off again and again, and a list that failed deliveries of such channels can fill. `SummaryIsNetChange` names the four causes that make a true
summary untrue: the member's own doing while an entry waits (signing up, leaving, or saving the plan, for
which they are skipped), a sign-up between the reading and the writing of a save, the return to a shift
that has changed (`BackOnChanged`), and an administrator who cancels the summary or has switched its type
off. Without any one of them TLC finds a counterexample.

### Fairness

`FairSpec` is `WF(runNotificationDispatch) ∧ WF(Tick)`: the timer of `plugins/notifications-dispatch.ts`
starts a pass every 30 seconds, each step of a pass returns (the transports have timeouts), and time
goes on. `Members` has `WF(Dispatch) ∧ SF(Midnight)`: `plugins/member-leave-dispatch.ts` runs the
dispatcher at every start and at every midnight, and a run goes through its list unless it fails or the
process restarts; a day ends however often the process has restarted on it. Nothing makes a user enqueue, cancel or edit, or a crash happen. A row whose processing
*always* throws is not in the model (mishaps are bounded), and it is a real hazard: fifty such rows,
the oldest of every pass, would keep everything behind them from being sent.

## 4. Proofs

For every value of the constants (any number of records, sessions, recipients, retries and crashes):

* **`PaymentsProofs`.** `TypeCorrect`, and `BookingsUnique` for any overlap of requests: ids are fresh
  (`RowIds`) and a write only succeeds if its inserts meet no key. The rest is what the checks of the
  handlers achieve *without overlap*, stated as `Spec ∧ □NoOverlap ⇒ …`: `SerialSafety` with its
  consequences `SerialNoDoublePayment`, `SerialBookedStatus`, `SerialBookedReceiptsHaveFile`,
  `SerialReceiptsFrozen`, `SerialInvoicesFrozen` and `SerialDisbursedOnlyUnlocked`. None of these is inductive: the write
  action no longer sees what the read action checked. `SerialInv` adds, per kind of plan, what its
  handler checked (`Justified`), and that rows have unique ids and owners. Reading establishes
  `Justified`, no step of another session can disturb it because none is open, and writing needs it.
  `SerialReceiptsFrozen` says what the lock really keeps: that a form which names every position once and by its
  number loses none is a matter of counting (`FormNamesAll`).
  With overlap `NoDoublePayment` and `FinalizedInvoicesFrozen` are false (section 5).
  `SerialImplementsLedger`: `Spec ∧ □NoOverlap ⇒ ImplementsLedger`. With unique bookings and
  `NoDoublePayment` the rows determine the payer (`PaidByRow`), before and after a step; then each action
  is shown to be a step of the ledger or a stutter (`EditsRefine`, `ReimbursementRefines`,
  `StatementRefines`, `TablesUnchanged`), from `SerialInv`. `StatementRefines` is why `Justified` also says
  that the rows a plan deletes or updates belong to its statement.
* **`NotificationDispatchProofs`.** `TypeCorrect` and `SendSafety`, without any assumption on
  interleaving or crashes. `SendInv` relates what left (`arrived`), what is on record (`rows`, the open
  transaction, the retry in hand) and what is left to do: a mail that left is on record or a mishap
  hit it; a committed mail row means that its notification is final, and a failed one that it is not marked
  sent; rows are unique per key; a pair of recipient and channel is done, deferred, to do or not configured.
  `NothingDropped` is about the one step that settles a notification, a commit. From it follow `MailAtMostOnce`, `OneCopyEach`,
  `NothingDropped`, `SummaryNeverStale` (the row lock does the work, not the snapshot subquery) and
  `SilentAfterCancel`. `DispatchImplementsOutbox` uses the same invariant: every step of the dispatcher,
  the planners and the crashes is a step of `NotificationOutbox` or a stutter. `Send` needs that a mail
  on its way has no copy out that a mishap does not explain, `Record` that nothing on record is lost and
  that a settled notification has nothing left to do.
* **`CashCountsProofs`.** `CashTypeCorrect`, and `SerialConfirmedOnlyUnlocked` by the invariant
  `LockInv`: what an open request without the unlock found unconfirmed still is. The three properties of
  the ledger, `LedgerDifferencesExplained`, `LedgerTotalsAgree` and `LedgerReportAgreesWithPage`, hold in
  every state the requests can reach (`AlwaysReady`: payments have ids of their own), for any number of
  counts, registers and payments; what has to be shown is that two computations agree. `InOrderLists` says what a
  list in order holds, `BookWalk` and `AssignWalk` turn the two folds into walks, one element at a
  time, and each walk has an invariant. `LedgerInv`: after a prefix of payments and counts, what a register
  should hold is its last count plus what rounding makes of the payments assigned to it since (`Rounded`: half a cent off
  for each broken one, and if none is of exactly half a cent, the sum of each to the nearest cent), and the
  differences booked are those of the counts so far (`Found`), which are explained (`Explained`). Then
  `RoundingsApart` compares two roundings of the same sum. `AssignInv`: the sums that steer the assignment are, for the open interval
  of each register, the amounts pending there, unless a payment falls on the day of the only register's
  last count. That exception is exactly the condition of `ClosingTotalsAgree`. `LedgerReportAgreesWithPage` compares
  what different registers were charged with the same payments, so it assumes that no payment is of
  exactly half a cent (`NoHalfCents`), which would be rounded by the books it meets; the run has such a payment, and the property holds there.
* **`EventTasksProofs`.** `SerialSafety`: without overlap (`¬Overlap`) `SerialInv` is inductive; from it
  `SerialTypeCorrect`, `SerialLinkedStatus`, `SerialFinishedSilent` and `SerialReminderDeadline`.
  `SerialInv` adds that an open request's snapshot is what the tables hold, what its handler accepted,
  that a checklist that exists has items, and that what the sweep is about to plan is still right.
* **`MembersProofs`.** `MembersTypeCorrect`, and `AdministratorRemains`, with requests one at a time and
  the dispatcher between any two, whoever's assignments a request carries. The latter rests on `CountsEffectivePermissions`, that the guard's SQL counts exactly the accounts whose
  effective permissions have `permissions.manage`, and on one argument per request that the guard does
  not cover: those only give.
* **`ShiftRemindersProofs`.** `ShiftRemindersClusters`: for every plan the walk yields the groups
  that are documented. The recursive function exists because each shift looks back to one with fewer shifts
  before it; a group is then a stretch of the order, and its horizon the latest end of what has joined.
  `ShiftRemindersToldInTime`, `ShiftRemindersToldOnce` and `ShiftRemindersNotDuringShift` follow from `IInv`:
  a reminder that waits, if the sweep has not inserted it from a shift that had changed meanwhile, is due at
  the moment its shift has now (`WaitsForItsMoment`), it goes out at that moment unless the plan has changed since (`SentAtTheMoment`); since the last change a message tells its whole
  group (`TellsTheGroup`), and everybody for whom a sent reminder leads a group has been told
  (`EverybodyTold`). They hold for any number of shifts and members, any lead time and grace.
* **`ShiftDigestsProofs`.** `DigestTypeCorrect` (plan, summaries and the open save are well-formed, nobody
  is assigned to a deleted shift) and `SummaryStaysNet`, for any shifts, members, fields and number of
  saves. The merge is where the argument is: `MergedDiffs` says that merging the differences from known to
  old and from old to new gives the difference from known to new, field by field, and `MergeIsNet` lifts
  that to entries, for every pair of kinds of change.
* **`WikiArticlesProofs`.** `WikiTypeCorrect`, `WikiForestStays`, `WikiTreeShowsEverything`,
  `WikiPublishedTextsStand`, `WikiGrantsHaveScope`, for spaces of any size. A move keeps the forest
  (`MoveKeepsForest`) because a set closed under the new parents, cut with what is above the target,
  would have been closed under the old ones. In a forest the walk from the visible tops meets every
  visible row (`ForestShowsRows`), whatever is hidden, so the rules of visibility need no proof of their own.

Assumptions: only those the modules name (`DispatchAssumption`, `TargetsAssumption`, `LedgerAssumption`,
`CashAssumption`, `FormsAssumption`, `BoardAssumption`, `MembersAssumption`, `ShiftRemindersAssumption`,
`WikiAssumption` and so on), which TLC evaluates for the instances: that ids, days and moments are numbers
and amounts whole parts of a cent, that what a table holds is finite, that markers such as "no register" are not values. The
inductive invariants of the state machines were model-checked before they were proved.

Folds and recursive functions are reasoned about without the library's induction theorems, whose operator
parameter the provers cannot instantiate. `Least` takes the least element of a set of
numbers, `Induct` and `SubsetInduct` conclude from it that a set which contains the start and is closed
under the step contains everything; a statement is proved by induction on the set of the values it holds for.

Every safety invariant and every action property of the passing runs is stated by a theorem.
Checked by TLC only: the liveness properties `EventuallySettled`, `RetriesGoOn` and `LeavingTakesEffect`,
which are out of the prover's reach, as is `ENABLED`.

## 5. Disagreements between the code and its words

Each of the two has a run that exhibits it.

1. **A receipt that stays paid** (`payments_unbooked_by_statement`). A position given another receipt
   in place does not release the former one. No overlap is needed.
2. **No administrator left** (`members_last_admin`). `withLastAdminGuard` counts in the transaction's
   snapshot, without a lock: of two requests that overlap, each counts the account the other switches off.

Seen while modelling, without a run of its own. Payments and cash:

* A booked receipt can lose positions: "only its description may still change" (`utils/receipts.ts:32`), but the
  comparison counts the entries and looks each up by `Number(id)` (`:44-48`), so `[1, 1]` for the positions 1
  and 2, or an id sent as a string, passes as unchanged, and the save, which matches the ids themselves, deletes
  what it finds unmatched (`receipts/[id].put.ts:156`). An amount can move by a cent: `sameMoney` takes 1.005 for 1.00,
  the column stores 1.01 (`utils/receipts.ts:27`). `BookedReceiptsFrozen` names both exceptions.
* A receipt can be paid twice: the conflict checks read snapshots (`bankStatements.ts:133`) and each unique
  key covers one table, so a reimbursement and a statement that overlap both commit (`NoDoublePayment`
  with two sessions, one receipt, one reimbursement and one statement).
* A save of a draft invoice that overlaps its finalization updates every column and makes it a draft
  again (`invoices/[id].put.ts:283`; `FinalizedInvoicesFrozen` with two sessions).
* Two overlapping edits of one reimbursement can leave it without positions
  (`reimbursements/[id].put.ts:184`), and one that read it before it was disbursed changes it afterwards (`:66`).
* A receipt released by a reimbursement that was only checked keeps its status, because
  `releaseRemovedReimbursementReceipts` (`utils/reimbursements.ts:71`) reopens only what is paid.
* A payment on the day of the only register's last count is pending for one total of the liquidity report
  and before the count for the other (`cashPosition.ts:288`, `financeAnalysis/liquidity.ts:55`).
* The liquidity report warns when its two totals differ by more than 0.02 (`financeAnalysis/liquidity.ts:54`), but
  nothing is wrong then: six cash invoices of 0.9844 are 5.88 in the ledger and 5.91 in the total.
* A confirmed difference changes its value in later reports when registers are counted apart
  (`cashPosition.ts:304`).
* An edit and a confirmation of one count that overlap change a confirmed count without the unlock
  (`discrepancies.post.ts:37`); the amount confirmed may be out of date (`:46`).

Notifications:

* An account without a member record gets two inbox messages when a notification is processed twice:
  `uq_delivery` has nullable columns, and a NULL never collides (`init.sql:637`, `dispatch.ts:212`).
* A failed delivery whose channel is switched off stays due without an attempt (`dispatch.ts:302`), and the
  list takes fifty rows in no order (`:287`): fifty of them can keep every other failed delivery, of a
  channel that works, from ever being tried again.
* Retries of failed mail do not look at the quiet hours (`dispatch.ts:290`; the hint at
  `shared/i18n.ts:4122` says that nothing is sent then).
* A planner whose snapshot is older than the in-app copy merges into a summary that was already
  delivered in the inbox (`changeDigest.ts:97`; the comment at line 19 says never once delivered). The
  mail is not affected: that is `SummaryNeverStale`.
* A deadline moved while the sweep is planning leaves the reminder of the old one, whose key then keeps
  the right one from being planned (`reminders.ts:116`). So does a shift that is moved between the sweep's
  read and its insert (`:38`, `:54`): there is nothing to drop yet, and the member is told at a wrong time,
  possibly during an earlier shift (`ToldInTime` and `NotDuringShift` without the exception).
* Somebody who signs up for an earlier shift whose reminder has been sent, or is more than 15 minutes
  past, makes that shift the leader of a group whose other reminders are then skipped
  (`clusters.ts:28-32`); and a shift that has been reminded of and is moved is not reminded of again.

* A member who is taken off a shift that then changes and is given back to them, all within one summary, is
  told nothing, although the shift is not the one they knew: "as far as they are concerned nothing
  happened" (`changeDigest.ts:60`).
* A member who signs up, leaves or saves the plan while an entry about that shift waits gets a summary that
  is no longer true: nothing is merged for what they do themselves (`changeDigest.ts:174`).

Tasks, members and wiki:

* Two ticks at once, or a tick that overlaps a save of the task list, leave a linked task with a status
  its items do not give (`eventChecklists.ts:366`, `eventTasks.ts:373`; `LinkedStatusAgrees` with
  `Overlap = TRUE`).
* A task that a save of the task list marks done keeps its waiting reminder: `replaceEventTasks` drops
  reminders only when the deadline changes (`eventTasks.ts:424`), although "a finished task must not remind
  anyone of its deadline" (`eventChecklists.ts:393`). The property is about linked tasks for that reason.
* The form of one member, or of a position, may carry an assignment of another member
  (`positions.ts:59`), which is then inserted or moved without a look at what that member holds: the
  ranges are compared among the rows that were sent (`:156`), and "assignment periods must not overlap"
  (`:190`) can be untrue of what is stored. `TypeOK` of `Members` does not claim it.
* The leave dispatcher deactivates a member who is reinstated between its reading and that member's turn
  (`memberLeaveDispatch.ts:46`).
* Two moves that overlap, or one batch of the API with several parents, can put two articles under each
  other (`wiki/articles.ts:313`, `reorder.post.ts:51`); both then vanish from the tree, although the
  server is to refuse that.
* A draft saved while the article is being published is discarded (`publish.post.ts:44`, `:79`), and an
  image removed meanwhile is missing from the published text. The images of a deleted article stay stored
  and nobody can remove them.

## 6. Not modelled, and what remains

* **Invoice numbers.** `reserveNextInvoiceNumber` locks the counter and looks numbers up in a snapshot; it
  would be composed with the invoice actions of `Payments`, whose state space has no room for a second
  invoice in its present instance.
* **Overlap** of two saves of a shift plan and of wiki requests with each other: a save of the plan meets
  sign-ups in `ShiftDigests`, but no other save; a wiki request is one step.
* **Summaries of tasks** (`queueTaskChanges`), which announce assignments and withdraw them.
* **Member self-service, rate limits, restore sessions**: small state machines of their own.
* **The rest of the wiki** (several spaces, owners, checklists, paths), of the reminder sweep (events,
  appointments, understaffed shifts) and of the cash ledger (the bank column, the rows as displayed).
* Reports, exports, calendar feeds, master data, the public API and the browser are formatting, I/O or
  single-row saves: nothing in them is decided by the order of steps. They are most of the source.
