# A TLA+ model of the HRIS

The repository is a Next.js application for human resources: leave, short
absences ("permissions"), payroll with encrypted payslips, attendance by
geofence, employee records with import and custom fields, face enrollment,
announcements, and the accounts and roles around them. All state lives in
PostgreSQL and in a private file store; every operation is a server action
(`features/*/actions.ts`) that runs to completion in one Node process while other
server actions run beside it. The database runs at its default isolation level,
READ COMMITTED.

What is difficult in this code is therefore not a protocol between machines but
what a server action assumes about rows it read earlier: before a transaction,
before a row lock was granted, before a PDF was rendered and stored, before a
dialog was confirmed. The modules here describe the server actions at the
granularity at which the database interleaves them, and state what must hold
whichever way they interleave. A second theme are rules that are written twice, in
SQL and in TypeScript or on a page and in an action; there the modules define
both and compare them in every state that the actions can reach.

## Inventory

| component | state | hard behaviours | what makes it correct | modules |
|---|---|---|---|---|
| leave | `leave_requests`, `leave_balances`, `leave_request_events` | request and overlap read before the row locks; two first requests of an account race to insert the balance; pages read while calls run | counters equal the live requests, never overdrawn, one decision, history agrees, pages offer what the server accepts | `LeaveRequests`, `LeaveLedger`, `LeaveScreens`, `LeaveProofs` |
| permission requests | `permission_requests`, their events, audit entries | a decision on a row read earlier, an audit entry outside the transaction | one decision, by the right user; no audit entry without its event | `PermissionRequests`, `PermissionScreens`, `PermissionProofs` |
| payroll workflow | `payroll_periods`, `payroll_runs`, `payroll_items`, `payslips` | two status columns, long sequences of legal calls, retried generation | columns agree, snapshots frozen after submission, payslips monotonic and unique, buttons match guards | `PayrollWorkflow`, `PayrollScreens`, `PayrollProofs` |
| payslip documents and storage | `payslip_documents`, their versions, files | files and rows cannot be written atomically; crashes, failed removals, checks repeated under locks | every row has its file unless its commit went unheard, leaks only by crash or failed removal, append-only history | `PayslipDocuments`, `PayslipDocumentsProofs` |
| payroll calculation and components | component definitions, dated assignments | nothing is locked; windows, percentages, rounding, clamping | one active assignment, ended ones stay ended, the item is what the windows say | `PayrollComponents`, `PayrollProofs` |
| attendance, assignments, work locations, projects | `attendance_records`, assignments, `work_locations`, `projects`, the connection pool | no row is ever locked; cascading foreign keys; a nested query on a second connection | one record per day, active places complete, no dangling reference, check-in data final | `Attendance`, `AttendanceProofs` |
| attendance recap and readiness | none (reports) | the same rules in SQL and in TypeScript, and again in the actions | page, detail, export and action agree | `AttendanceViews`, `AttendanceRecap` |
| accounts, roles, sessions | `users`, `roles`, `user_roles`, `role_permissions`, `sessions`, `employees.user_id` | every guard is evaluated before the transaction that writes; a login overtaken by a new password | grants and links stay within an organization, system permissions stay reserved, sessions follow passwords | `Accounts`, `AccountScreens`, `AccountsProofs` |
| employees, permanent deletion, purge of test data | `employees`, dependants, documents and files, audit entries | the dependants are counted, shown, confirmed and deleted in different calls | nothing is left behind, protected history survives, dialogs announce what is taken | `Employees`, `EmployeeScreens`, `EmployeesProofs` |
| employee import | the same rows; the wizard in the browser | lost answers, reopened dialogs, masked values, two imports at once, accounts unlinked or deleted meanwhile | nothing imported twice, only what was previewed, never a mask | `EmployeeImport`, `AccountsProofs` |
| employee fields and tabs | field and tab definitions, values, positions | a tab retired under a field, reorderings row by row, forms of different tabs at once | no visible field vanishes, orders do not mix, forms touch their own fields | `EmployeeFields`, `EmployeesProofs` |
| face enrollment, verification and its limit | enrollments, encrypted templates, the key ring, the attempt ledger | replacement against revocation, rotation of the key with crashes | one secret per active enrollment, readable at every point of the first rotation | `FaceTemplates`, `AttendanceProofs` |
| announcements | announcements, recipients, attachments, files | no transaction anywhere; calls that die between two statements, removals that fail unnoticed; audience changed under readers; a window written twice | no read counted twice, no file without a row that the code could have removed, the feed lists what one may open | `Announcements`, `PermissionProofs` |
| sessions: the throttle of failed logins | a map in process memory | | | not modelled |
| organizations and the projects put into one | `organizations`, `projects`, `audit_logs` | the dependants of an organization are counted, then it is deleted; foreign keys that are set to null; an entry written after the fact | the system's organization stays, codes are unique, nothing loses its organization, pages agree with the actions | `Tenants`, `AccountScreens`, `AccountsProofs` |
| audit log | `audit_logs` | best effort after the fact | | its entries in `PermissionRequests`, `Employees` and `Tenants` |
| re-encryption of payslips | stored files | | | not modelled |
| layout, navigation, camera, deployment, migrations | | | | not modelled |

The components meet in the database. Attendance reads projects, assignments and
work locations, and is emptied of references when these are deleted. Payslip
documents belong to payslips, whose status decides whether a document may still
change; the deletion of a period takes both, and its files. The recap reads
attendance records beside approved leave and permissions. The permanent deletion
of an employee counts rows of almost every other component. Leave and permission
share the pattern of a pre-read, a row lock and a second check, and nothing else.
`PROJECT.json` lists under `hazards` the places where all this can go wrong, each
at its line, and under `components` what of each part is modelled.

## The modules

State is what the tables hold, one variable for a table or for the columns that
matter; a row is a record, or a null value without one. `call[c]` (in
`PayslipDocuments`: `job[j]`) is one execution of a server action. Its record holds
what it has read, so the stale value is there for the model to use exactly where
the code uses it. A step of a call is what the database does at once: one query
outside a transaction, or one lock, or the writes of a transaction, which become
visible together. Operators named `...Mutated`, `...Unless...` and so on that are
commented `MUTANT` are alternatives that no specification uses; they show that
the properties can fail.

| module | composes | role |
|---|---|---|
| `LeaveLedger` | | abstract: requests within a grant, decided once |
| `LeaveRequests` | implements `LeaveLedger` | the three leave actions with row locks |
| `LeaveScreens` | extends `LeaveRequests` | queries, pages, dialog, buttons, dashboard figures |
| `PermissionRequests`, `PermissionScreens` | the second extends the first | the three permission actions and their audit entry; the pages |
| `PayrollWorkflow`, `PayrollScreens` | the second extends the first | one action per transaction on periods, runs and payslips; the pages |
| `PayslipDocuments` | takes its steps from, and implements, `PayrollWorkflow` | files, versions, crashes |
| `PayrollComponents` | | definitions, assignments and the engine that resolves them |
| `Attendance`, `AttendanceViews`, `AttendanceRecap` | each extends the one before | the actions; readiness and lists; the recap in both implementations |
| `Accounts`, `Tenants`, `AccountScreens` | each extends the one before; the steps of `Tenants` run beside those of `Accounts` | accounts, roles, grants, links, sessions; organizations and their projects; the settings pages for users, roles and organizations with their dialogs |
| `Employees`, `EmployeeScreens` | the second extends the first | records until their deletion; what lists and dialogs show and offer |
| `EmployeeImport` | | wizard, preview, import |
| `EmployeeFields` | | fields, tabs, values, positions, filter |
| `FaceTemplates` | | enrollments, keys, verification and its ledger |
| `Announcements` | | announcements, audience, attachments, feed |
| `...Proofs` | extend the modules they are named for; `PayrollProofs` extends `PayrollWorkflow` and `PayrollComponents`, `AttendanceProofs` also `FaceTemplates`, `AccountsProofs` also `EmployeeImport`, `PermissionProofs` also `Announcements`, `EmployeesProofs` also `EmployeeFields` | theorems |
| `SumTheorems` | extended by `LeaveProofs`, `PayrollProofs`, `EmployeesProofs` | theorems about sums over finite sets |
| `MC...` | extend one module | instances and symmetry for the runs |

### Leave (`features/leave`)

`call[c].stage` says how far a call is; every query and every `SELECT ... FOR
UPDATE` is a step, so that other calls run between what a call reads and what
it locks. The writes of a transaction become visible in the step that commits it,
together with the release of its locks (`requestLock`, `balanceLock`). A failing
step rolls back and is the same action for every cause (`Fail`). The owner and the
dates come from the read before the transaction, the status and the balance
from the read under the lock. `balance` is a partial map from accounts
(employee, type, year) to rows with the counters of the table. A balance that
does not exist cannot be locked; two first submissions both try to insert it and
the unique index decides.

`LeaveLedger` knows no counters and no locks. Its grant is refined by `entitlement +
adjustment`, and a submission must fit in the grant minus the days of the live
requests. That the counters implement these sums is `ImplementsLedger`.
`LeaveScreens` gives the rows, cards, lists and buttons of the pages as operators
of the state, and compares them with the guards of the actions.

### Permissions (`features/permission`)

The same shape without a balance. This module adds who acts (an employee's
user or a reviewer, who may be an employee too) and the audit entry:
`auditPermission` runs after the transaction and swallows its errors, which is
`WriteAudit`, or a `Fail` at the stage `auditing`.

### Payroll (`features/payroll`)

Every transaction on a period begins by locking its row, and runs, items and
payslip statuses are written only under this lock, so that one transaction is one
atomic action. The guards are those of the code, including where it looks at one
status column only. `calculatedFor` is a history variable: the end date the items
were calculated for. Payslip ids are a set `Slips`; generation assigns fresh ids
with `row`, an injective function from the included employees. `PayrollScreens` has
the buttons of the pages with the columns *they* look at, and the queries that
find the period of a payslip by its item or by its own column.

A *job* of `PayslipDocuments` is one upload, replacement, generation or
distribution. It checks without locks (`Start...`), stores one file after the other
(`StoreFile`, `StoreFails`), and commits in one transaction that repeats the checks
under row locks (`Commit`, `RollBack`); a failure leads to `cleanup`, which removes
the stored files one by one and may fail at each. A job may crash at every stage.
Everything else that happens to periods and payslips is a step of
`PayrollWorkflow`, taken over with `INSTANCE`; there, a document is only a member of
`documented`, and `ImplementsWorkflow` shows that the jobs are the atomic steps
`Attach` and `Distribute` seen from outside. `Commit` may lose its acknowledgement
(`FALSE \in Answers`): the job then cleans up as if it had been rolled back, and
the history variable `unheard` keeps the keys of the files that it stored.

`PayrollComponents` interleaves the unlocked reads and writes of the management
actions and evaluates `calculation.ts` in every state: effective windows,
percentages of the fixed earnings with their rounding, the clamped net. Amounts are whole
cents, a percentage has `Whole` as its hundred.

### Attendance (`features/attendance`, `work-locations`, `projects`)

None of these actions locks a row. Check-in runs three queries and an insert,
check-out three queries and an update, and the administrative actions one or more
reads followed by one write; each is a step. `InTransaction` and
`FreeConnection` model the connection pool: a transaction keeps a connection
until it ends, a query outside a transaction needs one for its duration, and
check-out's `getWorkLocationInOrganization` runs on the pool while its own
transaction is open. What the database guards is explicit: the unique index on
employee and day (`InsertFails`), the partial unique index on active assignments,
`ON DELETE CASCADE` and `ON DELETE SET NULL` (`DeleteProject`, `DeleteSite`).

The geofence is a nondeterministic choice. Two zones may disagree on the date at
one moment (`LocalDate`). The five reads that make a check-in eligible are one
step, as are the three parallel counts of a project's dependants; splitting them
would only let a call use an even older row. `AttendanceRecap` classifies each day
of a period twice, as the SQL of `recap.queries.ts` does and as the pure functions
of `recap.ts` do, and totals it for the page, the detail page and the export.

### Accounts and organizations (`features/users`, `rbac`, `auth`, `account`, `organizations`, `projects`, `lib/auth`)

A call reads everything it decides on in one step and writes in another, since
nothing is locked between its queries. `lib/auth/rbac.ts` and
`features/users/policy.ts` are operators of the rows. A password is the call that
chose it, so that a session remembers which password opened it. A password change
is three steps: the read, the write, the revocation of the sessions; any of them may
fail. Ids of deleted users and roles are in `spent` and never given again.

`Tenants` adds the actions on organizations, and the two of projects that choose an
organization. A task (`task[c]`) decides in one step, after counting the dependants
where it deletes, writes in the next one, where only the unique index and the foreign
keys can still refuse, and appends its audit entry in a third, which may fail. An
account refers to its organization by a key that would be set to null, so nothing in
the schema itself keeps an organization from being deleted under an account created
since the scan; what does is that every such organization holds a role of the
system (`Anchored`), and the key of roles refuses. A step of `Accounts` is taken
as it is, with the two conditions that organizations add (`AccountsMeetTenants`):
`createUserAction` asks for an active organization, and the keys of a new account or
role for an existing one. The run checks the composition, `TenantSpec`.

`AccountScreens` gives the lists, the buttons and the forms of settings/users,
settings/roles and settings/organizations as operators of the rows.
`ScreensFollowAccounts` compares them with
the guards (`MayDeleteUser` and its like): Delete is shown exactly where
the action would accept it, although the page judges by the displayed role of the own
organization and the action by every grant; the forms are accepted; the role editor
has a box for every permission a role has, so saving it loses none; and the page of an
organization says that it is safe to delete exactly when the action agrees.

### Employees, import and fields (`features/employees`, `employee-fields`, `employee-tabs`)

`Employees` covers creation, edits, the sections of the record, documents with their
files, permanent deletion and the purge of test data. Only the permanent deletion
locks the employee and is one step; the purge reads, decides (`DecidePurge`), reads
once more whose number is that of test data (`ConfirmTestData`), and deletes
(`ApplyPurge`), all without locks. `EmployeeScreens` adds what the dialogs count before and what they
announce. In `EmployeeImport` the wizard is part of the state: a file is sent to be
previewed and again to be imported, answers get lost, dialogs are closed and
reopened while one is awaited, and a row that a transaction has written is locked
until it ends. Beside the imports, employees change their status and accounts are
created, unlinked, linked to somebody else and deleted. In `EmployeeFields` a reordering updates row after row and keeps the
rows locked; the database breaks a deadlock by failing one call.

### Faces and announcements (`features/employees/face-*`, `features/announcements`)

`FaceTemplates` has the enrollment rows, the templates with the key that encrypted
them and its label, the configuration of the server, and the re-keying script with
its row locks, its crashes and its restarts of the server between the phases of
docs/SECURITY-ROTATION-IMPLEMENTATION.md. The verification ledger is bounded by
`MaxEntries`. In `Announcements` nothing is transactional: every statement and every
file operation is a step, and a call may die before each of them (`Die`). A file may be
written half, a row may be stored although its `INSERT` reports a failure, and a
removal may fail without notice, one file by one. Three history variables keep what
this leaves behind: `lost`, the reads that a call died before counting, `stray`, the
files nobody deals with any more, and `erased`, the reads deleted since.

A screen is compared with the operator that is the guard of the action behind it
(`MayReview`, `CanLock`, `MayDeleteRole`): it is the first conjunct of
the action, so that the page is judged by what the server asks.

## The runs

| run | instance | what it shows |
|---|---|---|
| `leave` | 1 employee and type, 2 requests, 2 calls, 3 days over a year boundary, grant 3, corrections | counters, history, pages and ledger under every interleaving of two calls and every failure; every call ends |
| `permission` | 1 request, 3 calls, 2 employees, 2 reviewers (one of them an employee) | history, deciders, audit and pages, whoever raced; every call ends |
| `payroll` | 1 period, 2 employees, 4 payslips, 2 dates, 2 amounts | the whole workflow in every order, with its pages |
| `documents` | 1 period, 2 employees, 2 payslips, 3 keys, 2 jobs, 2 versions; the files of 1 unheard commit at a time (`MaxUnheard`) | files, rows and histories under crashes, failures and lost acknowledgements; refinement of the workflow |
| `components` | 1 employee, 2 components, 2 assignments, 2 calls, days 0 and 1, amounts 5 and 150 | windows, uniqueness, and the computed item for every day in every state |
| `attendance` | 1 employee, project, place; 2 records, 2 days, 2 calls, 3 connections, 4 circumstances | the guards the database keeps, both recaps, readiness; no call waits forever |
| `accounts` | 5 users (one to be created), 5 roles, 4 organizations (one empty, one to be created), 4 codes, 2 calls | any two overlapping actions on accounts, roles, grants, passwords, organizations and projects; the pages beside them |
| `employees` | 2 employees (one test data), 3 numbers, 3 calls | what a deletion or a purge may take, beside edits, uploads and new rows |
| `import` | 2 numbers, 2 addresses, 3 workbooks and the own export, 1 list, 1 wizard, 2 calls | overlapping imports with lost answers, beside edits of employees and their accounts |
| `fields` | 2 fields, 1 tab, 1 role, 3 calls | management, reorderings and saves at once |
| `faces` | 2 employees and users, 3 calls, 1 rotation | enrollments, revocations and verifications during a rotation with crashes |
| `announcements` | 2 employees, one of whom is deleted (`Leavers`), 3 calls, 1 window, clock 0 to 2, uploads of 0 or 2 files (`Sizes`), an edit brings files beside at most one file or upload (`Backlog`) | reads, publication, retargeting, deletion and uploads, statement by statement, with failing uploads and removals and dying calls |

What the properties say is in the comment above each of them. In short: an
invariant named `...Consistent` (or `BalancesFollowRequests`,
`DecisionsAreRecorded`) collects the types and what relates the tables to each
other; `Screens...`, `PagesAgree` and `FeedIsOpenable` relate
what is shown to what is accepted or stored; the action properties say what no step
may undo; `ImplementsLedger` and `ImplementsWorkflow` are refinements; `CallsFinish`
is liveness. Each of them has a mutant in `PROJECT.json` that breaks it.

**Why the bounds suffice.** Every lock of leave and permission is on one request
or one balance row, so calls that share neither do not influence each other; two
calls on two requests of one account already contain the races for the balance
row, two first submissions, and a review against a cancellation. Three days over
a year boundary give one-day and multi-day requests and a leave that
ends in another year than its balance; a grant of 3 with corrections can be used
up and exceeded. Permissions need three calls to have two waiters behind a
holder. Periods of payroll share nothing; two employees and four payslip ids give
each a calculated and a distributed payslip, the most the code issues. A third key
lets one job replace a document while another fails. An upload of two announcement
files can fail before, between and after them. Two components give a
percentage its base; amounts of 5 and 150 with a `Whole` of 100 meet the rounding
and a percentage above the whole. In attendance, a second employee or zone
makes the state space four times larger without adding a shared row; `LastTick`
and `TicksPerDay` let a record span midnight. Two calls suffice where each action is a
read and a write, which is most of `Accounts` and `PayrollComponents`: what is stale in
one is what the other wrote. Where an action has more steps there are three calls.
Records, keys and ids are never reused, as UUIDs are not; a run ends where they are
used up, hence `CHECK_DEADLOCK FALSE` in the configurations where calls are used
up. Leave and permission are checked for deadlock, and so are accounts, where the
state in which all calls have ended stutters.

**Symmetry.** The runs with `SYMMETRY` identify states that differ only by a
permutation of ids, amounts, keys or calls that no operator tells apart. No run that
checks liveness uses symmetry.

**Fairness.** `FairSpec` (leave, permission, attendance) asks for strong fairness of
`Advance(c)`, the next step of a call that has begun, never of `Fail` and never of a
new call. Node runs every promise that is settled, and PostgreSQL queues the waiters
of a row lock, as the pool queues those of a connection, in order of arrival: a call
whose lock or connection becomes available again and again is served. Weak fairness
would not express this, since another call may take the lock in between.
`CallsFinish` says that calls end without the help of failures; in attendance only
because there are more connections than calls. With as many check-outs as
connections (ten by default, and no timeout on acquiring one) each keeps one and waits
for a second, and none proceeds; that this is the only way to be stuck is proved
(`CheckOutsAloneStarve`). The other modules promise nothing that must
eventually happen: a browser or a server may always stop, and their calls are used
up.

## What is proved

The proofs hold for every set of employees, requests, calls, ids, days and amounts,
under the named `ASSUME`s of the modules (null values are no rows, constants are
sets of the right kind). TLC evaluates these assumptions in every run.

| module | theorems | argument |
|---|---|---|
| `SumTheorems` | `SumOfDisjoint`, `CountedTwice` and the others that the sums of leave, payroll and employees rest on | a smallest finite set for which they fail |
| `LeaveProofs` | `TypeCorrect`, `BalancesNeverOverdrawn`, `DecisionsAreFinal`, `HistoriesAgree`, `CountersAgree`, `BalancesAgree` (the run's `BalancesFollowRequests`), `LeaveImplementsLedger` (the run's `ImplementsLedger`), `NoCircularWait`, `CallsGoForward`, `ScreensStayTrue` (`ScreensFollowRequests`) | what a call read under a lock is still true when it writes |
| `PermissionProofs`, permissions | `TypeCorrect`, `ClaimsAreExclusive`, `DecisionsAreFinal`, `HistoriesAgree`, `RightUsersDecide`, `AuditNeverLies`, `RecordsAgree` (the run's `DecisionsAreRecorded`), `NobodyWaitsForAWaiter`, `ActionsGoForward`, `ScreensStayTrue` (`ScreensFollowRequests`) | an entitled call holds the only claim on its row |
| `PayrollProofs`, the workflow | `TypeCorrect`, `StatusColumnsAgree`, `PayslipsHaveFinalRuns`, `PayMatchesDates`, `SubmittedPayStays`, `DocumentBeforePublication`, `OneForEachItem`, `PayslipsMoveForward`, `PayrollStaysConsistent` (the run's `PayrollConsistent`), `ScreensStayTrue` (`ScreensFollowWorkflow`) | the nine pairs of the two status columns |
| `PayslipDocumentsProofs` | `Inductive`, `DocumentsStayConsistent` (the run's `DocumentsConsistent`), `LeaksAreKnown` (`NoSilentLeak`), `FilesFollow` (`FilesFollowDocuments`), `HistoriesOnlyGrow` (`HistoryIsAppendOnly`), `DocumentsImplementWorkflow` (`ImplementsWorkflow`) | what a storing job holds is its own until the commit |
| `PayrollProofs`, the components | `ComponentInductive`, `GrantsStayWellFormed`, `EndedAssignmentsStayEnded`, `PayStaysComputed` (the run's `PayIsComputed`) | the unique index, windows ordered when they are written, and components defined before they are in use |
| `AttendanceProofs`, attendance | `TypeCorrect`, `CheckInsStay`, `OneRecordEachDay`, `ActiveSitesStayComplete`, `NothingDangles`, `AttendanceStaysConsistent` (the run's `AttendanceConsistent`), `CheckOutsAloneStarve`, `CallsGoForward`, `PagesStayTrue` (`PagesAgree`) | what a call has found existed, what it will write is complete |
| `AccountsProofs`, accounts and organizations | `Inductive`, `AccountsAreConsistent`, `SessionsFollow`, `EmployeeRoleStays`, `EveryTenantIsAnchored`, `TenantsImplementAccounts`, `TenantsStayConsistent` (the run's `TenantsConsistent`), `ScreensStayTrue` (`ScreensFollowAccounts`) | an id, once given, keeps its organization and code until it is gone for good; a role of the system holds each organization in use |
| `AttendanceProofs`, faces | `SecretsAreKept`, `FacesOnlyReplacedOnRequest` (the run's `OnlyReplacedOnRequest`), `TemplatesStayConsistent` (the run's `TemplatesConsistent`) | rows are read for a replacement only when it was asked for; what a call encrypted has the key of its process |
| `EmployeesProofs`, employees | `RecordsInductive`, `NothingStaysBehind` (the run's `NothingIsLeftBehind`), `ProtectedHistoryStays` (`ProtectedHistorySurvives`), `PagesFollowRecords` (`ScreensFollowRecords`) | ids are used once; what a deletion counted can only have shrunk |
| `EmployeesProofs`, fields | `FieldsInductive`, `FieldsStayConsistent` (the run's `FieldsConsistent`), `FormsStayApart` (`FormsTouchTheirFields`) | a row stands as the last reordering that was committed left it |
| `AccountsProofs`, imports | `ImportInductive`, `ImportsStayConsistent` (the run's `ImportConsistent`), `WizardSendsWhatItShows` (`ConfirmedIsPreviewed`), `ImportsProvision` (`ImportedIsProvisioned`) | what a transaction has written is locked; what a dialog waits for is what it shows |
| `PermissionProofs`, announcements | `AnnouncementsInductive`, `AnnouncementsStayConsistent` (the run's `AnnouncementsConsistent`), `FeedOpens` (`FeedIsOpenable`) | each read without its count, and each file without its row, belongs to a call |

**Waiting.** `CallsFinish` follows from three facts: no calls wait for each other in a
circle, a call that has begun only ever moves towards its end, and who waits is served
in turn. The third is the fairness that is assumed; the other two are proved, for any
number of calls. `MayGoOn` (`MayProceed` in permission) spells out the guards of
`Advance`, since `ENABLED` is beyond the prover. In leave a decision takes the request
row before the balance row, and whoever holds a balance row is about to commit
(`LocksAreOrdered`), so a chain of waiting calls has at most two members that wait; in
permission it has one (`LocksAreClaims`). In attendance nobody waits for a row, but a
check-out needs a second connection while it keeps the first: `CheckOutsAloneStarve` says
that the pool is never overdrawn and that calls are stuck only when check-outs that wait
for their second connection hold every one of it, so never with fewer of them than
connections. `Remaining` and `StepsLeft` count the steps a call has before it.

**Leave.** `BalancesFollowRequests` is not inductive: a call that has read a
balance and will write it back must be known to have read its present value. The
strengthening `Discipline` says so for the three kinds of reads: a call that
holds the lock of a request or a balance holds what the row still says
(`Sound`), requests that have not been inserted have no events, no decision and no
days in a balance (`FreshRows`), and dates are in order (`OrderedRows`). From it follow
`NeverOverdrawn`, and together with it `CountersMatchRequests` and
`DecisionsHaveBalance`. The counters are compared with sums over the requests, and a
step changes one summand: `SumAtElement` and the other theorems of `SumTheorems`
say what that does to the sum. They are proved without induction over sets, which
the provers cannot instantiate: among the finite sets for which a statement fails
there is a smallest one, as strict inclusion of finite sets is well-founded, and
removing an element refutes it. The pages need a third kind of statement: the balance
tab, the dashboard and the cards add the same amounts in different orders, by year and by
type, and `CountedTwice` says that a finite table has one total, whether it is added row
by row or column by column. For these sums `LeaveScreens` assumes finite sets of
employees, types, years and days, and days without a gap (`ScreenConstants`). The refinement of `LeaveLedger` takes each
commit to the step of the ledger with the same name and each other step to a
stutter.

**Permissions.** `ClaimsHold` (a call past the lock holds it, and the row it read
is the row), `CallsAreEntitled` (its actor may do what the call is doing) and
`AuditingIsBacked` (a call about to write its audit entry has its event in the
history) make the rest inductive. The pages need one fact more, that a request which is
stored was submitted by an employee (`Submitted`).

**Payroll.** No guard of the workflow looks at all columns, so each fact rests on
`RunMatchesPeriod`: the two statuses only ever form nine pairs. With it, a final
run cannot be recalculated, and payslips of an approved run keep their items. The pages
find the period of a payslip in two ways, which `PayslipsHavePeriods` shows to agree.

**Documents.** A job that is storing has at most one file for each of its targets,
each under a key of its own (`Orderly`); these files are in storage, and no other
job and no document has them (`Apart`). So a commit adds a key to a history that no
other history has, and `Lined` counts the keys of each history against its length.
What a generating job will print is the item, because a payslip id is never given
twice and no item is recalculated under a calculated payslip (`WillSay`, `Printed`).
`Accounted` covers every file by a document, a job or `leaked`. All this holds with
lost acknowledgements too, and so does `FilesFollow`: every row has its file, unless
its commit went unheard. A job whose commit went through unheard removes files that a
document refers to, and the theorem names exactly these (`unheard`); what any other job
that cleans up holds, no document refers to (`Disowned`). The refinement takes the commit of an upload
or a generation to `Attach` and that of a distribution to `Distribute`; a
replacement and every step on files only are stutters. The module assumes
`DocumentConstants` and `NullsAreNoRows`.

**Accounts.** The guards are evaluated before the write, so the invariant must say
what outlives the gap: `Lasting` relates what a call read to any later state. Users
and roles keep their organization and their code until they are deleted, and ids in
`spent` are never given again. `Knows(c)` says this of what the call `c` read;
one lemma for each action shows that its write keeps the rows consistent,
`OthersKeepKnowing` that it keeps the knowledge of all other calls.

**Organizations.** `TenantsImplementAccounts` takes every behaviour of `TenantSpec` to
one of `Spec`, a task to stutters, so that the theorems about accounts hold for the
composition. `TenantsConsistent` then rests on three facts: what a task decided about the
reserved organization (`KnowsTask`) is still true when it writes, because the
reserved code never moves; a code is compared again by the index when it is
written; and `EveryTenantIsAnchored`. A role of the system is never deleted, and an
account or a role is only ever given to an organization in which somebody found a role
or belongs himself, and so one that is anchored. The pages judge by the role that is
displayed, which is one of the own organization; that the actions, which look at every
grant, come to the same result rests on grants never leaving an organization. The counts
on the pages need finite tables (`FiniteTables`).

**Attendance, components.** As in accounts the invariants speak about the reads
in flight: `FoundExist` and `WritesAreComplete` in attendance (with which `IInv` is
inductive), `CallsIntend` in the components (`ComponentInv`). The calculation is a
function of the state. That an item changes only at the ends of windows holds because
the day enters it through `Effective` alone; that its percentages are parts of the
fixed earnings *on the item* compares two sums over different functions, and needs the
active components to be defined and finitely many (`ActiveAreDefined`), so that each line
is a natural number and each sum is one.

**Faces.** `IInv` says of a call that it has rows in its hands only if its form
asked for the replacement (`Asked`), and of a ledger that no window holds more
attempts than were charged; the guard on the index (`SlotTaken`) keeps the active
enrollments apart. It needs no bound on the rotations. That templates stay readable
does: `KeyFor` lets the previous key answer to the default label only, so
`TemplatesStayConsistent` is stated for `Rotations \in {0, 1}`, the rotation that the
documentation describes. `RInv` adds that what a call encrypted carries the primary key
(a change of keys restarts the process and loses the calls), and that no row of the old
version comes back once the operator has counted none.

**Employees.** `NothingIsLeftBehind` relates rows, files, histories and audit entries
to the employees that exist, and is stable only together with what the calls know
(`CallsKnow`). An upload has a file that no other call and no row refers to until it
inserts its row; a purge that has decided has a set of employees whose records it
emptied, statement by statement, and goes on only for those; a removal of files
happens after the rows are gone. `IdsAreUsed` says that an id that was given is never
given again, so that an entry about a deleted employee keeps meaning him. `ProtectedHistorySurvives`
says of a history that goes that the transaction of the purge had read the number of
its employee as that of test data (`confirmed`), not that the number is still one when
the row is deleted: nothing locks it in between. One lemma,
`Moves`, carries the knowledge of all other calls over a step; each action shows that it
meets its hypotheses. The pages need one fact more: `OnePrimary`, that at most one bank
account of an employee is the primary one, since `getEmployeeMasterData` shows the first
one it finds. `EmployeesAssumption` says that generated ids differ from the seeded ones.
The dialogs announce totals, which the server adds up once by kind and once by what
blocks a deletion: `CountedByClass` makes both the number of rows, and for that
`FiniteRecords` assumes finitely many seeded records and calls. That an employee is not
among the reports that his own deletion would leave behind is `NobodyManagesHimself`;
that a deletion under way names one employee, a purge at least one and a change of
supervisor never the employee himself is `CallsAim`.

**Fields.** What `NoMixedOrder` says of finished reorderings is not inductive, since a
reordering that fails puts old positions back. `Stands(f, d)` says who wrote the position
of a field last among those that are done: its row, or what the reordering that keeps the
row locked will put back. The rows a reordering keeps are its own (`KeptAreOwn`), so only
its last step changes what stands, and then for all of its fields at once; of two
reorderings of the same fields only one stands (`StandUnmixed`). The assumption that an
order names each field once is the check of `reorderEmployeeFieldsAction` that the number
of fields found is the number of fields named.

**Imports.** `ImportInv` speaks of the rows of employees, of the dialogs and of the
imports under way. Of a dialog it says that a preview with rows to import is the preview
of the file and the settings the dialog has (`WizardSound`): every path that replaces
the file or the settings first clears the preview, and while an answer is awaited
neither can be replaced, except by opening the dialog again, which empties it. Of an
import in its transaction, `ImportSound` says that the rows done so far are in what it
read and what it will write, that the manager of a row exists, and that a row it has
written has the assignment and, unless the employee was read with one, the account that
it asks for; all of that outlives the steps of others, because employees are only
ever added here and the rows it has written are locked. Of rows it has read and not yet
written it knows nothing, as accounts are unlinked and deleted meanwhile.
`Apart` keeps two transactions from writing the same employee or inserting the same
account, so no commit meets an account that another import gave to somebody else; what an
edit inserts meanwhile is kept out by the index (`accounted` and `users` share no address).
Masks are kept out because the confirmed file was checked for the user who sent it
(`Checked`): an export masks only what that user may not update, and a
column with a value in it that the user may not update is refused. The proof assumes
(`ImportAssumption`) that employee numbers are finitely many, being of at most 32 letters,
digits and marks (employees/schemas.ts:45), that workbooks typed by hand hold no mask, and that the rows
found valid in a file differ in their numbers, which `buildEmployeeRow` checks;
`InitialAssumption` describes the employees to begin with.

**Announcements.** A receipt is marked in one statement and counted in another, so the
counter alone agrees with nothing; `ReadsAreCounted` adds the calls between the two
(`Counting`), the reads whose call died there (`lost`), and the receipts that a new
audience erased: no read is counted twice, and one is missing from the counter only
when its call died. Files are in storage before
their row is inserted and after it was deleted: `FilesAreKnown` gives each of them to the
call that stored it, that unlinks it, or that deletes its announcement, or to `stray`,
to which only a removal or a write that fails and a call that dies add. That these calls
cannot be confused is `NewIdsAreFree`: an announcement leaves no trace, and no other call
names it, before its `INSERT`. That the bound on the counter is no restriction is
`ReadsHaveEnded`: nobody is counted who has not ended a call. The theorems hold for
all finite sets of employees and calls and all windows that begin before they end
(`AnnouncementAssumption`), and need a null value that is no call (`NoneIsNoCall`).

### Only model-checked

- Liveness (`CallsFinish`): `ENABLED` and fairness are beyond the prover. The absence of
  circular waits and the progress of each step, on which it rests, are proved.
- `DecisionIsFinal` of `LeaveRequests` is the other way round: it is proved, and in the
  `leave` run it is part of what `ImplementsLedger` checks.

## Observed while modelling

None of the following contradicts a property of a run, several of which name it as
their exception; the models contain the behaviour as it is, or leave it out where
that is said.

**Leave and permissions.** Overlapping requests are looked for without a
lock and within one leave type (leave/actions.ts:161), so two submissions at once
may overlap, and leaves of two types always may. A
type without a balance row and without a default allowance is offered by the dialog
and always refused. The balance tab is headed with the current year and lists every
year, and the cards do not show the adjustment.

**Payroll.** A period whose payslips are all revoked can be neither edited nor
deleted unless it is locked, although the message advises to revoke them. Cancelling
a period leaves its distributed payslips, one of which can still be published. The
distribution path refuses an employee who has a payslip, generation does not look
for distributed ones (payroll/actions.ts:1550), so an employee may have one of each
kind. Deletion of a locked period is physical (payroll/actions.ts:1388) though the
comment at lines 70-71 says that finalized payroll data never is. Payslip and period pages
ask for slightly different permissions than the actions behind their buttons, and
"delete" is offered for a draft with a rejected run, "replace" for distributed
payslips of closed periods, which the server refuses. Changing the method
of a component to a percentage leaves assignments above one hundred; ending an
assignment with a date in the future removes it from the calculation at once; an
update that races with an end rewrites the ended row; the overflow of one item fails
the whole run.

**Documents.** A crash between storing a file and committing leaves the file (the
variable `leaked`). When the answer to a commit is lost, the `catch` block removes the
files of committed rows (payroll/payslip-document.actions.ts:360-368), which are the
files that `FilesFollowDocuments` excepts as `unheard`. The status of
the period is not read again when a document is replaced. Replacement locks the
document before the payslip, deletion of a period the payslips first; PostgreSQL
breaks the cycle (`RollBack`).

**Attendance.** The page decides which day it is by UTC, check-in by the zone of
the place (lib/attendance/time.ts:4-7). The page shows the latest open record,
check-out closes the oldest. Two check-outs at once both succeed
(attendance/actions.ts:805), the second overwriting the first. Check-ins that race
over midnight or in two zones leave two open records. Deleting a work location
during a check-in leaves an open record without a place, and changes the lateness of
its records to UTC. Deleting a project takes assignments with it. Check-out without an
open record writes no event though docs/attendance.md announces one. The readiness
summary counts the filtered rows; the recap treats minutes and seconds of
lateness differently for its total and its detail; a page past the last one reports no
employees.

**Accounts and organizations.** Saving the edit dialog of a linked account unlinks its
employee: the page lists the linkable employees without a current user
(settings/users/page.tsx:96 and 163), so the linked one is no option, the select
falls back to "Not linked", and the action takes an empty value for an order to unlink,
although features/users/queries.ts:245 says that the current link is kept available
in edit flows. A forced password change revokes every session and redirects to the
dashboard, where one has to log in again, although the comment above the call says that it
revokes only the others and keeps the current one (account/actions.ts:158-159);
the model does what the code does, and `SessionsFollowPasswords` would fail for a kept
session, which was opened with the old password. The edit and reset buttons stand beside super administrators and the role
editor opens for one's own roles where the actions refuse. The field for a temporary
password cannot be typed into before the first answer
(user-reset-password-dialog.tsx:107), the columns "Last Login" and "Created" of the
wide table are exchanged (users-manager.tsx:78), and `UserRoleManager` is rendered by no
page. Two deactivations at once may leave no active
super administrator (users/actions.ts:508), and one account may be linked to two
employees (users/actions.ts:535), since both are checked before the write. The users of
a deactivated organization can still log in, although its edit dialog says that
deactivating "hides the organization from sign-in"
(organization-edit-dialog.tsx:135); its administrators are offered forms for new
users that are always refused. A created organization cannot be deleted unless its
audit entry failed, because this entry counts as a dependant; the dialog opened from
the list, which counts employees and users only, still says "None — safe to delete".
A new organization has no roles until the seed script runs again, so no account can be
created in it. The entry of a deletion names the organization that is gone, so its key
refuses it and the error is swallowed (organizations/actions.ts:455). Names are compared
before the insert only and have no index, so two creations at once may share one; an
edit dialog opened before a deactivation undoes it. `activateOrganizationAction`
and `deactivateOrganizationAction` are called by no page.

**Employees, import and fields.** An edit opened before a change of status undoes the
change. The purge panel does not reopen its dialog for a second purge until it is
reloaded; the delete dialog can show the answer of an earlier opening (the server
checks again), is offered for the caller's own employee, which the server refuses, and
names direct reports only beside deletable rows. The import can undo a deactivation
made meanwhile. It also decides who needs an account by a `user_id` read before the
rows are written (employees/excel/import-action.ts:952-972, 998): an account that is
unlinked or deleted in between leaves an active employee without one, although
lines 566-567 say that the database never holds such an employee.
`ImportedIsProvisioned` excepts those who were read with an account. (An edit of an
account is one step in that module, and its e-mail does not change.) The purge looks at
the stored number before it deletes a history, but without a lock
(employees/test-data-purge.queries.ts:660-691), and deletes the employee by id
(741-749): a number changed to one of production in between does not save the
employee or the history; `ProtectedHistorySurvives` speaks of the number that was read.
The section of a field that is sent for a built-in tab is free text
(employee-fields/actions.ts:184-193) and may be the key of a retired or unknown tab. A purge records its audit entry outside its deletions. Custom
date-time values are cleared by saving them; a generated key may exceed its column;
a field on a retired tab cannot be saved without moving it.

**Faces and announcements.** The comment of the re-keying script says that its row
locks block enrollments and reads; `FOR UPDATE` blocks neither. The previous key of
the template cipher always answers to the label `v1` (lib/attendance/template-cipher.ts:126),
although its comment says that it decrypts the rows "whose stored `key_version` is not
the current version" (lines 35-36): one rotation, to `v2`, loses nothing, but a
second one, to `v3`, leaves every template of `v2` unreadable until it is re-keyed. The
run and `TemplatesStayConsistent` rotate once: what they say of "the rotation" is
said of the first. A revocation can report success while a
concurrent replacement leaves an active enrollment. A read of an announcement after
its audience changed adds a recipient who was not selected, and changing the
audience removes reads that are otherwise append-only. A call that dies between the
receipt and `read_count` leaves a read that is never counted. When an upload fails, the
files stored so far are removed and their rows stay (announcements/actions.ts:243-247),
so that an attachment is listed whose download fails; no property claims the contrary.
A failing removal is reported as a success (attachment-storage.ts:75-93), and of a
file whose write breaks off nobody knows the key. The detail page opens every published
announcement, to whomever it is addressed and outside its window
(app/(dashboard)/announcements/[announcementId]/page.tsx:76), although its comment
(lines 38-39) says that employees "only ever see it when the audience rules make it
visible"; `DetailOpens` is what the page does, and `FeedIsOpenable` compares in one
direction only: what is listed can be opened. The feed lists an announcement after the
moment `scheduled_at` (announcements/queries.ts:87-98), the policy and the comment of the
schema (db/schema/announcements.ts:32-34) from that moment on. The camera preview is
attached before its element exists, and a stream granted after the dialog was closed is
never stopped.

## What is not modelled

- **Failed logins**: a ledger in the memory of the process, read before and charged
  after the password is verified; built like the verification ledger that
  `FaceTemplates` models.
- **Re-encryption of payslips**: a script that is run by hand, file by file; the
  comparable re-keying of templates is modelled.
- **The audit log** as a component: entries are best effort and read by nobody but
  its page; where a property depends on an entry it is part of the module.
- **Forms, validation, formatting, paging, translations**: which inputs are
  accepted is modelled, how they are parsed is not. Permissions are modelled in
  `Accounts`, and elsewhere where a guard or a button depends on them.
- **Rendering, encryption, cameras, face recognition, geofence arithmetic,
  attendance photos**: pure functions or devices; the models choose their outcome.
- **Notifications, layout, navigation, schema and migrations, deployment,
  scripts**: no state machine, or only data definition. Constraints of the schema
  appear in the actions that meet them.
- **Time**: clocks advance where a rule depends on them (attendance, windows of
  the limiter and of announcements), otherwise "now" is a choice.
