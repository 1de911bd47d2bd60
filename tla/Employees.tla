----------------------------- MODULE Employees -----------------------------
(***************************************************************************)
(* Employee records from creation to permanent deletion: the server        *)
(* actions of features/employees (actions, master-data/actions,            *)
(* test-data-purge.actions) with the deletion policies and queries.        *)
(*                                                                         *)
(* A call runs in steps: what it reads before its transaction, the         *)
(* transaction, and what follows the commit.  A transaction whose reads    *)
(* are not locked is itself two steps.  Only the permanent deletion locks  *)
(* the employee, so it is one step.  A call may fail before any later one. *)
(*                                                                         *)
(* Data: an employee number is a value of Numbers; a row that belongs to   *)
(* an employee has a kind; "attendance" stands for every protected kind    *)
(* but the employment history.  Employees and rows are named by the call   *)
(* that inserted them.  Callers hold the permissions their action asks     *)
(* for, and are of the organization of every employee here.                *)
(***************************************************************************)
EXTENDS Naturals, FiniteSets, Sequences, SequencesExt, FiniteSetsExt

CONSTANTS Seeded,       \* employees of the initial state
          Accounts,     \* user accounts of the initial state
          Actor,        \* the account of the caller
          Numbers, TestNumbers,
          InitialNumber,
          Calls, None

ASSUME EmployeesAssumption ==
    /\ Actor \in Accounts
    /\ TestNumbers \subseteq Numbers
    /\ InitialNumber \in [Seeded -> Numbers]
    /\ None \notin Seeded \cup Accounts \cup Calls
    /\ Seeded \cap Calls = {} /\ "seed" \notin Calls  \* ids are generated

VARIABLES employee,  \* rows of employees
          history,   \* employee_employment_history: the statuses recorded, oldest first
          rows,      \* rows of the other tables that refer to an employee
          files,     \* private files of employee documents
          audit,     \* SUCCESS entries of the two deletions
          call       \* what each call has read and still has to do

vars == <<employee, history, rows, files, audit, call>>

Ids == Seeded \cup Calls
Users == Accounts \cup Calls
Statuses == {"active", "inactive"}

Protected == {"attendance"}
Single == {"address", "insurance", "custom"}
Deletable == Single \cup {"dependent", "education", "bank", "document"}

Employee == [number : Numbers, status : Statuses,
             manager : Ids \cup {None}, user : Users \cup {None}]
Row == [of : Ids, kind : Protected \cup Deletable, id : Calls \cup {"seed"},
        primary : BOOLEAN]
File == [of : Ids, id : Calls \cup {"seed"}]

Insert(e, kind, c, primary) == [of |-> e, kind |-> kind, id |-> c, primary |-> primary]

Exists(e) == e \in DOMAIN employee
RowsOf(e) == {r \in rows : r.of = e}
IsTest(e) == employee[e].number \in TestNumbers
NumberTaken(n, e) == \E o \in DOMAIN employee \ {e} : employee[o].number = n

Idle == [op |-> "idle"]
Done == [op |-> "done"]
Running(c, op) == call[c].op = op
Becomes(c, state) == call' = [call EXCEPT ![c] = state]

\* Something the call awaits throws, or the server stops.
Fail(c) ==
    /\ call[c] \notin {Idle, Done}
    /\ Becomes(c, Done)
    /\ UNCHANGED <<employee, history, rows, files, audit>>

----------------------------------------------------------------------------
\* Creation, profile and account.

\* The account is free, or linked to the employee that is being edited.
Linkable(u, e) == u # None => ~\E o \in DOMAIN employee \ {e} : employee[o].user = u

CreateEmployee(c) ==
    /\ \E n \in Numbers, u \in Accounts \cup {None} :
          /\ Linkable(u, None)
          /\ Becomes(c, [op |-> "create", number |-> n, user |-> u])
    /\ UNCHANGED <<employee, history, rows, files, audit>>

\* With the custom fields that were filled in.
CommitCreateEmployee(c) ==
    /\ Running(c, "create")
    /\ ~NumberTaken(call[c].number, None)
    /\ employee' = [e \in DOMAIN employee \cup {c} |->
                       IF e = c THEN [number |-> call[c].number, status |-> "active",
                                      manager |-> None, user |-> call[c].user]
                                ELSE employee[e]]
    /\ \E filled \in SUBSET {Insert(c, "custom", c, FALSE)} : rows' = rows \cup filled
    /\ Becomes(c, Done)
    /\ UNCHANGED <<history, files, audit>>

\* The form posts the number and, where it shows them, the status and the
\* account; what it does not post is written back as it was read.
UpdateEmployee(c) ==
    /\ \E e \in DOMAIN employee : LET old == employee[e] IN
         \E new \in [number : Numbers, status : Statuses, manager : {old.manager},
                     user : Accounts \cup {None, old.user}] :
            /\ new # old
            /\ Linkable(new.user, e)
            /\ Becomes(c, [op |-> "update", of |-> e, old |-> old, new |-> new])
    /\ UNCHANGED <<employee, history, rows, files, audit>>

\* Deciding by the row it read, the transaction appends to the history.
CommitUpdateEmployee(c) ==
    /\ Running(c, "update")
    /\ LET e == call[c].of
           new == call[c].new
           changed == new.status # call[c].old.status
       IN /\ changed => Exists(e)
          /\ Exists(e) => ~NumberTaken(new.number, e)
          /\ IF Exists(e)
             THEN /\ employee' = [employee EXCEPT ![e] =
                         [new EXCEPT !.manager = employee[e].manager]]
                  /\ history' = IF changed
                                THEN [history EXCEPT ![e] = Append(@, new.status)]
                                ELSE history
             ELSE UNCHANGED <<employee, history>>
    /\ Becomes(c, Done)
    /\ UNCHANGED <<rows, files, audit>>

CreateEmployeeAccount(c) ==
    /\ \E e \in DOMAIN employee :
          /\ employee[e].user = None
          /\ Becomes(c, [op |-> "account", of |-> e])
    /\ UNCHANGED <<employee, history, rows, files, audit>>

\* The new account is the call's; the link is not compared with what was read.
CommitCreateEmployeeAccount(c) ==
    /\ Running(c, "account")
    /\ employee' = [e \in DOMAIN employee |->
                       IF e = call[c].of THEN [employee[e] EXCEPT !.user = c]
                                         ELSE employee[e]]
    /\ Becomes(c, Done)
    /\ UNCHANGED <<history, rows, files, audit>>

----------------------------------------------------------------------------
\* Employment: status, manager and the history.

\* deleteEmployeeAction; someone else's account, so never the caller's own.
DeactivateEmployee(c) ==
    /\ \E e \in DOMAIN employee :
          /\ employee[e].user # Actor
          /\ Becomes(c, [op |-> "deactivate", of |-> e, to |-> "inactive"])
    /\ UNCHANGED <<employee, history, rows, files, audit>>

UpdateEmployeeStatus(c) ==
    /\ \E e \in DOMAIN employee, s \in Statuses :
          Becomes(c, [op |-> "status", of |-> e, to |-> s])
    /\ UNCHANGED <<employee, history, rows, files, audit>>

\* The first read of both transactions; the row is not locked.
ReadStatus(c) ==
    /\ call[c].op \in {"deactivate", "status"}
    /\ LET e == call[c].of
       IN Becomes(c, IF Exists(e) /\ employee[e].status # call[c].to
                     THEN [call[c] EXCEPT !.op = "write status"] ELSE Done)
    /\ UNCHANGED <<employee, history, rows, files, audit>>

WriteStatus(c) ==
    /\ Running(c, "write status")
    /\ LET e == call[c].of IN
          /\ Exists(e)
          /\ employee' = [employee EXCEPT ![e].status = call[c].to]
          /\ history' = [history EXCEPT ![e] = Append(@, call[c].to)]
    /\ Becomes(c, Done)
    /\ UNCHANGED <<rows, files, audit>>

\* updateEmploymentDataAction; the status may be left out of the form.
UpdateEmployment(c) ==
    /\ \E e \in DOMAIN employee, m \in DOMAIN employee \cup {None}, s \in Statuses :
          /\ m # e
          /\ Becomes(c, [op |-> "employment", of |-> e, manager |-> m, to |-> s,
                         changed |-> m # employee[e].manager \/ s # employee[e].status])
    /\ UNCHANGED <<employee, history, rows, files, audit>>

\* Without the employee or the manager a foreign key refuses the statement.
CommitUpdateEmployment(c) ==
    /\ Running(c, "employment")
    /\ LET e == call[c].of
           m == call[c].manager
       IN /\ call[c].changed => Exists(e)
          /\ IF Exists(e)
             THEN /\ m # None => Exists(m)
                  /\ employee' = [employee EXCEPT ![e].manager = m,
                                                  ![e].status = call[c].to]
                  /\ history' = IF call[c].changed
                                THEN [history EXCEPT ![e] = Append(@, call[c].to)]
                                ELSE history
             ELSE UNCHANGED <<employee, history>>
    /\ Becomes(c, Done)
    /\ UNCHANGED <<rows, files, audit>>

----------------------------------------------------------------------------
\* The sections of the record: rows of the employee in other tables.

SaveRow(c, kind) ==
    /\ \E e \in DOMAIN employee :
          Becomes(c, [op |-> "save", of |-> e, kind |-> kind])
    /\ UNCHANGED <<employee, history, rows, files, audit>>

\* Every address is the KTP one here: the second of a type is refused.
SaveAddress(c) == SaveRow(c, "address")
SaveInsurance(c) == SaveRow(c, "insurance")
SaveDependent(c) == SaveRow(c, "dependent")
SaveEducation(c) == SaveRow(c, "education")
SaveCustomData(c) == SaveRow(c, "custom")

\* An insurance found is updated in place; two insertions meet a unique index.
CommitSaveRow(c) ==
    /\ Running(c, "save")
    /\ LET e == call[c].of
           kind == call[c].kind
           taken == kind \in Single /\ \E r \in RowsOf(e) : r.kind = kind
       IN /\ Exists(e)
          /\ rows' = IF taken THEN rows ELSE rows \cup {Insert(e, kind, c, FALSE)}
    /\ Becomes(c, Done)
    /\ UNCHANGED <<employee, history, files, audit>>

\* One statement, by the id of a row of the employee.
DeleteRow(c, kind) ==
    /\ \E r \in rows : r.kind = kind /\ rows' = rows \ {r}
    /\ Becomes(c, Done)
    /\ UNCHANGED <<employee, history, files, audit>>

DeleteAddress(c) == DeleteRow(c, "address")
DeleteDependent(c) == DeleteRow(c, "dependent")
DeleteEducation(c) == DeleteRow(c, "education")
DeleteCustomData(c) == DeleteRow(c, "custom")
DeleteBankAccount(c) == DeleteRow(c, "bank")

\* A new account, or one that was found; primary if the form says so.
SaveBankAccount(c) ==
    /\ \E e \in DOMAIN employee, p \in BOOLEAN :
         \E id \in {c} \cup {r.id : r \in {b \in RowsOf(e) : b.kind = "bank"}} :
            Becomes(c, [op |-> "bank", of |-> e, id |-> id, primary |-> p])
    /\ UNCHANGED <<employee, history, rows, files, audit>>

SetPrimaryBankAccount(c) ==
    /\ \E e \in DOMAIN employee : \E r \in RowsOf(e) :
          /\ r.kind = "bank"
          /\ Becomes(c, [op |-> "bank", of |-> e, id |-> r.id, primary |-> TRUE])
    /\ UNCHANGED <<employee, history, rows, files, audit>>

\* First every flag is cleared, then the account is set or inserted; an
\* account that is gone leaves the employee without a primary one.
CommitBankAccount(c) ==
    /\ Running(c, "bank")
    /\ LET e == call[c].of
           id == call[c].id
           Is(r) == r.of = e /\ r.kind = "bank"
           Cleared(r) == IF Is(r) /\ call[c].primary THEN [r EXCEPT !.primary = r.id = id] ELSE r
       IN /\ id = c => Exists(e)
          /\ rows' = {Cleared(r) : r \in rows}
                       \cup (IF id = c THEN {Insert(e, "bank", c, call[c].primary)} ELSE {})
    /\ Becomes(c, Done)
    /\ UNCHANGED <<employee, history, files, audit>>

\* Rows that other modules insert: a check-in stands for the protected ones.
RecordAttendance(c) ==
    /\ \E e \in DOMAIN employee :
          rows' = rows \cup {Insert(e, "attendance", c, FALSE)}
    /\ Becomes(c, Done)
    /\ UNCHANGED <<employee, history, files, audit>>

----------------------------------------------------------------------------
\* Documents: a row and a private file.

UploadDocument(c) ==
    /\ \E e \in DOMAIN employee : Becomes(c, [op |-> "upload", of |-> e])
    /\ UNCHANGED <<employee, history, rows, files, audit>>

StoreFile(c) ==
    /\ Running(c, "upload")
    /\ files' = files \cup {[of |-> call[c].of, id |-> c]}
    /\ Becomes(c, [call[c] EXCEPT !.op = "insert document"])
    /\ UNCHANGED <<employee, history, rows, audit>>

InsertDocument(c) ==
    /\ Running(c, "insert document")
    /\ Exists(call[c].of)
    /\ rows' = rows \cup {Insert(call[c].of, "document", c, FALSE)}
    /\ Becomes(c, Done)
    /\ UNCHANGED <<employee, history, files, audit>>

DeleteDocument(c) ==
    /\ \E r \in rows :
          /\ r.kind = "document"
          /\ Becomes(c, [op |-> "delete document", of |-> r.of, id |-> r.id])
    /\ UNCHANGED <<employee, history, rows, files, audit>>

\* MUTANT of DeleteDocumentRow: the file goes before the row.
DeleteDocumentFileFirst(c) ==
    /\ Running(c, "delete document")
    /\ files' = files \ {[of |-> call[c].of, id |-> call[c].id]}
    /\ Becomes(c, [call[c] EXCEPT !.op = "delete file"])
    /\ UNCHANGED <<employee, history, rows, audit>>

DeleteDocumentRow(c) ==
    /\ Running(c, "delete document")
    /\ rows' = {r \in rows : ~(r.kind = "document" /\ r.id = call[c].id /\ r.of = call[c].of)}
    /\ Becomes(c, [call[c] EXCEPT !.op = "delete file"])
    /\ UNCHANGED <<employee, history, files, audit>>

DeleteDocumentFile(c) ==
    /\ Running(c, "delete file")
    /\ files' = files \ {[of |-> call[c].of, id |-> call[c].id]}
    /\ Becomes(c, Done)
    /\ UNCHANGED <<employee, history, rows, audit>>

----------------------------------------------------------------------------
\* Permanent deletion.

\* What the foreign keys do when the employees S go: managers are set to
\* null, and any other row of theirs refuses the deletion.
Without(S) == [e \in DOMAIN employee \ S |->
                  IF employee[e].manager \in S
                  THEN [employee[e] EXCEPT !.manager = None] ELSE employee[e]]

\* The dispositions of the policies; history is excepted for test data only.
Disposition(kind) == IF kind \in Deletable THEN "deletable" ELSE "protected"
HasProtected(e) == \/ history[e] # <<>>
                   \/ \E r \in RowsOf(e) : Disposition(r.kind) = "protected"
HasProtectedUnlessTest(e) ==
    \/ history[e] # <<>> /\ ~IsTest(e)
    \/ \E r \in RowsOf(e) : Disposition(r.kind) = "protected"

\* What the transaction looks at again: the number, the caller's own record,
\* the protected rows.
MayPermanentlyDelete(S, number) ==
    \A e \in S : /\ Exists(e)
                /\ employee[e].number = number
                /\ employee[e].user # Actor
                /\ ~HasProtected(e)

\* The caller types the number shown and ticks the acknowledgement.
PermanentlyDelete(c) ==
    /\ \E e \in DOMAIN employee :
          Becomes(c, [op |-> "delete", of |-> {e}, number |-> employee[e].number])
    /\ UNCHANGED <<employee, history, rows, files, audit>>

\* MUTANT of CommitPermanentlyDelete: the entry is written before the deletion is tried.
AuditThenPermanentlyDelete(c) ==
    /\ Running(c, "delete")
    /\ audit' = audit \cup {[by |-> "delete", of |-> call[c].of]}
    /\ Becomes(c, Done)
    /\ UNCHANGED <<employee, history, rows, files>>

\* The row is locked first: no row that refers to it can appear meanwhile.
CommitPermanentlyDelete(c) ==
    /\ Running(c, "delete")
    /\ MayPermanentlyDelete(call[c].of, call[c].number)
    /\ employee' = Without(call[c].of)
    /\ rows' = {r \in rows : r.of \notin call[c].of}
    /\ Becomes(c, [call[c] EXCEPT !.op = "audit"])
    /\ UNCHANGED <<history, files, audit>>

AuditPermanentDelete(c) ==
    /\ Running(c, "audit")
    /\ audit' = audit \cup {[by |-> "delete", of |-> call[c].of]}
    /\ Becomes(c, [call[c] EXCEPT !.op = "storage"])
    /\ UNCHANGED <<employee, history, rows, files>>

\* deleteEmployeeDocumentStorage, after the commit of either deletion.
DeleteStorage(c) ==
    /\ Running(c, "storage")
    /\ files' = {f \in files : f.of \notin call[c].of}
    /\ Becomes(c, Done)
    /\ UNCHANGED <<employee, history, rows, audit>>

----------------------------------------------------------------------------
\* The purge of test data.

\* Those who report to the selected and are not selected themselves.
DirectReports(S) == {e \in DOMAIN employee \ S : employee[e].manager \in S}

\* The fingerprint: numbers, counts by kind, and the direct reports.
PlanToken(S) ==
    [targets |-> [e \in S |-> [number |-> employee[e].number,
                               history |-> Len(history[e]),
                               rows |-> [k \in Protected \cup Deletable |->
                                           Cardinality({r \in RowsOf(e) : r.kind = k})]]],
     reports |-> [e \in DirectReports(S) |-> employee[e].number]]

AnalyzePurge(c) ==
    /\ \E S \in SUBSET DOMAIN employee :
          /\ S # {}
          /\ \A e \in S : IsTest(e)
          /\ Becomes(c, [op |-> "purge", of |-> S, token |-> PlanToken(S)])
    /\ UNCHANGED <<employee, history, rows, files, audit>>

MayPurge(S) ==
    /\ \A e \in S : IsTest(e) /\ ~HasProtectedUnlessTest(e)
    /\ \A e \in DirectReports(S) : IsTest(e)

MayApplyPlan(S, token) ==
    /\ S \subseteq DOMAIN employee
    /\ PlanToken(S) = token
    /\ MayPurge(S)

\* The confirmed purge first reads everything again, without locks.
DecidePurge(c) ==
    /\ Running(c, "purge")
    /\ LET S == call[c].of IN
          /\ MayApplyPlan(S, call[c].token)
          /\ Becomes(c, [op |-> "apply", of |-> S, reports |-> DirectReports(S)])
    /\ UNCHANGED <<employee, history, rows, files, audit>>

\* MUTANT of TestDataAmong: the stored numbers are not looked at again.
ExistingAmong(S) == {e \in S : Exists(e)}
TestDataAmong(S) == {e \in S : Exists(e) /\ IsTest(e)}

\* Whose history may go is read, without a lock, before it is deleted: by then
\* an employee may have been renumbered.
ConfirmTestData(c) ==
    /\ Running(c, "apply")
    /\ Becomes(c, [op |-> "purge rows", of |-> call[c].of, reports |-> call[c].reports,
                   confirmed |-> TestDataAmong(call[c].of)])
    /\ UNCHANGED <<employee, history, rows, files, audit>>

PurgedHistory(confirmed) == [e \in Ids |-> IF e \in confirmed THEN <<>> ELSE history[e]]

\* The deletes: the history of those confirmed, the rows of every deletable
\* kind, the links of the reports decided on, the employees.  What is left of
\* theirs refuses the last one, whatever came between them.
ApplyPurge(c) ==
    /\ Running(c, "purge rows")
    /\ LET S == call[c].of
           left == {r \in rows : r.of \in S => Disposition(r.kind) = "protected"}
           unlinked == [e \in DOMAIN employee |->
                           IF e \in call[c].reports
                           THEN [employee[e] EXCEPT !.manager = None] ELSE employee[e]]
       IN /\ history' = PurgedHistory(call[c].confirmed)
          /\ \A e \in S : history'[e] = <<>> /\ ~\E r \in left : r.of = e
          /\ rows' = left
          /\ employee' = [e \in DOMAIN unlinked \ S |->
                             IF unlinked[e].manager \in S
                             THEN [unlinked[e] EXCEPT !.manager = None] ELSE unlinked[e]]
          /\ audit' = audit \cup {[by |-> "purge", of |-> S]}
    /\ Becomes(c, [op |-> "storage", of |-> call[c].of])
    /\ UNCHANGED files

\* The entry goes through the pool, so it outlives a commit that fails.
PurgeNotCommitted(c) ==
    /\ Running(c, "purge rows")
    /\ audit' = audit \cup {[by |-> "purge", of |-> call[c].of]}
    /\ Becomes(c, Done)
    /\ UNCHANGED <<employee, history, rows, files>>

----------------------------------------------------------------------------
Init ==
    /\ employee = [e \in Seeded |-> [number |-> InitialNumber[e], status |-> "active",
                                     manager |-> None, user |-> None]]
    /\ history = [e \in Ids |-> <<>>]
    /\ rows = {Insert(e, k, "seed", k = "bank") : e \in Seeded, k \in {"bank", "document"}}
    /\ files = [of : Seeded, id : {"seed"}]
    /\ audit = {}
    /\ call = [c \in Calls |-> Idle]

Start(c) ==
    /\ call[c] = Idle
    /\ \/ CreateEmployee(c) \/ UpdateEmployee(c) \/ CreateEmployeeAccount(c)
       \/ DeactivateEmployee(c) \/ UpdateEmployeeStatus(c) \/ UpdateEmployment(c)
       \/ SaveAddress(c) \/ SaveInsurance(c) \/ SaveDependent(c) \/ SaveEducation(c)
       \/ SaveCustomData(c) \/ SaveBankAccount(c) \/ SetPrimaryBankAccount(c)
       \/ DeleteAddress(c) \/ DeleteDependent(c) \/ DeleteEducation(c)
       \/ DeleteCustomData(c) \/ DeleteBankAccount(c)
       \/ RecordAttendance(c) \/ UploadDocument(c) \/ DeleteDocument(c)
       \/ PermanentlyDelete(c) \/ AnalyzePurge(c)

Continue(c) ==
    \/ CommitCreateEmployee(c) \/ CommitUpdateEmployee(c) \/ CommitCreateEmployeeAccount(c)
    \/ ReadStatus(c) \/ WriteStatus(c) \/ CommitUpdateEmployment(c)
    \/ CommitSaveRow(c) \/ CommitBankAccount(c)
    \/ StoreFile(c) \/ InsertDocument(c) \/ DeleteDocumentRow(c) \/ DeleteDocumentFile(c)
    \/ CommitPermanentlyDelete(c) \/ AuditPermanentDelete(c) \/ DeleteStorage(c)
    \/ DecidePurge(c) \/ ConfirmTestData(c) \/ ApplyPurge(c) \/ PurgeNotCommitted(c)

Next == \E c \in Calls : Start(c) \/ Continue(c) \/ Fail(c)

Spec == Init /\ [][Next]_vars

----------------------------------------------------------------------------
\* Rows are well formed and refer to an employee that exists: nothing is left
\* behind by a deletion, and no manager or history of an employee that is gone.
TypeOK ==
    /\ DOMAIN employee \subseteq Ids
    /\ \A e \in DOMAIN employee :
          employee[e] \in Employee /\ employee[e].manager \in DOMAIN employee \cup {None}
    /\ history \in [Ids -> Seq(Statuses)]
    /\ \A e \in Ids : history[e] # <<>> => Exists(e)
    /\ rows \subseteq Row /\ \A r \in rows : Exists(r.of)
    /\ files \subseteq File
    /\ audit \subseteq [by : {"delete", "purge"}, of : SUBSET Ids]

\* What the law makes the company keep: an employee whose record is deleted
\* had no attendance, leave, payroll or payslip; the history of one that stays
\* only grows, and that of one that goes was taken by a purge whose transaction
\* had read its number as that of test data.  (Read, not locked: a number that
\* is given to production before the deletes goes with its history.)
HistoryGrows(e) ==
    history'[e] = history[e] \/ \E s \in Statuses : history'[e] = Append(history[e], s)
ProtectedHistorySurvives ==
    [][/\ \A e \in DOMAIN employee \cap DOMAIN employee' : HistoryGrows(e)
       /\ \A e \in DOMAIN employee \ DOMAIN employee' :
             /\ ~\E r \in RowsOf(e) : r.kind \in Protected
             /\ history[e] # <<>> =>
                   \E c \in Calls : Running(c, "purge rows") /\ e \in call[c].confirmed
       /\ \A c \in Calls : Running(c, "apply") /\ call'[c].op = "purge rows" =>
             \A e \in call'[c].confirmed : Exists(e) /\ IsTest(e)]_vars

\* Between storing a file and inserting its row, and between deleting a row and
\* its file, employees are deleted with their folder: still every document row
\* has its file.
DocumentsHaveFiles ==
    \A r \in rows : r.kind = "document" => [of |-> r.of, id |-> r.id] \in files

\* The audit of a permanent deletion that succeeded names an employee that is gone.
DeletionAuditIsTrue ==
    \A a \in audit : a.by = "delete" => a.of \cap DOMAIN employee = {}

\* No row, history or manager refers to an employee that is gone, no document
\* to a file that is gone, and no entry of a deletion to an employee that is not.
NothingIsLeftBehind ==
    /\ TypeOK
    /\ DocumentsHaveFiles
    /\ DeletionAuditIsTrue
=============================================================================

