--------------------------- MODULE EmployeeImport ---------------------------
(***************************************************************************)
(* Importing employees from a workbook (features/employees/excel) and from *)
(* a CSV file (features/employees/import): the wizard in the browser, the  *)
(* preview, and the confirmed import with its transaction.                 *)
(*                                                                         *)
(* The wizard sends a file, shows what the preview says of it and sends it *)
(* again to import it; answers get lost, dialogs are closed and reopened   *)
(* while one is awaited.  The import reads, plans and then writes row by   *)
(* row: a row that a transaction has written is locked until it ends.      *)
(*                                                                         *)
(* Data: one organization and project; a workbook has an Employees sheet,  *)
(* a Family sheet, here the number of rows that name the relative of each  *)
(* employee, and a sheet of bank accounts.  Phone numbers and account      *)
(* numbers are either plain or masked as the export writes them.  The      *)
(* columns that are stored as they are read (names, dates, addresses) are  *)
(* left out.                                                               *)
(***************************************************************************)
EXTENDS Naturals, FiniteSets, Sequences, SequencesExt

CONSTANTS Numbers,   \* employee numbers
          Emails,
          Initial,   \* the employees of the initial state, by number
          Dialogs,   \* open pages, each of one user
          Rights,    \* what the user of a page may do
          Workbooks, \* workbooks typed by hand, without masks
          Lists,     \* CSV files: sets of rows
          Imports, None

VARIABLES employee,  \* rows of employees, by number, with what refers to them
          users,     \* e-mail addresses of the user accounts
          dialog,    \* the import wizard of each page
          import     \* the imports that the server executes

importVars == <<employee, users, dialog, import>>

EmployeeStatuses == {"active", "inactive"}
Texts == {"plain", "masked"}

\* `recorded` is the status in the latest row of the employment history.
Employee == [status : EmployeeStatuses, recorded : EmployeeStatuses \cup {"none"},
             email : Emails \cup {None}, account : Emails \cup {None},
             phone : Texts \cup {""}, manager : Numbers \cup {None},
             family : Nat, banks : SUBSET Texts, assigned : BOOLEAN]
Row == [number : Numbers, status : EmployeeStatuses \cup {""}, email : Emails \cup {None},
        phone : Texts \cup {""}, manager : Numbers \cup {None}, valid : BOOLEAN]
Workbook == [readable : BOOLEAN, rows : Seq(Row), family : [Numbers -> Nat],
             bank : SUBSET (Numbers \X Texts)]

\* The rows of a file that are found valid differ in their numbers.
DistinctRows(rows) ==
    \A i, j \in DOMAIN rows : i # j /\ rows[i].valid /\ rows[j].valid =>
        rows[i].number # rows[j].number

ASSUME ImportAssumption ==
    /\ IsFiniteSet(Numbers) /\ None \notin Numbers \cup Emails
    /\ Rights \in [Dialogs -> SUBSET {"personal", "bank", "delete"}]
    /\ \A f \in Workbooks :
          /\ f \in Workbook /\ DistinctRows(f.rows)
          /\ \A i \in DOMAIN f.rows : f.rows[i].phone # "masked"
          /\ \A b \in f.bank : b[2] # "masked"
    /\ \A rows \in Lists : rows \subseteq Row /\ \A r \in rows : r.status # ""

\* The employees to begin with: managed by employees, each with an account of
\* its own and nothing masked.
ASSUME InitialAssumption ==
    /\ DOMAIN Initial \subseteq Numbers /\ Initial \in [DOMAIN Initial -> Employee]
    /\ \A n \in DOMAIN Initial :
          /\ Initial[n].manager \in DOMAIN Initial \cup {None}
          /\ \A o \in DOMAIN Initial \ {n} :
                Initial[n].account # None => Initial[o].account # Initial[n].account
          /\ Initial[n].phone # "masked" /\ "masked" \notin Initial[n].banks

Known(n) == n \in DOMAIN employee
\* What `m` maps is taken from it, everything else from `old`.
Over(m, old) == [n \in DOMAIN m \cup DOMAIN old |-> IF n \in DOMAIN m THEN m[n] ELSE old[n]]
With(m, n, e) == Over(m, [o \in {n} |-> e])
NumbersOf(rows) == {r.number : r \in ToSet(rows)}

\* The workbook that the export writes for the user of the page: what is not
\* shown to those who may only look is masked.
Hide(text, d, right) == IF text = "" \/ right \in Rights[d] THEN text ELSE "masked"
ExportOf(d) ==
    LET numbers == SetToSeq(DOMAIN employee)
        rowOf(n) == [number |-> n, status |-> employee[n].status, email |-> employee[n].email,
                     phone |-> Hide(employee[n].phone, d, "personal"),
                     manager |-> employee[n].manager, valid |-> TRUE]
        banksOf(n) == {<<n, Hide(b, d, "bank")>> : b \in employee[n].banks}
    IN [readable |-> TRUE,
        rows |-> [i \in DOMAIN numbers |-> rowOf(numbers[i])],
        family |-> [n \in Numbers |-> IF Known(n) THEN employee[n].family ELSE 0],
        bank |-> UNION {banksOf(n) : n \in DOMAIN employee}]

----------------------------------------------------------------------------
\* What a workbook is checked for.

InvalidRows(f) == {r.number : r \in {r \in ToSet(f.rows) : ~r.valid}}
Orphans(f) ==
    ({n \in Numbers : f.family[n] > 0} \cup {b[1] : b \in f.bank}) \ NumbersOf(f.rows)
TakenEmails(f) ==
    {r.number : r \in {r \in ToSet(f.rows) : r.email # None
        /\ \E n \in DOMAIN employee \ {r.number} : employee[n].email = r.email}}
PreviewErrors(f) == InvalidRows(f) \cup Orphans(f) \cup TakenEmails(f)

\* A sheet or a column that is filled in needs the right to update it.
Unauthorized(f, d) ==
    \/ (\E r \in ToSet(f.rows) : r.phone # "") /\ "personal" \notin Rights[d]
    \/ f.bank # {} /\ "bank" \notin Rights[d]

Turns(r, from, to) ==
    r.status = to /\ Known(r.number) /\ employee[r.number].status = from
Reactivates(f) == \E r \in ToSet(f.rows) : Turns(r, "inactive", "active")
Deactivates(f) == \E r \in ToSet(f.rows) : Turns(r, "active", "inactive")

----------------------------------------------------------------------------
\* The wizard.  Steps: 0 upload, 1 settings, 2 validation, 3 review, 4 result.

NoResult == [status |-> "idle", errors |-> {}, count |-> 0]
Error == [NoResult EXCEPT !.status = "error"]
Closed == [open |-> FALSE, file |-> None, step |-> 0, chosen |-> FALSE, accounts |-> TRUE,
           result |-> NoResult, waits |-> None]

Busy(d) == dialog[d].waits # None
Shows(d, new) == dialog' = [dialog EXCEPT ![d] = new]
Offers(d, steps) == dialog[d].open /\ ~Busy(d) /\ dialog[d].step \in steps

OpenDialog(d) ==
    /\ ~dialog[d].open
    /\ Shows(d, [Closed EXCEPT !.open = TRUE, !.waits = dialog[d].waits])
    /\ UNCHANGED <<employee, users, import>>

\* Escape closes the dialog even while it waits for an answer; what else it
\* keeps is reset when it is opened again.
CloseDialog(d) ==
    /\ dialog[d].open
    /\ Shows(d, [Closed EXCEPT !.waits = dialog[d].waits])
    /\ UNCHANGED <<employee, users, import>>

\* MUTANT of PickFile: a file may be picked while one is under way.
PickFileWhileBusy(d) ==
    /\ dialog[d].open /\ dialog[d].step = 0
    /\ \E f \in Workbooks \cup {ExportOf(d)} :
          Shows(d, [dialog[d] EXCEPT !.file = f, !.result = NoResult])
    /\ UNCHANGED <<employee, users, import>>

PickFile(d) ==
    /\ Offers(d, {0})
    /\ \E f \in Workbooks \cup {ExportOf(d)} :
          Shows(d, [dialog[d] EXCEPT !.file = f, !.result = NoResult])
    /\ UNCHANGED <<employee, users, import>>

ChooseSettings(d) ==
    /\ Offers(d, {1})
    /\ \E b \in BOOLEAN : Shows(d, [dialog[d] EXCEPT !.chosen = TRUE, !.accounts = b])
    /\ UNCHANGED <<employee, users, import>>

RunPreview(d) ==
    /\ Offers(d, {0, 1}) /\ dialog[d].file # None
    /\ Shows(d, IF dialog[d].chosen
                THEN [dialog[d] EXCEPT !.step = 2, !.waits = [file |-> dialog[d].file,
                                                              accounts |-> dialog[d].accounts]]
                ELSE [dialog[d] EXCEPT !.step = 1, !.result = Error])
    /\ UNCHANGED <<employee, users, import>>

\* The server reads the file it was sent; the answer reaches whatever the
\* dialog shows by then.
Preview(d) ==
    /\ Busy(d) /\ dialog[d].waits \notin Imports
    /\ LET f == dialog[d].waits.file IN
       Shows(d, IF ~f.readable \/ Unauthorized(f, d)
                THEN [dialog[d] EXCEPT !.waits = None, !.step = 0, !.result = Error]
                ELSE [dialog[d] EXCEPT !.waits = None, !.step = 3,
                         !.result = [status |-> "preview", errors |-> PreviewErrors(f),
                                     count |-> Cardinality({i \in DOMAIN f.rows : f.rows[i].valid}),
                                     of |-> dialog[d].waits]])
    /\ UNCHANGED <<employee, users, import>>

ReUpload(d) ==
    /\ Offers(d, {3, 4}) /\ dialog[d].result.status # "success"
    /\ Shows(d, [dialog[d] EXCEPT !.result = NoResult, !.step = 0])
    /\ UNCHANGED <<employee, users, import>>

\* The import: what the browser sent, the employees that the plan updates and
\* those who may be managers, and the transaction: the next row, what was
\* read and is written of each employee, and the accounts it inserts.
Sent(d, file, accounts) ==
    [op |-> "confirm", by |-> d, file |-> file, accounts |-> accounts, updates |-> {},
     managers |-> {}, i |-> 1, read |-> <<>>, new |-> <<>>, accounted |-> {}]

RunConfirm(d, c) ==
    /\ Offers(d, {3}) /\ dialog[d].file # None
    /\ dialog[d].result.errors = {} /\ dialog[d].result.count > 0
    /\ import[c] = [op |-> "idle"]
    /\ Shows(d, [dialog[d] EXCEPT !.step = 4, !.waits = c])
    /\ import' = [import EXCEPT ![c] = Sent(d, dialog[d].file, dialog[d].accounts)]
    /\ UNCHANGED <<employee, users>>

\* The answer is lost, or the page is loaded again; the server goes on.
LoseAnswer(d) ==
    /\ Busy(d)
    /\ \/ Shows(d, [dialog[d] EXCEPT !.waits = None, !.step = 0, !.result = Error])
       \/ Shows(d, Closed)
    /\ UNCHANGED <<employee, users, import>>

\* The call ends and its answer is shown by the dialog that still waits for it.
Answer(c, status) ==
    /\ import' = [import EXCEPT ![c] = [op |-> status]]
    /\ dialog' = [d \in Dialogs |->
          IF dialog[d].waits # c THEN dialog[d]
          ELSE [dialog[d] EXCEPT !.waits = None, !.result = [NoResult EXCEPT !.status = status],
                                 !.step = IF status = "success" THEN @ ELSE 3]]

----------------------------------------------------------------------------
\* The confirmed import.

Running(c, op) == import[c].op = op
Becomes(c, state) == import' = [import EXCEPT ![c] = state]
Refuse(c) == Answer(c, "error") /\ UNCHANGED <<employee, users>>

\* Something the import awaits throws (a deadlock, a lost connection).
Abort(c) == import[c].op \notin {"idle", "success", "error"} /\ Refuse(c)

\* The file is analyzed again and planned against the employees of now.
ConfirmImport(c) ==
    /\ Running(c, "confirm")
    /\ LET f == import[c].file
           d == import[c].by
       IN IF \/ ~f.readable \/ PreviewErrors(f) # {} \/ f.rows = <<>>
             \/ Unauthorized(f, d)
             \/ Reactivates(f)
             \/ Deactivates(f) /\ "delete" \notin Rights[d]
          THEN Refuse(c)
          ELSE /\ Becomes(c, [import[c] EXCEPT !.op = "resolve",
                                        !.updates = NumbersOf(f.rows) \cap DOMAIN employee])
               /\ UNCHANGED <<employee, users, dialog>>

\* Managers are resolved before the transaction, not from the file's own rows.
ResolveManagers(c) ==
    /\ Running(c, "resolve")
    /\ Becomes(c, [import[c] EXCEPT !.op = "read", !.managers = DOMAIN employee])
    /\ UNCHANGED <<employee, users, dialog>>

InTransaction(c) == import[c].op \in {"read", "write", "commit"}
Locked(n, c) == \E o \in Imports \ {c} : InTransaction(o) /\ n \in DOMAIN import[o].new
CurrentRow(c) == import[c].file.rows[import[c].i]

\* Whom a row creates, before its cells are filled in.
NewEmployee == [status |-> "active", recorded |-> "none", email |-> None, account |-> None,
                phone |-> "", manager |-> None, family |-> 0, banks |-> {}, assigned |-> FALSE]

\* The row is read without a lock: what it says of the employee is kept.
ReadRow(c) ==
    /\ Running(c, "read") /\ import[c].i <= Len(import[c].file.rows)
    /\ LET r == CurrentRow(c)
           update == r.number \in import[c].updates
       IN IF \/ r.manager # None /\ r.manager \notin import[c].managers
             \/ update /\ employee[r.number].status = "inactive" /\ r.status = "active"
             \/ update /\ r.manager = r.number
          THEN Refuse(c)
          ELSE /\ Becomes(c, [import[c] EXCEPT !.op = "write",
                    !.read = With(@, r.number, IF update THEN employee[r.number]
                                               ELSE NewEmployee)])
               /\ UNCHANGED <<employee, users, dialog>>

\* MUTANT of MergeFamily: relatives already stored are not looked for.
MergeFamilyByInsert(n, f, count) == count + f.family[n]
\* A relative with the same name is updated, one that is there twice refused.
MergeFamily(n, f, count) == IF f.family[n] > 0 /\ count = 0 THEN 1 ELSE count

\* Only the cells that are filled in are written.  Where the row has no status
\* the history repeats `latest`.
Patch(old, r, latest, f) ==
    [old EXCEPT !.status = IF r.status # "" THEN r.status ELSE @,
                !.recorded = IF r.status # "" THEN r.status ELSE latest,
                !.email = IF r.email # None THEN r.email ELSE @,
                !.phone = IF r.phone # "" THEN r.phone ELSE @,
                !.manager = IF r.manager # None THEN r.manager ELSE @,
                !.family = MergeFamily(r.number, f, @),
                !.banks = @ \cup {b[2] : b \in {b \in f.bank : b[1] = r.number}}]

WriteRow(c) ==
    /\ Running(c, "write") /\ ~Locked(CurrentRow(c).number, c)
    /\ LET r == CurrentRow(c)
           n == r.number
           f == import[c].file
           create == n \notin import[c].updates
           old == IF create THEN NewEmployee ELSE employee[n]
           latest == IF create \/ r.manager # None THEN import[c].read[n].status ELSE old.recorded
           new == Patch(old, r, latest, f)
       IN IF \/ create /\ Known(n)
             \/ old.family > 1 /\ f.family[n] > 0
          THEN Refuse(c)
          ELSE /\ Becomes(c, [import[c] EXCEPT !.op = "read", !.i = @ + 1, !.new = With(@, n, new)])
               /\ UNCHANGED <<employee, users, dialog>>

\* Accounts are provisioned for the employees as they were read and written.
Effective(c, r) ==
    LET was == import[c].read[r.number] IN
    [email |-> IF r.email # None THEN r.email ELSE was.email,
     status |-> IF r.status # "" THEN r.status ELSE was.status,
     account |-> was.account]

\* MUTANT of NeedsAccount: only a created employee gets an account.
NeedsAccountIfNew(c, r) ==
    r.number \notin import[c].updates /\ Effective(c, r).email # None /\ import[c].accounts
NeedsAccount(c, r) ==
    LET e == Effective(c, r) IN
    e.status = "active" /\ e.email # None /\ e.account = None /\ import[c].accounts

AddressTaken(wanted, needing) ==
    wanted \cap users # {} \/ Cardinality(wanted) < Cardinality(needing)

Provision(c) ==
    /\ Running(c, "read") /\ import[c].i > Len(import[c].file.rows)
    /\ LET rows == ToSet(import[c].file.rows)
           emailOf(n) == Effective(c, CHOOSE r \in rows : r.number = n).email
           needing == {r.number : r \in {r \in rows : NeedsAccount(c, r)}}
           wanted == {emailOf(n) : n \in needing}
           provisioned == [n \in DOMAIN import[c].new |->
                             [import[c].new[n] EXCEPT !.assigned = TRUE,
                                 !.account = IF n \in needing THEN emailOf(n) ELSE @]]
       IN /\ \A o \in Imports \ {c} : InTransaction(o) => import[o].accounted \cap wanted = {}
          /\ IF AddressTaken(wanted, needing)
             THEN Refuse(c)
             ELSE /\ Becomes(c, [import[c] EXCEPT !.op = "commit", !.accounted = wanted,
                                               !.new = provisioned])
                  /\ UNCHANGED <<employee, users, dialog>>

Commit(c) ==
    /\ Running(c, "commit")
    /\ employee' = Over(import[c].new, employee)
    /\ users' = users \cup import[c].accounted
    /\ Answer(c, "success")

----------------------------------------------------------------------------
\* The CSV file: rows of employees that are not there yet are offered, sent
\* back by the browser, filtered again and inserted.

NewRows(rows) ==
    {r \in rows : /\ r.valid /\ ~Known(r.number)
                  /\ \A n \in DOMAIN employee : r.email # None => employee[n].email # r.email}

PreviewCsv(c) ==
    /\ Running(c, "idle")
    /\ \E rows \in Lists : /\ NewRows(rows) # {}
                           /\ Becomes(c, [op |-> "csv", rows |-> NewRows(rows)])
    /\ UNCHANGED <<employee, users, dialog>>

ConfirmCsv(c) ==
    /\ Running(c, "csv")
    /\ LET rows == NewRows(import[c].rows) IN
       Becomes(c, IF rows = {} THEN [op |-> "error"] ELSE [op |-> "insert", rows |-> rows])
    /\ UNCHANGED <<employee, users, dialog>>

InsertCsv(c) ==
    /\ Running(c, "insert")
    /\ \A n \in {r.number : r \in import[c].rows} : ~Locked(n, c)
    /\ IF \E n \in {r.number : r \in import[c].rows} : Known(n)
       THEN Becomes(c, [op |-> "error"]) /\ UNCHANGED employee
       ELSE /\ Becomes(c, [op |-> "success"])
            /\ employee' = Over(employee, [n \in {r.number : r \in import[c].rows} |->
                  LET r == CHOOSE r \in import[c].rows : r.number = n
                  IN [NewEmployee EXCEPT !.status = r.status, !.email = r.email]])
    /\ UNCHANGED <<users, dialog>>

----------------------------------------------------------------------------
\* Meanwhile, employees are edited one by one (module Employees), accounts are
\* created, unlinked, linked again and deleted (module Accounts).

Untouched(n) == Known(n) /\ \A c \in Imports : InTransaction(c) => n \notin DOMAIN import[c].new

EditStatus(n) ==
    /\ Untouched(n)
    /\ employee' = [employee EXCEPT ![n].status = IF @ = "active" THEN "inactive" ELSE "active",
                                    ![n].recorded = IF employee[n].status = "active"
                                                    THEN "inactive" ELSE "active"]
    /\ UNCHANGED <<users, dialog, import>>

CreateAccount(n) ==
    /\ Untouched(n)
    /\ employee[n].account = None /\ employee[n].email # None
    /\ employee[n].email \notin users
    /\ \A c \in Imports : InTransaction(c) => employee[n].email \notin import[c].accounted
    /\ employee' = [employee EXCEPT ![n].account = employee[n].email]
    /\ users' = users \cup {employee[n].email}
    /\ UNCHANGED <<dialog, import>>

\* An edit of an account takes it from its employee, or gives it, when nobody
\* has it, to one without an account.
UnlinkAccount(n) ==
    /\ Untouched(n) /\ employee[n].account # None
    /\ employee' = [employee EXCEPT ![n].account = None]
    /\ UNCHANGED <<users, dialog, import>>

LinkAccount(n, u) ==
    /\ Untouched(n) /\ employee[n].account = None
    /\ u \in users /\ \A o \in DOMAIN employee : employee[o].account # u
    /\ employee' = [employee EXCEPT ![n].account = u]
    /\ UNCHANGED <<users, dialog, import>>

\* The key of the employee that an account is linked to is set to null.
DeleteAccount(u) ==
    /\ u \in users
    /\ \A n \in DOMAIN employee : employee[n].account = u => Untouched(n)
    /\ users' = users \ {u}
    /\ employee' = [n \in DOMAIN employee |->
          [employee[n] EXCEPT !.account = IF @ = u THEN None ELSE @]]
    /\ UNCHANGED <<dialog, import>>

ImportInit ==
    /\ employee = Initial
    /\ users = {Initial[n].account : n \in DOMAIN Initial} \ {None}
    /\ dialog = [d \in Dialogs |-> Closed]
    /\ import = [c \in Imports |-> [op |-> "idle"]]

Wizard(d) ==
    \/ OpenDialog(d) \/ CloseDialog(d) \/ PickFile(d) \/ ChooseSettings(d)
    \/ RunPreview(d) \/ Preview(d) \/ ReUpload(d) \/ LoseAnswer(d)
    \/ \E c \in Imports : RunConfirm(d, c)

Server(c) ==
    \/ ConfirmImport(c) \/ ResolveManagers(c) \/ ReadRow(c) \/ WriteRow(c)
    \/ Provision(c) \/ Commit(c) \/ Abort(c)
    \/ PreviewCsv(c) \/ ConfirmCsv(c) \/ InsertCsv(c)

ImportNext ==
    \/ \E d \in Dialogs : Wizard(d)
    \/ \E c \in Imports : Server(c)
    \/ \E n \in Numbers : EditStatus(n) \/ CreateAccount(n) \/ UnlinkAccount(n)
    \/ \E n \in Numbers, u \in Emails : LinkAccount(n, u) \/ DeleteAccount(u)

ImportSpec == ImportInit /\ [][ImportNext]_importVars

----------------------------------------------------------------------------
\* Employees are well formed, managed by employees, and linked to accounts
\* that exist, each to its own.
ImportTypeOK ==
    /\ DOMAIN employee \subseteq Numbers
    /\ \A n \in DOMAIN employee :
          /\ employee[n] \in Employee
          /\ employee[n].manager # None => Known(employee[n].manager)
          /\ employee[n].account # None =>
                /\ employee[n].account \in users
                /\ \A o \in DOMAIN employee \ {n} : employee[o].account # employee[n].account

\* However often a workbook is sent, and by however many transactions at a
\* time, a relative it names is stored once (or as often as before).
NothingImportedTwice ==
    \A n \in DOMAIN employee :
        employee[n].family > 1 =>
            n \in DOMAIN Initial /\ employee[n].family = Initial[n].family

\* A masked value is for the eyes only: a user who imports what was exported
\* to the same user never writes it into a record.
MaskedNeverStored ==
    \A n \in DOMAIN employee : employee[n].phone # "masked" /\ "masked" \notin employee[n].banks

\* What is imported is the file and the settings whose preview the dialog
\* shows, without an error, whatever was opened, picked or lost before.
ConfirmedIsPreviewed ==
    [][\A d \in Dialogs, c \in Imports : import[c].op = "idle" /\ import'[c].op = "confirm"
          /\ import'[c].by = d =>
             /\ dialog[d].result.errors = {}
             /\ dialog[d].result.of = [file |-> import'[c].file, accounts |-> import'[c].accounts]]_importVars

\* import-action.ts: "the database never holds an employee without its
\* account/assignment".  An import leaves nobody in its file without an
\* assignment, and without an account, where the row asks for one, only whom
\* it had read with an account, which was unlinked or deleted before the row
\* was written.  (An e-mail or a status that the row leaves to the database
\* may be stale by then too.)
Commits(c) == Running(c, "commit") /\ import'[c].op = "success"
ImportedIsProvisioned ==
    [][\A c \in Imports : Commits(c) =>
          \A r \in ToSet(import[c].file.rows) :
             /\ r.number \in DOMAIN employee' /\ employee'[r.number].assigned
             /\ (r.status = "active" /\ r.email # None /\ import[c].accounts) =>
                   \/ employee'[r.number].account # None
                   \/ import[c].read[r.number].account # None]_importVars

\* Imports that overlap leave each employee, relative and account once, with
\* the values of a file and never with those of a mask.
ImportConsistent ==
    /\ ImportTypeOK
    /\ NothingImportedTwice
    /\ MaskedNeverStored
=============================================================================

