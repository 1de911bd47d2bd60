-------------------------- MODULE EmployeeScreens --------------------------
(***************************************************************************)
(* What the pages and dialogs of features/employees and of                 *)
(* app/(dashboard)/employees and settings/test-data show of the records of *)
(* Employees, and which actions they offer: the queries, the two previews  *)
(* of a deletion, and the client's own conditions.                         *)
(*                                                                         *)
(* The caller holds every permission.  A filter is the status only; the    *)
(* list is not cut into pages.  Typed confirmations are the right ones     *)
(* unless they are a parameter.                                            *)
(***************************************************************************)
EXTENDS Employees

ASSUME FiniteRecords == IsFiniteSet(Seeded) /\ IsFiniteSet(Calls)

----------------------------------------------------------------------------
\* The directory, its export and one employee.

\* buildEmployeeSearchConditions; None is "every status".
Matches(e, status) == status \in {None, employee[e].status}

listEmployees(status) == {e \in DOMAIN employee : Matches(e, status)}
listEmployeesFlat(status) ==
    {[of |-> e, row |-> employee[e]] : e \in {o \in DOMAIN employee : Matches(o, status)}}

getEmployeeById(e) == IF Exists(e) THEN {employee[e]} ELSE {}

\* LIMIT 1 without an order: any of these.
getEmployeeByUserId(u) == {e \in DOMAIN employee : employee[e].user = u}

\* The accounts of the organization: one made meanwhile is seen by its link.
UsersOfOrganization == Accounts \cup ({employee[e].user : e \in DOMAIN employee} \ {None})

\* MUTANT of listLinkableUsers: the employee's own account is not kept.
LinkableToNobody(current) ==
    UsersOfOrganization \ {employee[e].user : e \in DOMAIN employee}

\* The options of the two forms; current is None in the one for creation.
listLinkableUsers(current) ==
    UsersOfOrganization \ {employee[e].user : e \in DOMAIN employee \ {current}}

RowActions(e) ==
    {"View", "Edit", "Permanent Delete"}
       \cup (IF employee[e].status = "active" THEN {"Deactivate"} ELSE {})

EmployeesPage(status) ==
    [actions |-> [e \in listEmployees(status) |-> RowActions(e)],
     total |-> Cardinality(listEmployees(status)),
     linkable |-> listLinkableUsers(None)]

----------------------------------------------------------------------------
\* The page of one employee.

SectionOf(e, kind) == {r \in RowsOf(e) : r.kind = kind}

\* The manager is shown by the number of today.
getEmployeeMasterData(e) ==
    [status |-> employee[e].status,
     manager |-> {employee[m].number : m \in {employee[e].manager} \ {None}}]

\* What the rows of each section offer, and what the section is replaced by.
AddressActions(r) == {"Remove", "Edit"}
BankActions(r) == {"Remove", "Edit"} \cup (IF r.primary THEN {} ELSE {"Set primary"})
DependentActions(r) == {"Remove", "Edit"}
EducationActions(r) == {"Remove"}
DocumentActions(r) == {"Download", "Delete"}

SectionRows(e) ==
    [address |-> {<<r, AddressActions(r)>> : r \in SectionOf(e, "address")},
     insurance |-> {<<r, {}>> : r \in SectionOf(e, "insurance")},
     bank |-> {<<r, BankActions(r)>> : r \in SectionOf(e, "bank")},
     dependent |-> {<<r, DependentActions(r)>> : r \in SectionOf(e, "dependent")},
     education |-> {<<r, EducationActions(r)>> : r \in SectionOf(e, "education")},
     document |-> {<<r, DocumentActions(r)>> : r \in SectionOf(e, "document")},
     custom |-> {<<r, {}>> : r \in SectionOf(e, "custom")},
     attendance |-> {<<r, {}>> : r \in SectionOf(e, "attendance")}]

\* The button names the other status.
StatusToggle(e) == IF employee[e].status = "active" THEN "inactive" ELSE "active"

\* The account card is there to make a first account.
Overview(e) ==
    [facts |-> getEmployeeMasterData(e),
     toggle |-> StatusToggle(e),
     accountCard |-> employee[e].user = None,
     linkable |-> listLinkableUsers(e)]

\* An employee that is gone is refused.
EmployeeDetailPage(e) ==
    IF getEmployeeById(e) = {} THEN {}
    ELSE {[overview |-> Overview(e), sections |-> SectionRows(e), history |-> history[e]]}

----------------------------------------------------------------------------
\* The preview and the dialog of the permanent deletion.

Labels == Protected \cup Deletable \cup {"history"}

countRows(e, label) ==
    IF label = "history" THEN Len(history[e]) ELSE Cardinality(SectionOf(e, label))

\* listEmployeeDeletionDependencies; a label not listed as deletable is protected.
Dependencies(e) ==
    {[label |-> l, count |-> countRows(e, l), disposition |-> Disposition(l)] : l \in Labels}

Present(dependencies) == {d \in dependencies : d.count > 0}
PresentBy(dependencies, disposition) ==
    {d \in Present(dependencies) : d.disposition = disposition}
TotalOf(dependencies) == SumFunctionOnSet([d \in dependencies |-> d.count], dependencies)

countEmployeeDirectReports(e) ==
    Cardinality({o \in DOMAIN employee : employee[o].manager = e})

\* A refusal reports nothing.
checkEmployeeDeletionDependencies(e) ==
    IF getEmployeeById(e) = {}
    THEN [status |-> "error", protected |-> {}, deletable |-> {}, total |-> 0, reports |-> 0]
    ELSE [status |-> "success",
          protected |-> PresentBy(Dependencies(e), "protected"),
          deletable |-> PresentBy(Dependencies(e), "deletable"),
          total |-> TotalOf(Dependencies(e)),
          reports |-> countEmployeeDirectReports(e)]

\* The state of the dialog when the answer is there.
runDependencyCheck(e) ==
    LET report == checkEmployeeDeletionDependencies(e)
    IN [report EXCEPT !.status = IF @ = "success" THEN "ready" ELSE "error"]

\* The last attempt may have been refused with the dependencies `refused`.
blockedByProtectedRecords(report, refused) ==
    report.protected # {} \/ PresentBy(refused, "protected") # {}

canSubmitDelete(shown, typed, acknowledged, report, refused) ==
    /\ typed = shown
    /\ acknowledged
    /\ report.status = "ready"
    /\ ~blockedByProtectedRecords(report, refused)

\* The list of what will be deleted; the direct reports are its last entry, so
\* they are not mentioned when nothing else is listed.
DeletionSummary(report) ==
    IF report.deletable = {} THEN [rows |-> 0, reports |-> 0]
    ELSE [rows |-> TotalOf(report.deletable), reports |-> report.reports]

----------------------------------------------------------------------------
\* The page of the test data: the list, the analysis, the panel.

listTestDataEmployees == {e \in DOMAIN employee : IsTest(e)}

PurgeDisposition(e, label) ==
    IF label = "history" /\ IsTest(e) THEN "deletable" ELSE Disposition(label)

\* countPurgeDependencies: by the number stored now.
PurgeDependencies(e) ==
    {d \in {[label |-> l, count |-> countRows(e, l), disposition |-> PurgeDisposition(e, l)] :
               l \in Labels} : d.count > 0}

Blocked(e) == PresentBy(PurgeDependencies(e), "protected") # {}
productionDirectReports(S) == {e \in DirectReports(S) : ~IsTest(e)}

\* evaluateTestDataPurge, in its order.
PurgeBlock(S) ==
    IF \E e \in S : ~IsTest(e) THEN "NOT_TEST_DATA"
    ELSE IF \E e \in S : Blocked(e) THEN "PROTECTED_RECORDS"
    ELSE IF productionDirectReports(S) # {} THEN "PRODUCTION_DIRECT_REPORT"
    ELSE "ALLOWED"

totalDeletablePurgeRecords(S) ==
    SumFunctionOnSet([e \in S |-> TotalOf(PresentBy(PurgeDependencies(e), "deletable"))], S)

\* analyzeTestDataPurgeAction: a selection that is partly gone is an error.
Analysis(S) ==
    IF S = {} \/ ~(S \subseteq DOMAIN employee)
    THEN [status |-> "error"]
    ELSE [status |-> "analyzed", block |-> PurgeBlock(S), token |-> PlanToken(S),
          total |-> totalDeletablePurgeRecords(S)]

\* What is ticked and no longer listed drops out of the selection.
activeSelection(selected) == selected \cap listTestDataEmployees

canPurge(analysis, confirmed) ==
    analysis.status = "analyzed" /\ analysis.block = "ALLOWED" /\ confirmed

\* Open unless its token was dismissed, and never again after one success;
\* `dismissed` holds the last token that was dismissed, if any.
purgeDialogOpen(analysis, dismissed, succeeded) ==
    analysis.status = "analyzed" /\ analysis.token \notin dismissed /\ ~succeeded

PurgeOffered(analysis, confirmed) ==
    purgeDialogOpen(analysis, {}, FALSE) /\ canPurge(analysis, confirmed)

----------------------------------------------------------------------------
\* Every employee listed by its status opens with the row its export has; the
\* page shows each row of the employee in one section, the number of the manager
\* as it is now, the action the directory offers, and one primary account.
ListsOpen ==
    /\ DOMAIN EmployeesPage(None).actions = UNION {listEmployees(s) : s \in Statuses}
    /\ \A x \in listEmployeesFlat(None) : getEmployeeById(x.of) = {x.row}
    /\ \A e \in listEmployees(None) :
          /\ EmployeeDetailPage(e) # {}
          /\ \A page \in EmployeeDetailPage(e) :
                LET shown == UNION {page.sections[k] : k \in DOMAIN page.sections}
                IN /\ {x[1] : x \in shown} = RowsOf(e)
                   /\ page.overview.facts.manager = {} <=> employee[e].manager = None
                   /\ page.overview.toggle = "inactive" <=>
                         "Deactivate" \in EmployeesPage(None).actions[e]
                   /\ Cardinality({x \in page.sections.bank : "Set primary" \notin x[2]}) <= 1

\* An account a form offers is one its submission accepts, the form of an
\* employee keeps the account it has, and an account the form for creation
\* offers belongs to no self-service profile.
OfferedAccountsAreAccepted ==
    /\ \A e \in DOMAIN employee \cup {None} : \A u \in Accounts :
          u \in listLinkableUsers(e) <=> Linkable(u, e)
    /\ \A u \in listLinkableUsers(None) : getEmployeeByUserId(u) = {}
    /\ \A e \in DOMAIN employee : \A page \in EmployeeDetailPage(e) :
          ~page.overview.accountCard =>
             employee[e].user \in page.overview.linkable
                <=> getEmployeeByUserId(employee[e].user) = {e}

\* With a preview read now, the dialog of the permanent deletion can be
\* submitted exactly when the server would go through with it, but for the
\* caller's own record; and what it announces is what goes.
DeletionIsAnnounced ==
    \A c \in Calls : Running(c, "delete") =>
       \A e \in call[c].of \cap DOMAIN employee :
          LET report == runDependencyCheck(e)
              unlinked == {o \in DOMAIN Without({e}) : Without({e})[o] # employee[o]}
          IN /\ MayPermanentlyDelete(call[c].of, call[c].number) <=>
                   /\ canSubmitDelete(employee[e].number, call[c].number, TRUE, report, {})
                   /\ employee[e].user # Actor
             /\ report.reports = Cardinality(unlinked)
             /\ report.protected = {} =>
                   /\ report.total = Cardinality(RowsOf(e))
                   /\ DeletionSummary(report).rows = report.total

\* An analysis of the same selection read now lets the operator go on exactly
\* when the confirmed purge is accepted, provided its token is still the one
\* confirmed; the panel offers nothing but test data, and counts all that goes.
PurgeIsAnnounced ==
    \A c \in Calls : Running(c, "purge") =>
       LET S == call[c].of
           analysis == Analysis(S)
       IN /\ MayApplyPlan(S, call[c].token) <=>
                PurgeOffered(analysis, TRUE) /\ analysis.token = call[c].token
          /\ canPurge(analysis, TRUE) =>
                /\ activeSelection(S) = S
                /\ analysis.total = SumFunctionOnSet([e \in S |-> Len(history[e])], S)
                                      + Cardinality({r \in rows : r.of \in S})

\* The pages follow the records.
ScreensFollowRecords ==
    /\ ListsOpen
    /\ OfferedAccountsAreAccepted
    /\ DeletionIsAnnounced
    /\ PurgeIsAnnounced
=============================================================================
