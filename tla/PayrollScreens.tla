--------------------------- MODULE PayrollScreens ---------------------------
(***************************************************************************)
(* What the payroll pages read and offer                                   *)
(* (features/payroll/queries.ts, app/(dashboard)/payroll and /payslip).    *)
(*                                                                         *)
(* The pages and the server actions decide by different columns: a button  *)
(* looks at the status of the period or of the run, the action behind it   *)
(* at either or both.  The queries find the period of a payslip by its     *)
(* item and run, or by its own column.  Nothing here changes state.        *)
(***************************************************************************)
EXTENDS PayrollWorkflow

-----------------------------------------------------------------------------
(* Who is shown a button, and who may call the action behind it            *)

PageGrants ==
    [calculate |-> {"PAYROLL_CALCULATE", "PAYROLL_MANAGE"},
     submit    |-> {"PAYROLL_UPDATE", "PAYROLL_MANAGE"},
     approve   |-> {"PAYROLL_APPROVE", "PAYROLL_MANAGE"},
     reject    |-> {"PAYROLL_APPROVE", "PAYROLL_MANAGE"},
     lock      |-> {"PAYROLL_LOCK", "PAYROLL_MANAGE"},
     cancel    |-> {"PAYROLL_UPDATE", "PAYROLL_MANAGE"},
     generate  |-> {"PAYSLIP_MANAGE", "PAYROLL_MANAGE"},
     publish   |-> {"PAYSLIP_PUBLISH", "PAYSLIP_MANAGE", "PAYROLL_MANAGE"}]

Buttons == DOMAIN PageGrants

\* requireAnyPermission at the head of each action.
ServerGrants ==
    [calculate |-> {"PAYROLL_CALCULATE", "PAYROLL_MANAGE"},
     submit    |-> {"PAYROLL_UPDATE", "PAYROLL_MANAGE"},
     approve   |-> {"PAYROLL_APPROVE", "PAYROLL_MANAGE"},
     reject    |-> {"PAYROLL_APPROVE", "PAYROLL_MANAGE"},
     lock      |-> {"PAYROLL_LOCK", "PAYROLL_MANAGE"},
     cancel    |-> {"PAYROLL_UPDATE", "PAYROLL_MANAGE"},
     generate  |-> {"PAYSLIP_PUBLISH", "PAYSLIP_MANAGE", "PAYROLL_MANAGE"},
     publish   |-> {"PAYSLIP_PUBLISH", "PAYSLIP_MANAGE", "PAYROLL_MANAGE"}]

-----------------------------------------------------------------------------
(* The detail page of a period                                             *)

\* The workflow card of PayrollRunActions: which buttons the statuses allow.
WorkflowButtons(p) ==
    LET runIs(S) == run[p] \in S IN
    [calculate |-> period[p] = "draft" /\ runIs({"none", "rejected"}),
     submit    |-> runIs({"calculated"}),
     approve   |-> runIs({"submitted"}),
     reject    |-> runIs({"submitted"}),
     lock      |-> runIs({"approved"}),
     cancel    |-> period[p] = "draft",
     generate  |-> runIs({"approved", "locked"}),
     publish   |-> runIs({"approved", "locked"})]

\* The list of periods: rows with an edit and a delete button.
EditablePeriods == {p \in Periods : period[p] \in {"draft", "cancelled"}}
DeletablePeriods == {p \in Periods : period[p] \in {"draft", "cancelled", "locked"}}

\* Periods the two upload pages offer for a distribution payslip.
UploadPeriods == {p \in Periods : period[p] \notin {"absent", "cancelled", "locked"}}

\* What a row of the payslip list carries: a link, an upload form, the two buttons.
PayslipRow(s) ==
    [opens    |-> slip[s].status = "published",
     upload   |-> slip[s].status = "generated",
     publish  |-> slip[s].status = "generated" /\ s \in documented,
     revoke   |-> slip[s].status = "published"]

-----------------------------------------------------------------------------
(* The queries                                                             *)

ListedPeriods == {p \in Periods : period[p] # "absent"}

\* The row of payroll_items behind a calculated payslip, while it exists.
HasItem(s) == slip[s].kind = "calculated" /\ slip[s].employee \in Included(slip[s].period)

PayslipsForRun(p) == {s \in SlipsOf(p) : HasItem(s) /\ run[p] # "none"}
PayslipsForPeriod(p) == SlipsOf(p)
DocumentsForRun(p) == PayslipsForRun(p) \cap documented
DocumentsForPeriod(p) == SlipsOf(p) \cap documented

MyPublishedPayslips(e) ==
    {s \in Slips : slip[s] # NoSlip /\ slip[s].employee = e /\ slip[s].status = "published"}

MyPayslipsForPeriod(e, p) == MyPublishedPayslips(e) \cap PayslipsForPeriod(p)

\* The payslip an employee finds on the page of an item of a run.
PayslipOfItem(e, p) == {s \in MyPublishedPayslips(e) : HasItem(s) /\ slip[s].period = p}

\* MUTANT of PeriodOf: the period is looked up through item and run only.
PeriodOfRunOnly(s) == {p \in Periods : HasItem(s) /\ run[p] # "none" /\ slip[s].period = p}

\* The left join of the overview: the period of the run, or the payslip's own.
PeriodOf(s) == {p \in ListedPeriods : slip[s].period = p}

RecentPayslips == [s \in {t \in Slips : slip[t] # NoSlip} |-> PeriodOf(s)]

\* getPublishedPayslipDetail: null unless published and with a period.
OpensDetail(s) ==
    /\ slip[s] # NoSlip /\ slip[s].status = "published"
    /\ PeriodOf(s) # {}

\* The PDF route joins the document; the file behind it is PayslipDocuments' part.
ServesPdf(s) ==
    /\ slip[s] # NoSlip /\ slip[s].status = "published"
    /\ s \in documented

\* canViewPublishedPayslip: management, or the employee the payslip belongs to.
MayView(linked, manages, s) == manages \/ linked = slip[s].employee

\* The items of a run, each with its page; the page looks for the period of its run.
ItemRows(p) == IF run[p] = "none" THEN {} ELSE Included(p)
OpensItem(e, p) == e \in ItemRows(p) /\ p \in ListedPeriods

\* Where a manager's Back button leads from a payslip: its item, or its period.
BackOpens(s) ==
    \E p \in PeriodOf(s) : slip[s].kind = "calculated" => OpensItem(slip[s].employee, p)

-----------------------------------------------------------------------------
(* "Each button is only rendered when the current status permits the       *)
(* transition" (payroll-run-actions.tsx:36-37), and every transition the   *)
(* server would accept has its button: although page and action read       *)
(* different status columns, they agree in every state that can occur.     *)
ButtonsMatchWorkflow ==
    /\ \A b \in Buttons : PageGrants[b] \subseteq ServerGrants[b]
    /\ \A p \in ListedPeriods : LET shown == WorkflowButtons(p) IN
          /\ shown.calculate <=> CalculationSucceeds(p)
          /\ shown.submit <=> CanSubmit(p)
          /\ shown.approve <=> CanReview(p)
          /\ shown.reject <=> CanReview(p)
          /\ shown.lock <=> CanLock(p)
          /\ shown.cancel <=> CanCancel(p)
          /\ CanGenerate(p) => shown.generate
          /\ CanPublishAll(p) => shown.publish
          /\ CanUpdate(p) => p \in EditablePeriods
          /\ CanDeleteUnused(p) \/ CanDeleteLocked(p) => p \in DeletablePeriods
          /\ (\E e \in Employees : CanDistribute(p, e)) => p \in UploadPeriods
          /\ \A s \in PayslipsForPeriod(p) :
                /\ PayslipRow(s).publish <=> CanPublishOne(s)
                /\ PayslipRow(s).revoke <=> CanRevoke(s)

(* Every payslip an employee or a manager is given a link to opens: its    *)
(* detail page has a period, its PDF has a document, its owner may view    *)
(* it, a manager gets back to its item or period, and it is on the page of *)
(* its period, whichever way it came to be and whatever was locked,        *)
(* cancelled or deleted since.                                             *)
LinkedPayslipsOpen ==
    /\ \A e \in Employees : \A s \in MyPublishedPayslips(e) :
          /\ OpensDetail(s) /\ ServesPdf(s) /\ MayView(e, FALSE, s)
          /\ \A p \in PeriodOf(s) :
                /\ s \in MyPayslipsForPeriod(e, p) /\ s \in DocumentsForPeriod(p)
                /\ PayslipRow(s).opens
          /\ slip[s].kind = "calculated" => PayslipOfItem(e, slip[s].period) = {s}
    /\ \A s \in DOMAIN RecentPayslips :
          /\ RecentPayslips[s] # {} /\ BackOpens(s)
          /\ PayslipRow(s).opens => OpensDetail(s)
    /\ \A p \in ListedPeriods :
          /\ PayslipsForRun(p) = CalculatedSlips(p)
          /\ DocumentsForRun(p) = DocumentsForPeriod(p) \cap CalculatedSlips(p)

\* Pages and actions agree: each button on a transition the server accepts, each
\* link on a page that opens.
ScreensFollowWorkflow ==
    /\ ButtonsMatchWorkflow
    /\ LinkedPayslipsOpen
=============================================================================

