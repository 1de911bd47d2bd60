--------------------------- MODULE PayrollWorkflow ---------------------------
(***************************************************************************)
(* Payroll periods, their run, the items it calculates and the payslips    *)
(* (features/payroll/actions.ts, publishing and distribution in            *)
(* features/payroll/payslip-document.actions.ts).                          *)
(*                                                                         *)
(* Every transaction here begins by locking the period row, and the run,   *)
(* the items and the payslip statuses of a period are written only under   *)
(* that lock.  Hence one transaction is one atomic action.  Documents are  *)
(* written without the period lock and in several steps: here a payslip    *)
(* merely acquires one; PayslipDocuments says how.                         *)
(***************************************************************************)
EXTENDS Integers, FiniteSets

CONSTANTS
    Periods, Employees,
    Slips,        \* ids of payslip rows
    Dates,        \* end dates a period may have
    Amounts,      \* what a calculation may yield for an employee
    NotIncluded, NoSlip, NoDate

ASSUME PayrollConstants ==
    /\ NotIncluded \notin Amounts
    /\ NoDate \notin Dates
    /\ NoSlip \notin [period: Periods, employee: Employees,
                      kind: {"calculated", "distribution"},
                      status: {"generated", "published", "revoked"}]

VARIABLES
    period,         \* payroll_periods.status, "absent" without a row
    endDate,        \* payroll_periods.period_end
    run,            \* payroll_runs.status, "none" without a row
    items,          \* payroll_items of the run: the amounts snapshotted
    calculatedFor,  \* the end date these items were calculated for
    slip,           \* payslips
    documented      \* the payslips that have a payslip_documents row

vars == <<period, endDate, run, items, calculatedFor, slip, documented>>

PeriodStatus == {"draft", "pending_approval", "approved", "locked", "cancelled"}
RunStatus == {"calculated", "submitted", "approved", "rejected", "locked", "cancelled"}
Payslip == [period: Periods, employee: Employees,
            kind: {"calculated", "distribution"},
            status: {"generated", "published", "revoked"}]
Items == [Employees -> Amounts \cup {NotIncluded}]
NoItems == [e \in Employees |-> NotIncluded]

TypeOK ==
    /\ period \in [Periods -> PeriodStatus \cup {"absent"}]
    /\ endDate \in [Periods -> Dates \cup {NoDate}]
    /\ run \in [Periods -> RunStatus \cup {"none"}]
    /\ items \in [Periods -> Items]
    /\ calculatedFor \in [Periods -> Dates \cup {NoDate}]
    /\ slip \in [Slips -> Payslip \cup {NoSlip}]
    /\ documented \in SUBSET Slips

Init ==
    /\ period = [p \in Periods |-> "absent"]
    /\ endDate = [p \in Periods |-> NoDate]
    /\ run = [p \in Periods |-> "none"]
    /\ items = [p \in Periods |-> NoItems]
    /\ calculatedFor = [p \in Periods |-> NoDate]
    /\ slip = [s \in Slips |-> NoSlip]
    /\ documented = {}

SlipsOf(p) == {s \in Slips : slip[s] # NoSlip /\ slip[s].period = p}
CalculatedSlips(p) == {s \in SlipsOf(p) : slip[s].kind = "calculated"}
RunIsFinal(p) == run[p] \in {"approved", "locked"}

slipVars == <<slip, documented>>
payVars == <<endDate, items, calculatedFor>>

-----------------------------------------------------------------------------
(* The approval workflow                                                   *)

CreatePeriod(p, d) ==
    /\ period[p] = "absent"
    /\ period' = [period EXCEPT ![p] = "draft"]
    /\ endDate' = [endDate EXCEPT ![p] = d]
    /\ UNCHANGED <<run, items, calculatedFor, slip, documented>>

\* MUTANT of CanCalculate: only a locked run refuses.
CanCalculateUnlessLocked(p) == period[p] \notin {"absent", "locked"}

\* Only draft periods, and only before the run has progressed.
CanCalculate(p) == period[p] = "draft" /\ run[p] \in {"none", "rejected"}

(* The previous items are deleted (no payslip may refer to them: the       *)
(* foreign key would abort the transaction) and every active employee gets *)
(* an item with what the engine computes for the end of the period.        *)
CalculationSucceeds(p) == CanCalculate(p) /\ CalculatedSlips(p) = {}

Calculate(p, snapshot) ==
    /\ CalculationSucceeds(p)
    /\ items' = [items EXCEPT ![p] = snapshot]
    /\ calculatedFor' = [calculatedFor EXCEPT ![p] = endDate[p]]
    /\ run' = [run EXCEPT ![p] = "calculated"]
    /\ period' = [period EXCEPT ![p] = "pending_approval"]
    /\ UNCHANGED <<endDate, slip, documented>>

CanSubmit(p) == run[p] = "calculated" /\ period[p] = "pending_approval"

Submit(p) ==
    /\ CanSubmit(p)
    /\ run' = [run EXCEPT ![p] = "submitted"]
    /\ UNCHANGED <<period, payVars, slipVars>>

\* For approval and rejection.
CanReview(p) == run[p] = "submitted"

Approve(p) ==
    /\ CanReview(p)
    /\ run' = [run EXCEPT ![p] = "approved"]
    /\ period' = [period EXCEPT ![p] = "approved"]
    /\ UNCHANGED <<payVars, slipVars>>

Reject(p) ==
    /\ CanReview(p)
    /\ run' = [run EXCEPT ![p] = "rejected"]
    /\ period' = [period EXCEPT ![p] = "draft"]
    /\ UNCHANGED <<payVars, slipVars>>

CanLock(p) == run[p] = "approved"

Lock(p) ==
    /\ CanLock(p)
    /\ run' = [run EXCEPT ![p] = "locked"]
    /\ period' = [period EXCEPT ![p] = "locked"]
    /\ UNCHANGED <<payVars, slipVars>>

CanCancel(p) == period[p] = "draft" /\ run[p] \in {"none", "rejected"}

\* Whatever payslips were distributed for the period stay.
Cancel(p) ==
    /\ CanCancel(p)
    /\ run' = [run EXCEPT ![p] = IF @ = "none" THEN "none" ELSE "cancelled"]
    /\ period' = [period EXCEPT ![p] = "cancelled"]
    /\ UNCHANGED <<payVars, slipVars>>

\* A draft or cancelled period without payslips may get new dates.
CanUpdate(p) == period[p] \in {"draft", "cancelled"} /\ SlipsOf(p) = {}

UpdatePeriod(p, d) ==
    /\ CanUpdate(p)
    /\ endDate' = [endDate EXCEPT ![p] = d]
    /\ UNCHANGED <<period, run, items, calculatedFor, slip, documented>>

-----------------------------------------------------------------------------
(* deletePayrollPeriodAction                                               *)

ErasePeriod(p) ==
    /\ period' = [period EXCEPT ![p] = "absent"]
    /\ endDate' = [endDate EXCEPT ![p] = NoDate]
    /\ run' = [run EXCEPT ![p] = "none"]
    /\ items' = [items EXCEPT ![p] = NoItems]
    /\ calculatedFor' = [calculatedFor EXCEPT ![p] = NoDate]
    /\ slip' = [s \in Slips |-> IF s \in SlipsOf(p) THEN NoSlip ELSE slip[s]]
    /\ documented' = documented \ SlipsOf(p)

\* MUTANT of DeleteLocked: payslips never published are deleted too.
DeleteLockedUnlessPublished(p) ==
    /\ period[p] = "locked"
    /\ \A s \in SlipsOf(p) : slip[s].status # "published"
    /\ ErasePeriod(p)

\* A locked period goes with its run, items and payslips once all of these are revoked.
CanDeleteLocked(p) ==
    period[p] = "locked" /\ \A s \in SlipsOf(p) : slip[s].status = "revoked"

DeleteLocked(p) == CanDeleteLocked(p) /\ ErasePeriod(p)

\* Any other period goes only while nothing was built on it.
CanDeleteUnused(p) ==
    period[p] \in {"draft", "cancelled"} /\ run[p] = "none" /\ SlipsOf(p) = {}

DeleteUnused(p) == CanDeleteUnused(p) /\ ErasePeriod(p)

-----------------------------------------------------------------------------
(* Payslips                                                                *)

NewSlip(p, e, k) == [period |-> p, employee |-> e, kind |-> k, status |-> "generated"]

Included(p) == {e \in Employees : items[p][e] # NotIncluded}

\* One payslip per included item; the ids are fresh and assigned by row.
IssueSlips(p, row) ==
    /\ Included(p) # {}
    /\ DOMAIN row = Included(p)
    /\ \A e \in DOMAIN row : slip[row[e]] = NoSlip
    /\ \A e, f \in DOMAIN row : e # f => row[e] # row[f]
    /\ slip' = [s \in Slips |->
          IF \E e \in DOMAIN row : row[e] = s
          THEN NewSlip(p, CHOOSE e \in DOMAIN row : row[e] = s, "calculated")
          ELSE slip[s]]
    /\ UNCHANGED <<period, run, payVars, documented>>

\* MUTANT of GeneratePayslips: a submitted run suffices.
GenerateBeforeApproval(p, row) ==
    run[p] # "none" /\ CalculatedSlips(p) = {} /\ IssueSlips(p, row)

CanGenerate(p) == RunIsFinal(p) /\ CalculatedSlips(p) = {}

GeneratePayslips(p, row) == CanGenerate(p) /\ IssueSlips(p, row)

HasPayslip(p, e) == \E s \in SlipsOf(p) : slip[s].employee = e

CanDistribute(p, e) ==
    period[p] \notin {"absent", "cancelled", "locked"} /\ ~HasPayslip(p, e)

\* A distribution payslip comes with its document, without a run or an item.
Distribute(p, e, s) ==
    /\ CanDistribute(p, e)
    /\ slip[s] = NoSlip
    /\ slip' = [slip EXCEPT ![s] = NewSlip(p, e, "distribution")]
    /\ documented' = documented \cup {s}
    /\ UNCHANGED <<period, run, payVars>>

\* Calculated payslips acquire their document in an upload or by generation.
Attach(S) ==
    /\ S # {}
    /\ \A s \in S : slip[s] # NoSlip /\ slip[s].status = "generated" /\ s \notin documented
    /\ documented' = documented \cup S
    /\ UNCHANGED <<period, run, payVars, slip>>

SetStatus(S, status) ==
    /\ slip' = [s \in Slips |-> IF s \in S THEN [slip[s] EXCEPT !.status = status]
                                ELSE slip[s]]
    /\ UNCHANGED <<period, run, payVars, documented>>

PendingSlips(p) == {s \in CalculatedSlips(p) : slip[s].status = "generated"}

\* All the generated payslips of a final run at once, if each has its document.
CanPublishAll(p) ==
    RunIsFinal(p) /\ PendingSlips(p) # {} /\ PendingSlips(p) \subseteq documented

PublishAll(p) == CanPublishAll(p) /\ SetStatus(PendingSlips(p), "published")

\* One payslip of either kind, whatever the status of the period.
CanPublishOne(s) == slip[s] # NoSlip /\ slip[s].status = "generated" /\ s \in documented

PublishOne(s) == CanPublishOne(s) /\ SetStatus({s}, "published")

CanRevoke(s) == slip[s] # NoSlip /\ slip[s].status = "published"

Revoke(s) == CanRevoke(s) /\ SetStatus({s}, "revoked")

-----------------------------------------------------------------------------
PeriodStep(p) ==
    \/ \E d \in Dates : CreatePeriod(p, d) \/ UpdatePeriod(p, d)
    \/ \E snapshot \in Items : Calculate(p, snapshot)
    \/ Submit(p) \/ Approve(p) \/ Reject(p) \/ Lock(p) \/ Cancel(p)
    \/ DeleteUnused(p) \/ DeleteLocked(p)

RunSlipStep(p) ==
    \/ \E row \in [Included(p) -> Slips] : GeneratePayslips(p, row)
    \/ PublishAll(p)

Next ==
    \/ \E p \in Periods : PeriodStep(p) \/ RunSlipStep(p)
    \/ \E p \in Periods, e \in Employees, s \in Slips : Distribute(p, e, s)
    \/ \E S \in SUBSET Slips : Attach(S)
    \/ \E s \in Slips : PublishOne(s) \/ Revoke(s)

Spec == Init /\ [][Next]_vars

-----------------------------------------------------------------------------
(* What the module promises                                                *)

(* Period and run are two columns of two tables that only these            *)
(* transactions keep in step; approve, reject and lock look at the run     *)
(* alone and cancel and calculate at both.                                 *)
RunMatchesPeriod ==
    \A p \in Periods :
        <<period[p], run[p]>> \in
            {<<"absent", "none">>, <<"draft", "none">>, <<"draft", "rejected">>,
             <<"pending_approval", "calculated">>, <<"pending_approval", "submitted">>,
             <<"approved", "approved">>, <<"locked", "locked">>,
             <<"cancelled", "none">>, <<"cancelled", "cancelled">>}

(* "Payslips can never exist while the run is still draftable" (comment in  *)
(* calculatePayrollAction): a calculated payslip belongs to an item of an   *)
(* approved or locked run, so recalculation never meets the foreign key.    *)
CalculatedSlipsBelongToFinalRuns ==
    \A s \in Slips : slip[s] # NoSlip /\ slip[s].kind = "calculated" =>
        /\ RunIsFinal(slip[s].period)
        /\ slip[s].employee \in Included(slip[s].period)

(* One payslip row per included payroll item, however often generation is  *)
(* asked for (generatePayslipsAction).                                     *)
OnePayslipPerItem ==
    \A s, t \in Slips :
        s # t /\ slip[s] # NoSlip /\ slip[t] # NoSlip
        /\ slip[s].kind = "calculated" /\ slip[t].kind = "calculated"
        => <<slip[s].period, slip[s].employee>> # <<slip[t].period, slip[t].employee>>

(* A calculated run was computed for the end date its period has now:      *)
(* an edit never slips in between the calculation and its approval.        *)
PayIsForThePeriod ==
    \A p \in Periods :
        run[p] \in {"calculated", "submitted", "approved", "locked"}
            => calculatedFor[p] = endDate[p]

(* A payslip an employee can see, or could, has an encrypted PDF.          *)
PublishedHasDocument ==
    \A s \in Slips : slip[s] # NoSlip /\ slip[s].status # "generated" => s \in documented

(* What was submitted is what is approved, locked and paid: the items of a *)
(* run beyond calculation never change while the period exists.            *)
SubmittedPayIsFrozen ==
    [][\A p \in Periods :
          run[p] \in {"submitted", "approved", "locked"} /\ period'[p] # "absent"
              => items'[p] = items[p] /\ endDate'[p] = endDate[p]]_vars

(* generated -> published -> revoked, and a payslip vanishes only when it   *)
(* was revoked before (revokePayslipAction, deletePayrollPeriodAction).    *)
PayslipsOnlyMoveForward ==
    [][\A s \in Slips : slip[s] # NoSlip =>
          \/ slip'[s] = slip[s]
          \/ slip[s].status = "generated" /\ slip'[s] = [slip[s] EXCEPT !.status = "published"]
          \/ slip[s].status = "published" /\ slip'[s] = [slip[s] EXCEPT !.status = "revoked"]
          \/ slip[s].status = "revoked" /\ slip'[s] = NoSlip]_vars

\* Period, run, items, payslips and documents of one month agree: the facts the
\* workflow rests on (features/payroll/actions.ts).
PayrollConsistent ==
    /\ TypeOK
    /\ RunMatchesPeriod
    /\ CalculatedSlipsBelongToFinalRuns
    /\ OnePayslipPerItem
    /\ PayIsForThePeriod
    /\ PublishedHasDocument
=============================================================================

