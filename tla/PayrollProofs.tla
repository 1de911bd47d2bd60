---------------------------- MODULE PayrollProofs ----------------------------
(***************************************************************************)
(* Proofs about payroll: PayrollWorkflow, for every set of periods,        *)
(* employees, payslip ids, dates and amounts, and PayrollComponents, for   *)
(* every number of components, assignments and concurrent calls.  The two  *)
(* specifications share no variable.                                       *)
(***************************************************************************)
EXTENDS PayrollScreens, PayrollComponents, SumTheorems, FiniteSetTheorems, TLAPS

(* A row of payslips is filled with values of the right shape; the CHOOSE   *)
(* of IssueSlips picks the employee the id was assigned to.                 *)
LEMMA ChosenOwner ==
    ASSUME NEW p \in Periods, NEW row \in [Included(p) -> Slips], NEW s \in Slips,
           \E e \in DOMAIN row : row[e] = s
    PROVE  /\ (CHOOSE e \in DOMAIN row : row[e] = s) \in Included(p)
           /\ row[CHOOSE e \in DOMAIN row : row[e] = s] = s
<1>1. /\ (CHOOSE e \in DOMAIN row : row[e] = s) \in DOMAIN row
      /\ row[CHOOSE e \in DOMAIN row : row[e] = s] = s
  OBVIOUS
<1>2. DOMAIN row = Included(p)
  OBVIOUS
<1> QED BY <1>1, <1>2

(* Every step of the workflow keeps the types.                             *)
LEMMA TypeStep == TypeOK /\ [Next]_vars => TypeOK'
<1> SUFFICES ASSUME TypeOK, [Next]_vars PROVE TypeOK'
  OBVIOUS
<1> USE PayrollConstants
<1>1. ASSUME NEW p \in Periods, NEW d \in Dates, CreatePeriod(p, d) \/ UpdatePeriod(p, d)
      PROVE  TypeOK'
  BY <1>1 DEF CreatePeriod, UpdatePeriod, TypeOK, PeriodStatus, CanUpdate
<1>2. ASSUME NEW p \in Periods, NEW snapshot \in Items, Calculate(p, snapshot)
      PROVE  TypeOK'
  BY <1>2 DEF Calculate, TypeOK, PeriodStatus, RunStatus, CalculationSucceeds
<1>3. ASSUME NEW p \in Periods,
             Submit(p) \/ Approve(p) \/ Reject(p) \/ Lock(p) \/ Cancel(p)
      PROVE  TypeOK'
  BY <1>3 DEF Submit, Approve, Reject, Lock, Cancel, payVars, slipVars,
              TypeOK, PeriodStatus, RunStatus, CanSubmit, CanReview, CanLock, CanCancel
<1>4. ASSUME NEW p \in Periods, DeleteUnused(p) \/ DeleteLocked(p)
      PROVE  TypeOK'
  <2>1. ErasePeriod(p)
    BY <1>4 DEF DeleteUnused, DeleteLocked, CanDeleteUnused, CanDeleteLocked
  <2>2. NoItems \in Items
    BY DEF NoItems, Items
  <2> QED BY <2>1, <2>2 DEF ErasePeriod, TypeOK
<1>5. ASSUME NEW p \in Periods, NEW row \in [Included(p) -> Slips], GeneratePayslips(p, row)
      PROVE  TypeOK'
  <2>1. ASSUME NEW s \in Slips PROVE slip'[s] \in Payslip \cup {NoSlip}
    <3>1. CASE \E e \in DOMAIN row : row[e] = s
      <4> DEFINE e == CHOOSE e \in DOMAIN row : row[e] = s
      <4>1. e \in Employees
        BY <3>1, ChosenOwner DEF Included
      <4>2. slip'[s] = NewSlip(p, e, "calculated")
        BY <1>5, <3>1 DEF GeneratePayslips, IssueSlips, CanGenerate
      <4> HIDE DEF e
      <4> QED BY <4>1, <4>2 DEF NewSlip, Payslip
    <3>2. CASE ~ \E e \in DOMAIN row : row[e] = s
      BY <1>5, <3>2 DEF GeneratePayslips, IssueSlips, TypeOK, CanGenerate
    <3> QED BY <3>1, <3>2
  <2>2. slip' \in [Slips -> Payslip \cup {NoSlip}]
    BY <1>5, <2>1 DEF GeneratePayslips, IssueSlips, CanGenerate
  <2> QED BY <1>5, <2>2 DEF GeneratePayslips, IssueSlips, payVars, TypeOK, CanGenerate
<1>6. ASSUME NEW S \in SUBSET Slips, NEW st \in {"published", "revoked"},
             \A s \in S : slip[s] # NoSlip, SetStatus(S, st)
      PROVE  TypeOK'
  <2>1. ASSUME NEW s \in Slips PROVE slip'[s] \in Payslip \cup {NoSlip}
    BY <1>6 DEF SetStatus, TypeOK, Payslip
  <2> QED BY <1>6, <2>1 DEF SetStatus, payVars, TypeOK
<1>7. ASSUME NEW p \in Periods, PublishAll(p)
      PROVE  TypeOK'
  BY <1>6, <1>7 DEF PublishAll, PendingSlips, CalculatedSlips, SlipsOf, CanPublishAll
<1>8. ASSUME NEW s \in Slips, PublishOne(s) \/ Revoke(s)
      PROVE  TypeOK'
  BY <1>6, <1>8 DEF PublishOne, Revoke, CanPublishOne, CanRevoke
<1>9. ASSUME NEW p \in Periods, NEW e \in Employees, NEW s \in Slips, Distribute(p, e, s)
      PROVE  TypeOK'
  BY <1>9 DEF Distribute, NewSlip, payVars, TypeOK, Payslip, CanDistribute
<1>10. ASSUME NEW S \in SUBSET Slips, Attach(S)
       PROVE  TypeOK'
  BY <1>10 DEF Attach, payVars, TypeOK
<1>11. CASE UNCHANGED vars
  BY <1>11 DEF vars, TypeOK
<1> QED
  BY <1>1, <1>2, <1>3, <1>4, <1>5, <1>7, <1>8, <1>9, <1>10, <1>11
     DEF Next, PeriodStep, RunSlipStep

(* Every reachable state is well-typed.                                    *)
THEOREM TypeCorrect == Spec => []TypeOK
<1>1. Init => TypeOK
  BY PayrollConstants DEF Init, TypeOK, PeriodStatus, RunStatus, Items, NoItems
<1> QED BY <1>1, TypeStep, PTL DEF Spec

-----------------------------------------------------------------------------
(* The two status columns                                                  *)

(* The status columns of period and run only ever form one of the nine     *)
(* pairs listed, whichever of the transactions runs.                       *)
LEMMA PairStep == TypeOK /\ RunMatchesPeriod /\ [Next]_vars => RunMatchesPeriod'
<1> SUFFICES ASSUME TypeOK, RunMatchesPeriod, [Next]_vars PROVE RunMatchesPeriod'
  OBVIOUS
<1>1. ASSUME NEW p \in Periods, NEW d \in Dates, CreatePeriod(p, d) \/ UpdatePeriod(p, d)
      PROVE  RunMatchesPeriod'
  BY <1>1 DEF CreatePeriod, UpdatePeriod, TypeOK, RunMatchesPeriod, CanUpdate
<1>2. ASSUME NEW p \in Periods, NEW snapshot \in Items, Calculate(p, snapshot)
      PROVE  RunMatchesPeriod'
  BY <1>2 DEF Calculate, TypeOK, RunMatchesPeriod, CalculationSucceeds
<1>3. ASSUME NEW p \in Periods,
             Submit(p) \/ Approve(p) \/ Reject(p) \/ Lock(p) \/ Cancel(p)
      PROVE  RunMatchesPeriod'
  BY <1>3 DEF Submit, Approve, Reject, Lock, Cancel, TypeOK, RunMatchesPeriod, CanSubmit,
              CanReview, CanLock, CanCancel
<1>4. ASSUME NEW p \in Periods, DeleteUnused(p) \/ DeleteLocked(p)
      PROVE  RunMatchesPeriod'
  BY <1>4 DEF DeleteUnused, DeleteLocked, ErasePeriod, TypeOK, RunMatchesPeriod,
              CanDeleteUnused, CanDeleteLocked
<1>5. CASE UNCHANGED <<period, run>>
  BY <1>5 DEF RunMatchesPeriod
<1>6. UNCHANGED <<period, run>>
      \/ \E p \in Periods :
            \/ \E d \in Dates : CreatePeriod(p, d) \/ UpdatePeriod(p, d)
            \/ \E snapshot \in Items : Calculate(p, snapshot)
            \/ Submit(p) \/ Approve(p) \/ Reject(p) \/ Lock(p) \/ Cancel(p)
            \/ DeleteUnused(p) \/ DeleteLocked(p)
  BY DEF Next, vars, PeriodStep, RunSlipStep, GeneratePayslips, IssueSlips, PublishAll,
         Distribute, Attach, PublishOne, Revoke, SetStatus, CanGenerate, CanPublishAll,
         CanDistribute, CanPublishOne, CanRevoke
<1> QED BY <1>1, <1>2, <1>3, <1>4, <1>5, <1>6

(* Approval workflow: no sequence of transactions takes period and run     *)
(* apart.                                                                  *)
THEOREM StatusColumnsAgree == Spec => []RunMatchesPeriod
<1>1. Init => RunMatchesPeriod
  BY DEF Init, RunMatchesPeriod
<1> QED BY <1>1, PairStep, TypeCorrect, PTL DEF Spec

-----------------------------------------------------------------------------
(* Payslips and the run they were calculated from                          *)

LEMMA SlipFields ==
    ASSUME TypeOK
    PROVE  \A s \in Slips : slip[s] # NoSlip =>
              slip[s].period \in Periods /\ slip[s].employee \in Employees
BY DEF TypeOK, Payslip

\* What an issued row of payslips looks like, id by id.
LEMMA Issued ==
    ASSUME TypeOK, NEW p \in Periods, NEW row \in [Included(p) -> Slips],
           IssueSlips(p, row), NEW s \in Slips
    PROVE  \/ slip'[s] = slip[s]
           \/ \E e \in Included(p) : row[e] = s /\ slip'[s] = NewSlip(p, e, "calculated")
<1>1. CASE \E e \in DOMAIN row : row[e] = s
  <2> DEFINE e == CHOOSE e \in DOMAIN row : row[e] = s
  <2>1. e \in Included(p) /\ row[e] = s
    BY <1>1, ChosenOwner
  <2>2. slip'[s] = NewSlip(p, e, "calculated")
    BY <1>1 DEF IssueSlips
  <2> QED BY <2>1, <2>2
<1>2. CASE ~ \E e \in DOMAIN row : row[e] = s
  BY <1>2 DEF IssueSlips
<1> QED BY <1>1, <1>2

\* Setting the status of payslips changes nothing else about them.
LEMMA StatusSet ==
    ASSUME TypeOK, NEW S \in SUBSET Slips, NEW st \in {"published", "revoked"},
           \A s \in S : slip[s] # NoSlip, SetStatus(S, st), NEW s \in Slips
    PROVE  \/ slip'[s] = slip[s]
           \/ /\ s \in S
              /\ slip[s] \in Payslip /\ slip'[s] \in Payslip
              /\ slip'[s].period = slip[s].period
              /\ slip'[s].employee = slip[s].employee
              /\ slip'[s].kind = slip[s].kind
              /\ slip'[s].status = st
BY DEF SetStatus, TypeOK, Payslip

(* A calculated payslip belongs to an item of a final run: kept by every   *)
(* step.                                                                   *)
LEMMA FinalRunStep ==
    TypeOK /\ CalculatedSlipsBelongToFinalRuns /\ [Next]_vars
        => CalculatedSlipsBelongToFinalRuns'
<1> SUFFICES ASSUME TypeOK, CalculatedSlipsBelongToFinalRuns, [Next]_vars
             PROVE CalculatedSlipsBelongToFinalRuns'
  OBVIOUS
<1> USE PayrollConstants DEF CalculatedSlipsBelongToFinalRuns, RunIsFinal, Included
<1>1. ASSUME NEW p \in Periods, NEW d \in Dates, CreatePeriod(p, d) \/ UpdatePeriod(p, d)
      PROVE  CalculatedSlipsBelongToFinalRuns'
  BY <1>1 DEF CreatePeriod, UpdatePeriod, CanUpdate
<1>2. ASSUME NEW p \in Periods, NEW snapshot \in Items, Calculate(p, snapshot)
      PROVE  CalculatedSlipsBelongToFinalRuns'
  <2>1. \A s \in Slips : slip[s] # NoSlip /\ slip[s].kind = "calculated" => slip[s].period # p
    BY <1>2 DEF Calculate, CalculatedSlips, SlipsOf, CalculationSucceeds
  <2> QED BY <1>2, <2>1 DEF Calculate, TypeOK, CalculationSucceeds
<1>3. ASSUME NEW p \in Periods,
             Submit(p) \/ Approve(p) \/ Reject(p) \/ Lock(p) \/ Cancel(p)
      PROVE  CalculatedSlipsBelongToFinalRuns'
  <2>1. slip' = slip /\ items' = items
    BY <1>3 DEF Submit, Approve, Reject, Lock, Cancel, payVars, slipVars, CanSubmit,
                CanReview, CanLock, CanCancel
  <2>2. \A q \in Periods : run[q] \in {"approved", "locked"} => run'[q] \in {"approved", "locked"}
    BY <1>3 DEF Submit, Approve, Reject, Lock, Cancel, TypeOK, CanSubmit, CanReview,
                CanLock, CanCancel
  <2> QED BY <2>1, <2>2, SlipFields
<1>4. ASSUME NEW p \in Periods, DeleteUnused(p) \/ DeleteLocked(p)
      PROVE  CalculatedSlipsBelongToFinalRuns'
  <2>1. \A s \in Slips : slip'[s] # NoSlip => slip'[s] = slip[s] /\ slip[s].period # p
    BY <1>4 DEF DeleteUnused, DeleteLocked, ErasePeriod, SlipsOf, CanDeleteUnused,
                CanDeleteLocked
  <2>2. \A q \in Periods \ {p} : run'[q] = run[q] /\ items'[q] = items[q]
    BY <1>4 DEF DeleteUnused, DeleteLocked, ErasePeriod, TypeOK, CanDeleteUnused,
                CanDeleteLocked
  <2> QED BY <2>1, <2>2, SlipFields
<1>5. ASSUME NEW p \in Periods, NEW row \in [Included(p) -> Slips], GeneratePayslips(p, row)
      PROVE  CalculatedSlipsBelongToFinalRuns'
  <2>1. \A s \in Slips :
           \/ slip'[s] = slip[s]
           \/ \E e \in Included(p) : slip'[s] = NewSlip(p, e, "calculated")
    BY <1>5, Issued DEF GeneratePayslips, CanGenerate
  <2> QED BY <1>5, <2>1 DEF GeneratePayslips, IssueSlips, NewSlip, payVars, CanGenerate
<1>6. ASSUME NEW S \in SUBSET Slips, NEW st \in {"published", "revoked"},
             \A s \in S : slip[s] # NoSlip, SetStatus(S, st)
      PROVE  CalculatedSlipsBelongToFinalRuns'
  <2>1. \A s \in Slips :
           \/ slip'[s] = slip[s]
           \/ /\ slip[s] # NoSlip
              /\ slip'[s].period = slip[s].period
              /\ slip'[s].employee = slip[s].employee
              /\ slip'[s].kind = slip[s].kind
    BY <1>6, StatusSet
  <2> QED BY <1>6, <2>1 DEF SetStatus, payVars
<1>7. ASSUME NEW p \in Periods, PublishAll(p)
      PROVE  CalculatedSlipsBelongToFinalRuns'
  BY <1>6, <1>7 DEF PublishAll, PendingSlips, CalculatedSlips, SlipsOf, CanPublishAll
<1>8. ASSUME NEW s \in Slips, PublishOne(s) \/ Revoke(s)
      PROVE  CalculatedSlipsBelongToFinalRuns'
  BY <1>6, <1>8 DEF PublishOne, Revoke, CanPublishOne, CanRevoke
<1>9. ASSUME NEW p \in Periods, NEW e \in Employees, NEW s \in Slips, Distribute(p, e, s)
      PROVE  CalculatedSlipsBelongToFinalRuns'
  BY <1>9 DEF Distribute, NewSlip, payVars, TypeOK, CanDistribute
<1>10. ASSUME NEW S \in SUBSET Slips, Attach(S)
       PROVE  CalculatedSlipsBelongToFinalRuns'
  BY <1>10 DEF Attach, payVars
<1>11. CASE UNCHANGED vars
  BY <1>11 DEF vars
<1> QED
  BY <1>1, <1>2, <1>3, <1>4, <1>5, <1>7, <1>8, <1>9, <1>10, <1>11
     DEF Next, PeriodStep, RunSlipStep

(* calculatePayrollAction never meets a payslip of the items it deletes.   *)
THEOREM PayslipsHaveFinalRuns == Spec => []CalculatedSlipsBelongToFinalRuns
<1>1. Init => CalculatedSlipsBelongToFinalRuns
  BY DEF Init, CalculatedSlipsBelongToFinalRuns
<1> QED BY <1>1, FinalRunStep, TypeCorrect, PTL DEF Spec

-----------------------------------------------------------------------------
(* The dates a run was calculated for                                      *)

(* Only draft and cancelled periods are edited, and by the pairs of status *)
(* their run is then not calculated, submitted, approved or locked.        *)
LEMMA DatesStep ==
    TypeOK /\ RunMatchesPeriod /\ PayIsForThePeriod /\ [Next]_vars => PayIsForThePeriod'
<1> SUFFICES ASSUME TypeOK, RunMatchesPeriod, PayIsForThePeriod, [Next]_vars
             PROVE PayIsForThePeriod'
  OBVIOUS
<1>1. ASSUME NEW p \in Periods, NEW d \in Dates, CreatePeriod(p, d) \/ UpdatePeriod(p, d)
      PROVE  PayIsForThePeriod'
  BY <1>1 DEF CreatePeriod, UpdatePeriod, TypeOK, RunMatchesPeriod, PayIsForThePeriod,
              CanUpdate
<1>2. ASSUME NEW p \in Periods, NEW snapshot \in Items, Calculate(p, snapshot)
      PROVE  PayIsForThePeriod'
  BY <1>2 DEF Calculate, TypeOK, PayIsForThePeriod, CalculationSucceeds
<1>3. ASSUME NEW p \in Periods,
             Submit(p) \/ Approve(p) \/ Reject(p) \/ Lock(p) \/ Cancel(p)
      PROVE  PayIsForThePeriod'
  BY <1>3 DEF Submit, Approve, Reject, Lock, Cancel, payVars, TypeOK, PayIsForThePeriod,
              CanSubmit, CanReview, CanLock, CanCancel
<1>4. ASSUME NEW p \in Periods, DeleteUnused(p) \/ DeleteLocked(p)
      PROVE  PayIsForThePeriod'
  BY <1>4 DEF DeleteUnused, DeleteLocked, ErasePeriod, TypeOK, PayIsForThePeriod,
              CanDeleteUnused, CanDeleteLocked
<1>5. CASE UNCHANGED <<endDate, run, calculatedFor>>
  BY <1>5 DEF PayIsForThePeriod
<1>6. UNCHANGED <<endDate, run, calculatedFor>>
      \/ \E p \in Periods :
            \/ \E d \in Dates : CreatePeriod(p, d) \/ UpdatePeriod(p, d)
            \/ \E snapshot \in Items : Calculate(p, snapshot)
            \/ Submit(p) \/ Approve(p) \/ Reject(p) \/ Lock(p) \/ Cancel(p)
            \/ DeleteUnused(p) \/ DeleteLocked(p)
  BY DEF Next, vars, payVars, PeriodStep, RunSlipStep, GeneratePayslips, IssueSlips,
         PublishAll, Distribute, Attach, PublishOne, Revoke, SetStatus, CanGenerate,
         CanPublishAll, CanDistribute, CanPublishOne, CanRevoke
<1> QED BY <1>1, <1>2, <1>3, <1>4, <1>5, <1>6

(* A run is never approved or paid with a calculation for other dates.     *)
THEOREM PayMatchesDates == Spec => []PayIsForThePeriod
<1>1. Init => PayIsForThePeriod
  BY DEF Init, PayIsForThePeriod
<1> QED BY <1>1, DatesStep, TypeCorrect, StatusColumnsAgree, PTL DEF Spec

(* Items and dates of a submitted run change only when the period goes.    *)
THEOREM SubmittedPayStays == Spec => SubmittedPayIsFrozen
<1> DEFINE Frozen == \A p \in Periods :
              run[p] \in {"submitted", "approved", "locked"} /\ period'[p] # "absent"
                  => items'[p] = items[p] /\ endDate'[p] = endDate[p]
<1>1. ASSUME TypeOK, RunMatchesPeriod, [Next]_vars
      PROVE  Frozen
  <2>1. ASSUME NEW p \in Periods, NEW d \in Dates, CreatePeriod(p, d) \/ UpdatePeriod(p, d)
        PROVE  Frozen
    BY <1>1, <2>1 DEF CreatePeriod, UpdatePeriod, TypeOK, RunMatchesPeriod, CanUpdate
  <2>2. ASSUME NEW p \in Periods, NEW snapshot \in Items, Calculate(p, snapshot)
        PROVE  Frozen
    BY <1>1, <2>2 DEF Calculate, CanCalculate, TypeOK, CalculationSucceeds
  <2>3. ASSUME NEW p \in Periods, DeleteUnused(p) \/ DeleteLocked(p)
        PROVE  Frozen
    BY <1>1, <2>3 DEF DeleteUnused, DeleteLocked, ErasePeriod, TypeOK, CanDeleteUnused,
                      CanDeleteLocked
  <2>4. CASE UNCHANGED <<items, endDate>>
    BY <2>4
  <2>5. UNCHANGED <<items, endDate>>
        \/ \E p \in Periods :
              \/ \E d \in Dates : CreatePeriod(p, d) \/ UpdatePeriod(p, d)
              \/ \E snapshot \in Items : Calculate(p, snapshot)
              \/ DeleteUnused(p) \/ DeleteLocked(p)
    BY <1>1 DEF Next, vars, payVars, PeriodStep, Submit, Approve, Reject, Lock, Cancel,
           RunSlipStep, GeneratePayslips, IssueSlips, PublishAll, Distribute, Attach,
           PublishOne, Revoke, SetStatus, CanSubmit, CanReview, CanLock, CanCancel,
                CanGenerate, CanPublishAll, CanDistribute, CanPublishOne, CanRevoke
  <2> HIDE DEF Frozen
  <2> QED BY <2>1, <2>2, <2>3, <2>4, <2>5
<1> QED
  BY <1>1, TypeCorrect, StatusColumnsAgree, PTL DEF Spec, SubmittedPayIsFrozen

-----------------------------------------------------------------------------
(* The life of a payslip                                                   *)

(* Publication wants the document, and a document goes only with its       *)
(* payslip.                                                                *)
LEMMA DocumentStep == TypeOK /\ PublishedHasDocument /\ [Next]_vars => PublishedHasDocument'
<1> SUFFICES ASSUME TypeOK, PublishedHasDocument, [Next]_vars PROVE PublishedHasDocument'
  OBVIOUS
<1> USE DEF PublishedHasDocument
<1>1. CASE UNCHANGED slipVars
  BY <1>1 DEF slipVars
<1>2. ASSUME NEW p \in Periods, DeleteUnused(p) \/ DeleteLocked(p)
      PROVE  PublishedHasDocument'
  BY <1>2 DEF DeleteUnused, DeleteLocked, ErasePeriod, CanDeleteUnused, CanDeleteLocked
<1>3. ASSUME NEW p \in Periods, NEW row \in [Included(p) -> Slips], GeneratePayslips(p, row)
      PROVE  PublishedHasDocument'
  <2>1. \A s \in Slips : slip'[s] = slip[s]
                         \/ \E e \in Included(p) : slip'[s] = NewSlip(p, e, "calculated")
    BY <1>3, Issued DEF GeneratePayslips, CanGenerate
  <2> QED BY <1>3, <2>1 DEF GeneratePayslips, IssueSlips, NewSlip, CanGenerate
<1>4. ASSUME NEW S \in SUBSET documented, NEW st \in {"published", "revoked"},
             \A s \in S : slip[s] # NoSlip, SetStatus(S, st)
      PROVE  PublishedHasDocument'
  <2>1. S \in SUBSET Slips
    BY DEF TypeOK
  <2>2. \A s \in Slips : slip'[s] = slip[s] \/ s \in S
    BY <1>4, <2>1, StatusSet
  <2> QED BY <1>4, <2>2 DEF SetStatus
<1>5. ASSUME NEW p \in Periods, PublishAll(p)
      PROVE  PublishedHasDocument'
  BY <1>4, <1>5 DEF PublishAll, PendingSlips, CalculatedSlips, SlipsOf, CanPublishAll
<1>6. ASSUME NEW s \in Slips, PublishOne(s) \/ Revoke(s)
      PROVE  PublishedHasDocument'
  BY <1>4, <1>6 DEF PublishOne, Revoke, CanPublishOne, CanRevoke
<1>7. ASSUME NEW p \in Periods, NEW e \in Employees, NEW s \in Slips, Distribute(p, e, s)
      PROVE  PublishedHasDocument'
  BY <1>7 DEF Distribute, TypeOK, CanDistribute
<1>8. ASSUME NEW S \in SUBSET Slips, Attach(S)
      PROVE  PublishedHasDocument'
  BY <1>8 DEF Attach
<1>9. ASSUME NEW p \in Periods, NEW d \in Dates, CreatePeriod(p, d) \/ UpdatePeriod(p, d)
      PROVE  PublishedHasDocument'
  BY <1>1, <1>9 DEF CreatePeriod, UpdatePeriod, slipVars, CanUpdate
<1>10. ASSUME NEW p \in Periods, NEW snapshot \in Items, Calculate(p, snapshot)
       PROVE  PublishedHasDocument'
  BY <1>1, <1>10 DEF Calculate, slipVars, CalculationSucceeds
<1>11. ASSUME NEW p \in Periods,
              Submit(p) \/ Approve(p) \/ Reject(p) \/ Lock(p) \/ Cancel(p)
       PROVE  PublishedHasDocument'
  BY <1>1, <1>11 DEF Submit, Approve, Reject, Lock, Cancel, CanSubmit, CanReview, CanLock,
                     CanCancel
<1>12. CASE UNCHANGED vars
  BY <1>1, <1>12 DEF vars, slipVars
<1> QED
  BY <1>2, <1>3, <1>5, <1>6, <1>7, <1>8, <1>9, <1>10, <1>11, <1>12
     DEF Next, PeriodStep, RunSlipStep

(* No employee ever sees a payslip without its encrypted PDF.              *)
THEOREM DocumentBeforePublication == Spec => []PublishedHasDocument
<1>1. Init => PublishedHasDocument
  BY DEF Init, PublishedHasDocument
<1> QED BY <1>1, DocumentStep, TypeCorrect, PTL DEF Spec

(* Ids differ, so employees differ: the row generation inserts names each  *)
(* id for one employee, and a period that has calculated payslips gets no  *)
(* second row.                                                             *)
LEMMA OneEachStep == TypeOK /\ OnePayslipPerItem /\ [Next]_vars => OnePayslipPerItem'
<1> SUFFICES ASSUME TypeOK, OnePayslipPerItem, [Next]_vars PROVE OnePayslipPerItem'
  OBVIOUS
<1> USE DEF OnePayslipPerItem
<1>1. CASE UNCHANGED slip
  BY <1>1
<1>2. ASSUME NEW p \in Periods, DeleteUnused(p) \/ DeleteLocked(p)
      PROVE  OnePayslipPerItem'
  <2>1. \A s \in Slips : slip'[s] # NoSlip => slip'[s] = slip[s]
    BY <1>2 DEF DeleteUnused, DeleteLocked, ErasePeriod, CanDeleteUnused, CanDeleteLocked
  <2> QED BY <2>1
<1>3. ASSUME NEW p \in Periods, NEW row \in [Included(p) -> Slips], GeneratePayslips(p, row)
      PROVE  OnePayslipPerItem'
  <2>1. \A s \in Slips :
           \/ slip'[s] = slip[s]
           \/ \E e \in Included(p) : row[e] = s /\ slip'[s] = NewSlip(p, e, "calculated")
    BY <1>3, Issued DEF GeneratePayslips, CanGenerate
  <2>2. \A s \in Slips : slip[s] # NoSlip /\ slip[s].kind = "calculated" => slip[s].period # p
    BY <1>3 DEF GeneratePayslips, CalculatedSlips, SlipsOf, CanGenerate
  <2> SUFFICES ASSUME NEW s \in Slips, NEW t \in Slips, s # t,
                      slip'[s] # NoSlip, slip'[t] # NoSlip,
                      slip'[s].kind = "calculated", slip'[t].kind = "calculated",
                      slip'[s].period = slip'[t].period, slip'[s].employee = slip'[t].employee
               PROVE  FALSE
    OBVIOUS
  <2>3. CASE slip'[s] = slip[s] /\ slip'[t] = slip[t]
    BY <2>3
  <2>4. \A e \in Included(p) : /\ NewSlip(p, e, "calculated").period = p
                               /\ NewSlip(p, e, "calculated").employee = e
    BY DEF NewSlip
  <2>5. slip'[s] # slip[s] /\ slip'[t] # slip[t]
    BY <2>1, <2>2, <2>3, <2>4
  <2>6. PICK e \in Included(p) : row[e] = s /\ slip'[s].employee = e
    BY <2>1, <2>4, <2>5
  <2>7. PICK f \in Included(p) : row[f] = t /\ slip'[t].employee = f
    BY <2>1, <2>4, <2>5
  <2> QED BY <2>6, <2>7
<1>4. ASSUME NEW S \in SUBSET Slips, NEW st \in {"published", "revoked"},
             \A s \in S : slip[s] # NoSlip, SetStatus(S, st)
      PROVE  OnePayslipPerItem'
  <2>1. \A s \in Slips :
           \/ slip'[s] = slip[s]
           \/ /\ slip[s] # NoSlip
              /\ slip'[s].period = slip[s].period
              /\ slip'[s].employee = slip[s].employee
              /\ slip'[s].kind = slip[s].kind
    BY <1>4, StatusSet
  <2> QED BY <2>1
<1>5. ASSUME NEW p \in Periods, PublishAll(p)
      PROVE  OnePayslipPerItem'
  BY <1>4, <1>5 DEF PublishAll, PendingSlips, CalculatedSlips, SlipsOf, CanPublishAll
<1>6. ASSUME NEW s \in Slips, PublishOne(s) \/ Revoke(s)
      PROVE  OnePayslipPerItem'
  BY <1>4, <1>6 DEF PublishOne, Revoke, CanPublishOne, CanRevoke
<1>7. ASSUME NEW p \in Periods, NEW e \in Employees, NEW s \in Slips, Distribute(p, e, s)
      PROVE  OnePayslipPerItem'
  <2>1. \A t \in Slips : slip'[t] = slip[t] \/ slip'[t].kind = "distribution"
    BY <1>7 DEF Distribute, NewSlip, TypeOK, CanDistribute
  <2> QED BY <2>1
<1>8. ASSUME NEW S \in SUBSET Slips, Attach(S)
      PROVE  OnePayslipPerItem'
  BY <1>1, <1>8 DEF Attach
<1>9. ASSUME NEW p \in Periods, NEW d \in Dates, CreatePeriod(p, d) \/ UpdatePeriod(p, d)
      PROVE  OnePayslipPerItem'
  BY <1>1, <1>9 DEF CreatePeriod, UpdatePeriod, CanUpdate
<1>10. ASSUME NEW p \in Periods, NEW snapshot \in Items, Calculate(p, snapshot)
       PROVE  OnePayslipPerItem'
  BY <1>1, <1>10 DEF Calculate, CalculationSucceeds
<1>11. ASSUME NEW p \in Periods,
              Submit(p) \/ Approve(p) \/ Reject(p) \/ Lock(p) \/ Cancel(p)
       PROVE  OnePayslipPerItem'
  BY <1>1, <1>11 DEF Submit, Approve, Reject, Lock, Cancel, slipVars, CanSubmit, CanReview,
                     CanLock, CanCancel
<1>12. CASE UNCHANGED vars
  BY <1>1, <1>12 DEF vars
<1> QED
  BY <1>2, <1>3, <1>5, <1>6, <1>7, <1>8, <1>9, <1>10, <1>11, <1>12
     DEF Next, PeriodStep, RunSlipStep

(* generatePayslipsAction: asked for any number of times, it leaves one    *)
(* payslip per payroll item.                                               *)
THEOREM OneForEachItem == Spec => []OnePayslipPerItem
<1>1. Init => OnePayslipPerItem
  BY DEF Init, OnePayslipPerItem
<1> QED BY <1>1, OneEachStep, TypeCorrect, PTL DEF Spec

(* What a single step may do to a payslip that exists.                     *)
LEMMA ForwardStep ==
    ASSUME TypeOK, [Next]_vars, NEW s \in Slips, slip[s] # NoSlip
    PROVE  \/ slip'[s] = slip[s]
           \/ slip[s].status = "generated" /\ slip'[s] = [slip[s] EXCEPT !.status = "published"]
           \/ slip[s].status = "published" /\ slip'[s] = [slip[s] EXCEPT !.status = "revoked"]
           \/ slip[s].status = "revoked" /\ slip'[s] = NoSlip
<1> DEFINE Forward ==
      \/ slip'[s] = slip[s]
      \/ slip[s].status = "generated" /\ slip'[s] = [slip[s] EXCEPT !.status = "published"]
      \/ slip[s].status = "published" /\ slip'[s] = [slip[s] EXCEPT !.status = "revoked"]
      \/ slip[s].status = "revoked" /\ slip'[s] = NoSlip
<1> SUFFICES Forward
  OBVIOUS
<1>1. CASE UNCHANGED slip
  BY <1>1
<1>2. ASSUME NEW p \in Periods, DeleteUnused(p) \/ DeleteLocked(p)
      PROVE  Forward
  BY <1>2 DEF DeleteUnused, DeleteLocked, ErasePeriod, CanDeleteUnused, CanDeleteLocked
<1>3. ASSUME NEW p \in Periods, NEW row \in [Included(p) -> Slips], GeneratePayslips(p, row)
      PROVE  Forward
  BY <1>3 DEF GeneratePayslips, IssueSlips, CanGenerate
<1>4. ASSUME NEW p \in Periods, PublishAll(p)
      PROVE  Forward
  BY <1>4 DEF PublishAll, SetStatus, PendingSlips, CanPublishAll
<1>5. ASSUME NEW t \in Slips, PublishOne(t) \/ Revoke(t)
      PROVE  Forward
  BY <1>5 DEF PublishOne, Revoke, SetStatus, CanPublishOne, CanRevoke
<1>6. ASSUME NEW p \in Periods, NEW e \in Employees, NEW t \in Slips, Distribute(p, e, t)
      PROVE  Forward
  <2>1. slip'[s] = slip[s]
    BY <1>6 DEF Distribute, TypeOK, CanDistribute
  <2> QED BY <2>1
<1>7. ASSUME NEW S \in SUBSET Slips, Attach(S)
      PROVE  Forward
  BY <1>1, <1>7 DEF Attach
<1>8. ASSUME NEW p \in Periods, NEW d \in Dates, CreatePeriod(p, d) \/ UpdatePeriod(p, d)
      PROVE  Forward
  BY <1>1, <1>8 DEF CreatePeriod, UpdatePeriod, CanUpdate
<1>9. ASSUME NEW p \in Periods, NEW snapshot \in Items, Calculate(p, snapshot)
      PROVE  Forward
  BY <1>1, <1>9 DEF Calculate, CalculationSucceeds
<1>10. ASSUME NEW p \in Periods,
              Submit(p) \/ Approve(p) \/ Reject(p) \/ Lock(p) \/ Cancel(p)
       PROVE  Forward
  BY <1>1, <1>10 DEF Submit, Approve, Reject, Lock, Cancel, slipVars, CanSubmit, CanReview,
                     CanLock, CanCancel
<1>11. CASE UNCHANGED vars
  BY <1>1, <1>11 DEF vars
<1> HIDE DEF Forward
<1> QED
  BY <1>2, <1>3, <1>4, <1>5, <1>6, <1>7, <1>8, <1>9, <1>10, <1>11
     DEF Next, PeriodStep, RunSlipStep

(* A payslip is published once, revoked once, and only a revoked one is    *)
(* ever deleted.                                                           *)
THEOREM PayslipsMoveForward == Spec => PayslipsOnlyMoveForward
<1>1. TypeOK /\ [Next]_vars =>
        [\A s \in Slips : slip[s] # NoSlip =>
          \/ slip'[s] = slip[s]
          \/ slip[s].status = "generated" /\ slip'[s] = [slip[s] EXCEPT !.status = "published"]
          \/ slip[s].status = "published" /\ slip'[s] = [slip[s] EXCEPT !.status = "revoked"]
          \/ slip[s].status = "revoked" /\ slip'[s] = NoSlip]_vars
  BY ForwardStep
<1> QED BY <1>1, TypeCorrect, PTL DEF Spec, PayslipsOnlyMoveForward

(* All of it together: the invariant the payroll run checks.               *)
THEOREM PayrollStaysConsistent == Spec => []PayrollConsistent
<1>1. ASSUME TypeOK, RunMatchesPeriod, CalculatedSlipsBelongToFinalRuns,
             OnePayslipPerItem, PayIsForThePeriod, PublishedHasDocument
      PROVE  PayrollConsistent
  BY <1>1 DEF PayrollConsistent
<1> QED BY <1>1, TypeCorrect, StatusColumnsAgree, PayslipsHaveFinalRuns, OneForEachItem,
           PayMatchesDates, DocumentBeforePublication, PTL

-----------------------------------------------------------------------------
(* The pages                                                               *)

(* Every payslip has a period: one is distributed for, or generated from,   *)
(* a period that exists, and deleting a period deletes its payslips.        *)
PayslipsHavePeriods == \A s \in Slips : slip[s] # NoSlip => period[slip[s].period] # "absent"

LEMMA PeriodsStep ==
    TypeOK /\ RunMatchesPeriod /\ PayslipsHavePeriods /\ [Next]_vars => PayslipsHavePeriods'
<1> SUFFICES ASSUME TypeOK, RunMatchesPeriod, PayslipsHavePeriods, [Next]_vars
             PROVE PayslipsHavePeriods'
  OBVIOUS
<1> USE PayrollConstants DEF PayslipsHavePeriods
<1>1. ASSUME NEW p \in Periods, NEW d \in Dates, CreatePeriod(p, d) \/ UpdatePeriod(p, d)
      PROVE  PayslipsHavePeriods'
  BY <1>1, SlipFields DEF CreatePeriod, UpdatePeriod, CanUpdate, TypeOK
<1>2. ASSUME NEW p \in Periods, NEW snapshot \in Items, Calculate(p, snapshot)
      PROVE  PayslipsHavePeriods'
  BY <1>2, SlipFields DEF Calculate, TypeOK
<1>3. ASSUME NEW p \in Periods,
             Submit(p) \/ Approve(p) \/ Reject(p) \/ Lock(p) \/ Cancel(p)
      PROVE  PayslipsHavePeriods'
  <2>1. slip' = slip
    BY <1>3 DEF Submit, Approve, Reject, Lock, Cancel, slipVars
  <2>2. \A q \in Periods : period[q] # "absent" => period'[q] # "absent"
    BY <1>3 DEF Submit, Approve, Reject, Lock, Cancel, TypeOK
  <2> QED BY <2>1, <2>2, SlipFields
<1>4. ASSUME NEW p \in Periods, DeleteUnused(p) \/ DeleteLocked(p)
      PROVE  PayslipsHavePeriods'
  <2>1. \A s \in Slips : slip'[s] # NoSlip => slip'[s] = slip[s] /\ slip[s].period # p
    BY <1>4 DEF DeleteUnused, DeleteLocked, ErasePeriod, SlipsOf
  <2>2. \A q \in Periods \ {p} : period'[q] = period[q]
    BY <1>4 DEF DeleteUnused, DeleteLocked, ErasePeriod, TypeOK
  <2> QED BY <2>1, <2>2, SlipFields
<1>5. ASSUME NEW p \in Periods, NEW row \in [Included(p) -> Slips], GeneratePayslips(p, row)
      PROVE  PayslipsHavePeriods'
  <2>1. \A s \in Slips :
           slip'[s] = slip[s] \/ \E e \in Included(p) : slip'[s] = NewSlip(p, e, "calculated")
    BY <1>5, Issued DEF GeneratePayslips
  <2>2. period' = period /\ period[p] # "absent"
    BY <1>5 DEF GeneratePayslips, CanGenerate, RunIsFinal, IssueSlips, RunMatchesPeriod
  <2>3. \A e \in Included(p) : NewSlip(p, e, "calculated").period = p
    BY DEF NewSlip
  <2> QED BY <2>1, <2>2, <2>3
<1>6. ASSUME NEW S \in SUBSET Slips, NEW st \in {"published", "revoked"},
             \A s \in S : slip[s] # NoSlip, SetStatus(S, st)
      PROVE  PayslipsHavePeriods'
  <2>1. \A s \in Slips :
           slip'[s] = slip[s] \/ (slip[s] # NoSlip /\ slip'[s].period = slip[s].period)
    BY <1>6, StatusSet
  <2> QED BY <1>6, <2>1 DEF SetStatus
<1>7. ASSUME NEW p \in Periods, PublishAll(p)
      PROVE  PayslipsHavePeriods'
  BY <1>6, <1>7 DEF PublishAll, PendingSlips, CalculatedSlips, SlipsOf
<1>8. ASSUME NEW s \in Slips, PublishOne(s) \/ Revoke(s)
      PROVE  PayslipsHavePeriods'
  BY <1>6, <1>8 DEF PublishOne, CanPublishOne, Revoke, CanRevoke
<1>9. ASSUME NEW p \in Periods, NEW e \in Employees, NEW s \in Slips, Distribute(p, e, s)
      PROVE  PayslipsHavePeriods'
  BY <1>9 DEF Distribute, CanDistribute, NewSlip, TypeOK
<1>10. ASSUME NEW S \in SUBSET Slips, Attach(S)
       PROVE  PayslipsHavePeriods'
  BY <1>10 DEF Attach
<1>11. CASE UNCHANGED vars
  BY <1>11 DEF vars
<1> QED
  BY <1>1, <1>2, <1>3, <1>4, <1>5, <1>7, <1>8, <1>9, <1>10, <1>11
     DEF Next, PeriodStep, RunSlipStep

\* The buttons: page and action look at different columns of the nine pairs.
LEMMA ButtonsMatch ==
    ASSUME PayrollConsistent
    PROVE  ButtonsMatchWorkflow
<1>1. \A b \in Buttons : PageGrants[b] \subseteq ServerGrants[b]
  BY DEF Buttons, PageGrants, ServerGrants
<1> SUFFICES ASSUME NEW p \in ListedPeriods
             PROVE  LET shown == WorkflowButtons(p) IN
                      /\ shown.calculate <=> CalculationSucceeds(p)
                      /\ shown.submit <=> CanSubmit(p)
                      /\ shown.approve <=> CanReview(p)
                      /\ shown.reject <=> CanReview(p)
                      /\ shown.lock <=> CanLock(p)
                      /\ shown.cancel <=> CanCancel(p)
                      /\ CanGenerate(p) => shown.generate
                      /\ CanPublishAll(p) => shown.publish
                      /\ CanUpdate(p) => p \in EditablePeriods
                      /\ CanDeleteUnused(p) \/ CanDeleteLocked(p) => p \in DeletablePeriods
                      /\ (\E e \in Employees : CanDistribute(p, e)) => p \in UploadPeriods
                      /\ \A s \in PayslipsForPeriod(p) :
                            /\ PayslipRow(s).publish <=> CanPublishOne(s)
                            /\ PayslipRow(s).revoke <=> CanRevoke(s)
  BY <1>1 DEF ButtonsMatchWorkflow
<1>2. p \in Periods
  BY DEF ListedPeriods
<1>3. CalculatedSlips(p) # {} => RunIsFinal(p)
  BY <1>2 DEF PayrollConsistent, CalculatedSlipsBelongToFinalRuns, CalculatedSlips, SlipsOf
<1>4. WorkflowButtons(p).calculate <=> CalculationSucceeds(p)
  BY <1>3 DEF WorkflowButtons, CalculationSucceeds, CanCalculate, RunIsFinal
<1>5. WorkflowButtons(p).submit <=> CanSubmit(p)
  BY <1>2 DEF WorkflowButtons, CanSubmit, PayrollConsistent, RunMatchesPeriod
<1>6. /\ WorkflowButtons(p).approve <=> CanReview(p)
      /\ WorkflowButtons(p).reject <=> CanReview(p)
      /\ WorkflowButtons(p).lock <=> CanLock(p)
      /\ CanGenerate(p) => WorkflowButtons(p).generate
      /\ CanPublishAll(p) => WorkflowButtons(p).publish
  BY DEF WorkflowButtons, CanReview, CanLock, CanGenerate, CanPublishAll, RunIsFinal
<1>7. WorkflowButtons(p).cancel <=> CanCancel(p)
  BY <1>2 DEF WorkflowButtons, CanCancel, PayrollConsistent, RunMatchesPeriod
<1>8. /\ CanUpdate(p) => p \in EditablePeriods
      /\ CanDeleteUnused(p) \/ CanDeleteLocked(p) => p \in DeletablePeriods
      /\ (\E e \in Employees : CanDistribute(p, e)) => p \in UploadPeriods
  BY <1>2 DEF CanUpdate, EditablePeriods, CanDeleteUnused, CanDeleteLocked, DeletablePeriods,
              CanDistribute, UploadPeriods
<1>9. ASSUME NEW s \in PayslipsForPeriod(p)
      PROVE  /\ PayslipRow(s).publish <=> CanPublishOne(s)
             /\ PayslipRow(s).revoke <=> CanRevoke(s)
  BY DEF PayslipsForPeriod, SlipsOf, PayslipRow, CanPublishOne, CanRevoke
<1> QED BY <1>4, <1>5, <1>6, <1>7, <1>8, <1>9

\* The links: what a payslip is found by leads to one place.
LEMMA PayslipsOpen ==
    ASSUME PayrollConsistent, PayslipsHavePeriods
    PROVE  LinkedPayslipsOpen
<1>0. /\ TypeOK /\ CalculatedSlipsBelongToFinalRuns /\ OnePayslipPerItem
      /\ PublishedHasDocument
  BY DEF PayrollConsistent
<1>1. ASSUME NEW s \in Slips, slip[s] # NoSlip
      PROVE  /\ slip[s].period \in ListedPeriods /\ slip[s].employee \in Employees
             /\ PeriodOf(s) = {slip[s].period}
  BY <1>0, <1>1, SlipFields DEF ListedPeriods, PeriodOf, PayslipsHavePeriods
<1>2. ASSUME NEW s \in Slips, slip[s] # NoSlip, slip[s].kind = "calculated"
      PROVE  HasItem(s) /\ run[slip[s].period] # "none"
  BY <1>0, <1>2 DEF HasItem, CalculatedSlipsBelongToFinalRuns, RunIsFinal
<1>3. ASSUME NEW e \in Employees, NEW s \in MyPublishedPayslips(e)
      PROVE  /\ OpensDetail(s) /\ ServesPdf(s) /\ MayView(e, FALSE, s)
             /\ \A p \in PeriodOf(s) :
                   /\ s \in MyPayslipsForPeriod(e, p) /\ s \in DocumentsForPeriod(p)
                   /\ PayslipRow(s).opens
             /\ slip[s].kind = "calculated" => PayslipOfItem(e, slip[s].period) = {s}
  <2>1. /\ s \in Slips /\ slip[s] # NoSlip
        /\ slip[s].employee = e /\ slip[s].status = "published"
    BY <1>3 DEF MyPublishedPayslips
  <2>2. s \in documented
    BY <1>0, <2>1 DEF PublishedHasDocument
  <2>3. OpensDetail(s) /\ ServesPdf(s) /\ MayView(e, FALSE, s)
    BY <1>1, <2>1, <2>2 DEF OpensDetail, ServesPdf, MayView
  <2>4. \A p \in PeriodOf(s) :
           /\ s \in MyPayslipsForPeriod(e, p) /\ s \in DocumentsForPeriod(p)
           /\ PayslipRow(s).opens
    BY <1>1, <2>1, <2>2 DEF MyPayslipsForPeriod, MyPublishedPayslips, PayslipsForPeriod,
       DocumentsForPeriod, SlipsOf, PayslipRow
  <2>5. ASSUME slip[s].kind = "calculated"
        PROVE  PayslipOfItem(e, slip[s].period) = {s}
    <3>1. s \in PayslipOfItem(e, slip[s].period)
      BY <1>2, <2>1, <2>5 DEF PayslipOfItem, MyPublishedPayslips
    <3>2. ASSUME NEW t \in PayslipOfItem(e, slip[s].period)
          PROVE  t = s
      <4>1. /\ t \in Slips /\ slip[t] # NoSlip /\ slip[t].kind = "calculated"
            /\ slip[t].employee = e /\ slip[t].period = slip[s].period
        BY <3>2 DEF PayslipOfItem, MyPublishedPayslips, HasItem
      <4> QED BY <1>0, <2>1, <2>5, <4>1 DEF OnePayslipPerItem
    <3> QED BY <3>1, <3>2
  <2> QED BY <2>3, <2>4, <2>5
<1>4. ASSUME NEW s \in DOMAIN RecentPayslips
      PROVE  /\ RecentPayslips[s] # {} /\ BackOpens(s)
             /\ PayslipRow(s).opens => OpensDetail(s)
  <2>1. s \in Slips /\ slip[s] # NoSlip /\ RecentPayslips[s] = PeriodOf(s)
    BY DEF RecentPayslips
  <2>2. PayslipRow(s).opens => OpensDetail(s)
    BY <1>1, <2>1 DEF PayslipRow, OpensDetail
  <2>3. BackOpens(s)
    BY <1>1, <1>2, <2>1 DEF BackOpens, OpensItem, ItemRows, HasItem
  <2> QED BY <1>1, <2>1, <2>2, <2>3
<1>5. ASSUME NEW p \in ListedPeriods
      PROVE  /\ PayslipsForRun(p) = CalculatedSlips(p)
             /\ DocumentsForRun(p) = DocumentsForPeriod(p) \cap CalculatedSlips(p)
  <2>1. PayslipsForRun(p) = CalculatedSlips(p)
    BY <1>2 DEF PayslipsForRun, CalculatedSlips, SlipsOf, HasItem
  <2> QED BY <2>1 DEF DocumentsForRun, DocumentsForPeriod, CalculatedSlips
<1> QED BY <1>3, <1>4, <1>5 DEF LinkedPayslipsOpen

(* The payroll pages: each button is shown where the action behind it is    *)
(* accepted, and each link to a payslip opens.                              *)
THEOREM ScreensStayTrue == Spec => []ScreensFollowWorkflow
<1>1. Init => PayslipsHavePeriods
  BY DEF Init, PayslipsHavePeriods
<1>2. Spec => []PayslipsHavePeriods
  BY <1>1, PeriodsStep, TypeCorrect, StatusColumnsAgree, PTL DEF Spec
<1>3. PayrollConsistent /\ PayslipsHavePeriods => ScreensFollowWorkflow
  BY ButtonsMatch, PayslipsOpen DEF ScreensFollowWorkflow
<1> QED BY <1>2, <1>3, PayrollStaysConsistent, PTL

-----------------------------------------------------------------------------
(* Salary components, their assignments and the item they make.            *)
(*                                                                         *)
(* Nothing is locked between the guard of a call and its write.  What the  *)
(* invariant keeps of a guard is therefore only what no other call can     *)
(* undo: which row a call writes, and the order of the dates it writes.    *)

(* What a call is about to write is well-formed by itself; the row it      *)
(* updates or ends exists, and is never removed.                           *)
Intended(c) ==
    /\ call[c] # Idle /\ call[c].op = "create" =>
          call[c].row.active /\ Ordered(call[c].row.from, call[c].row.to)
    /\ call[c] # Idle /\ call[c].op = "update" =>
          call[c].grant \in Rows /\ Ordered(call[c].from, call[c].to)
    /\ call[c] # Idle /\ call[c].op = "end" => call[c].grant \in Rows

CallsIntend == \A c \in Calls : Intended(c)

(* What the partial unique index enforces.                                 *)
UniqueActive ==
    \A g, h \in Rows :
        /\ grant[g].active /\ grant[h].active
        /\ grant[g].employee = grant[h].employee
        /\ grant[g].component = grant[h].component
        => g = h

ComponentInv == ComponentTypeOK /\ CallsIntend /\ UniqueActive /\ WindowsAreOrdered

-----------------------------------------------------------------------------
(* Calls                                                                   *)

(* The three kinds of call.                                                *)
LEMMA CallKinds ==
    ASSUME ComponentTypeOK, NEW c \in Calls, call[c] # Idle
    PROVE  \/ call[c].op = "create" /\ call[c].row \in Grant
           \/ /\ call[c].op = "update" /\ call[c].grant \in Grants
              /\ call[c].amount \in OwnAmounts /\ call[c].from \in Days
              /\ call[c].to \in Days \cup {NoEnd}
           \/ call[c].op = "end" /\ call[c].grant \in Grants /\ call[c].to \in Days
BY DEF ComponentTypeOK, Pending

(* A call begins.                                                          *)
LEMMA StartCallStep ==
    ASSUME ComponentInv, NEW c \in Calls, NEW p \in Pending,
           call' = [call EXCEPT ![c] = p], UNCHANGED <<definition, active, grant, working>>,
           p.op = "create" => p.row.active /\ Ordered(p.row.from, p.row.to),
           p.op = "update" => p.grant \in Rows /\ Ordered(p.from, p.to),
           p.op = "end" => p.grant \in Rows
    PROVE  ComponentInv'
<1>1. ComponentTypeOK'
  BY DEF ComponentInv, ComponentTypeOK
<1>2. CallsIntend'
  BY DEF ComponentInv, ComponentTypeOK, CallsIntend, Intended, Rows
<1>3. UniqueActive' /\ WindowsAreOrdered'
  BY DEF ComponentInv, UniqueActive, WindowsAreOrdered, Rows
<1> QED BY <1>1, <1>2, <1>3 DEF ComponentInv

(* A call ends, and a row is new or has changed to x: x is well-formed,    *)
(* and if it is active no other active row has its employee and component. *)
LEMMA WriteGrantStep ==
    ASSUME ComponentInv, NEW c \in Calls, NEW g \in Grants, NEW x \in Grant,
           grant' = [grant EXCEPT ![g] = x], Finish(c),
           Ordered(x.from, x.to),
           \A h \in Rows : h # g /\ x.active /\ grant[h].active
                             => grant[h].employee # x.employee
                                \/ grant[h].component # x.component
    PROVE  ComponentInv'
<1>1. /\ grant'[g] = x /\ \A h \in Grants : h # g => grant'[h] = grant[h]
      /\ call'[c] = Idle /\ \A d \in Calls : d # c => call'[d] = call[d]
  BY DEF ComponentInv, ComponentTypeOK, Finish
<1>2. Rows' = Rows \cup {g}
  BY <1>1, NoGrantAssumption DEF Rows
<1>3. ComponentTypeOK'
  BY DEF ComponentInv, ComponentTypeOK, Finish
<1>4. CallsIntend'
  BY <1>1, <1>2 DEF ComponentInv, CallsIntend, Intended
<1>5. WindowsAreOrdered'
  BY <1>1, <1>2 DEF ComponentInv, WindowsAreOrdered, Rows
<1>6. UniqueActive'
  BY <1>1, <1>2 DEF ComponentInv, UniqueActive, Rows
<1> QED BY <1>3, <1>4, <1>5, <1>6 DEF ComponentInv

(* A call ends without a write.                                            *)
LEMMA RefusedCallStep ==
    ASSUME ComponentInv, NEW c \in Calls, Finish(c), UNCHANGED grant
    PROVE  ComponentInv'
<1>1. ComponentTypeOK'
  BY DEF ComponentInv, ComponentTypeOK, Finish
<1>2. CallsIntend'
  BY DEF ComponentInv, ComponentTypeOK, CallsIntend, Intended, Rows, Finish
<1>3. UniqueActive' /\ WindowsAreOrdered'
  BY DEF ComponentInv, UniqueActive, WindowsAreOrdered, Rows
<1> QED BY <1>1, <1>2, <1>3 DEF ComponentInv

(* Components and employees change; no assignment does.                    *)
LEMMA CatalogueStep ==
    ASSUME ComponentInv, UNCHANGED <<grant, call>>, ComponentTypeOK'
    PROVE  ComponentInv'
BY DEF ComponentInv, CallsIntend, Intended, UniqueActive, WindowsAreOrdered, Rows

-----------------------------------------------------------------------------
(* The inductive step                                                      *)

LEMMA ComponentStep == ComponentInv /\ [ComponentNext]_componentVars => ComponentInv'
<1> SUFFICES ASSUME ComponentInv, [ComponentNext]_componentVars PROVE ComponentInv'
  OBVIOUS
<1>1. ASSUME NEW k \in Components, NEW d \in Definitions, SubmitDefinition(k, d)
      PROVE  ComponentInv'
  <2>1. ComponentTypeOK'
    BY <1>1 DEF SubmitDefinition, CreateComponent, UpdateComponent, ComponentInv, ComponentTypeOK
  <2> QED BY <1>1, <2>1, CatalogueStep
          DEF SubmitDefinition, CreateComponent, UpdateComponent
<1>2. ASSUME NEW k \in Components, NEW shown \in BOOLEAN, Toggle(k, shown)
      PROVE  ComponentInv'
  <2>1. ComponentTypeOK'
    BY <1>2 DEF Toggle, SetComponentActive, ComponentInv, ComponentTypeOK
  <2> QED BY <1>2, <2>1, CatalogueStep DEF Toggle, SetComponentActive
<1>3. ASSUME NEW e \in Holders, NEW on \in BOOLEAN, SetWorking(e, on)
      PROVE  ComponentInv'
  <2>1. ComponentTypeOK'
    BY <1>3 DEF SetWorking, ComponentInv, ComponentTypeOK
  <2> QED BY <1>3, <2>1, CatalogueStep DEF SetWorking
<1>4. ASSUME NEW c \in Calls, NEW row \in Grant, StartCreate(c, row)
      PROVE  ComponentInv'
  <2> DEFINE p == [op |-> "create", row |-> row]
  <2>1. p \in Pending /\ p.op = "create" /\ p.row = row
    BY DEF Pending
  <2> HIDE DEF p
  <2> QED BY <1>4, <2>1, StartCallStep DEF StartCreate, p
<1>5. ASSUME NEW c \in Calls, NEW g \in Grants, NEW amount \in OwnAmounts, NEW from \in Days,
             NEW to \in Days \cup {NoEnd}, StartUpdate(c, g, amount, from, to)
      PROVE  ComponentInv'
  <2> DEFINE p == [op |-> "update", grant |-> g, amount |-> amount, from |-> from, to |-> to]
  <2>1. p \in Pending /\ p.op = "update" /\ p.grant = g /\ p.from = from /\ p.to = to
    BY DEF Pending
  <2>2. call' = [call EXCEPT ![c] = p]
    BY <1>5 DEF StartUpdate
  <2> HIDE DEF p
  <2> QED BY <1>5, <2>1, <2>2, StartCallStep DEF StartUpdate
<1>6. ASSUME NEW c \in Calls, NEW g \in Grants, NEW to \in Days, StartEnd(c, g, to)
      PROVE  ComponentInv'
  <2> DEFINE p == [op |-> "end", grant |-> g, to |-> to]
  <2>1. p \in Pending /\ p.op = "end" /\ p.grant = g
    BY DEF Pending
  <2>2. call' = [call EXCEPT ![c] = p]
    BY <1>6 DEF StartEnd
  <2> HIDE DEF p
  <2> QED BY <1>6, <2>1, <2>2, StartCallStep DEF StartEnd
<1>7. ASSUME NEW c \in Calls, InsertGrant(c)
      PROVE  ComponentInv'
  <2> DEFINE x == call[c].row
  <2>1. x \in Grant /\ Ordered(x.from, x.to)
    BY <1>7, CallKinds DEF InsertGrant, ComponentInv, CallsIntend, Intended
  <2>2. PICK g \in Grants \ Rows : grant' = [grant EXCEPT ![g] = x]
    BY <1>7 DEF InsertGrant
  <2>3. \A h \in Rows : grant[h].active => grant[h].employee # x.employee
                                           \/ grant[h].component # x.component
    BY <1>7 DEF InsertGrant, ActiveRows
  <2> HIDE DEF x
  <2> QED BY <1>7, <2>1, <2>2, <2>3, WriteGrantStep DEF InsertGrant
<1>8. ASSUME NEW c \in Calls, WriteUpdate(c)
      PROVE  ComponentInv'
  <2> DEFINE w == call[c]
             g == w.grant
             x == [grant[g] EXCEPT !.amount = w.amount, !.from = w.from, !.to = w.to]
  <2>1. /\ g \in Rows /\ w.amount \in OwnAmounts /\ w.from \in Days
        /\ w.to \in Days \cup {NoEnd} /\ Ordered(w.from, w.to)
    BY <1>8, CallKinds DEF WriteUpdate, ComponentInv, CallsIntend, Intended
  <2>2. g \in Grants /\ grant[g] \in Grant
    BY <2>1 DEF Rows, ComponentInv, ComponentTypeOK
  <2>3. /\ x \in Grant /\ x.from = w.from /\ x.to = w.to /\ x.active = grant[g].active
        /\ x.employee = grant[g].employee /\ x.component = grant[g].component
    BY <2>1, <2>2 DEF Grant
  <2>4. grant' = [grant EXCEPT ![g] = x]
    BY <1>8 DEF WriteUpdate
  <2> HIDE DEF x, g, w
  <2>5. \A h \in Rows : h # g /\ x.active /\ grant[h].active
                          => grant[h].employee # x.employee
                             \/ grant[h].component # x.component
    BY <2>1, <2>3 DEF ComponentInv, UniqueActive
  <2> QED BY <1>8, <2>1, <2>2, <2>3, <2>4, <2>5, WriteGrantStep DEF WriteUpdate
<1>9. ASSUME NEW c \in Calls, WriteEnd(c)
      PROVE  ComponentInv'
  <2> DEFINE w == call[c]
             g == w.grant
             x == EndedRow(w)
  <2>1. g \in Rows /\ w.to \in Days /\ w.to > grant[g].from
    BY <1>9, CallKinds DEF WriteEnd, ComponentInv, CallsIntend, Intended
  <2>2. g \in Grants /\ grant[g] \in Grant
    BY <2>1 DEF Rows, ComponentInv, ComponentTypeOK
  <2>3. x \in Grant /\ x.from = grant[g].from /\ x.to = w.to /\ x.active = FALSE
    BY <2>1, <2>2 DEF Grant, EndedRow
  <2>4. grant' = [grant EXCEPT ![g] = x]
    BY <1>9 DEF WriteEnd
  <2> HIDE DEF x, g, w
  <2>5. Ordered(x.from, x.to)
    BY <2>1, <2>3 DEF Ordered
  <2> QED BY <1>9, <2>2, <2>3, <2>4, <2>5, WriteGrantStep DEF WriteEnd
<1>10. ASSUME NEW c \in Calls, InsertRefused(c) \/ EndRefused(c)
       PROVE  ComponentInv'
  BY <1>10, RefusedCallStep DEF InsertRefused, EndRefused
<1>11. CASE UNCHANGED componentVars
  <2>1. ComponentTypeOK'
    BY <1>11 DEF componentVars, ComponentInv, ComponentTypeOK
  <2> QED BY <1>11, <2>1, CatalogueStep DEF componentVars
<1> QED
  BY <1>1, <1>2, <1>3, <1>4, <1>5, <1>6, <1>7, <1>8, <1>9, <1>10, <1>11 DEF ComponentNext

(* The strengthening is an invariant.                                      *)
THEOREM ComponentInductive == ComponentSpec => []ComponentInv
<1>1. ComponentInit => ComponentInv
  <2> SUFFICES ASSUME ComponentInit PROVE ComponentInv
    OBVIOUS
  <2>1. Rows = {}
    BY DEF ComponentInit, Rows
  <2>2. ComponentTypeOK
    BY DEF ComponentInit, ComponentTypeOK
  <2>3. CallsIntend
    BY DEF ComponentInit, CallsIntend, Intended
  <2> QED BY <2>1, <2>2, <2>3 DEF ComponentInv, UniqueActive, WindowsAreOrdered
<1> QED BY <1>1, ComponentStep, PTL DEF ComponentSpec

(* "At most ONE active assignment per (organization, employee, component)" *)
(* and ordered windows, however creations, updates and endings race.       *)
THEOREM GrantsStayWellFormed == ComponentSpec => []GrantsWellFormed
<1>1. ComponentInv => GrantsWellFormed
  <2> SUFFICES ASSUME ComponentInv, NEW e \in Holders, NEW k \in Components
               PROVE  Cardinality(ActiveRows(e, k)) <= 1
    BY DEF ComponentInv, GrantsWellFormed, OneActiveGrant
  <2>1. CASE ActiveRows(e, k) = {}
    BY <2>1, FS_EmptySet
  <2>2. CASE ActiveRows(e, k) # {}
    <3>1. PICK g : g \in ActiveRows(e, k)
      BY <2>2
    <3>2. ActiveRows(e, k) = {g}
      BY <3>1 DEF ActiveRows, ComponentInv, UniqueActive
    <3>3. Cardinality({g}) = 1
      BY FS_Singleton
    <3> QED BY <3>2, <3>3
  <2> QED BY <2>1, <2>2
<1> QED BY <1>1, ComponentInductive, PTL

(* "The historical row is preserved": the write of a stale update neither  *)
(* revives an ended assignment nor moves it.                               *)
THEOREM EndedAssignmentsStayEnded == ComponentSpec => EndedStaysEnded
<1>1. ASSUME ComponentInv, [ComponentNext]_componentVars, NEW g \in Rows
      PROVE  /\ grant'[g] # NoGrant
             /\ grant'[g].employee = grant[g].employee
             /\ grant'[g].component = grant[g].component
             /\ ~grant[g].active => ~grant'[g].active
  <2>1. g \in Grants /\ grant[g] \in Grant /\ grant[g] # NoGrant
    BY <1>1 DEF Rows, ComponentInv, ComponentTypeOK
  <2>2. CASE grant'[g] = grant[g]
    BY <2>1, <2>2
  <2>3. ASSUME NEW c \in Calls, InsertGrant(c) PROVE grant'[g] = grant[g]
    BY <2>1, <2>3 DEF InsertGrant, ComponentInv, ComponentTypeOK
  <2>4. ASSUME NEW c \in Calls, WriteUpdate(c), grant'[g] # grant[g]
        PROVE  \E amount \in OwnAmounts, from \in Days, to \in Days \cup {NoEnd} :
                  grant'[g] = [grant[g] EXCEPT !.amount = amount, !.from = from, !.to = to]
    <3>1. /\ call[c].amount \in OwnAmounts /\ call[c].from \in Days
          /\ call[c].to \in Days \cup {NoEnd}
      BY <1>1, <2>4, CallKinds DEF WriteUpdate, ComponentInv
    <3> QED BY <1>1, <2>1, <2>4, <3>1 DEF WriteUpdate, ComponentInv, ComponentTypeOK
  <2>5. ASSUME NEW c \in Calls, WriteEnd(c), grant'[g] # grant[g]
        PROVE  \E to \in Days : grant'[g] = [grant[g] EXCEPT !.active = FALSE, !.to = to]
    <3>1. call[c].to \in Days
      BY <1>1, <2>5, CallKinds DEF WriteEnd, ComponentInv
    <3> QED BY <1>1, <2>1, <2>5, <3>1 DEF WriteEnd, EndedRow, ComponentInv, ComponentTypeOK
  <2>6. \A amount \in OwnAmounts, from \in Days, to \in Days \cup {NoEnd} :
           LET x == [grant[g] EXCEPT !.amount = amount, !.from = from, !.to = to]
           IN  /\ x \in Grant /\ x.employee = grant[g].employee
               /\ x.component = grant[g].component /\ x.active = grant[g].active
    BY <2>1 DEF Grant
  <2>7. \A to \in Days :
           LET x == [grant[g] EXCEPT !.active = FALSE, !.to = to]
           IN  /\ x \in Grant /\ x.employee = grant[g].employee
               /\ x.component = grant[g].component /\ ~x.active
    BY <2>1 DEF Grant
  <2>8. CASE \E c \in Calls : WriteUpdate(c)
    <3>1. CASE grant'[g] # grant[g]
      <4>1. PICK amount \in OwnAmounts, from \in Days, to \in Days \cup {NoEnd} :
               grant'[g] = [grant[g] EXCEPT !.amount = amount, !.from = from, !.to = to]
        BY <2>4, <2>8, <3>1
      <4> DEFINE x == [grant[g] EXCEPT !.amount = amount, !.from = from, !.to = to]
      <4>2. /\ x \in Grant /\ x.employee = grant[g].employee
            /\ x.component = grant[g].component /\ x.active = grant[g].active
        BY <2>6
      <4>3. grant'[g] = x
        BY <4>1
      <4> HIDE DEF x
      <4> QED BY <4>2, <4>3, NoGrantAssumption
    <3> QED BY <2>2, <3>1
  <2>9. CASE \E c \in Calls : WriteEnd(c)
    BY <2>2, <2>5, <2>7, <2>9, NoGrantAssumption
  <2>10. CASE UNCHANGED grant
    BY <2>2, <2>10
  <2> QED
    BY <1>1, <2>2, <2>3, <2>8, <2>9, <2>10
       DEF ComponentNext, SubmitDefinition, CreateComponent, UpdateComponent, Toggle,
           SetComponentActive, SetWorking, StartCreate, StartUpdate, StartEnd,
           InsertRefused, EndRefused, componentVars
<1>2. ComponentInv /\ [ComponentNext]_componentVars =>
        [\A g \in Rows :
            /\ grant'[g] # NoGrant
            /\ grant'[g].employee = grant[g].employee
            /\ grant'[g].component = grant[g].component
            /\ ~grant[g].active => ~grant'[g].active]_componentVars
  BY <1>1
<1> QED BY <1>2, ComponentInductive, PTL DEF ComponentSpec, EndedStaysEnded

-----------------------------------------------------------------------------
(* The calculation.  The day enters an item only through the question which *)
(* assignments are in force, so two days that answer it alike are paid alike. *)
LEMMA SameWindowsSamePay ==
    ASSUME NEW e, NEW d, NEW f, \A g \in Rows : Effective(g, d) <=> Effective(g, f)
    PROVE  Item(e, d) = Item(e, f)
<1>1. ASSUME NEW k PROVE EffectiveGrants(e, k, d) = EffectiveGrants(e, k, f)
  BY DEF EffectiveGrants
<1>2. ASSUME NEW k, NEW fallback PROVE Resolved(e, k, d, fallback) = Resolved(e, k, f, fallback)
  <2> DEFINE Any(S) == CHOOSE g \in S : TRUE
             resolved(S) == IF S = {} THEN fallback ELSE grant[Any(S)].amount
  <2>1. /\ Resolved(e, k, d, fallback) = resolved(EffectiveGrants(e, k, d))
        /\ Resolved(e, k, f, fallback) = resolved(EffectiveGrants(e, k, f))
    BY DEF Resolved
  <2> HIDE DEF resolved
  <2> QED BY <1>1, <2>1
<1>3. ASSUME NEW k PROVE FixedAmount(e, k, d) = FixedAmount(e, k, f)
  BY <1>2 DEF FixedAmount
<1>4. FixedEarnings(e, d) = FixedEarnings(e, f)
  <2>1. [k \in Earnings(ActiveComponents("fixed")) |-> FixedAmount(e, k, d)]
          = [k \in Earnings(ActiveComponents("fixed")) |-> FixedAmount(e, k, f)]
    BY <1>3
  <2> QED BY <2>1 DEF FixedEarnings
<1>5. Lines(e, d) = Lines(e, f)
  <2> DEFINE line(k, x) ==
         CASE definition[k].method = "fixed" -> FixedAmount(e, k, x)
           [] definition[k].method = "percentage" ->
                Percentage(FixedEarnings(e, x), Resolved(e, k, x, definition[k].default))
           [] definition[k].method = "manual" -> Resolved(e, k, x, 0)
  <2>1. ASSUME NEW k PROVE line(k, d) = line(k, f)
    BY <1>2, <1>3, <1>4
  <2>2. Lines(e, d) = [k \in active |-> line(k, d)] /\ Lines(e, f) = [k \in active |-> line(k, f)]
    BY DEF Lines
  <2> HIDE DEF line
  <2> QED BY <2>1, <2>2
<1> QED BY <1>5 DEF Item

(* The item of an employee changes only where an active assignment begins  *)
(* or ends.                                                                *)
LEMMA WindowsDecide == ComponentTypeOK => PayFollowsWindows
<1> SUFFICES ASSUME ComponentTypeOK, NEW e \in Holders, NEW d \in Days,
                    \A g \in Rows : grant[g].active => d + 1 \notin {grant[g].from, grant[g].to}
             PROVE  Item(e, d) = Item(e, d + 1)
  BY DEF PayFollowsWindows
<1>1. ASSUME NEW g \in Rows PROVE Effective(g, d) <=> Effective(g, d + 1)
  <2>1. grant[g] \in Grant
    BY DEF Rows, ComponentTypeOK
  <2>2. /\ grant[g].from \in Nat /\ d \in Nat
        /\ grant[g].to # NoEnd => grant[g].to \in Nat
    BY <2>1 DEF Grant, Days
  <2>3. grant[g].active => grant[g].from # d + 1 /\ grant[g].to # d + 1
    OBVIOUS
  <2> QED BY <2>2, <2>3 DEF Effective
<1> QED BY <1>1, SameWindowsSamePay

(* A component in use is defined, and only finitely many are in use: each  *)
(* was put in use by a step of its own.                                    *)
ActiveAreDefined ==
    IsFiniteSet(active) /\ \A k \in active : definition[k] \in Definition

LEMMA DefinedStep ==
    ComponentTypeOK /\ ActiveAreDefined /\ [ComponentNext]_componentVars => ActiveAreDefined'
<1> SUFFICES ASSUME ComponentTypeOK, ActiveAreDefined, [ComponentNext]_componentVars
             PROVE  ActiveAreDefined'
  OBVIOUS
<1> USE ComponentConstants DEF ComponentTypeOK, ActiveAreDefined
<1>1. ASSUME NEW k \in Components, NEW d \in Definitions, SubmitDefinition(k, d)
      PROVE  ActiveAreDefined'
  <2>1. IsFiniteSet(active \cup {k})
    BY FS_AddElement
  <2>2. CASE CreateComponent(k, d)
    BY <2>1, <2>2 DEF CreateComponent
  <2>3. CASE UpdateComponent(k, d)
    BY <2>3 DEF UpdateComponent
  <2> QED BY <1>1, <2>2, <2>3 DEF SubmitDefinition
<1>2. ASSUME NEW k \in Components, NEW shown \in BOOLEAN, Toggle(k, shown)
      PROVE  ActiveAreDefined'
  <2>1. IsFiniteSet(active \cup {k}) /\ IsFiniteSet(active \ {k})
    BY FS_AddElement, FS_RemoveElement
  <2>2. definition[k] \in Definition
    BY <1>2 DEF Toggle, SetComponentActive
  <2> QED BY <1>2, <2>1, <2>2 DEF Toggle, SetComponentActive
<1>3. ASSUME UNCHANGED <<definition, active>> PROVE ActiveAreDefined'
  BY <1>3
<1>4. ASSUME NEW c \in Calls,
             \/ InsertGrant(c) \/ InsertRefused(c) \/ WriteUpdate(c)
             \/ WriteEnd(c) \/ EndRefused(c)
      PROVE  UNCHANGED <<definition, active>>
  BY <1>4 DEF InsertGrant, InsertRefused, WriteUpdate, WriteEnd, EndRefused, Finish
<1>5. ASSUME NEW c \in Calls, NEW row \in Grant, StartCreate(c, row)
      PROVE  UNCHANGED <<definition, active>>
  BY <1>5 DEF StartCreate
<1>6. ASSUME NEW c \in Calls, NEW g \in Grants, NEW amount \in OwnAmounts, NEW from \in Days,
             NEW to \in Days \cup {NoEnd}, StartUpdate(c, g, amount, from, to)
      PROVE  UNCHANGED <<definition, active>>
  BY <1>6 DEF StartUpdate
<1>7. ASSUME NEW c \in Calls, NEW g \in Grants, NEW to \in Days, StartEnd(c, g, to)
      PROVE  UNCHANGED <<definition, active>>
  BY <1>7 DEF StartEnd
<1>8. ASSUME NEW e \in Holders, NEW on \in BOOLEAN, SetWorking(e, on)
      PROVE  UNCHANGED <<definition, active>>
  BY <1>8 DEF SetWorking
<1>9. CASE UNCHANGED componentVars
  BY <1>9 DEF componentVars
<1> QED BY <1>1, <1>2, <1>3, <1>4, <1>5, <1>6, <1>7, <1>8, <1>9 DEF ComponentNext

(* The amount of a component is natural, whoever provides it.              *)
LEMMA ResolvedIsNatural ==
    ASSUME ComponentTypeOK, NEW e, NEW k, NEW d, NEW fallback \in Nat
    PROVE  Resolved(e, k, d, fallback) \in Nat
<1>1. ASSUME NEW g \in EffectiveGrants(e, k, d) PROVE grant[g].amount \in Nat
  BY ComponentConstants DEF EffectiveGrants, Rows, ComponentTypeOK, Grant
<1> QED BY <1>1 DEF Resolved

(* Rounding to the nearest unit.                                           *)
LEMMA RoundsToNearest ==
    ASSUME NEW base \in Nat, NEW percent \in Nat
    PROVE  /\ Percentage(base, percent) \in Nat
           /\ 2 * Whole * Percentage(base, percent) <= 2 * (base * percent) + Whole
           /\ 2 * Whole * Percentage(base, percent) > 2 * (base * percent) - Whole
<1> DEFINE exact == base * percent
           n == 2 * Whole
           q == (2 * exact + Whole) \div n
<1>1. exact \in Nat /\ Whole \in Nat /\ n \in Nat /\ n > 0
  BY ComponentConstants
<1>2. Percentage(base, percent) = q
  <2>1. 2 * base * percent = 2 * exact
    OBVIOUS
  <2> QED BY <2>1 DEF Percentage
<1> HIDE DEF exact
<1>3. q \in Nat /\ n * q <= 2 * exact + Whole /\ n * q > 2 * exact + Whole - n
  <2> DEFINE x == 2 * exact + Whole
  <2>1. x \in Nat
    BY <1>1
  <2>2. /\ x \div n \in Nat /\ x % n \in 0..(n - 1)
        /\ x = n * (x \div n) + (x % n)
    <3> HIDE DEF x, n
    <3> QED BY <1>1, <2>1
  <2>3. n * (x \div n) \in Nat
    <3> HIDE DEF x, n
    <3> QED BY <1>1, <2>2
  <2> HIDE DEF x, n
  <2>4. n * (x \div n) <= x /\ n * (x \div n) > x - n
    BY <1>1, <2>1, <2>2, <2>3
  <2>5. q = x \div n /\ x = 2 * exact + Whole
    BY DEF x
  <2> HIDE DEF q
  <2>6. n * q = n * (x \div n)
    BY <2>5
  <2>7. q \in Nat
    BY <2>2, <2>5
  <2>8. n * q <= x /\ n * q > x - n
    BY <2>4, <2>6
  <2> QED BY <1>1, <2>1, <2>3, <2>5, <2>6, <2>7, <2>8
<1>4. n * q = 2 * Whole * q /\ n * q \in Nat
  BY <1>1, <1>3
<1>5. 2 * exact + Whole - n = 2 * exact - Whole
  BY <1>1
<1> QED BY <1>2, <1>3, <1>4, <1>5 DEF exact

(* The lines of an item are natural, and the fixed earnings are the sum of *)
(* the lines that show them.                                               *)
LEMMA LinesOfAnItem ==
    ASSUME ComponentTypeOK, ActiveAreDefined, NEW e, NEW d
    PROVE  /\ \A k \in active : Lines(e, d)[k] \in Nat
           /\ FixedEarnings(e, d) \in Nat
           /\ FixedEarnings(e, d)
                = SumFunctionOnSet(Lines(e, d), Earnings(ActiveComponents("fixed")))
           /\ \A k \in ActiveComponents("percentage") :
                 Lines(e, d)[k] = Percentage(FixedEarnings(e, d),
                                             Resolved(e, k, d, definition[k].default))
<1> DEFINE F == Earnings(ActiveComponents("fixed"))
           fixed == [k \in F |-> FixedAmount(e, k, d)]
<1>1. F \subseteq active /\ IsFiniteSet(F) /\ \A k \in F : definition[k].method = "fixed"
  <2>1. F \subseteq active /\ \A k \in F : definition[k].method = "fixed"
    BY DEF Earnings, ActiveComponents
  <2> QED BY <2>1, FS_Subset DEF ActiveAreDefined
<1>2. ASSUME NEW k \in active
      PROVE  /\ definition[k].default \in Nat
             /\ definition[k].method \in {"fixed", "percentage", "manual"}
  BY DEF ActiveAreDefined, Definition
<1>3. ASSUME NEW k \in active PROVE FixedAmount(e, k, d) \in Nat
  BY <1>2, ResolvedIsNatural DEF FixedAmount
<1>4. ASSUME NEW k \in F PROVE Lines(e, d)[k] = FixedAmount(e, k, d)
  BY <1>1 DEF Lines
<1>5. FixedEarnings(e, d) = SumFunctionOnSet(fixed, F)
  BY DEF FixedEarnings, SumFunction
<1>6. FixedEarnings(e, d) \in Nat
  <2>1. \A k \in F : fixed[k] \in Nat
    BY <1>1, <1>3
  <2> HIDE DEF fixed, F
  <2> QED BY <1>1, <1>5, <2>1, SumIsNatural
<1>7. SumFunctionOnSet(Lines(e, d), F) = SumFunctionOnSet(fixed, F)
  <2>1. \A k \in F : Lines(e, d)[k] = fixed[k]
    BY <1>4
  <2> HIDE DEF fixed, F
  <2> QED BY <1>1, <2>1, SumOfSameValues
<1>8. ASSUME NEW k \in active, definition[k].method = "percentage"
      PROVE  Lines(e, d)[k] = Percentage(FixedEarnings(e, d),
                                         Resolved(e, k, d, definition[k].default))
  BY <1>8 DEF Lines
<1>9. ASSUME NEW k \in active, definition[k].method = "manual"
      PROVE  Lines(e, d)[k] = Resolved(e, k, d, 0)
  BY <1>9 DEF Lines
<1>10. ASSUME NEW k \in active, definition[k].method = "fixed"
       PROVE  Lines(e, d)[k] = FixedAmount(e, k, d)
  BY <1>10 DEF Lines
<1>11. ASSUME NEW k \in active PROVE Lines(e, d)[k] \in Nat
  <2>1. CASE definition[k].method = "fixed"
    BY <1>3, <1>10, <2>1
  <2>2. CASE definition[k].method = "percentage"
    <3>1. Resolved(e, k, d, definition[k].default) \in Nat
      BY <1>2, ResolvedIsNatural
    <3> QED BY <1>6, <1>8, <2>2, <3>1, RoundsToNearest
  <2>3. CASE definition[k].method = "manual"
    <3>1. Resolved(e, k, d, 0) \in Nat
      BY ResolvedIsNatural
    <3> QED BY <1>9, <2>3, <3>1
  <2> QED BY <1>2, <2>1, <2>2, <2>3
<1> QED BY <1>5, <1>6, <1>7, <1>8, <1>11 DEF ActiveComponents

(* The lines of an item fit together.                                      *)
LEMMA LinesFit == ComponentTypeOK /\ ActiveAreDefined => LinesAddUp
<1> SUFFICES ASSUME ComponentTypeOK, ActiveAreDefined, NEW e \in Holders, NEW d \in Days
    PROVE  LET lines == Lines(e, d)
               item == Item(e, d)
               base == SumFunctionOnSet(lines, Earnings(ActiveComponents("fixed")))
           IN /\ \A k \in ActiveComponents("percentage") :
                    LET exact == base * Resolved(e, k, d, definition[k].default) IN
                    /\ 2 * Whole * lines[k] <= 2 * exact + Whole
                    /\ 2 * Whole * lines[k] > 2 * exact - Whole
              /\ item.net >= 0
              /\ item.deductions <= item.gross => item.net + item.deductions = item.gross
  BY DEF LinesAddUp
<1> DEFINE base == FixedEarnings(e, d)
           earned == SumFunctionOnSet(Lines(e, d), Earnings(active))
           deducted == SumFunctionOnSet(Lines(e, d), active \ Earnings(active))
<1>1. ASSUME NEW k \in ActiveComponents("percentage")
      PROVE  LET exact == base * Resolved(e, k, d, definition[k].default) IN
             /\ 2 * Whole * Lines(e, d)[k] <= 2 * exact + Whole
             /\ 2 * Whole * Lines(e, d)[k] > 2 * exact - Whole
  <2>1. definition[k].default \in Nat
    BY DEF ActiveComponents, ActiveAreDefined, Definition
  <2>2. base \in Nat /\ Resolved(e, k, d, definition[k].default) \in Nat
    BY <2>1, LinesOfAnItem, ResolvedIsNatural
  <2>3. Lines(e, d)[k] = Percentage(base, Resolved(e, k, d, definition[k].default))
    BY LinesOfAnItem
  <2> QED BY <2>2, <2>3, RoundsToNearest
<1>2. earned \in Nat /\ deducted \in Nat
  <2>1. \A k \in active : Lines(e, d)[k] \in Nat
    BY LinesOfAnItem
  <2>2. Earnings(active) \subseteq active
    BY DEF Earnings
  <2>3. IsFiniteSet(Earnings(active)) /\ IsFiniteSet(active \ Earnings(active))
    BY <2>2, FS_Subset DEF ActiveAreDefined
  <2> QED BY <2>1, <2>2, <2>3, SumIsNatural
<1>3. Item(e, d) = [gross |-> earned, deductions |-> deducted,
                    net |-> IF earned >= deducted THEN earned - deducted ELSE 0]
  BY DEF Item
<1> HIDE DEF earned, deducted
<1>4. /\ Item(e, d).net >= 0
      /\ Item(e, d).deductions <= Item(e, d).gross
            => Item(e, d).net + Item(e, d).deductions = Item(e, d).gross
  BY <1>2, <1>3
<1>5. base = SumFunctionOnSet(Lines(e, d), Earnings(ActiveComponents("fixed")))
  BY LinesOfAnItem
<1> HIDE DEF base
<1> QED BY <1>1, <1>4, <1>5

(* In every reachable state, whatever was defined, assigned, changed or     *)
(* ended: what an employee is paid changes from one day to the next only   *)
(* where an active assignment begins or ends; each percentage is, rounded  *)
(* to the nearest unit, that part of the fixed earnings on the same item;  *)
(* and net and deductions make up the gross where they can                 *)
(* (calculation.ts: calculateEmployeePayroll, isComponentAssignmentEffective; *)
(* money.ts).                                                              *)
THEOREM PayStaysComputed == ComponentSpec => []PayIsComputed
<1>1. ComponentInit => ActiveAreDefined
  <2>1. IsFiniteSet({})
    BY FS_EmptySet
  <2> QED BY <2>1 DEF ComponentInit, ActiveAreDefined
<1>2. ComponentInv => ComponentTypeOK
  BY DEF ComponentInv
<1>3. ComponentTypeOK /\ ActiveAreDefined => PayIsComputed
  BY WindowsDecide, LinesFit DEF PayIsComputed
<1> QED BY <1>1, <1>2, <1>3, DefinedStep, ComponentInductive, PTL DEF ComponentSpec
=============================================================================
