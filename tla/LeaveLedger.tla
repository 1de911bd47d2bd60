----------------------------- MODULE LeaveLedger -----------------------------
(***************************************************************************)
(* What leave management promises, without counters, locks or             *)
(* transactions: requests are submitted within what is granted, and        *)
(* decided once.  LeaveRequests implements it.                             *)
(***************************************************************************)
EXTENDS Integers, Functions

CONSTANTS Employees, LeaveTypes, ActiveTypes, DefaultAllowance, Days, Years, YearOf,
          Grants, Adjustments, Requests, NoAllowance, NoForm

VARIABLES status, form,
          granted   \* account -> days granted, or NoAllowance

ledgerVars == <<status, form, granted>>

Form == [employee: Employees, type: LeaveTypes, first: Days, last: Days]
Accounts == Employees \X LeaveTypes \X Years
AccountOf(f) == <<f.employee, f.type, YearOf[f.first]>>
DaysOf(f) == f.last - f.first + 1

\* The days of the live requests charged to the account.
LiveRequests(a) ==
    {r \in Requests : status[r] \in {"pending", "approved"} /\ AccountOf(form[r]) = a}

Committed(a) ==
    SumFunctionOnSet([r \in LiveRequests(a) |-> DaysOf(form[r])], LiveRequests(a))

Init ==
    /\ status = [r \in Requests |-> "none"]
    /\ form = [r \in Requests |-> NoForm]
    /\ granted \in [Accounts -> {NoAllowance} \cup {g + d : g \in Grants, d \in Adjustments}]

\* The first request of an account opens it with the default allowance.
Submit(r, f) ==
    LET a == AccountOf(f)
        grant == IF granted[a] = NoAllowance THEN DefaultAllowance[f.type] ELSE granted[a]
    IN  /\ status[r] = "none"
        /\ f.type \in ActiveTypes
        /\ f.first <= f.last
        /\ grant # NoAllowance
        /\ Committed(a) + DaysOf(f) <= grant
        /\ granted' = [granted EXCEPT ![a] = grant]
        /\ status' = [status EXCEPT ![r] = "pending"]
        /\ form' = [form EXCEPT ![r] = f]

Decide(r, decision) ==
    /\ status[r] = "pending"
    /\ status' = [status EXCEPT ![r] = decision]
    /\ UNCHANGED <<form, granted>>

Next ==
    \E r \in Requests :
        \/ \E f \in Form : Submit(r, f)
        \/ \E decision \in {"approved", "rejected", "cancelled"} : Decide(r, decision)

Spec == Init /\ [][Next]_ledgerVars
=============================================================================
