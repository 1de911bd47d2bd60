-------------------------- MODULE PayrollComponents --------------------------
(***************************************************************************)
(* Salary components of the organization, their assignment to employees    *)
(* and the calculation that resolves them (features/payroll/actions.ts,    *)
(* employee-payroll-component.*.ts, calculation.ts, money.ts).             *)
(*                                                                         *)
(* No action here locks a row.  Each reads, evaluates a guard and writes   *)
(* one row; between its reads and its write other calls run.  What is read *)
(* in parallel by one Promise.all is one step, because each of these reads *)
(* may be stale at the write in any case.  Only the partial unique index   *)
(* and a check constraint judge the row that is written.                   *)
(***************************************************************************)
EXTENDS Integers, FiniteSets, Functions

CONSTANTS
    Components,
    Holders,          \* the employees
    Grants,           \* rows of employee_payroll_components
    Calls,
    Definitions,      \* the definitions a component may be given
    OwnAmounts,          \* what an assignment may be given
    LastDay,          \* bound on the dates of assignments, 0..LastDay
    Whole,            \* 100 per cent
    NoDefinition, NoGrant, NoEnd, Idle

Days == 0..LastDay

Definition == [type: {"earning", "deduction"},
               method: {"fixed", "percentage", "manual"},
               default: Nat]

ASSUME ComponentConstants ==
    /\ LastDay \in Nat
    /\ Whole \in Nat \ {0}
    /\ OwnAmounts \subseteq Nat
    /\ Definitions \subseteq Definition
    /\ NoEnd \notin Days
    /\ NoDefinition \notin Definition

VARIABLES
    definition,  \* payroll_components: type, calculation_method, default_amount
    active,      \* payroll_components.active
    grant,       \* employee_payroll_components
    working,     \* employees whose employment_status is active
    call         \* running server actions, after their guard and before their write

componentVars == <<definition, active, grant, working, call>>

Grant == [employee: Holders, component: Components, amount: OwnAmounts,
          from: Days, to: Days \cup {NoEnd}, active: BOOLEAN]

ASSUME NoGrantAssumption == NoGrant \notin Grant

Pending == [op: {"create"}, row: Grant]
           \cup [op: {"update"}, grant: Grants, amount: OwnAmounts,
                 from: Days, to: Days \cup {NoEnd}]
           \cup [op: {"end"}, grant: Grants, to: Days]

ASSUME IdleAssumption == Idle \notin Pending

ComponentTypeOK ==
    /\ definition \in [Components -> Definitions \cup {NoDefinition}]
    /\ active \in SUBSET Components
    /\ grant \in [Grants -> Grant \cup {NoGrant}]
    /\ working \in SUBSET Holders
    /\ call \in [Calls -> Pending \cup {Idle}]

ComponentInit ==
    /\ definition = [k \in Components |-> NoDefinition]
    /\ active = {}
    /\ grant = [g \in Grants |-> NoGrant]
    /\ working = Holders
    /\ call = [c \in Calls |-> Idle]

Rows == {g \in Grants : grant[g] # NoGrant}
ActiveRows(e, k) ==
    {g \in Rows : grant[g].active /\ grant[g].employee = e /\ grant[g].component = k}

-----------------------------------------------------------------------------
(* Components of the organization                                          *)

\* payrollComponentSchema: a percentage is at most the whole.
ValidDefinition(d) == d.method = "percentage" => d.default <= Whole

CreateComponent(k, d) ==
    /\ definition[k] = NoDefinition
    /\ ValidDefinition(d)
    /\ definition' = [definition EXCEPT ![k] = d]
    /\ active' = active \cup {k}
    /\ UNCHANGED <<grant, working, call>>

\* Type and method may change while employees hold the component.
UpdateComponent(k, d) ==
    /\ definition[k] # NoDefinition
    /\ ValidDefinition(d)
    /\ definition' = [definition EXCEPT ![k] = d]
    /\ UNCHANGED <<active, grant, working, call>>

SetComponentActive(k, on) ==
    /\ definition[k] # NoDefinition
    /\ active' = IF on THEN active \cup {k} ELSE active \ {k}
    /\ UNCHANGED <<definition, grant, working, call>>

\* Deactivation and reactivation of an employee: one UPDATE of the screens of
\* module Employees.
SetWorking(e, on) ==
    /\ working' = IF on THEN working \cup {e} ELSE working \ {e}
    /\ UNCHANGED <<definition, active, grant, call>>

\* The management page: one form creates or edits, a button toggles what the page showed.
SubmitDefinition(k, d) == CreateComponent(k, d) \/ UpdateComponent(k, d)
Toggle(k, shownActive) == SetComponentActive(k, ~shownActive)

-----------------------------------------------------------------------------
(* Assignments: reads and guard, then the write                            *)

WithinMethod(k, amount) == definition[k].method = "percentage" => amount <= Whole
Ordered(from, to) == to # NoEnd => to > from

StartCreate(c, row) ==
    /\ call[c] = Idle
    /\ row.active
    /\ row.employee \in working
    /\ definition[row.component] # NoDefinition /\ row.component \in active
    /\ ActiveRows(row.employee, row.component) = {}
    /\ WithinMethod(row.component, row.amount)
    /\ Ordered(row.from, row.to)
    /\ call' = [call EXCEPT ![c] = [op |-> "create", row |-> row]]
    /\ UNCHANGED <<definition, active, grant, working>>

StartUpdate(c, g, amount, from, to) ==
    /\ call[c] = Idle
    /\ g \in Rows /\ grant[g].active
    /\ WithinMethod(grant[g].component, amount)
    /\ Ordered(from, to)
    /\ call' = [call EXCEPT ![c] =
          [op |-> "update", grant |-> g, amount |-> amount, from |-> from, to |-> to]]
    /\ UNCHANGED <<definition, active, grant, working>>

StartEnd(c, g, to) ==
    /\ call[c] = Idle
    /\ g \in Rows /\ grant[g].active
    /\ to > grant[g].from
    /\ call' = [call EXCEPT ![c] = [op |-> "end", grant |-> g, to |-> to]]
    /\ UNCHANGED <<definition, active, grant, working>>

Finish(c) == call' = [call EXCEPT ![c] = Idle] /\ UNCHANGED <<definition, active, working>>

\* MUTANT of InsertGrant: the guard's read is trusted, no unique index.
InsertUnchecked(c) ==
    /\ call[c] # Idle /\ call[c].op = "create"
    /\ \E g \in Grants \ Rows : grant' = [grant EXCEPT ![g] = call[c].row]
    /\ Finish(c)

InsertGrant(c) ==
    /\ call[c] # Idle /\ call[c].op = "create"
    /\ ActiveRows(call[c].row.employee, call[c].row.component) = {}
    /\ \E g \in Grants \ Rows : grant' = [grant EXCEPT ![g] = call[c].row]
    /\ Finish(c)

\* The partial unique index on (organization, employee, component) where active.
InsertRefused(c) ==
    /\ call[c] # Idle /\ call[c].op = "create"
    /\ ActiveRows(call[c].row.employee, call[c].row.component) # {}
    /\ Finish(c) /\ UNCHANGED grant

\* MUTANT of WriteUpdate: the whole row is written back as it was read, active.
WriteBack(c) ==
    /\ call[c] # Idle /\ call[c].op = "update"
    /\ LET w == call[c] IN
         grant' = [grant EXCEPT ![w.grant] = [@ EXCEPT !.amount = w.amount, !.from = w.from,
                                                       !.to = w.to, !.active = TRUE]]
    /\ Finish(c)

\* Amount and window are written by id, whether or not the row was ended meanwhile.
WriteUpdate(c) ==
    /\ call[c] # Idle /\ call[c].op = "update"
    /\ LET w == call[c] IN
         grant' = [grant EXCEPT ![w.grant] =
                      [@ EXCEPT !.amount = w.amount, !.from = w.from, !.to = w.to]]
    /\ Finish(c)

EndedRow(w) == [grant[w.grant] EXCEPT !.active = FALSE, !.to = w.to]

WriteEnd(c) ==
    /\ call[c] # Idle /\ call[c].op = "end"
    /\ call[c].to > grant[call[c].grant].from
    /\ grant' = [grant EXCEPT ![call[c].grant] = EndedRow(call[c])]
    /\ Finish(c)

\* The check constraint effective_to > effective_from, after an update in between.
EndRefused(c) ==
    /\ call[c] # Idle /\ call[c].op = "end"
    /\ call[c].to <= grant[call[c].grant].from
    /\ Finish(c) /\ UNCHANGED grant

-----------------------------------------------------------------------------
(* calculateEmployeePayroll                                                *)

\* MUTANT of Effective: the day a window ends still counts.
EffectiveThroughEnd(g, d) ==
    /\ grant[g].active
    /\ grant[g].from <= d
    /\ grant[g].to # NoEnd => d <= grant[g].to

Effective(g, d) ==
    /\ grant[g].active
    /\ grant[g].from <= d
    /\ grant[g].to # NoEnd => d < grant[g].to

EffectiveGrants(e, k, d) ==
    {g \in Rows : grant[g].employee = e /\ grant[g].component = k /\ Effective(g, d)}

\* The employee's own amount while an assignment is in force, else the fallback.
Resolved(e, k, d, fallback) ==
    LET own == EffectiveGrants(e, k, d) IN
    IF own = {} THEN fallback ELSE grant[CHOOSE g \in own : TRUE].amount

\* Math.round((base * percent) / 100), of naturals.
Percentage(base, percent) == (2 * base * percent + Whole) \div (2 * Whole)

ActiveComponents(method) == {k \in active : definition[k].method = method}
Earnings(S) == {k \in S : definition[k].type = "earning"}

FixedAmount(e, k, d) == Resolved(e, k, d, definition[k].default)

FixedEarnings(e, d) ==
    SumFunction([k \in Earnings(ActiveComponents("fixed")) |-> FixedAmount(e, k, d)])

\* The line of each active component: fixed first, percentages of the fixed earnings.
Lines(e, d) ==
    [k \in active |->
       CASE definition[k].method = "fixed" -> FixedAmount(e, k, d)
         [] definition[k].method = "percentage" ->
              Percentage(FixedEarnings(e, d), Resolved(e, k, d, definition[k].default))
         [] definition[k].method = "manual" -> Resolved(e, k, d, 0)]

\* What calculatePayrollAction stores as the item of an employee.
Item(e, d) ==
    LET lines == Lines(e, d)
        earned == SumFunctionOnSet(lines, Earnings(active))
        deducted == SumFunctionOnSet(lines, active \ Earnings(active))
    IN [gross |-> earned, deductions |-> deducted,
        net |-> IF earned >= deducted THEN earned - deducted ELSE 0]

-----------------------------------------------------------------------------
ComponentNext ==
    \/ \E k \in Components, d \in Definitions : SubmitDefinition(k, d)
    \/ \E k \in Components, shownActive \in BOOLEAN : Toggle(k, shownActive)
    \/ \E e \in Holders, on \in BOOLEAN : SetWorking(e, on)
    \/ \E c \in Calls, row \in Grant : StartCreate(c, row)
    \/ \E c \in Calls, g \in Grants, amount \in OwnAmounts, from \in Days,
          to \in Days \cup {NoEnd} : StartUpdate(c, g, amount, from, to)
    \/ \E c \in Calls, g \in Grants, to \in Days : StartEnd(c, g, to)
    \/ \E c \in Calls : InsertGrant(c) \/ InsertRefused(c) \/ WriteUpdate(c)
                        \/ WriteEnd(c) \/ EndRefused(c)

ComponentSpec == ComponentInit /\ [][ComponentNext]_componentVars

-----------------------------------------------------------------------------
(* Two submissions that both found no active assignment do not both insert. *)
OneActiveGrant ==
    \A e \in Holders, k \in Components : Cardinality(ActiveRows(e, k)) <= 1

(* A window ends after it begins, even when an update moved its beginning   *)
(* between an ending's check and its write.                                *)
WindowsAreOrdered == \A g \in Rows : Ordered(grant[g].from, grant[g].to)

(* "At most ONE active assignment per (organization, employee, component)", *)
(* so that the calculation never has two amounts to choose from, and        *)
(* "effective_to, when set, must be strictly after effective_from"          *)
(* (db/schema/payroll.ts), however creations, updates and endings race.     *)
GrantsWellFormed == ComponentTypeOK /\ OneActiveGrant /\ WindowsAreOrdered

(* "The historical row is preserved": an assignment is never removed, never *)
(* moves to another employee or component, and once ended it is never in    *)
(* force again, whatever update was under way when it was ended.            *)
EndedStaysEnded ==
    [][\A g \in Rows :
          /\ grant'[g] # NoGrant
          /\ grant'[g].employee = grant[g].employee
          /\ grant'[g].component = grant[g].component
          /\ ~grant[g].active => ~grant'[g].active]_componentVars

(* What an employee is paid changes from one day to the next only where an *)
(* active assignment begins or ends: the first day counts, the last does   *)
(* not (calculation.ts: isComponentAssignmentEffective).                   *)
PayFollowsWindows ==
    \A e \in Holders, d \in Days :
        Item(e, d) # Item(e, d + 1) =>
            \E g \in Rows : grant[g].active /\ d + 1 \in {grant[g].from, grant[g].to}

(* The lines of an item fit together: each percentage is, rounded to the   *)
(* nearest unit, that part of the fixed earnings shown on the same item,   *)
(* whoever of defaults and assignments provided the amounts; the net is    *)
(* their difference, and never negative.                                   *)
LinesAddUp ==
    \A e \in Holders, d \in Days :
        LET lines == Lines(e, d)
            item == Item(e, d)
            base == SumFunctionOnSet(lines, Earnings(ActiveComponents("fixed")))
        IN /\ \A k \in ActiveComponents("percentage") :
                 LET exact == base * Resolved(e, k, d, definition[k].default) IN
                 /\ 2 * Whole * lines[k] <= 2 * exact + Whole
                 /\ 2 * Whole * lines[k] > 2 * exact - Whole
           /\ item.net >= 0
           /\ item.deductions <= item.gross => item.net + item.deductions = item.gross

\* What the calculation makes of definitions and assignments.
PayIsComputed ==
    /\ PayFollowsWindows
    /\ LinesAddUp
=============================================================================

