--------------------------- MODULE AttendanceRecap ---------------------------
(***************************************************************************)
(* The attendance recap of one employee in a period, a report on what      *)
(* Attendance holds.  Its rules are implemented twice, and meant to be the *)
(* same: in one statement of SQL behind the page, the detail page and the  *)
(* export (features/attendance/recap.queries.ts), and as pure functions on *)
(* the facts of a day (features/attendance/recap.ts).                      *)
(*                                                                         *)
(* What other components contribute, the employee's dates and approved     *)
(* requests, is a parameter: a circumstance                                *)
(*   [hire, terminated, resigned : Day or None,                            *)
(*    leaves : a set of [from, to : Day, sick : BOOLEAN],                  *)
(*    permissions : a set of [from, to : Day]].                            *)
(* A day is the number LocalDate gives.                                    *)
(***************************************************************************)
EXTENDS AttendanceViews

CONSTANTS
    Circumstances,
    FirstIsoDay,  \* the ISO weekday of day 0
    Cutoff,       \* the last tick of a day that is not late
    TicksPerMinute,
    DaysPerMonth,
    MaxPeriod     \* RECAP_MAX_PERIOD_DAYS

ASSUME RecapConstants ==
    /\ FirstIsoDay \in 1..7 /\ Cutoff \in 0..TicksPerDay /\ TicksPerMinute \in Nat \ {0}
    /\ MaxPeriod \in Nat /\ DaysPerMonth \in 1..MaxPeriod
    /\ Circumstances \subseteq
          [hire : Nat \cup {None}, terminated : Nat \cup {None}, resigned : Nat \cup {None},
           leaves : SUBSET [from : Nat, to : Nat, sick : BOOLEAN],
           permissions : SUBSET [from : Nat, to : Nat]]
    /\ None \notin Nat /\ Keep \notin Nat

IsoDay(d) == ((FirstIsoDay - 1 + d) % 7) + 1
Covers(span, d) == span.from <= d /\ d <= span.to
Earliest(days) == IF days = {} THEN None ELSE CHOOSE d \in days : \A other \in days : d <= other
EmploymentEnd(c) == Earliest({c.terminated, c.resigned} \ {None})
RecordsOn(e, d) == {r \in Records : Taken(r) /\ record[r].employee = e /\ record[r].date = d}

-----------------------------------------------------------------------------
(* recap.queries.ts                                                        *)

\* An employment that does not overlap the period is no row at all.
Scoped(c, period) ==
    /\ c.hire # None => \E d \in period : c.hire <= d
    /\ EmploymentEnd(c) # None => \E d \in period : d <= EmploymentEnd(c)

Calendar(c, period) ==
    {d \in period : /\ Scoped(c, period)
                    /\ IsoDay(d) < 6
                    /\ c.hire # None => d >= c.hire
                    /\ EmploymentEnd(c) # None => d <= EmploymentEnd(c)}

LeavesOn(c, d) == {l \in c.leaves : Covers(l, d) /\ IsoDay(d) < 6}

(* The left join with the records: a day with two records would be two     *)
(* rows, and count twice.                                                  *)
DayFacts(e, c, period) ==
    {[day |-> joined[1], attendance |-> joined[2],
      has_leave |-> LeavesOn(c, joined[1]) # {},
      is_sick |-> \E l \in LeavesOn(c, joined[1]) : l.sick,
      has_permission |-> \E p \in c.permissions : Covers(p, joined[1])] :
        joined \in {pair \in Calendar(c, period) \X (Records \cup {None}) :
                       IF RecordsOn(e, pair[1]) = {} THEN pair[2] = None
                       ELSE pair[2] \in RecordsOn(e, pair[1])}}

\* MUTANT of Bucket: a permission hides the leave of the same day.
BucketPermissionFirst(fact) ==
    IF fact.attendance # None THEN "present"
    ELSE IF fact.has_permission THEN "permission"
    ELSE IF ~fact.has_leave THEN "absent"
    ELSE IF fact.is_sick THEN "sick" ELSE "leave"

Bucket(fact) ==
    IF fact.attendance # None THEN "present"
    ELSE IF fact.has_leave THEN IF fact.is_sick THEN "sick" ELSE "leave"
    ELSE IF fact.has_permission THEN "permission"
    ELSE "absent"

\* The site's time zone, or UTC when the record has lost its site.
LocalTime(r) ==
    LET zone == IF record[r].place = None THEN 0 ELSE site[record[r].place].zone
    IN  (record[r].since + zone) % TicksPerDay

IsLate(r) == LocalTime(r) > Cutoff

Aggregate(e, c, period) ==
    LET facts == DayFacts(e, c, period)
        In(bucket) == {row \in facts : Bucket(row) = bucket}
    IN  [working |-> Cardinality(facts),
         present |-> Cardinality(In("present")),
         late |-> Cardinality({row \in In("present") : IsLate(row.attendance)}),
         leave |-> Cardinality(In("leave")),
         sick |-> Cardinality(In("sick")),
         permission |-> Cardinality(In("permission")),
         absent |-> Cardinality(In("absent"))]

\* Attendance outside of the calendar, which only the detail page lists.
ExtraDays(e, c, period) ==
    {d \in period : RecordsOn(e, d) # {} /\ d \notin Calendar(c, period)}

Counters == {"working", "present", "late", "leave", "sick", "permission", "absent"}

(* The drill-down: three statements, for the days, the extra days and the  *)
(* same summary as in the table.                                           *)
EmployeeDetail(e, c, period) ==
    [days |-> [d \in Calendar(c, period) \cup ExtraDays(e, c, period) |->
                IF d \in Calendar(c, period)
                THEN {Bucket(fact) : fact \in {f \in DayFacts(e, c, period) : f.day = d}}
                ELSE {"extra"}],
     summary |-> Aggregate(e, c, period)]

-----------------------------------------------------------------------------
(* The period, from the parameters of the page's address.  A parameter is  *)
(* None, a day, or Keep, which here is a text that is no date.             *)

Span(from, to) == [from |-> from, to |-> to]
OrElse(value, default) == IF value = None THEN default ELSE value

recapFilterSchema(span) ==
    /\ span.from \in Nat /\ span.to \in Nat
    /\ span.from <= span.to /\ span.to - span.from <= MaxPeriod

\* The current month, in the time zone of some active site.
DefaultPeriod == Span(0, DaysPerMonth - 1)

\* A bound that is not given is the default's; a period that is none, too.
PagePeriod(params) ==
    LET asked == Span(OrElse(params.from, DefaultPeriod.from), OrElse(params.to, DefaultPeriod.to))
    IN  IF recapFilterSchema(asked) THEN asked ELSE DefaultPeriod

\* The export falls back to nothing: a bad request.
ExportPeriod(params) == IF recapFilterSchema(params) THEN params ELSE None

\* Of a link of the table to an employee: both or the default, unordered.
DetailPeriod(params) ==
    IF {params.from, params.to} \cap {None, Keep} = {} THEN params ELSE DefaultPeriod

-----------------------------------------------------------------------------
(* recap.ts                                                                *)

InEmploymentWindow(c, d) ==
    /\ c.hire # None => c.hire <= d
    /\ EmploymentEnd(c) # None => d <= EmploymentEnd(c)

classifyRecapDay(e, c, d) ==
    LET expected == IsoDay(d) \in 1..5 /\ InEmploymentWindow(c, d)
        covering == {l \in c.leaves : Covers(l, d)}
    IN  CASE ~expected /\ RecordsOn(e, d) # {} -> "extra"
          [] ~expected /\ RecordsOn(e, d) = {} -> "none"
          [] expected /\ RecordsOn(e, d) # {}  -> "present"
          [] OTHER ->
                IF covering # {} THEN IF \E l \in covering : l.sick THEN "sick" ELSE "leave"
                ELSE IF \E p \in c.permissions : Covers(p, d) THEN "permission" ELSE "absent"

summarizeRecapDays(e, c, period) ==
    LET In(bucket) == {d \in period : classifyRecapDay(e, c, d) = bucket}
        counted == {d \in period : classifyRecapDay(e, c, d) \notin {"extra", "none"}}
    IN  [working |-> Cardinality(counted),
         present |-> Cardinality(In("present")),
         leave |-> Cardinality(In("leave")),
         sick |-> Cardinality(In("sick")),
         permission |-> Cardinality(In("permission")),
         absent |-> Cardinality(In("absent")),
         weekendAttendance |-> Cardinality(In("extra"))]

\* The local time is taken in hours and minutes.
isLateCheckIn(r) == LocalTime(r) \div TicksPerMinute > Cutoff \div TicksPerMinute

listWorkingDays(c, period) == {d \in period : IsoDay(d) \in 1..5 /\ InEmploymentWindow(c, d)}

-----------------------------------------------------------------------------
(* "The SQL layer implements the SAME rules for aggregation ... so the two *)
(* cannot drift" (recap.ts): whatever was recorded, raced, closed or       *)
(* deleted before, the table's counters are those of the pure engine, the  *)
(* extra days of the detail page are its extra days, and each day of the   *)
(* detail page is shown once, under one of the counters.                   *)
RecapAgrees ==
    \A e \in Employees, c \in Circumstances :
        LET period == 0..DaysPerMonth - 1
            detail == EmployeeDetail(e, c, period)
            pure == summarizeRecapDays(e, c, period)
        IN  /\ \A counter \in Counters \ {"late"} : detail.summary[counter] = pure[counter]
            /\ Cardinality(ExtraDays(e, c, period)) = pure.weekendAttendance
            /\ detail.summary.working = Cardinality(listWorkingDays(c, period))
            /\ \A d \in DOMAIN detail.days : detail.days[d] = {classifyRecapDay(e, c, d)}

(* "The workbook always reflects the filters active on the recap page":    *)
(* whatever the page was asked for, its export link is accepted for the    *)
(* period the page shows, and so is the link to an employee.               *)
ExportFollowsPage ==
    \A from, to \in (0..DaysPerMonth + MaxPeriod) \cup {None, Keep} :
        LET shown == PagePeriod(Span(from, to))
        IN  ExportPeriod(shown) = shown /\ DetailPeriod(shown) = shown

\* The pages agree with what the actions accept and with each other, whatever
\* was recorded, raced or deleted before.
PagesAgree ==
    /\ ReadyIsEligible
    /\ OptionsAreEligible
    /\ RecapAgrees
    /\ ExportFollowsPage
=============================================================================

