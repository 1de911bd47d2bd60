--------------------------- MODULE AttendanceViews ---------------------------
(***************************************************************************)
(* What pages derive from the state of Attendance: the readiness diagnosis *)
(* of management (features/attendance/reconciliation.ts and its page), the *)
(* options, lists and details of features/attendance/queries.ts and the    *)
(* employee's attendance page.  All of them only read.  A page is          *)
(* evaluated on one state, though its queries run one after another.       *)
(***************************************************************************)
EXTENDS Attendance

-----------------------------------------------------------------------------
(* Readiness                                                               *)

SitesOf(p) == {l \in Sites : SiteExists(l) /\ site[l].project = p}
ActiveSitesOf(p) == {l \in SitesOf(p) : site[l].active}

\* Asked of active sites only.
missingActiveWorkLocationFields(l) ==
    IF site[l].active
    THEN {field \in {"projectId", "geofence"} :
            \/ field = "projectId" /\ site[l].project = None
            \/ field = "geofence" /\ ~site[l].complete}
    ELSE {}

isLocationUsable(l) == site[l].active /\ missingActiveWorkLocationFields(l) = {}

\* The link that is broken on the way from an assignment to a site.
Reason(p) ==
    IF project[p] # "active" THEN "project_inactive"
    ELSE IF \E l \in SitesOf(p) : isLocationUsable(l) THEN "ready"
    ELSE IF ActiveSitesOf(p) # {} THEN "work_location_incomplete"
    ELSE IF SitesOf(p) # {} THEN "work_location_inactive"
    ELSE "no_active_work_location"

\* Each of these lists is in the order of names; its first is as good as any.
ShownSite(p) ==
    CASE Reason(p) = "ready" -> CHOOSE l \in SitesOf(p) : isLocationUsable(l)
      [] Reason(p) = "work_location_incomplete" -> CHOOSE l \in ActiveSitesOf(p) : TRUE
      [] Reason(p) = "work_location_inactive" -> CHOOSE l \in SitesOf(p) : TRUE
      [] OTHER -> None

Row(e, p, l, reason) == [employee |-> e, project |-> p, place |-> l, reason |-> reason]

\* working: the employees whose employment status is active.
reconcileEmployeePaths(e, working) ==
    LET assignments == {p \in Projects : <<e, p>> \in assigned}
    IN  IF e \notin working THEN {Row(e, None, None, "employee_inactive")}
        ELSE IF assignments = {} THEN {Row(e, None, None, "no_active_assignment")}
        ELSE {Row(e, IF Reason(p) = "project_inactive" THEN None ELSE p, ShownSite(p), Reason(p)) :
                p \in assignments}

\* Active sites of active projects that no working employee is assigned to.
Conditions(working) ==
    {Row(None, place[1], place[2], "no_active_employee_assignment") :
        place \in {pair \in Projects \X Sites :
            /\ project[pair[1]] = "active"
            /\ pair[2] \in ActiveSitesOf(pair[1])
            /\ ~\E e \in working : <<e, pair[1]>> \in assigned}}

reconcileDataset(working) ==
    UNION {reconcileEmployeePaths(e, working) : e \in Employees} \cup Conditions(working)

StatusOf(reason) ==
    CASE reason = "ready" -> "READY"
      [] reason = "no_active_employee_assignment" -> "WARNING"
      [] OTHER -> "NOT_READY"

\* A row without a project or site matches no filter on them.
filterReconciliationRows(dataset, statuses, places) ==
    {row \in dataset : StatusOf(row.reason) \in statuses /\ row.place \in places}

summarizeReconciliation(dataset) ==
    LET With(status) == {row.employee : row \in {r \in dataset :
                            r.employee # None /\ StatusOf(r.reason) = status}}
    IN  [ready |-> With("READY") \ With("NOT_READY"),
         notReady |-> With("NOT_READY"),
         warnings |-> {r \in dataset : r.employee = None},
         projectsWithoutSite |-> {r.project : r \in {row \in dataset :
            /\ row.employee # None /\ row.project # None
            /\ StatusOf(row.reason) = "NOT_READY"}},
         sitesWithoutEmployee |-> {r.place : r \in {row \in dataset : row.employee = None}}]

-----------------------------------------------------------------------------
(* The employee's page                                                     *)

\* Assigned, active project, active site: completeness is not asked.
listEligibleAttendanceOptions(e) ==
    {pair \in Projects \X Sites :
        /\ <<e, pair[1]>> \in assigned
        /\ project[pair[1]] = "active"
        /\ pair[2] \in ActiveSitesOf(pair[1])}

\* The open record shown is the latest, the one check-out closes the oldest.
Latest(e) == {r \in Records :
    /\ Open(r) /\ record[r].employee = e
    /\ \A q \in Records : Open(q) /\ record[q].employee = e => record[q].since <= record[r].since}

\* The page asks for the date in UTC, the check-in uses the site's.
TodayRecord(e) == {r \in Records :
    Taken(r) /\ record[r].employee = e /\ record[r].date = LocalDate(0)}

AttendanceState(e, working) ==
    CASE e \notin working -> "UNAVAILABLE"
      [] e \in working /\ Latest(e) # {} -> "CHECKED_IN"
      [] e \in working /\ Latest(e) = {} /\ TodayRecord(e) # {} -> "CHECKED_OUT"
      [] OTHER -> "NOT_CHECKED_IN"

\* What the panel offers to submit, and with which options.
Offered(e, working) ==
    CASE AttendanceState(e, working) = "CHECKED_IN" -> {"check_out"}
      [] AttendanceState(e, working) = "NOT_CHECKED_IN" ->
            {<<"check_in", option>> : option \in listEligibleAttendanceOptions(e)}
      [] OTHER -> {}

isAttendanceSubmitEnabled(mode, hasLocation, hasOption, hasPhoto) ==
    hasLocation /\ (mode = "check_in" => hasOption /\ hasPhoto)

-----------------------------------------------------------------------------
(* "READY" means what checking in asks for: an employee's row is READY     *)
(* exactly when, with a free call, a check-in of theirs is let through.    *)
ReadyIsEligible ==
    \A e \in Employees, c \in Calls :
        call[c] = Idle /\ FreeConnection =>
            ((\E row \in reconcileEmployeePaths(e, Employees) : StatusOf(row.reason) = "READY")
                <=> \E l \in Sites : MayCheckIn(c, e, l))

(* Whatever the page lists as a place to check in can be checked in at:    *)
(* the list does not ask whether a site is complete, and need not.         *)
OptionsAreEligible ==
    \A e \in Employees, c \in Calls :
        call[c] = Idle /\ FreeConnection =>
            \A option \in listEligibleAttendanceOptions(e) : MayCheckIn(c, e, option[2])
=============================================================================

