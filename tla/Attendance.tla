------------------------------ MODULE Attendance ------------------------------
(***************************************************************************)
(* Attendance and what it is checked against: projects, employees'         *)
(* assignments to them and their work locations, here sites                *)
(* (features/attendance/actions.ts and assignments.actions.ts,             *)
(* features/work-locations/actions.ts, features/projects/actions.ts).      *)
(*                                                                         *)
(* None of these server actions locks a row: each reads, decides and       *)
(* writes, and other calls run in between.  What the database itself       *)
(* guards are unique indexes and foreign keys, and deleting a row cascades *)
(* to assignments and empties the references of records and sites.         *)
(*                                                                         *)
(* A call is one execution of a server action, one step per query.  A      *)
(* transaction keeps a connection of the pool until it ends.               *)
(***************************************************************************)
EXTENDS Integers, FiniteSets

CONSTANTS
    Employees, Projects, Sites, Records, Calls,
    Zones,         \* time zones, as the number of ticks they are ahead
    TicksPerDay,
    LastTick,      \* bound on the clock
    PoolSize,      \* connections of the pool
    None, Keep, Idle, Unborn, Gone

ASSUME AttendanceConstants ==
    /\ Zones \subseteq Nat
    /\ TicksPerDay \in Nat \ {0} /\ LastTick \in Nat /\ PoolSize \in Nat
    /\ None \notin Projects \cup Sites \cup Records
    /\ IsFiniteSet(Calls)

VARIABLES
    project,   \* projects.status, and whether the row exists
    site,      \* work_locations
    assigned,  \* the active rows of employee_project_assignments
    ended,     \* the ended ones
    record,    \* attendance_records
    now,
    call

vars == <<project, site, assigned, ended, record, now, call>>

Site == [project: Projects \cup {None}, active: BOOLEAN,
         complete: BOOLEAN,  \* has coordinates and a radius
         zone: Zones]
Attendance == [employee: Employees, date: Nat, since: Nat,
               project: Projects \cup {None}, place: Sites \cup {None},
               checkOuts: Nat]  \* check_out_success events; open while 0

ASSUME NullsAreNoRows ==
    None \notin Attendance /\ Unborn \notin Site /\ Gone \notin Site /\ Unborn # Gone

CheckIn == [at: {"eligible"}, who: Employees, project: Projects, place: Sites, zone: Zones]
    \cup [at: {"none_open", "day_free"}, who: Employees, project: Projects, place: Sites,
          date: Nat, since: Nat]
CheckOut == [at: {"found"}, record: Records, place: Sites \cup {None}]
    \cup [at: {"inside"}, record: Records]
Administration ==
    [at: {"may_assign"}, who: Employees, project: Projects]
    \cup [at: {"may_insert"}, site: Site]
    \cup [at: {"may_write"}, place: Sites, project: Projects \cup {Keep},
          active: BOOLEAN \cup {Keep}, completes: BOOLEAN, zone: Zones \cup {Keep}]
    \cup [at: {"site_unused"}, place: Sites]
    \cup [at: {"project_unused"}, project: Projects]

TypeOK ==
    /\ project \in [Projects -> {"unborn", "active", "inactive", "gone"}]
    /\ site \in [Sites -> Site \cup {Unborn, Gone}]
    /\ assigned \in SUBSET (Employees \X Projects)
    /\ ended \in SUBSET (Employees \X Projects)
    /\ record \in [Records -> Attendance \cup {None}]
    /\ now \in 0..LastTick
    /\ call \in [Calls -> CheckIn \cup CheckOut \cup Administration \cup {Idle}]

Init ==
    /\ project = [p \in Projects |-> "unborn"]
    /\ site = [l \in Sites |-> Unborn]
    /\ assigned = {} /\ ended = {}
    /\ record = [r \in Records |-> None]
    /\ now = 0
    /\ call = [c \in Calls |-> Idle]

rows == <<project, site, assigned, ended, record>>

ProjectExists(p) == project[p] \in {"active", "inactive"}
SiteExists(l) == site[l] \notin {Unborn, Gone}
Taken(r) == record[r] # None
Open(r) == Taken(r) /\ record[r].checkOuts = 0
HasOpen(e) == \E r \in Records : Open(r) /\ record[r].employee = e
HasDay(e, d) == \E r \in Records : Taken(r) /\ record[r].employee = e /\ record[r].date = d

\* dateStringInTimeZone: at one moment zones may have different dates.
LocalDate(zone) == (now + zone) \div TicksPerDay

InTransaction(c) == call[c] # Idle /\ call[c].at \in {"none_open", "day_free", "found", "inside"}
FreeConnection == Cardinality({c \in Calls : InTransaction(c)}) < PoolSize

Goes(c, k) == call' = [call EXCEPT ![c] = k]
Ends(c) == Goes(c, Idle)
Reads(c, k) == Goes(c, k) /\ UNCHANGED <<rows, now>>

-----------------------------------------------------------------------------
(* checkInAction                                                           *)

\* Active assignment, active project, active site of it.
Eligible(e, l) ==
    /\ SiteExists(l) /\ site[l].active
    /\ site[l].project # None
    /\ project[site[l].project] = "active"
    /\ <<e, site[l].project>> \in assigned

(* And a position inside the geofence, which has to be complete; anything  *)
(* else is a rejection that leaves an event.                               *)
MayCheckIn(c, e, l) ==
    /\ call[c] = Idle /\ FreeConnection
    /\ Eligible(e, l) /\ site[l].complete

FindEligible(c, e, l) ==
    /\ MayCheckIn(c, e, l)
    /\ Reads(c, [at |-> "eligible", who |-> e, project |-> site[l].project,
                 place |-> l, zone |-> site[l].zone])

\* The time is taken, the transaction begins and looks for an open record.
FindNoneOpen(c) ==
    /\ call[c] # Idle /\ call[c].at = "eligible" /\ FreeConnection
    /\ IF HasOpen(call[c].who)
       THEN Reads(c, Idle)
       ELSE Reads(c, [at |-> "none_open", who |-> call[c].who, project |-> call[c].project,
                      place |-> call[c].place, date |-> LocalDate(call[c].zone), since |-> now])

FindDayFree(c) ==
    /\ call[c] # Idle /\ call[c].at = "none_open"
    /\ IF HasDay(call[c].who, call[c].date)
       THEN Reads(c, Idle)
       ELSE Reads(c, [call[c] EXCEPT !.at = "day_free"])

NewRecord(k) == [employee |-> k.who, date |-> k.date, since |-> k.since,
                 project |-> k.project, place |-> k.place, checkOuts |-> 0]

Record(c, r) ==
    /\ record' = [record EXCEPT ![r] = NewRecord(call[c])]
    /\ Ends(c)
    /\ UNCHANGED <<project, site, assigned, ended, now>>

\* The unique index on employee and date, and the foreign keys.
InsertFails(c) ==
    \/ HasDay(call[c].who, call[c].date)
    \/ ~ProjectExists(call[c].project)
    \/ ~SiteExists(call[c].place)

InsertRecord(c, r) ==
    /\ call[c] # Idle /\ call[c].at = "day_free"
    /\ record[r] = None
    /\ ~InsertFails(c)
    /\ Record(c, r)

InsertRollsBack(c) ==
    /\ call[c] # Idle /\ call[c].at = "day_free"
    /\ InsertFails(c) \/ \A r \in Records : Taken(r)  \* the bound on records
    /\ Reads(c, Idle)

-----------------------------------------------------------------------------
(* checkOutAction                                                          *)

Oldest(e) == {r \in Records :
    /\ Open(r) /\ record[r].employee = e
    /\ \A q \in Records : Open(q) /\ record[q].employee = e => record[q].since >= record[r].since}

\* In a transaction, but without locking the record.
FindOpenRecord(c, e) ==
    /\ call[c] = Idle /\ FreeConnection
    /\ \E r \in Oldest(e) :
          Reads(c, [at |-> "found", record |-> r, place |-> record[r].place])

(* getWorkLocationInOrganization runs on the pool, not on the transaction: *)
(* a second connection.  The site need not be active, only usable; the     *)
(* position may be outside of it.                                          *)
LocateCheckOut(c) ==
    /\ call[c] # Idle /\ call[c].at = "found" /\ call[c].place # None /\ FreeConnection
    /\ \/ Reads(c, Idle)
       \/ /\ SiteExists(call[c].place)
          /\ site[call[c].place].complete
          /\ Reads(c, [at |-> "inside", record |-> call[c].record])

\* A record that lost its site can be closed by no check-out.
RefuseCheckOut(c) ==
    /\ call[c] # Idle /\ call[c].at = "found" /\ call[c].place = None
    /\ Reads(c, Idle)

\* MUTANT of CloseRecord: the check-out rewrites the record as of today.
CloseAsNew(c) ==
    /\ call[c] # Idle /\ call[c].at = "inside"
    /\ record' = [record EXCEPT ![call[c].record].checkOuts = @ + 1,
                                ![call[c].record].since = now]
    /\ Ends(c)
    /\ UNCHANGED <<project, site, assigned, ended, now>>

\* UPDATE by id, whatever the record has become in the meantime.
CloseRecord(c) ==
    /\ call[c] # Idle /\ call[c].at = "inside"
    /\ record' = [record EXCEPT ![call[c].record].checkOuts = @ + 1]
    /\ Ends(c)
    /\ UNCHANGED <<project, site, assigned, ended, now>>

-----------------------------------------------------------------------------
(* Assignments                                                             *)

MayAssign(c, e, p) ==
    /\ call[c] = Idle /\ FreeConnection
    /\ project[p] = "active"
    /\ <<e, p>> \notin assigned
    /\ Reads(c, [at |-> "may_assign", who |-> e, project |-> p])

\* The partial unique index and the foreign key have the last word.
InsertAssignment(c) ==
    /\ call[c] # Idle /\ call[c].at = "may_assign" /\ FreeConnection
    /\ assigned' = IF ProjectExists(call[c].project)
                   THEN assigned \cup {<<call[c].who, call[c].project>>}
                   ELSE assigned
    /\ Ends(c)
    /\ UNCHANGED <<project, site, ended, record, now>>

\* Read and update concern one row and the update is idempotent: one step.
EndAssignment(e, p) ==
    /\ FreeConnection
    /\ <<e, p>> \in assigned
    /\ assigned' = assigned \ {<<e, p>>}
    /\ ended' = ended \cup {<<e, p>>}
    /\ UNCHANGED <<project, site, record, now, call>>

-----------------------------------------------------------------------------
(* Work locations                                                          *)

\* A new site is active unless asked otherwise, and then complete.
MayInsertSite(c, s) ==
    /\ call[c] = Idle /\ FreeConnection
    /\ s.project # None /\ project[s.project] = "active"
    /\ s.active => s.complete
    /\ Reads(c, [at |-> "may_insert", site |-> s])

InsertSite(c, l) ==
    /\ call[c] # Idle /\ call[c].at = "may_insert" /\ FreeConnection
    /\ site[l] = Unborn
    /\ ProjectExists(call[c].site.project)
    /\ site' = [site EXCEPT ![l] = call[c].site]
    /\ Ends(c)
    /\ UNCHANGED <<project, assigned, ended, record, now>>

\* MUTANT of InsertSiteFails: the refusal of a foreign key is not answered.
InsertSiteHangs(c) ==
    /\ call[c] # Idle /\ call[c].at = "may_insert" /\ FreeConnection
    /\ ProjectExists(call[c].site.project) /\ \A l \in Sites : site[l] # Unborn
    /\ Reads(c, Idle)

InsertSiteFails(c) ==
    /\ call[c] # Idle /\ call[c].at = "may_insert" /\ FreeConnection
    /\ ~ProjectExists(call[c].site.project) \/ \A l \in Sites : site[l] # Unborn  \* ids used up
    /\ Reads(c, Idle)

(* The update keeps what is not submitted; the project may stay although   *)
(* inactive, and what results must be complete to be active.               *)
MayUpdateSite(c, l, p, active, completes, zone) ==
    /\ call[c] = Idle /\ FreeConnection
    /\ SiteExists(l)
    /\ ProjectExists(p) /\ (project[p] = "active" \/ site[l].project = p)
    /\ active = TRUE => completes  \* the schema wants the fields with the status
    /\ (active = Keep /\ site[l].active) => (completes \/ site[l].complete)
    /\ Reads(c, [at |-> "may_write", place |-> l, project |-> p, active |-> active,
                 completes |-> completes, zone |-> zone])

\* Only a complete site that has a project is activated.
MayToggleSite(c, l) ==
    /\ call[c] = Idle /\ FreeConnection
    /\ SiteExists(l)
    /\ site[l].active \/ (site[l].complete /\ site[l].project # None)
    /\ Reads(c, [at |-> "may_write", place |-> l, project |-> Keep, active |-> ~site[l].active,
                 completes |-> FALSE, zone |-> Keep])

Chosen(new, old) == IF new = Keep THEN old ELSE new

\* Only the submitted columns are written, each over what is there now.
WriteSite(c) ==
    LET k == call[c]
    IN  /\ k # Idle /\ k.at = "may_write" /\ FreeConnection
        /\ IF SiteExists(k.place) /\ (k.project = Keep \/ ProjectExists(k.project))
           THEN site' = [site EXCEPT ![k.place] =
                    [project |-> Chosen(k.project, @.project),
                     active |-> Chosen(k.active, @.active),
                     complete |-> @.complete \/ k.completes,
                     zone |-> Chosen(k.zone, @.zone)]]
           ELSE UNCHANGED site
        /\ Ends(c)
        /\ UNCHANGED <<project, assigned, ended, record, now>>

SiteInUse(l) ==
    \/ \E r \in Records : Taken(r) /\ record[r].place = l
    \/ \E e \in Employees : <<e, site[l].project>> \in assigned

FindSiteUnused(c, l) ==
    /\ call[c] = Idle /\ FreeConnection
    /\ SiteExists(l) /\ ~SiteInUse(l)
    /\ Reads(c, [at |-> "site_unused", place |-> l])

\* The records' reference to the site is ON DELETE SET NULL.
DeleteSite(c) ==
    /\ call[c] # Idle /\ call[c].at = "site_unused" /\ FreeConnection
    /\ site' = [site EXCEPT ![call[c].place] = Gone]
    /\ record' = [r \in Records |->
          IF Taken(r) /\ record[r].place = call[c].place
          THEN [record[r] EXCEPT !.place = None] ELSE record[r]]
    /\ Ends(c)
    /\ UNCHANGED <<project, assigned, ended, now>>

-----------------------------------------------------------------------------
(* Projects; a completed project is like an inactive one to every guard    *)

CreateProject(p, status) ==
    /\ FreeConnection
    /\ project[p] = "unborn"
    /\ project' = [project EXCEPT ![p] = status]
    /\ UNCHANGED <<site, assigned, ended, record, now, call>>

SetProjectStatus(p, status) ==
    /\ FreeConnection
    /\ ProjectExists(p)
    /\ project' = [project EXCEPT ![p] = status]
    /\ UNCHANGED <<site, assigned, ended, record, now, call>>

ProjectInUse(p) ==
    \/ \E e \in Employees : <<e, p>> \in assigned \cup ended
    \/ \E r \in Records : Taken(r) /\ record[r].project = p
    \/ \E l \in Sites : SiteExists(l) /\ site[l].project = p

FindProjectUnused(c, p) ==
    /\ call[c] = Idle /\ FreeConnection
    /\ ProjectExists(p) /\ ~ProjectInUse(p)
    /\ Reads(c, [at |-> "project_unused", project |-> p])

\* MUTANT of SitesWithout: no foreign key empties the reference.
SitesKept(p) == site
SitesWithout(p) == [l \in Sites |->
    IF SiteExists(l) /\ site[l].project = p THEN [site[l] EXCEPT !.project = None] ELSE site[l]]
RecordsWithout(p) == [r \in Records |->
    IF Taken(r) /\ record[r].project = p THEN [record[r] EXCEPT !.project = None] ELSE record[r]]

\* Cascades to assignments and empties the reference of sites and records.
DeleteProject(c) ==
    LET p == call[c].project
    IN  /\ call[c] # Idle /\ call[c].at = "project_unused" /\ FreeConnection
        /\ project' = [project EXCEPT ![p] = "gone"]
        /\ assigned' = {a \in assigned : a[2] # p}
        /\ ended' = {a \in ended : a[2] # p}
        /\ site' = SitesWithout(p)
        /\ record' = RecordsWithout(p)
        /\ Ends(c)
        /\ UNCHANGED now

-----------------------------------------------------------------------------
Tick == now < LastTick /\ now' = now + 1 /\ UNCHANGED <<rows, call>>

\* A failure, also of the connection, rolls a transaction back.
Fail(c) == call[c] # Idle /\ Reads(c, Idle)

CheckingIn(c) ==
    \/ FindNoneOpen(c) \/ FindDayFree(c) \/ InsertRollsBack(c)
    \/ \E r \in Records : InsertRecord(c, r)
CheckingOut(c) == LocateCheckOut(c) \/ RefuseCheckOut(c) \/ CloseRecord(c)
Administering(c) ==
    \/ InsertAssignment(c) \/ WriteSite(c) \/ DeleteSite(c) \/ DeleteProject(c)
    \/ InsertSiteFails(c) \/ \E l \in Sites : InsertSite(c, l)

Advance(c) == CheckingIn(c) \/ CheckingOut(c) \/ Administering(c)

EmployeeAsks(c) ==
    \E e \in Employees :
        \/ FindOpenRecord(c, e)
        \/ \E l \in Sites : FindEligible(c, e, l)

ManagementAsks(c) ==
    \/ \E e \in Employees, p \in Projects : MayAssign(c, e, p)
    \/ \E s \in Site : MayInsertSite(c, s)
    \/ \E l \in Sites :
          \/ MayToggleSite(c, l) \/ FindSiteUnused(c, l)
          \/ \E p \in Projects, active \in BOOLEAN \cup {Keep}, completes \in BOOLEAN,
                zone \in Zones : MayUpdateSite(c, l, p, active, completes, zone)
    \/ \E p \in Projects : FindProjectUnused(c, p)

AtOnce ==
    \/ \E e \in Employees, p \in Projects : EndAssignment(e, p)
    \/ \E p \in Projects, status \in {"active", "inactive"} :
          CreateProject(p, status) \/ SetProjectStatus(p, status)

Next ==
    \/ \E c \in Calls : EmployeeAsks(c) \/ ManagementAsks(c) \/ Advance(c) \/ Fail(c)
    \/ AtOnce \/ Tick

Spec == Init /\ [][Next]_vars

\* The pool serves its waiters in turn; nobody has to ask or to fail.
FairSpec == Spec /\ \A c \in Calls : SF_vars(Advance(c))

-----------------------------------------------------------------------------
(* "Unique (employee, date) index is the final guard" (docs/attendance.md): *)
(* one record per employee and day, whatever check-ins raced.              *)
OneRecordPerDay ==
    \A q, r \in Records :
        q # r /\ Taken(q) /\ Taken(r) /\ record[q].employee = record[r].employee
            => record[q].date # record[r].date

(* "Prevent activating an incomplete location" (toggle), "must stay        *)
(* complete whenever the saved status is ACTIVE" (update): each decides on *)
(* a row it read earlier while others write it.                            *)
ActiveSitesAreComplete ==
    \A l \in Sites : SiteExists(l) /\ site[l].active => site[l].complete

(* A record keeps what was checked in: day, time and employee for good,    *)
(* project and place until the row referred to is deleted; check-outs add  *)
(* up.                                                                     *)
RecordsKeepTheirCheckIn ==
    [][\A r \in Records : Taken(r) =>
          /\ record'[r] # None
          /\ record'[r].employee = record[r].employee
          /\ record'[r].date = record[r].date
          /\ record'[r].since = record[r].since
          /\ record'[r].project \in {record[r].project, None}
          /\ record'[r].place \in {record[r].place, None}
          /\ record'[r].checkOuts >= record[r].checkOuts]_vars

(* Whatever is deleted between a call's reads and its write, no row is     *)
(* left that names a deleted project or site.                              *)
NoDanglingReference ==
    /\ \A l \in Sites : SiteExists(l) /\ site[l].project # None => ProjectExists(site[l].project)
    /\ \A a \in assigned \cup ended : ProjectExists(a[2])
    /\ \A r \in Records : Taken(r) =>
          /\ record[r].project # None => ProjectExists(record[r].project)
          /\ record[r].place # None => SiteExists(record[r].place)

(* Every call ends, if the pool has more connections than calls.           *)
CallsFinish == \A c \in Calls : call[c] # Idle ~> call[c] = Idle

\* Records, sites, projects and assignments agree, whatever check-ins, updates
\* and deletions raced (features/attendance/actions.ts, the settings actions).
AttendanceConsistent ==
    /\ TypeOK
    /\ OneRecordPerDay
    /\ ActiveSitesAreComplete
    /\ NoDanglingReference
=============================================================================

