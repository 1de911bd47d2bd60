-------------------------- MODULE AttendanceProofs --------------------------
(***************************************************************************)
(* Proofs about Attendance, for every number of employees, projects,       *)
(* sites, records and concurrent calls, any time zones and any pool, and   *)
(* about FaceTemplates, for every number of employees, users, tasks and    *)
(* verification attempts.                                                  *)
(*                                                                         *)
(* What the rows of faces promise rests on what a task remembers between   *)
(* its steps: a replacement was asked for before any row was read for it,  *)
(* and what it encrypted is encrypted with the primary key of the process  *)
(* it runs in.                                                             *)
(***************************************************************************)
EXTENDS AttendanceRecap, FaceTemplates, FiniteSetTheorems, SequenceTheorems, TLAPS

CallType == CheckIn \cup CheckOut \cup Administration \cup {Idle}

(* The record a check-out has found does not vanish: no code deletes one.  *)
FoundExist ==
    \A c \in Calls : call[c] # Idle /\ call[c].at \in {"found", "inside"}
                        => Taken(call[c].record)

(* A step that only reads changes no more than the call's own state.       *)
LEMMA OnlyReads ==
    ASSUME TypeOK, NEW c \in Calls, NEW k \in CallType, Reads(c, k)
    PROVE  TypeOK'
BY DEF Reads, Goes, rows, TypeOK, CallType

(* What the stage of a call says about what it has read.                   *)
LEMMA CallFields ==
    ASSUME TypeOK, NEW c \in Calls, call[c] # Idle
    PROVE  /\ call[c].at = "eligible" =>
                call[c] \in [at: {"eligible"}, who: Employees, project: Projects,
                             place: Sites, zone: Zones]
           /\ call[c].at \in {"none_open", "day_free"} =>
                call[c] \in [at: {"none_open", "day_free"}, who: Employees,
                             project: Projects, place: Sites, date: Nat, since: Nat]
           /\ call[c].at = "found" =>
                call[c] \in [at: {"found"}, record: Records, place: Sites \cup {None}]
           /\ call[c].at = "inside" => call[c] \in [at: {"inside"}, record: Records]
           /\ call[c].at = "may_assign" =>
                call[c] \in [at: {"may_assign"}, who: Employees, project: Projects]
           /\ call[c].at = "may_insert" => call[c] \in [at: {"may_insert"}, site: Site]
           /\ call[c].at = "may_write" =>
                call[c] \in [at: {"may_write"}, place: Sites, project: Projects \cup {Keep},
                             active: BOOLEAN \cup {Keep}, completes: BOOLEAN,
                             zone: Zones \cup {Keep}]
           /\ call[c].at = "site_unused" => call[c] \in [at: {"site_unused"}, place: Sites]
           /\ call[c].at = "project_unused" =>
                call[c] \in [at: {"project_unused"}, project: Projects]
<1>1. call[c] \in CheckIn \cup CheckOut \cup Administration
  BY DEF TypeOK
<1> QED BY <1>1 DEF CheckIn, CheckOut, Administration

(* A date in a zone is a day number.                                       *)
LEMMA DateType == ASSUME TypeOK, NEW z \in Zones PROVE LocalDate(z) \in Nat /\ now \in Nat
<1>1. now \in Nat /\ z \in Nat /\ TicksPerDay \in Nat \ {0}
  BY AttendanceConstants DEF TypeOK
<1> QED BY <1>1 DEF LocalDate

(* Every step of a check-in keeps the types.                               *)
LEMMA CheckInTypes ==
    ASSUME TypeOK, NEW c \in Calls,
           (\E e \in Employees, l \in Sites : FindEligible(c, e, l)) \/ CheckingIn(c)
    PROVE  TypeOK'
<1>1. ASSUME NEW e \in Employees, NEW l \in Sites, FindEligible(c, e, l) PROVE TypeOK'
  <2>1. site[l] \in Site /\ site[l].project \in Projects /\ site[l].zone \in Zones
    BY <1>1 DEF FindEligible, MayCheckIn, Eligible, SiteExists, TypeOK, Site
  <2>2. [at |-> "eligible", who |-> e, project |-> site[l].project,
         place |-> l, zone |-> site[l].zone] \in CallType
    BY <2>1 DEF CallType, CheckIn
  <2> QED BY <1>1, <2>2, OnlyReads DEF FindEligible
<1>2. ASSUME FindNoneOpen(c) PROVE TypeOK'
  <2>1. call[c] \in [at: {"eligible"}, who: Employees, project: Projects,
                     place: Sites, zone: Zones]
    BY <1>2, CallFields DEF FindNoneOpen
  <2>2. [at |-> "none_open", who |-> call[c].who, project |-> call[c].project,
         place |-> call[c].place, date |-> LocalDate(call[c].zone), since |-> now] \in CallType
    BY <2>1, DateType DEF CallType, CheckIn
  <2>3. Idle \in CallType
    BY DEF CallType
  <2> QED BY <1>2, <2>2, <2>3, OnlyReads DEF FindNoneOpen
<1>3. ASSUME FindDayFree(c) PROVE TypeOK'
  <2>1. call[c] \in [at: {"none_open", "day_free"}, who: Employees, project: Projects,
                     place: Sites, date: Nat, since: Nat]
    BY <1>3, CallFields DEF FindDayFree
  <2>2. [call[c] EXCEPT !.at = "day_free"] \in CallType
    BY <2>1 DEF CallType, CheckIn
  <2>3. Idle \in CallType
    BY DEF CallType
  <2> QED BY <1>3, <2>2, <2>3, OnlyReads DEF FindDayFree
<1>4. ASSUME NEW r \in Records, InsertRecord(c, r) PROVE TypeOK'
  <2>1. call[c] \in [at: {"none_open", "day_free"}, who: Employees, project: Projects,
                     place: Sites, date: Nat, since: Nat]
    BY <1>4, CallFields DEF InsertRecord
  <2>2. NewRecord(call[c]) \in Attendance
    BY <2>1 DEF NewRecord, Attendance
  <2> QED BY <1>4, <2>2 DEF InsertRecord, Record, Ends, Goes, TypeOK
<1>5. ASSUME InsertRollsBack(c) PROVE TypeOK'
  BY <1>5, OnlyReads DEF InsertRollsBack, CallType
<1> QED BY <1>1, <1>2, <1>3, <1>4, <1>5 DEF CheckingIn

(* Every step of a check-out keeps the types.                              *)
LEMMA CheckOutTypes ==
    ASSUME TypeOK, FoundExist, NEW c \in Calls,
           (\E e \in Employees : FindOpenRecord(c, e)) \/ CheckingOut(c)
    PROVE  TypeOK'
<1>1. ASSUME NEW e \in Employees, FindOpenRecord(c, e) PROVE TypeOK'
  <2>1. PICK r \in Oldest(e) :
          Reads(c, [at |-> "found", record |-> r, place |-> record[r].place])
    BY <1>1 DEF FindOpenRecord
  <2>2. r \in Records /\ record[r].place \in Sites \cup {None}
    BY <2>1 DEF Oldest, Open, Taken, TypeOK, Attendance
  <2>3. [at |-> "found", record |-> r, place |-> record[r].place] \in CallType
    BY <2>2 DEF CallType, CheckOut
  <2> QED BY <2>1, <2>3, OnlyReads
<1>2. ASSUME LocateCheckOut(c) PROVE TypeOK'
  <2>1. call[c].record \in Records
    BY <1>2, CallFields DEF LocateCheckOut
  <2>2. [at |-> "inside", record |-> call[c].record] \in CallType /\ Idle \in CallType
    BY <2>1 DEF CallType, CheckOut
  <2> QED BY <1>2, <2>2, OnlyReads DEF LocateCheckOut
<1>3. ASSUME RefuseCheckOut(c) PROVE TypeOK'
  BY <1>3, OnlyReads DEF RefuseCheckOut, CallType
<1>4. ASSUME CloseRecord(c) PROVE TypeOK'
  <2>1. call[c].record \in Records
    BY <1>4, CallFields DEF CloseRecord
  <2>2. record[call[c].record] \in Attendance
    BY <1>4, <2>1 DEF CloseRecord, FoundExist, Taken, TypeOK
  <2>3. [record[call[c].record] EXCEPT !.checkOuts = @ + 1] \in Attendance
    BY <2>2 DEF Attendance
  <2>4. record' = [record EXCEPT ![call[c].record] =
                      [record[call[c].record] EXCEPT !.checkOuts = @ + 1]]
    BY <1>4 DEF CloseRecord
  <2>5. record' \in [Records -> Attendance \cup {None}]
    BY <2>3, <2>4 DEF TypeOK
  <2> QED BY <1>4, <2>5 DEF CloseRecord, Ends, Goes, TypeOK
<1> QED BY <1>1, <1>2, <1>3, <1>4 DEF CheckingOut

(* What an update makes of the row it finds.                               *)
Merged(c, l) ==
    [project |-> Chosen(call[c].project, site[l].project),
     active |-> Chosen(call[c].active, site[l].active),
     complete |-> site[l].complete \/ call[c].completes,
     zone |-> Chosen(call[c].zone, site[l].zone)]

(* The row after an update is a site, and it keeps what made it complete.  *)
LEMMA MergedSite ==
    ASSUME TypeOK, NEW c \in Calls, call[c] # Idle, call[c].at = "may_write",
           NEW l \in Sites, SiteExists(l)
    PROVE  /\ Merged(c, l) \in Site
           /\ Merged(c, l).complete = (site[l].complete \/ call[c].completes)
           /\ Merged(c, l).active = Chosen(call[c].active, site[l].active)
<1>1. call[c] \in [at: {"may_write"}, place: Sites, project: Projects \cup {Keep},
                   active: BOOLEAN \cup {Keep}, completes: BOOLEAN, zone: Zones \cup {Keep}]
  BY CallFields
<1>2. site[l] \in Site
  BY DEF SiteExists, TypeOK
<1>3. /\ Merged(c, l).project \in Projects \cup {None} /\ Merged(c, l).zone \in Zones
      /\ Merged(c, l).active \in BOOLEAN
  BY <1>1, <1>2 DEF Merged, Chosen, Site
<1>4. Merged(c, l) \in Site
  BY <1>3 DEF Merged, Site
<1> QED BY <1>4 DEF Merged

(* Every step of an administrative action keeps the types.                 *)
LEMMA AdministrationTypes ==
    ASSUME TypeOK, NEW c \in Calls, ManagementAsks(c) \/ Administering(c)
    PROVE  TypeOK'
<1>1. ASSUME NEW e \in Employees, NEW p \in Projects, MayAssign(c, e, p) PROVE TypeOK'
  BY <1>1, OnlyReads DEF MayAssign, CallType, Administration
<1>2. ASSUME NEW s \in Site, MayInsertSite(c, s) PROVE TypeOK'
  BY <1>2, OnlyReads DEF MayInsertSite, CallType, Administration
<1>3. ASSUME NEW l \in Sites, MayToggleSite(c, l) PROVE TypeOK'
  <2>1. (~site[l].active) \in BOOLEAN
    OBVIOUS
  <2>2. [at |-> "may_write", place |-> l, project |-> Keep, active |-> ~site[l].active,
         completes |-> FALSE, zone |-> Keep] \in CallType
    BY <2>1 DEF CallType, Administration
  <2> QED BY <1>3, <2>2, OnlyReads DEF MayToggleSite
<1>4. ASSUME NEW l \in Sites, NEW p \in Projects, NEW active \in BOOLEAN \cup {Keep},
             NEW completes \in BOOLEAN, NEW zone \in Zones,
             MayUpdateSite(c, l, p, active, completes, zone)
      PROVE  TypeOK'
  <2>1. [at |-> "may_write", place |-> l, project |-> p, active |-> active,
         completes |-> completes, zone |-> zone] \in CallType
    BY DEF CallType, Administration
  <2> QED BY <1>4, <2>1, OnlyReads DEF MayUpdateSite
<1>5. ASSUME NEW l \in Sites, FindSiteUnused(c, l) PROVE TypeOK'
  BY <1>5, OnlyReads DEF FindSiteUnused, CallType, Administration
<1>6. ASSUME NEW p \in Projects, FindProjectUnused(c, p) PROVE TypeOK'
  BY <1>6, OnlyReads DEF FindProjectUnused, CallType, Administration
<1>7. ASSUME InsertAssignment(c) PROVE TypeOK'
  <2>1. call[c].who \in Employees /\ call[c].project \in Projects
    BY <1>7, CallFields DEF InsertAssignment
  <2> QED BY <1>7, <2>1 DEF InsertAssignment, Ends, Goes, TypeOK
<1>8. ASSUME NEW l \in Sites, InsertSite(c, l) PROVE TypeOK'
  <2>1. call[c].site \in Site
    BY <1>8, CallFields DEF InsertSite
  <2> QED BY <1>8, <2>1 DEF InsertSite, Ends, Goes, TypeOK
<1>9. ASSUME InsertSiteFails(c) PROVE TypeOK'
  BY <1>9, OnlyReads DEF InsertSiteFails, CallType
<1>10. ASSUME WriteSite(c) PROVE TypeOK'
  <2>1. call[c] \in [at: {"may_write"}, place: Sites, project: Projects \cup {Keep},
                     active: BOOLEAN \cup {Keep}, completes: BOOLEAN, zone: Zones \cup {Keep}]
    BY <1>10, CallFields DEF WriteSite
  <2> DEFINE l == call[c].place
  <2>2. CASE UNCHANGED site
    BY <1>10, <2>2 DEF WriteSite, Ends, Goes, TypeOK
  <2>3. CASE SiteExists(l) /\ site' = [site EXCEPT ![l] = Merged(c, l)]
    <3>1. site' \in [Sites -> Site \cup {Unborn, Gone}]
      BY <1>10, <2>1, <2>3, MergedSite DEF WriteSite, TypeOK
    <3> QED BY <1>10, <3>1 DEF WriteSite, Ends, Goes, TypeOK
  <2> QED BY <1>10, <2>2, <2>3 DEF WriteSite, Merged
<1>11. ASSUME DeleteSite(c) PROVE TypeOK'
  <2>1. ASSUME NEW r \in Records PROVE record'[r] \in Attendance \cup {None}
    <3>1. CASE record'[r] = record[r]
      BY <3>1 DEF TypeOK
    <3>2. CASE Taken(r) /\ record'[r] = [record[r] EXCEPT !.place = None]
      BY <3>2 DEF Taken, TypeOK, Attendance
    <3> QED BY <1>11, <3>1, <3>2 DEF DeleteSite
  <2>2. record' \in [Records -> Attendance \cup {None}]
    BY <1>11, <2>1 DEF DeleteSite
  <2> QED BY <1>11, <2>2 DEF DeleteSite, Ends, Goes, TypeOK
<1>12. ASSUME DeleteProject(c) PROVE TypeOK'
  <2> DEFINE p == call[c].project
  <2>1. ASSUME NEW r \in Records PROVE RecordsWithout(p)[r] \in Attendance \cup {None}
    <3>1. CASE RecordsWithout(p)[r] = record[r]
      BY <3>1 DEF TypeOK
    <3>2. CASE Taken(r) /\ RecordsWithout(p)[r] = [record[r] EXCEPT !.project = None]
      BY <3>2 DEF Taken, TypeOK, Attendance
    <3> QED BY <3>1, <3>2 DEF RecordsWithout
  <2>2. ASSUME NEW l \in Sites PROVE SitesWithout(p)[l] \in Site \cup {Unborn, Gone}
    <3>1. CASE SitesWithout(p)[l] = site[l]
      BY <3>1 DEF TypeOK
    <3>2. CASE SiteExists(l) /\ SitesWithout(p)[l] = [site[l] EXCEPT !.project = None]
      BY <3>2 DEF SiteExists, TypeOK, Site
    <3> QED BY <3>1, <3>2 DEF SitesWithout
  <2>3. /\ RecordsWithout(p) \in [Records -> Attendance \cup {None}]
        /\ SitesWithout(p) \in [Sites -> Site \cup {Unborn, Gone}]
    BY <2>1, <2>2 DEF RecordsWithout, SitesWithout
  <2> QED BY <1>12, <2>3 DEF DeleteProject, Ends, Goes, TypeOK
<1> QED
  BY <1>1, <1>2, <1>3, <1>4, <1>5, <1>6, <1>7, <1>8, <1>9, <1>10, <1>11, <1>12
     DEF ManagementAsks, Administering

(* Every step keeps the types.                                             *)
LEMMA TypeStep == TypeOK /\ FoundExist /\ [Next]_vars => TypeOK'
<1> SUFFICES ASSUME TypeOK, FoundExist, [Next]_vars PROVE TypeOK'
  OBVIOUS
<1>1. ASSUME NEW c \in Calls, EmployeeAsks(c) \/ ManagementAsks(c) \/ Advance(c)
      PROVE  TypeOK'
  BY <1>1, CheckInTypes, CheckOutTypes, AdministrationTypes DEF EmployeeAsks, Advance
<1>2. ASSUME NEW c \in Calls, Fail(c) PROVE TypeOK'
  BY <1>2, OnlyReads DEF Fail, CallType
<1>3. ASSUME NEW e \in Employees, NEW p \in Projects, EndAssignment(e, p) PROVE TypeOK'
  BY <1>3 DEF EndAssignment, TypeOK
<1>4. ASSUME NEW p \in Projects, NEW status \in {"active", "inactive"},
             CreateProject(p, status) \/ SetProjectStatus(p, status)
      PROVE  TypeOK'
  BY <1>4 DEF CreateProject, SetProjectStatus, TypeOK
<1>5. ASSUME Tick PROVE TypeOK'
  BY <1>5, AttendanceConstants DEF Tick, rows, TypeOK
<1>6. CASE UNCHANGED vars
  BY <1>6 DEF vars, TypeOK
<1> QED BY <1>1, <1>2, <1>3, <1>4, <1>5, <1>6 DEF Next, AtOnce

-----------------------------------------------------------------------------
(* Records                                                                 *)

(* The steps that write a table; all others only read.                     *)
Writes ==
    \/ \E c \in Calls, r \in Records : InsertRecord(c, r)
    \/ \E c \in Calls, l \in Sites : InsertSite(c, l)
    \/ \E c \in Calls : CloseRecord(c) \/ InsertAssignment(c) \/ WriteSite(c)
                        \/ DeleteSite(c) \/ DeleteProject(c)
    \/ AtOnce

(* Whatever is not one of these leaves every row as it is.                 *)
LEMMA RowWriters == [Next]_vars => UNCHANGED rows \/ Writes
<1> DEFINE Written == UNCHANGED rows \/ Writes
<1> SUFFICES ASSUME [Next]_vars PROVE Written
  OBVIOUS
<1>1. ASSUME NEW c \in Calls, EmployeeAsks(c) PROVE Written
  BY <1>1 DEF EmployeeAsks, FindOpenRecord, FindEligible, Reads
<1>2. ASSUME NEW c \in Calls, ManagementAsks(c) PROVE Written
  BY <1>2 DEF ManagementAsks, MayAssign, MayInsertSite, MayToggleSite, FindSiteUnused,
              MayUpdateSite, FindProjectUnused, Reads
<1>3. ASSUME NEW c \in Calls, CheckingIn(c) PROVE Written
  BY <1>3 DEF CheckingIn, FindNoneOpen, FindDayFree, InsertRollsBack, Reads, Writes
<1>4. ASSUME NEW c \in Calls, CheckingOut(c) PROVE Written
  BY <1>4 DEF CheckingOut, LocateCheckOut, RefuseCheckOut, Reads, Writes
<1>5. ASSUME NEW c \in Calls, Administering(c) PROVE Written
  BY <1>5 DEF Administering, InsertSiteFails, Reads, Writes
<1>6. ASSUME NEW c \in Calls, Fail(c) PROVE Written
  BY <1>6 DEF Fail, Reads
<1>7. CASE AtOnce \/ Tick \/ UNCHANGED vars
  BY <1>7 DEF Writes, Tick, vars, rows
<1> HIDE DEF Written
<1> QED BY <1>1, <1>2, <1>3, <1>4, <1>5, <1>6, <1>7 DEF Next, Advance

(* The four steps that write attendance_records.                           *)
LEMMA RecordWriters ==
    ASSUME [Next]_vars
    PROVE  \/ UNCHANGED record
           \/ \E c \in Calls, r \in Records : InsertRecord(c, r)
           \/ \E c \in Calls : CloseRecord(c) \/ DeleteSite(c) \/ DeleteProject(c)
BY RowWriters DEF Writes, rows, InsertSite, InsertAssignment, WriteSite, AtOnce, EndAssignment,
                  CreateProject, SetProjectStatus

(* The four steps that write work_locations.                               *)
LEMMA SiteWriters ==
    ASSUME [Next]_vars
    PROVE  \/ UNCHANGED site
           \/ \E c \in Calls, l \in Sites : InsertSite(c, l)
           \/ \E c \in Calls : WriteSite(c) \/ DeleteSite(c) \/ DeleteProject(c)
BY RowWriters DEF Writes, rows, InsertRecord, Record, CloseRecord, InsertAssignment, AtOnce,
                  EndAssignment, CreateProject, SetProjectStatus

(* What any step leaves of a record.                                       *)
LEMMA RecordKept ==
    ASSUME TypeOK, FoundExist, [Next]_vars, NEW r \in Records, Taken(r)
    PROVE  /\ record'[r] \in Attendance
           /\ record'[r].employee = record[r].employee
           /\ record'[r].date = record[r].date
           /\ record'[r].since = record[r].since
           /\ record'[r].project \in {record[r].project, None}
           /\ record'[r].place \in {record[r].place, None}
           /\ record'[r].checkOuts >= record[r].checkOuts
<1> DEFINE Kept(new) ==
      /\ new \in Attendance
      /\ new.employee = record[r].employee
      /\ new.date = record[r].date
      /\ new.since = record[r].since
      /\ new.project \in {record[r].project, None}
      /\ new.place \in {record[r].place, None}
      /\ new.checkOuts >= record[r].checkOuts
<1>0. record[r] \in Attendance
  BY DEF TypeOK, Taken
<1>1. Kept(record[r])
  BY <1>0 DEF Attendance
<1>2. Kept([record[r] EXCEPT !.place = None])
  BY <1>0 DEF Attendance
<1>3. Kept([record[r] EXCEPT !.project = None])
  BY <1>0 DEF Attendance
<1>4. Kept([record[r] EXCEPT !.checkOuts = @ + 1])
  BY <1>0 DEF Attendance
<1>5. \/ record'[r] = record[r]
      \/ record'[r] = [record[r] EXCEPT !.place = None]
      \/ record'[r] = [record[r] EXCEPT !.project = None]
      \/ record'[r] = [record[r] EXCEPT !.checkOuts = @ + 1]
  <2>1. ASSUME NEW c \in Calls, NEW q \in Records, InsertRecord(c, q)
        PROVE  record'[r] = record[r]
    BY <2>1 DEF InsertRecord, Record, Taken, TypeOK
  <2>2. ASSUME NEW c \in Calls, CloseRecord(c)
        PROVE  \/ record'[r] = record[r]
               \/ record'[r] = [record[r] EXCEPT !.checkOuts = @ + 1]
    <3>1. record' = [record EXCEPT ![call[c].record] =
                        [record[call[c].record] EXCEPT !.checkOuts = @ + 1]]
      BY <2>2 DEF CloseRecord
    <3> QED BY <3>1 DEF TypeOK
  <2>3. ASSUME NEW c \in Calls, DeleteSite(c)
        PROVE  record'[r] = record[r] \/ record'[r] = [record[r] EXCEPT !.place = None]
    BY <2>3 DEF DeleteSite
  <2>4. ASSUME NEW c \in Calls, DeleteProject(c)
        PROVE  record'[r] = record[r] \/ record'[r] = [record[r] EXCEPT !.project = None]
    BY <2>4 DEF DeleteProject, RecordsWithout
  <2> QED BY <2>1, <2>2, <2>3, <2>4, RecordWriters
<1>6. Kept(record'[r])
  <2> HIDE DEF Kept
  <2> QED BY <1>1, <1>2, <1>3, <1>4, <1>5
<1> QED BY <1>6

(* No record vanishes, so a found one is there when it is closed.          *)
LEMMA FoundStep == TypeOK /\ FoundExist /\ [Next]_vars => FoundExist'
<1> SUFFICES ASSUME TypeOK, FoundExist, [Next]_vars PROVE FoundExist'
  OBVIOUS
<1> DEFINE Safe(k) == k # Idle /\ k.at \in {"found", "inside"}
                        => k.record \in Records /\ Taken(k.record)
<1>1. \A d \in Calls : Safe(call[d])
  BY CallFields DEF FoundExist
<1>2. \A r \in Records : Taken(r) => Taken(r)'
  BY RecordKept, NullsAreNoRows DEF Taken
<1>3. CASE UNCHANGED call
  BY <1>1, <1>2, <1>3 DEF FoundExist
<1>4. ASSUME NEW c \in Calls, NEW k, Goes(c, k), Safe(k) PROVE FoundExist'
  <2>1. \A d \in Calls : call'[d] = IF d = c THEN k ELSE call[d]
    BY <1>4 DEF Goes, TypeOK
  <2>2. \A d \in Calls : Safe(call'[d])
    BY <1>1, <1>4, <2>1
  <2> QED BY <1>2, <2>2 DEF FoundExist
<1>5. Safe(Idle)
  OBVIOUS
<1>6. ASSUME NEW c \in Calls, Ends(c) \/ Fail(c) PROVE FoundExist'
  BY <1>4, <1>5, <1>6 DEF Ends, Fail, Reads
<1>7. ASSUME NEW c \in Calls, EmployeeAsks(c) PROVE FoundExist'
  <2>1. ASSUME NEW e \in Employees, FindOpenRecord(c, e) PROVE FoundExist'
    <3>1. PICK r \in Oldest(e) :
            Reads(c, [at |-> "found", record |-> r, place |-> record[r].place])
      BY <2>1 DEF FindOpenRecord
    <3>2. r \in Records /\ Taken(r)
      BY <3>1 DEF Oldest, Open
    <3> QED BY <1>4, <3>1, <3>2 DEF Reads
  <2>2. ASSUME NEW e \in Employees, NEW l \in Sites, FindEligible(c, e, l) PROVE FoundExist'
    BY <1>4, <2>2 DEF FindEligible, Reads
  <2> QED BY <1>7, <2>1, <2>2 DEF EmployeeAsks
<1>8. ASSUME NEW c \in Calls, ManagementAsks(c) PROVE FoundExist'
  <2>1. ASSUME NEW e \in Employees, NEW p \in Projects, MayAssign(c, e, p) PROVE FoundExist'
    BY <1>4, <2>1 DEF MayAssign, Reads
  <2>2. ASSUME NEW s \in Site, MayInsertSite(c, s) PROVE FoundExist'
    BY <1>4, <2>2 DEF MayInsertSite, Reads
  <2>3. ASSUME NEW l \in Sites, MayToggleSite(c, l) \/ FindSiteUnused(c, l) PROVE FoundExist'
    BY <1>4, <2>3 DEF MayToggleSite, FindSiteUnused, Reads
  <2>4. ASSUME NEW l \in Sites, NEW p \in Projects, NEW active \in BOOLEAN \cup {Keep},
               NEW completes \in BOOLEAN, NEW zone \in Zones,
               MayUpdateSite(c, l, p, active, completes, zone)
        PROVE  FoundExist'
    BY <1>4, <2>4 DEF MayUpdateSite, Reads
  <2>5. ASSUME NEW p \in Projects, FindProjectUnused(c, p) PROVE FoundExist'
    BY <1>4, <2>5 DEF FindProjectUnused, Reads
  <2> QED BY <1>8, <2>1, <2>2, <2>3, <2>4, <2>5 DEF ManagementAsks
<1>9. ASSUME NEW c \in Calls, CheckingIn(c) PROVE FoundExist'
  <2>1. ASSUME FindNoneOpen(c) PROVE FoundExist'
    BY <1>4, <1>5, <2>1 DEF FindNoneOpen, Reads
  <2>2. ASSUME FindDayFree(c) PROVE FoundExist'
    <3>1. call[c].at = "none_open" /\ call[c] # Idle
      BY <2>2 DEF FindDayFree
    <3>2. [call[c] EXCEPT !.at = "day_free"].at = "day_free"
      BY <3>1, CallFields
    <3> QED BY <1>4, <1>5, <2>2, <3>2 DEF FindDayFree, Reads
  <2> QED BY <1>5, <1>6, <1>4, <1>9, <2>1, <2>2
             DEF CheckingIn, InsertRollsBack, InsertRecord, Record, Reads
<1>10. ASSUME NEW c \in Calls, CheckingOut(c) PROVE FoundExist'
  <2>1. ASSUME LocateCheckOut(c) PROVE FoundExist'
    <3>1. call[c].record \in Records /\ Taken(call[c].record)
      BY <1>1, <2>1 DEF LocateCheckOut
    <3> QED BY <1>4, <1>5, <2>1, <3>1 DEF LocateCheckOut, Reads
  <2> QED BY <1>4, <1>5, <1>6, <1>10, <2>1 DEF CheckingOut, RefuseCheckOut, CloseRecord, Reads
<1>11. ASSUME NEW c \in Calls, Administering(c) PROVE FoundExist'
  BY <1>4, <1>5, <1>6, <1>11
     DEF Administering, InsertAssignment, WriteSite, DeleteSite, DeleteProject, InsertSiteFails,
         InsertSite, Reads
<1> HIDE DEF Safe
<1> QED
  BY <1>3, <1>6, <1>7, <1>8, <1>9, <1>10, <1>11
     DEF Next, Advance, AtOnce, EndAssignment, CreateProject, SetProjectStatus, Tick, vars

(* Every reachable state is well-typed, and every record a check-out has   *)
(* found exists.                                                           *)
THEOREM TypeCorrect == Spec => [](TypeOK /\ FoundExist)
<1>1. Init => TypeOK /\ FoundExist
  BY AttendanceConstants DEF Init, TypeOK, FoundExist
<1> QED BY <1>1, TypeStep, FoundStep, PTL DEF Spec

(* Whatever calls race, a record keeps its employee, day and time of       *)
(* check-in; project and place are emptied, never replaced.                *)
THEOREM CheckInsStay == Spec => RecordsKeepTheirCheckIn
<1>1. ASSUME TypeOK, FoundExist, [Next]_vars, NEW r \in Records, Taken(r)
      PROVE  /\ record'[r] # None
             /\ record'[r].employee = record[r].employee
             /\ record'[r].date = record[r].date
             /\ record'[r].since = record[r].since
             /\ record'[r].project \in {record[r].project, None}
             /\ record'[r].place \in {record[r].place, None}
             /\ record'[r].checkOuts >= record[r].checkOuts
  BY <1>1, RecordKept, NullsAreNoRows
<1>2. TypeOK /\ FoundExist /\ [Next]_vars =>
        [\A r \in Records : Taken(r) =>
          /\ record'[r] # None
          /\ record'[r].employee = record[r].employee
          /\ record'[r].date = record[r].date
          /\ record'[r].since = record[r].since
          /\ record'[r].project \in {record[r].project, None}
          /\ record'[r].place \in {record[r].place, None}
          /\ record'[r].checkOuts >= record[r].checkOuts]_vars
  BY <1>1
<1> QED BY <1>2, TypeCorrect, PTL DEF Spec, RecordsKeepTheirCheckIn

(* The unique index is the only guard against check-ins that raced past    *)
(* both queries, and it suffices.                                          *)
LEMMA OneRecordStep ==
    TypeOK /\ FoundExist /\ OneRecordPerDay /\ [Next]_vars => OneRecordPerDay'
<1> SUFFICES ASSUME TypeOK, FoundExist, OneRecordPerDay, [Next]_vars PROVE OneRecordPerDay'
  OBVIOUS
<1> DEFINE Same(r) ==
      Taken(r)' => /\ Taken(r)
                   /\ record'[r].employee = record[r].employee
                   /\ record'[r].date = record[r].date
<1>1. ASSUME \A r \in Records : Same(r) PROVE OneRecordPerDay'
  BY <1>1 DEF OneRecordPerDay
<1>2. \A r \in Records : Taken(r) => Same(r)
  BY RecordKept
<1>3. CASE UNCHANGED record
  BY <1>1, <1>3 DEF Taken
<1>4. ASSUME NEW c \in Calls, NEW r \in Records, InsertRecord(c, r) PROVE OneRecordPerDay'
  <2>1. /\ record'[r] = NewRecord(call[c])
        /\ \A q \in Records : q # r => record'[q] = record[q]
    BY <1>4 DEF InsertRecord, Record, TypeOK
  <2>2. \A q \in Records : Taken(q) =>
           record[q].employee # call[c].who \/ record[q].date # call[c].date
    BY <1>4 DEF InsertRecord, InsertFails, HasDay
  <2>3. record'[r].employee = call[c].who /\ record'[r].date = call[c].date
    BY <2>1 DEF NewRecord
  <2> QED BY <2>1, <2>2, <2>3 DEF OneRecordPerDay, Taken
<1>5. ASSUME NEW c \in Calls, CloseRecord(c) PROVE OneRecordPerDay'
  <2>1. call[c].record \in Records /\ Taken(call[c].record)
    BY <1>5, CallFields DEF CloseRecord, FoundExist
  <2>2. \A r \in Records : r # call[c].record => record'[r] = record[r]
    BY <1>5 DEF CloseRecord, TypeOK
  <2> QED BY <1>1, <1>2, <2>1, <2>2 DEF Taken
<1>6. ASSUME NEW c \in Calls, DeleteSite(c) \/ DeleteProject(c) PROVE OneRecordPerDay'
  <2>1. \A r \in Records : Taken(r) \/ record'[r] = record[r]
    BY <1>6 DEF DeleteSite, DeleteProject, RecordsWithout
  <2> QED BY <1>1, <1>2, <2>1 DEF Taken
<1> QED BY <1>3, <1>4, <1>5, <1>6, RecordWriters

(* "Unique (employee, date) index is the final guard": for any number of   *)
(* employees and of check-ins at a time.                                   *)
THEOREM OneRecordEachDay == Spec => []OneRecordPerDay
<1>1. Init => OneRecordPerDay
  BY DEF Init, OneRecordPerDay, Taken
<1> QED BY <1>1, OneRecordStep, TypeCorrect, PTL DEF Spec

-----------------------------------------------------------------------------
(* Sites                                                                   *)

(* What a call is about to insert or to activate is complete: it brings the *)
(* coordinates and the radius itself, or the site has them already, and no *)
(* code ever removes them.  A site that is to be written was born.         *)
WritesAreComplete ==
    \A c \in Calls : call[c] # Idle =>
        /\ call[c].at = "may_insert" => (call[c].site.active => call[c].site.complete)
        /\ call[c].at = "may_write" =>
             /\ site[call[c].place] # Unborn
             /\ SiteExists(call[c].place) /\ call[c].active = TRUE
                  => call[c].completes \/ site[call[c].place].complete

(* What any step leaves of a site.                                         *)
LEMMA SiteKept ==
    ASSUME TypeOK, [Next]_vars, NEW l \in Sites, site[l] # Unborn
    PROVE  /\ site'[l] # Unborn
           /\ SiteExists(l)' => SiteExists(l)
           /\ SiteExists(l)' /\ site[l].complete => site'[l].complete
<1> DEFINE Kept(new) ==
      /\ new # Unborn
      /\ new \notin {Unborn, Gone} => SiteExists(l)
      /\ new \notin {Unborn, Gone} /\ site[l].complete => new.complete
<1>1. Kept(site[l]) /\ Kept(Gone)
  BY NullsAreNoRows DEF SiteExists
<1>2. ASSUME SiteExists(l), NEW s \in Site, site[l].complete => s.complete
      PROVE  Kept(s)
  BY <1>2, NullsAreNoRows
<1>3. SiteExists(l) => site[l] \in Site
  BY DEF SiteExists, TypeOK
<1>4. SiteExists(l) => Kept([site[l] EXCEPT !.project = None])
  <2> SUFFICES ASSUME SiteExists(l) PROVE Kept([site[l] EXCEPT !.project = None])
    OBVIOUS
  <2>1. /\ [site[l] EXCEPT !.project = None] \in Site
        /\ [site[l] EXCEPT !.project = None].complete = site[l].complete
    BY <1>3 DEF Site
  <2> HIDE DEF Kept
  <2> QED BY <1>2, <2>1
<1>5. ASSUME NEW c \in Calls, NEW m \in Sites, InsertSite(c, m) PROVE Kept(site'[l])
  <2>1. site'[l] = site[l]
    BY <1>5 DEF InsertSite, TypeOK
  <2> HIDE DEF Kept
  <2> QED BY <1>1, <2>1
<1>6. ASSUME NEW c \in Calls, WriteSite(c) PROVE Kept(site'[l])
  <2>1. site'[l] = site[l] \/ (SiteExists(l) /\ site'[l] = Merged(c, l))
    BY <1>6 DEF WriteSite, Merged, TypeOK
  <2>2. ASSUME SiteExists(l) PROVE Kept(Merged(c, l))
    <3>1. Merged(c, l) \in Site /\ (site[l].complete => Merged(c, l).complete)
      BY <1>6, <2>2, MergedSite DEF WriteSite
    <3> HIDE DEF Kept
    <3> QED BY <1>2, <2>2, <3>1
  <2> HIDE DEF Kept
  <2> QED BY <2>1, <1>1, <2>2
<1>7. ASSUME NEW c \in Calls, DeleteSite(c) PROVE Kept(site'[l])
  <2>1. site'[l] = site[l] \/ site'[l] = Gone
    BY <1>7 DEF DeleteSite, TypeOK
  <2> HIDE DEF Kept
  <2> QED BY <1>1, <2>1
<1>8. ASSUME NEW c \in Calls, DeleteProject(c) PROVE Kept(site'[l])
  <2>1. site'[l] = site[l] \/ (SiteExists(l) /\ site'[l] = [site[l] EXCEPT !.project = None])
    BY <1>8 DEF DeleteProject, SitesWithout
  <2> HIDE DEF Kept
  <2> QED BY <1>1, <1>4, <2>1
<1>9. Kept(site'[l])
  <2> HIDE DEF Kept
  <2> QED BY <1>1, <1>5, <1>6, <1>7, <1>8, SiteWriters
<1> QED BY <1>9 DEF SiteExists

(* Active sites stay complete although activation and update decide on a   *)
(* row they read earlier.                                                  *)
LEMMA ActiveStep ==
    TypeOK /\ ActiveSitesAreComplete /\ WritesAreComplete /\ [Next]_vars
        => ActiveSitesAreComplete'
<1> SUFFICES ASSUME TypeOK, ActiveSitesAreComplete, WritesAreComplete, [Next]_vars
             PROVE  ActiveSitesAreComplete'
  OBVIOUS
<1> DEFINE Good(x) == x \notin {Unborn, Gone} /\ x.active => x.complete
<1>1. \A l \in Sites : Good(site[l])
  BY DEF ActiveSitesAreComplete, SiteExists
<1>2. Good(Unborn) /\ Good(Gone)
  OBVIOUS
<1>3. ASSUME \A l \in Sites : Good(site'[l]) PROVE ActiveSitesAreComplete'
  BY <1>3 DEF ActiveSitesAreComplete, SiteExists
<1>4. CASE UNCHANGED site
  BY <1>1, <1>3, <1>4
<1>5. ASSUME NEW c \in Calls, NEW m \in Sites, InsertSite(c, m) PROVE ActiveSitesAreComplete'
  <2>1. Good(call[c].site)
    BY <1>5 DEF InsertSite, WritesAreComplete
  <2>2. \A l \in Sites : site'[l] = IF l = m THEN call[c].site ELSE site[l]
    BY <1>5 DEF InsertSite, TypeOK
  <2> HIDE DEF Good
  <2> QED BY <1>1, <1>3, <2>1, <2>2
<1>6. ASSUME NEW c \in Calls, WriteSite(c) PROVE ActiveSitesAreComplete'
  <2> DEFINE m == call[c].place
  <2>1. \A l \in Sites : site'[l] = site[l]
                         \/ (l = m /\ SiteExists(l) /\ site'[l] = Merged(c, l))
    BY <1>6 DEF WriteSite, Merged, TypeOK
  <2>2. ASSUME m \in Sites, SiteExists(m) PROVE Good(Merged(c, m))
    <3>1. /\ Merged(c, m).complete = (site[m].complete \/ call[c].completes)
          /\ Merged(c, m).active = Chosen(call[c].active, site[m].active)
      BY <1>6, <2>2, MergedSite DEF WriteSite
    <3>2. CASE call[c].active = Keep
      <4>1. Merged(c, m).active = site[m].active
        BY <3>1, <3>2 DEF Chosen
      <4>2. site[m].active => site[m].complete
        BY <2>2 DEF ActiveSitesAreComplete
      <4> QED BY <3>1, <4>1, <4>2
    <3>3. CASE call[c].active # Keep
      <4>1. Merged(c, m).active = call[c].active
        BY <3>1, <3>3 DEF Chosen
      <4>2. call[c].active \in BOOLEAN
        BY <1>6, <3>3, CallFields DEF WriteSite
      <4>3. call[c].active = TRUE => call[c].completes \/ site[m].complete
        BY <1>6, <2>2 DEF WriteSite, WritesAreComplete
      <4> QED BY <3>1, <4>1, <4>2, <4>3
    <3> QED BY <3>2, <3>3
  <2> HIDE DEF Good, m
  <2> QED BY <1>1, <1>3, <2>1, <2>2
<1>7. ASSUME NEW c \in Calls, DeleteSite(c) PROVE ActiveSitesAreComplete'
  <2>1. \A l \in Sites : site'[l] = site[l] \/ site'[l] = Gone
    BY <1>7 DEF DeleteSite, TypeOK
  <2> HIDE DEF Good
  <2> QED BY <1>1, <1>2, <1>3, <2>1
<1>8. ASSUME NEW c \in Calls, DeleteProject(c) PROVE ActiveSitesAreComplete'
  <2>1. ASSUME NEW l \in Sites PROVE Good(site'[l])
    <3>1. CASE site'[l] = site[l]
      BY <1>1, <3>1
    <3>2. CASE SiteExists(l) /\ site'[l] = [site[l] EXCEPT !.project = None]
      <4>1. site[l] \in Site
        BY <3>2 DEF SiteExists, TypeOK
      <4>2. site'[l].active = site[l].active /\ site'[l].complete = site[l].complete
        BY <3>2, <4>1 DEF Site
      <4>3. site[l].active => site[l].complete
        BY <3>2 DEF ActiveSitesAreComplete
      <4> QED BY <4>2, <4>3
    <3> QED BY <1>8, <3>1, <3>2 DEF DeleteProject, SitesWithout
  <2> QED BY <1>3, <2>1
<1> QED BY <1>4, <1>5, <1>6, <1>7, <1>8, SiteWriters

(* What has been decided stays right while other calls write the same row. *)
LEMMA WritesStep ==
    TypeOK /\ FoundExist /\ ActiveSitesAreComplete /\ WritesAreComplete /\ [Next]_vars
        => WritesAreComplete'
<1> SUFFICES ASSUME TypeOK, FoundExist, ActiveSitesAreComplete, WritesAreComplete, [Next]_vars
             PROVE  WritesAreComplete'
  OBVIOUS
<1> DEFINE Right(k) ==
      k # Idle =>
        /\ k.at = "may_insert" => (k.site.active => k.site.complete)
        /\ k.at = "may_write" =>
             /\ k.place \in Sites
             /\ site[k.place] # Unborn
             /\ SiteExists(k.place) /\ k.active = TRUE => k.completes \/ site[k.place].complete
           RightNext(k) ==
      k # Idle =>
        /\ k.at = "may_insert" => (k.site.active => k.site.complete)
        /\ k.at = "may_write" =>
             /\ site'[k.place] # Unborn
             /\ site'[k.place] \notin {Unborn, Gone} /\ k.active = TRUE
                  => k.completes \/ site'[k.place].complete
<1>1. \A d \in Calls : Right(call[d])
  BY CallFields DEF WritesAreComplete
<1>2. ASSUME NEW k, Right(k) PROVE RightNext(k)
  <2>1. ASSUME k # Idle, k.at = "may_write", k.active = TRUE,
               site'[k.place] \notin {Unborn, Gone}
        PROVE  k.completes \/ site'[k.place].complete
    <3>1. SiteExists(k.place) /\ (site[k.place].complete => site'[k.place].complete)
      BY <1>2, <2>1, SiteKept DEF SiteExists
    <3> QED BY <1>2, <2>1, <3>1
  <2>2. ASSUME k # Idle, k.at = "may_write" PROVE site'[k.place] # Unborn
    BY <1>2, <2>2, SiteKept
  <2> QED BY <1>2, <2>1, <2>2
<1>3. ASSUME \A d \in Calls : RightNext(call'[d]) PROVE WritesAreComplete'
  BY <1>3 DEF WritesAreComplete, SiteExists
<1>4. CASE UNCHANGED call
  BY <1>1, <1>2, <1>3, <1>4
<1>5. ASSUME NEW c \in Calls, NEW k, Goes(c, k), Right(k) PROVE WritesAreComplete'
  <2>1. \A d \in Calls : call'[d] = IF d = c THEN k ELSE call[d]
    BY <1>5 DEF Goes, TypeOK
  <2> HIDE DEF Right, RightNext
  <2> QED BY <1>1, <1>2, <1>3, <1>5, <2>1
<1>6. Right(Idle)
  OBVIOUS
<1>7. ASSUME NEW c \in Calls, Ends(c) \/ Fail(c) PROVE WritesAreComplete'
  BY <1>5, <1>6, <1>7 DEF Ends, Fail, Reads
<1>8. ASSUME NEW c \in Calls, EmployeeAsks(c) PROVE WritesAreComplete'
  BY <1>5, <1>8 DEF EmployeeAsks, FindOpenRecord, FindEligible, Reads
<1>9. ASSUME NEW c \in Calls, ManagementAsks(c) PROVE WritesAreComplete'
  <2>1. ASSUME NEW e \in Employees, NEW p \in Projects, MayAssign(c, e, p)
        PROVE  WritesAreComplete'
    BY <1>5, <2>1 DEF MayAssign, Reads
  <2>2. ASSUME NEW s \in Site, MayInsertSite(c, s) PROVE WritesAreComplete'
    BY <1>5, <2>2 DEF MayInsertSite, Reads
  <2>3. ASSUME NEW l \in Sites, MayToggleSite(c, l) PROVE WritesAreComplete'
    <3>1. site[l] \in Site /\ site[l] # Unborn
      BY <2>3 DEF MayToggleSite, SiteExists, TypeOK
    <3>2. (~site[l].active) = TRUE => site[l].complete
      BY <2>3, <3>1 DEF MayToggleSite, Site
    <3> QED BY <1>5, <2>3, <3>1, <3>2 DEF MayToggleSite, Reads
  <2>4. ASSUME NEW l \in Sites, FindSiteUnused(c, l) PROVE WritesAreComplete'
    BY <1>5, <2>4 DEF FindSiteUnused, Reads
  <2>5. ASSUME NEW l \in Sites, NEW p \in Projects, NEW active \in BOOLEAN \cup {Keep},
               NEW completes \in BOOLEAN, NEW zone \in Zones,
               MayUpdateSite(c, l, p, active, completes, zone)
        PROVE  WritesAreComplete'
    BY <1>5, <2>5 DEF MayUpdateSite, SiteExists, Reads
  <2>6. ASSUME NEW p \in Projects, FindProjectUnused(c, p) PROVE WritesAreComplete'
    BY <1>5, <2>6 DEF FindProjectUnused, Reads
  <2> QED BY <1>9, <2>1, <2>2, <2>3, <2>4, <2>5, <2>6 DEF ManagementAsks
<1>10. ASSUME NEW c \in Calls, CheckingIn(c) PROVE WritesAreComplete'
  <2>1. ASSUME FindDayFree(c) PROVE WritesAreComplete'
    <3>1. call[c].at = "none_open" /\ call[c] # Idle
      BY <2>1 DEF FindDayFree
    <3>2. [call[c] EXCEPT !.at = "day_free"].at = "day_free"
      BY <3>1, CallFields
    <3> QED BY <1>5, <1>6, <2>1, <3>2 DEF FindDayFree, Reads
  <2> QED BY <1>5, <1>6, <1>7, <1>10, <2>1
             DEF CheckingIn, FindNoneOpen, InsertRollsBack, InsertRecord, Record, Reads
<1>11. ASSUME NEW c \in Calls, CheckingOut(c) PROVE WritesAreComplete'
  BY <1>5, <1>6, <1>7, <1>11
     DEF CheckingOut, LocateCheckOut, RefuseCheckOut, CloseRecord, Reads
<1>12. ASSUME NEW c \in Calls, Administering(c) PROVE WritesAreComplete'
  BY <1>5, <1>6, <1>7, <1>12
     DEF Administering, InsertAssignment, WriteSite, DeleteSite, DeleteProject, InsertSiteFails,
         InsertSite, Reads
<1> HIDE DEF Right, RightNext
<1> QED
  BY <1>4, <1>7, <1>8, <1>9, <1>10, <1>11, <1>12
     DEF Next, Advance, AtOnce, EndAssignment, CreateProject, SetProjectStatus, Tick, vars

(* "Prevent activating an incomplete location": holds although nothing is  *)
(* locked, because completeness is never taken away from a site.           *)
THEOREM ActiveSitesStayComplete == Spec => []ActiveSitesAreComplete
<1>1. Init => ActiveSitesAreComplete /\ WritesAreComplete
  BY DEF Init, ActiveSitesAreComplete, WritesAreComplete, SiteExists
<1> QED BY <1>1, ActiveStep, WritesStep, TypeCorrect, PTL DEF Spec

-----------------------------------------------------------------------------
(* References                                                              *)

SitesRefer == \A l \in Sites : SiteExists(l) /\ site[l].project # None
                                => ProjectExists(site[l].project)
AssignmentsRefer == \A a \in assigned \cup ended : ProjectExists(a[2])
RecordsRefer == \A r \in Records : Taken(r) =>
                  /\ record[r].project # None => ProjectExists(record[r].project)
                  /\ record[r].place # None => SiteExists(record[r].place)

(* What is decided when a row is inserted, updated or deleted is decided by *)
(* the foreign keys, on the rows as they are then.                         *)
LEMMA ReferenceStep ==
    TypeOK /\ FoundExist /\ NoDanglingReference /\ [Next]_vars => NoDanglingReference'
<1> SUFFICES ASSUME TypeOK, FoundExist, NoDanglingReference, [Next]_vars
             PROVE  NoDanglingReference'
  OBVIOUS
<1>0. NoDanglingReference = (SitesRefer /\ AssignmentsRefer /\ RecordsRefer)
  BY DEF NoDanglingReference, SitesRefer, AssignmentsRefer, RecordsRefer
<1>1. SitesRefer /\ AssignmentsRefer /\ RecordsRefer
  BY <1>0
<1>2. ASSUME SitesRefer', AssignmentsRefer', RecordsRefer' PROVE NoDanglingReference'
  BY <1>2 DEF NoDanglingReference, SitesRefer, AssignmentsRefer, RecordsRefer
<1>3. ASSUME UNCHANGED <<project, site>> PROVE SitesRefer'
  BY <1>1, <1>3 DEF SitesRefer, SiteExists, ProjectExists
<1>4. ASSUME UNCHANGED <<project, assigned, ended>> PROVE AssignmentsRefer'
  BY <1>1, <1>4 DEF AssignmentsRefer, ProjectExists
<1>5. ASSUME UNCHANGED <<project, site, record>> PROVE RecordsRefer'
  BY <1>1, <1>5 DEF RecordsRefer, Taken, SiteExists, ProjectExists
<1>6. CASE UNCHANGED rows
  BY <1>2, <1>3, <1>4, <1>5, <1>6 DEF rows
<1>7. ASSUME NEW c \in Calls, NEW q \in Records, InsertRecord(c, q)
      PROVE  NoDanglingReference'
  <2>1. /\ record'[q] = NewRecord(call[c])
        /\ \A r \in Records : r # q => record'[r] = record[r]
        /\ UNCHANGED <<project, site, assigned, ended>>
    BY <1>7 DEF InsertRecord, Record, TypeOK
  <2>2. /\ record'[q].project = call[c].project /\ record'[q].place = call[c].place
        /\ ProjectExists(call[c].project) /\ SiteExists(call[c].place)
    BY <1>7, <2>1 DEF NewRecord, InsertRecord, InsertFails
  <2>3. RecordsRefer'
    BY <1>1, <2>1, <2>2 DEF RecordsRefer, Taken, ProjectExists, SiteExists
  <2> QED BY <1>2, <1>3, <1>4, <2>1, <2>3
<1>8. ASSUME NEW c \in Calls, CloseRecord(c) PROVE NoDanglingReference'
  <2>1. UNCHANGED <<project, site, assigned, ended>>
    BY <1>8 DEF CloseRecord
  <2>2. call[c].record \in Records /\ Taken(call[c].record)
    BY <1>8, CallFields DEF CloseRecord, FoundExist
  <2>3. \A r \in Records : Taken(r)' => Taken(r)
    BY <1>8, <2>2 DEF CloseRecord, Taken, TypeOK
  <2>4. RecordsRefer'
    BY <1>1, <2>1, <2>3, RecordKept DEF RecordsRefer, ProjectExists, SiteExists
  <2> QED BY <1>2, <1>3, <1>4, <2>1, <2>4
<1>9. ASSUME NEW c \in Calls, InsertAssignment(c) PROVE NoDanglingReference'
  <2>1. \A a \in assigned' : a \in assigned \/ ProjectExists(a[2])
    BY <1>9 DEF InsertAssignment
  <2>2. AssignmentsRefer'
    BY <1>1, <1>9, <2>1 DEF InsertAssignment, AssignmentsRefer, ProjectExists
  <2> QED BY <1>2, <1>3, <1>5, <1>9, <2>2 DEF InsertAssignment
<1>10. ASSUME NEW e \in Employees, NEW p \in Projects, EndAssignment(e, p)
       PROVE  NoDanglingReference'
  <2>1. AssignmentsRefer'
    BY <1>1, <1>10 DEF EndAssignment, AssignmentsRefer, ProjectExists
  <2> QED BY <1>2, <1>3, <1>5, <1>10, <2>1 DEF EndAssignment
<1>11. ASSUME NEW c \in Calls, NEW m \in Sites, InsertSite(c, m) PROVE NoDanglingReference'
  <2>1. /\ \A l \in Sites : site'[l] = IF l = m THEN call[c].site ELSE site[l]
        /\ ProjectExists(call[c].site.project) /\ call[c].site \in Site
        /\ UNCHANGED <<project, assigned, ended, record>>
    BY <1>11, CallFields DEF InsertSite, TypeOK
  <2>2. SitesRefer'
    BY <1>1, <2>1 DEF SitesRefer, SiteExists, ProjectExists
  <2>3. \A l \in Sites : SiteExists(l) => SiteExists(l)'
    BY <2>1, NullsAreNoRows DEF SiteExists
  <2>4. RecordsRefer'
    <3>1. \A r \in Records : Taken(r) => record[r] \in Attendance
      BY DEF Taken, TypeOK
    <3> QED BY <1>1, <2>1, <2>3, <3>1 DEF RecordsRefer, Taken, ProjectExists, Attendance
  <2> QED BY <1>2, <1>4, <2>1, <2>2, <2>4
<1>12. ASSUME NEW c \in Calls, WriteSite(c) PROVE NoDanglingReference'
  <2> DEFINE m == call[c].place
  <2>1. /\ UNCHANGED <<project, assigned, ended, record>>
        /\ call[c].project \in Projects \cup {Keep}
    BY <1>12, CallFields DEF WriteSite
  <2>2. ASSUME NEW l \in Sites
        PROVE  \/ site'[l] = site[l]
               \/ /\ l = m /\ SiteExists(l) /\ site'[l] = Merged(c, l)
                  /\ call[c].project = Keep \/ ProjectExists(call[c].project)
    BY <1>12 DEF WriteSite, Merged, TypeOK
  <2>3. ASSUME NEW l \in Sites, SiteExists(l)
        PROVE  Merged(c, l).project = Chosen(call[c].project, site[l].project)
               /\ Merged(c, l) \in Site
    BY <1>12, <2>3, MergedSite DEF WriteSite, Merged
  <2>4. ASSUME NEW l \in Sites, SiteExists(l)', site'[l].project # None
        PROVE  ProjectExists(site[l].project)'
    <3>1. CASE site'[l] = site[l]
      BY <1>1, <2>1, <2>4, <3>1 DEF SitesRefer, SiteExists, ProjectExists
    <3>2. CASE /\ l = m /\ SiteExists(l) /\ site'[l] = Merged(c, l)
               /\ call[c].project = Keep \/ ProjectExists(call[c].project)
      BY <1>1, <2>1, <2>3, <2>4, <3>2 DEF SitesRefer, ProjectExists, Chosen
    <3> QED BY <2>2, <3>1, <3>2
  <2>5. SitesRefer'
    BY <2>4 DEF SitesRefer
  <2> HIDE DEF m
  <2>6. \A l \in Sites : SiteExists(l) => SiteExists(l)'
    BY <2>2, <2>3, NullsAreNoRows DEF SiteExists
  <2>7. RecordsRefer'
    <3>1. \A r \in Records : Taken(r) => record[r] \in Attendance
      BY DEF Taken, TypeOK
    <3> QED BY <1>1, <2>1, <2>6, <3>1 DEF RecordsRefer, Taken, ProjectExists, Attendance
  <2> QED BY <1>2, <1>4, <2>1, <2>5, <2>7
<1>13. ASSUME NEW c \in Calls, DeleteSite(c) PROVE NoDanglingReference'
  <2> DEFINE m == call[c].place
  <2>1. /\ UNCHANGED <<project, assigned, ended>>
        /\ \A l \in Sites : site'[l] = IF l = m THEN Gone ELSE site[l]
    BY <1>13 DEF DeleteSite, TypeOK
  <2>2. SitesRefer'
    BY <1>1, <2>1 DEF SitesRefer, SiteExists, ProjectExists
  <2>3. ASSUME NEW r \in Records, Taken(r)'
        PROVE  /\ record'[r].project # None => ProjectExists(record[r].project)'
               /\ record'[r].place # None => SiteExists(record[r].place)'
    <3>1. Taken(r)
      BY <1>13, <2>3 DEF DeleteSite, Taken
    <3>2. record[r] \in Attendance /\ record'[r] \in Attendance
      BY <3>1, RecordKept DEF Taken, TypeOK
    <3>3. record'[r].place # m
      <4>1. CASE record[r].place = m
        <5>1. record'[r] = [record[r] EXCEPT !.place = None]
          BY <1>13, <3>1, <4>1 DEF DeleteSite
        <5>2. m \in Sites
          BY <1>13, CallFields DEF DeleteSite
        <5>3. record'[r].place = None
          BY <3>2, <5>1 DEF Attendance
        <5> QED BY <5>2, <5>3, AttendanceConstants
      <4>2. CASE record[r].place # m
        BY <1>13, <4>2 DEF DeleteSite
      <4> QED BY <4>1, <4>2
    <3>4. /\ record'[r].project \in {record[r].project, None}
          /\ record'[r].place \in {record[r].place, None}
      BY <3>1, RecordKept
    <3>5. record'[r].place # None => record'[r].place \in Sites
      BY <3>2 DEF Attendance
    <3> HIDE DEF m
    <3> QED BY <1>1, <2>1, <3>1, <3>3, <3>4, <3>5 DEF RecordsRefer, ProjectExists, SiteExists
  <2>4. RecordsRefer'
    BY <2>3 DEF RecordsRefer
  <2> QED BY <1>2, <1>4, <2>1, <2>2, <2>4
<1>14. ASSUME NEW c \in Calls, DeleteProject(c) PROVE NoDanglingReference'
  <2> DEFINE p == call[c].project
  <2>1. /\ p \in Projects
        /\ project' = [project EXCEPT ![p] = "gone"]
        /\ site' = SitesWithout(p) /\ record' = RecordsWithout(p)
        /\ assigned' = {a \in assigned : a[2] # p}
        /\ ended' = {a \in ended : a[2] # p}
    BY <1>14, CallFields DEF DeleteProject
  <2> HIDE DEF p
  <2>2. \A q : q # p /\ ProjectExists(q) /\ q \in Projects => ProjectExists(q)'
    BY <2>1 DEF ProjectExists, TypeOK
  <2>3. AssignmentsRefer'
    <3>1. \A a \in assigned \cup ended : a[2] \in Projects
      BY DEF TypeOK
    <3> QED BY <1>1, <2>1, <2>2, <3>1 DEF AssignmentsRefer
  <2>4. ASSUME NEW l \in Sites, SiteExists(l)
        PROVE  /\ SiteExists(l)'
               /\ site'[l].project # None => ProjectExists(site[l].project)'
    <3>1. site[l] \in Site
      BY <2>4 DEF SiteExists, TypeOK
    <3>2. CASE site[l].project = p
      <4>1. site'[l] = [site[l] EXCEPT !.project = None]
        BY <2>1, <2>4, <3>2 DEF SitesWithout
      <4>2. site'[l] \in Site /\ site'[l].project = None
        BY <3>1, <4>1 DEF Site
      <4> QED BY <4>2, NullsAreNoRows DEF SiteExists
    <3>3. CASE site[l].project # p
      <4>1. site'[l] = site[l]
        BY <2>1, <3>3 DEF SitesWithout
      <4>2. site[l].project # None => site[l].project \in Projects
        BY <3>1 DEF Site
      <4> QED BY <1>1, <2>2, <2>4, <3>3, <4>1, <4>2 DEF SitesRefer, SiteExists
    <3> QED BY <3>2, <3>3
  <2>5. SitesRefer'
    <3>1. \A l \in Sites : SiteExists(l)' => SiteExists(l)
      BY <2>1 DEF SitesWithout, SiteExists
    <3> QED BY <2>4, <3>1 DEF SitesRefer
  <2>6. ASSUME NEW r \in Records, Taken(r)'
        PROVE  /\ record'[r].project # None => ProjectExists(record[r].project)'
               /\ record'[r].place # None => SiteExists(record[r].place)'
    <3>1. Taken(r)
      BY <2>1, <2>6 DEF RecordsWithout, Taken
    <3>2. record[r] \in Attendance /\ record'[r] \in Attendance
      BY <3>1, RecordKept DEF Taken, TypeOK
    <3>3. record'[r].project # p
      <4>1. CASE record[r].project = p
        <5>1. record'[r] = [record[r] EXCEPT !.project = None]
          BY <2>1, <3>1, <4>1 DEF RecordsWithout
        <5>2. record'[r].project = None
          BY <3>2, <5>1 DEF Attendance
        <5> QED BY <2>1, <5>2, AttendanceConstants
      <4>2. CASE record[r].project # p
        BY <2>1, <4>2 DEF RecordsWithout
      <4> QED BY <4>1, <4>2
    <3>4. /\ record'[r].project \in {record[r].project, None}
          /\ record'[r].place \in {record[r].place, None}
      BY <3>1, RecordKept
    <3>5. /\ record'[r].place # None => record'[r].place \in Sites
          /\ record'[r].project # None => record'[r].project \in Projects
      BY <3>2 DEF Attendance
    <3> QED BY <1>1, <2>2, <2>4, <3>1, <3>3, <3>4, <3>5 DEF RecordsRefer
  <2>7. RecordsRefer'
    BY <2>6 DEF RecordsRefer
  <2> QED BY <1>2, <2>3, <2>5, <2>7
<1>15. ASSUME NEW p \in Projects, NEW st \in {"active", "inactive"},
              CreateProject(p, st) \/ SetProjectStatus(p, st)
       PROVE  NoDanglingReference'
  <2>1. UNCHANGED <<site, assigned, ended, record>>
    BY <1>15 DEF CreateProject, SetProjectStatus
  <2>2. \A q : ProjectExists(q) /\ q \in Projects => ProjectExists(q)'
    BY <1>15 DEF CreateProject, SetProjectStatus, ProjectExists, TypeOK
  <2>3. SitesRefer'
    <3>1. \A l \in Sites : SiteExists(l) /\ site[l].project # None => site[l].project \in Projects
      BY DEF SiteExists, TypeOK, Site
    <3> QED BY <1>1, <2>1, <2>2, <3>1 DEF SitesRefer, SiteExists
  <2>4. AssignmentsRefer'
    <3>1. \A a \in assigned \cup ended : a[2] \in Projects
      BY DEF TypeOK
    <3> QED BY <1>1, <2>1, <2>2, <3>1 DEF AssignmentsRefer
  <2>5. RecordsRefer'
    <3>1. \A r \in Records : Taken(r) /\ record[r].project # None => record[r].project \in Projects
      BY DEF Taken, TypeOK, Attendance
    <3> QED BY <1>1, <2>1, <2>2, <3>1 DEF RecordsRefer, Taken, SiteExists
  <2> QED BY <1>2, <2>3, <2>4, <2>5
<1> QED
  BY <1>6, <1>7, <1>8, <1>9, <1>10, <1>11, <1>12, <1>13, <1>14, <1>15, RowWriters
     DEF Writes, AtOnce

(* Deletions race with everything that refers to what they delete; the     *)
(* foreign keys leave no reference to a row that is gone.                  *)
THEOREM NothingDangles == Spec => []NoDanglingReference
<1>1. Init => NoDanglingReference
  BY DEF Init, NoDanglingReference, SiteExists, Taken
<1> QED BY <1>1, ReferenceStep, TypeCorrect, PTL DEF Spec

(* All of it together: the invariant the attendance run checks.            *)
THEOREM AttendanceStaysConsistent == Spec => []AttendanceConsistent
<1>1. ASSUME TypeOK, OneRecordPerDay, ActiveSitesAreComplete, NoDanglingReference
      PROVE  AttendanceConsistent
  BY <1>1 DEF AttendanceConsistent
<1> QED BY <1>1, TypeCorrect, OneRecordEachDay, ActiveSitesStayComplete, NothingDangles, PTL

-----------------------------------------------------------------------------
(***************************************************************************)
(* The pool.                                                               *)
(*                                                                         *)
(* A check-out locates its site on a second connection while it keeps the  *)
(* one of its transaction.  This is the only step that takes one while it  *)
(* holds one, and so the only way in which calls can wait for each other.  *)
(***************************************************************************)

InTransactions == {c \in Calls : InTransaction(c)}

\* Advance(c) has the connection it needs, or needs none.
MayGoOn(c) ==
    /\ call[c] # Idle
    /\ \/ FreeConnection
       \/ call[c].at \in {"none_open", "day_free", "inside"}
       \/ call[c].at = "found" /\ call[c].place = None

WantsSecond(c) == call[c] # Idle /\ call[c].at = "found" /\ call[c].place # None

(* The pool lends no more connections than it has; and when calls are      *)
(* under way and none of them may go on, every connection is held by a     *)
(* check-out that waits for a second one.                                  *)
StarvedOnlyByCheckOuts ==
    /\ Cardinality(InTransactions) <= PoolSize
    /\ (\E c \in Calls : call[c] # Idle) /\ (\A c \in Calls : ~MayGoOn(c)) =>
          /\ InTransactions = {c \in Calls : WantsSecond(c)}
          /\ Cardinality(InTransactions) = PoolSize

\* The steps that a call has before it at most.
StepsLeft(k) ==
    IF k = Idle THEN 0
    ELSE CASE k.at = "eligible" -> 3
           [] k.at \in {"none_open", "found"} -> 2
           [] OTHER -> 1

(* A call that runs is changed by its own steps only, and each of them     *)
(* brings it closer to its end: no query is tried again.                   *)
CallsComeCloser ==
    [][\A c \in Calls : call[c] # Idle =>
          call'[c] = call[c] \/ StepsLeft(call'[c]) < StepsLeft(call[c])]_vars

(* One call moves at most, and it is a step closer to its end or begins.   *)
LEMMA CallMoves ==
    ASSUME TypeOK, [Next]_vars
    PROVE  \/ UNCHANGED call
           \/ \E c \in Calls : \E k :
                 /\ Goes(c, k)
                 /\ call[c] = Idle \/ StepsLeft(k) < StepsLeft(call[c])
                 /\ \/ k = Idle
                    \/ k.at \notin {"none_open", "day_free", "found", "inside"}
                    \/ InTransaction(c) \/ FreeConnection
<1> DEFINE Moves == \E c \in Calls : \E k :
                        /\ Goes(c, k)
                        /\ call[c] = Idle \/ StepsLeft(k) < StepsLeft(call[c])
                        /\ \/ k = Idle
                           \/ k.at \notin {"none_open", "day_free", "found", "inside"}
                           \/ InTransaction(c) \/ FreeConnection
<1>1. ASSUME NEW c \in Calls, NEW k, Goes(c, k), call[c] = Idle, FreeConnection PROVE Moves
  BY <1>1
<1>2. ASSUME NEW c \in Calls, Goes(c, Idle), call[c] # Idle PROVE Moves
  <2>1. StepsLeft(Idle) < StepsLeft(call[c])
    BY <1>2 DEF StepsLeft
  <2> QED BY <1>2, <2>1
<1>3. ASSUME NEW c \in Calls, EmployeeAsks(c) \/ ManagementAsks(c) PROVE Moves
  BY <1>1, <1>3, Zenon
     DEF EmployeeAsks, FindOpenRecord, FindEligible, MayCheckIn, ManagementAsks, MayAssign,
         MayInsertSite, MayToggleSite, FindSiteUnused, MayUpdateSite, FindProjectUnused, Reads
<1>4. ASSUME NEW c \in Calls, CheckingIn(c) PROVE Moves
  <2>1. CASE FindNoneOpen(c)
    <3> DEFINE k == [at |-> "none_open", who |-> call[c].who, project |-> call[c].project,
                     place |-> call[c].place, date |-> LocalDate(call[c].zone), since |-> now]
    <3>1. call[c] # Idle /\ call[c].at = "eligible" /\ FreeConnection
          /\ (Goes(c, Idle) \/ Goes(c, k))
      BY <2>1 DEF FindNoneOpen, Reads
    <3>2. StepsLeft(k) < StepsLeft(call[c])
      BY <3>1 DEF StepsLeft
    <3> HIDE DEF k
    <3> QED BY <1>2, <3>1, <3>2
  <2>2. CASE FindDayFree(c)
    <3> DEFINE k == [call[c] EXCEPT !.at = "day_free"]
    <3>1. call[c] # Idle /\ call[c].at = "none_open" /\ InTransaction(c)
          /\ (Goes(c, Idle) \/ Goes(c, k))
      BY <2>2 DEF FindDayFree, Reads, InTransaction
    <3>2. k.at = "day_free"
      BY <3>1, CallFields
    <3>3. StepsLeft(k) < StepsLeft(call[c])
      <4> HIDE DEF k
      <4> QED BY <3>1, <3>2 DEF StepsLeft
    <3> HIDE DEF k
    <3> QED BY <1>2, <3>1, <3>3
  <2>3. CASE InsertRollsBack(c) \/ \E r \in Records : InsertRecord(c, r)
    BY <1>2, <2>3 DEF InsertRollsBack, InsertRecord, Record, Ends, Reads
  <2> QED BY <1>4, <2>1, <2>2, <2>3 DEF CheckingIn
<1>5. ASSUME NEW c \in Calls, CheckingOut(c) PROVE Moves
  <2>1. CASE LocateCheckOut(c)
    <3> DEFINE k == [at |-> "inside", record |-> call[c].record]
    <3>1. call[c] # Idle /\ call[c].at = "found" /\ InTransaction(c)
          /\ (Goes(c, Idle) \/ Goes(c, k))
      BY <2>1 DEF LocateCheckOut, Reads, InTransaction
    <3>2. StepsLeft(k) < StepsLeft(call[c])
      BY <3>1 DEF StepsLeft
    <3> HIDE DEF k
    <3> QED BY <1>2, <3>1, <3>2
  <2>2. CASE RefuseCheckOut(c) \/ CloseRecord(c)
    BY <1>2, <2>2 DEF RefuseCheckOut, CloseRecord, Ends, Reads
  <2> QED BY <1>5, <2>1, <2>2 DEF CheckingOut
<1>6. ASSUME NEW c \in Calls, Administering(c) \/ Fail(c) PROVE Moves
  BY <1>2, <1>6
     DEF Administering, InsertAssignment, WriteSite, DeleteSite, DeleteProject,
         InsertSiteFails, InsertSite, Fail, Ends, Reads
<1>7. ASSUME AtOnce \/ Tick \/ UNCHANGED vars PROVE UNCHANGED call
  BY <1>7 DEF AtOnce, EndAssignment, CreateProject, SetProjectStatus, Tick, vars
<1> HIDE DEF Moves
<1>8. UNCHANGED call \/ Moves
  BY <1>3, <1>4, <1>5, <1>6, <1>7 DEF Next, Advance
<1> QED BY <1>8 DEF Moves

(* The pool is never overdrawn: a step that begins a transaction has found *)
(* a free connection.                                                      *)
LEMMA PoolStep ==
    TypeOK /\ Cardinality(InTransactions) <= PoolSize /\ [Next]_vars
        => (Cardinality(InTransactions) <= PoolSize)'
<1> SUFFICES ASSUME TypeOK, Cardinality(InTransactions) <= PoolSize, [Next]_vars
             PROVE  Cardinality(InTransactions') <= PoolSize
  OBVIOUS
<1>1. IsFiniteSet(InTransactions) /\ Cardinality(InTransactions) \in Nat /\ PoolSize \in Nat
  BY AttendanceConstants, FS_Subset, FS_CardinalityType DEF InTransactions
<1>2. CASE InTransactions' \subseteq InTransactions
  BY <1>1, <1>2, FS_Subset, FS_CardinalityType
<1>3. ASSUME NEW c \in Calls, NEW k, Goes(c, k), c \notin InTransactions, FreeConnection
      PROVE  Cardinality(InTransactions') <= PoolSize
  <2>1. InTransactions' \subseteq InTransactions \cup {c}
    BY <1>3 DEF InTransactions, InTransaction, Goes, TypeOK
  <2>2. /\ IsFiniteSet(InTransactions \cup {c})
        /\ Cardinality(InTransactions \cup {c}) = Cardinality(InTransactions) + 1
    BY <1>1, <1>3, FS_AddElement
  <2>3. Cardinality(InTransactions') <= Cardinality(InTransactions \cup {c})
        /\ Cardinality(InTransactions') \in Nat
    BY <2>1, <2>2, FS_Subset, FS_CardinalityType
  <2>4. Cardinality(InTransactions) < PoolSize
    BY <1>3 DEF FreeConnection, InTransactions
  <2> QED BY <1>1, <2>2, <2>3, <2>4
<1>4. ASSUME NEW c \in Calls, NEW k, Goes(c, k),
             k = Idle \/ k.at \notin {"none_open", "day_free", "found", "inside"}
                      \/ InTransaction(c)
      PROVE  InTransactions' \subseteq InTransactions
  BY <1>4 DEF InTransactions, InTransaction, Goes, TypeOK
<1>5. CASE UNCHANGED call
  BY <1>2, <1>5 DEF InTransactions, InTransaction
<1>6. ASSUME NEW c \in Calls, NEW k, Goes(c, k), InTransaction(c) \/ FreeConnection
      PROVE  Cardinality(InTransactions') <= PoolSize
  BY <1>2, <1>3, <1>4, <1>6 DEF InTransactions
<1> QED BY <1>2, <1>4, <1>5, <1>6, CallMoves

(* For any pool and any number of calls: what CallsFinish takes for        *)
(* granted, by a pool larger than the number of calls, fails in one way    *)
(* only.                                                                   *)
THEOREM CheckOutsAloneStarve == Spec => []StarvedOnlyByCheckOuts
<1>1. Init => Cardinality(InTransactions) <= PoolSize
  <2> SUFFICES ASSUME Init PROVE Cardinality(InTransactions) <= PoolSize
    OBVIOUS
  <2>1. InTransactions = {}
    BY DEF Init, InTransactions, InTransaction
  <2> QED BY <2>1, FS_EmptySet, AttendanceConstants
<1>2. TypeOK /\ Cardinality(InTransactions) <= PoolSize => StarvedOnlyByCheckOuts
  <2> SUFFICES ASSUME TypeOK, Cardinality(InTransactions) <= PoolSize,
                      NEW c \in Calls, call[c] # Idle, \A d \in Calls : ~MayGoOn(d)
               PROVE  /\ InTransactions = {d \in Calls : WantsSecond(d)}
                      /\ Cardinality(InTransactions) = PoolSize
    BY DEF StarvedOnlyByCheckOuts
  <2>1. ~FreeConnection
    BY DEF MayGoOn
  <2>2. Cardinality(InTransactions) = PoolSize
    <3>1. Cardinality(InTransactions) \in Nat /\ PoolSize \in Nat
      BY AttendanceConstants, FS_Subset, FS_CardinalityType DEF InTransactions
    <3> QED BY <2>1, <3>1 DEF FreeConnection, InTransactions
  <2>3. \A d \in Calls : InTransaction(d) <=> WantsSecond(d)
    BY DEF MayGoOn, InTransaction, WantsSecond
  <2> QED BY <2>2, <2>3 DEF InTransactions
<1> QED BY <1>1, <1>2, PoolStep, TypeCorrect, PTL DEF Spec

(* A check-in has at most three steps after its first, a check-out two,    *)
(* every other call one.                                                   *)
THEOREM CallsGoForward == Spec => CallsComeCloser
<1>1. TypeOK /\ [Next]_vars =>
        [\A c \in Calls : call[c] # Idle =>
            call'[c] = call[c] \/ StepsLeft(call'[c]) < StepsLeft(call[c])]_vars
  <2> SUFFICES ASSUME TypeOK, [Next]_vars, NEW c \in Calls, call[c] # Idle
               PROVE  call'[c] = call[c] \/ StepsLeft(call'[c]) < StepsLeft(call[c])
    OBVIOUS
  <2>1. ASSUME NEW d \in Calls, NEW k, Goes(d, k),
               call[d] = Idle \/ StepsLeft(k) < StepsLeft(call[d])
        PROVE  call'[c] = call[c] \/ StepsLeft(call'[c]) < StepsLeft(call[c])
    BY <2>1 DEF Goes, TypeOK
  <2> QED BY <2>1, CallMoves
<1> QED BY <1>1, TypeCorrect, PTL DEF Spec, CallsComeCloser

(***************************************************************************)
(* The pages                                                               *)
(***************************************************************************)
(* The columns of a site that exists.                                      *)
LEMMA ProjectOfSite ==
    ASSUME TypeOK, NEW l \in Sites, SiteExists(l)
    PROVE  site[l].project \in Projects \cup {None} /\ site[l].active \in BOOLEAN
           /\ site[l].complete \in BOOLEAN
BY DEF TypeOK, SiteExists, Site

(* A project is ready when somebody assigned to it may check in somewhere. *)
LEMMA ReadyIffUsable ==
    ASSUME NEW p \in Projects
    PROVE  Reason(p) = "ready" <=> project[p] = "active" /\ \E l \in SitesOf(p) : isLocationUsable(l)
BY DEF Reason

(* A check-in is eligible at the usable sites of one's own projects.       *)
LEMMA UsableIsEligible ==
    ASSUME TypeOK, NEW e \in Employees, NEW l \in Sites
    PROVE  Eligible(e, l) /\ site[l].complete
             <=> \E p \in Projects : /\ <<e, p>> \in assigned /\ project[p] = "active"
                                     /\ l \in SitesOf(p) /\ isLocationUsable(l)
<1>1. CASE SiteExists(l)
  <2>1. isLocationUsable(l) <=> site[l].active /\ site[l].project # None /\ site[l].complete
    <3>1. missingActiveWorkLocationFields(l) = {} <=>
             (site[l].active => site[l].project # None /\ site[l].complete)
      BY DEF missingActiveWorkLocationFields
    <3> QED BY <3>1 DEF isLocationUsable
  <2> QED BY <1>1, <2>1, ProjectOfSite DEF Eligible, SitesOf
<1>2. CASE ~SiteExists(l)
  BY <1>2 DEF Eligible, SitesOf
<1> QED BY <1>1, <1>2

(* getEligibleAssignmentLocation and the reconciliation agree.             *)
LEMMA ReadyMeansEligible == TypeOK => ReadyIsEligible
<1> SUFFICES ASSUME TypeOK, NEW e \in Employees, NEW c \in Calls, call[c] = Idle, FreeConnection
             PROVE  (\E row \in reconcileEmployeePaths(e, Employees) : StatusOf(row.reason) = "READY")
                       <=> \E l \in Sites : MayCheckIn(c, e, l)
  BY DEF ReadyIsEligible
<1> DEFINE Mine == {p \in Projects : <<e, p>> \in assigned}
           RowOf(p) == Row(e, IF Reason(p) = "project_inactive" THEN None ELSE p,
                           ShownSite(p), Reason(p))
<1>1. \A reason : StatusOf(reason) = "READY" <=> reason = "ready"
  BY DEF StatusOf
<1>2. \A p : RowOf(p).reason = Reason(p)
  BY DEF Row
<1>3. (\E row \in reconcileEmployeePaths(e, Employees) : row.reason = "ready")
          <=> \E p \in Mine : Reason(p) = "ready"
  <2>1. CASE Mine = {}
    <3>1. reconcileEmployeePaths(e, Employees) = {Row(e, None, None, "no_active_assignment")}
      BY <2>1 DEF reconcileEmployeePaths
    <3>2. Row(e, None, None, "no_active_assignment").reason # "ready"
      BY DEF Row
    <3> QED BY <2>1, <3>1, <3>2
  <2>2. CASE Mine # {}
    <3>1. reconcileEmployeePaths(e, Employees) = {RowOf(p) : p \in Mine}
      BY <2>2 DEF reconcileEmployeePaths
    <3> HIDE DEF RowOf
    <3> QED BY <1>2, <3>1
  <2> QED BY <2>1, <2>2
<1>4. (\E p \in Mine : Reason(p) = "ready") <=> \E l \in Sites : Eligible(e, l) /\ site[l].complete
  <2>1. \A p \in Mine : Reason(p) = "ready" <=>
            project[p] = "active" /\ \E l \in SitesOf(p) : isLocationUsable(l)
    BY ReadyIffUsable
  <2>2. \A l \in Sites : Eligible(e, l) /\ site[l].complete <=>
            \E p \in Mine : project[p] = "active" /\ l \in SitesOf(p) /\ isLocationUsable(l)
    BY UsableIsEligible
  <2>3. \A p : SitesOf(p) \subseteq Sites
    BY DEF SitesOf
  <2> QED BY <2>1, <2>2, <2>3
<1> QED BY <1>1, <1>3, <1>4 DEF MayCheckIn

(* Active sites are complete, so the options need not ask for it.          *)
LEMMA OptionsMeanEligible == TypeOK /\ ActiveSitesAreComplete => OptionsAreEligible
<1> SUFFICES ASSUME TypeOK, ActiveSitesAreComplete,
                    NEW e \in Employees, NEW c \in Calls, call[c] = Idle, FreeConnection,
                    NEW option \in listEligibleAttendanceOptions(e)
             PROVE  MayCheckIn(c, e, option[2])
  BY DEF OptionsAreEligible
<1>1. option[1] \in Projects /\ option[2] \in Sites
  BY DEF listEligibleAttendanceOptions
<1>2. /\ <<e, option[1]>> \in assigned /\ project[option[1]] = "active"
      /\ SiteExists(option[2]) /\ site[option[2]].project = option[1] /\ site[option[2]].active
  BY DEF listEligibleAttendanceOptions, ActiveSitesOf, SitesOf
<1>3. site[option[2]].project # None
  BY <1>1, <1>2, AttendanceConstants
<1>4. site[option[2]].complete
  BY <1>1, <1>2 DEF ActiveSitesAreComplete
<1> QED BY <1>2, <1>3, <1>4 DEF MayCheckIn, Eligible

(* The page never shows a period its own links would not accept.           *)
LEMMA ExportsFollow == ExportFollowsPage
<1> SUFFICES ASSUME NEW from \in (0..DaysPerMonth + MaxPeriod) \cup {None, Keep},
                    NEW to \in (0..DaysPerMonth + MaxPeriod) \cup {None, Keep}
             PROVE  LET shown == PagePeriod(Span(from, to))
                    IN  ExportPeriod(shown) = shown /\ DetailPeriod(shown) = shown
  BY DEF ExportFollowsPage
<1> DEFINE shown == PagePeriod(Span(from, to))
<1>1. recapFilterSchema(DefaultPeriod)
  BY RecapConstants DEF DefaultPeriod, Span, recapFilterSchema
<1>2. recapFilterSchema(shown)
  BY <1>1 DEF PagePeriod
<1>3. shown.from \in Nat /\ shown.to \in Nat
  BY <1>2 DEF recapFilterSchema
<1>4. ExportPeriod(shown) = shown
  BY <1>2 DEF ExportPeriod
<1>5. DetailPeriod(shown) = shown
  BY <1>3, RecapConstants DEF DetailPeriod
<1> QED BY <1>4, <1>5

-----------------------------------------------------------------------------
(* The recap                                                               *)
Period == 0 .. DaysPerMonth - 1

(* The record of a day, of which there is at most one, or None.            *)
RecordOn(e, d) == IF RecordsOn(e, d) = {} THEN None ELSE CHOOSE r \in RecordsOn(e, d) : TRUE

(* The row of a day.                                                       *)
FactOf(e, c, d) ==
    [day |-> d, attendance |-> RecordOn(e, d),
     has_leave |-> LeavesOn(c, d) # {},
     is_sick |-> \E l \in LeavesOn(c, d) : l.sick,
     has_permission |-> \E p \in c.permissions : Covers(p, d)]

(* The numbers of days and of weekdays.                                    *)
LEMMA PeriodDays ==
    \A d \in Period : d \in Nat /\ IsoDay(d) \in 1..7 /\ (IsoDay(d) < 6 <=> IsoDay(d) \in 1..5)
<1> SUFFICES ASSUME NEW d \in Period
             PROVE  d \in Nat /\ IsoDay(d) \in 1..7 /\ (IsoDay(d) < 6 <=> IsoDay(d) \in 1..5)
  OBVIOUS
<1>1. d \in Nat
  BY RecapConstants DEF Period
<1>2. IsoDay(d) \in 1..7
  BY <1>1, RecapConstants DEF IsoDay
<1> QED BY <1>1, <1>2

(* Both implementations count the same days: a period with a working day   *)
(* of the employment overlaps the employment.                              *)
LEMMA SameCalendar ==
    ASSUME NEW c
    PROVE  /\ Calendar(c, Period) = listWorkingDays(c, Period)
           /\ Calendar(c, Period) = {d \in Period : IsoDay(d) \in 1..5 /\ InEmploymentWindow(c, d)}
<1>1. \A d \in Period : InEmploymentWindow(c, d) => Scoped(c, Period)
  BY DEF InEmploymentWindow, Scoped
<1>2. Calendar(c, Period) = {d \in Period : IsoDay(d) \in 1..5 /\ InEmploymentWindow(c, d)}
  BY <1>1, PeriodDays DEF Calendar, InEmploymentWindow
<1> QED BY <1>2 DEF listWorkingDays

(* The unique index leaves the join no choice.                             *)
LEMMA OneRecordOn ==
    ASSUME OneRecordPerDay, NEW e, NEW d, NEW r
    PROVE  r = RecordOn(e, d) <=> IF RecordsOn(e, d) = {} THEN r = None ELSE r \in RecordsOn(e, d)
<1>1. \A q, s \in RecordsOn(e, d) : q = s
  BY DEF RecordsOn, OneRecordPerDay
<1> QED BY <1>1 DEF RecordOn

(* The left join has one row for each day of the calendar.                 *)
LEMMA FactsOfDays ==
    ASSUME OneRecordPerDay, NEW e, NEW c
    PROVE  DayFacts(e, c, Period) = {FactOf(e, c, d) : d \in Calendar(c, Period)}
<1> DEFINE Joined == {pair \in Calendar(c, Period) \X (Records \cup {None}) :
                        IF RecordsOn(e, pair[1]) = {} THEN pair[2] = None
                        ELSE pair[2] \in RecordsOn(e, pair[1])}
           Made(pair) ==
             [day |-> pair[1], attendance |-> pair[2],
              has_leave |-> LeavesOn(c, pair[1]) # {},
              is_sick |-> \E l \in LeavesOn(c, pair[1]) : l.sick,
              has_permission |-> \E p \in c.permissions : Covers(p, pair[1])]
<1>1. DayFacts(e, c, Period) = {Made(pair) : pair \in Joined}
  BY DEF DayFacts
<1>2. \A d \in Calendar(c, Period) : RecordOn(e, d) \in Records \cup {None}
  BY DEF RecordOn, RecordsOn
<1>3. \A d \in Calendar(c, Period) : <<d, RecordOn(e, d)>> \in Joined
  BY <1>2, OneRecordOn
<1>4. \A d : Made(<<d, RecordOn(e, d)>>) = FactOf(e, c, d)
  BY DEF FactOf
<1>5. \A pair \in Joined : pair[1] \in Calendar(c, Period) /\ pair[2] = RecordOn(e, pair[1])
  BY OneRecordOn
<1>6. \A pair \in Joined : Made(pair) = FactOf(e, c, pair[1])
  BY <1>5 DEF FactOf
<1> HIDE DEF Made, Joined
<1> QED BY <1>1, <1>3, <1>4, <1>5, <1>6, ZenonT(60)

(* Different days have different rows.                                     *)
LEMMA FactsAreCounted ==
    ASSUME NEW e, NEW c, NEW D \in SUBSET Period
    PROVE  Cardinality({FactOf(e, c, d) : d \in D}) = Cardinality(D)
<1> DEFINE f == [d \in D |-> FactOf(e, c, d)]
           Facts == {FactOf(e, c, d) : d \in D}
<1>1. IsFiniteSet(D)
  <2>1. IsFiniteSet(Period)
    BY RecapConstants, FS_Interval DEF Period
  <2> QED BY <2>1, FS_Subset
<1>2. \A d : FactOf(e, c, d).day = d
  BY DEF FactOf
<1>3. f \in Bijection(D, Facts)
  <2>1. f \in [D -> Facts]
    OBVIOUS
  <2>2. \A a, b \in D : f[a] = f[b] => a = b
    BY <1>2
  <2>3. \A fact \in Facts : \E d \in D : f[d] = fact
    OBVIOUS
  <2> HIDE DEF f, Facts
  <2> QED BY <2>1, <2>2, <2>3 DEF Bijection, Injection, Surjection, IsInjective
<1> QED BY <1>1, <1>3, FS_Bijection DEF ExistsBijection

(* The five counters of a working day.                                     *)
Classes == {"present", "leave", "sick", "permission", "absent"}

(* The SQL and the engine give a day of the calendar the same counter.     *)
LEMMA SameClass ==
    ASSUME NEW e, NEW c, NEW d \in Calendar(c, Period)
    PROVE  Bucket(FactOf(e, c, d)) = classifyRecapDay(e, c, d) /\ classifyRecapDay(e, c, d) \in Classes
<1>1. d \in Period /\ IsoDay(d) \in 1..5 /\ IsoDay(d) < 6 /\ InEmploymentWindow(c, d)
  BY SameCalendar, PeriodDays
<1>2. LeavesOn(c, d) = {l \in c.leaves : Covers(l, d)}
  BY <1>1 DEF LeavesOn
<1>3. RecordOn(e, d) # None <=> RecordsOn(e, d) # {}
  BY AttendanceConstants DEF RecordOn, RecordsOn
<1> QED BY <1>1, <1>2, <1>3 DEF Bucket, FactOf, classifyRecapDay, Classes

(* Any other day is extra or counted nowhere.                              *)
LEMMA OtherClass ==
    ASSUME NEW e, NEW c, NEW d \in Period \ Calendar(c, Period)
    PROVE  classifyRecapDay(e, c, d) = IF RecordsOn(e, d) # {} THEN "extra" ELSE "none"
<1>1. ~(IsoDay(d) \in 1..5 /\ InEmploymentWindow(c, d))
  BY SameCalendar
<1> QED BY <1>1 DEF classifyRecapDay

(* And so each counter counts the same days.                               *)
LEMMA RecapsAgree ==
    ASSUME OneRecordPerDay
    PROVE  RecapAgrees
<1> SUFFICES ASSUME NEW e \in Employees, NEW c \in Circumstances
             PROVE  LET detail == EmployeeDetail(e, c, Period)
                        pure == summarizeRecapDays(e, c, Period)
                    IN  /\ \A counter \in Counters \ {"late"} : detail.summary[counter] = pure[counter]
                        /\ Cardinality(ExtraDays(e, c, Period)) = pure.weekendAttendance
                        /\ detail.summary.working = Cardinality(listWorkingDays(c, Period))
                        /\ \A d \in DOMAIN detail.days : detail.days[d] = {classifyRecapDay(e, c, d)}
  BY DEF RecapAgrees, Period
<1> DEFINE Days == Calendar(c, Period)
           Class(d) == classifyRecapDay(e, c, d)
           Facts == DayFacts(e, c, Period)
           In(b) == {fact \in Facts : Bucket(fact) = b}
           On(b) == {d \in Period : Class(d) = b}
<1>1. Days \subseteq Period /\ Facts = {FactOf(e, c, d) : d \in Days}
  BY FactsOfDays DEF Calendar
<1>2. \A d \in Days : Bucket(FactOf(e, c, d)) = Class(d) /\ Class(d) \in Classes
  BY SameClass
<1>3. \A d \in Period \ Days : Class(d) = IF RecordsOn(e, d) # {} THEN "extra" ELSE "none"
  BY OtherClass
<1>4. ASSUME NEW b \in Classes PROVE Cardinality(In(b)) = Cardinality(On(b))
  <2> DEFINE D == {d \in Days : Class(d) = b}
  <2>1. In(b) = {FactOf(e, c, d) : d \in D}
    BY <1>1, <1>2
  <2>2. D = On(b)
    BY <1>1, <1>3 DEF Classes
  <2> QED BY <1>1, <2>1, <2>2, FactsAreCounted
<1>5. Cardinality(Facts) = Cardinality(Days)
  BY <1>1, FactsAreCounted
<1>6. {d \in Period : Class(d) \notin {"extra", "none"}} = Days
  BY <1>1, <1>2, <1>3 DEF Classes
<1>7. ExtraDays(e, c, Period) = On("extra")
  BY <1>1, <1>2, <1>3 DEF ExtraDays, Classes
<1>8. ASSUME NEW d \in Days
      PROVE  {Bucket(fact) : fact \in {f \in Facts : f.day = d}} = {Class(d)}
  <2>1. FactOf(e, c, d) \in Facts /\ \A f \in Facts : f.day = d <=> f = FactOf(e, c, d)
    <3>1. \A x : FactOf(e, c, x).day = x
      BY DEF FactOf
    <3> QED BY <1>1, <3>1
  <2>2. {f \in Facts : f.day = d} = {FactOf(e, c, d)}
    BY <2>1
  <2> QED BY <1>2, <2>2
<1>9. \A d \in On("extra") : d \notin Days /\ Class(d) = "extra"
  BY <1>2 DEF Classes
<1> DEFINE detail == EmployeeDetail(e, c, Period)
           pure == summarizeRecapDays(e, c, Period)
<1>10. \A counter \in Counters \ {"late"} : detail.summary[counter] = pure[counter]
  <2>1. /\ detail.summary.working = Cardinality(Facts)
        /\ pure.working = Cardinality({d \in Period : Class(d) \notin {"extra", "none"}})
    BY DEF EmployeeDetail, Aggregate, summarizeRecapDays
  <2>2. /\ detail.summary.present = Cardinality(In("present"))
        /\ detail.summary.leave = Cardinality(In("leave"))
        /\ detail.summary.sick = Cardinality(In("sick"))
        /\ detail.summary.permission = Cardinality(In("permission"))
        /\ detail.summary.absent = Cardinality(In("absent"))
    BY DEF EmployeeDetail, Aggregate
  <2>3. \A b \in Classes : pure[b] = Cardinality(On(b))
    BY DEF Classes, summarizeRecapDays
  <2> HIDE DEF detail, pure, In, On
  <2>4. \A b \in Classes : detail.summary[b] = pure[b]
    BY <1>4, <2>2, <2>3 DEF Classes
  <2>5. detail.summary.working = pure.working
    BY <1>5, <1>6, <2>1
  <2> QED BY <2>4, <2>5 DEF Counters, Classes
<1>11. Cardinality(ExtraDays(e, c, Period)) = pure.weekendAttendance
  BY <1>7 DEF summarizeRecapDays
<1>12. detail.summary.working = Cardinality(listWorkingDays(c, Period))
  BY <1>5, SameCalendar DEF EmployeeDetail, Aggregate
<1>13. \A d \in DOMAIN detail.days : detail.days[d] = {Class(d)}
  <2> SUFFICES ASSUME NEW d \in Days \cup ExtraDays(e, c, Period)
               PROVE  detail.days[d] = {Class(d)}
    BY DEF EmployeeDetail
  <2>1. detail.days[d] = IF d \in Days THEN {Bucket(fact) : fact \in {f \in Facts : f.day = d}}
                         ELSE {"extra"}
    BY DEF EmployeeDetail
  <2> QED BY <1>7, <1>8, <1>9, <2>1
<1> QED BY <1>10, <1>11, <1>12, <1>13

(* The readiness page calls an employee ready exactly when a check-in of   *)
(* his would be let through, the options of his page are places where he   *)
(* may check in, the recap in SQL (recap.queries.ts) and the one in        *)
(* TypeScript (recap.ts) count the same days under the same headings, and  *)
(* the export is of the period on the page: for any dates, leaves,         *)
(* permissions and records that a race of the actions can leave.           *)
THEOREM PagesStayTrue == Spec => []PagesAgree
<1>1. AttendanceConsistent => PagesAgree
  BY ReadyMeansEligible, OptionsMeanEligible, RecapsAgree, ExportsFollow
     DEF AttendanceConsistent, PagesAgree
<1> QED BY <1>1, AttendanceStaysConsistent, PTL

-----------------------------------------------------------------------------
(***************************************************************************)
(* Calls, by what they are about to do.                                    *)
(***************************************************************************)
WriteCall == [op : Ops, by : Users, of : Personnel, reenroll : BOOLEAN,
              replace : BOOLEAN, phase : {"engine", "select", "write"},
              new : Template \cup {Null}, read : SUBSET Tasks]
VerifyCall == [op : {"verify"}, by : Users, of : Personnel, read : Template]
EndedCall == [result : {"done", "failed", "lost", "matched", "not_matched", "corrupt"}]

\* Rows are read only for a replacement, and a replacement is asked for.
Asked(x) ==
    /\ x.op \in {"enroll", "revoke"}
    /\ x.op = "enroll" =>
         /\ x.replace => x.reenroll
         /\ x.phase = "select" => x.replace
         /\ x.read # {} => x.replace
         /\ x.phase # "engine" => x.new \in Template

CallStates == {Null} \cup EndedCall \cup VerifyCall \cup {x \in WriteCall : Asked(x)}

(***************************************************************************)
(* The inductive invariant, whatever the number of rotations.              *)
(***************************************************************************)
Enrolled == {i \in DOMAIN enrollment : enrollment[i].status = "active"}

RowsOK ==
    /\ DOMAIN employee \subseteq Personnel
    /\ \A e \in DOMAIN employee : employee[e] \in {"active", "inactive"}
    /\ DOMAIN enrollment \subseteq Tasks
    /\ \A i \in DOMAIN enrollment : enrollment[i] \in Enrollment
    /\ DOMAIN template \subseteq Tasks
    /\ \A i \in DOMAIN template : template[i] \in Template

KeysOK == ring \in Ring /\ rekey \subseteq Tasks /\ checked \in BOOLEAN

\* No window holds more attempts than were charged.
LedgerOK ==
    /\ charged \in 0 .. Charges
    /\ ledger \in Seq(Window) /\ Len(ledger) <= MaxEntries
    /\ \A i \in DOMAIN ledger : ledger[i].attempts <= charged

CallsOK == task \in [Tasks -> CallStates]

OneSecretEach ==
    /\ DOMAIN template = Enrolled
    /\ \A i, j \in Enrolled : enrollment[i].of = enrollment[j].of => i = j

IInv == RowsOK /\ KeysOK /\ LedgerOK /\ CallsOK /\ OneSecretEach

(***************************************************************************)
(* What keeps templates readable while the key is rotated once.            *)
(***************************************************************************)
Rings == {[primary |-> 1, previous |-> 0], [primary |-> 2, previous |-> 1],
          [primary |-> 2, previous |-> 0]}

Current(t) == t.key = ring.primary /\ t.version = ring.primary

ReadableCall(x) ==
    /\ x \in VerifyCall => Readable(x.read)
    /\ x \in WriteCall => (x.op = "enroll" /\ x.phase # "engine" => Current(x.new))
    /\ x # [result |-> "corrupt"]

RInv ==
    /\ ring \in Rings
    /\ \A i \in DOMAIN template : Readable(template[i])
    /\ \A c \in Tasks : ReadableCall(task[c])
    /\ checked => ring.previous # 0 /\ OldRows(ring.previous) = {}
-----------------------------------------------------------------------------
LEMMA CallIsTyped == CallStates \subseteq Call \cup {Null}
BY DEF CallStates, Call, WriteCall, VerifyCall, EndedCall

(* Each kind of call has its own fields.                                   *)
LEMMA CallKinds ==
    ASSUME NEW x \in CallStates
    PROVE  /\ x # Null /\ "op" \in DOMAIN x =>
                (x \in VerifyCall /\ x \notin WriteCall) \/ (x \in WriteCall /\ Asked(x) /\ x \notin VerifyCall)
           /\ x # Null /\ "phase" \in DOMAIN x => x \in WriteCall /\ Asked(x)
           /\ x \in VerifyCall => "op" \in DOMAIN x /\ "phase" \notin DOMAIN x
           /\ x \in WriteCall => "op" \in DOMAIN x /\ "phase" \in DOMAIN x
           /\ x \in EndedCall => "op" \notin DOMAIN x
<1>1. x \in VerifyCall => "op" \in DOMAIN x /\ "phase" \notin DOMAIN x
  BY DEF VerifyCall
<1>2. x \in WriteCall => "op" \in DOMAIN x /\ "phase" \in DOMAIN x
  BY DEF WriteCall
<1>3. x \in EndedCall => "op" \notin DOMAIN x /\ "phase" \notin DOMAIN x
  BY DEF EndedCall
<1>4. x = Null \/ x \in EndedCall \/ x \in VerifyCall \/ (x \in WriteCall /\ Asked(x))
  BY DEF CallStates
<1> QED BY <1>1, <1>2, <1>3, <1>4

(* A call that runs is about to verify or about to write.                  *)
LEMMA BusyCalls ==
    ASSUME CallsOK, NEW c \in Tasks, Busy(c)
    PROVE  /\ task[c].op = "verify" => task[c] \in VerifyCall
           /\ "phase" \in DOMAIN task[c] => task[c] \in WriteCall /\ Asked(task[c])
<1>1. task[c] \in CallStates
  BY DEF CallsOK
<1>2. task[c] # Null /\ "op" \in DOMAIN task[c]
  BY DEF Busy
<1>3. task[c] \in WriteCall /\ Asked(task[c]) => task[c].op # "verify"
  BY DEF Asked
<1> QED BY <1>1, <1>2, <1>3, CallKinds

LEMMA EndedIsState ==
    \A result \in {"done", "failed", "lost", "matched", "not_matched", "corrupt"} :
        [result |-> result] \in CallStates
BY DEF CallStates, EndedCall

(* Only one call moves.                                                    *)
LEMMA OneCallMoves ==
    ASSUME CallsOK, NEW c \in Tasks, NEW x \in CallStates, task' = [task EXCEPT ![c] = x]
    PROVE  CallsOK'
BY DEF CallsOK

LEMMA FinishKeepsCalls ==
    ASSUME CallsOK, NEW c \in Tasks,
           NEW result \in {"done", "failed", "lost", "matched", "not_matched", "corrupt"},
           Finish(c, result)
    PROVE  CallsOK'
BY EndedIsState, OneCallMoves DEF Finish
-----------------------------------------------------------------------------
(* The ledger.                                                             *)
LEMMA BoundedByLength ==
    ASSUME NEW S, NEW n \in Nat, NEW s \in Seq(S), Len(s) <= n
    PROVE  s \in BoundedSeq(S, n)
<1>1. Len(s) \in 0 .. n /\ s \in [1 .. Len(s) -> S]
  OBVIOUS
<1> QED BY <1>1 DEF BoundedSeq, SeqOf

(* A new window is appended, and the oldest ones are forgotten.            *)
LEMMA EvictIsLedger ==
    ASSUME MaxEntries \in Nat \ {0}, NEW l \in Seq(Window)
    PROVE  /\ Evict(l) \in Seq(Window) /\ Len(Evict(l)) <= MaxEntries
           /\ \A i \in DOMAIN Evict(l) : \E j \in DOMAIN l : Evict(l)[i] = l[j]
<1>1. CASE Len(l) <= MaxEntries
  BY <1>1 DEF Evict
<1>2. CASE Len(l) > MaxEntries
  <2> DEFINE a == Len(l) - MaxEntries + 1
             s == SubSeq(l, a, Len(l))
  <2>1. Len(l) \in Nat /\ a \in 1 .. Len(l) /\ Evict(l) = s
    BY <1>2 DEF Evict
  <2>2. s \in Seq(Window) /\ Len(s) = MaxEntries
    BY <2>1, SubSeqProperties
  <2>3. \A i \in 1 .. MaxEntries : s[i] = l[a + i - 1] /\ a + i - 1 \in 1 .. Len(l)
    BY <2>1, SubSeqProperties
  <2> QED BY <2>1, <2>2, <2>3
<1> QED BY <1>1, <1>2

LEMMA AttemptIsRecorded ==
    ASSUME FaceAssumption, LedgerOK, charged < Charges, NEW u \in Users,
           ledger' = RecordAttempt(u), charged' = charged + 1
    PROVE  LedgerOK'
<1> DEFINE known == {i \in DOMAIN ledger : ledger[i].user = u}
           w == [user |-> u, attempts |-> 1]
           counted == [i \in DOMAIN ledger |->
                         IF i \in known THEN [ledger[i] EXCEPT !.attempts = @ + 1] ELSE ledger[i]]
<1>1. Charges \in Nat /\ MaxEntries \in Nat \ {0} /\ charged \in Nat /\ charged' \in 0 .. Charges
  BY DEF FaceAssumption, LedgerOK
<1>2. CASE known = {}
  <2> DEFINE l == Append(ledger, w)
  <2>1. w \in Window
    BY <1>1 DEF LedgerOK, Window
  <2>2. l \in Seq(Window) /\ Len(l) = Len(ledger) + 1 /\ Len(ledger) \in Nat
    BY <2>1, AppendProperties DEF LedgerOK
  <2>3. \A i \in DOMAIN l : l[i].attempts <= charged'
    <3>1. \A i \in 1 .. Len(ledger) : l[i] = ledger[i] /\ ledger[i].attempts <= charged
      BY AppendProperties, <2>1 DEF LedgerOK
    <3>2. \A i \in 1 .. Len(ledger) : ledger[i].attempts \in Nat
      <4>1. \A i \in 1 .. Len(ledger) : ledger[i] \in Window
        BY DEF LedgerOK
      <4> QED BY <4>1, <1>1 DEF Window
    <3>3. l[Len(ledger) + 1] = w
      BY <2>1, AppendProperties DEF LedgerOK
    <3> QED BY <3>1, <3>2, <3>3, <2>2, <1>1
  <2>4. ledger' = Evict(l)
    BY <1>2 DEF RecordAttempt
  <2>5. Evict(l) \in Seq(Window) /\ Len(Evict(l)) <= MaxEntries
        /\ \A i \in DOMAIN Evict(l) : \E j \in DOMAIN l : Evict(l)[i] = l[j]
    BY <2>2, <1>1, EvictIsLedger
  <2> QED BY <2>3, <2>4, <2>5, <1>1 DEF LedgerOK
<1>3. CASE known # {}
  <2>1. ledger' = counted
    BY <1>3 DEF RecordAttempt
  <2>2. Len(ledger) \in Nat /\ DOMAIN ledger = 1 .. Len(ledger)
    BY DEF LedgerOK
  <2>3. ASSUME NEW i \in DOMAIN ledger
        PROVE  counted[i] \in Window /\ counted[i].attempts <= charged'
    <3>1. ledger[i] \in Window /\ ledger[i].attempts <= charged
      BY DEF LedgerOK
    <3> QED BY <3>1, <1>1 DEF Window
  <2>4. counted \in Seq(Window) /\ Len(counted) = Len(ledger)
    <3>1. counted \in [1 .. Len(ledger) -> Window]
      BY <2>2, <2>3
    <3> QED BY <3>1, <2>2, SeqDef
  <2> QED BY <1>1, <2>1, <2>2, <2>3, <2>4 DEF LedgerOK
<1> QED BY <1>2, <1>3

LEMMA WindowIsForgotten ==
    ASSUME FaceAssumption, LedgerOK, ledger # <<>>, ledger' = Tail(ledger), charged' = charged
    PROVE  LedgerOK'
<1>1. Tail(ledger) \in Seq(Window) /\ Len(Tail(ledger)) = Len(ledger) - 1
      /\ \A i \in 1 .. Len(Tail(ledger)) : Tail(ledger)[i] = ledger[i + 1] /\ i + 1 \in 1 .. Len(ledger)
  BY HeadTailProperties DEF LedgerOK
<1>2. Len(ledger) \in Nat /\ Len(Tail(ledger)) <= MaxEntries
  BY <1>1 DEF LedgerOK, FaceAssumption
<1> QED BY <1>1, <1>2 DEF LedgerOK
-----------------------------------------------------------------------------

(***************************************************************************)
(* The rows: what an insertion, a revocation and a deletion do to them.    *)
(***************************************************************************)
LEMMA RevokedProperties ==
    ASSUME RowsOK, NEW drop, NEW u \in Users
    PROVE  /\ DOMAIN Revoked(drop, u) = DOMAIN enrollment
           /\ \A i \in DOMAIN enrollment :
                /\ Revoked(drop, u)[i] \in Enrollment
                /\ Revoked(drop, u)[i].of = enrollment[i].of
                /\ i \in drop => Revoked(drop, u)[i].status = "revoked"
                /\ i \notin drop => Revoked(drop, u)[i] = enrollment[i]
<1>1. \A i \in DOMAIN enrollment : enrollment[i] \in Enrollment
  BY DEF RowsOK
<1>2. DOMAIN Revoked(drop, u) = DOMAIN enrollment
  BY DEF Revoked
<1>3. ASSUME NEW i \in DOMAIN enrollment
      PROVE  Revoked(drop, u)[i] = IF i \in drop
                 THEN [enrollment[i] EXCEPT !.status = "revoked", !.by = u] ELSE enrollment[i]
  BY DEF Revoked
<1>4. ASSUME NEW i \in DOMAIN enrollment
      PROVE  [enrollment[i] EXCEPT !.status = "revoked", !.by = u] \in
                 {x \in Enrollment : x.of = enrollment[i].of /\ x.status = "revoked"}
  BY <1>1 DEF Enrollment
<1> QED BY <1>1, <1>2, <1>3, <1>4

LEMMA WithoutProperties ==
    ASSUME NEW drop
    PROVE  /\ DOMAIN Without(drop) = DOMAIN template \ drop
           /\ \A i \in DOMAIN template \ drop : Without(drop)[i] = template[i]
BY DEF Without, Restrict

(* The rows named are revoked with their secrets, and nothing else.        *)
LEMMA RevocationKeepsRows ==
    ASSUME RowsOK, OneSecretEach, NEW drop, NEW u \in Users,
           enrollment' = Revoked(drop, u), template' = Without(drop), employee' = employee
    PROVE  RowsOK' /\ OneSecretEach'
<1>1. /\ DOMAIN enrollment' = DOMAIN enrollment
      /\ \A i \in DOMAIN enrollment :
           /\ enrollment'[i] \in Enrollment
           /\ enrollment'[i].of = enrollment[i].of
           /\ i \in drop => enrollment'[i].status = "revoked"
           /\ i \notin drop => enrollment'[i] = enrollment[i]
  BY RevokedProperties
<1>2. /\ DOMAIN template' = DOMAIN template \ drop
      /\ \A i \in DOMAIN template' : template'[i] = template[i]
  BY WithoutProperties
<1>3. Enrolled' = Enrolled \ drop
  BY <1>1 DEF Enrolled
<1>4. RowsOK'
  BY <1>1, <1>2 DEF RowsOK
<1>5. OneSecretEach'
  BY <1>1, <1>2, <1>3 DEF OneSecretEach, Enrolled
<1> QED BY <1>4, <1>5

(* A new enrollment of an employee whose active rows are all revoked.      *)
LEMMA EnrollmentKeepsRows ==
    ASSUME RowsOK, OneSecretEach, NEW drop, NEW u \in Users, NEW e \in Personnel,
           NEW c \in Tasks, NEW t \in Template, ~SlotTaken(e, drop),
           enrollment' = Insert(Revoked(drop, u), c, [of |-> e, status |-> "active", by |-> u]),
           template' = Insert(Without(drop), c, t), employee' = employee
    PROVE  RowsOK' /\ OneSecretEach'
<1> DEFINE row == [of |-> e, status |-> "active", by |-> u]
<1>1. /\ DOMAIN Revoked(drop, u) = DOMAIN enrollment
      /\ \A i \in DOMAIN enrollment :
           /\ Revoked(drop, u)[i] \in Enrollment
           /\ Revoked(drop, u)[i].of = enrollment[i].of
           /\ i \in drop => Revoked(drop, u)[i].status = "revoked"
           /\ i \notin drop => Revoked(drop, u)[i] = enrollment[i]
  BY RevokedProperties
<1>2. /\ DOMAIN Without(drop) = DOMAIN template \ drop
      /\ \A i \in DOMAIN template \ drop : Without(drop)[i] = template[i]
  BY WithoutProperties
<1>3. /\ DOMAIN enrollment' = DOMAIN enrollment \cup {c} /\ enrollment'[c] = row
      /\ \A i \in DOMAIN enrollment : i # c => enrollment'[i] = Revoked(drop, u)[i]
  <2> DEFINE R == Revoked(drop, u)
  <2>1. DOMAIN R = DOMAIN enrollment /\ enrollment' = Insert(R, c, row)
    BY <1>1
  <2> HIDE DEF R, row
  <2>2. /\ DOMAIN enrollment' = DOMAIN R \cup {c} /\ enrollment'[c] = row
        /\ \A i \in DOMAIN R : i # c => enrollment'[i] = R[i]
    BY <2>1 DEF Insert
  <2> QED BY <2>1, <2>2 DEF R
<1>4. /\ DOMAIN template' = (DOMAIN template \ drop) \cup {c} /\ template'[c] = t
      /\ \A i \in DOMAIN template \ drop : i # c => template'[i] = template[i]
  <2> DEFINE R == Without(drop)
  <2>1. template' = Insert(R, c, t)
    OBVIOUS
  <2> HIDE DEF R
  <2>2. /\ DOMAIN template' = DOMAIN R \cup {c} /\ template'[c] = t
        /\ \A i \in DOMAIN R : i # c => template'[i] = R[i]
    BY <2>1 DEF Insert
  <2> QED BY <1>2, <2>2 DEF R
<1>5. row \in Enrollment /\ row.of = e /\ row.status = "active"
  BY DEF Enrollment
<1>6. RowsOK'
  BY <1>1, <1>3, <1>4, <1>5 DEF RowsOK
<1>7. Enrolled' = (Enrolled \ drop) \cup {c}
  BY <1>1, <1>3, <1>5 DEF Enrolled
<1>8. \A i \in Enrolled \ drop : enrollment[i].of # e
  BY DEF SlotTaken, Active, Enrolled
<1>9. \A i \in Enrolled \ drop : i # c => enrollment'[i].of = enrollment[i].of
  BY <1>1, <1>3 DEF Enrolled
<1>10. OneSecretEach'
  <2>1. \A i, j \in Enrolled' : enrollment'[i].of = enrollment'[j].of => i = j
    BY <1>3, <1>5, <1>7, <1>8, <1>9 DEF OneSecretEach
  <2> QED BY <1>4, <1>7, <2>1 DEF OneSecretEach
<1> QED BY <1>6, <1>10

(* A deletion takes all the rows of the employee.                          *)
LEMMA DeletionKeepsRows ==
    ASSUME RowsOK, OneSecretEach, NEW e, DeleteEmployee(e)
    PROVE  RowsOK' /\ OneSecretEach'
<1> DEFINE drop == {i \in DOMAIN enrollment : enrollment[i].of = e}
<1>1. /\ DOMAIN template' = DOMAIN template \ drop
      /\ \A i \in DOMAIN template' : template'[i] = template[i]
  BY WithoutProperties DEF DeleteEmployee
<1>2. /\ DOMAIN enrollment' = DOMAIN enrollment \ drop
      /\ \A i \in DOMAIN enrollment' : enrollment'[i] = enrollment[i]
      /\ DOMAIN employee' = DOMAIN employee \ {e}
      /\ \A d \in DOMAIN employee' : employee'[d] = employee[d]
  BY DEF DeleteEmployee, Restrict
<1>3. RowsOK'
  BY <1>1, <1>2 DEF RowsOK
<1>4. Enrolled' = Enrolled \ drop
  BY <1>2 DEF Enrolled
<1>5. OneSecretEach'
  BY <1>1, <1>2, <1>4 DEF OneSecretEach, Enrolled
<1> QED BY <1>3, <1>5
-----------------------------------------------------------------------------

(***************************************************************************)
(* The steps keep the inductive invariant.                                 *)
(***************************************************************************)
LEMMA InitInv ==
    ASSUME FaceAssumption, FaceInit
    PROVE  IInv
<1>1. RowsOK /\ OneSecretEach
  BY DEF FaceInit, RowsOK, OneSecretEach, Enrolled
<1>2. KeysOK
  <2>1. 1 \in Generations
    BY DEF Generations, FaceAssumption
  <2> QED BY <2>1 DEF FaceInit, KeysOK, Ring
<1>3. LedgerOK
  <2>1. <<>> \in Seq(Window) /\ Len(<<>>) = 0 /\ DOMAIN <<>> = {}
    OBVIOUS
  <2>2. charged \in 0 .. Charges /\ ledger = <<>> /\ MaxEntries \in Nat
    BY DEF FaceInit, FaceAssumption
  <2> QED BY <2>1, <2>2 DEF LedgerOK
<1>4. CallsOK
  BY DEF FaceInit, CallsOK, CallStates
<1> QED BY <1>1, <1>2, <1>3, <1>4 DEF IInv

(* Parts whose variables do not change.                                    *)
LEMMA RowsStay ==
    ASSUME RowsOK, OneSecretEach, UNCHANGED <<employee, enrollment, template>>
    PROVE  RowsOK' /\ OneSecretEach'
BY DEF RowsOK, OneSecretEach, Enrolled

LEMMA KeysStay == ASSUME KeysOK, UNCHANGED <<ring, rekey, checked>> PROVE KeysOK'
BY DEF KeysOK

LEMMA LedgerStays == ASSUME LedgerOK, UNCHANGED <<ledger, charged>> PROVE LedgerOK'
BY DEF LedgerOK

LEMMA CallsStay == ASSUME CallsOK, UNCHANGED task PROVE CallsOK'
BY DEF CallsOK

(* Steps that move one call only.                                          *)
LEMMA CallStepInv ==
    ASSUME IInv, CallsOK', UNCHANGED <<employee, enrollment, template, ring, rekey, checked, ledger, charged>>
    PROVE  IInv'
BY RowsStay, KeysStay, LedgerStays DEF IInv

LEMMA BeginEnrollInv ==
    ASSUME IInv, NEW c \in Tasks, NEW u \in Users, NEW e \in Personnel, NEW r \in BOOLEAN,
           BeginEnroll(c, u, e, r)
    PROVE  IInv'
<1> DEFINE x == [op |-> "enroll", by |-> u, of |-> e, reenroll |-> r,
                 replace |-> HasActive(e), phase |-> "engine", new |-> Null, read |-> {}]
<1>1. HasActive(e) => r
  BY DEF BeginEnroll, EnrollmentGuard
<1>2. HasActive(e) \in BOOLEAN
  BY DEF HasActive
<1>3. x \in WriteCall /\ Asked(x)
  BY <1>1, <1>2 DEF WriteCall, Ops, Asked
<1>4. x \in CallStates /\ task' = [task EXCEPT ![c] = x]
  BY <1>3 DEF CallStates, BeginEnroll
<1> HIDE DEF x
<1>5. CallsOK'
  BY <1>4, OneCallMoves DEF IInv
<1> QED BY <1>5, CallStepInv DEF BeginEnroll

LEMMA CreateTemplateInv ==
    ASSUME FaceAssumption, IInv, NEW c \in Tasks, CreateTemplate(c)
    PROVE  IInv'
<1>1. CallsOK /\ Busy(c) /\ task[c] \in WriteCall /\ Asked(task[c]) /\ task[c].op = "enroll"
  BY BusyCalls DEF CreateTemplate, InWrite, IInv
<1>2. CASE Finish(c, "failed")
  BY <1>1, <1>2, FinishKeepsCalls, CallStepInv DEF CreateTemplate
<1>3. ASSUME NEW s \in BOOLEAN,
             task' = [task EXCEPT ![c].new = Encrypted(s),
                                  ![c].phase = IF task[c].replace THEN "select" ELSE "write"]
      PROVE  IInv'
  <2> DEFINE x == [task[c] EXCEPT !.new = Encrypted(s),
                                  !.phase = IF task[c].replace THEN "select" ELSE "write"]
  <2>1. Encrypted(s) \in Template
    BY DEF IInv, KeysOK, Ring, Encrypted, Template
  <2>2. x \in WriteCall /\ x.op = task[c].op /\ x.replace = task[c].replace
        /\ x.reenroll = task[c].reenroll /\ x.read = task[c].read /\ x.new = Encrypted(s)
        /\ (x.phase = "select" => task[c].replace)
    BY <1>1, <2>1 DEF WriteCall
  <2>3. Asked(x)
    BY <1>1, <2>1, <2>2 DEF Asked
  <2>4. x \in CallStates /\ task' = [task EXCEPT ![c] = x]
    BY <1>1, <1>3, <2>2, <2>3 DEF CallStates, CallsOK
  <2> HIDE DEF x
  <2>5. CallsOK'
    BY <1>1, <2>4, OneCallMoves
  <2> QED BY <2>5, CallStepInv DEF CreateTemplate
<1> QED BY <1>2, <1>3 DEF CreateTemplate

LEMMA SelectActiveInv ==
    ASSUME IInv, NEW c \in Tasks, SelectActive(c)
    PROVE  IInv'
<1>1. CallsOK /\ Busy(c) /\ task[c] \in WriteCall /\ Asked(task[c]) /\ task[c].phase = "select"
  BY BusyCalls DEF SelectActive, InWrite, IInv
<1>2. CASE Finish(c, "failed")
  BY <1>1, <1>2, FinishKeepsCalls, CallStepInv DEF SelectActive
<1>3. CASE task' = [task EXCEPT ![c].read = Active(task[c].of), ![c].phase = "write"]
  <2> DEFINE x == [task[c] EXCEPT !.read = Active(task[c].of), !.phase = "write"]
  <2>1. Active(task[c].of) \in SUBSET Tasks
    BY DEF Active, IInv, RowsOK
  <2>2. x \in WriteCall /\ x.op = task[c].op /\ x.replace = task[c].replace
        /\ x.reenroll = task[c].reenroll /\ x.new = task[c].new /\ x.phase = "write"
    BY <1>1, <2>1 DEF WriteCall
  <2>3. Asked(x)
    BY <1>1, <2>2 DEF Asked
  <2>4. x \in CallStates /\ task' = [task EXCEPT ![c] = x]
    BY <1>1, <1>3, <2>2, <2>3 DEF CallStates, CallsOK
  <2> HIDE DEF x
  <2>5. CallsOK'
    BY <1>1, <2>4, OneCallMoves
  <2> QED BY <2>5, CallStepInv DEF SelectActive
<1> QED BY <1>2, <1>3 DEF SelectActive

LEMMA StoreEnrollmentInv ==
    ASSUME IInv, NEW c \in Tasks, StoreEnrollment(c)
    PROVE  IInv'
<1> DEFINE drop == task[c].read \cap DOMAIN enrollment
           e == task[c].of
<1>1. CallsOK /\ task[c] \in WriteCall /\ Asked(task[c])
      /\ task[c].op = "enroll" /\ task[c].phase = "write"
  BY BusyCalls DEF StoreEnrollment, InWrite, IInv
<1>2. e \in Personnel /\ task[c].by \in Users /\ task[c].new \in Template
  BY <1>1 DEF WriteCall, Asked
<1>3. UNCHANGED <<employee, ring, rekey, checked, ledger, charged>>
  BY DEF StoreEnrollment
<1>4. CASE e \notin DOMAIN employee \/ SlotTaken(e, drop)
  <2>1. Finish(c, "failed") /\ UNCHANGED <<enrollment, template>>
    BY <1>4 DEF StoreEnrollment
  <2> QED BY <1>1, <1>3, <2>1, FinishKeepsCalls, CallStepInv
<1>5. CASE ~(e \notin DOMAIN employee \/ SlotTaken(e, drop))
  <2>1. /\ enrollment' = Insert(Revoked(drop, task[c].by), c,
                               [of |-> e, status |-> "active", by |-> task[c].by])
        /\ template' = Insert(Without(drop), c, task[c].new)
        /\ Finish(c, "done")
    BY <1>5 DEF StoreEnrollment
  <2>2. RowsOK' /\ OneSecretEach'
    BY <1>2, <1>3, <1>5, <2>1, EnrollmentKeepsRows DEF IInv
  <2>3. CallsOK'
    BY <1>1, <2>1, FinishKeepsCalls
  <2> QED BY <1>3, <2>2, <2>3, KeysStay, LedgerStays DEF IInv
<1> QED BY <1>4, <1>5

LEMMA BeginRevokeInv ==
    ASSUME IInv, NEW c \in Tasks, BeginRevoke(c)
    PROVE  IInv'
<1>1. PICK u \in Users, e \in DOMAIN employee :
        task' = [task EXCEPT ![c] =
                  [op |-> "revoke", by |-> u, of |-> e, reenroll |-> FALSE,
                   replace |-> FALSE, phase |-> "select", new |-> Null, read |-> {}]]
  BY DEF BeginRevoke
<1> DEFINE x == [op |-> "revoke", by |-> u, of |-> e, reenroll |-> FALSE,
                 replace |-> FALSE, phase |-> "select", new |-> Null, read |-> {}]
<1>2. e \in Personnel
  BY DEF IInv, RowsOK
<1>3. x \in WriteCall /\ Asked(x)
  BY <1>2 DEF WriteCall, Ops, Asked
<1>4. x \in CallStates
  BY <1>3 DEF CallStates
<1>5. CallsOK'
  BY <1>1, <1>4, OneCallMoves DEF IInv
<1> QED BY <1>5, CallStepInv DEF BeginRevoke

LEMMA RevokeEnrollmentInv ==
    ASSUME IInv, NEW c \in Tasks, RevokeEnrollment(c)
    PROVE  IInv'
<1> DEFINE drop == task[c].read \cap DOMAIN enrollment
<1>1. CallsOK /\ task[c] \in WriteCall
  BY BusyCalls DEF RevokeEnrollment, InWrite, IInv
<1>2. task[c].by \in Users
  BY <1>1 DEF WriteCall
<1>3. /\ enrollment' = Revoked(drop, task[c].by) /\ template' = Without(drop)
      /\ Finish(c, "done") /\ UNCHANGED <<employee, ring, rekey, checked, ledger, charged>>
  BY DEF RevokeEnrollment
<1>4. RowsOK' /\ OneSecretEach'
  BY <1>2, <1>3, RevocationKeepsRows DEF IInv
<1>5. CallsOK'
  BY <1>1, <1>3, FinishKeepsCalls
<1> QED BY <1>3, <1>4, <1>5, KeysStay, LedgerStays DEF IInv

LEMMA BeginVerifyInv ==
    ASSUME IInv, NEW c \in Tasks, BeginVerify(c)
    PROVE  IInv'
<1>1. PICK u \in Users, e \in Personnel : \E t \in VerificationTemplate(e) :
        task' = [task EXCEPT ![c] = [op |-> "verify", by |-> u, of |-> e, read |-> t]]
  BY DEF BeginVerify
<1>2. PICK t \in VerificationTemplate(e) :
        task' = [task EXCEPT ![c] = [op |-> "verify", by |-> u, of |-> e, read |-> t]]
  BY <1>1
<1>3. t \in Template
  BY DEF VerificationTemplate, IInv, RowsOK
<1>4. [op |-> "verify", by |-> u, of |-> e, read |-> t] \in CallStates
  BY <1>3 DEF CallStates, VerifyCall
<1>5. CallsOK'
  BY <1>2, <1>4, OneCallMoves DEF IInv
<1> QED BY <1>5, CallStepInv DEF BeginVerify

LEMMA CompareFaceInv ==
    ASSUME FaceAssumption, IInv, NEW c \in Tasks, CompareFace(c)
    PROVE  IInv'
<1>1. CallsOK /\ Busy(c) /\ task[c] \in VerifyCall
  BY BusyCalls DEF CompareFace, IInv
<1>2. task[c].by \in Users
  BY <1>1 DEF VerifyCall
<1>3. LedgerOK'
  BY <1>2, AttemptIsRecorded DEF CompareFace, IInv
<1>4. PICK result \in {"matched", "not_matched", "failed", "corrupt"} : Finish(c, result)
  BY DEF CompareFace
<1>5. CallsOK'
  BY <1>1, <1>4, FinishKeepsCalls
<1> QED BY <1>3, <1>5, RowsStay, KeysStay DEF CompareFace, IInv
-----------------------------------------------------------------------------

LEMMA EmployeeStepInv ==
    ASSUME IInv, NEW e \in Personnel, Deactivate(e) \/ DeleteEmployee(e)
    PROVE  IInv'
<1>1. UNCHANGED <<ring, rekey, checked, ledger, charged, task>>
  BY DEF Deactivate, DeleteEmployee
<1>2. RowsOK' /\ OneSecretEach'
  <2>1. CASE Deactivate(e)
    <3>1. DOMAIN employee' = DOMAIN employee
          /\ \A d \in DOMAIN employee' : employee'[d] \in {"active", "inactive"}
      BY <2>1 DEF Deactivate, IInv, RowsOK
    <3> QED BY <2>1, <3>1 DEF Deactivate, IInv, RowsOK, OneSecretEach, Enrolled
  <2>2. CASE DeleteEmployee(e)
    BY <2>2, DeletionKeepsRows DEF IInv
  <2> QED BY <2>1, <2>2
<1> QED BY <1>1, <1>2, KeysStay, LedgerStays, CallsStay DEF IInv

LEMMA WindowEndsInv ==
    ASSUME FaceAssumption, IInv, WindowEnds
    PROVE  IInv'
<1>1. LedgerOK'
  BY WindowIsForgotten DEF WindowEnds, IInv
<1> QED BY <1>1, RowsStay, KeysStay, CallsStay DEF WindowEnds, IInv

(* A restart loses the calls that run and the ledger.                      *)
LEMMA RestartInv ==
    ASSUME FaceAssumption, IInv, NEW r \in Ring, Restart(r), checked' \in BOOLEAN
    PROVE  IInv'
<1>1. KeysOK'
  BY DEF Restart, IInv, KeysOK
<1>2. LedgerOK'
  <2>1. <<>> \in Seq(Window) /\ Len(<<>>) = 0 /\ DOMAIN <<>> = {}
    OBVIOUS
  <2>2. charged' \in 0 .. Charges /\ ledger' = <<>> /\ MaxEntries \in Nat
    BY DEF Restart, IInv, LedgerOK, FaceAssumption
  <2> QED BY <2>1, <2>2 DEF LedgerOK
<1>3. CallsOK'
  <2>1. ASSUME NEW c \in Tasks
        PROVE  (IF Busy(c) THEN [result |-> "lost"] ELSE task[c]) \in CallStates
    BY EndedIsState DEF IInv, CallsOK
  <2> QED BY <2>1 DEF Restart, CallsOK
<1> QED BY <1>1, <1>2, <1>3, RowsStay DEF Restart, IInv

LEMMA RotationInv ==
    ASSUME FaceAssumption, IInv, OpenWindow \/ CloseWindow \/ Crash
    PROVE  IInv'
<1>1. ring \in Ring /\ checked \in BOOLEAN /\ Rotations \in Nat
  BY DEF IInv, KeysOK, FaceAssumption
<1>2. CASE OpenWindow
  <2> DEFINE r == [primary |-> ring.primary + 1, previous |-> ring.primary]
  <2>1. Restart(r) /\ checked' \in BOOLEAN /\ ring.primary <= Rotations
    BY <1>2 DEF OpenWindow
  <2>2. r \in Ring
    BY <1>1, <2>1 DEF Ring, Generations
  <2> HIDE DEF r
  <2> QED BY <2>1, <2>2, RestartInv
<1>3. CASE CloseWindow
  <2> DEFINE r == [ring EXCEPT !.previous = 0]
  <2>1. Restart(r) /\ checked' \in BOOLEAN
    BY <1>3 DEF CloseWindow
  <2>2. r \in Ring
    BY <1>1 DEF Ring
  <2> HIDE DEF r
  <2> QED BY <2>1, <2>2, RestartInv
<1>4. CASE Crash
  BY <1>1, <1>4, RestartInv DEF Crash
<1> QED BY <1>2, <1>3, <1>4

LEMMA RekeyInv ==
    ASSUME FaceAssumption, IInv, BeginRekey \/ EndRekey \/ CountOldRows
    PROVE  IInv'
<1>1. UNCHANGED <<employee, enrollment, ring, ledger, charged, task>>
  BY DEF BeginRekey, EndRekey, CountOldRows
<1>2. KeysOK'
  <2>1. DOMAIN template \subseteq Tasks /\ ring' \in Ring
    BY <1>1 DEF IInv, RowsOK, KeysOK
  <2>2. CASE BeginRekey
    BY <2>1, <2>2 DEF BeginRekey, IInv, KeysOK
  <2>3. CASE EndRekey
    BY <2>1, <2>3 DEF EndRekey, IInv, KeysOK
  <2>4. CASE CountOldRows
    BY <2>1, <2>4 DEF CountOldRows, IInv, KeysOK
  <2> QED BY <2>2, <2>3, <2>4
<1>3. DOMAIN template' = DOMAIN template /\ \A i \in DOMAIN template : template'[i] \in Template
  <2> DEFINE new(i) == [template[i] EXCEPT !.key = ring.primary, !.version = ring.primary]
  <2>1. \A i \in DOMAIN template : template[i] \in Template
    BY DEF IInv, RowsOK
  <2>2. CASE EndRekey
    <3>1. ring.primary \in Generations
      BY DEF IInv, KeysOK, Ring
    <3>2. \A i \in DOMAIN template : new(i) \in Template
      BY <2>1, <3>1 DEF Template
    <3> QED BY <2>1, <2>2, <3>2 DEF EndRekey
  <2>3. CASE UNCHANGED template
    BY <2>1, <2>3
  <2> QED BY <2>2, <2>3 DEF BeginRekey, CountOldRows
<1>4. RowsOK' /\ OneSecretEach'
  BY <1>1, <1>3 DEF IInv, RowsOK, OneSecretEach, Enrolled
<1> QED BY <1>1, <1>2, <1>4, LedgerStays, CallsStay DEF IInv

LEMMA StepInv ==
    ASSUME FaceAssumption, IInv, [FaceNext]_faceVars
    PROVE  IInv'
<1>1. ASSUME NEW c \in Tasks, EnrollFace(c) \/ SelfEnrollFace(c)
      PROVE  IInv'
  <2>1. \A u \in Users : OwnEmployee[u] \in Personnel
    BY DEF FaceAssumption
  <2> QED BY <1>1, <2>1, BeginEnrollInv DEF EnrollFace, SelfEnrollFace
<1>2. ASSUME NEW c \in Tasks,
             \/ CreateTemplate(c) \/ SelectActive(c) \/ StoreEnrollment(c)
             \/ BeginRevoke(c) \/ RevokeEnrollment(c)
             \/ BeginVerify(c) \/ CompareFace(c)
      PROVE  IInv'
  BY <1>2, CreateTemplateInv, SelectActiveInv, StoreEnrollmentInv, BeginRevokeInv,
     RevokeEnrollmentInv, BeginVerifyInv, CompareFaceInv
<1>3. CASE UNCHANGED faceVars
  BY <1>3, RowsStay, KeysStay, LedgerStays, CallsStay DEF faceVars, IInv
<1> QED BY <1>1, <1>2, <1>3, EmployeeStepInv, WindowEndsInv, RotationInv, RekeyInv DEF FaceNext

(* What the invariant says to a reader of FaceTemplates.                   *)
LEMMA InvIsTyped ==
    ASSUME FaceAssumption, IInv
    PROVE  FaceTypeOK
<1>1. ledger \in BoundedSeq(Window, MaxEntries)
  BY BoundedByLength DEF IInv, LedgerOK, FaceAssumption
<1>2. \A c \in Tasks : task[c] = Null \/ task[c] \in Call
  BY CallIsTyped DEF IInv, CallsOK
<1> QED BY <1>1, <1>2 DEF IInv, RowsOK, KeysOK, LedgerOK, FaceTypeOK

LEMMA AtMostOne ==
    ASSUME NEW S, \A x, y \in S : x = y
    PROVE  Cardinality(S) <= 1
<1>1. CASE S = {}
  BY <1>1, FS_EmptySet
<1>2. CASE S # {}
  <2>1. PICK x \in S : S = {x}
    BY <1>2
  <2> QED BY <2>1, FS_Singleton
<1> QED BY <1>1, <1>2

LEMMA InvHasOneSecret ==
    ASSUME IInv
    PROVE  SecretsFollowEnrollments
<1>1. \A e \in Personnel : \A i, j \in Active(e) : i = j
  BY DEF IInv, OneSecretEach, Enrolled, Active
<1>2. \A e \in Personnel : Cardinality(Active(e)) <= 1
  BY <1>1, AtMostOne
<1> QED BY <1>2 DEF IInv, OneSecretEach, Enrolled, SecretsFollowEnrollments
-----------------------------------------------------------------------------

(***************************************************************************)
(* The steps keep the templates readable.                                  *)
(***************************************************************************)
LEMMA CurrentIsReadable == \A t : Current(t) => Readable(t)
BY DEF Current, Readable, KeyFor

(* No rows are inserted but with the primary key, and none change its key  *)
(* but to that one.                                                        *)
LEMMA RowsStayReadable ==
    ASSUME RInv, UNCHANGED <<ring, checked>>,
           \A i \in DOMAIN template' :
               Current(template'[i]) \/ \E j \in DOMAIN template : template'[i] = template[j]
    PROVE  /\ \A i \in DOMAIN template' : Readable(template[i])'
           /\ checked' => ring'.previous # 0 /\ OldRows(ring.previous)' = {}
<1>1. \A i \in DOMAIN template' : Readable(template'[i])
  BY CurrentIsReadable DEF RInv
<1>2. ASSUME NEW i \in DOMAIN template'
      PROVE  Readable(template[i])'
  <2>1. Readable(template'[i]) /\ ring' = ring
    BY <1>1
  <2> QED BY <2>1 DEF Readable, KeyFor
<1>3. ASSUME checked, NEW i \in DOMAIN template'
      PROVE  template'[i].version # ring.previous
  <2>1. ring.primary # ring.previous
    BY DEF RInv, Rings
  <2>2. \A j \in DOMAIN template : template[j].version # ring.previous
    BY <1>3 DEF RInv, OldRows
  <2> QED BY <2>1, <2>2 DEF Current
<1>4. checked' => ring'.previous # 0 /\ OldRows(ring.previous)' = {}
  BY <1>3 DEF RInv, OldRows
<1> QED BY <1>2, <1>4

LEMMA EndedIsReadable ==
    ASSUME NEW result \in {"done", "failed", "lost", "matched", "not_matched"}
    PROVE  ReadableCall([result |-> result])
<1> DEFINE x == [result |-> result]
<1>1. x \in CallStates /\ x \in EndedCall
  BY EndedIsState DEF EndedCall
<1>2. x \notin VerifyCall /\ x \notin WriteCall
  BY <1>1, CallKinds
<1>3. x # [result |-> "corrupt"]
  OBVIOUS
<1> QED BY <1>2, <1>3 DEF ReadableCall

(* A call that runs is not the report of a corrupt template.               *)
LEMMA BusyIsReadable ==
    ASSUME NEW x \in CallStates, x \in VerifyCall => Readable(x.read),
           x \in WriteCall => (x.op = "enroll" /\ x.phase # "engine" => Current(x.new)),
           x \in VerifyCall \cup WriteCall
    PROVE  ReadableCall(x)
<1>1. "op" \in DOMAIN x
  BY CallKinds
<1>2. "op" \notin DOMAIN [result |-> "corrupt"]
  OBVIOUS
<1> QED BY <1>1, <1>2 DEF ReadableCall

LEMMA CallsStayReadable ==
    ASSUME CallsOK, RInv, UNCHANGED ring, NEW c \in Tasks, NEW x, ReadableCall(x),
           task' = [task EXCEPT ![c] = x]
    PROVE  \A d \in Tasks : ReadableCall(task[d])'
<1>1. ASSUME NEW d \in Tasks PROVE ReadableCall(task'[d])
  BY DEF CallsOK, RInv
<1> QED BY <1>1 DEF ReadableCall, Readable, KeyFor, Current

(* Steps of a call that change no row.                                     *)
LEMMA CallStepReadable ==
    ASSUME IInv, RInv, UNCHANGED <<template, ring, checked>>, NEW c \in Tasks,
           NEW x, ReadableCall(x), task' = [task EXCEPT ![c] = x]
    PROVE  RInv'
<1>1. \A d \in Tasks : ReadableCall(task[d])'
  BY CallsStayReadable DEF IInv
<1>2. ring' \in Rings
  BY DEF RInv
<1>3. /\ \A i \in DOMAIN template' : Readable(template[i])'
      /\ checked' => ring'.previous # 0 /\ OldRows(ring.previous)' = {}
  <2>1. \A i \in DOMAIN template' : \E j \in DOMAIN template : template'[i] = template[j]
    OBVIOUS
  <2> QED BY <2>1, RowsStayReadable
<1> QED BY <1>1, <1>2, <1>3 DEF RInv

LEMMA BeginReadable ==
    ASSUME IInv, RInv, NEW c \in Tasks,
           EnrollFace(c) \/ SelfEnrollFace(c) \/ BeginRevoke(c) \/ BeginVerify(c)
    PROVE  RInv'
<1>1. ASSUME NEW x \in CallStates, x \in WriteCall, x.op = "revoke" \/ x.phase = "engine",
             task' = [task EXCEPT ![c] = x], UNCHANGED <<template, ring, checked>>
      PROVE  RInv'
  <2>1. x \notin VerifyCall
    BY <1>1, CallKinds
  <2>2. ReadableCall(x)
    BY <1>1, <2>1, BusyIsReadable
  <2> QED BY <1>1, <2>2, CallStepReadable
<1>2. ASSUME NEW u \in Users, NEW e, NEW r \in BOOLEAN, BeginEnroll(c, u, e, r), e \in Personnel
      PROVE  RInv'
  <2> DEFINE x == [op |-> "enroll", by |-> u, of |-> e, reenroll |-> r,
                   replace |-> HasActive(e), phase |-> "engine", new |-> Null, read |-> {}]
  <2>1. HasActive(e) \in BOOLEAN /\ (HasActive(e) => r)
    BY <1>2 DEF HasActive, BeginEnroll, EnrollmentGuard
  <2>2. x \in WriteCall /\ Asked(x) /\ x.phase = "engine"
    BY <1>2, <2>1 DEF WriteCall, Ops, Asked
  <2>3. x \in CallStates /\ task' = [task EXCEPT ![c] = x] /\ UNCHANGED <<template, ring, checked>>
    BY <1>2, <2>2 DEF CallStates, BeginEnroll
  <2> HIDE DEF x
  <2> QED BY <1>1, <2>2, <2>3
<1>3. CASE BeginRevoke(c)
  <2>1. PICK u \in Users, e \in DOMAIN employee :
          task' = [task EXCEPT ![c] =
                    [op |-> "revoke", by |-> u, of |-> e, reenroll |-> FALSE,
                     replace |-> FALSE, phase |-> "select", new |-> Null, read |-> {}]]
    BY <1>3 DEF BeginRevoke
  <2> DEFINE x == [op |-> "revoke", by |-> u, of |-> e, reenroll |-> FALSE,
                   replace |-> FALSE, phase |-> "select", new |-> Null, read |-> {}]
  <2>2. e \in Personnel
    BY DEF IInv, RowsOK
  <2>3. x \in WriteCall /\ Asked(x) /\ x.op = "revoke"
    BY <2>2 DEF WriteCall, Ops, Asked
  <2>4. x \in CallStates /\ UNCHANGED <<template, ring, checked>>
    BY <1>3, <2>3 DEF CallStates, BeginRevoke
  <2>5. task' = [task EXCEPT ![c] = x]
    BY <2>1
  <2> HIDE DEF x
  <2> QED BY <1>1, <2>3, <2>4, <2>5
<1>4. CASE BeginVerify(c)
  <2>1. PICK u \in Users, e \in Personnel : \E t \in VerificationTemplate(e) :
          task' = [task EXCEPT ![c] = [op |-> "verify", by |-> u, of |-> e, read |-> t]]
    BY <1>4 DEF BeginVerify
  <2>2. PICK t \in VerificationTemplate(e) :
          task' = [task EXCEPT ![c] = [op |-> "verify", by |-> u, of |-> e, read |-> t]]
    BY <2>1
  <2> DEFINE x == [op |-> "verify", by |-> u, of |-> e, read |-> t]
  <2>3. t \in Template /\ Readable(t)
    BY DEF VerificationTemplate, IInv, RowsOK, RInv
  <2>4. x \in VerifyCall /\ x.read = t
    BY <2>3 DEF VerifyCall
  <2>5. x \in CallStates
    BY <2>4 DEF CallStates
  <2>6. x \notin WriteCall
    BY <2>4, <2>5, CallKinds
  <2>7. task' = [task EXCEPT ![c] = x]
    BY <2>2
  <2> HIDE DEF x
  <2>8. ReadableCall(x)
    BY <2>3, <2>4, <2>5, <2>6, BusyIsReadable
  <2> QED BY <1>4, <2>7, <2>8, CallStepReadable DEF BeginVerify
<1>5. CASE EnrollFace(c)
  BY <1>2, <1>5 DEF EnrollFace
<1>6. ASSUME SelfEnrollFace(c), FaceAssumption PROVE RInv'
  BY <1>2, <1>6 DEF SelfEnrollFace, FaceAssumption
<1> QED BY <1>3, <1>4, <1>5, <1>6, FaceAssumption

LEMMA FinishReadable ==
    ASSUME IInv, RInv, UNCHANGED <<template, ring, checked>>, NEW c \in Tasks,
           NEW result \in {"done", "failed", "lost", "matched", "not_matched"}, Finish(c, result)
    PROVE  RInv'
BY EndedIsReadable, CallStepReadable DEF Finish

LEMMA CreateTemplateReadable ==
    ASSUME FaceAssumption, IInv, RInv, NEW c \in Tasks, CreateTemplate(c)
    PROVE  RInv'
<1>1. CallsOK /\ task[c] \in WriteCall /\ Asked(task[c])
  BY BusyCalls DEF CreateTemplate, InWrite, IInv
<1>2. UNCHANGED <<template, ring, checked>>
  BY DEF CreateTemplate
<1>3. ASSUME NEW s \in BOOLEAN,
             task' = [task EXCEPT ![c].new = Encrypted(s),
                                  ![c].phase = IF task[c].replace THEN "select" ELSE "write"]
      PROVE  RInv'
  <2> DEFINE x == [task[c] EXCEPT !.new = Encrypted(s),
                                  !.phase = IF task[c].replace THEN "select" ELSE "write"]
  <2>1. task' = [task EXCEPT ![c] = x]
    BY <1>1, <1>3 DEF CallsOK
  <2>2. x.new = Encrypted(s) /\ x = task'[c]
    BY <1>1, <2>1 DEF WriteCall, CallsOK
  <2>3. Current(x.new)
    BY <2>2 DEF Current, Encrypted
  <2>4. x \in CallStates
    BY <2>2, CreateTemplateInv DEF IInv, CallsOK
  <2>5. "phase" \in DOMAIN x
    BY <1>1 DEF WriteCall
  <2>6. x \in WriteCall /\ x \notin VerifyCall
    <3>1. Encrypted(s) \in Template
      BY DEF IInv, KeysOK, Ring, Encrypted, Template
    <3>2. x \in WriteCall
      BY <1>1, <3>1 DEF WriteCall
    <3> QED BY <2>4, <2>5, <3>2, CallKinds
  <2> HIDE DEF x
  <2>7. ReadableCall(x)
    BY <2>3, <2>4, <2>6, BusyIsReadable
  <2> QED BY <1>2, <2>1, <2>7, CallStepReadable
<1> QED BY <1>2, <1>3, FinishReadable DEF CreateTemplate

LEMMA SelectActiveReadable ==
    ASSUME IInv, RInv, NEW c \in Tasks, SelectActive(c)
    PROVE  RInv'
<1>1. CallsOK /\ task[c] \in WriteCall /\ Asked(task[c]) /\ task[c].phase = "select"
  BY BusyCalls DEF SelectActive, InWrite, IInv
<1>2. UNCHANGED <<template, ring, checked>>
  BY DEF SelectActive
<1>3. CASE task' = [task EXCEPT ![c].read = Active(task[c].of), ![c].phase = "write"]
  <2> DEFINE x == [task[c] EXCEPT !.read = Active(task[c].of), !.phase = "write"]
  <2>1. task' = [task EXCEPT ![c] = x]
    BY <1>1, <1>3 DEF CallsOK
  <2>2. x = task'[c] /\ x.new = task[c].new /\ x.op = task[c].op
    BY <1>1, <2>1 DEF WriteCall, CallsOK
  <2>3. x.op = "enroll" => Current(x.new)
    BY <1>1, <2>2 DEF RInv, ReadableCall
  <2>4. x \in CallStates
    BY <2>2, SelectActiveInv DEF IInv, CallsOK
  <2>5. Active(task[c].of) \in SUBSET Tasks
    BY DEF Active, IInv, RowsOK
  <2>6. x \in WriteCall
    BY <1>1, <2>5 DEF WriteCall
  <2>7. x \notin VerifyCall
    BY <2>4, <2>6, CallKinds
  <2> HIDE DEF x
  <2>8. ReadableCall(x)
    BY <2>3, <2>4, <2>6, <2>7, BusyIsReadable
  <2> QED BY <1>2, <2>1, <2>8, CallStepReadable
<1> QED BY <1>2, <1>3, FinishReadable DEF SelectActive

(* A step of a call that writes: it ends, and every row is an old one or   *)
(* the one the call encrypted.                                             *)
LEMMA WriteReadable ==
    ASSUME IInv, RInv, UNCHANGED <<ring, checked>>, NEW c \in Tasks, Finish(c, "done"),
           \A i \in DOMAIN template' :
               Current(template'[i]) \/ \E j \in DOMAIN template : template'[i] = template[j]
    PROVE  RInv'
<1>1. /\ \A i \in DOMAIN template' : Readable(template[i])'
      /\ checked' => ring'.previous # 0 /\ OldRows(ring.previous)' = {}
  BY RowsStayReadable
<1>2. \A d \in Tasks : ReadableCall(task[d])'
  BY EndedIsReadable, CallsStayReadable DEF Finish, IInv
<1> QED BY <1>1, <1>2 DEF RInv

LEMMA StoreEnrollmentReadable ==
    ASSUME IInv, RInv, NEW c \in Tasks, StoreEnrollment(c)
    PROVE  RInv'
<1> DEFINE drop == task[c].read \cap DOMAIN enrollment
           e == task[c].of
<1>1. task[c] \in WriteCall /\ task[c].op = "enroll" /\ task[c].phase = "write"
  BY BusyCalls DEF StoreEnrollment, InWrite, IInv
<1>2. UNCHANGED <<ring, checked>>
  BY DEF StoreEnrollment
<1>3. CASE Finish(c, "failed") /\ UNCHANGED <<enrollment, template>>
  BY <1>2, <1>3, FinishReadable
<1>4. CASE Finish(c, "done") /\ template' = Insert(Without(drop), c, task[c].new)
  <2>1. Current(task[c].new)
    BY <1>1 DEF RInv, ReadableCall
  <2>2. \A i \in DOMAIN template' : i # c => i \in DOMAIN template /\ template'[i] = template[i]
    BY <1>4 DEF Insert, Without, Restrict
  <2>3. template'[c] = task[c].new
    BY <1>4 DEF Insert
  <2>4. \A i \in DOMAIN template' :
          Current(template'[i]) \/ \E j \in DOMAIN template : template'[i] = template[j]
    BY <2>1, <2>2, <2>3
  <2> QED BY <1>2, <1>4, <2>4, WriteReadable
<1> QED BY <1>3, <1>4 DEF StoreEnrollment

LEMMA RevokeEnrollmentReadable ==
    ASSUME IInv, RInv, NEW c \in Tasks, RevokeEnrollment(c)
    PROVE  RInv'
<1>1. \A i \in DOMAIN template' : i \in DOMAIN template /\ template'[i] = template[i]
  BY WithoutProperties DEF RevokeEnrollment
<1>2. \A i \in DOMAIN template' :
        Current(template'[i]) \/ \E j \in DOMAIN template : template'[i] = template[j]
  BY <1>1
<1> QED BY <1>2, WriteReadable DEF RevokeEnrollment

(* What a verification compares is readable, so it reports nothing corrupt. *)
LEMMA CompareFaceReadable ==
    ASSUME IInv, RInv, NEW c \in Tasks, CompareFace(c)
    PROVE  RInv'
<1>1. task[c] \in VerifyCall
  BY BusyCalls DEF CompareFace, IInv
<1>2. Readable(task[c].read)
  BY <1>1 DEF RInv, ReadableCall
<1>3. PICK result \in {"matched", "not_matched", "failed"} : Finish(c, result)
  BY <1>2 DEF CompareFace
<1> QED BY <1>3, FinishReadable DEF CompareFace

(* Steps of no call, with the same keys.                                   *)
LEMMA OtherStepReadable ==
    ASSUME RInv, UNCHANGED <<ring, checked, task>>,
           \A i \in DOMAIN template' :
               Current(template'[i]) \/ \E j \in DOMAIN template : template'[i] = template[j]
    PROVE  RInv'
<1>1. /\ \A i \in DOMAIN template' : Readable(template[i])'
      /\ checked' => ring'.previous # 0 /\ OldRows(ring.previous)' = {}
  BY RowsStayReadable
<1>2. \A d \in Tasks : ReadableCall(task[d])'
  BY DEF RInv, ReadableCall, Readable, KeyFor, Current
<1> QED BY <1>1, <1>2 DEF RInv

LEMMA EmployeeStepReadable ==
    ASSUME RInv, NEW e \in Personnel, Deactivate(e) \/ DeleteEmployee(e)
    PROVE  RInv'
<1>1. \A i \in DOMAIN template' : i \in DOMAIN template /\ template'[i] = template[i]
  BY DEF Deactivate, DeleteEmployee, Without, Restrict
<1>2. UNCHANGED <<ring, checked, task>>
  BY DEF Deactivate, DeleteEmployee
<1> QED BY <1>1, <1>2, OtherStepReadable

LEMMA RekeyReadable ==
    ASSUME IInv, RInv, BeginRekey \/ EndRekey \/ CountOldRows
    PROVE  RInv'
<1>1. CASE BeginRekey
  BY <1>1, OtherStepReadable DEF BeginRekey
<1>2. CASE EndRekey
  <2> DEFINE new(i) == [template[i] EXCEPT !.key = ring.primary, !.version = ring.primary]
  <2>1. \A i \in DOMAIN template : Current(new(i))
    <3>1. \A i \in DOMAIN template : template[i] \in Template
      BY DEF IInv, RowsOK
    <3> QED BY <3>1 DEF Template, Current
  <2>2. DOMAIN template' = DOMAIN template
        /\ \A i \in DOMAIN template : template'[i] = new(i) \/ template'[i] = template[i]
    BY <1>2 DEF EndRekey
  <2>3. \A i \in DOMAIN template' :
          Current(template'[i]) \/ \E j \in DOMAIN template : template'[i] = template[j]
    BY <2>1, <2>2
  <2> QED BY <1>2, <2>3, OtherStepReadable DEF EndRekey
<1>3. CASE CountOldRows
  <2>1. UNCHANGED <<template, ring, task>> /\ checked' = (OldRows(ring.previous) = {})
        /\ ring.previous # 0
    BY <1>3 DEF CountOldRows
  <2>2. checked' => ring'.previous # 0 /\ OldRows(ring.previous)' = {}
    BY <2>1 DEF OldRows
  <2>3. \A d \in Tasks : ReadableCall(task[d])'
    BY <2>1 DEF RInv, ReadableCall, Readable, KeyFor, Current
  <2>4. ring' \in Rings /\ \A i \in DOMAIN template' : Readable(template[i])'
    BY <2>1 DEF RInv, Readable, KeyFor
  <2> QED BY <2>2, <2>3, <2>4 DEF RInv
<1> QED BY <1>1, <1>2, <1>3

(* After a restart nothing is in the hands of a call.                      *)
LEMMA RestartedCalls ==
    ASSUME CallsOK, RInv, NEW r, Restart(r)
    PROVE  \A c \in Tasks : ReadableCall(task[c])'
<1>1. ASSUME NEW c \in Tasks
      PROVE  /\ task'[c] \notin VerifyCall /\ task'[c] \notin WriteCall
             /\ task'[c] # [result |-> "corrupt"]
  <2>1. task'[c] = IF Busy(c) THEN [result |-> "lost"] ELSE task[c]
    BY DEF Restart
  <2>2. CASE Busy(c)
    BY <2>1, <2>2, EndedIsState, CallKinds DEF EndedCall
  <2>3. CASE ~Busy(c)
    <3>1. task[c] \in CallStates /\ task[c] # [result |-> "corrupt"]
      BY DEF CallsOK, RInv, ReadableCall
    <3>2. Null \notin VerifyCall /\ Null \notin WriteCall
      BY NullIsNoCall DEF Call, VerifyCall, WriteCall
    <3> QED BY <2>1, <2>3, <3>1, <3>2, CallKinds DEF Busy
  <2> QED BY <2>2, <2>3
<1> QED BY <1>1 DEF ReadableCall

(* The window is opened once, on rows of the first key, and closed when no *)
(* row of it is left.                                                      *)
LEMMA RotationReadable ==
    ASSUME Rotations \in {0, 1}, IInv, RInv, OpenWindow \/ CloseWindow \/ Crash
    PROVE  RInv'
<1>1. UNCHANGED template /\ \A c \in Tasks : ReadableCall(task[c])'
  BY RestartedCalls DEF OpenWindow, CloseWindow, Crash, Restart, IInv
<1>2. CASE OpenWindow
  <2>1. ring = [primary |-> 1, previous |-> 0]
    BY <1>2 DEF OpenWindow, RInv, Rings
  <2>2. ring' = [primary |-> 2, previous |-> 1] /\ checked' = FALSE
    BY <1>2, <2>1 DEF OpenWindow, Restart
  <2>3. \A i \in DOMAIN template : template[i].version = 1 /\ template[i].key = 1
    <3>1. ASSUME NEW i \in DOMAIN template PROVE template[i].version = 1 /\ template[i].key = 1
      <4>1. Readable(template[i]) /\ template[i].key \in Generations
        BY DEF RInv, IInv, RowsOK, Template
      <4>2. template[i].key # 0
        BY <4>1 DEF Generations
      <4> QED BY <2>1, <4>1, <4>2 DEF Readable, KeyFor
    <3> QED BY <3>1
  <2>4. \A i \in DOMAIN template' : Readable(template[i])'
    BY <1>1, <2>2, <2>3 DEF Readable, KeyFor, DefaultVersion
  <2> QED BY <1>1, <2>2, <2>4 DEF RInv, Rings
<1>3. CASE CloseWindow
  <2>1. ring = [primary |-> 2, previous |-> 1] /\ OldRows(1) = {}
    BY <1>3 DEF CloseWindow, RInv, Rings
  <2>2. ring' = [primary |-> 2, previous |-> 0] /\ checked' = FALSE
    BY <1>3, <2>1 DEF CloseWindow, Restart
  <2>3. ASSUME NEW i \in DOMAIN template PROVE template[i].version = 2 /\ template[i].key = 2
    <3>1. Readable(template[i]) /\ template[i].key \in Generations /\ template[i].version # 1
      BY <2>1 DEF RInv, IInv, RowsOK, Template, OldRows
    <3>2. template[i].key # 0
      BY <3>1 DEF Generations
    <3> QED BY <2>1, <3>1, <3>2 DEF Readable, KeyFor, DefaultVersion
  <2>4. \A i \in DOMAIN template' : Readable(template[i])'
    BY <1>1, <2>2, <2>3 DEF Readable, KeyFor
  <2> QED BY <1>1, <2>2, <2>4 DEF RInv, Rings
<1>4. CASE Crash
  <2>1. ring' = ring /\ checked' = checked
    BY <1>4 DEF Crash, Restart
  <2>2. \A i \in DOMAIN template' : \E j \in DOMAIN template : template'[i] = template[j]
    BY <1>1
  <2> QED BY <1>1, <2>1, <2>2, RowsStayReadable DEF RInv
<1> QED BY <1>2, <1>3, <1>4

LEMMA StepReadable ==
    ASSUME FaceAssumption, Rotations \in {0, 1}, IInv, RInv, [FaceNext]_faceVars
    PROVE  RInv'
<1>1. ASSUME NEW c \in Tasks,
             \/ EnrollFace(c) \/ SelfEnrollFace(c) \/ BeginRevoke(c) \/ BeginVerify(c)
             \/ CreateTemplate(c) \/ SelectActive(c)
             \/ StoreEnrollment(c) \/ RevokeEnrollment(c) \/ CompareFace(c)
      PROVE  RInv'
  BY <1>1, BeginReadable, CreateTemplateReadable, SelectActiveReadable,
     StoreEnrollmentReadable, RevokeEnrollmentReadable, CompareFaceReadable
<1>2. CASE WindowEnds
  BY <1>2, OtherStepReadable DEF WindowEnds
<1>3. CASE UNCHANGED faceVars
  BY <1>3, OtherStepReadable DEF faceVars
<1> QED BY <1>1, <1>2, <1>3, EmployeeStepReadable, RekeyReadable, RotationReadable DEF FaceNext

LEMMA InitReadable ==
    ASSUME FaceInit
    PROVE  RInv
<1>1. ring \in Rings /\ DOMAIN template = {} /\ checked = FALSE
  BY DEF FaceInit, Rings
<1>2. Null \notin VerifyCall /\ Null \notin WriteCall /\ Null # [result |-> "corrupt"]
  BY NullIsNoCall DEF Call, VerifyCall, WriteCall
<1>3. \A c \in Tasks : ReadableCall(task[c])
  BY <1>2 DEF FaceInit, ReadableCall
<1> QED BY <1>1, <1>3 DEF RInv

LEMMA InvIsReadable ==
    ASSUME IInv, RInv
    PROVE  TemplatesStayReadable
<1>1. ASSUME NEW c \in Tasks
      PROVE  /\ Busy(c) /\ task[c].op = "verify" => Readable(task[c].read)
             /\ task[c] # [result |-> "corrupt"]
  BY BusyCalls DEF RInv, ReadableCall, IInv
<1> QED BY <1>1 DEF RInv, TemplatesStayReadable
-----------------------------------------------------------------------------
(***************************************************************************)
(* The theorems.                                                           *)
(***************************************************************************)

(* A step that revokes an active enrollment is one that asks for it: the   *)
(* row a replacement revokes was read for that replacement.                *)
LEMMA StepRevokesOnRequest ==
    ASSUME IInv, [FaceNext]_faceVars, NEW i \in DOMAIN enrollment, enrollment[i].status = "active",
           i \in DOMAIN enrollment', enrollment'[i].status = "revoked"
    PROVE  \E c \in Tasks : /\ Busy(c) /\ task'[c] = [result |-> "done"]
                            /\ task[c].op = "revoke" \/ task[c].reenroll
<1>1. ASSUME UNCHANGED enrollment PROVE FALSE
  BY <1>1
<1>2. ASSUME NEW c \in Tasks, Finish(c, "done") PROVE task'[c] = [result |-> "done"]
  BY <1>2 DEF Finish, IInv, CallsOK
<1>3. CASE \E c \in Tasks : StoreEnrollment(c)
  <2>1. PICK c \in Tasks : StoreEnrollment(c)
    BY <1>3
  <2> DEFINE drop == task[c].read \cap DOMAIN enrollment
  <2>2. task[c] \in WriteCall /\ Asked(task[c]) /\ Busy(c) /\ task[c].op = "enroll"
    BY <2>1, BusyCalls DEF StoreEnrollment, InWrite, IInv
  <2>3. /\ Finish(c, "done")
        /\ enrollment' = Insert(Revoked(drop, task[c].by), c,
                               [of |-> task[c].of, status |-> "active", by |-> task[c].by])
    BY <1>1, <2>1 DEF StoreEnrollment
  <2>4. i # c => enrollment'[i] = Revoked(drop, task[c].by)[i]
    BY <2>3 DEF Insert, Revoked
  <2>5. i # c
    BY <2>3 DEF Insert
  <2>6. i \in drop
    BY <2>4, <2>5 DEF Revoked
  <2>7. task[c].reenroll
    BY <2>2, <2>6 DEF Asked
  <2> QED BY <1>2, <2>2, <2>3, <2>7
<1>4. CASE \E c \in Tasks : RevokeEnrollment(c)
  <2>1. PICK c \in Tasks : RevokeEnrollment(c)
    BY <1>4
  <2> QED BY <1>2, <2>1 DEF RevokeEnrollment, InWrite
<1>5. CASE \E e \in Personnel : DeleteEmployee(e)
  <2>1. enrollment'[i] = enrollment[i]
    BY <1>5 DEF DeleteEmployee, Restrict
  <2> QED BY <2>1
<1>6. CASE UNCHANGED enrollment
  BY <1>1, <1>6
<1>7. \/ UNCHANGED enrollment
      \/ \E c \in Tasks : StoreEnrollment(c) \/ RevokeEnrollment(c)
      \/ \E e \in Personnel : DeleteEmployee(e)
  <2>1. CASE \E c \in Tasks : EnrollFace(c) \/ SelfEnrollFace(c) \/ CreateTemplate(c)
                               \/ SelectActive(c) \/ BeginRevoke(c) \/ BeginVerify(c) \/ CompareFace(c)
    BY <2>1 DEF EnrollFace, SelfEnrollFace, BeginEnroll, CreateTemplate, SelectActive,
                BeginRevoke, BeginVerify, CompareFace
  <2>2. CASE \/ \E e \in Personnel : Deactivate(e)
             \/ WindowEnds \/ OpenWindow \/ CloseWindow \/ Crash
             \/ BeginRekey \/ EndRekey \/ CountOldRows
    BY <2>2 DEF Deactivate, WindowEnds, OpenWindow, CloseWindow, Crash, Restart,
                BeginRekey, EndRekey, CountOldRows
  <2>3. CASE UNCHANGED faceVars
    BY <2>3 DEF faceVars
  <2> QED BY <2>1, <2>2, <2>3 DEF FaceNext
<1> QED BY <1>3, <1>4, <1>5, <1>6, <1>7

(* Whatever overlaps and however often the key is rotated, each active     *)
(* enrollment has its one secret and no other enrollment has any.          *)
THEOREM SecretsAreKept == FaceSpec => [](FaceTypeOK /\ SecretsFollowEnrollments)
<1>1. FaceInit => IInv
  BY FaceAssumption, InitInv
<1>2. IInv /\ [FaceNext]_faceVars => IInv'
  BY FaceAssumption, StepInv
<1>3. IInv => FaceTypeOK /\ SecretsFollowEnrollments
  BY FaceAssumption, InvIsTyped, InvHasOneSecret
<1> QED BY <1>1, <1>2, <1>3, PTL DEF FaceSpec

(* While the key is rotated at most once, whatever crashes, re-keyings and *)
(* verifications overlap, what is stored can be decrypted.                 *)
THEOREM TemplatesStayConsistent ==
    ASSUME Rotations \in {0, 1}
    PROVE  FaceSpec => []TemplatesConsistent
<1>1. FaceInit => IInv /\ RInv
  BY FaceAssumption, InitInv, InitReadable
<1>2. IInv /\ RInv /\ [FaceNext]_faceVars => (IInv /\ RInv)'
  BY FaceAssumption, StepInv, StepReadable
<1>3. IInv /\ RInv => TemplatesConsistent
  BY FaceAssumption, InvIsTyped, InvHasOneSecret, InvIsReadable DEF TemplatesConsistent
<1> QED BY <1>1, <1>2, <1>3, PTL DEF FaceSpec

(* No enrollment is replaced or revoked that nobody asked to replace or    *)
(* revoke, however stale what the form showed was.                         *)
THEOREM FacesOnlyReplacedOnRequest == FaceSpec => OnlyReplacedOnRequest
<1>1. FaceInit => IInv
  BY FaceAssumption, InitInv
<1>2. IInv /\ [FaceNext]_faceVars => IInv'
  BY FaceAssumption, StepInv
<1> DEFINE A == \A i \in DOMAIN enrollment :
                 (enrollment[i].status = "active" /\ i \in DOMAIN enrollment'
                     /\ enrollment'[i].status = "revoked")
                   => \E c \in Tasks : /\ Busy(c) /\ task'[c] = [result |-> "done"]
                                       /\ task[c].op = "revoke" \/ task[c].reenroll
<1>3. IInv /\ [FaceNext]_faceVars => [A]_faceVars
  BY StepRevokesOnRequest
<1>4. FaceSpec => [][A]_faceVars
  BY <1>1, <1>2, <1>3, PTL DEF FaceSpec
<1> QED BY <1>4 DEF OnlyReplacedOnRequest
=============================================================================
