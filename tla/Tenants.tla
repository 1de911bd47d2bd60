------------------------------ MODULE Tenants ------------------------------
(***************************************************************************)
(* Organizations: the server actions of features/organizations, the        *)
(* projects that a super administrator puts into one (features/projects),  *)
(* and what both mean for the calls of Accounts.                           *)
(*                                                                         *)
(* A call is one of Accounts or a task of this module, never both.  A task *)
(* reads and decides in one step, writes in a second one and appends to    *)
(* the audit log in a third, which may fail.  Nothing is locked.           *)
(*                                                                         *)
(* Data: names, which only the check before a write compares, and dates    *)
(* are left out; a refused form is a task that does not begin.  `audited`  *)
(* has the organizations of the entries that tasks have written: whoever   *)
(* has entries of Accounts has rows of Accounts as well.                   *)
(***************************************************************************)
EXTENDS Accounts

CONSTANTS OrganizationCodes, SystemCode,
          seeded      \* organizations of the first state, by code

ASSUME TenantsAssumption ==
    /\ SystemCode \in OrganizationCodes
    /\ DOMAIN seeded \subseteq Organizations /\ seeded \in [DOMAIN seeded -> OrganizationCodes]
    /\ {SystemOrganization, tenant} \subseteq DOMAIN seeded
    /\ \A o \in DOMAIN seeded : seeded[o] = SystemCode <=> o = SystemOrganization
    /\ \A o, p \in DOMAIN seeded : seeded[o] = seeded[p] => o = p
    /\ \A e \in Employees : EmployeeOrganization[e] \in DOMAIN seeded
    /\ tenant # SystemOrganization

VARIABLES organization,  \* rows of organizations
          project,       \* rows of projects, by the task that inserted them
          audited,       \* organizations that audit entries refer to
          closed,        \* ids of deleted organizations, which are never given again
          task           \* what each task has read and still has to write

records == <<organization, project, audited, closed>>
tenantVars == <<vars, records, task>>

Organization == [code : OrganizationCodes, status : {"active", "inactive"}]

Exists(o) == o \in DOMAIN organization
Available(o) == Exists(o) /\ organization[o].status = "active"

-----------------------------------------------------------------------------
(* Tasks                                                                   *)

NoTask == [op |-> "none"]
TaskDone == [op |-> "done"]

SuperAdminActor(u) == RequireUser(u) /\ IsSuperAdmin(u)

StartTask(c, r) == /\ call[c] = Idle /\ task[c] = NoTask
                   /\ task' = [task EXCEPT ![c] = r]
                   /\ UNCHANGED records
EndTask(c) == task' = [task EXCEPT ![c] = TaskDone]
\* The entry is written after the rows, for an organization that may be gone.
AuditNext(c, o) == task' = [task EXCEPT ![c] = [op |-> "audit", on |-> o]]

FailTask(c) == /\ task[c].op \notin {"none", "done"}
               /\ EndTask(c) /\ UNCHANGED records

\* The foreign key refuses an entry about an organization that is gone.
WriteAuditLog(c) ==
    /\ task[c].op = "audit" /\ Exists(task[c].on)
    /\ audited' = audited \cup {task[c].on}
    /\ EndTask(c)
    /\ UNCHANGED <<organization, project, closed>>

-----------------------------------------------------------------------------
(* features/organizations                                                  *)

ProjectsOf(o) == {p \in DOMAIN project : project[p] = o}

\* Rows the scan counts, by category.  Of the tables these parts do not write
\* projects stand for all: they refer to the organization without ON DELETE.
detectOrganizationDependencies(o) ==
    [users |-> Cardinality({u \in DOMAIN account : account[u].org = o}),
     employees |-> Cardinality({e \in Employees : EmployeeOrganization[e] = o}),
     roles |-> Cardinality({r \in DOMAIN role : role[r].org = o}),
     projects |-> Cardinality(ProjectsOf(o)),
     audit |-> Cardinality({o} \cap audited)]

hasAny(counts) == \E k \in DOMAIN counts : counts[k] > 0

\* MUTANT of evaluateOrganizationAction: any organization can be deactivated.
evaluateDeletionOnly(operation, code, counts) ==
    operation = "delete" => code # SystemCode /\ ~hasAny(counts)

evaluateOrganizationAction(operation, code, counts) ==
    /\ operation \in {"delete", "deactivate"} => code # SystemCode
    /\ operation = "delete" => ~hasAny(counts)

isOrganizationCodeTaken(code, o) ==
    \E p \in DOMAIN organization \ {o} : organization[p].code = code

CreateOrganization(c, actor, o, code, status) ==
    /\ SuperAdminActor(actor)
    /\ o \notin DOMAIN organization \cup closed
    /\ code # SystemCode /\ ~isOrganizationCodeTaken(code, o)
    /\ StartTask(c, [op |-> "create", on |-> o, row |-> [code |-> code, status |-> status]])

\* The unique index on the code.
InsertOrganization(c) ==
    LET o == task[c].on IN
    /\ task[c].op = "create"
    /\ o \notin DOMAIN organization \cup closed
    /\ ~isOrganizationCodeTaken(task[c].row.code, o)
    /\ organization' = [p \in DOMAIN organization \cup {o} |->
                          IF p = o THEN task[c].row ELSE organization[p]]
    /\ AuditNext(c, o)
    /\ UNCHANGED <<project, audited, closed>>

\* A form has any of the fields; a changed name alone sets nothing here.
Fields == [{} -> {}] \cup UNION {[d -> OrganizationCodes \cup {"active", "inactive"}] :
                                    d \in {{"code"}, {"status"}, {"code", "status"}}}
OrganizationForm ==
    {f \in Fields : /\ "code" \in DOMAIN f => f.code \in OrganizationCodes
                    /\ "status" \in DOMAIN f => f.status \in {"active", "inactive"}}

MayUpdateOrganization(actor, o, form) ==
    /\ SuperAdminActor(actor) /\ Exists(o)
    /\ organization[o].code = SystemCode =>
         /\ "code" \in DOMAIN form => form.code = SystemCode
         /\ "status" \in DOMAIN form => form.status = "active"
    /\ ("code" \in DOMAIN form /\ form.code # organization[o].code)
         => ~isOrganizationCodeTaken(form.code, o)

UpdateOrganization(c, actor, o, form) ==
    /\ MayUpdateOrganization(actor, o, form)
    /\ StartTask(c, [op |-> "update", on |-> o, form |-> form])

\* deactivateOrganizationAction and activateOrganizationAction
SetOrganizationStatus(c, actor, o, operation) ==
    /\ SuperAdminActor(actor) /\ Exists(o)
    /\ evaluateOrganizationAction(operation, organization[o].code, <<>>)
    /\ StartTask(c, [op |-> "update", on |-> o,
                     form |-> [status |-> IF operation = "activate" THEN "active" ELSE "inactive"]])

\* Of an organization deleted meanwhile no row is updated, and none is missed.
WriteOrganization(c) ==
    LET o == task[c].on  form == task[c].form IN
    /\ task[c].op = "update"
    /\ Exists(o) /\ "code" \in DOMAIN form => ~isOrganizationCodeTaken(form.code, o)
    /\ organization' = IF Exists(o)
         THEN [organization EXCEPT ![o] = [k \in DOMAIN @ |-> IF k \in DOMAIN form THEN form[k] ELSE @[k]]]
         ELSE organization
    /\ AuditNext(c, o)
    /\ UNCHANGED <<project, audited, closed>>

MayDeleteOrganization(actor, o) ==
    /\ SuperAdminActor(actor) /\ Exists(o)
    /\ evaluateOrganizationAction("delete", organization[o].code, detectOrganizationDependencies(o))

DeleteOrganization(c, actor, o) ==
    /\ MayDeleteOrganization(actor, o)
    /\ StartTask(c, [op |-> "delete", on |-> o])

\* The keys of employees, roles and projects refuse; that of an account would be
\* set to null, as that of the audit entries is.
RemoveOrganization(c) ==
    LET o == task[c].on IN
    /\ task[c].op = "delete"
    /\ \A e \in Employees : EmployeeOrganization[e] # o
    /\ \A r \in DOMAIN role : role[r].org # o
    /\ ProjectsOf(o) = {}
    /\ organization' = [p \in DOMAIN organization \ {o} |-> organization[p]]
    /\ closed' = closed \cup (DOMAIN organization \cap {o})
    /\ audited' = audited \ {o}
    /\ AuditNext(c, o)
    /\ UNCHANGED project

-----------------------------------------------------------------------------
(* features/projects: the organization of a project                        *)

CreateProjectIn(c, actor, o) ==
    /\ SuperAdminActor(actor) /\ Available(o)     \* getActiveOrganization
    /\ StartTask(c, [op |-> "create project", on |-> o])

InsertProject(c) ==
    /\ task[c].op = "create project" /\ Exists(task[c].on)
    /\ project' = [p \in DOMAIN project \cup {c} |-> IF p = c THEN task[c].on ELSE project[p]]
    /\ AuditNext(c, task[c].on)
    /\ UNCHANGED <<organization, audited, closed>>

\* The project has no dependants; Attendance has the projects that have some.
\* The entry is about the organization that the project leaves.
MoveProject(c, actor, p, o) ==
    /\ SuperAdminActor(actor) /\ p \in DOMAIN project
    /\ project[p] # o /\ Available(o)
    /\ StartTask(c, [op |-> "move project", on |-> o, project |-> p, from |-> project[p]])

WriteProject(c) ==
    /\ task[c].op = "move project" /\ Exists(task[c].on)
    /\ project' = [project EXCEPT ![task[c].project] = task[c].on]
    /\ AuditNext(c, task[c].from)
    /\ UNCHANGED <<organization, audited, closed>>

-----------------------------------------------------------------------------
(* The specification                                                       *)

\* What an organization means for a step of Accounts: createUserAction asks for
\* an active one, and its keys refuse an account or a role without one.
AccountsMeetTenants(c) ==
    /\ (call[c] = Idle /\ call'[c].op = "create user") => Available(call'[c].org)
    /\ \A u \in DOMAIN account' \ DOMAIN account : Exists(account'[u].org)
    /\ \A r \in DOMAIN role' \ DOMAIN role : Exists(role'[r].org)

AccountStep(c) ==
    /\ task[c] = NoTask
    /\ Passwords(c) \/ Administration(c) \/ RoleManagement(c) \/ Fail(c)
    /\ AccountsMeetTenants(c)
    /\ UNCHANGED <<records, task>>

TenantStep(c) ==
    \/ /\ call[c] = Idle /\ task[c] = NoTask
       /\ \E actor \in SuperAdmins, o \in Organizations :
            \/ \E code \in OrganizationCodes, status \in {"active", "inactive"} :
                 CreateOrganization(c, actor, o, code, status)
            \/ \E form \in OrganizationForm : UpdateOrganization(c, actor, o, form)
            \/ \E operation \in {"activate", "deactivate"} :
                 SetOrganizationStatus(c, actor, o, operation)
            \/ DeleteOrganization(c, actor, o)
            \/ CreateProjectIn(c, actor, o)
            \/ \E p \in DOMAIN project : MoveProject(c, actor, p, o)
    \/ InsertOrganization(c) \/ WriteOrganization(c) \/ RemoveOrganization(c)
    \/ InsertProject(c) \/ WriteProject(c)
    \/ WriteAuditLog(c) \/ FailTask(c)

Ended == /\ \A c \in Calls : task[c] = TaskDone \/ call[c].op \in {"done", "not revoked"}
         /\ UNCHANGED tenantVars

TenantInit ==
    /\ Init
    /\ organization = [o \in DOMAIN seeded |-> [code |-> seeded[o], status |-> "active"]]
    /\ project = [p \in {} |-> SystemOrganization]
    /\ audited = {} /\ closed = {}
    /\ task = [c \in Calls |-> NoTask]

TenantNext == \/ \E c \in Calls : AccountStep(c) \/ (TenantStep(c) /\ UNCHANGED vars)
              \/ Ended

TenantSpec == TenantInit /\ [][TenantNext]_tenantVars

-----------------------------------------------------------------------------
(* Properties                                                              *)

\* Organizations, projects and entries are rows of the schema.
TenantTypeOK ==
    /\ DOMAIN organization \subseteq Organizations
    /\ organization \in [DOMAIN organization -> Organization]
    /\ DOMAIN project \subseteq Calls
    /\ audited \subseteq DOMAIN organization
    /\ closed \subseteq Organizations \ DOMAIN organization
    /\ DOMAIN task = Calls

\* The organization of the system stays active and keeps its code, which no
\* other one gets, whatever edits of it and of others overlap: every check of
\* a super administrator rests on it (features/organizations/policy.ts).
SystemStays ==
    /\ Available(SystemOrganization)
    /\ \A o \in DOMAIN organization :
         organization[o].code = SystemCode <=> o = SystemOrganization

\* No organization goes while something belongs to it, although the scan is not
\* repeated: the key of an account would be set to null without a word, but
\* the roles of its organization hold the organization back.
NothingIsOrphaned ==
    /\ \A u \in DOMAIN account : Exists(account[u].org)
    /\ \A r \in DOMAIN role : Exists(role[r].org)
    /\ \A e \in Employees : Exists(EmployeeOrganization[e])
    /\ \A p \in DOMAIN project : Exists(project[p])

CodesAreUnique ==
    \A o, p \in DOMAIN organization : organization[o].code = organization[p].code => o = p

\* Organizations and what belongs to them agree, whatever calls overlap
\* (features/organizations/actions.ts, features/projects/actions.ts).
TenantsConsistent ==
    /\ TenantTypeOK
    /\ SystemStays
    /\ NothingIsOrphaned
    /\ CodesAreUnique
=============================================================================
