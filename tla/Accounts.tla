------------------------------ MODULE Accounts ------------------------------
(***************************************************************************)
(* User accounts, the roles granted to them and their sessions: the        *)
(* server actions of features/users, features/rbac, features/auth and      *)
(* features/account with the guards of lib/auth.                           *)
(*                                                                         *)
(* A call of an action runs in steps, because nothing is locked between    *)
(* its queries: first the session, the permission and everything else the  *)
(* action reads (one step; what it decides on is kept in the call), then   *)
(* the transaction that writes, then, for the passwords, the revocation    *)
(* of the sessions.  A call may fail before any of its later steps.        *)
(*                                                                         *)
(* Data: a password is the call that chose it; a permission stands for     *)
(* the group of codes an action asks for; names and e-mail addresses,      *)
(* which only a unique index relates, are left out.                        *)
(***************************************************************************)
EXTENDS Naturals, FiniteSets

CONSTANTS Users, Employees, Roles, Organizations, Calls,
          SystemOrganization, Nobody

ASSUME AccountsAssumption ==
    /\ SystemOrganization \in Organizations
    /\ Nobody \notin Users
    /\ Users \cap Roles = {}

\* pending, suspended and locked accounts are alike to this code: not active.
Statuses == {"active", "suspended"}
SystemOnly == {"employees.purge"}
Permissions == {"users", "roles"} \cup SystemOnly
Codes == {"SUPERADMIN", "ADMIN", "EMPLOYEE", "CUSTOM"}

VARIABLES account,  \* rows of users: a record for each user that exists
          role,     \* rows of roles with their role_permissions
          grants,   \* rows of user_roles, identified by the call that inserted them
          link,     \* employees.user_id
          session,  \* sessions that are neither revoked nor expired
          spent,    \* ids of deleted users and roles, which are never given again
          call      \* what each call has read and still has to write

rows == <<account, role, grants, link, session, spent>>
vars == <<rows, call>>

\* The organization of an employee never changes.
CONSTANT EmployeeOrganization
ASSUME EmployeeAssumption == EmployeeOrganization \in [Employees -> Organizations]

Account == [org : Organizations, status : Statuses,
            password : Calls \cup {"none", "initial"}, must : BOOLEAN]
Role == [org : Organizations, code : Codes, system : BOOLEAN,
         permissions : SUBSET Permissions]
Grant == [id : Calls \cup {"seed"}, user : Users, role : Roles]
\* `late` marks the session of a login that was overtaken by a new password.
Session == [id : Calls \cup {"seed"}, user : Users,
            password : Calls \cup {"initial"}, late : BOOLEAN]

Idle == [op |-> "idle"]
Done == [op |-> "done"]

----------------------------------------------------------------------------
\* lib/auth/rbac.ts: what a user may do.

GrantsOf(u) == {g \in grants : g.user = u}
RolesOf(u) == {r \in Roles : /\ \E g \in GrantsOf(u) : g.role = r
                             /\ r \in DOMAIN role}

\* getUserAuthorization counts only roles of the user's own organization.
OwnRoles(u) == {r \in RolesOf(u) : role[r].org = account[u].org}

IsSuperAdmin(u) == \E r \in OwnRoles(u) : role[r].code = "SUPERADMIN"

Holds(u) == IF IsSuperAdmin(u) THEN Permissions
            ELSE UNION {role[r].permissions : r \in OwnRoles(u)}

\* isSuperAdminAccount looks at every grant, whatever the organization.
IsSuperAdminAccount(u) == \E r \in RolesOf(u) : role[r].code = "SUPERADMIN"

ActiveSuperAdmins ==
    {u \in DOMAIN account : account[u].status = "active" /\ IsSuperAdminAccount(u)}

\* The count is of joined rows: a grant given twice counts twice.
CountActiveSuperAdmins ==
    Cardinality({g \in grants : /\ g.user \in ActiveSuperAdmins
                                /\ role[g.role].code = "SUPERADMIN"})

\* validateSession: the session is live and its user is active at that moment.
SignedIn(u) == /\ u \in DOMAIN account
               /\ account[u].status = "active"
               /\ \E s \in session : s.user = u

\* requireUser sends a user who owes a password change away from everything else.
RequireUser(u) == SignedIn(u) /\ ~account[u].must

Requires(u, p) == RequireUser(u) /\ p \in Holds(u)

----------------------------------------------------------------------------
\* features/users/policy.ts

MayManage(actor, org, code, superTarget) ==
    \/ IsSuperAdmin(actor)
    \/ /\ code # "SUPERADMIN"
       /\ account[actor].org = org
       /\ ~superTarget

\* evaluateUserDeactivation; deletion has the same two rules.
MayRetire(actor, u) ==
    /\ actor # u
    /\ IsSuperAdminAccount(u) => CountActiveSuperAdmins > 1

MayDelete(actor, u, history) == MayRetire(actor, u) /\ ~history

\* listLinkableEmployees: an employee nobody else is linked to.
Linkable(e, org, u) == /\ EmployeeOrganization[e] = org
                       /\ link[e] \in {Nobody, u}

\* What the edit form says of the linked employee.
Keep == [kind |-> "keep"]
Unlink == [kind |-> "unlink"]
LinkTo(e) == [kind |-> "link", employee |-> e]

----------------------------------------------------------------------------
\* Calls.

Start(c, r) == call[c] = Idle /\ call' = [call EXCEPT ![c] = r]
Ends(c) == call' = [call EXCEPT ![c] = Done]

\* A statement or a transaction fails, and the call ends with an error; when
\* the password was written already, its sessions are left.
Fail(c) == /\ call[c].op \notin {"idle", "done", "not revoked"}
           /\ IF call[c].op = "revoke"
              THEN call' = [call EXCEPT ![c].op = "not revoked"]
              ELSE Ends(c)
           /\ UNCHANGED rows

----------------------------------------------------------------------------
\* Login, logout and passwords.

\* authenticateUser: the password is verified before the status is looked at.
Login(c, u) ==
    /\ u \in DOMAIN account
    /\ account[u].password # "none"
    /\ account[u].status = "active"
    /\ Start(c, [op |-> "login", user |-> u, verified |-> account[u].password])
    /\ UNCHANGED rows

\* createSession inserts the row; a user deleted meanwhile fails the foreign key.
CreateSession(c) ==
    /\ call[c].op = "login"
    /\ LET u == call[c].user IN
       /\ u \in DOMAIN account
       /\ session' = session \cup
            {[id |-> c, user |-> u, password |-> call[c].verified,
              late |-> account[u].password # call[c].verified]}
    /\ Ends(c)
    /\ UNCHANGED <<account, role, grants, link, spent>>

\* Revokes the session of this browser only.
Logout(c, s) ==
    /\ call[c] = Idle /\ Ends(c)
    /\ s \in session
    /\ session' = session \ {s}
    /\ UNCHANGED <<account, role, grants, link, spent>>

\* changePasswordAction; a forced change is one the form says is forced.
ChangePassword(c, u, forced) ==
    /\ SignedIn(u) /\ (forced \/ ~account[u].must)
    /\ account[u].password # "none"
    /\ Start(c, [op |-> "change password", user |-> u,
                 clears |-> forced \/ account[u].must])
    /\ UNCHANGED rows

WriteChangedPassword(c) ==
    /\ call[c].op = "change password"
    /\ LET u == call[c].user IN
       /\ u \in DOMAIN account
       /\ account' = [account EXCEPT ![u].password = c,
                                     ![u].must = @ /\ ~call[c].clears]
       /\ call' = [call EXCEPT ![c] = [op |-> "revoke", user |-> u]]
    /\ UNCHANGED <<role, grants, link, session, spent>>

\* resetUserPasswordAction
ResetPassword(c, actor, u) ==
    /\ Requires(actor, "users")
    /\ u \in DOMAIN account
    /\ IsSuperAdmin(actor) \/ account[actor].org = account[u].org
    /\ IsSuperAdminAccount(u) => IsSuperAdmin(actor)
    /\ Start(c, [op |-> "reset password", user |-> u])
    /\ UNCHANGED rows

\* MUTANT: the sessions are not revoked.
WriteResetPasswordOnly(c) ==
    /\ call[c].op = "reset password"
    /\ LET u == call[c].user IN
       account' = IF u \in DOMAIN account
                  THEN [account EXCEPT ![u].password = c, ![u].must = TRUE]
                  ELSE account
    /\ Ends(c)
    /\ UNCHANGED <<role, grants, link, session, spent>>

WriteResetPassword(c) ==
    /\ call[c].op = "reset password"
    /\ LET u == call[c].user IN
       /\ account' = IF u \in DOMAIN account
                     THEN [account EXCEPT ![u].password = c, ![u].must = TRUE]
                     ELSE account
       /\ call' = [call EXCEPT ![c] = [op |-> "revoke", user |-> u]]
    /\ UNCHANGED <<role, grants, link, session, spent>>

\* revokeAllUserSessions, after the password was written.
RevokeSessions(c) ==
    /\ call[c].op = "revoke"
    /\ session' = {s \in session : s.user # call[c].user}
    /\ Ends(c)
    /\ UNCHANGED <<account, role, grants, link, spent>>

----------------------------------------------------------------------------
\* User administration.

\* MUTANT: the organization of a posted role is not looked at.
RoleInAny(r, org) == r \in DOMAIN role

\* roleInOrganization
RoleIn(r, org) == r \in DOMAIN role /\ role[r].org = org

MayCreateUser(actor, org, r, e) ==
    /\ Requires(actor, "users")
    /\ IsSuperAdmin(actor) \/ org = account[actor].org
    /\ RoleIn(r, org)
    /\ MayManage(actor, org, role[r].code, FALSE)
    /\ e # Nobody => Linkable(e, org, Nobody)

CreateUser(c, actor, u, org, r, status, e, password) ==
    /\ MayCreateUser(actor, org, r, e)
    /\ u \notin DOMAIN account \cup spent        \* a new id
    /\ Start(c, [op |-> "create user", user |-> u, org |-> org, role |-> r,
                 status |-> status, employee |-> e,
                 password |-> IF password THEN c ELSE "none"])
    /\ UNCHANGED rows

CommitCreateUser(c) ==
    /\ call[c].op = "create user"
    /\ LET k == call[c] IN
       /\ k.user \notin DOMAIN account \cup spent
       /\ k.role \in DOMAIN role               \* foreign key of the grant
       /\ account' = [x \in DOMAIN account \cup {k.user} |->
            IF x = k.user
            THEN [org |-> k.org, status |-> k.status, password |-> k.password, must |-> FALSE]
            ELSE account[x]]
       /\ grants' = grants \cup {[id |-> c, user |-> k.user, role |-> k.role]}
       /\ link' = IF k.employee = Nobody THEN link
                  ELSE [link EXCEPT ![k.employee] = k.user]
    /\ Ends(c)
    /\ UNCHANGED <<role, session, spent>>

\* The primary role is SUPERADMIN or else the first of an unordered query.
PrimaryRoles(u) == LET supers == {r \in RolesOf(u) : role[r].code = "SUPERADMIN"}
                   IN IF supers # {} THEN supers ELSE RolesOf(u)

\* MUTANT: the primary role is replaced whatever it is.
ReplacedEvenEmployee(u, primary) ==
    {g \in GrantsOf(u) : role[g.role].code = role[primary].code}

\* Grants the edit will delete by id: those of the primary role, never EMPLOYEE.
Replaced(u, primary) ==
    {g \in GrantsOf(u) : /\ role[g.role].code = role[primary].code
                         /\ role[g.role].code # "EMPLOYEE"}

isNewRoleId(u, r) == r # Nobody /\ r \notin RolesOf(u)

MayUpdateUser(actor, u, status, r, edit) ==
    /\ Requires(actor, "users")
    /\ u \in DOMAIN account
    /\ MayManage(actor, account[u].org, "none", IsSuperAdminAccount(u))
    /\ isNewRoleId(u, r) =>
         /\ RoleIn(r, account[u].org)
         /\ MayManage(actor, account[u].org, role[r].code, FALSE)
         /\ IsSuperAdminAccount(u) => role[r].code = "SUPERADMIN"
    /\ (account[u].status = "active" /\ status # "active") => MayRetire(actor, u)
    /\ edit.kind = "link" => Linkable(edit.employee, account[u].org, u)

UpdateUser(c, actor, u, status, r, edit) ==
    /\ MayUpdateUser(actor, u, status, r, edit)
    /\ \E primary \in PrimaryRoles(u) \cup (IF RolesOf(u) = {} THEN {Nobody} ELSE {}) :
         Start(c, [op |-> "update user", user |-> u, org |-> account[u].org,
                   status |-> status, edit |-> edit,
                   role |-> IF isNewRoleId(u, r) THEN r ELSE Nobody,
                   drop |-> IF isNewRoleId(u, r) /\ primary # Nobody
                            THEN Replaced(u, primary) ELSE {}])
    /\ UNCHANGED rows

Relink(u, org, edit) ==
    CASE edit.kind = "keep" -> link
      [] edit.kind = "link" -> [link EXCEPT ![edit.employee] = u]
      [] OTHER -> [e \in Employees |->
                     IF link[e] = u /\ EmployeeOrganization[e] = org THEN Nobody ELSE link[e]]

\* An account deleted meanwhile is updated in no row; linking it or granting
\* it a role then fails the foreign key.
CommitUpdateUser(c) ==
    /\ call[c].op = "update user"
    /\ LET k == call[c] IN
       /\ k.user \in DOMAIN account \/ (k.edit.kind # "link" /\ k.role = Nobody)
       /\ k.role # Nobody => k.role \in DOMAIN role
       /\ account' = IF k.user \in DOMAIN account
                     THEN [account EXCEPT ![k.user].status = k.status] ELSE account
       /\ link' = Relink(k.user, k.org, k.edit)
       /\ grants' = (grants \ k.drop) \cup
                    {[id |-> c, user |-> k.user, role |-> x] : x \in {k.role} \ {Nobody}}
    /\ Ends(c)
    /\ UNCHANGED <<role, session, spent>>

MayDeleteUser(actor, u, history) ==
    /\ Requires(actor, "users")
    /\ u \in DOMAIN account
    /\ IsSuperAdmin(actor) \/ account[actor].org = account[u].org
    /\ MayDelete(actor, u, history)

DeleteUser(c, actor, u, history) ==
    /\ MayDeleteUser(actor, u, history)
    /\ Start(c, [op |-> "delete user", user |-> u])
    /\ UNCHANGED rows

\* Grants and sessions cascade, the link of the employee is set null.
CommitDeleteUser(c) ==
    /\ call[c].op = "delete user"
    /\ LET u == call[c].user IN
       /\ account' = [x \in DOMAIN account \ {u} |-> account[x]]
       /\ grants' = grants \ GrantsOf(u)
       /\ session' = {s \in session : s.user # u}
       /\ link' = [e \in Employees |-> IF link[e] = u THEN Nobody ELSE link[e]]
       /\ spent' = spent \cup {u}
    /\ Ends(c)
    /\ UNCHANGED role

----------------------------------------------------------------------------
\* Roles.

\* assignRoleForSuperAdminAction; the existing assignment is looked for and
\* inserted in one transaction that locks nothing.
AssignRole(c, actor, u, r) ==
    /\ RequireUser(actor) /\ IsSuperAdmin(actor)
    /\ u \in DOMAIN account
    /\ RoleIn(r, account[u].org)
    /\ role[r].code # "SUPERADMIN"
    /\ r \notin RolesOf(u)
    /\ Start(c, [op |-> "assign role", user |-> u, role |-> r])
    /\ UNCHANGED rows

CommitAssignRole(c) ==
    /\ call[c].op = "assign role"
    /\ call[c].user \in DOMAIN account /\ call[c].role \in DOMAIN role
    /\ grants' = grants \cup {[id |-> c, user |-> call[c].user, role |-> call[c].role]}
    /\ Ends(c)
    /\ UNCHANGED <<account, role, link, session, spent>>

\* removeRoleForSuperAdminAction deletes one assignment, by id.
RemoveRole(c, actor, g) ==
    /\ RequireUser(actor) /\ IsSuperAdmin(actor)
    /\ g \in grants
    /\ RoleIn(g.role, account[g.user].org)
    /\ role[g.role].code \notin {"SUPERADMIN", "EMPLOYEE"}
    /\ Start(c, [op |-> "remove role", grant |-> g])
    /\ UNCHANGED rows

CommitRemoveRole(c) ==
    /\ call[c].op = "remove role"
    /\ grants' = grants \ {call[c].grant}
    /\ Ends(c)
    /\ UNCHANGED <<account, role, link, session, spent>>

\* createRoleAction: reserved codes are refused, the index (organization, code)
\* refuses a duplicate.
CreateRole(c, actor, r, code) ==
    /\ Requires(actor, "roles")
    /\ r \notin DOMAIN role \cup spent
    /\ code = "CUSTOM"
    /\ Start(c, [op |-> "create role", role |-> r, code |-> code,
                 org |-> account[actor].org])
    /\ UNCHANGED rows

CommitCreateRole(c) ==
    /\ call[c].op = "create role"
    /\ LET k == call[c] IN
       /\ k.role \notin DOMAIN role \cup spent
       /\ \A r \in DOMAIN role : role[r].org = k.org => role[r].code # k.code
       /\ role' = [r \in DOMAIN role \cup {k.role} |->
            IF r = k.role
            THEN [org |-> k.org, code |-> k.code, system |-> FALSE, permissions |-> {}]
            ELSE role[r]]
    /\ Ends(c)
    /\ UNCHANGED <<account, grants, link, session, spent>>

\* The rules 3 to 6 of updateRoleAction.  A form that changes the name or the
\* description only deletes and writes back the permissions it shows.
MayUpdateRole(actor, r, ps) ==
    /\ Requires(actor, "roles")
    /\ RoleIn(r, account[actor].org)
    /\ IsSuperAdmin(actor) \/ (r \notin RolesOf(actor) /\ role[r].code # "SUPERADMIN")
    /\ role[r].code = "SUPERADMIN" => ps # {}
    /\ IsSuperAdmin(actor) \/ ps \subseteq Holds(actor)
    /\ role[r].code # "SUPERADMIN" => ps \cap SystemOnly = {}

UpdateRole(c, actor, r, ps) ==
    /\ MayUpdateRole(actor, r, ps)
    /\ Start(c, [op |-> "update role", role |-> r, permissions |-> ps])
    /\ UNCHANGED rows

\* Of a role deleted meanwhile no permission can be inserted.
CommitUpdateRole(c) ==
    /\ call[c].op = "update role"
    /\ LET k == call[c] IN
       /\ k.role \in DOMAIN role \/ k.permissions = {}
       /\ role' = IF k.role \in DOMAIN role
                  THEN [role EXCEPT ![k.role].permissions = k.permissions] ELSE role
    /\ Ends(c)
    /\ UNCHANGED <<account, grants, link, session, spent>>

MayDeleteRole(actor, r) ==
    /\ Requires(actor, "roles")
    /\ RoleIn(r, account[actor].org)
    /\ role[r].code # "SUPERADMIN" /\ ~role[r].system
    /\ \A g \in grants : g.role # r

DeleteRole(c, actor, r) ==
    /\ MayDeleteRole(actor, r)
    /\ Start(c, [op |-> "delete role", role |-> r])
    /\ UNCHANGED rows

\* A grant given after the members were read cascades with the role.
CommitDeleteRole(c) ==
    /\ call[c].op = "delete role"
    /\ LET r == call[c].role IN
       /\ role' = [x \in DOMAIN role \ {r} |-> role[x]]
       /\ grants' = {g \in grants : g.role # r}
       /\ spent' = spent \cup {r}
    /\ Ends(c)
    /\ UNCHANGED <<account, link, session>>

----------------------------------------------------------------------------
(* The seeded catalogue (scripts/seed-rbac.mts) with two super             *)
(* administrators, and one tenant with an administrator and an employee    *)
(* who also has a custom role.                                             *)

CONSTANTS rootA, rootB, admin, staff, tenant,
          superRole, adminRole, employeeRole, customRole, staffRecord

SeededRoles == {superRole, adminRole, employeeRole, customRole}

ASSUME SeedAssumption ==
    /\ {rootA, rootB, admin, staff} \subseteq Users
    /\ SeededRoles \subseteq Roles
    /\ {rootA, rootB} \cap {admin, staff} = {}
    /\ superRole \notin {adminRole, employeeRole, customRole}
    /\ employeeRole \notin {adminRole, customRole}
    /\ tenant \in Organizations
    /\ EmployeeOrganization[staffRecord] = tenant

Init ==
    /\ account = [u \in {rootA, rootB, admin, staff} |->
         [org |-> IF u \in {rootA, rootB} THEN SystemOrganization ELSE tenant,
          status |-> "active", password |-> "initial", must |-> FALSE]]
    /\ role = [r \in SeededRoles |->
         [org |-> IF r = superRole THEN SystemOrganization ELSE tenant,
          code |-> CASE r = superRole -> "SUPERADMIN" [] r = adminRole -> "ADMIN"
                     [] r = employeeRole -> "EMPLOYEE" [] OTHER -> "CUSTOM",
          system |-> r # customRole,
          permissions |-> CASE r = superRole -> Permissions
                            [] r = adminRole -> {"users", "roles"} [] OTHER -> {}]]
    /\ grants = {[id |-> "seed", user |-> g[1], role |-> g[2]] :
                   g \in {<<rootA, superRole>>, <<rootB, superRole>>,
                                <<admin, adminRole>>, <<staff, employeeRole>>,
                                <<staff, customRole>>}}
    /\ link = [e \in Employees |-> IF e = staffRecord THEN staff ELSE Nobody]
    /\ session = {[id |-> "seed", user |-> u, password |-> "initial", late |-> FALSE] :
                     u \in {rootA, rootB, admin, staff}}
    /\ spent = {}
    /\ call = [c \in Calls |-> Idle]

Edits == {Keep, Unlink} \cup {LinkTo(e) : e \in Employees}

\* The users whose session and permission let a call of an action begin.
Holders(p) == {u \in Users : Requires(u, p)}
SuperAdmins == {u \in Users : RequireUser(u) /\ IsSuperAdmin(u)}

Passwords(c) ==
    \/ /\ call[c] = Idle
       /\ \/ \E u \in Users : Login(c, u)
          \/ \E s \in session : Logout(c, s)
          \/ \E u \in Users, forced \in BOOLEAN : ChangePassword(c, u, forced)
          \/ \E actor \in Holders("users"), u \in Users : ResetPassword(c, actor, u)
    \/ CreateSession(c) \/ WriteChangedPassword(c) \/ WriteResetPassword(c)
    \/ RevokeSessions(c)

Administration(c) ==
    \/ /\ call[c] = Idle
       /\ \E actor \in Holders("users"), u \in Users :
            \/ \E org \in Organizations, r \in Roles, status \in Statuses,
                 e \in Employees \cup {Nobody}, password \in BOOLEAN :
                 CreateUser(c, actor, u, org, r, status, e, password)
            \/ \E status \in Statuses, r \in Roles \cup {Nobody}, edit \in Edits :
                 UpdateUser(c, actor, u, status, r, edit)
            \/ \E history \in BOOLEAN : DeleteUser(c, actor, u, history)
    \/ CommitCreateUser(c) \/ CommitUpdateUser(c) \/ CommitDeleteUser(c)

RoleManagement(c) ==
    \/ /\ call[c] = Idle
       /\ \/ \E actor \in SuperAdmins :
               \/ \E u \in Users, r \in Roles : AssignRole(c, actor, u, r)
               \/ \E g \in grants : RemoveRole(c, actor, g)
          \/ \E actor \in Holders("roles"), r \in Roles :
               \/ \E code \in Codes : CreateRole(c, actor, r, code)
               \/ \E ps \in SUBSET Permissions : UpdateRole(c, actor, r, ps)
               \/ DeleteRole(c, actor, r)
    \/ CommitAssignRole(c) \/ CommitRemoveRole(c) \/ CommitCreateRole(c)
    \/ CommitUpdateRole(c) \/ CommitDeleteRole(c)

Next == \/ \E c \in Calls : Passwords(c) \/ Administration(c) \/ RoleManagement(c) \/ Fail(c)
        \/ (\A c \in Calls : call[c].op \in {"done", "not revoked"}) /\ UNCHANGED vars

Spec == Init /\ [][Next]_vars

----------------------------------------------------------------------------
\* Properties.

\* Accounts, roles, grants, links and sessions are rows of the schema, and no
\* grant, link or session refers to a row that is gone.
TypeOK ==
    /\ DOMAIN account \subseteq Users
    /\ account \in [DOMAIN account -> Account]
    /\ DOMAIN role \subseteq Roles
    /\ role \in [DOMAIN role -> Role]
    /\ grants \subseteq Grant
    /\ \A g \in grants : g.user \in DOMAIN account /\ g.role \in DOMAIN role
    /\ link \in [Employees -> DOMAIN account \cup {Nobody}]
    /\ session \subseteq Session
    /\ \A s \in session : s.user \in DOMAIN account
    /\ DOMAIN call = Calls

\* Whatever calls overlap, a user is granted only roles of the own organization
\* and linked only to employees of it: getUserAuthorization and the queries of
\* every other part rely on it.
TenantsAreSeparate ==
    /\ \A g \in grants : role[g.role].org = account[g.user].org
    /\ \A e \in Employees :
         link[e] # Nobody => EmployeeOrganization[e] = account[link[e]].org

\* A permission reserved for the system is never stored on the role of a
\* tenant, and a role with the super administrator's code exists only as
\* seeded (rule 6 of updateRoleAction, the reserved codes of createRoleAction).
SystemPermissionsStayReserved ==
    \A r \in DOMAIN role :
        /\ role[r].code # "SUPERADMIN" => role[r].permissions \cap SystemOnly = {}
        /\ role[r].code = "SUPERADMIN" => r = superRole /\ role[r].permissions # {}

\* Only a session of a login that was overtaken by the new password, or one
\* that a failed or unfinished revocation has left, was opened with a password
\* that is no longer the account's.  This holds of every change and every reset:
\* changePasswordAction revokes the session that sent a forced change too,
\* although its comment (account/actions.ts:158) says that it is kept.
SessionsFollowPasswords ==
    \A s \in session :
        s.password # account[s.user].password =>
            \/ s.late
            \/ \E c \in Calls : /\ call[c].op \in {"revoke", "not revoked"}
                               /\ call[c].user = s.user

\* The EMPLOYEE role, which self-service rests on, is taken from a user only
\* with the account: no edit or removal of roles, however stale what it read,
\* touches it.
EmployeeRoleIsKept ==
    [][\A g \in grants :
         (role[g.role].code = "EMPLOYEE" /\ g \notin grants') => g.user \notin DOMAIN account']_vars

\* Accounts, roles, grants and links agree and stay within their organization
\* (features/users/actions.ts, features/rbac/actions.ts).
AccountsConsistent ==
    /\ TypeOK
    /\ TenantsAreSeparate
    /\ SystemPermissionsStayReserved
=============================================================================

