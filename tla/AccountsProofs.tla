--------------------------- MODULE AccountsProofs ---------------------------
(***************************************************************************)
(* What holds of accounts, roles and sessions for every number of users,   *)
(* roles, organizations and overlapping calls.  A call writes what it read *)
(* some steps earlier, so the inductive invariant says of every call under *)
(* way what is still true of the rows it is about to write: an id, once    *)
(* given, stays with its organization and its code until the row is gone,  *)
(* and is never given again.                                               *)
(*                                                                         *)
(* Then the same for imports of employees: a transaction locks the rows    *)
(* that it writes, so what others change meanwhile leaves standing what it *)
(* planned.                                                                *)
(***************************************************************************)
EXTENDS AccountScreens, EmployeeImport, FiniteSetTheorems, TLAPS

\* An id that was given, whether or not its row is still there.
Given(id) == id \in DOMAIN account \cup DOMAIN role \cup spent

\* The row of a user, if it is still there, is of that organization.
UserIsOf(u, org) == u \in DOMAIN account => account[u].org = org
RoleIsOf(r, org) == r \in DOMAIN role => role[r].org = org

\* What a call decided before it writes, and what of that still holds.
KnowsSession(k) ==
    /\ k.op = "login" => k.user \in Users /\ k.verified \in Calls \cup {"initial"}
    /\ k.op \in {"revoke", "not revoked"} =>
         k \in [op : {"revoke", "not revoked"}, user : Users]
    /\ k.op \in {"change password", "reset password", "delete user"} => k.user \in Users
    /\ k.op = "change password" => k.clears \in BOOLEAN

KnowsNewUser(k) ==
    k.op = "create user" =>
      /\ k.user \in Users /\ k.org \in Organizations /\ k.status \in Statuses
      /\ k.employee \in Employees \cup {Nobody}
      /\ k.password \in Calls \cup {"none"}
      /\ k.role \in Roles /\ Given(k.role) /\ RoleIsOf(k.role, k.org)
      /\ k.employee # Nobody => EmployeeOrganization[k.employee] = k.org

KnowsEdit(k) ==
    k.op = "update user" =>
      /\ k.user \in Users /\ Given(k.user) /\ UserIsOf(k.user, k.org)
      /\ k.status \in Statuses /\ k.edit \in Edits
      /\ k.edit.kind = "link" => EmployeeOrganization[k.edit.employee] = k.org
      /\ k.role # Nobody => k.role \in Roles /\ Given(k.role) /\ RoleIsOf(k.role, k.org)
      /\ \A g \in k.drop : /\ g.role \in Roles /\ Given(g.role)
                           /\ g.role \in DOMAIN role => role[g.role].code # "EMPLOYEE"

KnowsAssignment(k) ==
    /\ k.op = "assign role" =>
         /\ k.user \in Users /\ Given(k.user) /\ k.role \in Roles /\ Given(k.role)
         /\ (k.user \in DOMAIN account /\ k.role \in DOMAIN role) =>
              role[k.role].org = account[k.user].org
    /\ k.op = "remove role" =>
         /\ k.grant.role \in Roles /\ Given(k.grant.role)
         /\ k.grant.role \in DOMAIN role => role[k.grant.role].code # "EMPLOYEE"

KnowsRole(k) ==
    /\ k.op = "create role" =>
         k.role \in Roles /\ k.code = "CUSTOM" /\ k.org \in Organizations
    /\ k.op = "update role" =>
         /\ k.role \in Roles /\ Given(k.role) /\ k.permissions \subseteq Permissions
         /\ k.role \in DOMAIN role =>
              IF role[k.role].code = "SUPERADMIN" THEN k.permissions # {}
              ELSE k.permissions \cap SystemOnly = {}
    /\ k.op = "delete role" =>
         /\ k.role \in Roles /\ Given(k.role)
         /\ k.role \in DOMAIN role => ~role[k.role].system

Knows(c) == /\ KnowsSession(call[c]) /\ KnowsNewUser(call[c]) /\ KnowsEdit(call[c])
            /\ KnowsAssignment(call[c]) /\ KnowsRole(call[c])

\* Ids are not given again, and the EMPLOYEE role is one of the system's.
IdsAreSpentOnce ==
    /\ spent \cap (DOMAIN account \cup DOMAIN role) = {}
    /\ \A r \in DOMAIN role : role[r].code = "EMPLOYEE" => role[r].system

RowsConsistent == AccountsConsistent /\ IdsAreSpentOnce
Inv == RowsConsistent /\ \A c \in Calls : Knows(c)

\* What a step leaves of the rows that were given before it.
Lasting ==
    /\ \A id \in Users \cup Roles : Given(id) => Given(id)'
    /\ \A u \in DOMAIN account' :
         u \in DOMAIN account \cup spent => u \in DOMAIN account /\ account'[u].org = account[u].org
    /\ \A r \in DOMAIN role' :
         r \in DOMAIN role \cup spent =>
           /\ r \in DOMAIN role
           /\ role'[r].org = role[r].org /\ role'[r].code = role[r].code
           /\ role'[r].system = role[r].system

\* What is known of a call stays known while only others write.
LEMMA OthersKeepKnowing ==
    ASSUME Inv, Lasting, RowsConsistent', NEW d \in Calls, call'[d] = call[d]
    PROVE  Knows(d)'
<1>k. PICK k : k = call[d] /\ k = call'[d]
  OBVIOUS
<1>0. /\ \A u \in Users : Given(u) => u \in DOMAIN account \cup spent
      /\ \A r \in Roles : Given(r) => r \in DOMAIN role \cup spent
  BY AccountsAssumption DEF Inv, RowsConsistent, AccountsConsistent, TypeOK, Given
<1>1. /\ \A u \in Users : Given(u) => Given(u)'
      /\ \A r \in Roles : Given(r) => Given(r)'
  BY DEF Lasting
<1>2. /\ \A u \in Users : \A org : Given(u) /\ UserIsOf(u, org) =>
           (u \in DOMAIN account' => account'[u].org = org)
      /\ \A r \in Roles : \A org : Given(r) /\ RoleIsOf(r, org) =>
           (r \in DOMAIN role' => role'[r].org = org)
  BY <1>0 DEF Lasting, UserIsOf, RoleIsOf
<1>3. \A r \in Roles : Given(r) /\ r \in DOMAIN role' =>
        /\ r \in DOMAIN role
        /\ role'[r].code = role[r].code /\ role'[r].system = role[r].system
  BY <1>0 DEF Lasting
<1>4. /\ KnowsSession(k) /\ KnowsNewUser(k) /\ KnowsEdit(k)
      /\ KnowsAssignment(k) /\ KnowsRole(k)
  BY <1>k DEF Inv, Knows
<1>5. KnowsSession(call[d])'
  BY <1>k, <1>4 DEF KnowsSession
<1>6. KnowsNewUser(call[d])'
  <2>1. k.op = "create user" => Given(k.role)' /\ (k.role \in DOMAIN role' => role'[k.role].org = k.org)
    BY <1>1, <1>2, <1>4 DEF KnowsNewUser
  <2> QED
    BY <2>1, <1>k, <1>4 DEF KnowsNewUser, Given, RoleIsOf
<1>7. KnowsEdit(call[d])'
  <2>1. k.op = "update user" => Given(k.user)' /\ (k.user \in DOMAIN account' => account'[k.user].org = k.org)
    BY <1>1, <1>2, <1>4 DEF KnowsEdit
  <2>2. k.op = "update user" /\ k.role # Nobody =>
           Given(k.role)' /\ (k.role \in DOMAIN role' => role'[k.role].org = k.org)
    BY <1>1, <1>2, <1>4 DEF KnowsEdit
  <2>3. k.op = "update user" =>
           \A g \in k.drop : /\ g.role \in Roles /\ Given(g.role)'
                             /\ g.role \in DOMAIN role' => role'[g.role].code # "EMPLOYEE"
    BY <1>1, <1>3, <1>4 DEF KnowsEdit
  <2> QED
    BY <2>1, <2>2, <2>3, <1>k, <1>4 DEF KnowsEdit, Given, UserIsOf, RoleIsOf
<1>8. KnowsAssignment(call[d])'
  <2>1. k.op = "assign role" =>
         /\ Given(k.user)' /\ Given(k.role)'
         /\ (k.user \in DOMAIN account' /\ k.role \in DOMAIN role') =>
              role'[k.role].org = account'[k.user].org
    BY <1>0, <1>1, <1>4 DEF KnowsAssignment, Lasting
  <2>2. k.op = "remove role" =>
         /\ Given(k.grant.role)'
         /\ k.grant.role \in DOMAIN role' => role'[k.grant.role].code # "EMPLOYEE"
    BY <1>1, <1>3, <1>4 DEF KnowsAssignment
  <2> QED
    BY <2>1, <2>2, <1>k, <1>4 DEF KnowsAssignment, Given
<1>9. KnowsRole(call[d])'
  <2>1. k.op \in {"update role", "delete role"} => Given(k.role)'
    BY <1>1, <1>4 DEF KnowsRole
  <2>2. k.op \in {"update role", "delete role"} /\ k.role \in DOMAIN role' =>
          /\ k.role \in DOMAIN role
          /\ role'[k.role].code = role[k.role].code /\ role'[k.role].system = role[k.role].system
    BY <1>3, <1>4 DEF KnowsRole
  <2> QED
    BY <2>1, <2>2, <1>k, <1>4 DEF KnowsRole, Given
<1> QED
  BY <1>5, <1>6, <1>7, <1>8, <1>9 DEF Knows

\* A call whose record is r knows what it decided.
Informed(r) == /\ KnowsSession(r) /\ KnowsNewUser(r) /\ KnowsEdit(r)
               /\ KnowsAssignment(r) /\ KnowsRole(r)

\* A step of one call keeps the invariant when it keeps the rows consistent,
\* lasts for the others and leaves its own call informed.
LEMMA StepKeepsInv ==
    ASSUME Inv, RowsConsistent', Lasting, NEW c \in Calls, NEW r,
           call' = [call EXCEPT ![c] = r], Informed(r)'
    PROVE  Inv'
<1>1. ASSUME NEW d \in Calls, d # c PROVE Knows(d)'
  <2>1. call'[d] = call[d]
    BY <1>1 DEF Inv, RowsConsistent, AccountsConsistent, TypeOK
  <2> QED
    BY <2>1, OthersKeepKnowing
<1>2. Knows(c)'
  <2>1. call'[c] = r
    BY DEF Inv, RowsConsistent, AccountsConsistent, TypeOK
  <2>2. KnowsSession(call[c])'
    BY <2>1 DEF Informed, KnowsSession
  <2>3. KnowsNewUser(call[c])'
    BY <2>1 DEF Informed, KnowsNewUser, Given, RoleIsOf
  <2>4. KnowsEdit(call[c])'
    BY <2>1 DEF Informed, KnowsEdit, Given, RoleIsOf, UserIsOf
  <2>5. KnowsAssignment(call[c])'
    BY <2>1 DEF Informed, KnowsAssignment, Given
  <2>6. KnowsRole(call[c])'
    BY <2>1 DEF Informed, KnowsRole, Given
  <2> QED
    BY <2>2, <2>3, <2>4, <2>5, <2>6 DEF Knows
<1> QED
  BY <1>1, <1>2 DEF Inv

\* A call that has ended, or whose revocation has, has nothing to know.
LEMMA EndedIsInformed == Informed(Done) /\ Informed(Idle)
BY DEF Informed, KnowsSession, KnowsNewUser, KnowsEdit, KnowsAssignment, KnowsRole, Done, Idle

LEMMA EndKeepsInv ==
    ASSUME Inv, RowsConsistent', Lasting, NEW c \in Calls, Ends(c)
    PROVE  Inv'
<1>1. PICK r : r = Done
  OBVIOUS
<1>2. Informed(r)'
  BY <1>1 DEF Informed, KnowsSession, KnowsNewUser, KnowsEdit, KnowsAssignment, KnowsRole, Done
<1> QED
  BY <1>1, <1>2, StepKeepsInv DEF Ends

\* A step that writes no row.
LEMMA ReadKeepsInv ==
    ASSUME Inv, UNCHANGED rows, NEW c \in Calls, NEW r,
           call' = [call EXCEPT ![c] = r], Informed(r)
    PROVE  Inv'
<1>1. RowsConsistent'
  BY DEF Inv, RowsConsistent, AccountsConsistent, TypeOK, TenantsAreSeparate,
         SystemPermissionsStayReserved, IdsAreSpentOnce, rows
<1>2. Lasting
  BY DEF Inv, RowsConsistent, IdsAreSpentOnce, Lasting, Given, rows
<1>3. Informed(r)'
  BY ZenonT(60) DEF Informed, KnowsSession, KnowsNewUser, KnowsEdit, KnowsAssignment, KnowsRole,
         Given, UserIsOf, RoleIsOf, rows
<1> QED
  BY <1>1, <1>2, <1>3, StepKeepsInv

----------------------------------------------------------------------------
\* The steps that read and decide.

LEMMA PasswordCallsStart ==
    ASSUME Inv, NEW c \in Calls,
           \/ \E u \in Users : Login(c, u)
           \/ \E u \in Users, forced \in BOOLEAN : ChangePassword(c, u, forced)
           \/ \E actor \in Users, u \in Users : ResetPassword(c, actor, u)
    PROVE  Inv'
<1> USE DEF Informed, KnowsNewUser, KnowsEdit, KnowsAssignment, KnowsRole
<1>1. ASSUME NEW u \in Users, Login(c, u) PROVE Inv'
  <2>1. PICK r : r = [op |-> "login", user |-> u, verified |-> account[u].password]
    OBVIOUS
  <2>2. Informed(r)
    BY <1>1, <2>1 DEF KnowsSession, Login, Inv, RowsConsistent, AccountsConsistent, TypeOK, Account
  <2> QED
    BY <1>1, <2>1, <2>2, ReadKeepsInv, ZenonT(60) DEF Login, Start
<1>2. ASSUME NEW u \in Users, NEW forced \in BOOLEAN, ChangePassword(c, u, forced) PROVE Inv'
  <2>1. PICK r : r = [op |-> "change password", user |-> u, clears |-> forced \/ account[u].must]
    OBVIOUS
  <2>2. account[u].must \in BOOLEAN
    BY <1>2 DEF ChangePassword, SignedIn, Inv, RowsConsistent, AccountsConsistent, TypeOK, Account
  <2>3. Informed(r)
    BY <2>1, <2>2 DEF KnowsSession
  <2>4. UNCHANGED rows /\ call' = [call EXCEPT ![c] = r]
    BY <1>2, <2>1, Zenon DEF ChangePassword, Start
  <2> QED
    BY <2>3, <2>4, ReadKeepsInv
<1>3. ASSUME NEW actor \in Users, NEW u \in Users, ResetPassword(c, actor, u) PROVE Inv'
  <2>1. PICK r : r = [op |-> "reset password", user |-> u]
    OBVIOUS
  <2>2. Informed(r)
    BY <2>1 DEF KnowsSession
  <2> QED
    BY <1>3, <2>1, <2>2, ReadKeepsInv, ZenonT(60) DEF ResetPassword, Start
<1> QED
  BY <1>1, <1>2, <1>3

LEMMA AdministrationCallsStart ==
    ASSUME Inv, NEW c \in Calls, NEW actor \in Users, NEW u \in Users,
           \/ \E org \in Organizations, r \in Roles, status \in Statuses,
                e \in Employees \cup {Nobody}, password \in BOOLEAN :
                CreateUser(c, actor, u, org, r, status, e, password)
           \/ \E status \in Statuses, r \in Roles \cup {Nobody}, edit \in Edits :
                UpdateUser(c, actor, u, status, r, edit)
           \/ \E history \in BOOLEAN : DeleteUser(c, actor, u, history)
    PROVE  Inv'
<1> USE DEF Informed, KnowsAssignment, KnowsRole
<1>1. ASSUME NEW org \in Organizations, NEW r \in Roles, NEW status \in Statuses,
             NEW e \in Employees \cup {Nobody}, NEW password \in BOOLEAN,
             CreateUser(c, actor, u, org, r, status, e, password)
      PROVE  Inv'
  <2>1. PICK k : k = [op |-> "create user", user |-> u, org |-> org, role |-> r,
                      status |-> status, employee |-> e,
                      password |-> IF password THEN c ELSE "none"]
    OBVIOUS
  <2>2. e # Nobody => EmployeeOrganization[e] = org
    BY <1>1 DEF CreateUser, Linkable, MayCreateUser
  <2>3. Given(r) /\ RoleIsOf(r, org)
    BY <1>1 DEF CreateUser, RoleIn, Given, RoleIsOf, MayCreateUser
  <2>4. Informed(k)
    BY <2>1, <2>2, <2>3 DEF KnowsSession, KnowsNewUser, KnowsEdit
  <2> QED
    BY <1>1, <2>1, <2>4, ReadKeepsInv DEF CreateUser, Start, MayCreateUser
<1>2. ASSUME NEW status \in Statuses, NEW r \in Roles \cup {Nobody}, NEW edit \in Edits,
             UpdateUser(c, actor, u, status, r, edit)
      PROVE  Inv'
  <2>1. PICK isNew \in BOOLEAN : isNew = (r # Nobody /\ r \notin RolesOf(u))
    OBVIOUS
  <2>2. PICK primary \in PrimaryRoles(u) \cup (IF RolesOf(u) = {} THEN {Nobody} ELSE {}) :
          Start(c, [op |-> "update user", user |-> u, org |-> account[u].org,
                    status |-> status, edit |-> edit,
                    role |-> IF isNew THEN r ELSE Nobody,
                    drop |-> IF isNew /\ primary # Nobody THEN Replaced(u, primary) ELSE {}])
    BY <1>2, <2>1 DEF UpdateUser, MayUpdateUser, isNewRoleId
  <2>3. PICK k : k = [op |-> "update user", user |-> u, org |-> account[u].org,
                      status |-> status, edit |-> edit,
                      role |-> IF isNew THEN r ELSE Nobody,
                      drop |-> IF isNew /\ primary # Nobody THEN Replaced(u, primary) ELSE {}]
    OBVIOUS
  <2>4. u \in DOMAIN account /\ Given(u) /\ UserIsOf(u, account[u].org)
    BY <1>2 DEF UpdateUser, Given, UserIsOf, MayUpdateUser, isNewRoleId
  <2>5. edit.kind = "link" => EmployeeOrganization[edit.employee] = account[u].org
    BY <1>2 DEF UpdateUser, Linkable, MayUpdateUser, isNewRoleId
  <2>6. isNew => r \in Roles /\ Given(r) /\ RoleIsOf(r, account[u].org)
    BY <1>2, <2>1 DEF UpdateUser, RoleIn, Given, RoleIsOf, MayUpdateUser, isNewRoleId
  <2>7. \A g \in Replaced(u, primary) :
          g.role \in Roles /\ Given(g.role) /\ role[g.role].code # "EMPLOYEE"
    BY DEF Replaced, GrantsOf, Given, Inv, RowsConsistent, AccountsConsistent, TypeOK, Grant
  <2>8. KnowsEdit(k)
    BY <2>3, <2>4, <2>5, <2>6, <2>7 DEF KnowsEdit
  <2>9. Informed(k)
    BY <2>3, <2>8 DEF KnowsSession, KnowsNewUser
  <2> QED
    BY <1>2, <2>2, <2>3, <2>9, ReadKeepsInv, ZenonT(60) DEF UpdateUser, Start, MayUpdateUser,
                                                isNewRoleId
<1>3. ASSUME NEW history \in BOOLEAN, DeleteUser(c, actor, u, history) PROVE Inv'
  <2>1. PICK k : k = [op |-> "delete user", user |-> u]
    OBVIOUS
  <2>2. Informed(k)
    BY <2>1 DEF KnowsSession, KnowsNewUser, KnowsEdit
  <2> QED
    BY <1>3, <2>1, <2>2, ReadKeepsInv DEF DeleteUser, Start, MayDeleteUser
<1> QED
  BY <1>1, <1>2, <1>3

LEMMA RoleCallsStart ==
    ASSUME Inv, NEW c \in Calls, NEW actor \in Users,
           \/ \E u \in Users, r \in Roles : AssignRole(c, actor, u, r)
           \/ \E g \in grants : RemoveRole(c, actor, g)
           \/ \E r \in Roles, code \in Codes : CreateRole(c, actor, r, code)
           \/ \E r \in Roles, ps \in SUBSET Permissions : UpdateRole(c, actor, r, ps)
           \/ \E r \in Roles : DeleteRole(c, actor, r)
    PROVE  Inv'
<1> USE DEF Informed, KnowsSession, KnowsNewUser, KnowsEdit
<1>1. ASSUME NEW u \in Users, NEW r \in Roles, AssignRole(c, actor, u, r) PROVE Inv'
  <2>1. PICK k : k = [op |-> "assign role", user |-> u, role |-> r]
    OBVIOUS
  <2>2. Informed(k)
    BY <1>1, <2>1 DEF KnowsAssignment, KnowsRole, AssignRole, RoleIn, Given
  <2> QED
    BY <1>1, <2>1, <2>2, ReadKeepsInv DEF AssignRole, Start
<1>2. ASSUME NEW g \in grants, RemoveRole(c, actor, g) PROVE Inv'
  <2>1. PICK k : k = [op |-> "remove role", grant |-> g]
    OBVIOUS
  <2>2. g.role \in Roles /\ Given(g.role) /\ role[g.role].code # "EMPLOYEE"
    BY <1>2 DEF RemoveRole, Given, Inv, RowsConsistent, AccountsConsistent, TypeOK, Grant
  <2>3. Informed(k)
    BY <2>1, <2>2 DEF KnowsAssignment, KnowsRole
  <2> QED
    BY <1>2, <2>1, <2>3, ReadKeepsInv DEF RemoveRole, Start
<1>3. ASSUME NEW r \in Roles, NEW code \in Codes, CreateRole(c, actor, r, code) PROVE Inv'
  <2>1. PICK k : k = [op |-> "create role", role |-> r, code |-> code, org |-> account[actor].org]
    OBVIOUS
  <2>2. account[actor].org \in Organizations
    BY <1>3 DEF CreateRole, Requires, RequireUser, SignedIn, Inv, RowsConsistent,
                AccountsConsistent, TypeOK, Account
  <2>3. Informed(k)
    BY <1>3, <2>1, <2>2 DEF KnowsAssignment, KnowsRole, CreateRole
  <2> QED
    BY <1>3, <2>1, <2>3, ReadKeepsInv DEF CreateRole, Start
<1>4. ASSUME NEW r \in Roles, NEW ps \in SUBSET Permissions, UpdateRole(c, actor, r, ps) PROVE Inv'
  <2>1. PICK k : k = [op |-> "update role", role |-> r, permissions |-> ps]
    OBVIOUS
  <2>2. Given(r) /\ (IF role[r].code = "SUPERADMIN" THEN ps # {} ELSE ps \cap SystemOnly = {})
    BY <1>4 DEF UpdateRole, RoleIn, Given, MayUpdateRole
  <2>3. Informed(k)
    BY <2>1, <2>2 DEF KnowsAssignment, KnowsRole
  <2> QED
    BY <1>4, <2>1, <2>3, ReadKeepsInv DEF UpdateRole, Start, MayUpdateRole
<1>5. ASSUME NEW r \in Roles, DeleteRole(c, actor, r) PROVE Inv'
  <2>1. PICK k : k = [op |-> "delete role", role |-> r]
    OBVIOUS
  <2>2. Given(r) /\ ~role[r].system
    BY <1>5 DEF DeleteRole, RoleIn, Given, MayDeleteRole
  <2>3. Informed(k)
    BY <2>1, <2>2 DEF KnowsAssignment, KnowsRole
  <2> QED
    BY <1>5, <2>1, <2>3, ReadKeepsInv DEF DeleteRole, Start, MayDeleteRole
<1> QED
  BY <1>1, <1>2, <1>3, <1>4, <1>5

----------------------------------------------------------------------------
\* The steps that write: sessions and passwords.

LEMMA SessionStepsKeepInv ==
    ASSUME Inv, NEW c \in Calls,
           \/ CreateSession(c)
           \/ \E s \in session : Logout(c, s)
           \/ RevokeSessions(c)
    PROVE  Inv'
<1>1. Ends(c)
  BY DEF CreateSession, Logout, RevokeSessions
<1>2. UNCHANGED <<account, role, grants, link, spent>>
  BY DEF CreateSession, Logout, RevokeSessions
<1>3. Lasting
  BY <1>2 DEF Inv, RowsConsistent, IdsAreSpentOnce, Lasting, Given
<1>4. session' \subseteq Session /\ \A s \in session' : s.user \in DOMAIN account
  <2>1. session \subseteq Session /\ \A s \in session : s.user \in DOMAIN account
    BY DEF Inv, RowsConsistent, AccountsConsistent, TypeOK
  <2>2. CASE CreateSession(c)
    <3>1. KnowsSession(call[c])
      BY DEF Inv, Knows
    <3>2. PICK late \in BOOLEAN : late = (account[call[c].user].password # call[c].verified)
      OBVIOUS
    <3>3. session' = session \cup {[id |-> c, user |-> call[c].user,
                                   password |-> call[c].verified, late |-> late]}
      BY <2>2, <3>2, Zenon DEF CreateSession
    <3> QED
      BY <2>1, <2>2, <3>1, <3>3 DEF CreateSession, KnowsSession, Session
  <2> QED
    BY <2>1, <2>2 DEF Logout, RevokeSessions
<1>5. DOMAIN call' = Calls
  BY <1>1 DEF Inv, RowsConsistent, AccountsConsistent, TypeOK, Ends
<1>6. RowsConsistent'
  BY <1>2, <1>4, <1>5 DEF Inv, RowsConsistent, AccountsConsistent, TypeOK, TenantsAreSeparate,
         SystemPermissionsStayReserved, IdsAreSpentOnce
<1> QED
  BY <1>1, <1>3, <1>6, EndKeepsInv

\* A password or a status is written of a row, or of no row.
LEMMA AccountWriteIsConsistent ==
    ASSUME Inv, account' \in [DOMAIN account -> Account],
           \A u \in DOMAIN account : account'[u].org = account[u].org,
           UNCHANGED <<role, grants, link, session, spent>>,
           DOMAIN call' = Calls
    PROVE  RowsConsistent' /\ Lasting
BY DEF Inv, RowsConsistent, AccountsConsistent, TypeOK, TenantsAreSeparate,
       SystemPermissionsStayReserved, IdsAreSpentOnce, Lasting, Given

LEMMA PasswordWritesKeepInv ==
    ASSUME Inv, NEW c \in Calls, WriteChangedPassword(c) \/ WriteResetPassword(c)
    PROVE  Inv'
<1>1. PICK r : r = [op |-> "revoke", user |-> call[c].user]
  OBVIOUS
<1>2. KnowsSession(call[c])
  BY DEF Inv, Knows
<1>3. call' = [call EXCEPT ![c] = r]
  BY <1>1 DEF WriteChangedPassword, WriteResetPassword
<1>4. r.op = "revoke" /\ r \in [op : {"revoke", "not revoked"}, user : Users]
  BY <1>1, <1>2 DEF WriteChangedPassword, WriteResetPassword, KnowsSession
<1>5. Informed(r)'
  BY <1>4 DEF Informed, KnowsSession, KnowsNewUser, KnowsEdit, KnowsAssignment, KnowsRole
<1>6. /\ account' \in [DOMAIN account -> Account]
      /\ \A u \in DOMAIN account : account'[u].org = account[u].org
  <2>1. account \in [DOMAIN account -> Account]
    BY DEF Inv, RowsConsistent, AccountsConsistent, TypeOK
  <2>2. CASE WriteChangedPassword(c)
    <3>1. PICK u : u = call[c].user
      OBVIOUS
    <3>2. u \in DOMAIN account
      BY <2>2, <3>1 DEF WriteChangedPassword
    <3>3. PICK must \in BOOLEAN : must = (account[u].must /\ ~call[c].clears)
      OBVIOUS
    <3>4. account' = [account EXCEPT ![u] = [[@ EXCEPT !.password = c] EXCEPT !.must = must]]
      BY <2>2, <3>1, <3>2, <3>3 DEF WriteChangedPassword
    <3> QED
      BY <2>1, <3>2, <3>4 DEF Account
  <2>3. CASE WriteResetPassword(c)
    BY <2>1, <2>3 DEF WriteResetPassword, Account
  <2> QED
    BY <2>2, <2>3
<1>7. DOMAIN call' = Calls
  BY <1>3 DEF Inv, RowsConsistent, AccountsConsistent, TypeOK
<1>8. RowsConsistent' /\ Lasting
  BY <1>6, <1>7, AccountWriteIsConsistent DEF WriteChangedPassword, WriteResetPassword
<1> QED
  BY <1>3, <1>5, <1>8, StepKeepsInv

----------------------------------------------------------------------------
\* The steps that write: users.

LEMMA CommitCreateUserKeepsInv ==
    ASSUME Inv, NEW c \in Calls, CommitCreateUser(c)
    PROVE  Inv'
<1>1. PICK k : k = call[c]
  OBVIOUS
<1>2. KnowsNewUser(k) /\ k.op = "create user"
  BY <1>1 DEF Inv, Knows, CommitCreateUser
<1>3. /\ k.user \in Users /\ k.org \in Organizations /\ k.status \in Statuses
      /\ k.employee \in Employees \cup {Nobody} /\ k.password \in Calls \cup {"none"}
      /\ k.employee # Nobody => EmployeeOrganization[k.employee] = k.org
  BY <1>2 DEF KnowsNewUser
<1>4. PICK row \in Account :
        row = [org |-> k.org, status |-> k.status, password |-> k.password, must |-> FALSE]
  BY <1>3 DEF Account
<1>5. /\ k.user \notin DOMAIN account \cup spent
      /\ k.role \in DOMAIN role
      /\ account' = [x \in DOMAIN account \cup {k.user} |-> IF x = k.user THEN row ELSE account[x]]
      /\ grants' = grants \cup {[id |-> c, user |-> k.user, role |-> k.role]}
      /\ link' = IF k.employee = Nobody THEN link ELSE [link EXCEPT ![k.employee] = k.user]
      /\ UNCHANGED <<role, session, spent>> /\ Ends(c)
  BY <1>1, <1>4 DEF CommitCreateUser
<1>6. role[k.role].org = k.org /\ k.role \in Roles
  BY <1>2, <1>5 DEF KnowsNewUser, RoleIsOf
<1>7. TypeOK /\ TenantsAreSeparate /\ SystemPermissionsStayReserved /\ IdsAreSpentOnce
  BY DEF Inv, RowsConsistent, AccountsConsistent
<1>8. DOMAIN account' = DOMAIN account \cup {k.user} /\ account'[k.user].org = k.org
  BY <1>4, <1>5
<1>9. \A u \in DOMAIN account : account'[u] = account[u]
  BY <1>5
<1>10. TypeOK'
  <2>1. account' \in [DOMAIN account' -> Account] /\ DOMAIN account' \subseteq Users
    BY <1>3, <1>5, <1>7, <1>8 DEF TypeOK
  <2>2. grants' \subseteq Grant /\ \A g \in grants' : g.user \in DOMAIN account' /\ g.role \in DOMAIN role
    BY <1>3, <1>5, <1>6, <1>7, <1>8 DEF TypeOK, Grant
  <2>3. link' \in [Employees -> DOMAIN account' \cup {Nobody}]
    BY <1>3, <1>5, <1>7, <1>8 DEF TypeOK
  <2>4. DOMAIN call' = Calls
    BY <1>5, <1>7 DEF TypeOK, Ends
  <2> QED
    BY <2>1, <2>2, <2>3, <2>4, <1>5, <1>7, <1>8 DEF TypeOK
<1>11. TenantsAreSeparate'
  <2>1. \A g \in grants' : role[g.role].org = account'[g.user].org
    BY <1>5, <1>6, <1>7, <1>8, <1>9 DEF TypeOK, TenantsAreSeparate
  <2>2. \A e \in Employees : link'[e] # Nobody => EmployeeOrganization[e] = account'[link'[e]].org
    BY <1>3, <1>5, <1>7, <1>8, <1>9 DEF TypeOK, TenantsAreSeparate
  <2> QED
    BY <2>1, <2>2, <1>5 DEF TenantsAreSeparate
<1>12. RowsConsistent'
  BY <1>3, <1>5, <1>7, <1>8, <1>10, <1>11, AccountsAssumption
     DEF RowsConsistent, AccountsConsistent, SystemPermissionsStayReserved, IdsAreSpentOnce, TypeOK
<1>13. Lasting
  BY <1>5, <1>7, <1>8, <1>9 DEF Lasting, Given, IdsAreSpentOnce
<1> QED
  BY <1>5, <1>12, <1>13, EndKeepsInv

LEMMA CommitDeleteUserKeepsInv ==
    ASSUME Inv, NEW c \in Calls, CommitDeleteUser(c)
    PROVE  Inv'
<1>1. PICK u : u = call[c].user
  OBVIOUS
<1>2. u \in Users
  <2>1. KnowsSession(call[c])
    BY DEF Inv, Knows
  <2> QED
    BY <1>1, <2>1 DEF KnowsSession, CommitDeleteUser
<1>3. /\ account' = [x \in DOMAIN account \ {u} |-> account[x]]
      /\ grants' = grants \ GrantsOf(u)
      /\ session' = {s \in session : s.user # u}
      /\ link' = [e \in Employees |-> IF link[e] = u THEN Nobody ELSE link[e]]
      /\ spent' = spent \cup {u}
      /\ role' = role /\ Ends(c)
  BY <1>1 DEF CommitDeleteUser
<1>4. TypeOK /\ TenantsAreSeparate /\ SystemPermissionsStayReserved /\ IdsAreSpentOnce
  BY DEF Inv, RowsConsistent, AccountsConsistent
<1>5. TypeOK'
  BY <1>3, <1>4 DEF TypeOK, GrantsOf, Ends
<1>6. TenantsAreSeparate'
  BY <1>3, <1>4 DEF TypeOK, GrantsOf, TenantsAreSeparate
<1>7. RowsConsistent'
  BY <1>2, <1>3, <1>4, <1>5, <1>6, AccountsAssumption
     DEF RowsConsistent, AccountsConsistent, SystemPermissionsStayReserved, IdsAreSpentOnce, TypeOK
<1>8. Lasting
  BY <1>2, <1>3, <1>4 DEF Lasting, Given, IdsAreSpentOnce
<1> QED
  BY <1>3, <1>7, <1>8, EndKeepsInv

LEMMA CommitUpdateUserKeepsInv ==
    ASSUME Inv, NEW c \in Calls, CommitUpdateUser(c)
    PROVE  Inv'
<1>1. PICK k : k = call[c]
  OBVIOUS
<1>2. KnowsEdit(k) /\ k.op = "update user"
  BY <1>1 DEF Inv, Knows, CommitUpdateUser
<1>3. /\ k.user \in Users /\ k.status \in Statuses /\ k.edit \in Edits
      /\ k.edit.kind = "link" => EmployeeOrganization[k.edit.employee] = k.org
      /\ k.user \in DOMAIN account => account[k.user].org = k.org
  BY <1>2 DEF KnowsEdit, UserIsOf
<1>4. /\ k.user \in DOMAIN account \/ (k.edit.kind # "link" /\ k.role = Nobody)
      /\ k.role # Nobody => k.role \in DOMAIN role
      /\ account' = IF k.user \in DOMAIN account
                    THEN [account EXCEPT ![k.user].status = k.status] ELSE account
      /\ link' = Relink(k.user, k.org, k.edit)
      /\ grants' = (grants \ k.drop) \cup
                   {[id |-> c, user |-> k.user, role |-> x] : x \in {k.role} \ {Nobody}}
      /\ UNCHANGED <<role, session, spent>> /\ Ends(c)
  BY <1>1 DEF CommitUpdateUser
<1>5. TypeOK /\ TenantsAreSeparate /\ SystemPermissionsStayReserved /\ IdsAreSpentOnce
  BY DEF Inv, RowsConsistent, AccountsConsistent
<1>6. k.role # Nobody => k.role \in Roles /\ role[k.role].org = k.org
  BY <1>2, <1>4 DEF KnowsEdit, RoleIsOf
<1>7. /\ account' \in [DOMAIN account -> Account]
      /\ \A u \in DOMAIN account : account'[u].org = account[u].org
  <2>1. account \in [DOMAIN account -> Account]
    BY <1>5 DEF TypeOK
  <2> QED
    BY <2>1, <1>3, <1>4 DEF Account
<1>8. DOMAIN account' = DOMAIN account
  BY <1>7
<1>9. \A g \in grants' : g \in grants \/ (/\ k.role # Nobody
                                          /\ g = [id |-> c, user |-> k.user, role |-> k.role])
  BY <1>4
<1>10. /\ link' \in [Employees -> DOMAIN account \cup {Nobody}]
       /\ \A e \in Employees : link'[e] # Nobody => EmployeeOrganization[e] = account[link'[e]].org
  <2>0. /\ link \in [Employees -> DOMAIN account \cup {Nobody}]
        /\ \A e \in Employees : link[e] # Nobody => EmployeeOrganization[e] = account[link[e]].org
    BY <1>5 DEF TypeOK, TenantsAreSeparate
  <2>1. CASE k.edit = Keep
    BY <2>0, <2>1, <1>4 DEF Relink, Keep
  <2>2. CASE k.edit = Unlink
    BY <2>0, <2>2, <1>4 DEF Relink, Unlink
  <2>3. ASSUME NEW e \in Employees, k.edit = LinkTo(e)
        PROVE  /\ link' \in [Employees -> DOMAIN account \cup {Nobody}]
               /\ \A x \in Employees : link'[x] # Nobody =>
                    EmployeeOrganization[x] = account[link'[x]].org
    <3>1. k.edit.kind = "link" /\ k.edit.employee = e
      BY <2>3 DEF LinkTo
    <3>2. link' = [link EXCEPT ![e] = k.user]
      BY <3>1, <1>4 DEF Relink
    <3> QED
      BY <2>0, <3>1, <3>2, <1>3, <1>4
  <2> QED
    BY <2>1, <2>2, <2>3, <1>3 DEF Edits
<1>11. TypeOK'
  <2>1. grants' \subseteq Grant /\ \A g \in grants' : g.user \in DOMAIN account /\ g.role \in DOMAIN role
    BY <1>3, <1>4, <1>5, <1>6, <1>9 DEF TypeOK, Grant
  <2>2. DOMAIN call' = Calls
    BY <1>4, <1>5 DEF TypeOK, Ends
  <2> QED
    BY <2>1, <2>2, <1>4, <1>5, <1>7, <1>8, <1>10 DEF TypeOK
<1>12. TenantsAreSeparate'
  <2>1. \A g \in grants' : role[g.role].org = account'[g.user].org
    BY <1>3, <1>4, <1>5, <1>6, <1>7, <1>9 DEF TypeOK, TenantsAreSeparate
  <2>2. \A e \in Employees : link'[e] # Nobody => EmployeeOrganization[e] = account'[link'[e]].org
    BY <1>7, <1>10
  <2> QED
    BY <2>1, <2>2, <1>4 DEF TenantsAreSeparate
<1>13. RowsConsistent'
  BY <1>4, <1>5, <1>8, <1>11, <1>12
     DEF RowsConsistent, AccountsConsistent, SystemPermissionsStayReserved, IdsAreSpentOnce
<1>14. Lasting
  BY <1>4, <1>5, <1>7, <1>8 DEF Lasting, Given, IdsAreSpentOnce
<1> QED
  BY <1>4, <1>13, <1>14, EndKeepsInv

----------------------------------------------------------------------------
\* The steps that write: roles and their grants.

LEMMA AssignmentWritesKeepInv ==
    ASSUME Inv, NEW c \in Calls, CommitAssignRole(c) \/ CommitRemoveRole(c)
    PROVE  Inv'
<1>1. TypeOK /\ TenantsAreSeparate /\ SystemPermissionsStayReserved /\ IdsAreSpentOnce
  BY DEF Inv, RowsConsistent, AccountsConsistent
<1>2. UNCHANGED <<account, role, link, session, spent>> /\ Ends(c)
  BY DEF CommitAssignRole, CommitRemoveRole
<1>3. DOMAIN call' = Calls
  BY <1>1, <1>2 DEF TypeOK, Ends
<1>4. \A g \in grants' : /\ g \in Grant /\ g.user \in DOMAIN account /\ g.role \in DOMAIN role
                         /\ role[g.role].org = account[g.user].org
  <2>1. CASE CommitAssignRole(c)
    <3>1. KnowsAssignment(call[c])
      BY DEF Inv, Knows
    <3>2. PICK new : new = [id |-> c, user |-> call[c].user, role |-> call[c].role]
      OBVIOUS
    <3>3. grants' = grants \cup {new}
      BY <2>1, <3>2 DEF CommitAssignRole
    <3>4. /\ new \in Grant /\ new.user \in DOMAIN account /\ new.role \in DOMAIN role
          /\ role[new.role].org = account[new.user].org
      BY <2>1, <3>1, <3>2 DEF CommitAssignRole, KnowsAssignment, Grant
    <3> QED
      BY <1>1, <3>3, <3>4 DEF TypeOK, TenantsAreSeparate
  <2>2. CASE CommitRemoveRole(c)
    BY <1>1, <2>2 DEF CommitRemoveRole, TypeOK, TenantsAreSeparate
  <2> QED
    BY <2>1, <2>2
<1>5. RowsConsistent' /\ Lasting
  BY <1>1, <1>2, <1>3, <1>4
     DEF RowsConsistent, AccountsConsistent, TypeOK, TenantsAreSeparate,
         SystemPermissionsStayReserved, IdsAreSpentOnce, Lasting, Given
<1> QED
  BY <1>2, <1>5, EndKeepsInv

LEMMA CommitCreateRoleKeepsInv ==
    ASSUME Inv, NEW c \in Calls, CommitCreateRole(c)
    PROVE  Inv'
<1>1. PICK k : k = call[c]
  OBVIOUS
<1>2. k.role \in Roles /\ k.code = "CUSTOM" /\ k.org \in Organizations
  <2>1. KnowsRole(call[c])
    BY DEF Inv, Knows
  <2> QED
    BY <1>1, <2>1 DEF KnowsRole, CommitCreateRole
<1>3. PICK row \in Role :
        row = [org |-> k.org, code |-> k.code, system |-> FALSE, permissions |-> {}]
  BY <1>2 DEF Role, Codes
<1>4. /\ k.role \notin DOMAIN role \cup spent
      /\ role' = [r \in DOMAIN role \cup {k.role} |-> IF r = k.role THEN row ELSE role[r]]
      /\ UNCHANGED <<account, grants, link, session, spent>> /\ Ends(c)
  BY <1>1, <1>3 DEF CommitCreateRole
<1>5. TypeOK /\ TenantsAreSeparate /\ SystemPermissionsStayReserved /\ IdsAreSpentOnce
  BY DEF Inv, RowsConsistent, AccountsConsistent
<1>6. /\ DOMAIN role' = DOMAIN role \cup {k.role}
      /\ \A r \in DOMAIN role : role'[r] = role[r]
      /\ role'[k.role].code = "CUSTOM" /\ role'[k.role].permissions = {}
  BY <1>2, <1>3, <1>4
<1>7. TypeOK'
  <2>1. role' \in [DOMAIN role' -> Role] /\ DOMAIN role' \subseteq Roles
    BY <1>2, <1>4, <1>5, <1>6 DEF TypeOK
  <2>2. DOMAIN call' = Calls
    BY <1>4, <1>5 DEF TypeOK, Ends
  <2> QED
    BY <2>1, <2>2, <1>4, <1>5, <1>6 DEF TypeOK
<1>8. TenantsAreSeparate'
  BY <1>4, <1>5, <1>6 DEF TypeOK, TenantsAreSeparate
<1>9. SystemPermissionsStayReserved'
  BY <1>5, <1>6 DEF SystemPermissionsStayReserved
<1>10. IdsAreSpentOnce'
  <2>1. \A r \in DOMAIN role' : role'[r].code = "EMPLOYEE" => role'[r].system
    BY <1>5, <1>6 DEF IdsAreSpentOnce
  <2> QED
    BY <2>1, <1>4, <1>5, <1>6 DEF IdsAreSpentOnce
<1>11. RowsConsistent'
  BY <1>7, <1>8, <1>9, <1>10 DEF RowsConsistent, AccountsConsistent
<1>12. Lasting
  BY <1>4, <1>5, <1>6 DEF Lasting, Given, IdsAreSpentOnce
<1> QED
  BY <1>4, <1>11, <1>12, EndKeepsInv

LEMMA CommitUpdateRoleKeepsInv ==
    ASSUME Inv, NEW c \in Calls, CommitUpdateRole(c)
    PROVE  Inv'
<1>1. PICK k : k = call[c]
  OBVIOUS
<1>2. KnowsRole(k) /\ k.op = "update role"
  BY <1>1 DEF Inv, Knows, CommitUpdateRole
<1>3. /\ role' = IF k.role \in DOMAIN role
                 THEN [role EXCEPT ![k.role].permissions = k.permissions] ELSE role
      /\ UNCHANGED <<account, grants, link, session, spent>> /\ Ends(c)
  BY <1>1 DEF CommitUpdateRole
<1>4. TypeOK /\ TenantsAreSeparate /\ SystemPermissionsStayReserved /\ IdsAreSpentOnce
  BY DEF Inv, RowsConsistent, AccountsConsistent
<1>5. /\ k.permissions \subseteq Permissions
      /\ k.role \in DOMAIN role =>
           IF role[k.role].code = "SUPERADMIN" THEN k.permissions # {}
           ELSE k.permissions \cap SystemOnly = {}
  BY <1>2 DEF KnowsRole
<1>6. /\ role' \in [DOMAIN role -> Role]
      /\ \A r \in DOMAIN role : /\ role'[r].org = role[r].org /\ role'[r].code = role[r].code
                                /\ role'[r].system = role[r].system
                                /\ role'[r].permissions = IF r = k.role THEN k.permissions
                                                          ELSE role[r].permissions
  <2>1. role \in [DOMAIN role -> Role]
    BY <1>4 DEF TypeOK
  <2> QED
    BY <2>1, <1>3, <1>5 DEF Role
<1>7. DOMAIN role' = DOMAIN role
  BY <1>6
<1>8. DOMAIN call' = Calls
  BY <1>3, <1>4 DEF TypeOK, Ends
<1>9. TypeOK'
  BY <1>3, <1>4, <1>6, <1>7, <1>8 DEF TypeOK
<1>10. TenantsAreSeparate'
  BY <1>3, <1>4, <1>6 DEF TypeOK, TenantsAreSeparate
<1>11. SystemPermissionsStayReserved'
  BY <1>4, <1>5, <1>6, <1>7 DEF SystemPermissionsStayReserved
<1>12. IdsAreSpentOnce'
  BY <1>3, <1>4, <1>6, <1>7 DEF IdsAreSpentOnce
<1>13. RowsConsistent'
  BY <1>9, <1>10, <1>11, <1>12 DEF RowsConsistent, AccountsConsistent
<1>14. Lasting
  BY <1>3, <1>4, <1>6, <1>7 DEF Lasting, Given, IdsAreSpentOnce
<1> QED
  BY <1>3, <1>13, <1>14, EndKeepsInv

LEMMA CommitDeleteRoleKeepsInv ==
    ASSUME Inv, NEW c \in Calls, CommitDeleteRole(c)
    PROVE  Inv'
<1>1. PICK r : r = call[c].role
  OBVIOUS
<1>2. r \in Roles
  <2>1. KnowsRole(call[c])
    BY DEF Inv, Knows
  <2> QED
    BY <1>1, <2>1 DEF KnowsRole, CommitDeleteRole
<1>3. /\ role' = [x \in DOMAIN role \ {r} |-> role[x]]
      /\ grants' = {g \in grants : g.role # r}
      /\ spent' = spent \cup {r}
      /\ UNCHANGED <<account, link, session>> /\ Ends(c)
  BY <1>1 DEF CommitDeleteRole
<1>4. TypeOK /\ TenantsAreSeparate /\ SystemPermissionsStayReserved /\ IdsAreSpentOnce
  BY DEF Inv, RowsConsistent, AccountsConsistent
<1>5. TypeOK'
  BY <1>3, <1>4 DEF TypeOK, Ends
<1>6. TenantsAreSeparate'
  BY <1>3, <1>4 DEF TypeOK, TenantsAreSeparate
<1>7. SystemPermissionsStayReserved' /\ IdsAreSpentOnce'
  BY <1>2, <1>3, <1>4, AccountsAssumption
     DEF SystemPermissionsStayReserved, IdsAreSpentOnce, TypeOK
<1>8. RowsConsistent'
  BY <1>5, <1>6, <1>7 DEF RowsConsistent, AccountsConsistent
<1>9. Lasting
  BY <1>2, <1>3, <1>4 DEF Lasting, Given, IdsAreSpentOnce
<1> QED
  BY <1>3, <1>8, <1>9, EndKeepsInv

----------------------------------------------------------------------------
\* A call that fails, and the whole next-state relation.

LEMMA FailKeepsInv ==
    ASSUME Inv, NEW c \in Calls, Fail(c)
    PROVE  Inv'
<1>1. CASE call[c].op = "revoke"
  <2>1. PICK r : r = [call[c] EXCEPT !.op = "not revoked"]
    OBVIOUS
  <2>2. UNCHANGED rows /\ call' = [call EXCEPT ![c] = r]
    BY <1>1, <2>1 DEF Fail
  <2>3. KnowsSession(call[c])
    BY DEF Inv, Knows
  <2>4. r.op = "not revoked" /\ r \in [op : {"revoke", "not revoked"}, user : Users]
    BY <1>1, <2>1, <2>3 DEF KnowsSession
  <2>5. Informed(r)
    BY <2>4 DEF Informed, KnowsSession, KnowsNewUser, KnowsEdit, KnowsAssignment, KnowsRole
  <2> QED
    BY <2>2, <2>5, ReadKeepsInv
<1>2. CASE call[c].op # "revoke"
  <2>1. PICK r : r = Done
    OBVIOUS
  <2>2. UNCHANGED rows /\ call' = [call EXCEPT ![c] = r]
    BY <1>2, <2>1 DEF Fail, Ends
  <2> QED
    BY <2>1, <2>2, ReadKeepsInv, EndedIsInformed
<1> QED
  BY <1>1, <1>2

LEMMA StutteringKeepsInv ==
    ASSUME Inv, UNCHANGED vars
    PROVE  Inv'
<1>1. RowsConsistent'
  BY DEF Inv, RowsConsistent, AccountsConsistent, TypeOK, TenantsAreSeparate,
         SystemPermissionsStayReserved, IdsAreSpentOnce, vars, rows
<1>2. Lasting
  BY DEF Inv, RowsConsistent, IdsAreSpentOnce, Lasting, Given, vars, rows
<1>3. \A c \in Calls : call'[c] = call[c]
  BY DEF vars
<1> QED
  BY <1>1, <1>2, <1>3, OthersKeepKnowing DEF Inv

LEMMA NextKeepsInv ==
    ASSUME Inv, [Next]_vars
    PROVE  Inv'
<1>1. ASSUME NEW c \in Calls, Passwords(c) PROVE Inv'
  BY <1>1, PasswordCallsStart, SessionStepsKeepInv, PasswordWritesKeepInv DEF Passwords, Holders
<1>2. ASSUME NEW c \in Calls, Administration(c) PROVE Inv'
  BY <1>2, AdministrationCallsStart, CommitCreateUserKeepsInv, CommitUpdateUserKeepsInv,
     CommitDeleteUserKeepsInv DEF Administration, Holders
<1>3. ASSUME NEW c \in Calls, RoleManagement(c) PROVE Inv'
  BY <1>3, RoleCallsStart, AssignmentWritesKeepInv, CommitCreateRoleKeepsInv,
     CommitUpdateRoleKeepsInv, CommitDeleteRoleKeepsInv
     DEF RoleManagement, Holders, SuperAdmins
<1> QED
  BY <1>1, <1>2, <1>3, FailKeepsInv, StutteringKeepsInv DEF Next

LEMMA InitEstablishesInv ==
    ASSUME Init
    PROVE  Inv
<1> USE AccountsAssumption, EmployeeAssumption, SeedAssumption
<1>1. DOMAIN account = {rootA, rootB, admin, staff} /\ DOMAIN role = SeededRoles
  BY DEF Init
<1>2. \A u \in {rootA, rootB, admin, staff} :
        /\ account[u] \in Account
        /\ account[u].org = IF u \in {rootA, rootB} THEN SystemOrganization ELSE tenant
  BY DEF Init, Account, Statuses
<1>3. \A r \in SeededRoles :
        /\ role[r].org = IF r = superRole THEN SystemOrganization ELSE tenant
        /\ role[r].code = CASE r = superRole -> "SUPERADMIN" [] r = adminRole -> "ADMIN"
                            [] r = employeeRole -> "EMPLOYEE" [] OTHER -> "CUSTOM"
        /\ role[r].system = (r # customRole)
        /\ role[r].permissions = CASE r = superRole -> Permissions
                                   [] r = adminRole -> {"users", "roles"} [] OTHER -> {}
  BY Zenon DEF Init
<1>4. role \in [DOMAIN role -> Role]
  <2>1. ASSUME NEW r \in SeededRoles PROVE role[r] \in Role
    <3>1. PICK org \in Organizations : org = IF r = superRole THEN SystemOrganization ELSE tenant
      OBVIOUS
    <3>2. PICK code \in Codes :
            code = CASE r = superRole -> "SUPERADMIN" [] r = adminRole -> "ADMIN"
                     [] r = employeeRole -> "EMPLOYEE" [] OTHER -> "CUSTOM"
      BY DEF Codes, SeededRoles
    <3>3. PICK system \in BOOLEAN : system = (r # customRole)
      OBVIOUS
    <3>4. PICK ps \in SUBSET Permissions :
            ps = CASE r = superRole -> Permissions
                   [] r = adminRole -> {"users", "roles"} [] OTHER -> {}
      BY DEF Permissions
    <3>5. role[r] = [org |-> org, code |-> code, system |-> system, permissions |-> ps]
      BY <3>1, <3>2, <3>3, <3>4, Zenon DEF Init
    <3> QED
      BY <3>5 DEF Role
  <2> QED
    BY <2>1, <1>1 DEF Init
<1>5. \A g \in grants : /\ g \in Grant /\ g.user \in DOMAIN account /\ g.role \in DOMAIN role
                        /\ role[g.role].org = account[g.user].org
  <2>1. SUFFICES ASSUME NEW g \in grants
                 PROVE  /\ g \in Grant /\ g.user \in DOMAIN account /\ g.role \in DOMAIN role
                        /\ role[g.role].org = account[g.user].org
    OBVIOUS
  <2>2. PICK p \in {<<rootA, superRole>>, <<rootB, superRole>>, <<admin, adminRole>>,
                    <<staff, employeeRole>>, <<staff, customRole>>} :
          g = [id |-> "seed", user |-> p[1], role |-> p[2]]
    BY DEF Init
  <2>3. PICK u, r : u = p[1] /\ r = p[2]
    OBVIOUS
  <2>4. /\ u \in {rootA, rootB, admin, staff} /\ r \in SeededRoles
        /\ (u \in {rootA, rootB}) <=> (r = superRole)
    <3>1. \/ u = rootA /\ r = superRole
          \/ u = rootB /\ r = superRole
          \/ u = admin /\ r = adminRole
          \/ u = staff /\ r = employeeRole
          \/ u = staff /\ r = customRole
      BY <2>2, <2>3
    <3> QED
      BY <3>1 DEF SeededRoles
  <2>5. g = [id |-> "seed", user |-> u, role |-> r]
    BY <2>2, <2>3
  <2>6. g.user = u /\ g.role = r /\ g \in Grant
    BY <2>4, <2>5 DEF Grant
  <2> QED
    BY <2>4, <2>6, <1>1, <1>2, <1>3
<1>6. TypeOK
  <2>1. account \in [DOMAIN account -> Account] /\ DOMAIN account \subseteq Users
    BY <1>1, <1>2 DEF Init
  <2>2. link \in [Employees -> DOMAIN account \cup {Nobody}]
    BY <1>1 DEF Init
  <2>3. session \subseteq Session /\ \A s \in session : s.user \in DOMAIN account
    <3>1. ASSUME NEW s \in session PROVE s \in Session /\ s.user \in DOMAIN account
      <4>1. PICK u \in {rootA, rootB, admin, staff} :
              s = [id |-> "seed", user |-> u, password |-> "initial", late |-> FALSE]
        BY <3>1 DEF Init
      <4>2. u \in Users /\ u \in DOMAIN account
        BY <1>1
      <4> QED
        BY <4>1, <4>2 DEF Session
    <3> QED
      BY <3>1
  <2>4. DOMAIN call = Calls
    BY DEF Init
  <2> QED
    BY <2>1, <2>2, <2>3, <2>4, <1>1, <1>4, <1>5 DEF TypeOK
<1>7. TenantsAreSeparate
  BY <1>2, <1>5 DEF TenantsAreSeparate, Init
<1>8. SystemPermissionsStayReserved
  BY <1>1, <1>3 DEF SystemPermissionsStayReserved, SeededRoles, SystemOnly, Permissions
<1>9. IdsAreSpentOnce
  BY <1>1, <1>3 DEF IdsAreSpentOnce, Init, SeededRoles
<1>10. \A c \in Calls : Knows(c)
  BY EndedIsInformed DEF Init, Knows, Informed
<1> QED
  BY <1>6, <1>7, <1>8, <1>9, <1>10 DEF Inv, RowsConsistent, AccountsConsistent

\* The strengthened invariant.
THEOREM Inductive == Spec => []Inv
BY InitEstablishesInv, NextKeepsInv, PTL DEF Spec

\* Accounts, roles, grants and links are always rows of the schema that stay
\* within their organization, and permissions of the system stay its own,
\* however the calls of features/users and features/rbac overlap.
THEOREM AccountsAreConsistent == Spec => []AccountsConsistent
<1>1. Inv => AccountsConsistent
  BY DEF Inv, RowsConsistent
<1> QED
  BY <1>1, Inductive, PTL

----------------------------------------------------------------------------
\* Sessions and passwords.

\* A step that revokes nothing and leaves the password behind every session.
LEMMA SessionsUntouched ==
    ASSUME SessionsFollowPasswords, session' \subseteq session,
           \A s \in session' : account'[s.user].password = account[s.user].password,
           \A d \in Calls : call[d].op \in {"revoke", "not revoked"} =>
              \/ call'[d].op \in {"revoke", "not revoked"} /\ call'[d].user = call[d].user
              \/ \A s \in session' : s.user # call[d].user
    PROVE  SessionsFollowPasswords'
BY DEF SessionsFollowPasswords

\* A call that is not revoking leaves every revocation under way.
LEMMA RevocationsGoOn ==
    ASSUME NEW c \in Calls, call[c].op \notin {"revoke", "not revoked"}, DOMAIN call = Calls,
           NEW r, call' = [call EXCEPT ![c] = r]
    PROVE  \A d \in Calls : call[d].op \in {"revoke", "not revoked"} => call'[d] = call[d]
OBVIOUS

LEMMA PasswordStepsFollow ==
    ASSUME Inv, SessionsFollowPasswords, NEW c \in Calls, Passwords(c)
    PROVE  SessionsFollowPasswords'
<1>1. TypeOK
  BY DEF Inv, RowsConsistent, AccountsConsistent
<1>2. ASSUME UNCHANGED account, session' \subseteq session,
             call[c] = Idle \/ call[c].op = "login", NEW r, call' = [call EXCEPT ![c] = r]
      PROVE  SessionsFollowPasswords'
  <2>0. call[c].op \notin {"revoke", "not revoked"}
    <3>1. Idle.op = "idle"
      BY DEF Idle
    <3> QED
      BY <1>2, <3>1
  <2>1. \A d \in Calls : call[d].op \in {"revoke", "not revoked"} => call'[d] = call[d]
    BY <2>0, <1>1, <1>2, RevocationsGoOn DEF TypeOK
  <2> QED
    BY <2>1, <1>2, SessionsUntouched
<1>3. ASSUME NEW u \in Users,
             Login(c, u) \/ (\E forced \in BOOLEAN : ChangePassword(c, u, forced))
             \/ \E actor \in Users : ResetPassword(c, actor, u)
      PROVE  SessionsFollowPasswords'
  <2>1. PICK r : call[c] = Idle /\ call' = [call EXCEPT ![c] = r] /\ UNCHANGED rows
    <3>1. CASE Login(c, u)
      BY <3>1, Zenon DEF Login, Start
    <3>2. CASE \E forced \in BOOLEAN : ChangePassword(c, u, forced)
      BY <3>2, Zenon DEF ChangePassword, Start
    <3>3. CASE \E actor \in Users : ResetPassword(c, actor, u)
      BY <3>3, Zenon DEF ResetPassword, Start
    <3> QED
      BY <1>3, <3>1, <3>2, <3>3
  <2> QED
    BY <2>1, <1>2 DEF rows
<1>4. ASSUME NEW s \in session, Logout(c, s) PROVE SessionsFollowPasswords'
  BY <1>2, <1>4 DEF Logout, Ends
<1>5. CASE CreateSession(c)
  <2>1. PICK late : late = (account[call[c].user].password # call[c].verified)
    OBVIOUS
  <2>2. PICK new : /\ new = [id |-> c, user |-> call[c].user, password |-> call[c].verified, late |-> late]
                   /\ session' = session \cup {new}
    BY <1>5, <2>1, Zenon DEF CreateSession
  <2>3. new.password # account[new.user].password => new.late
    BY <2>1, <2>2
  <2>4. UNCHANGED account /\ \A d \in Calls : call[d].op \in {"revoke", "not revoked"} => call'[d] = call[d]
    BY <1>1, <1>5 DEF CreateSession, Ends, TypeOK
  <2>5. ASSUME NEW s \in session', s.password # account'[s.user].password
        PROVE  s.late \/ \E d \in Calls : /\ call'[d].op \in {"revoke", "not revoked"}
                                         /\ call'[d].user = s.user
    <3>1. CASE s = new
      BY <2>3, <2>4, <2>5, <3>1
    <3>2. CASE s \in session
      BY <2>4, <2>5, <3>2 DEF SessionsFollowPasswords
    <3> QED
      BY <2>2, <2>5, <3>1, <3>2
  <2> QED
    BY <2>5 DEF SessionsFollowPasswords
<1>6. CASE WriteChangedPassword(c) \/ WriteResetPassword(c)
  <2>1. PICK u : u = call[c].user
    OBVIOUS
  <2>2. /\ call'[c].op = "revoke" /\ call'[c].user = u
        /\ \A d \in Calls : call[d].op \in {"revoke", "not revoked"} => call'[d] = call[d]
    <3>1. PICK r : r = [op |-> "revoke", user |-> call[c].user]
      OBVIOUS
    <3>2. call' = [call EXCEPT ![c] = r] /\ call[c].op \notin {"revoke", "not revoked"}
      BY <1>6, <3>1 DEF WriteChangedPassword, WriteResetPassword
    <3>3. call'[c] = r
      BY <1>1, <3>2 DEF TypeOK
    <3> QED
      BY <1>1, <2>1, <3>1, <3>2, <3>3, RevocationsGoOn DEF TypeOK
  <2>3. \A x \in DOMAIN account : x # u => account'[x] = account[x]
    BY <1>1, <1>6, <2>1 DEF WriteChangedPassword, WriteResetPassword, TypeOK
  <2>4. session' = session /\ \A s \in session : s.user \in DOMAIN account
    BY <1>1, <1>6 DEF WriteChangedPassword, WriteResetPassword, TypeOK
  <2>5. ASSUME NEW s \in session', s.password # account'[s.user].password
        PROVE  s.late \/ \E d \in Calls : /\ call'[d].op \in {"revoke", "not revoked"}
                                         /\ call'[d].user = s.user
    <3>1. CASE s.user = u
      BY <2>2, <3>1
    <3>2. CASE s.user # u
      BY <2>2, <2>3, <2>4, <2>5, <3>2 DEF SessionsFollowPasswords
    <3> QED
      BY <3>1, <3>2
  <2> QED
    BY <2>5 DEF SessionsFollowPasswords
<1>7. CASE RevokeSessions(c)
  <2>1. /\ UNCHANGED account /\ session' \subseteq session
        /\ \A s \in session' : s.user # call[c].user
        /\ \A d \in Calls : d # c => call'[d] = call[d]
    BY <1>1, <1>7 DEF RevokeSessions, Ends, TypeOK
  <2> QED
    BY <2>1, SessionsUntouched
<1> QED
  BY <1>3, <1>4, <1>5, <1>6, <1>7 DEF Passwords, Holders

LEMMA OtherStepsFollow ==
    ASSUME Inv, SessionsFollowPasswords, NEW c \in Calls,
           Administration(c) \/ RoleManagement(c)
    PROVE  SessionsFollowPasswords'
<1>1. TypeOK
  BY DEF Inv, RowsConsistent, AccountsConsistent
<1>2. ASSUME session' \subseteq session,
             \A s \in session' : account'[s.user].password = account[s.user].password,
             call[c].op \notin {"revoke", "not revoked"},
             NEW r, call' = [call EXCEPT ![c] = r]
      PROVE  SessionsFollowPasswords'
  <2>1. \A d \in Calls : call[d].op \in {"revoke", "not revoked"} => call'[d] = call[d]
    BY <1>1, <1>2, RevocationsGoOn DEF TypeOK
  <2> QED
    BY <2>1, <1>2, SessionsUntouched
<1>3. ASSUME UNCHANGED rows, call[c] = Idle, NEW r, call' = [call EXCEPT ![c] = r]
      PROVE  SessionsFollowPasswords'
  <2>1. call[c].op = "idle"
    BY <1>3 DEF Idle
  <2>2. session' \subseteq session /\ \A s \in session' : account'[s.user].password = account[s.user].password
    BY <1>3 DEF rows
  <2> QED
    BY <2>1, <2>2, <1>2, <1>3
<1>4. ASSUME NEW actor \in Users, NEW u \in Users,
             \/ \E org \in Organizations, r \in Roles, status \in Statuses,
                  e \in Employees \cup {Nobody}, password \in BOOLEAN :
                  CreateUser(c, actor, u, org, r, status, e, password)
             \/ \E status \in Statuses, r \in Roles \cup {Nobody}, edit \in Edits :
                  UpdateUser(c, actor, u, status, r, edit)
             \/ \E history \in BOOLEAN : DeleteUser(c, actor, u, history)
      PROVE  SessionsFollowPasswords'
  BY <1>3, <1>4, Zenon DEF CreateUser, UpdateUser, DeleteUser, Start, MayCreateUser,
                           MayUpdateUser, isNewRoleId, MayDeleteUser
<1>5. ASSUME NEW actor \in Users,
             \/ \E u \in Users, r \in Roles : AssignRole(c, actor, u, r)
             \/ \E g \in grants : RemoveRole(c, actor, g)
             \/ \E r \in Roles, code \in Codes : CreateRole(c, actor, r, code)
             \/ \E r \in Roles, ps \in SUBSET Permissions : UpdateRole(c, actor, r, ps)
             \/ \E r \in Roles : DeleteRole(c, actor, r)
      PROVE  SessionsFollowPasswords'
  BY <1>3, <1>5, Zenon DEF AssignRole, RemoveRole, CreateRole, UpdateRole, DeleteRole, Start,
                           MayUpdateRole, MayDeleteRole
<1>6. ASSUME Ends(c), call[c].op \notin {"revoke", "not revoked"}, session' \subseteq session,
             \A s \in session' : account'[s.user].password = account[s.user].password
      PROVE  SessionsFollowPasswords'
  BY <1>2, <1>6 DEF Ends
<1>7. CASE CommitCreateUser(c)
  <2>1. \A u \in DOMAIN account : account'[u] = account[u]
    BY <1>7 DEF CommitCreateUser
  <2> QED
    BY <1>1, <1>6, <1>7, <2>1 DEF CommitCreateUser, TypeOK
<1>8. CASE CommitUpdateUser(c)
  <2>1. \A u \in DOMAIN account : account'[u].password = account[u].password
    <3>1. account \in [DOMAIN account -> Account]
      BY <1>1 DEF TypeOK
    <3> QED
      BY <1>8, <3>1 DEF CommitUpdateUser, Account
  <2> QED
    BY <1>1, <1>6, <1>8, <2>1 DEF CommitUpdateUser, TypeOK
<1>9. CASE CommitDeleteUser(c)
  <2>1. \A s \in session' : s \in session /\ s.user \in DOMAIN account'
    BY <1>1, <1>9 DEF CommitDeleteUser, TypeOK
  <2>2. \A u \in DOMAIN account' : account'[u] = account[u]
    BY <1>9 DEF CommitDeleteUser
  <2> QED
    BY <1>6, <1>9, <2>1, <2>2 DEF CommitDeleteUser
<1>10. CASE \/ CommitAssignRole(c) \/ CommitRemoveRole(c) \/ CommitCreateRole(c)
            \/ CommitUpdateRole(c) \/ CommitDeleteRole(c)
  BY <1>6, <1>10 DEF CommitAssignRole, CommitRemoveRole, CommitCreateRole, CommitUpdateRole,
                     CommitDeleteRole
<1> QED
  BY <1>4, <1>5, <1>7, <1>8, <1>9, <1>10 DEF Administration, RoleManagement, Holders, SuperAdmins

\* Whatever the number of overlapping calls, only a session of a login that a
\* new password overtook, or one that an unfinished or failed revocation left,
\* was opened with another password than the account's (changePasswordAction,
\* resetUserPasswordAction, revokeAllUserSessions).
THEOREM SessionsFollow == Spec => []SessionsFollowPasswords
<1>1. Init => SessionsFollowPasswords
  <2>1. ASSUME Init, NEW s \in session PROVE s.password = account[s.user].password
    <3>1. PICK u \in {rootA, rootB, admin, staff} :
            s = [id |-> "seed", user |-> u, password |-> "initial", late |-> FALSE]
      BY <2>1 DEF Init
    <3>2. account[u].password = "initial"
      BY <2>1 DEF Init
    <3> QED
      BY <3>1, <3>2
  <2> QED
    BY <2>1 DEF SessionsFollowPasswords
<1>2. Inv /\ SessionsFollowPasswords /\ [Next]_vars => SessionsFollowPasswords'
  <2> SUFFICES ASSUME Inv, SessionsFollowPasswords, [Next]_vars PROVE SessionsFollowPasswords'
    OBVIOUS
  <2>1. ASSUME NEW c \in Calls, Fail(c) PROVE SessionsFollowPasswords'
    <3>1. PICK r : /\ call' = [call EXCEPT ![c] = r]
                   /\ call[c].op = "revoke" => r = [call[c] EXCEPT !.op = "not revoked"]
      BY <2>1 DEF Fail, Ends
    <3>2. UNCHANGED rows /\ call[c].op # "not revoked" /\ DOMAIN call = Calls /\ KnowsSession(call[c])
      BY <2>1 DEF Fail, Inv, Knows, RowsConsistent, AccountsConsistent, TypeOK
    <3>3. \A d \in Calls : call[d].op \in {"revoke", "not revoked"} =>
            call'[d].op \in {"revoke", "not revoked"} /\ call'[d].user = call[d].user
      BY <3>1, <3>2 DEF KnowsSession
    <3> QED
      BY <3>2, <3>3, SessionsUntouched DEF rows
  <2>2. CASE UNCHANGED vars
    BY <2>2 DEF SessionsFollowPasswords, vars, rows
  <2> QED
    BY <2>1, <2>2, PasswordStepsFollow, OtherStepsFollow DEF Next
<1> QED
  BY <1>1, <1>2, Inductive, PTL DEF Spec

----------------------------------------------------------------------------
\* The EMPLOYEE role goes only with its user: an edit or a removal decided on
\* grants of other roles, and an id of a role keeps its code, so however old
\* what a call has read it takes no EMPLOYEE role away (features/users/actions.ts,
\* features/rbac/actions.ts).
THEOREM EmployeeRoleStays == Spec => EmployeeRoleIsKept
<1> DEFINE Kept == \A g \in grants :
             (role[g.role].code = "EMPLOYEE" /\ g \notin grants') => g.user \notin DOMAIN account'
<1>1. ASSUME Inv, [Next]_vars PROVE Kept
  <2>0. TypeOK /\ IdsAreSpentOnce
    BY <1>1 DEF Inv, RowsConsistent, AccountsConsistent
  <2>1. CASE grants \subseteq grants'
    BY <2>1
  <2>2. ASSUME NEW c \in Calls, CommitUpdateUser(c) PROVE Kept
    <3>1. KnowsEdit(call[c])
      BY <1>1 DEF Inv, Knows
    <3> QED
      BY <2>0, <2>2, <3>1 DEF CommitUpdateUser, KnowsEdit, TypeOK
  <2>3. ASSUME NEW c \in Calls, CommitDeleteUser(c) PROVE Kept
    BY <2>3 DEF CommitDeleteUser, GrantsOf
  <2>4. ASSUME NEW c \in Calls, CommitRemoveRole(c) PROVE Kept
    <3>1. KnowsAssignment(call[c])
      BY <1>1 DEF Inv, Knows
    <3> QED
      BY <2>0, <2>4, <3>1 DEF CommitRemoveRole, KnowsAssignment, TypeOK
  <2>5. ASSUME NEW c \in Calls, CommitDeleteRole(c) PROVE Kept
    <3>1. KnowsRole(call[c])
      BY <1>1 DEF Inv, Knows
    <3> QED
      BY <2>0, <2>5, <3>1 DEF CommitDeleteRole, KnowsRole, TypeOK, IdsAreSpentOnce
  <2>6. ASSUME NEW c \in Calls, Passwords(c) PROVE grants' = grants
    BY <2>6 DEF Passwords, Login, CreateSession, Logout, ChangePassword, WriteChangedPassword,
                ResetPassword, WriteResetPassword, RevokeSessions, rows
  <2>7. ASSUME NEW c \in Calls, Administration(c),
               ~CommitUpdateUser(c), ~CommitDeleteUser(c)
        PROVE  grants \subseteq grants'
    <3>1. CASE CommitCreateUser(c)
      BY <3>1 DEF CommitCreateUser
    <3>2. CASE UNCHANGED rows
      BY <3>2 DEF rows
    <3>3. ASSUME NEW actor \in Users, NEW u \in Users,
                 \/ \E org \in Organizations, r \in Roles, status \in Statuses,
                      e \in Employees \cup {Nobody}, password \in BOOLEAN :
                      CreateUser(c, actor, u, org, r, status, e, password)
                 \/ \E status \in Statuses, r \in Roles \cup {Nobody}, edit \in Edits :
                      UpdateUser(c, actor, u, status, r, edit)
                 \/ \E history \in BOOLEAN : DeleteUser(c, actor, u, history)
          PROVE  UNCHANGED rows
      BY <3>3, Zenon DEF CreateUser, UpdateUser, DeleteUser, MayCreateUser, MayUpdateUser,
                         isNewRoleId, MayDeleteUser
    <3> QED
      BY <2>7, <3>1, <3>2, <3>3 DEF Administration, Holders
  <2>8. ASSUME NEW c \in Calls, RoleManagement(c), ~CommitRemoveRole(c), ~CommitDeleteRole(c)
        PROVE  grants \subseteq grants'
    BY <2>8 DEF RoleManagement, AssignRole, RemoveRole, CreateRole, UpdateRole, DeleteRole,
                CommitAssignRole, CommitCreateRole, CommitUpdateRole, rows, MayUpdateRole,
                MayDeleteRole
  <2>9. ASSUME NEW c \in Calls, Fail(c) PROVE grants' = grants
    BY <2>9 DEF Fail, rows
  <2>10. CASE UNCHANGED vars
    BY <2>10 DEF vars, rows
  <2> HIDE DEF Kept
  <2> QED
    BY <1>1, <2>1, <2>2, <2>3, <2>4, <2>5, <2>6, <2>7, <2>8, <2>9, <2>10 DEF Next
<1> QED
  BY <1>1, Inductive, PTL DEF Spec, EmployeeRoleIsKept

----------------------------------------------------------------------------
\* Organizations.

\* A role of the system, which is never deleted, holds an organization.
Anchor(o) == \E r \in DOMAIN role : role[r].system /\ role[r].org = o

\* What a call decided about roles, as far as organizations rest on it.
KnowsAnchor(k) ==
    /\ k.op \in {"create user", "create role"} => Anchor(k.org)
    /\ k.op = "delete role" => (k.role \in DOMAIN role => ~role[k.role].system)

Anchored ==
    /\ \A u \in DOMAIN account : Anchor(account[u].org)
    /\ \A r \in DOMAIN role : Anchor(role[r].org)
    /\ \A c \in Calls : KnowsAnchor(call[c])

\* A step that keeps the roles of the system, and adds none, keeps every anchor.
LEMMA AnchorsStay ==
    ASSUME Anchored, DOMAIN call = Calls, NEW c \in Calls, NEW k,
           call' = [call EXCEPT ![c] = k], KnowsAnchor(k),
           \A r \in DOMAIN role : role[r].system =>
              r \in DOMAIN role' /\ role'[r].system /\ role'[r].org = role[r].org,
           \A r \in DOMAIN role' : role'[r].system => r \in DOMAIN role /\ role[r].system,
           \A u \in DOMAIN account' : Anchor(account'[u].org),
           \A r \in DOMAIN role' : Anchor(role'[r].org)
    PROVE  Anchored'
<1>1. ASSUME NEW o, Anchor(o) PROVE Anchor(o)'
  BY <1>1 DEF Anchor
<1>2. ASSUME NEW d \in Calls PROVE KnowsAnchor(call[d])'
  <2>1. call'[d] = IF d = c THEN k ELSE call[d]
    OBVIOUS
  <2>2. KnowsAnchor(call'[d])
    BY <2>1 DEF Anchored
  <2> QED
    BY <2>2, <1>1 DEF KnowsAnchor
<1>3. \A u \in DOMAIN account' : Anchor(account[u].org)'
  BY <1>1
<1>4. \A r \in DOMAIN role' : Anchor(role[r].org)'
  BY <1>1
<1> QED
  BY <1>2, <1>3, <1>4 DEF Anchored

\* A step that leaves the roles, and gives no account another organization.
LEMMA RolesStay ==
    ASSUME Anchored, DOMAIN call = Calls, NEW c \in Calls, NEW k,
           call' = [call EXCEPT ![c] = k], KnowsAnchor(k), role' = role,
           \A u \in DOMAIN account' : Anchor(account'[u].org)
    PROVE  Anchored'
<1>1. \A r \in DOMAIN role' : Anchor(role'[r].org)
  BY DEF Anchored
<1> QED
  BY <1>1, AnchorsStay

\* Calls that only read.
LEMMA BeginningsKeepAnchors ==
    ASSUME Inv, Anchored, NEW c \in Calls, UNCHANGED rows, NEW k,
           call' = [call EXCEPT ![c] = k], KnowsAnchor(k)
    PROVE  Anchored'
<1>1. DOMAIN call = Calls
  BY DEF Inv, RowsConsistent, AccountsConsistent, TypeOK
<1>2. role' = role /\ account' = account
  BY DEF rows
<1> QED
  BY <1>1, <1>2, RolesStay DEF Anchored

LEMMA PasswordsKeepAnchors ==
    ASSUME Inv, Anchored, NEW c \in Calls, Passwords(c)
    PROVE  Anchored'
<1>1. TypeOK
  BY DEF Inv, RowsConsistent, AccountsConsistent
<1>2. ASSUME NEW u \in Users,
             Login(c, u) \/ (\E forced \in BOOLEAN : ChangePassword(c, u, forced))
             \/ \E actor \in Users : ResetPassword(c, actor, u)
      PROVE  Anchored'
  <2>1. ASSUME Login(c, u) PROVE Anchored'
    <3>1. PICK k : k = [op |-> "login", user |-> u, verified |-> account[u].password]
      OBVIOUS
    <3>2. UNCHANGED rows /\ call' = [call EXCEPT ![c] = k]
      BY <2>1, <3>1, Zenon DEF Login, Start
    <3> QED
      BY <3>1, <3>2, BeginningsKeepAnchors DEF KnowsAnchor
  <2>2. ASSUME NEW forced \in BOOLEAN, ChangePassword(c, u, forced) PROVE Anchored'
    <3>1. PICK k : k = [op |-> "change password", user |-> u, clears |-> forced \/ account[u].must]
      OBVIOUS
    <3>2. UNCHANGED rows /\ call' = [call EXCEPT ![c] = k]
      BY <2>2, <3>1, Zenon DEF ChangePassword, Start
    <3>3. k.op = "change password"
      BY <3>1, Zenon
    <3> QED
      BY <3>2, <3>3, BeginningsKeepAnchors DEF KnowsAnchor
  <2>3. ASSUME NEW actor \in Users, ResetPassword(c, actor, u) PROVE Anchored'
    <3>1. PICK k : k = [op |-> "reset password", user |-> u]
      OBVIOUS
    <3>2. UNCHANGED rows /\ call' = [call EXCEPT ![c] = k]
      BY <2>3, <3>1, Zenon DEF ResetPassword, Start
    <3> QED
      BY <3>1, <3>2, BeginningsKeepAnchors DEF KnowsAnchor
  <2> QED
    BY <1>2, <2>1, <2>2, <2>3
<1>3. ASSUME NEW k, call' = [call EXCEPT ![c] = k],
             k.op \notin {"create user", "create role", "delete role"}, role' = role,
             \A u \in DOMAIN account' : u \in DOMAIN account /\ account'[u].org = account[u].org
      PROVE  Anchored'
  <2>1. \A u \in DOMAIN account' : Anchor(account'[u].org)
    BY <1>3 DEF Anchored
  <2> QED
    BY <2>1, <1>1, <1>3, RolesStay DEF KnowsAnchor, TypeOK
<1>4. Done.op = "done"
  BY DEF Done
<1>5. CASE CreateSession(c) \/ RevokeSessions(c) \/ \E s \in session : Logout(c, s)
  BY <1>3, <1>4, <1>5 DEF CreateSession, RevokeSessions, Logout, Ends
<1>6. CASE WriteChangedPassword(c)
  <2>1. PICK u : /\ u \in DOMAIN account
                 /\ account' = [account EXCEPT ![u].password = c, ![u].must = @ /\ ~call[c].clears]
    BY <1>6 DEF WriteChangedPassword
  <2>2. \A x \in DOMAIN account' : x \in DOMAIN account /\ account'[x].org = account[x].org
    BY <2>1, <1>1 DEF TypeOK, Account
  <2> QED
    BY <2>2, <1>3, <1>6 DEF WriteChangedPassword
<1>7. CASE WriteResetPassword(c)
  <2>1. PICK u : account' = IF u \in DOMAIN account
                            THEN [account EXCEPT ![u].password = c, ![u].must = TRUE] ELSE account
    BY <1>7 DEF WriteResetPassword
  <2>2. \A x \in DOMAIN account' : x \in DOMAIN account /\ account'[x].org = account[x].org
    BY <2>1, <1>1 DEF TypeOK, Account
  <2> QED
    BY <2>2, <1>3, <1>7 DEF WriteResetPassword
<1> QED
  BY <1>2, <1>5, <1>6, <1>7 DEF Passwords, Holders

LEMMA AdministrationKeepsAnchors ==
    ASSUME Inv, Anchored, NEW c \in Calls, Administration(c)
    PROVE  Anchored'
<1>1. TypeOK
  BY DEF Inv, RowsConsistent, AccountsConsistent
<1>2. ASSUME NEW actor \in Users, NEW u \in Users, NEW org \in Organizations, NEW r \in Roles,
             NEW status \in Statuses, NEW e \in Employees \cup {Nobody}, NEW password \in BOOLEAN,
             CreateUser(c, actor, u, org, r, status, e, password)
      PROVE  Anchored'
  <2>1. Anchor(org)
    BY <1>2 DEF CreateUser, RoleIn, Anchored, MayCreateUser
  <2>2. PICK k : k = [op |-> "create user", user |-> u, org |-> org, role |-> r,
                      status |-> status, employee |-> e,
                      password |-> IF password THEN c ELSE "none"]
    OBVIOUS
  <2>3. UNCHANGED rows /\ call' = [call EXCEPT ![c] = k]
    BY <1>2, <2>2, Zenon DEF CreateUser, Start, MayCreateUser
  <2> QED
    BY <2>1, <2>2, <2>3, BeginningsKeepAnchors DEF KnowsAnchor
<1>3. ASSUME NEW actor \in Users, NEW u \in Users,
             \/ \E status \in Statuses, r \in Roles \cup {Nobody}, edit \in Edits :
                  UpdateUser(c, actor, u, status, r, edit)
             \/ \E history \in BOOLEAN : DeleteUser(c, actor, u, history)
      PROVE  Anchored'
  <2>1. ASSUME NEW status, NEW r, NEW edit, UpdateUser(c, actor, u, status, r, edit)
        PROVE  Anchored'
    <3>1. PICK isNew \in BOOLEAN : isNew = (r # Nobody /\ r \notin RolesOf(u))
      OBVIOUS
    <3>2. PICK primary \in PrimaryRoles(u) \cup (IF RolesOf(u) = {} THEN {Nobody} ELSE {}) :
            Start(c, [op |-> "update user", user |-> u, org |-> account[u].org,
                      status |-> status, edit |-> edit,
                      role |-> IF isNew THEN r ELSE Nobody,
                      drop |-> IF isNew /\ primary # Nobody THEN Replaced(u, primary) ELSE {}])
      BY <2>1, <3>1 DEF UpdateUser, MayUpdateUser, isNewRoleId
    <3>3. PICK k : k = [op |-> "update user", user |-> u, org |-> account[u].org,
                        status |-> status, edit |-> edit,
                        role |-> IF isNew THEN r ELSE Nobody,
                        drop |-> IF isNew /\ primary # Nobody THEN Replaced(u, primary) ELSE {}]
      OBVIOUS
    <3>4. UNCHANGED rows /\ call' = [call EXCEPT ![c] = k]
      BY <2>1, <3>2, <3>3, Zenon DEF UpdateUser, Start, MayUpdateUser, isNewRoleId
    <3>5. k.op = "update user"
      BY <3>3, Zenon
    <3> QED
      BY <3>4, <3>5, BeginningsKeepAnchors DEF KnowsAnchor
  <2>2. ASSUME NEW history, DeleteUser(c, actor, u, history) PROVE Anchored'
    <3>1. PICK k : k = [op |-> "delete user", user |-> u]
      OBVIOUS
    <3>2. UNCHANGED rows /\ call' = [call EXCEPT ![c] = k]
      BY <2>2, <3>1, Zenon DEF DeleteUser, Start, MayDeleteUser
    <3> QED
      BY <3>1, <3>2, BeginningsKeepAnchors DEF KnowsAnchor
  <2> QED
    BY <1>3, <2>1, <2>2
<1>4. ASSUME role' = role, Ends(c), \A u \in DOMAIN account' : Anchor(account'[u].org)
      PROVE  Anchored'
  BY <1>1, <1>4, RolesStay DEF Ends, Done, KnowsAnchor, TypeOK
<1>5. CASE CommitCreateUser(c)
  <2>1. Anchor(call[c].org)
    BY <1>5 DEF CommitCreateUser, Anchored, KnowsAnchor
  <2>2. \A u \in DOMAIN account' : Anchor(account'[u].org)
    BY <2>1, <1>5 DEF CommitCreateUser, Anchored
  <2> QED
    BY <2>2, <1>4, <1>5 DEF CommitCreateUser
<1>6. CASE CommitUpdateUser(c)
  <2>1. PICK u, s : account' = IF u \in DOMAIN account
                               THEN [account EXCEPT ![u].status = s] ELSE account
    BY <1>6 DEF CommitUpdateUser
  <2>2. \A x \in DOMAIN account' : x \in DOMAIN account /\ account'[x].org = account[x].org
    BY <2>1, <1>1 DEF TypeOK, Account
  <2>3. \A x \in DOMAIN account' : Anchor(account'[x].org)
    BY <2>2 DEF Anchored
  <2> QED
    BY <2>3, <1>4, <1>6 DEF CommitUpdateUser
<1>7. CASE CommitDeleteUser(c)
  <2>1. \A u \in DOMAIN account' : Anchor(account'[u].org)
    BY <1>7 DEF CommitDeleteUser, Anchored
  <2> QED
    BY <2>1, <1>4, <1>7 DEF CommitDeleteUser
<1> QED
  BY <1>2, <1>3, <1>5, <1>6, <1>7, ZenonT(60) DEF Administration, Holders

LEMMA RoleManagementKeepsAnchors ==
    ASSUME Inv, Anchored, NEW c \in Calls, RoleManagement(c)
    PROVE  Anchored'
<1>1. TypeOK
  BY DEF Inv, RowsConsistent, AccountsConsistent
<1>2. ASSUME NEW actor \in SuperAdmins,
             \/ \E u \in Users, r \in Roles : AssignRole(c, actor, u, r)
             \/ \E g \in grants : RemoveRole(c, actor, g)
      PROVE  Anchored'
  <2>1. ASSUME NEW u \in Users, NEW r \in Roles, AssignRole(c, actor, u, r) PROVE Anchored'
    <3>1. PICK k : k = [op |-> "assign role", user |-> u, role |-> r]
      OBVIOUS
    <3>2. UNCHANGED rows /\ call' = [call EXCEPT ![c] = k]
      BY <2>1, <3>1, Zenon DEF AssignRole, Start
    <3> QED
      BY <3>1, <3>2, BeginningsKeepAnchors DEF KnowsAnchor
  <2>2. ASSUME NEW g \in grants, RemoveRole(c, actor, g) PROVE Anchored'
    <3>1. PICK k : k = [op |-> "remove role", grant |-> g]
      OBVIOUS
    <3>2. UNCHANGED rows /\ call' = [call EXCEPT ![c] = k]
      BY <2>2, <3>1, Zenon DEF RemoveRole, Start
    <3> QED
      BY <3>1, <3>2, BeginningsKeepAnchors DEF KnowsAnchor
  <2> QED
    BY <1>2, <2>1, <2>2
<1>3. ASSUME NEW actor, NEW r, NEW code, CreateRole(c, actor, r, code)
      PROVE  Anchored'
  <2>1. Anchor(account[actor].org)
    BY <1>3 DEF CreateRole, Requires, RequireUser, SignedIn, Anchored
  <2>2. PICK k : k = [op |-> "create role", role |-> r, code |-> code, org |-> account[actor].org]
    OBVIOUS
  <2>3. UNCHANGED rows /\ call' = [call EXCEPT ![c] = k]
    BY <1>3, <2>2, Zenon DEF CreateRole, Start
  <2> QED
    BY <2>1, <2>2, <2>3, BeginningsKeepAnchors DEF KnowsAnchor
<1>4. ASSUME NEW actor, NEW r, NEW ps, UpdateRole(c, actor, r, ps)
      PROVE  Anchored'
  <2>1. PICK k : k = [op |-> "update role", role |-> r, permissions |-> ps]
    OBVIOUS
  <2>2. UNCHANGED rows /\ call' = [call EXCEPT ![c] = k]
    BY <1>4, <2>1, Zenon DEF UpdateRole, Start, MayUpdateRole
  <2> QED
    BY <2>1, <2>2, BeginningsKeepAnchors DEF KnowsAnchor
<1>5. ASSUME NEW actor, NEW r, DeleteRole(c, actor, r)
      PROVE  Anchored'
  <2>1. PICK k : k = [op |-> "delete role", role |-> r]
    OBVIOUS
  <2>2. UNCHANGED rows /\ call' = [call EXCEPT ![c] = k]
    BY <1>5, <2>1, Zenon DEF DeleteRole, Start, MayDeleteRole
  <2>3. ~role[r].system
    BY <1>5 DEF DeleteRole, MayDeleteRole
  <2> QED
    BY <2>1, <2>2, <2>3, BeginningsKeepAnchors DEF KnowsAnchor
<1>6. CASE CommitAssignRole(c) \/ CommitRemoveRole(c)
  <2>1. role' = role /\ account' = account /\ Ends(c)
    BY <1>6 DEF CommitAssignRole, CommitRemoveRole
  <2> QED
    BY <2>1, <1>1, RolesStay DEF Ends, Done, KnowsAnchor, TypeOK, Anchored
<1>7. ASSUME Ends(c), account' = account,
             \A r \in DOMAIN role : role[r].system =>
                r \in DOMAIN role' /\ role'[r].system /\ role'[r].org = role[r].org,
             \A r \in DOMAIN role' : role'[r].system => r \in DOMAIN role /\ role[r].system,
             \A r \in DOMAIN role' : Anchor(role'[r].org)
      PROVE  Anchored'
  <2>1. \A u \in DOMAIN account' : Anchor(account'[u].org)
    BY <1>7 DEF Anchored
  <2> QED
    BY <2>1, <1>1, <1>7, AnchorsStay DEF Ends, Done, KnowsAnchor, TypeOK
<1>8. CASE CommitCreateRole(c)
  <2>1. Anchor(call[c].org)
    BY <1>8 DEF CommitCreateRole, Anchored, KnowsAnchor
  <2>2. PICK x : /\ x \notin DOMAIN role
                 /\ role' = [r \in DOMAIN role \cup {x} |->
                      IF r = x THEN [org |-> call[c].org, code |-> call[c].code,
                                     system |-> FALSE, permissions |-> {}]
                      ELSE role[r]]
    BY <1>8 DEF CommitCreateRole
  <2>3. \A r \in DOMAIN role' : Anchor(role'[r].org)
    BY <2>1, <2>2 DEF Anchored
  <2>4. \A r \in DOMAIN role : r \in DOMAIN role' /\ role'[r] = role[r]
    BY <2>2
  <2>5. \A r \in DOMAIN role' : role'[r].system => r \in DOMAIN role /\ role[r].system
    BY <2>2
  <2>6. Ends(c) /\ account' = account
    BY <1>8 DEF CommitCreateRole
  <2> QED
    BY <2>3, <2>4, <2>5, <2>6, <1>7
<1>9. CASE CommitUpdateRole(c)
  <2>1. PICK x, ps : role' = IF x \in DOMAIN role
                             THEN [role EXCEPT ![x].permissions = ps] ELSE role
    BY <1>9 DEF CommitUpdateRole
  <2>2. DOMAIN role' = DOMAIN role
    BY <2>1
  <2>3. \A r \in DOMAIN role : role'[r].org = role[r].org /\ role'[r].system = role[r].system
    BY <2>1, <1>1 DEF TypeOK, Role
  <2>4. \A r \in DOMAIN role' : Anchor(role'[r].org)
    BY <2>2, <2>3 DEF Anchored
  <2> QED
    BY <2>2, <2>3, <2>4, <1>7, <1>9 DEF CommitUpdateRole
<1>10. CASE CommitDeleteRole(c)
  <2>1. call[c].role \in DOMAIN role => ~role[call[c].role].system
    BY <1>10 DEF CommitDeleteRole, Anchored, KnowsAnchor
  <2>2. role' = [x \in DOMAIN role \ {call[c].role} |-> role[x]]
    BY <1>10 DEF CommitDeleteRole
  <2>3. \A r \in DOMAIN role' : Anchor(role'[r].org)
    BY <2>2 DEF Anchored
  <2> QED
    BY <2>1, <2>2, <2>3, <1>7, <1>10 DEF CommitDeleteRole
<1> QED
  BY <1>2, <1>3, <1>4, <1>5, <1>6, <1>8, <1>9, <1>10 DEF RoleManagement, Holders

\* Every organization that has an account or a role has a role of the system,
\* which deleteRoleAction never deletes: what keeps an organization from being
\* deleted under its accounts (features/rbac/actions.ts).
THEOREM EveryTenantIsAnchored == Spec => []Anchored
<1>1. Init => Anchored
  <2> SUFFICES ASSUME Init PROVE Anchored
    OBVIOUS
  <2>1. superRole \in DOMAIN role /\ employeeRole \in DOMAIN role /\ DOMAIN role = SeededRoles
    BY DEF Init, SeededRoles
  <2>2. /\ role[superRole].org = SystemOrganization
        /\ \A r \in SeededRoles \ {superRole} : role[r].org = tenant
        /\ \A r \in SeededRoles : role[r].system <=> r # customRole
    <3>1. ASSUME NEW r \in SeededRoles
          PROVE  /\ role[r].org = IF r = superRole THEN SystemOrganization ELSE tenant
                 /\ role[r].system = (r # customRole)
      <4>1. PICK ps, code, org, system :
               /\ role[r] = [org |-> org, code |-> code, system |-> system, permissions |-> ps]
               /\ org = (IF r = superRole THEN SystemOrganization ELSE tenant)
               /\ system = (r # customRole)
        BY Zenon DEF Init
      <4>2. role[r].org = org /\ role[r].system = system
        BY <4>1
      <4> QED
        BY <4>1, <4>2, Zenon
    <3> QED
      BY <3>1 DEF SeededRoles
  <2>3. Anchor(SystemOrganization) \/ superRole = customRole
    BY <2>1, <2>2 DEF Anchor, SeededRoles
  <2>4. Anchor(SystemOrganization) /\ Anchor(tenant)
    BY <2>1, <2>2, <2>3, SeedAssumption DEF Anchor, SeededRoles
  <2>5. \A u \in DOMAIN account : account[u].org \in {SystemOrganization, tenant}
    BY DEF Init
  <2>6. \A c \in Calls : KnowsAnchor(call[c])
    BY DEF Init, Idle, KnowsAnchor
  <2> QED
    BY <2>1, <2>2, <2>4, <2>5, <2>6 DEF Anchored
<1>2. Inv /\ Anchored /\ [Next]_vars => Anchored'
  <2> SUFFICES ASSUME Inv, Anchored, [Next]_vars PROVE Anchored'
    OBVIOUS
  <2>1. ASSUME NEW c \in Calls, Fail(c) PROVE Anchored'
    <3>1. CASE call[c].op = "revoke"
      <4>1. PICK k : k = [call[c] EXCEPT !.op = "not revoked"]
        OBVIOUS
      <4>2. UNCHANGED rows /\ call' = [call EXCEPT ![c] = k]
        BY <2>1, <3>1, <4>1, Zenon DEF Fail
      <4>3. call[c] \in [op : {"revoke", "not revoked"}, user : Users]
        BY <3>1 DEF Inv, Knows, KnowsSession
      <4>4. k.op = "not revoked"
        BY <4>1, <4>3
      <4> QED
        BY <4>2, <4>4, BeginningsKeepAnchors DEF KnowsAnchor
    <3>2. CASE call[c].op # "revoke"
      <4>1. PICK k : k = Done
        OBVIOUS
      <4>2. UNCHANGED rows /\ call' = [call EXCEPT ![c] = k]
        BY <2>1, <3>2, <4>1, Zenon DEF Fail, Ends
      <4> QED
        BY <4>1, <4>2, BeginningsKeepAnchors DEF KnowsAnchor, Done
    <3> QED
      BY <3>1, <3>2
  <2>2. CASE UNCHANGED vars
    BY <2>2, ZenonT(60) DEF Anchored, KnowsAnchor, Anchor, vars, rows
  <2> QED
    BY <2>1, <2>2, PasswordsKeepAnchors, AdministrationKeepsAnchors, RoleManagementKeepsAnchors
    DEF Next
<1> QED
  BY <1>1, <1>2, Inductive, PTL DEF Spec

\* The accounts of a system with organizations are those of Accounts: a step
\* of a task leaves them, and the others are steps of Accounts that the rows of
\* organizations allow.
THEOREM TenantsImplementAccounts == TenantSpec => Spec
<1>1. TenantInit => Init
  BY DEF TenantInit
<1>2. [TenantNext]_tenantVars => [Next]_vars
  BY DEF TenantNext, AccountStep, Next, Ended, tenantVars
<1> QED
  BY <1>1, <1>2, PTL DEF TenantSpec, Spec

\* What a task has decided before it writes.
KnowsTask(t) ==
    /\ t.op = "create" => t.on \in Organizations /\ t.row \in Organization /\ t.row.code # SystemCode
    /\ t.op = "update" =>
         /\ t.form \in OrganizationForm
         /\ t.on = SystemOrganization =>
              /\ "code" \in DOMAIN t.form => t.form.code = SystemCode
              /\ "status" \in DOMAIN t.form => t.form.status = "active"
    /\ t.op = "delete" => t.on # SystemOrganization
    /\ t.op = "move project" => t.project \in DOMAIN project

TenantInv == TenantsConsistent /\ \A c \in Calls : KnowsTask(task[c])

\* The role of a given id stays in its organization.
LEMMA RolesKeepOrganization ==
    ASSUME TypeOK, [Next]_vars, NEW r \in DOMAIN role, r \in DOMAIN role'
    PROVE  role'[r].org = role[r].org
<1>1. ASSUME NEW c \in Calls, CommitCreateRole(c) PROVE role'[r].org = role[r].org
  BY <1>1 DEF CommitCreateRole
<1>2. ASSUME NEW c \in Calls, CommitUpdateRole(c) PROVE role'[r].org = role[r].org
  <2>1. PICK x, ps : role' = IF x \in DOMAIN role THEN [role EXCEPT ![x].permissions = ps] ELSE role
    BY <1>2 DEF CommitUpdateRole
  <2> QED
    BY <2>1 DEF TypeOK, Role
<1>3. ASSUME NEW c \in Calls, CommitDeleteRole(c) PROVE role'[r].org = role[r].org
  BY <1>3 DEF CommitDeleteRole
<1>4. ASSUME NEW c \in Calls, RoleManagement(c), ~CommitCreateRole(c), ~CommitUpdateRole(c),
             ~CommitDeleteRole(c)
      PROVE  role' = role
  BY <1>4 DEF RoleManagement, AssignRole, RemoveRole, CreateRole, UpdateRole, DeleteRole,
              CommitAssignRole, CommitRemoveRole, rows, MayUpdateRole, MayDeleteRole
<1>5. ASSUME NEW c \in Calls, Passwords(c) PROVE role' = role
  BY <1>5 DEF Passwords, Login, Logout, ChangePassword, ResetPassword, CreateSession,
              WriteChangedPassword, WriteResetPassword, RevokeSessions, rows
<1>6. ASSUME NEW c \in Calls, Administration(c) PROVE role' = role
  <2>1. ASSUME NEW a, NEW u, NEW org, NEW q, NEW status, NEW e, NEW password,
               CreateUser(c, a, u, org, q, status, e, password)
        PROVE  role' = role
    BY <2>1 DEF CreateUser, rows, MayCreateUser
  <2>2. ASSUME NEW a, NEW u, NEW status, NEW q, NEW edit, UpdateUser(c, a, u, status, q, edit)
        PROVE  role' = role
    BY <2>2 DEF UpdateUser, rows, MayUpdateUser, isNewRoleId
  <2>3. ASSUME NEW a, NEW u, NEW history, DeleteUser(c, a, u, history) PROVE role' = role
    BY <2>3 DEF DeleteUser, rows, MayDeleteUser
  <2>4. CASE CommitCreateUser(c) \/ CommitUpdateUser(c) \/ CommitDeleteUser(c)
    BY <2>4 DEF CommitCreateUser, CommitUpdateUser, CommitDeleteUser
  <2> QED
    BY <1>6, <2>1, <2>2, <2>3, <2>4 DEF Administration
<1>7. ASSUME NEW c \in Calls, Fail(c) PROVE role' = role
  BY <1>7 DEF Fail, rows
<1>8. CASE UNCHANGED vars
  BY <1>8 DEF vars, rows
<1> QED
  BY <1>1, <1>2, <1>3, <1>4, <1>5, <1>6, <1>7, <1>8 DEF Next

\* A step of a task keeps what the others have decided.
LEMMA TaskKeepsInv ==
    ASSUME TenantInv, TenantsConsistent', DOMAIN project \subseteq DOMAIN project',
           NEW c \in Calls, NEW t, task' = [task EXCEPT ![c] = t], KnowsTask(t)'
    PROVE  TenantInv'
<1>1. ASSUME NEW d \in Calls PROVE KnowsTask(task[d])'
  <2>1. task'[d] = IF d = c THEN t ELSE task[d]
    BY DEF TenantInv, TenantsConsistent, TenantTypeOK
  <2>2. CASE d = c
    BY <2>1, <2>2 DEF KnowsTask
  <2>3. CASE d # c
    BY <2>1, <2>3 DEF KnowsTask, TenantInv
  <2> QED
    BY <2>2, <2>3
<1> QED
  BY <1>1 DEF TenantInv

\* A task that begins, or whose entry is the last it writes.
LEMMA StartedTaskKeepsInv ==
    ASSUME TenantInv, UNCHANGED vars, UNCHANGED records, NEW c \in Calls, NEW t,
           task' = [task EXCEPT ![c] = t], KnowsTask(t)
    PROVE  TenantInv'
<1>1. TenantsConsistent'
  BY DEF TenantInv, TenantsConsistent, TenantTypeOK, SystemStays, NothingIsOrphaned,
         CodesAreUnique, Available, Exists, records, vars, rows
<1>2. KnowsTask(t)' /\ DOMAIN project \subseteq DOMAIN project'
  BY DEF KnowsTask, records
<1> QED
  BY <1>1, <1>2, TaskKeepsInv

LEMMA TasksStart ==
    ASSUME TenantInv, UNCHANGED vars, NEW c \in Calls, NEW actor, NEW o \in Organizations,
           \/ \E code \in OrganizationCodes, status \in {"active", "inactive"} :
                CreateOrganization(c, actor, o, code, status)
           \/ \E form \in OrganizationForm : UpdateOrganization(c, actor, o, form)
           \/ \E operation \in {"activate", "deactivate"} :
                SetOrganizationStatus(c, actor, o, operation)
           \/ DeleteOrganization(c, actor, o)
           \/ CreateProjectIn(c, actor, o)
           \/ \E p \in DOMAIN project : MoveProject(c, actor, p, o)
    PROVE  TenantInv'
<1>0. Exists(SystemOrganization) /\ organization[SystemOrganization].code = SystemCode
  BY DEF TenantInv, TenantsConsistent, SystemStays, Available, Exists
<1>1. ASSUME NEW code \in OrganizationCodes, NEW status \in {"active", "inactive"},
             CreateOrganization(c, actor, o, code, status)
      PROVE  TenantInv'
  <2>1. PICK t : t = [op |-> "create", on |-> o, row |-> [code |-> code, status |-> status]]
    OBVIOUS
  <2>2. UNCHANGED records /\ task' = [task EXCEPT ![c] = t] /\ code # SystemCode
    BY <1>1, <2>1, Zenon DEF CreateOrganization, StartTask
  <2>3. KnowsTask(t)
    BY <2>1, <2>2 DEF KnowsTask, Organization
  <2> QED
    BY <2>2, <2>3, StartedTaskKeepsInv
<1>2. ASSUME NEW form \in OrganizationForm, UpdateOrganization(c, actor, o, form)
      PROVE  TenantInv'
  <2>1. PICK t : t = [op |-> "update", on |-> o, form |-> form]
    OBVIOUS
  <2>2. UNCHANGED records /\ task' = [task EXCEPT ![c] = t]
    BY <1>2, <2>1, Zenon DEF UpdateOrganization, StartTask, MayUpdateOrganization
  <2>3. o = SystemOrganization => /\ "code" \in DOMAIN form => form.code = SystemCode
                                  /\ "status" \in DOMAIN form => form.status = "active"
    BY <1>0, <1>2 DEF UpdateOrganization, MayUpdateOrganization
  <2>4. KnowsTask(t)
    BY <2>1, <2>3 DEF KnowsTask
  <2> QED
    BY <2>2, <2>4, StartedTaskKeepsInv
<1>3. ASSUME NEW operation \in {"activate", "deactivate"},
             SetOrganizationStatus(c, actor, o, operation)
      PROVE  TenantInv'
  <2>1. PICK form : form = [status |-> IF operation = "activate" THEN "active" ELSE "inactive"]
    OBVIOUS
  <2>2. PICK t : t = [op |-> "update", on |-> o, form |-> form]
    OBVIOUS
  <2>3. UNCHANGED records /\ task' = [task EXCEPT ![c] = t]
    BY <1>3, <2>1, <2>2, Zenon DEF SetOrganizationStatus, StartTask
  <2>4. o = SystemOrganization => operation = "activate"
    BY <1>0, <1>3 DEF SetOrganizationStatus, evaluateOrganizationAction
  <2>5. form \in OrganizationForm
    <3>1. form \in [{"status"} -> OrganizationCodes \cup {"active", "inactive"}]
      BY <2>1
    <3>2. DOMAIN form = {"status"} /\ form.status \in {"active", "inactive"}
      BY <2>1
    <3>3. form \in Fields
      BY <3>1 DEF Fields
    <3> QED
      BY <3>2, <3>3 DEF OrganizationForm
  <2>6. KnowsTask(t)
    BY <2>1, <2>2, <2>4, <2>5 DEF KnowsTask
  <2> QED
    BY <2>3, <2>6, StartedTaskKeepsInv
<1>4. ASSUME DeleteOrganization(c, actor, o) PROVE TenantInv'
  <2>1. PICK t : t = [op |-> "delete", on |-> o]
    OBVIOUS
  <2>2. UNCHANGED records /\ task' = [task EXCEPT ![c] = t]
    BY <1>4, <2>1, Zenon DEF DeleteOrganization, StartTask, MayDeleteOrganization
  <2>3. o # SystemOrganization
    BY <1>0, <1>4 DEF DeleteOrganization, evaluateOrganizationAction,
                      MayDeleteOrganization
  <2>4. KnowsTask(t)
    BY <2>1, <2>3 DEF KnowsTask
  <2> QED
    BY <2>2, <2>4, StartedTaskKeepsInv
<1>5. ASSUME CreateProjectIn(c, actor, o) PROVE TenantInv'
  <2>1. PICK t : t = [op |-> "create project", on |-> o]
    OBVIOUS
  <2>2. UNCHANGED records /\ task' = [task EXCEPT ![c] = t]
    BY <1>5, <2>1, Zenon DEF CreateProjectIn, StartTask
  <2>3. KnowsTask(t)
    BY <2>1 DEF KnowsTask
  <2> QED
    BY <2>2, <2>3, StartedTaskKeepsInv
<1>6. ASSUME NEW p \in DOMAIN project, MoveProject(c, actor, p, o) PROVE TenantInv'
  <2>1. PICK t : t = [op |-> "move project", on |-> o, project |-> p, from |-> project[p]]
    OBVIOUS
  <2>2. UNCHANGED records /\ task' = [task EXCEPT ![c] = t]
    BY <1>6, <2>1, Zenon DEF MoveProject, StartTask
  <2>3. KnowsTask(t)
    BY <2>1 DEF KnowsTask
  <2> QED
    BY <2>2, <2>3, StartedTaskKeepsInv
<1> QED
  BY <1>1, <1>2, <1>3, <1>4, <1>5, <1>6

\* A row that a task inserts or updates is not the system's, or stays as it was.
LEMMA WrittenOrganizationsStayConsistent ==
    ASSUME TenantInv, UNCHANGED vars, UNCHANGED <<project, audited, closed>>,
           NEW o \in Organizations \ closed, NEW row \in Organization, NEW c \in Calls, NEW t,
           task' = [task EXCEPT ![c] = t],
           organization' = [p \in DOMAIN organization \cup {o} |->
                              IF p = o THEN row ELSE organization[p]],
           o = SystemOrganization <=> row.code = SystemCode,
           o = SystemOrganization => row.status = "active",
           \A p \in DOMAIN organization \ {o} : organization[p].code # row.code
    PROVE  TenantsConsistent'
<1>1. \A p \in DOMAIN organization : p \in DOMAIN organization'
  OBVIOUS
<1>2. TenantTypeOK'
  BY DEF TenantTypeOK, TenantInv, TenantsConsistent
<1>3. SystemStays'
  BY DEF SystemStays, Available, Exists, TenantInv, TenantsConsistent
<1>4. NothingIsOrphaned'
  BY <1>1 DEF NothingIsOrphaned, Exists, TenantInv, TenantsConsistent, vars, rows
<1>5. CodesAreUnique'
  BY DEF CodesAreUnique, TenantInv, TenantsConsistent
<1> QED
  BY <1>2, <1>3, <1>4, <1>5 DEF TenantsConsistent

LEMMA TasksWrite ==
    ASSUME TenantInv, Anchored, UNCHANGED vars, NEW c \in Calls,
           \/ InsertOrganization(c) \/ WriteOrganization(c) \/ RemoveOrganization(c)
           \/ InsertProject(c) \/ WriteProject(c)
           \/ WriteAuditLog(c) \/ FailTask(c)
    PROVE  TenantInv'
<1>0. /\ TenantTypeOK /\ SystemStays /\ NothingIsOrphaned /\ CodesAreUnique
      /\ KnowsTask(task[c])
  BY DEF TenantInv, TenantsConsistent
<1>1. ASSUME NEW o, AuditNext(c, o), TenantsConsistent', DOMAIN project \subseteq DOMAIN project'
      PROVE  TenantInv'
  <2>1. PICK t : t = [op |-> "audit", on |-> o]
    OBVIOUS
  <2>2. task' = [task EXCEPT ![c] = t]
    BY <1>1, <2>1, Zenon DEF AuditNext
  <2>3. KnowsTask(t)'
    BY <2>1 DEF KnowsTask
  <2> QED
    BY <1>1, <2>2, <2>3, TaskKeepsInv
<1>2. ASSUME EndTask(c), TenantsConsistent', project' = project PROVE TenantInv'
  <2>1. PICK t : t = TaskDone
    OBVIOUS
  <2>2. task' = [task EXCEPT ![c] = t]
    BY <1>2, <2>1, Zenon DEF EndTask
  <2>3. KnowsTask(t)'
    BY <2>1 DEF KnowsTask, TaskDone
  <2> QED
    BY <1>2, <2>2, <2>3, TaskKeepsInv
<1>3. CASE InsertOrganization(c)
  <2>1. PICK o, row : o = task[c].on /\ row = task[c].row
    OBVIOUS
  <2>2. o \in Organizations /\ row \in Organization /\ row.code # SystemCode
    BY <1>0, <1>3, <2>1 DEF InsertOrganization, KnowsTask
  <2>3. /\ o \notin DOMAIN organization \cup closed
        /\ \A p \in DOMAIN organization \ {o} : organization[p].code # row.code
        /\ organization' = [p \in DOMAIN organization \cup {o} |->
                              IF p = o THEN row ELSE organization[p]]
        /\ UNCHANGED <<project, audited, closed>> /\ AuditNext(c, o)
    BY <1>3, <2>1 DEF InsertOrganization, isOrganizationCodeTaken
  <2>4. o # SystemOrganization
    BY <1>0, <2>3 DEF SystemStays, Available, Exists
  <2>5. PICK t : task' = [task EXCEPT ![c] = t]
    BY <2>3 DEF AuditNext
  <2>6. TenantsConsistent'
    BY <2>2, <2>3, <2>4, <2>5, WrittenOrganizationsStayConsistent
  <2> QED
    BY <2>3, <2>6, <1>1
<1>4. CASE WriteOrganization(c)
  <2>1. PICK o, form : o = task[c].on /\ form = task[c].form
    OBVIOUS
  <2>2. /\ form \in OrganizationForm
        /\ o = SystemOrganization =>
             /\ "code" \in DOMAIN form => form.code = SystemCode
             /\ "status" \in DOMAIN form => form.status = "active"
    BY <1>0, <1>4, <2>1 DEF WriteOrganization, KnowsTask
  <2>3. /\ Exists(o) /\ "code" \in DOMAIN form => ~isOrganizationCodeTaken(form.code, o)
        /\ organization' = IF Exists(o)
             THEN [organization EXCEPT ![o] =
                     [k \in DOMAIN @ |-> IF k \in DOMAIN form THEN form[k] ELSE @[k]]]
             ELSE organization
        /\ UNCHANGED <<project, audited, closed>> /\ AuditNext(c, o)
    BY <1>4, <2>1, Zenon DEF WriteOrganization
  <2>4. PICK t : task' = [task EXCEPT ![c] = t]
    BY <2>3 DEF AuditNext
  <2>5. CASE ~Exists(o)
    <3>1. TenantsConsistent'
      BY <1>0, <2>3, <2>4, <2>5 DEF TenantsConsistent, TenantTypeOK, SystemStays,
           NothingIsOrphaned, CodesAreUnique, Available, Exists, vars, rows
    <3> QED
      BY <2>3, <3>1, <1>1
  <2>6. CASE Exists(o)
    <3>1. PICK row : row = [k \in DOMAIN organization[o] |->
                              IF k \in DOMAIN form THEN form[k] ELSE organization[o][k]]
      OBVIOUS
    <3>2. organization[o] \in Organization /\ o \in Organizations \ closed
      BY <1>0, <2>6 DEF TenantTypeOK, Exists
    <3>3. DOMAIN organization[o] = {"code", "status"}
      BY <3>2 DEF Organization
    <3>4. /\ "code" \in DOMAIN form => form.code \in OrganizationCodes
          /\ "status" \in DOMAIN form => form.status \in {"active", "inactive"}
      BY <2>2 DEF OrganizationForm
    <3>5. row.code = (IF "code" \in DOMAIN form THEN form.code ELSE organization[o].code)
      BY <3>1, <3>3
    <3>6. row.status = (IF "status" \in DOMAIN form THEN form.status ELSE organization[o].status)
      BY <3>1, <3>3
    <3>7. row \in Organization
      <4>1. organization[o].code \in OrganizationCodes /\ organization[o].status \in {"active", "inactive"}
        BY <3>2 DEF Organization
      <4>2. row.code \in OrganizationCodes /\ row.status \in {"active", "inactive"}
        BY <3>4, <3>5, <3>6, <4>1
      <4>3. row = [k \in {"code", "status"} |-> row[k]]
        BY <3>1, <3>3
      <4>4. row = [code |-> row.code, status |-> row.status]
        BY <4>3
      <4> QED
        BY <4>2, <4>4 DEF Organization
    <3>8. organization' = [p \in DOMAIN organization \cup {o} |->
                             IF p = o THEN row ELSE organization[p]]
      BY <2>3, <2>6, <3>1 DEF Exists
    <3>9. \A p \in DOMAIN organization \ {o} : organization[p].code # row.code
      BY <1>0, <2>3, <2>6, <3>5 DEF isOrganizationCodeTaken, CodesAreUnique, Exists
    <3>10. /\ o = SystemOrganization <=> row.code = SystemCode
           /\ o = SystemOrganization => row.status = "active"
      BY <1>0, <2>2, <2>6, <3>5, <3>6, <3>9 DEF SystemStays, Available, Exists
    <3>11. TenantsConsistent'
      BY <2>3, <2>4, <3>2, <3>7, <3>8, <3>9, <3>10, WrittenOrganizationsStayConsistent
    <3> QED
      BY <2>3, <3>11, <1>1
  <2> QED
    BY <2>5, <2>6
<1>5. CASE RemoveOrganization(c)
  <2>1. PICK o : o = task[c].on
    OBVIOUS
  <2>2. /\ \A e \in Employees : EmployeeOrganization[e] # o
        /\ \A r \in DOMAIN role : role[r].org # o
        /\ \A p \in DOMAIN project : project[p] # o
        /\ organization' = [p \in DOMAIN organization \ {o} |-> organization[p]]
        /\ closed' = closed \cup (DOMAIN organization \cap {o})
        /\ audited' = audited \ {o} /\ project' = project /\ AuditNext(c, o)
    BY <1>5, <2>1 DEF RemoveOrganization, ProjectsOf
  <2>3. \A u \in DOMAIN account : account[u].org # o
    BY <2>2 DEF Anchored, Anchor
  <2>4. o # SystemOrganization
    BY <1>0, <1>5, <2>1 DEF RemoveOrganization, KnowsTask
  <2>5. DOMAIN organization' = DOMAIN organization \ {o}
        /\ \A p \in DOMAIN organization' : organization'[p] = organization[p]
    BY <2>2
  <2>6. DOMAIN task' = Calls
    BY <1>0, <2>2 DEF AuditNext, TenantTypeOK
  <2>7. TenantTypeOK'
    BY <1>0, <2>2, <2>5, <2>6 DEF TenantTypeOK
  <2>8. SystemStays' /\ CodesAreUnique'
    BY <1>0, <2>4, <2>5 DEF SystemStays, CodesAreUnique, Available, Exists
  <2>9. NothingIsOrphaned'
    BY <1>0, <2>2, <2>3, <2>5 DEF NothingIsOrphaned, Exists, vars, rows
  <2> QED
    BY <2>2, <2>7, <2>8, <2>9, <1>1 DEF TenantsConsistent
<1>6. ASSUME NEW p \in Calls, NEW o, Exists(o), NEW a, AuditNext(c, a),
             DOMAIN project' = DOMAIN project \cup {p}, project'[p] = o,
             \A q \in DOMAIN project \ {p} : project'[q] = project[q],
             UNCHANGED <<organization, audited, closed>>
      PROVE  TenantInv'
  <2>1. DOMAIN task' = Calls
    BY <1>0, <1>6 DEF AuditNext, TenantTypeOK
  <2>2. TenantsConsistent'
    BY <1>0, <1>6, <2>1 DEF TenantsConsistent, TenantTypeOK, SystemStays, NothingIsOrphaned,
         CodesAreUnique, Available, Exists, vars, rows
  <2> QED
    BY <1>6, <2>2, <1>1
<1>7. CASE InsertProject(c)
  BY <1>6, <1>7 DEF InsertProject
<1>8. CASE WriteProject(c)
  <2>1. PICK p : p = task[c].project /\ p \in DOMAIN project /\ p \in Calls
    BY <1>0, <1>8 DEF WriteProject, KnowsTask, TenantTypeOK
  <2> QED
    BY <1>6, <1>8, <2>1 DEF WriteProject
<1>9. CASE WriteAuditLog(c)
  <2>1. PICK o : o = task[c].on
    OBVIOUS
  <2>2. /\ Exists(o) /\ audited' = audited \cup {o} /\ EndTask(c)
        /\ UNCHANGED <<organization, project, closed>>
    BY <1>9, <2>1 DEF WriteAuditLog
  <2>3. DOMAIN task' = Calls
    BY <1>0, <2>2 DEF EndTask, TenantTypeOK
  <2>4. TenantsConsistent'
    BY <1>0, <2>2, <2>3 DEF TenantsConsistent, TenantTypeOK, SystemStays, NothingIsOrphaned,
         CodesAreUnique, Available, Exists, vars, rows
  <2> QED
    BY <2>2, <2>4, <1>2
<1>10. CASE FailTask(c)
  <2>1. DOMAIN task' = Calls
    BY <1>0, <1>10 DEF FailTask, EndTask, TenantTypeOK
  <2>2. TenantsConsistent'
    BY <1>0, <1>10, <2>1 DEF FailTask, records, TenantsConsistent, TenantTypeOK, SystemStays,
         NothingIsOrphaned, CodesAreUnique, Available, Exists, vars, rows
  <2> QED
    BY <1>10, <2>2, <1>2 DEF FailTask, records
<1> QED
  BY <1>3, <1>4, <1>5, <1>7, <1>8, <1>9, <1>10

\* A step of Accounts adds no account and no role without an organization, and
\* gives none another one.
LEMMA AccountStepsKeepTenants ==
    ASSUME TenantInv, TypeOK, Anchored', NEW c \in Calls, AccountStep(c)
    PROVE  TenantInv'
<1>1. UNCHANGED records /\ task' = task
  BY DEF AccountStep
<1>2. [Next]_vars
  BY DEF AccountStep, Next
<1>3. \A r \in DOMAIN role' : Exists(role'[r].org)
  <2> SUFFICES ASSUME NEW r \in DOMAIN role' PROVE Exists(role'[r].org)
    OBVIOUS
  <2>1. CASE r \in DOMAIN role
    BY <2>1, <1>2, RolesKeepOrganization DEF TenantInv, TenantsConsistent, NothingIsOrphaned
  <2>2. CASE r \notin DOMAIN role
    BY <2>2 DEF AccountStep, AccountsMeetTenants
  <2> QED
    BY <2>1, <2>2
<1>4. \A u \in DOMAIN account' : Exists(account'[u].org)
  BY <1>3 DEF Anchored, Anchor
<1>5. NothingIsOrphaned'
  BY <1>1, <1>3, <1>4 DEF TenantInv, TenantsConsistent, NothingIsOrphaned, Exists, records
<1>6. TenantTypeOK' /\ SystemStays' /\ CodesAreUnique'
  BY <1>1 DEF TenantInv, TenantsConsistent, TenantTypeOK, SystemStays, CodesAreUnique,
       Available, Exists, records
<1>7. \A d \in Calls : KnowsTask(task[d])'
  BY <1>1 DEF TenantInv, KnowsTask, records
<1> QED
  BY <1>5, <1>6, <1>7 DEF TenantInv, TenantsConsistent

\* Organizations and what belongs to them stay consistent, for every number of
\* organizations, accounts and calls that overlap: the system's organization
\* stays, codes are unique, and nothing loses the organization it belongs to.
THEOREM TenantsStayConsistent == TenantSpec => []TenantsConsistent
<1>1. TenantInit => TenantInv
  <2> SUFFICES ASSUME TenantInit PROVE TenantInv
    OBVIOUS
  <2>1. /\ Init /\ DOMAIN organization = DOMAIN seeded
        /\ \A o \in DOMAIN seeded : organization[o] = [code |-> seeded[o], status |-> "active"]
        /\ organization \in [DOMAIN organization -> Organization]
    BY TenantsAssumption DEF TenantInit, Organization
  <2>2. TenantTypeOK
    BY <2>1, TenantsAssumption DEF TenantInit, TenantTypeOK
  <2>3. SystemStays /\ CodesAreUnique
    BY <2>1, TenantsAssumption DEF SystemStays, CodesAreUnique, Available, Exists
  <2>4. NothingIsOrphaned
    <3>1. Exists(SystemOrganization) /\ Exists(tenant)
      BY <2>1, TenantsAssumption DEF Exists
    <3>2. \A u \in DOMAIN account : account[u].org \in {SystemOrganization, tenant}
      BY <2>1 DEF Init
    <3>3. \A r \in DOMAIN role : role[r].org \in {SystemOrganization, tenant}
      <4> SUFFICES ASSUME NEW r \in DOMAIN role PROVE role[r].org \in {SystemOrganization, tenant}
        OBVIOUS
      <4>1. PICK ps, code, org, system :
               /\ role[r] = [org |-> org, code |-> code, system |-> system, permissions |-> ps]
               /\ org = (IF r = superRole THEN SystemOrganization ELSE tenant)
        BY <2>1, Zenon DEF Init
      <4> QED
        BY <4>1
    <3>4. DOMAIN project = {}
      BY DEF TenantInit
    <3>5. \A e \in Employees : Exists(EmployeeOrganization[e])
      BY <2>1, TenantsAssumption DEF Exists
    <3> QED
      BY <3>1, <3>2, <3>3, <3>4, <3>5 DEF NothingIsOrphaned
  <2>5. \A c \in Calls : KnowsTask(task[c])
    BY DEF TenantInit, NoTask, KnowsTask
  <2> QED
    BY <2>2, <2>3, <2>4, <2>5 DEF TenantInv, TenantsConsistent
<1>2. TenantInv /\ TypeOK /\ Anchored /\ Anchored' /\ [TenantNext]_tenantVars => TenantInv'
  <2> SUFFICES ASSUME TenantInv, TypeOK, Anchored, Anchored', [TenantNext]_tenantVars
               PROVE  TenantInv'
    OBVIOUS
  <2>1. ASSUME NEW c \in Calls, TenantStep(c), UNCHANGED vars PROVE TenantInv'
    BY <2>1, TasksStart, TasksWrite DEF TenantStep
  <2>2. CASE UNCHANGED tenantVars
    BY <2>2 DEF tenantVars, records, vars, rows, TenantInv, TenantsConsistent, TenantTypeOK,
         SystemStays, NothingIsOrphaned, CodesAreUnique, Available, Exists, KnowsTask
  <2> QED
    BY <2>1, <2>2, AccountStepsKeepTenants DEF TenantNext, Ended
<1>3. TenantInv => TenantsConsistent
  BY DEF TenantInv
<1>4. Inv => TypeOK
  BY DEF Inv, RowsConsistent, AccountsConsistent
<1> QED
  BY <1>1, <1>2, <1>3, <1>4, Inductive, EveryTenantIsAnchored, TenantsImplementAccounts, PTL
  DEF TenantSpec

-----------------------------------------------------------------------------
(* The pages                                                               *)

\* Every table of Accounts and Tenants is finite.
LEMMA TablesAreFinite ==
    ASSUME TypeOK, TenantTypeOK
    PROVE  /\ IsFiniteSet(grants) /\ IsFiniteSet(DOMAIN account) /\ IsFiniteSet(DOMAIN role)
           /\ IsFiniteSet(DOMAIN project)
           /\ \A o : IsFiniteSet({o} \cap audited)
<1>1. /\ IsFiniteSet(Users) /\ IsFiniteSet(Roles) /\ IsFiniteSet(Calls)
  BY FiniteTables
<1>2. IsFiniteSet(DOMAIN account) /\ IsFiniteSet(DOMAIN role) /\ IsFiniteSet(DOMAIN project)
  BY <1>1, FS_Subset DEF TypeOK, TenantTypeOK
<1>3. \A o : IsFiniteSet({o} \cap audited)
  BY FS_Singleton, FS_Subset
<1>4. IsFiniteSet(grants)
  <2> DEFINE D == (Calls \cup {"seed"}) \X (Users \X Roles)
             f == [x \in D |-> [id |-> x[1], user |-> x[2][1], role |-> x[2][2]]]
  <2>1. IsFiniteSet(D)
    BY <1>1, FS_AddElement, FS_Product
  <2>2. f \in [D -> Grant]
    BY DEF Grant
  <2>3. \A g \in Grant : \E x \in D : f[x] = g
    <3> SUFFICES ASSUME NEW g \in Grant PROVE \E x \in D : f[x] = g
      OBVIOUS
    <3>1. /\ g.id \in Calls \cup {"seed"} /\ g.user \in Users /\ g.role \in Roles
          /\ g = [id |-> g.id, user |-> g.user, role |-> g.role]
      BY DEF Grant
    <3>2. <<g.id, <<g.user, g.role>>>> \in D
      BY <3>1
    <3>3. f[<<g.id, <<g.user, g.role>>>>] = g
      BY <3>1, <3>2
    <3> QED BY <3>2, <3>3
  <2> HIDE DEF D, f
  <2>4. f \in Surjection(D, Grant)
    BY <2>2, <2>3 DEF Surjection
  <2>5. IsFiniteSet(Grant)
    BY <2>1, <2>4, FS_Surjection
  <2> QED BY <2>5, FS_Subset DEF TypeOK
<1> QED BY <1>2, <1>3, <1>4

\* The roles of a user are roles of the own organization, so that nothing but
\* the displayed role can be the super administrator's.
LEMMA OwnRolesAreAll ==
    ASSUME TypeOK, TenantsAreSeparate, NEW u \in DOMAIN account
    PROVE  /\ OwnRoles(u) = RolesOf(u)
           /\ RolesOf(u) \subseteq DOMAIN role
           /\ (\E r \in primaryGrant(OwnRoles(u)) : role[r].code = "SUPERADMIN")
                 <=> IsSuperAdminAccount(u)
<1>1. RolesOf(u) \subseteq DOMAIN role
  BY DEF RolesOf
<1>2. OwnRoles(u) = RolesOf(u)
  BY DEF OwnRoles, RolesOf, GrantsOf, TypeOK, TenantsAreSeparate
<1>3. ASSUME NEW r \in RolesOf(u), role[r].code = "SUPERADMIN"
      PROVE  r \in primaryGrant(RolesOf(u))
  <2>1. Rank(role[r].code) = 1 /\ \A code : Rank(code) \in 1..4
    BY <1>3 DEF Rank
  <2> QED BY <2>1 DEF primaryGrant
<1>4. primaryGrant(RolesOf(u)) \subseteq RolesOf(u)
  BY DEF primaryGrant
<1> QED BY <1>1, <1>2, <1>3, <1>4 DEF IsSuperAdminAccount

\* What is known of a row of the list of users.
LEMMA RowsOfTheList ==
    ASSUME TypeOK, NEW org, NEW row \in listUsersForOrganization(org)
    PROVE  /\ row.id \in DOMAIN account /\ account[row.id].org = org
           /\ row.status = account[row.id].status
           /\ row.roles = primaryGrant(OwnRoles(row.id))
           /\ row.employee # Nobody => row.employee \in Employees /\ link[row.employee] = row.id
<1>1. PICK u \in UsersOf(org) :
        \E e \in IF {e \in Employees : link[e] = u} = {} THEN {Nobody}
                 ELSE {e \in Employees : link[e] = u} :
           row = [id |-> u, status |-> account[u].status, employee |-> e,
                  roles |-> primaryGrant(listGrantsForOrganization(org)[u])]
  BY DEF listUsersForOrganization
<1>2. PICK e : /\ e # Nobody => e \in Employees /\ link[e] = u
               /\ row = [id |-> u, status |-> account[u].status, employee |-> e,
                         roles |-> primaryGrant(listGrantsForOrganization(org)[u])]
  BY <1>1
<1>3. listGrantsForOrganization(org)[u] = OwnRoles(u)
  BY DEF listGrantsForOrganization
<1>4. row.id = u /\ row.status = account[u].status /\ row.employee = e
      /\ row.roles = primaryGrant(OwnRoles(u))
  BY <1>2, <1>3
<1>5. u \in DOMAIN account /\ account[u].org = org
  BY DEF UsersOf
<1> QED BY <1>2, <1>4, <1>5

LEMMA ActorsAreUsers ==
    ASSUME NEW actor, NEW p, Requires(actor, p)
    PROVE  actor \in DOMAIN account
BY DEF Requires, RequireUser, SignedIn

\* Whoever selects an organization is a super administrator or belongs to it.
LEMMA SelectedIsOwn ==
    ASSUME NEW actor, NEW org \in SelectableOrganizations(actor)
    PROVE  IsSuperAdmin(actor) \/ account[actor].org = org
BY DEF SelectableOrganizations

LEMMA DeletionButtons ==
    ASSUME TypeOK, TenantTypeOK, TenantsAreSeparate, NEW actor \in Users,
           Requires(actor, "users"), NEW org \in SelectableOrganizations(actor)
    PROVE  DeleteFollowsPolicy(actor, org)
<1> SUFFICES ASSUME NEW historied,
                    NEW row \in DOMAIN UsersSettingsPage(actor, org, historied).rows
             PROVE  "Delete" \in UsersSettingsPage(actor, org, historied).rows[row]
                       <=> MayDeleteUser(actor, row.id, row.id \in historied)
  BY DEF DeleteFollowsPolicy
<1> DEFINE list == listUsersForOrganization(org)
           deletable == computeDeleteEligibility(list, actor, historied)
<1>1. UsersSettingsPage(actor, org, historied).rows = UsersManager(list, deletable)
  BY DEF UsersSettingsPage
<1>2. row \in list /\ UsersManager(list, deletable)[row] = RowActions(row, deletable)
  BY <1>1 DEF UsersManager
<1>3. "Delete" \in UsersSettingsPage(actor, org, historied).rows[row] <=> row.id \in deletable
  <2>1. UsersSettingsPage(actor, org, historied).rows[row] = RowActions(row, deletable)
    BY <1>1, <1>2
  <2> HIDE DEF deletable
  <2>2. "Delete" \in RowActions(row, deletable) <=> row.id \in deletable
    BY DEF RowActions
  <2> QED BY <2>1, <2>2
<1>4. CountActiveSuperAdmins \in Nat
  <2>1. IsFiniteSet({g \in grants : /\ g.user \in ActiveSuperAdmins
                                    /\ role[g.role].code = "SUPERADMIN"})
    BY TablesAreFinite, FS_Subset
  <2> QED BY <2>1, FS_CardinalityType DEF CountActiveSuperAdmins
<1>5. /\ row.id \in DOMAIN account /\ account[row.id].org = org
      /\ \A x \in list : /\ x.id \in DOMAIN account
                         /\ x.roles = primaryGrant(OwnRoles(x.id))
  BY <1>2, RowsOfTheList
<1>6. \A x \in list : (\E r \in x.roles : role[r].code = "SUPERADMIN")
                         <=> IsSuperAdminAccount(x.id)
  BY <1>5, OwnRolesAreAll
<1>7. row.id \in deletable <=>
         /\ row.id # actor /\ row.id \notin historied
         /\ ~(IsSuperAdminAccount(row.id) /\ CountActiveSuperAdmins <= 1)
  BY <1>2, <1>6 DEF computeDeleteEligibility
<1>8. MayDeleteUser(actor, row.id, row.id \in historied) <=>
         /\ row.id # actor /\ row.id \notin historied
         /\ IsSuperAdminAccount(row.id) => CountActiveSuperAdmins > 1
  BY <1>5, SelectedIsOwn DEF MayDeleteUser, MayDelete, MayRetire
<1> QED BY <1>3, <1>4, <1>7, <1>8

LEMMA CreationForms ==
    ASSUME NEW actor \in Users, Requires(actor, "users"),
           NEW org \in SelectableOrganizations(actor)
    PROVE  CreationIsAccepted(actor, org)
<1> SUFFICES ASSUME NEW f \in CreateUserDialog(UsersSettingsPage(actor, org, {})),
                    IsSuperAdmin(actor) \/ role[f.role].code # "SUPERADMIN"
             PROVE  MayCreateUser(actor, org, f.role, f.employee)
  BY DEF CreationIsAccepted
<1>1. /\ f.role \in DOMAIN listRolesByOrganization(org)
      /\ f.employee \in listLinkableEmployees(org, Nobody) \cup {Nobody}
  BY DEF CreateUserDialog, CreateUserForms, UsersSettingsPage
<1>2. RoleIn(f.role, org)
  BY <1>1 DEF listRolesByOrganization, RoleIn
<1>3. f.employee # Nobody => Linkable(f.employee, org, Nobody)
  BY <1>1 DEF listLinkableEmployees
<1>4. MayManage(actor, org, role[f.role].code, FALSE)
  BY SelectedIsOwn DEF MayManage
<1> QED BY <1>2, <1>3, <1>4, SelectedIsOwn DEF MayCreateUser

LEMMA UntouchedForms ==
    ASSUME TypeOK, TenantsAreSeparate, NEW actor \in Users, Requires(actor, "users"),
           NEW org \in SelectableOrganizations(actor)
    PROVE  UntouchedEditIsAccepted(actor, org)
<1> DEFINE page == UsersSettingsPage(actor, org, {})
<1> SUFFICES ASSUME NEW row \in DOMAIN page.rows, NEW f \in UntouchedEdits(page, row)
             PROVE  /\ f.role \in RolesOf(row.id) \cup {Nobody}
                    /\ (IsSuperAdmin(actor) \/ ~IsSuperAdminAccount(row.id)) =>
                           MayUpdateUser(actor, row.id, f.status, f.role, f.edit)
  BY DEF UntouchedEditIsAccepted
<1>1. row \in listUsersForOrganization(org)
  BY DEF UsersSettingsPage, UsersManager
<1>2. /\ row.id \in DOMAIN account /\ account[row.id].org = org
      /\ row.status = account[row.id].status
      /\ row.roles = primaryGrant(OwnRoles(row.id))
      /\ row.employee # Nobody => row.employee \in Employees /\ link[row.employee] = row.id
  BY <1>1, RowsOfTheList
<1>3. /\ f.role \in row.roles \cup {Nobody} /\ f.status = row.status
      /\ f.edit = SubmittedEmployee(Preselected(row.employee, page.employees))
  BY DEF UntouchedEdits
<1>4. row.roles \subseteq RolesOf(row.id)
  BY <1>2, OwnRolesAreAll DEF primaryGrant
<1>5. f.role \in RolesOf(row.id) \cup {Nobody}
  BY <1>3, <1>4
<1>6. page.employees = {e \in Employees : Linkable(e, org, Nobody)}
  BY DEF UsersSettingsPage, listLinkableEmployees
<1>7. row.id # Nobody
  BY <1>2, AccountsAssumption DEF TypeOK
<1>8. Preselected(row.employee, page.employees) = Nobody
  BY <1>2, <1>6, <1>7 DEF Preselected, Linkable
<1>9. f.edit = Unlink
  BY <1>3, <1>8 DEF SubmittedEmployee
<1>10. f.edit.kind # "link"
  BY <1>9 DEF Unlink
<1>11. ASSUME IsSuperAdmin(actor) \/ ~IsSuperAdminAccount(row.id)
       PROVE  MayUpdateUser(actor, row.id, f.status, f.role, f.edit)
  <2>1. MayManage(actor, account[row.id].org, "none", IsSuperAdminAccount(row.id))
    BY <1>2, <1>11, SelectedIsOwn DEF MayManage
  <2>2. ~isNewRoleId(row.id, f.role)
    BY <1>5 DEF isNewRoleId
  <2> QED BY <1>2, <1>3, <1>10, <2>1, <2>2 DEF MayUpdateUser
<1> QED BY <1>5, <1>11

LEMMA RoleEditors ==
    ASSUME TypeOK, TenantTypeOK, SystemPermissionsStayReserved, NEW actor \in Users,
           NEW r \in DOMAIN role, OpensRole(actor, r)
    PROVE  RoleEditorIsFaithful(actor, r)
<1> DEFINE editor == RolePermissionEditor(r)
<1>1. /\ Requires(actor, "roles") /\ RoleIn(r, account[actor].org)
      /\ role[r].code = "SUPERADMIN" => IsSuperAdmin(actor)
  BY DEF OpensRole
<1>2. role[r].permissions \subseteq Permissions
  BY DEF TypeOK, Role
<1>3. editor.untouched = role[r].permissions
  BY <1>2 DEF RolePermissionEditor, assignableCatalog, SystemPermissionsStayReserved
<1>4. ASSUME NEW ps \in editor.submissions \ {{}}, IsSuperAdmin(actor)
      PROVE  MayUpdateRole(actor, r, ps)
  <2>1. ps \subseteq assignableCatalog(r) /\ ps # {}
    BY DEF RolePermissionEditor
  <2>2. role[r].code # "SUPERADMIN" => ps \cap SystemOnly = {}
    BY <2>1 DEF assignableCatalog
  <2> QED BY <1>1, <1>4, <2>1, <2>2 DEF MayUpdateRole
<1>5. (editor.danger /\ RolesPage(actor)[r].memberCount = 0) <=> MayDeleteRole(actor, r)
  <2>1. editor.danger <=> ~role[r].system /\ role[r].code # "SUPERADMIN"
    BY DEF RolePermissionEditor, canDelete
  <2>2. RolesPage(actor)[r].memberCount = Cardinality({g \in grants : g.role = r})
    BY <1>1 DEF RolesPage, listRolesByOrganization, RoleIn
  <2>3. IsFiniteSet({g \in grants : g.role = r})
    BY TablesAreFinite, FS_Subset
  <2>4. Cardinality({g \in grants : g.role = r}) = 0 <=> {g \in grants : g.role = r} = {}
    BY <2>3, FS_EmptySet
  <2>5. {g \in grants : g.role = r} = {} <=> \A g \in grants : g.role # r
    OBVIOUS
  <2> QED BY <1>1, <2>1, <2>2, <2>4, <2>5 DEF MayDeleteRole
<1> QED BY <1>3, <1>4, <1>5 DEF RoleEditorIsFaithful

LEMMA OrganizationPages ==
    ASSUME TypeOK, TenantTypeOK, NEW actor \in Users, SuperAdminActor(actor),
           NEW o \in DOMAIN organization
    PROVE  OrganizationPagesAreFaithful(actor, o)
<1> DEFINE counts == detectOrganizationDependencies(o)
           detail == OrganizationDetailPage(o)
           untouched == EditOrganizationDialog(listOrganizations[o].row)
<1>0. organization[o] \in Organization
  BY DEF TenantTypeOK
<1>1. /\ counts.users \in Nat /\ counts.employees \in Nat
      /\ DOMAIN counts = {"users", "employees", "roles", "projects", "audit"}
  <2>1. /\ IsFiniteSet({u \in DOMAIN account : account[u].org = o})
        /\ IsFiniteSet({e \in Employees : EmployeeOrganization[e] = o})
    BY TablesAreFinite, FiniteTables, FS_Subset
  <2> QED BY <2>1, FS_CardinalityType DEF detectOrganizationDependencies
<1> HIDE DEF counts
<1>2. MayDeleteOrganization(actor, o) <=>
         organization[o].code # SystemCode /\ ~hasAny(counts)
  BY DEF MayDeleteOrganization, Exists, evaluateOrganizationAction, counts
<1>3. hasAny(counts) <=> \E k \in DOMAIN counts : counts[k] > 0
  BY DEF hasAny
<1>4. /\ detail.actions = {"Edit"} \cup (IF organization[o].code = SystemCode THEN {} ELSE {"Delete"})
      /\ detail.linked = {k \in DOMAIN counts : counts[k] > 0}
  BY DEF OrganizationDetailPage, counts
<1>5. OrganizationsManager[o] = {"View", "Edit"} \cup
            (IF organization[o].code = SystemCode \/ counts.employees + counts.users > 0
             THEN {} ELSE {"Delete"})
  BY DEF OrganizationsManager, listOrganizations, counts
<1>6. listOrganizations[o].row = organization[o]
  BY DEF listOrganizations
<1> HIDE DEF detail
<1>7. MayDeleteOrganization(actor, o) => "Delete" \in OrganizationsManager[o] \cap detail.actions
  <2> SUFFICES ASSUME MayDeleteOrganization(actor, o)
               PROVE  "Delete" \in OrganizationsManager[o] \cap detail.actions
    OBVIOUS
  <2>1. ~(counts.users > 0) /\ ~(counts.employees > 0)
    BY <1>1, <1>2, <1>3
  <2>2. ~(counts.employees + counts.users > 0)
    BY <1>1, <2>1
  <2> QED BY <1>2, <1>4, <1>5, <2>2
<1>8. "Delete" \in detail.actions => (detail.linked = {} <=> MayDeleteOrganization(actor, o))
  BY <1>2, <1>3, <1>4
<1>9. untouched \in OrganizationForm /\ MayUpdateOrganization(actor, o, untouched)
  <2>1. CASE organization[o].code = SystemCode
    <3>1. untouched = <<>>
      BY <1>6, <2>1 DEF EditOrganizationDialog
    <3>2. DOMAIN untouched = {} /\ untouched \in [{} -> {}]
      BY <3>1
    <3> HIDE DEF untouched
    <3>3. untouched \in OrganizationForm
      BY <3>2 DEF OrganizationForm, Fields
    <3>4. MayUpdateOrganization(actor, o, untouched)
      BY <3>2 DEF MayUpdateOrganization, Exists
    <3> QED BY <3>3, <3>4
  <2>2. CASE organization[o].code # SystemCode
    <3>1. untouched = [code |-> organization[o].code, status |-> organization[o].status]
      BY <1>6, <2>2 DEF EditOrganizationDialog
    <3>2. /\ DOMAIN untouched = {"code", "status"}
          /\ untouched.code = organization[o].code /\ untouched.status = organization[o].status
      BY <3>1
    <3>3. /\ organization[o].code \in OrganizationCodes
          /\ organization[o].status \in {"active", "inactive"}
      BY <1>0 DEF Organization
    <3>4. untouched \in [{"code", "status"} -> OrganizationCodes \cup {"active", "inactive"}]
      BY <3>1, <3>3
    <3> HIDE DEF untouched
    <3>5. untouched \in OrganizationForm
      BY <3>2, <3>3, <3>4 DEF OrganizationForm, Fields
    <3>6. MayUpdateOrganization(actor, o, untouched)
      BY <2>2, <3>2 DEF MayUpdateOrganization, Exists
    <3> QED BY <3>5, <3>6
  <2> QED BY <2>1, <2>2
<1> QED BY <1>7, <1>8, <1>9 DEF OrganizationPagesAreFaithful, detail

\* The pages of accounts, roles and organizations offer what the actions accept,
\* for every number of rows and whatever calls are under way.
THEOREM ScreensStayTrue == TenantSpec => []ScreensFollowAccounts
<1>1. AccountsConsistent /\ TenantTypeOK => ScreensFollowAccounts
  <2> SUFFICES ASSUME AccountsConsistent, TenantTypeOK PROVE ScreensFollowAccounts
    OBVIOUS
  <2>1. TypeOK /\ TenantsAreSeparate /\ SystemPermissionsStayReserved
    BY DEF AccountsConsistent
  <2> QED
    BY <2>1, DeletionButtons, CreationForms, UntouchedForms, RoleEditors, OrganizationPages
       DEF ScreensFollowAccounts
<1>2. TenantsConsistent => TenantTypeOK
  BY DEF TenantsConsistent
<1> QED
  BY <1>1, <1>2, AccountsAreConsistent, TenantsStayConsistent, TenantsImplementAccounts, PTL

----------------------------------------------------------------------------
(* Employees by number, and what the server keeps of a confirmed import.   *)
EmployeeMaps == UNION {[numbers -> Employee] : numbers \in SUBSET Numbers}
Confirmed == [op : {"confirm", "resolve", "read", "write", "commit"}, by : Dialogs,
              file : Workbook, accounts : BOOLEAN, updates : SUBSET Numbers,
              managers : SUBSET Numbers, i : Nat \ {0}, read : EmployeeMaps,
              new : EmployeeMaps, accounted : SUBSET Emails]
CsvRows == {r \in Row : r.status # ""}

(* An employee holds no relative more often than before, and no mask.      *)
Unspoilt(n, e) ==
    /\ e.family > 1 => n \in DOMAIN Initial /\ e.family = Initial[n].family
    /\ e.phone # "masked" /\ "masked" \notin e.banks

EmployeesSound(people, accounts) ==
    /\ people \in EmployeeMaps
    /\ \A n \in DOMAIN people :
          /\ Unspoilt(n, people[n])
          /\ people[n].manager \in DOMAIN people \cup {None}
          /\ people[n].account # None =>
                /\ people[n].account \in accounts
                /\ \A o \in DOMAIN people \ {n} : people[o].account # people[n].account

(* A file may hold masks only of what the user of the page may not update. *)
MayHold(f, d) ==
    /\ f \in Workbook /\ DistinctRows(f.rows)
    /\ "personal" \in Rights[d] => \A i \in DOMAIN f.rows : f.rows[i].phone # "masked"
    /\ "bank" \in Rights[d] => \A b \in f.bank : b[2] # "masked"

WizardStates(result, waits) ==
    [open : BOOLEAN, file : Workbook \cup {None}, step : 0 .. 4, chosen : BOOLEAN,
     accounts : BOOLEAN, result : {result}, waits : {waits}]

(* A dialog that has a file shows the preview of that file with the chosen *)
(* settings, or waits for it, or shows none.                               *)
WizardSound(d, s) ==
    /\ s \in WizardStates(s.result, s.waits)
    /\ s.step \in {0, 1} => ~(s.result.count > 0)
    /\ s.file # None =>
          /\ MayHold(s.file, d)
          /\ s.result.count > 0 => s.result.of = [file |-> s.file, accounts |-> s.accounts]
          /\ s.waits \notin Imports \cup {None} =>
                s.waits = [file |-> s.file, accounts |-> s.accounts]

(* A file that was checked for the user who sent it.                       *)
Checked(f) ==
    /\ \A i \in DOMAIN f.rows : f.rows[i].valid /\ f.rows[i].phone # "masked"
    /\ \A b \in f.bank : b[2] # "masked"

(* What a transaction has written of the employees: nobody else creates     *)
(* them or touches their accounts before it ends.                          *)
Transacts(s) == s.op \in {"read", "write", "commit"}
RowsDone(s) ==
    /\ \A j \in DOMAIN s.file.rows : j < s.i =>
          s.file.rows[j].number \in DOMAIN s.read \cap DOMAIN s.new
    /\ s.op = "write" =>
          /\ s.i <= Len(s.file.rows)
          /\ s.file.rows[s.i].number \in DOMAIN s.read
          /\ s.file.rows[s.i].manager \in s.managers \cup {None}
    /\ s.op = "commit" => s.i > Len(s.file.rows)
AccountOf(n, people) == IF n \in DOMAIN people THEN people[n].account ELSE None
WrittenSound(s, people) ==
    /\ \A n \in DOMAIN s.new :
          /\ Unspoilt(n, s.new[n])
          /\ s.new[n].manager \in DOMAIN people \cup {None}
          /\ \/ s.new[n].account = AccountOf(n, people)
             \/ s.op = "commit" /\ s.new[n].account \in s.accounted
    /\ \A n, o \in DOMAIN s.new :
          n # o /\ s.new[n].account \in s.accounted => s.new[o].account # s.new[n].account
Provisioned(s) ==
    \A i \in DOMAIN s.file.rows :
        LET r == s.file.rows[i] IN
        /\ s.new[r.number].assigned
        /\ r.status = "active" /\ r.email # None /\ s.accounts =>
              s.new[r.number].account # None \/ s.read[r.number].account # None

ImportSound(s, people, accounts) ==
    \/ s \in [op : {"idle", "success", "error"}]
    \/ s \in [op : {"csv", "insert"}, rows : SUBSET CsvRows]
    \/ /\ s \in Confirmed
       /\ MayHold(s.file, s.by)
       /\ s.op # "confirm" => Checked(s.file) /\ s.updates \subseteq DOMAIN people
       /\ s.op \in {"confirm", "resolve"} =>
             s.i = 1 /\ DOMAIN s.read = {} /\ DOMAIN s.new = {}
       /\ s.op # "commit" => s.accounted = {}
       /\ s.accounted \cap accounts = {}
       /\ Transacts(s) =>
             /\ s.managers \subseteq DOMAIN people
             /\ RowsDone(s) /\ WrittenSound(s, people)
       /\ s.op = "commit" => Provisioned(s)

(* No two transactions write one employee or insert one account.           *)
Apart(s, t) ==
    Transacts(s) /\ Transacts(t) =>
        DOMAIN s.new \cap DOMAIN t.new = {} /\ s.accounted \cap t.accounted = {}

ImportInv ==
    /\ EmployeesSound(employee, users)
    /\ DOMAIN dialog = Dialogs /\ \A d \in Dialogs : WizardSound(d, dialog[d])
    /\ DOMAIN import = Imports
    /\ \A c \in Imports : ImportSound(import[c], employee, users)
    /\ \A c, o \in Imports : c # o => Apart(import[c], import[o])

LEMMA EmployeeMap ==
  ASSUME NEW m
  PROVE  m \in EmployeeMaps <=> DOMAIN m \subseteq Numbers /\ m \in [DOMAIN m -> Employee]
BY DEF EmployeeMaps

(* What a row adds to the employees read or written so far.                *)
LEMMA MapWithOne ==
  ASSUME NEW m \in EmployeeMaps, NEW n \in Numbers, NEW e \in Employee
  PROVE  LET k == With(m, n, e) IN
         /\ k \in EmployeeMaps
         /\ DOMAIN k = DOMAIN m \cup {n}
         /\ \A o \in DOMAIN k : k[o] = IF o \in DOMAIN m THEN m[o] ELSE e
<1> DEFINE k == With(m, n, e)
<1>1. DOMAIN m \subseteq Numbers /\ m \in [DOMAIN m -> Employee]
  BY EmployeeMap
<1>2. DOMAIN k = DOMAIN m \cup {n}
  BY DEF With, Over
<1>3. \A o \in DOMAIN k : k[o] = IF o \in DOMAIN m THEN m[o] ELSE e
  BY DEF With, Over
<1>4. k = [o \in DOMAIN k |-> k[o]]
  BY DEF With, Over
<1>5. k \in [DOMAIN k -> Employee] /\ DOMAIN k \subseteq Numbers
  BY <1>1, <1>2, <1>3, <1>4
<1> HIDE DEF k
<1>6. k \in EmployeeMaps
  BY <1>5, EmployeeMap
<1> QED BY <1>2, <1>3, <1>6 DEF k

(* A transaction's employees take the place of those of before.            *)
LEMMA MapJoin ==
  ASSUME NEW m \in EmployeeMaps, NEW old \in EmployeeMaps
  PROVE  LET k == Over(m, old) IN
         /\ k \in EmployeeMaps
         /\ DOMAIN k = DOMAIN m \cup DOMAIN old
         /\ \A o \in DOMAIN k : k[o] = IF o \in DOMAIN m THEN m[o] ELSE old[o]
<1> DEFINE k == Over(m, old)
<1>1. /\ DOMAIN m \subseteq Numbers /\ m \in [DOMAIN m -> Employee]
      /\ DOMAIN old \subseteq Numbers /\ old \in [DOMAIN old -> Employee]
  BY EmployeeMap
<1>2. DOMAIN k = DOMAIN m \cup DOMAIN old
  BY DEF Over
<1>3. \A o \in DOMAIN k : k[o] = IF o \in DOMAIN m THEN m[o] ELSE old[o]
  BY DEF Over
<1>4. k = [o \in DOMAIN k |-> k[o]]
  BY DEF Over
<1>5. k \in [DOMAIN k -> Employee] /\ DOMAIN k \subseteq Numbers
  BY <1>1, <1>2, <1>3, <1>4
<1> HIDE DEF k
<1>6. k \in EmployeeMaps
  BY <1>5, EmployeeMap
<1> QED BY <1>2, <1>3, <1>6 DEF k

----------------------------------------------------------------------------
(* An import may rely on what the others leave of what it saw, that is on   *)
(* the rows it has written and on the employees there were.                *)
LEMMA ImportStaysSound ==
  ASSUME NEW s, NEW old, NEW people, NEW was, NEW accounts,
         ImportSound(s, old, was),
         DOMAIN old \subseteq DOMAIN people,
         Transacts(s) =>
            /\ \A n \in DOMAIN s.new : AccountOf(n, people) = AccountOf(n, old)
            /\ s.accounted \cap (accounts \ was) = {}
  PROVE  ImportSound(s, people, accounts)
<1>1. CASE s \in [op : {"idle", "success", "error"}] \/ s \in [op : {"csv", "insert"}, rows : SUBSET CsvRows]
  BY <1>1 DEF ImportSound
<1>2. CASE ~(s \in [op : {"idle", "success", "error"}] \/ s \in [op : {"csv", "insert"}, rows : SUBSET CsvRows])
  <2>1. /\ s \in Confirmed
        /\ MayHold(s.file, s.by)
        /\ s.op # "confirm" => Checked(s.file) /\ s.updates \subseteq DOMAIN old
        /\ s.op \in {"confirm", "resolve"} =>
             s.i = 1 /\ DOMAIN s.read = {} /\ DOMAIN s.new = {}
        /\ s.op # "commit" => s.accounted = {}
        /\ s.accounted \cap was = {}
        /\ Transacts(s) =>
             /\ s.managers \subseteq DOMAIN old
             /\ RowsDone(s) /\ WrittenSound(s, old)
        /\ s.op = "commit" => Provisioned(s)
    BY <1>2 DEF ImportSound
  <2>2. s.op # "confirm" => s.updates \subseteq DOMAIN people
    BY <2>1
  <2>3. s.accounted \cap accounts = {}
    BY <2>1 DEF Transacts
  <2>4. ASSUME Transacts(s)
        PROVE  s.managers \subseteq DOMAIN people
    BY <2>1, <2>4
  <2>5. ASSUME Transacts(s)
        PROVE  WrittenSound(s, people)
    BY <2>1, <2>5 DEF WrittenSound
  <2> QED BY <2>1, <2>2, <2>3, <2>4, <2>5 DEF ImportSound
<1> QED BY <1>1, <1>2

(* A step of the server that only goes on with an import.                  *)
LEMMA ImportGoesOn ==
  ASSUME ImportInv, NEW c \in Imports, NEW s, Becomes(c, s),
         UNCHANGED <<employee, users, dialog>>,
         ImportSound(s, employee, users),
         \A o \in Imports \ {c} : Apart(s, import[o])
  PROVE  ImportInv'
<1>1. DOMAIN import' = Imports /\ import'[c] = s /\ \A o \in Imports \ {c} : import'[o] = import[o]
  BY DEF ImportInv, Becomes
<1>2. \A o \in Imports : ImportSound(import'[o], employee, users)
  BY <1>1 DEF ImportInv
<1>3. \A o \in Imports \ {c} : Apart(import[o], s)
  BY DEF Apart
<1>4. \A o, p \in Imports : o # p => Apart(import'[o], import'[p])
  BY <1>1, <1>3 DEF ImportInv
<1>5. \A d \in Dialogs : WizardSound(d, dialog[d])
  BY DEF ImportInv
<1> QED BY <1>1, <1>2, <1>4, <1>5 DEF ImportInv

(* A step of the wizard that sends nothing to be imported.                 *)
LEMMA WizardGoesOn ==
  ASSUME ImportInv, NEW d \in Dialogs, NEW s, Shows(d, s),
         UNCHANGED <<employee, users, import>>, WizardSound(d, s)
  PROVE  ImportInv'
<1>1. DOMAIN dialog' = Dialogs /\ dialog'[d] = s /\ \A e \in Dialogs \ {d} : dialog'[e] = dialog[e]
  BY DEF ImportInv, Shows
<1>2. \A e \in Dialogs : WizardSound(e, dialog'[e])
  BY <1>1 DEF ImportInv
<1>3. /\ EmployeesSound(employee, users)
      /\ DOMAIN import = Imports
      /\ \A c \in Imports : ImportSound(import[c], employee, users)
      /\ \A c, o \in Imports : c # o => Apart(import[c], import[o])
  BY DEF ImportInv
<1> QED BY <1>1, <1>2, <1>3 DEF ImportInv

(* An answer leaves each dialog with what it shows, or with no preview.    *)
LEMMA AnswerKeepsWizards ==
  ASSUME NEW c \in Imports, NEW status, Answer(c, status),
         \A d \in Dialogs : WizardSound(d, dialog[d])
  PROVE  DOMAIN dialog' = Dialogs /\ \A d \in Dialogs : WizardSound(d, dialog'[d])
<1>1. DOMAIN dialog' = Dialogs
  BY DEF Answer
<1> SUFFICES ASSUME NEW d \in Dialogs PROVE WizardSound(d, dialog'[d])
  BY <1>1
<1>2. PICK s : s = dialog[d]
  OBVIOUS
<1>3. WizardSound(d, s)
  BY <1>2
<1>4. CASE s.waits # c
  <2>1. dialog'[d] = s
    BY <1>2, <1>4 DEF Answer
  <2> QED BY <2>1, <1>3
<1>5. CASE s.waits = c
  <2> DEFINE n == [NoResult EXCEPT !.status = status]
             t == [s EXCEPT !.waits = None, !.result = n,
                            !.step = IF status = "success" THEN @ ELSE 3]
  <2>1. dialog'[d] = t
    BY <1>2, <1>5 DEF Answer
  <2>2. n.count = 0
    BY DEF NoResult
  <2>3. /\ s \in WizardStates(s.result, s.waits)
        /\ s.file # None => MayHold(s.file, d)
    BY <1>3 DEF WizardSound
  <2> HIDE DEF n
  <2>4. /\ t \in WizardStates(t.result, t.waits)
        /\ t.file = s.file /\ t.result = n /\ t.waits = None
    <3>1. PICK r, w : s.result = r /\ s.waits = w
      OBVIOUS
    <3>2. s \in WizardStates(r, w)
      BY <2>3, <3>1
    <3>3. PICK step \in 0 .. 4 : step = IF status = "success" THEN s.step ELSE 3
      BY <3>2 DEF WizardStates
    <3>4. t = [s EXCEPT !.waits = None, !.result = n, !.step = step]
      BY <3>3
    <3>5. [s EXCEPT !.waits = None, !.result = n, !.step = step] \in WizardStates(n, None)
      BY ONLY <3>2, step \in 0 .. 4 DEF WizardStates
    <3>6. t.file = s.file
      BY <3>2 DEF WizardStates
    <3> HIDE DEF t
    <3>7. t.result = n /\ t.waits = None
      BY <3>4, <3>5 DEF WizardStates
    <3> QED BY <3>4, <3>5, <3>6, <3>7
  <2> HIDE DEF t
  <2>5. ~(t.result.count > 0)
    BY <2>2, <2>4
  <2>6. WizardSound(d, t)
    BY <2>3, <2>4, <2>5 DEF WizardSound
  <2> QED BY <2>1, <2>6
<1> QED BY <1>4, <1>5

(* An import that is refused leaves the employees as they were.            *)
LEMMA RefusalKeeps ==
  ASSUME ImportInv, NEW c \in Imports, Refuse(c)
  PROVE  ImportInv'
<1>1. DOMAIN dialog' = Dialogs /\ \A d \in Dialogs : WizardSound(d, dialog'[d])
  BY AnswerKeepsWizards DEF ImportInv, Refuse
<1>2. /\ DOMAIN import' = Imports /\ import'[c] = [op |-> "error"]
      /\ \A o \in Imports \ {c} : import'[o] = import[o]
      /\ employee' = employee /\ users' = users
  BY DEF ImportInv, Refuse, Answer
<1>3. \A o \in Imports : ImportSound(import'[o], employee, users)
  <2>1. [op |-> "error"] \in [op : {"idle", "success", "error"}]
    OBVIOUS
  <2>2. ImportSound(import'[c], employee, users)
    BY <2>1, <1>2 DEF ImportSound
  <2> QED BY <2>2, <1>2 DEF ImportInv
<1>4. ~Transacts([op |-> "error"])
  BY DEF Transacts
<1>5. \A o, p \in Imports : o # p => Apart(import'[o], import'[p])
  BY <1>2, <1>4 DEF ImportInv, Apart
<1>6. EmployeesSound(employee, users)
  BY DEF ImportInv
<1> QED BY <1>1, <1>2, <1>3, <1>5, <1>6 DEF ImportInv

----------------------------------------------------------------------------
(* What the export writes for a user is masked where the user has no right *)
(* to update it, and has one row of each employee.                         *)
LEMMA SequenceOfSet ==
  ASSUME NEW S, IsFiniteSet(S)
  PROVE  /\ SetToSeq(S) \in [1 .. Cardinality(S) -> S]
         /\ \A i, j \in 1 .. Cardinality(S) : i # j => SetToSeq(S)[i] # SetToSeq(S)[j]
<1>1. ExistsBijection(1 .. Cardinality(S), S)
  BY FS_CardinalityType
<1>2. \E f \in [1 .. Cardinality(S) -> S] : IsInjective(f)
  BY <1>1 DEF ExistsBijection, Bijection, Injection
<1>3. SetToSeq(S) \in [1 .. Cardinality(S) -> S] /\ IsInjective(SetToSeq(S))
  BY <1>2, Zenon DEF SetToSeq
<1> QED BY <1>3 DEF IsInjective

LEMMA HiddenText ==
  ASSUME NEW text \in Texts \cup {""}, NEW d \in Dialogs, NEW right
  PROVE  /\ Hide(text, d, right) \in Texts \cup {""}
         /\ text # "" => Hide(text, d, right) \in Texts
         /\ text # "masked" /\ right \in Rights[d] => Hide(text, d, right) # "masked"
BY DEF Hide, Texts

LEMMA ExportMayHold ==
  ASSUME EmployeesSound(employee, users), NEW d \in Dialogs
  PROVE  MayHold(ExportOf(d), d)
<1> DEFINE f == ExportOf(d)
           numbers == SetToSeq(DOMAIN employee)
           size == Cardinality(DOMAIN employee)
           rowOf(n) == [number |-> n, status |-> employee[n].status, email |-> employee[n].email,
                        phone |-> Hide(employee[n].phone, d, "personal"),
                        manager |-> employee[n].manager, valid |-> TRUE]
           sheet == [i \in DOMAIN numbers |-> rowOf(numbers[i])]
           banksOf(n) == {<<n, Hide(b, d, "bank")>> : b \in employee[n].banks}
           bank == UNION {banksOf(n) : n \in DOMAIN employee}
           family == [n \in Numbers |-> IF Known(n) THEN employee[n].family ELSE 0]
<1>1. f = [readable |-> TRUE, rows |-> sheet, family |-> family, bank |-> bank]
  BY DEF ExportOf
<1>2. /\ DOMAIN employee \subseteq Numbers /\ employee \in [DOMAIN employee -> Employee]
      /\ \A n \in DOMAIN employee : Unspoilt(n, employee[n])
  BY EmployeeMap DEF EmployeesSound
<1>3. IsFiniteSet(DOMAIN employee) /\ size \in Nat
  BY <1>2, ImportAssumption, FS_Subset, FS_CardinalityType
<1>4. /\ numbers \in [1 .. size -> DOMAIN employee]
      /\ \A i, j \in 1 .. size : i # j => numbers[i] # numbers[j]
  BY <1>3, SequenceOfSet
<1>5. ASSUME NEW n \in DOMAIN employee
      PROVE  /\ rowOf(n) \in Row
             /\ "personal" \in Rights[d] => rowOf(n).phone # "masked"
  <2>1. employee[n] \in Employee /\ Unspoilt(n, employee[n])
    BY <1>2
  <2>2. /\ employee[n].status \in EmployeeStatuses /\ employee[n].email \in Emails \cup {None}
        /\ employee[n].phone \in Texts \cup {""} /\ employee[n].manager \in Numbers \cup {None}
    BY <2>1 DEF Employee
  <2>3. /\ Hide(employee[n].phone, d, "personal") \in Texts \cup {""}
        /\ "personal" \in Rights[d] => Hide(employee[n].phone, d, "personal") # "masked"
    BY <2>1, <2>2, HiddenText DEF Unspoilt
  <2> QED BY <1>2, <2>2, <2>3 DEF Row
<1>6. ASSUME NEW n \in DOMAIN employee, NEW b \in employee[n].banks
      PROVE  /\ Hide(b, d, "bank") \in Texts
             /\ "bank" \in Rights[d] => Hide(b, d, "bank") # "masked"
  <2>1. b \in Texts /\ b # "masked"
    BY <1>2 DEF Employee, Unspoilt
  <2> QED BY <2>1, HiddenText DEF Texts
<1>7. DOMAIN numbers = 1 .. size
  BY <1>4
<1>8. sheet \in [1 .. size -> Row]
  <2> HIDE DEF rowOf, numbers, size
  <2> QED BY <1>4, <1>5, <1>7
<1>9. sheet \in Seq(Row) /\ DOMAIN sheet = 1 .. size
  <2> HIDE DEF sheet, size
  <2> QED BY <1>3, <1>8
<1>10. family \in [Numbers -> Nat]
  <2>1. ASSUME NEW n \in DOMAIN employee PROVE employee[n].family \in Nat
    BY <1>2 DEF Employee
  <2> QED BY <2>1 DEF Known
<1>11. ASSUME NEW x \in bank
       PROVE  x \in Numbers \X Texts /\ ("bank" \in Rights[d] => x[2] # "masked")
  <2>1. PICK n \in DOMAIN employee : x \in banksOf(n)
    OBVIOUS
  <2>2. PICK b \in employee[n].banks : x = <<n, Hide(b, d, "bank")>>
    BY <2>1
  <2> QED BY <1>2, <1>6, <2>2
<1>12. f \in Workbook
  <2>1. bank \subseteq Numbers \X Texts
    BY <1>11
  <2> HIDE DEF sheet, family, bank, f
  <2> QED BY <1>1, <1>9, <1>10, <2>1 DEF Workbook
<1>13. f.rows = sheet /\ f.bank = bank
  <2> HIDE DEF sheet, family, bank, f
  <2> QED BY <1>1
<1>14. DistinctRows(f.rows)
  <2>1. ASSUME NEW i \in 1 .. size PROVE sheet[i].number = numbers[i]
    BY <1>7
  <2> HIDE DEF sheet, numbers, size, f
  <2> QED BY <1>4, <1>9, <1>13, <2>1 DEF DistinctRows
<1>15. ASSUME "personal" \in Rights[d], NEW i \in DOMAIN f.rows PROVE f.rows[i].phone # "masked"
  <2>1. i \in 1 .. size /\ numbers[i] \in DOMAIN employee /\ sheet[i] = rowOf(numbers[i])
    <3> HIDE DEF f, rowOf
    <3> QED BY <1>4, <1>7, <1>9, <1>13, <1>15
  <2> HIDE DEF sheet, numbers, size, rowOf, f
  <2> QED BY <1>5, <1>13, <1>15, <2>1
<1> HIDE DEF f, sheet, bank
<1> QED BY <1>11, <1>12, <1>13, <1>14, <1>15 DEF MayHold, f

----------------------------------------------------------------------------
(* The wizard.                                                             *)
LEMMA ResetIsSound ==
  ASSUME NEW d \in Dialogs, NEW b \in BOOLEAN, NEW w, NEW s,
         s = [Closed EXCEPT !.open = b, !.waits = w]
  PROVE  WizardSound(d, s)
<1>1. Closed \in WizardStates(NoResult, None) /\ Closed.file = None
  BY DEF Closed, WizardStates
<1>2. s \in WizardStates(NoResult, w) /\ s.file = None
  BY <1>1 DEF WizardStates
<1>3. s.result = NoResult /\ s.waits = w
  BY <1>2 DEF WizardStates
<1>4. ~(NoResult.count > 0)
  BY DEF NoResult
<1> QED BY <1>2, <1>3, <1>4 DEF WizardSound

(* Each step of the wizard keeps what it shows in agreement.               *)
LEMMA WizardStep ==
  ASSUME ImportInv, NEW d \in Dialogs,
         OpenDialog(d) \/ CloseDialog(d) \/ PickFile(d) \/ ChooseSettings(d)
         \/ RunPreview(d) \/ Preview(d) \/ ReUpload(d) \/ LoseAnswer(d)
  PROVE  ImportInv'
<1>1. PICK s : s = dialog[d]
  OBVIOUS
<1>2. PICK r, w : s.result = r /\ s.waits = w
  OBVIOUS
<1>3. /\ WizardSound(d, s) /\ EmployeesSound(employee, users)
      /\ s \in WizardStates(r, w)
  BY <1>1, <1>2 DEF ImportInv, WizardSound
<1>4. /\ s.file \in Workbook \cup {None} /\ s.step \in 0 .. 4 /\ s.accounts \in BOOLEAN
      /\ s.file # None => MayHold(s.file, d)
      /\ s.step \in {0, 1} => ~(r.count > 0)
      /\ s.file # None /\ r.count > 0 => r.of = [file |-> s.file, accounts |-> s.accounts]
      /\ s.file # None /\ w \notin Imports \cup {None} => w = [file |-> s.file, accounts |-> s.accounts]
  BY <1>2, <1>3 DEF WizardSound, WizardStates
<1>5. ~(NoResult.count > 0) /\ ~(Error.count > 0)
  BY DEF NoResult, Error
<1>6. CASE OpenDialog(d)
  <2> DEFINE t == [Closed EXCEPT !.open = TRUE, !.waits = w]
  <2>1. Shows(d, t) /\ UNCHANGED <<employee, users, import>>
    BY <1>1, <1>2, <1>6 DEF OpenDialog
  <2>2. WizardSound(d, t)
    BY ResetIsSound
  <2> QED BY <2>1, <2>2, WizardGoesOn
<1>7. CASE CloseDialog(d)
  <2> DEFINE t == [Closed EXCEPT !.waits = w]
  <2>1. Shows(d, t) /\ UNCHANGED <<employee, users, import>>
    BY <1>1, <1>2, <1>7 DEF CloseDialog
  <2>2. t \in WizardStates(NoResult, w) /\ t.file = None
    <3>1. Closed \in WizardStates(NoResult, None) /\ Closed.file = None
      BY DEF Closed, WizardStates
    <3> QED BY <3>1 DEF WizardStates
  <2> HIDE DEF t
  <2>3. t.result = NoResult /\ t.waits = w
    BY <2>2 DEF WizardStates
  <2>4. WizardSound(d, t)
    BY <2>2, <2>3, <1>5 DEF WizardSound
  <2> QED BY <2>1, <2>4, WizardGoesOn
<1>8. CASE PickFile(d)
  <2>1. PICK f \in Workbooks \cup {ExportOf(d)} : Shows(d, [s EXCEPT !.file = f, !.result = NoResult])
    BY <1>1, <1>8 DEF PickFile
  <2>2. w = None /\ UNCHANGED <<employee, users, import>>
    BY <1>1, <1>2, <1>8 DEF PickFile, Offers, Busy
  <2>3. MayHold(f, d)
    BY <1>3, ExportMayHold, ImportAssumption DEF MayHold
  <2>4. f \in Workbook
    BY <2>3 DEF MayHold
  <2> DEFINE t == [s EXCEPT !.file = f, !.result = NoResult]
  <2>5. t \in WizardStates(NoResult, w)
    BY ONLY <1>3, <2>4 DEF WizardStates
  <2>6. t.file = f
    BY <1>3 DEF WizardStates
  <2> HIDE DEF t
  <2>7. t.result = NoResult /\ t.waits = None
    BY <2>2, <2>5 DEF WizardStates
  <2>8. WizardSound(d, t)
    BY <2>3, <2>5, <2>6, <2>7, <1>5, <2>2 DEF WizardSound
  <2> QED BY <2>1, <2>2, <2>8, WizardGoesOn DEF t
<1>9. CASE ChooseSettings(d)
  <2>1. PICK b \in BOOLEAN : Shows(d, [s EXCEPT !.chosen = TRUE, !.accounts = b])
    BY <1>1, <1>9 DEF ChooseSettings
  <2>2. w = None /\ s.step = 1 /\ UNCHANGED <<employee, users, import>>
    BY <1>1, <1>2, <1>9 DEF ChooseSettings, Offers, Busy
  <2> DEFINE t == [s EXCEPT !.chosen = TRUE, !.accounts = b]
  <2>3. t \in WizardStates(r, w)
    BY ONLY <1>3, b \in BOOLEAN DEF WizardStates
  <2>4. t.file = s.file
    BY <1>3 DEF WizardStates
  <2> HIDE DEF t
  <2>5. t.result = r /\ t.waits = None
    BY <2>2, <2>3 DEF WizardStates
  <2>6. ~(r.count > 0)
    BY <1>4, <2>2
  <2>7. WizardSound(d, t)
    BY <1>4, <2>2, <2>3, <2>4, <2>5, <2>6 DEF WizardSound
  <2> QED BY <2>1, <2>2, <2>7, WizardGoesOn DEF t
<1>10. CASE RunPreview(d)
  <2>1. s.file # None /\ s.step \in {0, 1} /\ UNCHANGED <<employee, users, import>>
    BY <1>1, <1>10 DEF RunPreview, Offers
  <2>2. ~(r.count > 0)
    BY <1>4, <2>1
  <2>3. CASE s.chosen
    <3> DEFINE sent == [file |-> s.file, accounts |-> s.accounts]
               t == [s EXCEPT !.step = 2, !.waits = sent]
    <3>1. Shows(d, t)
      BY <1>1, <1>10, <2>3 DEF RunPreview
    <3> HIDE DEF sent
    <3>2. t \in WizardStates(r, sent)
      BY <1>3, 2 \in 0 .. 4 DEF WizardStates
    <3>3. t.file = s.file /\ t.accounts = s.accounts
      BY <1>3 DEF WizardStates
    <3> HIDE DEF t
    <3>4. t.result = r /\ t.waits = sent
      BY <3>2 DEF WizardStates
    <3>5. WizardSound(d, t)
      BY <1>4, <2>2, <3>2, <3>3, <3>4 DEF WizardSound, sent
    <3> QED BY <2>1, <3>1, <3>5, WizardGoesOn
  <2>4. CASE ~s.chosen
    <3> DEFINE t == [s EXCEPT !.step = 1, !.result = Error]
    <3>1. Shows(d, t)
      BY <1>1, <1>10, <2>4 DEF RunPreview
    <3>2. t \in WizardStates(Error, w)
      BY <1>3, 1 \in 0 .. 4 DEF WizardStates
    <3>3. t.file = s.file /\ t.accounts = s.accounts
      BY <1>3 DEF WizardStates
    <3> HIDE DEF t
    <3>4. t.result = Error /\ t.waits = w
      BY <3>2 DEF WizardStates
    <3>5. WizardSound(d, t)
      BY <1>4, <1>5, <3>2, <3>3, <3>4 DEF WizardSound
    <3> QED BY <2>1, <3>1, <3>5, WizardGoesOn
  <2> QED BY <2>3, <2>4
<1>11. CASE Preview(d)
  <2>1. w \notin Imports \cup {None} /\ UNCHANGED <<employee, users, import>>
    BY <1>1, <1>2, <1>11 DEF Preview, Busy
  <2>2. CASE ~w.file.readable \/ Unauthorized(w.file, d)
    <3> DEFINE t == [s EXCEPT !.waits = None, !.step = 0, !.result = Error]
    <3>1. Shows(d, t)
      BY <1>1, <1>2, <1>11, <2>2 DEF Preview
    <3>2. t \in WizardStates(Error, None)
      BY <1>3, 0 \in 0 .. 4 DEF WizardStates
    <3>3. t.file = s.file
      BY <1>3 DEF WizardStates
    <3> HIDE DEF t
    <3>4. t.result = Error /\ t.waits = None
      BY <3>2 DEF WizardStates
    <3>5. WizardSound(d, t)
      BY <1>4, <1>5, <3>2, <3>3, <3>4 DEF WizardSound
    <3> QED BY <2>1, <3>1, <3>5, WizardGoesOn
  <2>3. CASE ~(~w.file.readable \/ Unauthorized(w.file, d))
    <3> DEFINE shown == [status |-> "preview", errors |-> PreviewErrors(w.file),
                         count |-> Cardinality({i \in DOMAIN w.file.rows : w.file.rows[i].valid}),
                         of |-> w]
               t == [s EXCEPT !.waits = None, !.step = 3, !.result = shown]
    <3>1. Shows(d, t)
      BY <1>1, <1>2, <1>11, <2>3 DEF Preview
    <3>2. shown.of = w
      OBVIOUS
    <3> HIDE DEF shown
    <3>3. t \in WizardStates(shown, None)
      BY <1>3, 3 \in 0 .. 4 DEF WizardStates
    <3>4. t.file = s.file /\ t.accounts = s.accounts /\ t.step = 3
      BY <1>3 DEF WizardStates
    <3> HIDE DEF t
    <3>5. t.result = shown /\ t.waits = None
      BY <3>3 DEF WizardStates
    <3>6. WizardSound(d, t)
      BY <1>4, <2>1, <3>2, <3>3, <3>4, <3>5 DEF WizardSound
    <3> QED BY <2>1, <3>1, <3>6, WizardGoesOn
  <2> QED BY <2>2, <2>3
<1>12. CASE ReUpload(d)
  <2> DEFINE t == [s EXCEPT !.result = NoResult, !.step = 0]
  <2>1. Shows(d, t) /\ UNCHANGED <<employee, users, import>>
    BY <1>1, <1>12 DEF ReUpload
  <2>2. t \in WizardStates(NoResult, w)
    BY <1>3, 0 \in 0 .. 4 DEF WizardStates
  <2>3. t.file = s.file /\ t.accounts = s.accounts
    BY <1>3 DEF WizardStates
  <2> HIDE DEF t
  <2>4. t.result = NoResult /\ t.waits = w
    BY <2>2 DEF WizardStates
  <2>5. WizardSound(d, t)
    BY <1>4, <1>5, <2>2, <2>3, <2>4 DEF WizardSound
  <2> QED BY <2>1, <2>5, WizardGoesOn
<1>13. CASE LoseAnswer(d)
  <2>1. CASE Shows(d, [s EXCEPT !.waits = None, !.step = 0, !.result = Error])
    <3> DEFINE t == [s EXCEPT !.waits = None, !.step = 0, !.result = Error]
    <3>1. t \in WizardStates(Error, None)
      BY <1>3, 0 \in 0 .. 4 DEF WizardStates
    <3>2. t.file = s.file
      BY <1>3 DEF WizardStates
    <3> HIDE DEF t
    <3>3. t.result = Error /\ t.waits = None
      BY <3>1 DEF WizardStates
    <3>4. WizardSound(d, t)
      BY <1>4, <1>5, <3>1, <3>2, <3>3 DEF WizardSound
    <3>5. UNCHANGED <<employee, users, import>>
      BY <1>13 DEF LoseAnswer
    <3> QED BY <2>1, <3>4, <3>5, WizardGoesOn DEF t
  <2>2. CASE Shows(d, Closed)
    <3>1. Closed \in WizardStates(NoResult, None) /\ Closed.file = None
      BY DEF Closed, WizardStates
    <3>2. Closed.result = NoResult /\ Closed.waits = None
      BY DEF Closed
    <3>3. WizardSound(d, Closed)
      BY <1>5, <3>1, <3>2 DEF WizardSound
    <3>4. UNCHANGED <<employee, users, import>>
      BY <1>13 DEF LoseAnswer
    <3> QED BY <2>2, <3>3, <3>4, WizardGoesOn
  <2> QED BY <1>1, <1>13, <2>1, <2>2 DEF LoseAnswer
<1> QED BY <1>6, <1>7, <1>8, <1>9, <1>10, <1>11, <1>12, <1>13

----------------------------------------------------------------------------
(* The import, until its rows are written.                                 *)
LEMMA ConfirmedState ==
  ASSUME NEW s, NEW people, NEW accounts, ImportSound(s, people, accounts),
         s.op \notin {"idle", "success", "error", "csv", "insert"}
  PROVE  /\ s \in Confirmed
         /\ MayHold(s.file, s.by)
         /\ s.op # "confirm" => Checked(s.file) /\ s.updates \subseteq DOMAIN people
         /\ s.op \in {"confirm", "resolve"} =>
              s.i = 1 /\ DOMAIN s.read = {} /\ DOMAIN s.new = {}
         /\ s.op # "commit" => s.accounted = {}
         /\ s.accounted \cap accounts = {}
         /\ Transacts(s) =>
              /\ s.managers \subseteq DOMAIN people
              /\ RowsDone(s) /\ WrittenSound(s, people)
         /\ s.op = "commit" => Provisioned(s)
BY DEF ImportSound

LEMMA SentIsSound ==
  ASSUME NEW d \in Dialogs, NEW f, MayHold(f, d), NEW b \in BOOLEAN, NEW people, NEW accounts
  PROVE  ImportSound(Sent(d, f, b), people, accounts) /\ Sent(d, f, b).op = "confirm"
<1>1. <<>> \in EmployeeMaps /\ DOMAIN <<>> = {}
  <2>1. DOMAIN <<>> = {} /\ <<>> \in [{} -> Employee]
    OBVIOUS
  <2> QED BY <2>1, EmployeeMap
<1>2. f \in Workbook
  BY DEF MayHold
<1>3. Sent(d, f, b) \in Confirmed
  BY <1>1, <1>2 DEF Sent, Confirmed
<1>4. /\ Sent(d, f, b).op = "confirm" /\ Sent(d, f, b).file = f /\ Sent(d, f, b).by = d
      /\ Sent(d, f, b).i = 1 /\ Sent(d, f, b).read = <<>> /\ Sent(d, f, b).new = <<>>
      /\ Sent(d, f, b).accounted = {}
  BY DEF Sent
<1> QED BY <1>1, <1>3, <1>4 DEF ImportSound, Transacts

LEMMA ConfirmStep ==
  ASSUME ImportInv, NEW d \in Dialogs, NEW c \in Imports, RunConfirm(d, c)
  PROVE  /\ ImportInv'
         /\ dialog[d].result.errors = {}
         /\ dialog[d].result.of = [file |-> dialog[d].file, accounts |-> dialog[d].accounts]
         /\ import'[c].by = d /\ import'[c].file = dialog[d].file
         /\ import'[c].accounts = dialog[d].accounts
<1>1. PICK s : s = dialog[d]
  OBVIOUS
<1>2. WizardSound(d, s) /\ s.file # None /\ s.result.errors = {} /\ s.result.count > 0 /\ s.step = 3
  BY <1>1 DEF RunConfirm, ImportInv, Offers
<1>3. MayHold(s.file, d) /\ s.result.of = [file |-> s.file, accounts |-> s.accounts]
  BY <1>2 DEF WizardSound
<1>4. PICK r, w : s.result = r /\ s.waits = w
  OBVIOUS
<1>5. s \in WizardStates(r, w) /\ s.accounts \in BOOLEAN
  BY <1>2, <1>4 DEF WizardSound, WizardStates
<1> DEFINE t == [s EXCEPT !.step = 4, !.waits = c]
           sent == Sent(d, s.file, s.accounts)
<1>6. Shows(d, t) /\ import' = [import EXCEPT ![c] = sent] /\ UNCHANGED <<employee, users>>
  BY <1>1 DEF RunConfirm
<1>7. t \in WizardStates(r, c)
  BY <1>5, 4 \in 0 .. 4 DEF WizardStates
<1>8. t.file = s.file /\ t.accounts = s.accounts /\ t.step = 4
  BY <1>5 DEF WizardStates
<1>9. ImportSound(sent, employee, users) /\ sent.op = "confirm"
  BY <1>3, <1>5, SentIsSound
<1>10. sent.by = d /\ sent.file = s.file /\ sent.accounts = s.accounts
  BY DEF Sent
<1> HIDE DEF t, sent
<1>11. t.result = r /\ t.waits = c
  BY <1>7 DEF WizardStates
<1>12. WizardSound(d, t)
  BY <1>3, <1>4, <1>7, <1>8, <1>11 DEF WizardSound
<1>13. DOMAIN dialog' = Dialogs /\ \A e \in Dialogs : WizardSound(e, dialog'[e])
  BY <1>6, <1>12 DEF Shows, ImportInv
<1>14. DOMAIN import' = Imports /\ import'[c] = sent /\ \A o \in Imports \ {c} : import'[o] = import[o]
  BY <1>6 DEF ImportInv
<1>15. \A o \in Imports : ImportSound(import'[o], employee, users)
  BY <1>9, <1>14 DEF ImportInv
<1>16. \A o, p \in Imports : o # p => Apart(import'[o], import'[p])
  BY <1>9, <1>14 DEF ImportInv, Apart, Transacts
<1>17. ImportInv'
  BY <1>6, <1>13, <1>14, <1>15, <1>16 DEF ImportInv
<1> QED BY <1>1, <1>2, <1>3, <1>10, <1>14, <1>17

(* A file without a finding and whose user may update what it fills in has *)
(* valid rows and no mask.                                                 *)
LEMMA AnalyzedIsChecked ==
  ASSUME NEW f, NEW d \in Dialogs, MayHold(f, d), PreviewErrors(f) = {}, ~Unauthorized(f, d)
  PROVE  Checked(f)
<1>1. f.rows \in Seq(Row)
  BY DEF MayHold, Workbook
<1>2. InvalidRows(f) = {}
  BY DEF PreviewErrors
<1>3. ASSUME NEW i \in DOMAIN f.rows
      PROVE  f.rows[i].valid /\ f.rows[i].phone # "masked"
  <2>1. f.rows[i] \in ToSet(f.rows)
    BY DEF ToSet
  <2>2. f.rows[i].valid
    BY <1>2, <2>1 DEF InvalidRows
  <2>3. f.rows[i].phone # "" => "personal" \in Rights[d]
    BY <2>1 DEF Unauthorized
  <2> QED BY <2>2, <2>3 DEF MayHold
<1>4. ASSUME NEW b \in f.bank PROVE b[2] # "masked"
  <2>1. "bank" \in Rights[d]
    BY DEF Unauthorized
  <2> QED BY <2>1 DEF MayHold
<1> QED BY <1>3, <1>4 DEF Checked

LEMMA AnalyzeStep ==
  ASSUME ImportInv, NEW c \in Imports, ConfirmImport(c)
  PROVE  ImportInv'
<1>1. PICK s : s = import[c]
  OBVIOUS
<1>2. s.op = "confirm" /\ ImportSound(s, employee, users)
  BY <1>1 DEF ConfirmImport, Running, ImportInv
<1>3. /\ s \in Confirmed /\ MayHold(s.file, s.by)
      /\ s.i = 1 /\ DOMAIN s.read = {} /\ DOMAIN s.new = {} /\ s.accounted = {}
  BY <1>2, ConfirmedState
<1>4. s.by \in Dialogs
  BY <1>3 DEF Confirmed
<1>5. CASE Refuse(c)
  BY <1>5, RefusalKeeps
<1>6. CASE ~Refuse(c)
  <2> DEFINE updates == NumbersOf(s.file.rows) \cap DOMAIN employee
             t == [s EXCEPT !.op = "resolve", !.updates = updates]
  <2>1. /\ PreviewErrors(s.file) = {} /\ ~Unauthorized(s.file, s.by)
        /\ Becomes(c, t) /\ UNCHANGED <<employee, users, dialog>>
    BY <1>1, <1>6 DEF ConfirmImport
  <2>2. Checked(s.file)
    BY <1>3, <1>4, <2>1, AnalyzedIsChecked
  <2>3. DOMAIN employee \subseteq Numbers
    BY EmployeeMap DEF ImportInv, EmployeesSound
  <2>4. updates \subseteq Numbers /\ updates \subseteq DOMAIN employee
    BY <2>3
  <2> HIDE DEF updates
  <2>5. t \in Confirmed
    BY <1>3, <2>4 DEF Confirmed
  <2>6. /\ t.op = "resolve" /\ t.file = s.file /\ t.by = s.by /\ t.updates = updates
        /\ t.i = s.i /\ t.read = s.read /\ t.new = s.new /\ t.accounted = s.accounted
    BY <1>3 DEF Confirmed
  <2> HIDE DEF t
  <2>7. ImportSound(t, employee, users) /\ ~Transacts(t)
    BY <1>3, <2>2, <2>4, <2>5, <2>6 DEF ImportSound, Transacts
  <2> QED BY <2>1, <2>7, ImportGoesOn DEF Apart
<1> QED BY <1>5, <1>6

LEMMA ResolveStep ==
  ASSUME ImportInv, NEW c \in Imports, ResolveManagers(c)
  PROVE  ImportInv'
<1>1. PICK s : s = import[c]
  OBVIOUS
<1>2. s.op = "resolve" /\ ImportSound(s, employee, users)
  BY <1>1 DEF ResolveManagers, Running, ImportInv
<1>3. /\ s \in Confirmed /\ MayHold(s.file, s.by) /\ Checked(s.file) /\ s.updates \subseteq DOMAIN employee
      /\ s.i = 1 /\ DOMAIN s.read = {} /\ DOMAIN s.new = {} /\ s.accounted = {}
  BY <1>2, ConfirmedState
<1> DEFINE t == [s EXCEPT !.op = "read", !.managers = DOMAIN employee]
<1>4. Becomes(c, t) /\ UNCHANGED <<employee, users, dialog>>
  BY <1>1 DEF ResolveManagers
<1>5. DOMAIN employee \subseteq Numbers
  BY EmployeeMap DEF ImportInv, EmployeesSound
<1>6. t \in Confirmed
  BY <1>3, <1>5 DEF Confirmed
<1>7. /\ t.op = "read" /\ t.file = s.file /\ t.by = s.by /\ t.updates = s.updates
      /\ t.managers = DOMAIN employee
      /\ t.i = s.i /\ t.read = s.read /\ t.new = s.new /\ t.accounted = s.accounted
  BY <1>3 DEF Confirmed
<1> HIDE DEF t
<1>8. RowsDone(t)
  <2>1. t.file.rows \in Seq(Row)
    BY <1>3, <1>7 DEF MayHold, Workbook
  <2> QED BY <1>3, <1>7, <2>1 DEF RowsDone
<1>9. WrittenSound(t, employee)
  BY <1>3, <1>7 DEF WrittenSound
<1>10. ImportSound(t, employee, users)
  BY <1>3, <1>6, <1>7, <1>8, <1>9 DEF ImportSound
<1>11. \A o \in Imports \ {c} : Apart(t, import[o])
  BY <1>3, <1>7 DEF Apart
<1> QED BY <1>4, <1>10, <1>11, ImportGoesOn

(* What a transaction knows while it has rows left.                        *)
LEMMA AtARow ==
  ASSUME ImportInv, NEW c \in Imports, NEW s, s = import[c], s.op \in {"read", "write"}
  PROVE  /\ s \in Confirmed /\ MayHold(s.file, s.by) /\ Checked(s.file)
         /\ s.updates \subseteq DOMAIN employee /\ s.managers \subseteq DOMAIN employee
         /\ s.accounted = {}
         /\ RowsDone(s) /\ WrittenSound(s, employee)
         /\ s.file.rows \in Seq(Row) /\ s.i \in Nat \ {0}
         /\ s.read \in EmployeeMaps /\ s.new \in EmployeeMaps
         /\ \A o \in Imports \ {c} : Apart(s, import[o])
<1>1. ImportSound(s, employee, users)
  BY DEF ImportInv
<1>2. Transacts(s)
  BY DEF Transacts
<1>3. /\ s \in Confirmed /\ MayHold(s.file, s.by) /\ Checked(s.file)
      /\ s.updates \subseteq DOMAIN employee /\ s.managers \subseteq DOMAIN employee
      /\ s.accounted = {}
      /\ RowsDone(s) /\ WrittenSound(s, employee)
  BY <1>1, <1>2, ConfirmedState
<1>4. s.file.rows \in Seq(Row)
  BY <1>3 DEF MayHold, Workbook
<1>5. s.i \in Nat \ {0} /\ s.read \in EmployeeMaps /\ s.new \in EmployeeMaps
  BY <1>3 DEF Confirmed
<1>6. \A o \in Imports \ {c} : Apart(s, import[o])
  BY DEF ImportInv
<1> QED BY <1>3, <1>4, <1>5, <1>6

LEMMA NewEmployeeIsOne ==
  /\ NewEmployee \in Employee /\ NewEmployee.account = None /\ NewEmployee.manager = None
  /\ \A n : Unspoilt(n, NewEmployee)
<1>1. /\ NewEmployee.account = None /\ NewEmployee.manager = None /\ NewEmployee.family = 0
      /\ NewEmployee.phone = "" /\ NewEmployee.banks = {}
  BY DEF NewEmployee
<1>2. NewEmployee \in Employee
  BY DEF NewEmployee, Employee, EmployeeStatuses, Texts
<1>3. ASSUME NEW n PROVE Unspoilt(n, NewEmployee)
  <2>1. ~(0 > 1)
    OBVIOUS
  <2> QED BY <1>1, <2>1 DEF Unspoilt
<1> QED BY <1>1, <1>2, <1>3

LEMMA ReadStep ==
  ASSUME ImportInv, NEW c \in Imports, ReadRow(c)
  PROVE  ImportInv'
<1>1. PICK s : s = import[c]
  OBVIOUS
<1>2. s.op = "read" /\ s.i <= Len(s.file.rows)
  BY <1>1 DEF ReadRow, Running
<1>3. /\ s \in Confirmed /\ MayHold(s.file, s.by) /\ Checked(s.file)
      /\ s.updates \subseteq DOMAIN employee /\ s.managers \subseteq DOMAIN employee
      /\ s.accounted = {}
      /\ RowsDone(s) /\ WrittenSound(s, employee)
      /\ s.file.rows \in Seq(Row) /\ s.i \in Nat \ {0}
      /\ s.read \in EmployeeMaps /\ s.new \in EmployeeMaps
      /\ \A o \in Imports \ {c} : Apart(s, import[o])
  BY <1>1, <1>2, AtARow
<1>4. PICK r \in Row : r = s.file.rows[s.i]
  BY <1>2, <1>3
<1>5. r = CurrentRow(c) /\ r.number \in Numbers
  BY <1>1, <1>4 DEF CurrentRow, Row
<1>6. CASE Refuse(c)
  BY <1>6, RefusalKeeps
<1>7. CASE ~Refuse(c)
  <2>1. PICK e : e = IF r.number \in s.updates THEN employee[r.number] ELSE NewEmployee
    OBVIOUS
  <2> DEFINE t == [s EXCEPT !.op = "write", !.read = With(@, r.number, e)]
  <2>2. /\ r.manager # None => r.manager \in s.managers
        /\ Becomes(c, t) /\ UNCHANGED <<employee, users, dialog>>
    BY <1>1, <1>5, <1>7, <2>1 DEF ReadRow
  <2>3. e \in Employee
    <3>1. employee \in [DOMAIN employee -> Employee]
      BY EmployeeMap DEF ImportInv, EmployeesSound
    <3>2. CASE r.number \in s.updates
      BY <1>3, <2>1, <3>1, <3>2
    <3>3. CASE r.number \notin s.updates
      BY <2>1, <3>3, NewEmployeeIsOne
    <3> QED BY <3>2, <3>3
  <2>4. PICK k : k = With(s.read, r.number, e)
    OBVIOUS
  <2>5. /\ k \in EmployeeMaps /\ DOMAIN k = DOMAIN s.read \cup {r.number}
        /\ \A o \in DOMAIN k : k[o] = IF o \in DOMAIN s.read THEN s.read[o] ELSE e
    <3>1. PICK m \in EmployeeMaps : m = s.read
      BY <1>3
    <3>2. k = With(m, r.number, e)
      BY <2>4, <3>1
    <3> HIDE DEF t
    <3>3. PICK number \in Numbers : number = r.number
      BY <1>5
    <3>4. PICK one \in Employee : one = e
      BY <2>3
    <3>5. /\ With(m, number, one) \in EmployeeMaps
          /\ DOMAIN With(m, number, one) = DOMAIN m \cup {number}
          /\ \A o \in DOMAIN With(m, number, one) :
                With(m, number, one)[o] = IF o \in DOMAIN m THEN m[o] ELSE one
      BY MapWithOne, Zenon
    <3> QED BY <3>1, <3>2, <3>3, <3>4, <3>5
  <2>6. t = [s EXCEPT !.op = "write", !.read = k]
    BY <2>4
  <2>7. t \in Confirmed
    <3> HIDE DEF t
    <3> QED BY <1>3, <2>5, <2>6 DEF Confirmed
  <2>8. /\ t.op = "write" /\ t.file = s.file /\ t.by = s.by /\ t.updates = s.updates
        /\ t.managers = s.managers
        /\ t.i = s.i /\ t.read = k /\ t.new = s.new /\ t.accounted = s.accounted
    <3> HIDE DEF t
    <3> QED BY <1>3, <2>6 DEF Confirmed
  <2> HIDE DEF t
  <2>9. RowsDone(t)
    BY <1>2, <1>3, <1>4, <2>2, <2>5, <2>8 DEF RowsDone
  <2>11. WrittenSound(t, employee)
    BY <1>3, <1>2, <2>8 DEF WrittenSound
  <2>12. ImportSound(t, employee, users)
    BY <1>3, <2>7, <2>8, <2>9, <2>11 DEF ImportSound
  <2>13. \A o \in Imports \ {c} : Apart(t, import[o])
    BY <1>2, <1>3, <2>8 DEF Apart, Transacts
  <2> QED BY <2>2, <2>12, <2>13, ImportGoesOn
<1> QED BY <1>6, <1>7

(* What a row makes of an employee.                                        *)
LEMMA PatchedEmployee ==
  ASSUME NEW f \in Workbook, NEW r \in Row, NEW n \in Numbers, n = r.number, Checked(f), r.phone # "masked",
         NEW old \in Employee, Unspoilt(n, old), old.family > 1 => ~(f.family[n] > 0),
         NEW latest \in EmployeeStatuses \cup {"none"}
  PROVE  LET e == Patch(old, r, latest, f) IN
         /\ e \in Employee /\ Unspoilt(n, e) /\ e.account = old.account
         /\ e.manager \in {old.manager, r.manager}
<1>1. /\ r.status \in EmployeeStatuses \cup {""} /\ r.email \in Emails \cup {None}
      /\ r.phone \in Texts \cup {""} /\ r.manager \in Numbers \cup {None}
  BY DEF Row
<1> DEFINE e == Patch(old, r, latest, f)
<1>2. PICK status, recorded, email, phone, manager :
        /\ status = IF r.status # "" THEN r.status ELSE old.status
        /\ recorded = IF r.status # "" THEN r.status ELSE latest
        /\ email = IF r.email # None THEN r.email ELSE old.email
        /\ phone = IF r.phone # "" THEN r.phone ELSE old.phone
        /\ manager = IF r.manager # None THEN r.manager ELSE old.manager
  OBVIOUS
<1>3. /\ old.status \in EmployeeStatuses /\ old.recorded \in EmployeeStatuses \cup {"none"}
      /\ old.email \in Emails \cup {None} /\ old.phone \in Texts \cup {""}
      /\ old.manager \in Numbers \cup {None} /\ old.family \in Nat /\ old.banks \in SUBSET Texts
  BY DEF Employee
<1>4. /\ status \in EmployeeStatuses /\ recorded \in EmployeeStatuses \cup {"none"}
      /\ email \in Emails \cup {None} /\ phone \in Texts \cup {""}
      /\ manager \in Numbers \cup {None}
  BY <1>1, <1>2, <1>3
<1>8. PICK family \in Nat : /\ family = MergeFamily(n, f, old.family)
                            /\ family > 1 => family = old.family
  <2>1. f.family[n] \in Nat
    BY DEF Workbook
  <2> DEFINE g == MergeFamily(n, f, old.family)
  <2>2. g \in Nat /\ (g > 1 => g = old.family)
    <3>1. PICK count \in Nat : count = old.family
      BY <1>3
    <3>2. g = IF f.family[n] > 0 /\ count = 0 THEN 1 ELSE count
      BY <3>1 DEF MergeFamily
    <3>3. g = 1 \/ g = count
      BY <3>2
    <3> HIDE DEF g
    <3> QED BY <3>1, <3>3
  <2> HIDE DEF g
  <2> QED BY <2>2 DEF g
<1>9. PICK added \in SUBSET Texts : /\ added = {b[2] : b \in {b \in f.bank : b[1] = n}}
                                    /\ "masked" \notin added
  <2>1. f.bank \subseteq Numbers \X Texts
    BY DEF Workbook
  <2>2. \A b \in f.bank : b[2] \in Texts /\ b[2] # "masked"
    BY <2>1 DEF Checked
  <2> DEFINE g == {b[2] : b \in {b \in f.bank : b[1] = n}}
  <2>3. g \subseteq Texts /\ "masked" \notin g
    BY <2>2
  <2> HIDE DEF g
  <2> QED BY <2>3 DEF g
<1>10. PICK banks \in SUBSET Texts : banks = old.banks \cup added
  BY <1>3
<1>11. e = [old EXCEPT !.status = status, !.recorded = recorded, !.email = email,
                       !.phone = phone, !.manager = manager, !.family = family,
                       !.banks = banks]
  BY <1>2, <1>8, <1>9, <1>10 DEF Patch
<1> HIDE DEF e
<1>12. e \in Employee
  BY <1>4, <1>11 DEF Employee
<1>13. /\ e.family = family /\ e.banks = banks /\ e.phone = phone
       /\ e.account = old.account /\ e.manager = manager
  BY <1>11 DEF Employee
<1>14. Unspoilt(n, e)
  BY <1>2, <1>8, <1>9, <1>10, <1>13 DEF Unspoilt
<1> QED BY <1>2, <1>12, <1>13, <1>14 DEF e

LEMMA WriteStep ==
  ASSUME ImportInv, NEW c \in Imports, WriteRow(c)
  PROVE  ImportInv'
<1>1. PICK s : s = import[c]
  OBVIOUS
<1>2. s.op = "write"
  BY <1>1 DEF WriteRow, Running
<1>3. /\ s \in Confirmed /\ MayHold(s.file, s.by) /\ Checked(s.file)
      /\ s.updates \subseteq DOMAIN employee /\ s.managers \subseteq DOMAIN employee
      /\ s.accounted = {}
      /\ RowsDone(s) /\ WrittenSound(s, employee)
      /\ s.file.rows \in Seq(Row) /\ s.i \in Nat \ {0}
      /\ s.read \in EmployeeMaps /\ s.new \in EmployeeMaps
      /\ \A o \in Imports \ {c} : Apart(s, import[o])
  BY <1>1, <1>2, AtARow
<1>4. s.i <= Len(s.file.rows)
  BY <1>2, <1>3 DEF RowsDone
<1>5. PICK r \in Row : r = s.file.rows[s.i]
  BY <1>3, <1>4
<1>6. PICK n \in Numbers : n = r.number
  BY DEF Row
<1>7. /\ n \in DOMAIN s.read /\ r.manager \in s.managers \cup {None}
      /\ r.phone # "masked"
  BY <1>2, <1>3, <1>4, <1>5, <1>6 DEF RowsDone, Checked
<1>8. CurrentRow(c) = r
  BY <1>1, <1>5 DEF CurrentRow
<1>9. CASE Refuse(c)
  BY <1>9, RefusalKeeps
<1>10. CASE ~Refuse(c)
  <2> DEFINE create == n \notin s.updates
  <2>2. PICK old : old = IF create THEN NewEmployee ELSE employee[n]
    OBVIOUS
  <2>3. PICK latest : latest = IF create \/ r.manager # None THEN s.read[n].status ELSE old.recorded
    OBVIOUS
  <2>4. PICK e : e = Patch(old, r, latest, s.file)
    OBVIOUS
  <2> DEFINE t == [s EXCEPT !.op = "read", !.i = @ + 1, !.new = With(@, n, e)]
  <2>5. /\ ~(create /\ Known(n)) /\ ~(old.family > 1 /\ s.file.family[n] > 0)
        /\ Becomes(c, t) /\ UNCHANGED <<employee, users, dialog>>
    BY <1>1, <1>6, <1>8, <1>10, <2>2, <2>3, <2>4 DEF WriteRow
  <2>6. ~Locked(n, c)
    BY <1>6, <1>8 DEF WriteRow
  <2>7. /\ old \in Employee /\ Unspoilt(n, old) /\ old.account = AccountOf(n, employee)
        /\ old.manager \in DOMAIN employee \cup {None}
    <3>1. CASE create
      BY <2>2, <2>5, <3>1, NewEmployeeIsOne DEF Known, AccountOf
    <3>2. CASE ~create
      <4>1. old = employee[n] /\ n \in DOMAIN employee
        BY <1>3, <2>2, <3>2
      <4> QED BY <4>1, EmployeeMap DEF ImportInv, EmployeesSound, AccountOf
    <3> QED BY <3>1, <3>2
  <2>8. latest \in EmployeeStatuses \cup {"none"}
    <3>1. s.read[n] \in Employee
      BY <1>3, <1>7, EmployeeMap
    <3> QED BY <2>3, <2>7, <3>1 DEF Employee
  <2>9. /\ e \in Employee /\ Unspoilt(n, e) /\ e.account = old.account
        /\ e.manager \in {old.manager, r.manager}
    <3>1. PICK f \in Workbook : f = s.file
      BY <1>3 DEF MayHold
    <3>2. Checked(f) /\ (old.family > 1 => ~(f.family[n] > 0))
      BY <1>3, <2>5, <3>1
    <3> HIDE DEF t
    <3>3. LET p == Patch(old, r, latest, f) IN
          /\ p \in Employee /\ Unspoilt(n, p) /\ p.account = old.account
          /\ p.manager \in {old.manager, r.manager}
      BY <1>6, <1>7, <2>7, <2>8, <3>2, PatchedEmployee
    <3> QED BY <2>4, <3>1, <3>3
  <2>10. e.manager \in DOMAIN employee \cup {None}
    BY <1>3, <1>7, <2>7, <2>9
  <2>11. PICK k : /\ k = With(s.new, n, e)
                  /\ k \in EmployeeMaps /\ DOMAIN k = DOMAIN s.new \cup {n}
                  /\ \A o \in DOMAIN k : k[o] = IF o \in DOMAIN s.new THEN s.new[o] ELSE e
    <3>1. PICK m \in EmployeeMaps : m = s.new
      BY <1>3
    <3>2. PICK one \in Employee : one = e
      BY <2>9
    <3>3. /\ With(m, n, one) \in EmployeeMaps
          /\ DOMAIN With(m, n, one) = DOMAIN m \cup {n}
          /\ \A o \in DOMAIN With(m, n, one) :
                With(m, n, one)[o] = IF o \in DOMAIN m THEN m[o] ELSE one
      BY MapWithOne, Zenon
    <3> QED BY <3>1, <3>2, <3>3
  <2>12. PICK j \in Nat \ {0} : j = s.i + 1
    BY <1>3
  <2>13. t = [s EXCEPT !.op = "read", !.i = j, !.new = k]
    BY <2>11, <2>12
  <2> HIDE DEF t
  <2>14. t \in Confirmed
    BY <1>3, <2>11, <2>12, <2>13 DEF Confirmed
  <2>15. /\ t.op = "read" /\ t.file = s.file /\ t.by = s.by /\ t.updates = s.updates
         /\ t.managers = s.managers
         /\ t.i = j /\ t.read = s.read /\ t.new = k /\ t.accounted = s.accounted
    BY <1>3, <2>13 DEF Confirmed
  <2>16. RowsDone(t)
    <3>1. ASSUME NEW h \in DOMAIN s.file.rows, h < j
          PROVE  s.file.rows[h].number \in DOMAIN s.read \cap DOMAIN k
      <4>1. h \in Nat
        BY <1>3
      <4>2. CASE h < s.i
        BY <1>3, <2>11, <4>2 DEF RowsDone
      <4>3. CASE h = s.i
        BY <1>5, <1>6, <1>7, <2>11, <4>3
      <4> QED BY <1>3, <2>12, <3>1, <4>1, <4>2, <4>3
    <3> QED BY <2>15, <3>1 DEF RowsDone
  <2>18. WrittenSound(t, employee)
    <3>1. ASSUME NEW o \in DOMAIN k
          PROVE  Unspoilt(o, k[o]) /\ k[o].manager \in DOMAIN employee \cup {None}
                 /\ k[o].account = AccountOf(o, employee)
      <4>1. CASE o \in DOMAIN s.new
        BY <1>2, <1>3, <2>11, <4>1 DEF WrittenSound
      <4>2. CASE o \notin DOMAIN s.new
        BY <2>7, <2>9, <2>10, <2>11, <4>2
      <4> QED BY <4>1, <4>2
    <3> QED BY <1>3, <2>15, <3>1 DEF WrittenSound
  <2>19. ImportSound(t, employee, users)
    BY <1>3, <2>14, <2>15, <2>16, <2>18 DEF ImportSound
  <2>20. ASSUME NEW o \in Imports \ {c} PROVE Apart(t, import[o])
    <3>1. Transacts(import[o]) => n \notin DOMAIN import[o].new
      BY <2>6 DEF Locked, InTransaction, Transacts
    <3>2. Apart(s, import[o])
      BY <1>3
    <3> QED BY <1>2, <1>3, <2>11, <2>15, <3>1, <3>2 DEF Apart, Transacts
  <2> QED BY <2>5, <2>19, <2>20, ImportGoesOn
<1> QED BY <1>9, <1>10

----------------------------------------------------------------------------
(* The accounts that the transaction inserts.                              *)
LEMMA DistinctWhenEnough ==
  ASSUME NEW S, IsFiniteSet(S), NEW f, DOMAIN f = S, NEW T, T = {f[x] : x \in S},
         ~(Cardinality(T) < Cardinality(S))
  PROVE  \A x, y \in S : x # y => f[x] # f[y]
<1> DEFINE g == [x \in S |-> f[x]]
<1>1. g \in Surjection(S, T)
  BY DEF Surjection
<1>2. Cardinality(T) = Cardinality(S)
  <2>1. IsFiniteSet(T) /\ Cardinality(T) <= Cardinality(S)
    BY <1>1, FS_Surjection
  <2>2. Cardinality(T) \in Nat /\ Cardinality(S) \in Nat
    BY <2>1, FS_CardinalityType
  <2> QED BY <2>1, <2>2
<1>3. g \in Injection(S, T)
  BY <1>1, <1>2, FS_SurjSameCardinalityImpliesInj
<1> QED BY <1>3 DEF Injection, IsInjective

LEMMA RowsOfAFile ==
  ASSUME NEW f, NEW d, MayHold(f, d), Checked(f)
  PROVE  /\ \A r \in ToSet(f.rows) : r \in Row /\ \E i \in DOMAIN f.rows : r = f.rows[i]
         /\ \A i \in DOMAIN f.rows : f.rows[i] \in ToSet(f.rows)
         /\ \A r, q \in ToSet(f.rows) : r.number = q.number => r = q
<1>1. f.rows \in Seq(Row) /\ DistinctRows(f.rows)
  BY DEF MayHold, Workbook
<1>2. \A r \in ToSet(f.rows) : r \in Row /\ \E i \in DOMAIN f.rows : r = f.rows[i]
  BY <1>1 DEF ToSet
<1>3. \A i \in DOMAIN f.rows : f.rows[i] \in ToSet(f.rows)
  BY DEF ToSet
<1>4. ASSUME NEW r \in ToSet(f.rows), NEW q \in ToSet(f.rows), r.number = q.number
      PROVE  r = q
  <2>1. PICK i, j \in DOMAIN f.rows : r = f.rows[i] /\ q = f.rows[j]
    BY <1>2
  <2>2. f.rows[i].valid /\ f.rows[j].valid
    BY DEF Checked
  <2> QED BY <1>1, <1>4, <2>1, <2>2 DEF DistinctRows
<1> QED BY <1>2, <1>3, <1>4

LEMMA ProvisionStep ==
  ASSUME ImportInv, NEW c \in Imports, Provision(c)
  PROVE  ImportInv'
<1> DEFINE s == import[c]
<1>1. s = import[c]
  OBVIOUS
<1>2. s.op = "read" /\ s.i > Len(s.file.rows)
  BY <1>1 DEF Provision, Running
<1>3. /\ s \in Confirmed /\ MayHold(s.file, s.by) /\ Checked(s.file)
      /\ s.updates \subseteq DOMAIN employee /\ s.managers \subseteq DOMAIN employee
      /\ s.accounted = {}
      /\ RowsDone(s) /\ WrittenSound(s, employee)
      /\ s.file.rows \in Seq(Row) /\ s.i \in Nat \ {0}
      /\ s.read \in EmployeeMaps /\ s.new \in EmployeeMaps
      /\ \A o \in Imports \ {c} : Apart(s, import[o])
  BY <1>1, <1>2, AtARow
<1>4. CASE Refuse(c)
  BY <1>4, RefusalKeeps
<1>5. CASE ~Refuse(c)
  <2> DEFINE sheet == ToSet(s.file.rows)
             emailOf(n) == Effective(c, CHOOSE r \in sheet : r.number = n).email
             needing == {r.number : r \in {r \in sheet : NeedsAccount(c, r)}}
             wanted == {emailOf(n) : n \in needing}
             k == [n \in DOMAIN s.new |->
                     [s.new[n] EXCEPT !.assigned = TRUE,
                                      !.account = IF n \in needing THEN emailOf(n) ELSE @]]
             t == [s EXCEPT !.op = "commit", !.accounted = wanted, !.new = k]
  <2>1. /\ \A o \in Imports \ {c} : InTransaction(o) => import[o].accounted \cap wanted = {}
        /\ ~AddressTaken(wanted, needing)
        /\ Becomes(c, t) /\ UNCHANGED <<employee, users, dialog>>
    <3>1. \A o \in Imports \ {c} : InTransaction(o) => import[o].accounted \cap wanted = {}
      BY Zenon DEF Provision
    <3>2. IF AddressTaken(wanted, needing) THEN Refuse(c)
          ELSE Becomes(c, t) /\ UNCHANGED <<employee, users, dialog>>
      BY Zenon DEF Provision
    <3> QED BY ONLY <1>5, <3>1, <3>2
  <2> HIDE DEF s
  <2>2. /\ \A r \in sheet : r \in Row /\ \E i \in DOMAIN s.file.rows : r = s.file.rows[i]
        /\ \A i \in DOMAIN s.file.rows : s.file.rows[i] \in sheet
        /\ \A r, q \in sheet : r.number = q.number => r = q
    BY <1>3, RowsOfAFile
  <2> HIDE DEF sheet
  <2>3. ASSUME NEW r \in sheet
        PROVE  /\ r \in Row /\ r.number \in Numbers
               /\ r.number \in DOMAIN s.read /\ r.number \in DOMAIN s.new
               /\ emailOf(r.number) = Effective(c, r).email
    <3>1. r \in Row /\ r.number \in Numbers
      BY <2>2 DEF Row
    <3>2. PICK i \in DOMAIN s.file.rows : r = s.file.rows[i]
      BY <2>2
    <3>3. i < s.i
      BY <1>2, <1>3
    <3>4. r.number \in DOMAIN s.read /\ r.number \in DOMAIN s.new
      BY <1>3, <3>2, <3>3 DEF RowsDone
    <3>5. (CHOOSE q \in sheet : q.number = r.number) = r
      BY <2>2
    <3> QED BY <3>1, <3>4, <3>5
  <2>4. ASSUME NEW r \in sheet, NeedsAccount(c, r)
        PROVE  emailOf(r.number) \in Emails /\ emailOf(r.number) # None
    <3> HIDE DEF t, k
    <3>1. s.read[r.number] \in Employee
      <4>1. s.read \in [DOMAIN s.read -> Employee]
        BY <1>3, EmployeeMap
      <4> QED BY <2>3, <4>1
    <3>2. s.read[r.number].email \in Emails \cup {None} /\ r.email \in Emails \cup {None}
      BY <2>3, <3>1 DEF Employee, Row
    <3>3. Effective(c, r).email \in Emails \cup {None}
      BY <1>1, <3>2 DEF Effective
    <3>4. Effective(c, r).email # None
      BY <2>4 DEF NeedsAccount
    <3> QED BY <2>3, <3>3, <3>4
  <2>5. \A n \in needing : \E r \in sheet : r.number = n /\ NeedsAccount(c, r)
    OBVIOUS
  <2>6. /\ needing \subseteq Numbers /\ needing \subseteq DOMAIN s.new
        /\ \A n \in needing : emailOf(n) \in Emails
    BY <2>3, <2>4
  <2>7. wanted \subseteq Emails /\ \A n \in needing : emailOf(n) \in wanted
    BY <2>6
  <2>8. wanted \cap users = {} /\ ~(Cardinality(wanted) < Cardinality(needing))
    BY <2>1 DEF AddressTaken
  <2>9. \A n, o \in needing : n # o => emailOf(n) # emailOf(o)
    <3> DEFINE f == [n \in needing |-> emailOf(n)]
    <3>1. IsFiniteSet(needing)
      BY <2>6, ImportAssumption, FS_Subset
    <3>2. wanted = {f[n] : n \in needing}
      OBVIOUS
    <3>3. DOMAIN f = needing /\ \A n \in needing : f[n] = emailOf(n)
      OBVIOUS
    <3> HIDE DEF f, wanted, needing, emailOf
    <3>4. \A n, o \in needing : n # o => f[n] # f[o]
      BY <2>8, <3>1, <3>2, <3>3, DistinctWhenEnough
    <3> QED BY <3>3, <3>4
  <2>10. ASSUME NEW r \in sheet, r.status = "active", r.email # None, s.accounts,
                r.number \notin needing
         PROVE  s.read[r.number].account # None
    <3>1. ~NeedsAccount(c, r)
      BY <2>10
    <3>2. Effective(c, r).status = "active" /\ Effective(c, r).email = r.email
          /\ Effective(c, r).account = s.read[r.number].account
      BY <1>1, <2>10 DEF Effective
    <3> QED BY <1>1, <2>10, <3>1, <3>2 DEF NeedsAccount
  <2>11. PICK email : /\ \A n \in needing : email[n] = emailOf(n)
                      /\ email = [n \in needing |-> emailOf(n)]
    OBVIOUS
  <2>12. k = [n \in DOMAIN s.new |->
                [s.new[n] EXCEPT !.assigned = TRUE,
                                 !.account = IF n \in needing THEN email[n] ELSE s.new[n].account]]
    BY <2>11
  <2> HIDE DEF emailOf, needing, wanted, k
  <2>13. \A n \in needing : email[n] \in wanted /\ email[n] \in Emails
    BY <2>6, <2>7, <2>11
  <2>14. ASSUME NEW n \in DOMAIN s.new
         PROVE  /\ k[n] \in Employee /\ k[n].assigned
                /\ k[n].account = IF n \in needing THEN email[n] ELSE AccountOf(n, employee)
                /\ k[n].manager = s.new[n].manager /\ Unspoilt(n, k[n])
    <3>1. PICK e \in Employee : e = s.new[n] /\ Unspoilt(n, e) /\ e.account = AccountOf(n, employee)
      BY <1>2, <1>3, EmployeeMap DEF WrittenSound
    <3>2. PICK a : a = IF n \in needing THEN email[n] ELSE e.account
      OBVIOUS
    <3>3. a \in Emails \cup {None}
      BY <2>13, <3>2 DEF Employee
    <3>4. k[n] = [e EXCEPT !.assigned = TRUE, !.account = a]
      BY <2>12, <3>1, <3>2
    <3>5. /\ k[n] \in Employee /\ k[n].assigned /\ k[n].account = a
          /\ k[n].manager = e.manager /\ k[n].family = e.family /\ k[n].phone = e.phone
          /\ k[n].banks = e.banks
      BY <3>3, <3>4 DEF Employee
    <3> QED BY <3>1, <3>2, <3>5 DEF Unspoilt
  <2>15. k \in EmployeeMaps /\ DOMAIN k = DOMAIN s.new
    <3>1. DOMAIN k = DOMAIN s.new /\ DOMAIN s.new \subseteq Numbers
      BY <1>3, <2>12, EmployeeMap
    <3>2. k \in [DOMAIN k -> Employee]
      BY <2>12, <2>14, <3>1
    <3> QED BY <3>1, <3>2, EmployeeMap
  <2>16. t \in Confirmed
    <3> QED BY <1>3, <2>7, <2>15 DEF Confirmed
  <2>17. /\ t.op = "commit" /\ t.file = s.file /\ t.by = s.by /\ t.updates = s.updates
         /\ t.managers = s.managers /\ t.accounts = s.accounts
         /\ t.i = s.i /\ t.read = s.read /\ t.new = k /\ t.accounted = wanted
    BY <1>3 DEF Confirmed
  <2> HIDE DEF t
  <2>18. RowsDone(t)
    BY <1>2, <1>3, <2>15, <2>17 DEF RowsDone
  <2>19. ASSUME NEW n \in DOMAIN k, k[n].account \in wanted
         PROVE  n \in needing
    <3>1. CASE n \notin needing
      <4>1. k[n].account = AccountOf(n, employee)
        BY <2>14, <2>15, <3>1
      <4>2. AccountOf(n, employee) \in users \cup {None}
        BY DEF AccountOf, ImportInv, EmployeesSound
      <4>3. None \notin wanted
        BY <2>7, ImportAssumption
      <4> QED BY <2>8, <2>19, <4>1, <4>2, <4>3
    <3> QED BY <3>1
  <2>20. WrittenSound(t, employee)
    <3>1. ASSUME NEW n \in DOMAIN k
          PROVE  /\ Unspoilt(n, k[n]) /\ k[n].manager \in DOMAIN employee \cup {None}
                 /\ k[n].account = AccountOf(n, employee) \/ k[n].account \in wanted
      BY <1>3, <2>13, <2>14, <2>15 DEF WrittenSound
    <3>2. ASSUME NEW n \in DOMAIN k, NEW o \in DOMAIN k, n # o, k[n].account \in wanted,
                 k[o].account = k[n].account
          PROVE  FALSE
      <4>1. n \in needing /\ o \in needing
        BY <2>19, <3>2
      <4>2. k[n].account = email[n] /\ k[o].account = email[o]
        BY <2>14, <2>15, <4>1
      <4> QED BY <2>9, <2>11, <3>2, <4>1, <4>2
    <3> QED BY <2>17, <3>1, <3>2 DEF WrittenSound
  <2>21. Provisioned(t)
    <3> SUFFICES ASSUME NEW i \in DOMAIN s.file.rows
                 PROVE  LET r == s.file.rows[i] IN
                        /\ k[r.number].assigned
                        /\ r.status = "active" /\ r.email # None /\ s.accounts =>
                              k[r.number].account # None \/ s.read[r.number].account # None
      BY <2>17 DEF Provisioned
    <3>1. PICK r \in sheet : r = s.file.rows[i]
      BY <2>2
    <3>2. r.number \in DOMAIN s.new
      BY <2>3
    <3>3. None \notin Emails
      BY ImportAssumption
    <3> QED BY <2>10, <2>13, <2>14, <3>1, <3>2, <3>3
  <2>22. ImportSound(t, employee, users)
    BY <1>3, <2>8, <2>16, <2>17, <2>18, <2>20, <2>21 DEF ImportSound
  <2>23. ASSUME NEW o \in Imports \ {c} PROVE Apart(t, import[o])
    BY <1>2, <1>3, <2>1, <2>15, <2>17 DEF Apart, Transacts, InTransaction
  <2> QED BY <2>1, <2>22, <2>23, ImportGoesOn
<1> QED BY <1>4, <1>5

----------------------------------------------------------------------------
(* The transaction ends: what it wrote takes the place of what was there.  *)
LEMMA CommitStep ==
  ASSUME ImportInv, NEW c \in Imports, Commit(c)
  PROVE  /\ ImportInv'
         /\ Provisioned(import[c]) /\ employee' = Over(import[c].new, employee)
         /\ MayHold(import[c].file, import[c].by) /\ Checked(import[c].file)
         /\ \A i \in DOMAIN import[c].file.rows :
               import[c].file.rows[i].number \in DOMAIN import[c].new
<1>1. PICK s : s = import[c]
  OBVIOUS
<1>2. s.op = "commit" /\ ImportSound(s, employee, users) /\ Transacts(s)
  BY <1>1 DEF Commit, Running, ImportInv, Transacts
<1>3. /\ s \in Confirmed /\ MayHold(s.file, s.by) /\ Checked(s.file)
      /\ s.accounted \cap users = {}
      /\ RowsDone(s) /\ WrittenSound(s, employee) /\ Provisioned(s)
  BY <1>2, ConfirmedState
<1>4. s.new \in EmployeeMaps /\ s.accounted \subseteq Emails /\ s.i \in Nat
  BY <1>3 DEF Confirmed
<1>5. PICK people : people = Over(s.new, employee)
  OBVIOUS
<1>6. PICK accounts : accounts = users \cup s.accounted
  OBVIOUS
<1>7. employee' = people /\ users' = accounts /\ Answer(c, "success")
  BY <1>1, <1>5, <1>6 DEF Commit
<1>8. /\ people \in EmployeeMaps /\ DOMAIN people = DOMAIN s.new \cup DOMAIN employee
      /\ \A n \in DOMAIN people : people[n] = IF n \in DOMAIN s.new THEN s.new[n] ELSE employee[n]
  <2>1. PICK m \in EmployeeMaps : m = s.new
    BY <1>4
  <2>2. PICK old \in EmployeeMaps : old = employee
    BY DEF ImportInv, EmployeesSound
  <2>3. /\ Over(m, old) \in EmployeeMaps
        /\ DOMAIN Over(m, old) = DOMAIN m \cup DOMAIN old
        /\ \A o \in DOMAIN Over(m, old) :
              Over(m, old)[o] = IF o \in DOMAIN m THEN m[o] ELSE old[o]
    BY MapJoin, Zenon
  <2> QED BY <1>5, <2>1, <2>2, <2>3
<1>9. None \notin s.accounted
  BY <1>4, ImportAssumption
<1>10. /\ employee \in EmployeeMaps
       /\ \A n \in DOMAIN employee :
             /\ Unspoilt(n, employee[n])
             /\ employee[n].manager \in DOMAIN employee \cup {None}
             /\ employee[n].account # None =>
                   /\ employee[n].account \in users
                   /\ \A o \in DOMAIN employee \ {n} : employee[o].account # employee[n].account
  BY DEF ImportInv, EmployeesSound
<1>11. ASSUME NEW n \in DOMAIN people
       PROVE  /\ Unspoilt(n, people[n])
              /\ people[n].manager \in DOMAIN people \cup {None}
              /\ people[n].account = AccountOf(n, employee) \/ people[n].account \in s.accounted
  <2>1. CASE n \in DOMAIN s.new
    BY <1>3, <1>8, <2>1 DEF WrittenSound
  <2>2. CASE n \notin DOMAIN s.new
    BY <1>8, <1>10, <2>2 DEF AccountOf
  <2> QED BY <2>1, <2>2
<1>12. ASSUME NEW n \in DOMAIN people, people[n].account \in s.accounted
       PROVE  n \in DOMAIN s.new
  <2>1. CASE n \notin DOMAIN s.new
    <3>1. people[n] = employee[n] /\ n \in DOMAIN employee
      BY <1>8, <2>1
    <3> QED BY <1>3, <1>9, <1>10, <1>12, <3>1
  <2> QED BY <2>1
<1>13. ASSUME NEW n \in DOMAIN people, people[n].account # None
       PROVE  /\ people[n].account \in accounts
              /\ \A o \in DOMAIN people \ {n} : people[o].account # people[n].account
  <2>1. people[n].account \in accounts
    BY <1>6, <1>10, <1>11, <1>13 DEF AccountOf
  <2>2. ASSUME NEW o \in DOMAIN people, o # n, people[o].account = people[n].account
        PROVE  FALSE
    <3>1. CASE people[n].account \in s.accounted
      <4>1. n \in DOMAIN s.new /\ o \in DOMAIN s.new
        BY <1>12, <2>2, <3>1
      <4>2. people[n] = s.new[n] /\ people[o] = s.new[o]
        BY <1>8, <4>1
      <4> QED BY <1>3, <2>2, <3>1, <4>1, <4>2 DEF WrittenSound
    <3>2. CASE people[n].account \notin s.accounted
      <4>1. people[n].account = AccountOf(n, employee) /\ people[o].account = AccountOf(o, employee)
        BY <1>11, <2>2, <3>2
      <4> QED BY <1>10, <1>13, <2>2, <4>1 DEF AccountOf
    <3> QED BY <3>1, <3>2
  <2> QED BY <2>1, <2>2
<1>14. EmployeesSound(people, accounts)
  BY <1>8, <1>11, <1>13 DEF EmployeesSound
<1>15. /\ DOMAIN import' = Imports /\ import'[c] = [op |-> "success"]
       /\ \A o \in Imports \ {c} : import'[o] = import[o]
  BY <1>7 DEF Answer, ImportInv
<1>16. ASSUME NEW o \in Imports \ {c} PROVE ImportSound(import[o], people, accounts)
  <2>1. ImportSound(import[o], employee, users) /\ Apart(s, import[o])
    BY <1>1 DEF ImportInv
  <2>3. DOMAIN employee \subseteq DOMAIN people
    BY <1>8
  <2>4. ASSUME Transacts(import[o]), NEW n \in DOMAIN import[o].new
        PROVE  AccountOf(n, people) = AccountOf(n, employee)
    <3>1. n \notin DOMAIN s.new
      BY <1>2, <2>1, <2>4 DEF Apart
    <3> QED BY <1>8, <3>1 DEF AccountOf
  <2>5. ASSUME Transacts(import[o]) PROVE import[o].accounted \cap (accounts \ users) = {}
    BY <1>2, <1>6, <2>1, <2>5 DEF Apart
  <2> QED BY <2>1, <2>3, <2>4, <2>5, ImportStaysSound
<1>17. ImportSound([op |-> "success"], people, accounts) /\ ~Transacts([op |-> "success"])
  <2>1. [op |-> "success"] \in [op : {"idle", "success", "error"}]
    OBVIOUS
  <2> QED BY <2>1 DEF ImportSound, Transacts
<1>18. \A o \in Imports : ImportSound(import'[o], people, accounts)
  BY <1>15, <1>16, <1>17
<1>19. \A o, p \in Imports : o # p => Apart(import'[o], import'[p])
  BY <1>15, <1>17 DEF ImportInv, Apart
<1>20. DOMAIN dialog' = Dialogs /\ \A d \in Dialogs : WizardSound(d, dialog'[d])
  BY <1>7, AnswerKeepsWizards DEF ImportInv
<1>21. ImportInv'
  BY <1>7, <1>14, <1>15, <1>18, <1>19, <1>20 DEF ImportInv
<1>22. ASSUME NEW i \in DOMAIN s.file.rows PROVE s.file.rows[i].number \in DOMAIN s.new
  <2>1. s.file.rows \in Seq(Row)
    BY <1>3 DEF MayHold, Workbook
  <2>2. i < s.i
    BY <1>2, <1>3, <1>4, <2>1 DEF RowsDone
  <2> QED BY <1>3, <2>2 DEF RowsDone
<1> QED BY <1>1, <1>3, <1>5, <1>7, <1>21, <1>22

----------------------------------------------------------------------------
(* The CSV file.                                                           *)
LEMMA CsvPreviewStep ==
  ASSUME ImportInv, NEW c \in Imports, PreviewCsv(c)
  PROVE  ImportInv'
<1>1. PICK sheet \in Lists : Becomes(c, [op |-> "csv", rows |-> NewRows(sheet)])
  BY DEF PreviewCsv
<1>2. UNCHANGED <<employee, users, dialog>>
  BY DEF PreviewCsv
<1>3. NewRows(sheet) \subseteq CsvRows
  BY ImportAssumption DEF NewRows, CsvRows
<1> DEFINE s == [op |-> "csv", rows |-> NewRows(sheet)]
<1>4. s \in [op : {"csv", "insert"}, rows : SUBSET CsvRows] /\ s.op = "csv"
  BY <1>3
<1> HIDE DEF s
<1>5. ImportSound(s, employee, users) /\ ~Transacts(s)
  BY <1>4 DEF ImportSound, Transacts
<1> QED BY <1>1, <1>2, <1>5, ImportGoesOn DEF s, Apart

LEMMA CsvState ==
  ASSUME NEW s, NEW people, NEW accounts, ImportSound(s, people, accounts),
         s.op \in {"csv", "insert"}
  PROVE  s.rows \subseteq CsvRows
BY DEF ImportSound, Confirmed

LEMMA CsvConfirmStep ==
  ASSUME ImportInv, NEW c \in Imports, ConfirmCsv(c)
  PROVE  ImportInv'
<1>1. import[c].rows \subseteq CsvRows
  BY CsvState DEF ImportInv, ConfirmCsv, Running
<1>2. PICK sheet \in SUBSET CsvRows : sheet = NewRows(import[c].rows)
  BY <1>1 DEF NewRows
<1>3. PICK s : s = IF sheet = {} THEN [op |-> "error"] ELSE [op |-> "insert", rows |-> sheet]
  OBVIOUS
<1>4. Becomes(c, s) /\ UNCHANGED <<employee, users, dialog>>
  BY <1>2, <1>3 DEF ConfirmCsv
<1>5. \/ s \in [op : {"idle", "success", "error"}]
      \/ s \in [op : {"csv", "insert"}, rows : SUBSET CsvRows]
  BY <1>3
<1>6. ImportSound(s, employee, users) /\ ~Transacts(s)
  BY <1>5 DEF ImportSound, Transacts
<1> QED BY <1>4, <1>6, ImportGoesOn DEF Apart

LEMMA CsvInsertStep ==
  ASSUME ImportInv, NEW c \in Imports, InsertCsv(c)
  PROVE  ImportInv'
<1>1. import[c].op = "insert" /\ import[c].rows \subseteq CsvRows
  BY CsvState DEF ImportInv, InsertCsv, Running
<1>2. PICK sheet \in SUBSET CsvRows : sheet = import[c].rows
  BY <1>1
<1>3. UNCHANGED <<users, dialog>>
  BY DEF InsertCsv
<1>4. ASSUME NEW op \in {"success", "error"}
      PROVE  /\ \A E, U : ImportSound([op |-> op], E, U)
             /\ ~Transacts([op |-> op])
  <2>1. [op |-> op] \in [op : {"idle", "success", "error"}]
    OBVIOUS
  <2> QED BY <2>1 DEF ImportSound, Transacts
<1>5. CASE \E n \in {r.number : r \in sheet} : Known(n)
  <2>1. Becomes(c, [op |-> "error"]) /\ UNCHANGED <<employee, users, dialog>>
    BY <1>2, <1>3, <1>5 DEF InsertCsv
  <2> QED BY <1>4, <2>1, ImportGoesOn DEF Apart
<1>6. CASE ~\E n \in {r.number : r \in sheet} : Known(n)
  <2> DEFINE numbers == {r.number : r \in sheet}
             rowOf(n) == CHOOSE r \in sheet : r.number = n
  <2>1. PICK added : added = [n \in numbers |->
                                [NewEmployee EXCEPT !.status = rowOf(n).status,
                                                    !.email = rowOf(n).email]]
    OBVIOUS
  <2>2. Becomes(c, [op |-> "success"]) /\ employee' = Over(employee, added)
    BY <1>2, <1>6, <2>1 DEF InsertCsv
  <2>3. \A n \in numbers : ~Known(n) /\ ~Locked(n, c)
    BY <1>2, <1>6 DEF InsertCsv
  <2>4. \A r \in sheet : /\ r.number \in Numbers /\ r.status \in EmployeeStatuses
                        /\ r.email \in Emails \cup {None}
    BY DEF CsvRows, Row
  <2>5. \A n \in numbers : rowOf(n) \in sheet
    OBVIOUS
  <2>6. numbers \subseteq Numbers
    BY <2>4
  <2>7. \A n \in numbers : rowOf(n).status \in EmployeeStatuses /\ rowOf(n).email \in Emails \cup {None}
    <3> HIDE DEF rowOf, numbers
    <3> QED BY <2>4, <2>5
  <2> HIDE DEF numbers, rowOf
  <2>8. DOMAIN added = numbers
    BY <2>1
  <2>9. ASSUME NEW n \in numbers
        PROVE  /\ added[n] \in Employee /\ Unspoilt(n, added[n])
               /\ added[n].account = None /\ added[n].manager = None
    <3>1. PICK status \in EmployeeStatuses, email \in Emails \cup {None} :
             status = rowOf(n).status /\ email = rowOf(n).email
      BY <2>7
    <3>2. added[n] = [NewEmployee EXCEPT !.status = status, !.email = email]
      BY <2>1, <3>1
    <3>3. PICK new \in Employee : /\ new = NewEmployee /\ new.account = None /\ new.manager = None
                                  /\ Unspoilt(n, new)
      BY NewEmployeeIsOne
    <3>4. added[n] = [new EXCEPT !.status = status, !.email = email]
      BY <3>2, <3>3
    <3>5. /\ added[n] \in Employee /\ added[n].account = new.account
          /\ added[n].manager = new.manager /\ added[n].family = new.family
          /\ added[n].phone = new.phone /\ added[n].banks = new.banks
      BY <3>4 DEF Employee
    <3> QED BY <3>3, <3>5 DEF Unspoilt
  <2>10. added \in EmployeeMaps
    <3>1. added \in [DOMAIN added -> Employee]
      BY <2>1, <2>8, <2>9
    <3> QED BY <2>6, <2>8, <3>1, EmployeeMap
  <2>11. PICK people : people = Over(employee, added)
    OBVIOUS
  <2>12. /\ people \in EmployeeMaps /\ DOMAIN people = DOMAIN employee \cup numbers
         /\ \A n \in DOMAIN people : people[n] = IF n \in DOMAIN employee THEN employee[n] ELSE added[n]
    <3>1. PICK m \in EmployeeMaps : m = employee
      BY DEF ImportInv, EmployeesSound
    <3>2. PICK old \in EmployeeMaps : old = added
      BY <2>10
    <3>3. /\ Over(m, old) \in EmployeeMaps
          /\ DOMAIN Over(m, old) = DOMAIN m \cup DOMAIN old
          /\ \A o \in DOMAIN Over(m, old) :
                Over(m, old)[o] = IF o \in DOMAIN m THEN m[o] ELSE old[o]
      BY MapJoin, Zenon
    <3> QED BY <2>8, <2>11, <3>1, <3>2, <3>3
  <2>13. EmployeesSound(people, users)
    <3>1. /\ employee \in EmployeeMaps
          /\ \A n \in DOMAIN employee :
                /\ Unspoilt(n, employee[n])
                /\ employee[n].manager \in DOMAIN employee \cup {None}
                /\ employee[n].account # None =>
                      /\ employee[n].account \in users
                      /\ \A o \in DOMAIN employee \ {n} : employee[o].account # employee[n].account
      BY DEF ImportInv, EmployeesSound
    <3>2. ASSUME NEW n \in DOMAIN people
          PROVE  /\ Unspoilt(n, people[n])
                 /\ people[n].manager \in DOMAIN people \cup {None}
                 /\ people[n].account # None =>
                       n \in DOMAIN employee /\ people[n] = employee[n]
      BY <2>9, <2>12, <3>1
    <3> QED BY <2>12, <3>1, <3>2 DEF EmployeesSound
  <2>14. ASSUME NEW o \in Imports \ {c} PROVE ImportSound(import[o], people, users)
    <3>1. ImportSound(import[o], employee, users)
      BY DEF ImportInv
    <3>2. ASSUME Transacts(import[o]), NEW n \in DOMAIN import[o].new
          PROVE  AccountOf(n, people) = AccountOf(n, employee)
      <4>1. n \notin numbers
        BY <2>3, <3>2 DEF Locked, InTransaction, Transacts
      <4> QED BY <2>12, <4>1 DEF AccountOf
    <3>3. DOMAIN employee \subseteq DOMAIN people
      BY <2>12
    <3>5. import[o].accounted \cap (users \ users) = {}
      OBVIOUS
    <3> QED BY <3>1, <3>2, <3>3, <3>5, ImportStaysSound
  <2>15. /\ DOMAIN import' = Imports /\ import'[c] = [op |-> "success"]
         /\ \A o \in Imports \ {c} : import'[o] = import[o]
    BY <2>2 DEF Becomes, ImportInv
  <2>16. \A o \in Imports : ImportSound(import'[o], people, users)
    BY <1>4, <2>14, <2>15
  <2>17. \A o, p \in Imports : o # p => Apart(import'[o], import'[p])
    BY <1>4, <2>15 DEF ImportInv, Apart
  <2>18. employee' = people /\ users' = users /\ dialog' = dialog
    BY <1>3, <2>2, <2>11
  <2> QED BY <2>13, <2>15, <2>16, <2>17, <2>18 DEF ImportInv
<1> QED BY <1>5, <1>6

----------------------------------------------------------------------------
(* Edits of an employee that no transaction has written.                   *)
LEMMA EditKeeps ==
  ASSUME ImportInv, NEW n \in DOMAIN employee, NEW e \in Employee, NEW accounts,
         Unspoilt(n, e), e.manager = employee[n].manager,
         users \subseteq accounts,
         e.account \notin {employee[n].account, None} =>
            /\ e.account \in accounts
            /\ \A o \in DOMAIN employee : employee[o].account # e.account,
         \A o \in Imports : Transacts(import[o]) =>
            n \notin DOMAIN import[o].new /\ import[o].accounted \cap (accounts \ users) = {},
         employee' = [employee EXCEPT ![n] = e], users' = accounts, UNCHANGED <<dialog, import>>
  PROVE  ImportInv'
<1>1. PICK people : people = [employee EXCEPT ![n] = e]
  OBVIOUS
<1>2. /\ employee \in EmployeeMaps
      /\ \A m \in DOMAIN employee :
            /\ Unspoilt(m, employee[m])
            /\ employee[m].manager \in DOMAIN employee \cup {None}
            /\ employee[m].account # None =>
                  /\ employee[m].account \in users
                  /\ \A o \in DOMAIN employee \ {m} : employee[o].account # employee[m].account
  BY DEF ImportInv, EmployeesSound
<1>3. DOMAIN employee \subseteq Numbers /\ employee \in [DOMAIN employee -> Employee]
  BY <1>2, EmployeeMap
<1>4. /\ DOMAIN people = DOMAIN employee
      /\ \A m \in DOMAIN people : people[m] = IF m = n THEN e ELSE employee[m]
      /\ people \in [DOMAIN people -> Employee]
  BY <1>1, <1>3
<1>5. people \in EmployeeMaps
  BY <1>3, <1>4, EmployeeMap
<1>6. ASSUME NEW m \in DOMAIN people
      PROVE  /\ Unspoilt(m, people[m]) /\ people[m].manager \in DOMAIN people \cup {None}
  BY <1>2, <1>4
<1>7. ASSUME NEW m \in DOMAIN people, people[m].account # None
      PROVE  /\ people[m].account \in accounts
             /\ \A o \in DOMAIN people \ {m} : people[o].account # people[m].account
  <2>1. people[m].account \in accounts
    BY <1>2, <1>4, <1>7
  <2>2. ASSUME NEW o \in DOMAIN people \ {m}, people[o].account = people[m].account
        PROVE  FALSE
    <3>1. CASE e.account \in {employee[n].account, None}
      BY <1>2, <1>4, <1>7, <2>2, <3>1
    <3>2. CASE e.account \notin {employee[n].account, None}
      BY <1>2, <1>4, <1>7, <2>2, <3>2
    <3> QED BY <3>1, <3>2
  <2> QED BY <2>1, <2>2
<1>8. EmployeesSound(people, accounts)
  BY <1>5, <1>6, <1>7 DEF EmployeesSound
<1>9. ASSUME NEW o \in Imports PROVE ImportSound(import[o], people, accounts)
  <2>1. ImportSound(import[o], employee, users)
    BY DEF ImportInv
  <2>3. ASSUME Transacts(import[o]), NEW m \in DOMAIN import[o].new
        PROVE  AccountOf(m, people) = AccountOf(m, employee)
    BY <1>4, <2>3 DEF AccountOf
  <2>4. DOMAIN employee \subseteq DOMAIN people
    BY <1>4
  <2> QED BY <2>1, <2>3, <2>4, ImportStaysSound
<1>10. employee' = people /\ users' = accounts /\ dialog' = dialog /\ import' = import
  BY <1>1
<1> QED BY <1>8, <1>9, <1>10 DEF ImportInv

LEMMA StatusStep ==
  ASSUME ImportInv, NEW n \in Numbers, EditStatus(n)
  PROVE  ImportInv'
<1>1. n \in DOMAIN employee
  BY DEF EditStatus, Untouched, Known
<1>2. PICK old \in Employee : old = employee[n] /\ Unspoilt(n, old)
  BY <1>1, EmployeeMap DEF ImportInv, EmployeesSound
<1>3. PICK status \in EmployeeStatuses :
        status = IF old.status = "active" THEN "inactive" ELSE "active"
  BY DEF EmployeeStatuses
<1>4. PICK e : e = [old EXCEPT !.status = status, !.recorded = status]
  OBVIOUS
<1>5. /\ e \in Employee /\ e.account = old.account /\ e.manager = old.manager
      /\ e.family = old.family /\ e.phone = old.phone /\ e.banks = old.banks
  BY <1>4 DEF Employee
<1>6. employee' = [employee EXCEPT ![n] = e]
  <2>1. employee' = [employee EXCEPT ![n] = [employee[n] EXCEPT
           !.status = IF employee[n].status = "active" THEN "inactive" ELSE "active",
           !.recorded = IF employee[n].status = "active" THEN "inactive" ELSE "active"]]
    BY <1>1 DEF EditStatus
  <2> QED BY <1>2, <1>3, <1>4, <2>1
<1>7. Unspoilt(n, e)
  BY <1>2, <1>5 DEF Unspoilt
<1>8. \A o \in Imports : Transacts(import[o]) => n \notin DOMAIN import[o].new
  BY DEF EditStatus, Untouched, InTransaction, Transacts
<1>9. users' = users /\ UNCHANGED <<dialog, import>>
  BY DEF EditStatus
<1> QED BY <1>1, <1>2, <1>5, <1>6, <1>7, <1>8, <1>9, EditKeeps

LEMMA ImportedAccountStep ==
  ASSUME ImportInv, NEW n \in Numbers, CreateAccount(n)
  PROVE  ImportInv'
<1>1. n \in DOMAIN employee
  BY DEF CreateAccount, Untouched, Known
<1>2. PICK old \in Employee : old = employee[n] /\ Unspoilt(n, old)
  BY <1>1, EmployeeMap DEF ImportInv, EmployeesSound
<1>3. PICK email \in Emails : email = old.email
  BY <1>2 DEF CreateAccount, Employee
<1>4. old.account = None /\ email # None /\ email \notin users
  BY <1>2, <1>3 DEF CreateAccount
<1>5. PICK e : e = [old EXCEPT !.account = email]
  OBVIOUS
<1>6. /\ e \in Employee /\ e.account = email /\ e.manager = old.manager
      /\ e.family = old.family /\ e.phone = old.phone /\ e.banks = old.banks
  BY <1>5 DEF Employee
<1>7. employee' = [employee EXCEPT ![n] = e]
  <2>1. employee' = [employee EXCEPT ![n] = [employee[n] EXCEPT !.account = employee[n].email]]
    BY DEF CreateAccount
  <2> QED BY <1>2, <1>3, <1>5, <2>1
<1>8. Unspoilt(n, e)
  BY <1>2, <1>6 DEF Unspoilt
<1>9. PICK accounts : accounts = users \cup {email}
  OBVIOUS
<1>10. \A o \in Imports : Transacts(import[o]) =>
          n \notin DOMAIN import[o].new /\ import[o].accounted \cap (accounts \ users) = {}
  BY <1>2, <1>3, <1>9 DEF CreateAccount, Untouched, InTransaction, Transacts
<1>11. users' = accounts /\ UNCHANGED <<dialog, import>>
  BY <1>2, <1>3, <1>9 DEF CreateAccount
<1>12. \A o \in DOMAIN employee : employee[o].account # email
  BY <1>4 DEF ImportInv, EmployeesSound
<1> HIDE DEF ImportInv
<1> QED BY <1>1, <1>2, <1>4, <1>6, <1>7, <1>8, <1>9, <1>10, <1>11, <1>12, EditKeeps

(* An account is taken from its employee or given to one without.          *)
LEMMA RelinkStep ==
  ASSUME ImportInv, NEW n \in Numbers, NEW a \in Emails \cup {None},
         Untouched(n), employee' = [employee EXCEPT ![n].account = a],
         UNCHANGED <<users, dialog, import>>,
         a # None => a \in users /\ \A o \in DOMAIN employee : employee[o].account # a
  PROVE  ImportInv'
<1>1. n \in DOMAIN employee
  BY DEF Untouched, Known
<1>2. PICK old \in Employee : old = employee[n] /\ Unspoilt(n, old)
  BY <1>1, EmployeeMap DEF ImportInv, EmployeesSound
<1>3. PICK e : e = [old EXCEPT !.account = a]
  OBVIOUS
<1>4. /\ e \in Employee /\ e.account = a /\ e.manager = old.manager
      /\ e.family = old.family /\ e.phone = old.phone /\ e.banks = old.banks
  BY <1>3 DEF Employee
<1>5. employee' = [employee EXCEPT ![n] = e]
  BY <1>2, <1>3
<1>6. Unspoilt(n, e)
  BY <1>2, <1>4 DEF Unspoilt
<1>7. \A o \in Imports : Transacts(import[o]) => n \notin DOMAIN import[o].new
  BY DEF Untouched, InTransaction, Transacts
<1>8. PICK accounts : accounts = users
  OBVIOUS
<1>9. e.account \notin {employee[n].account, None} =>
         /\ e.account \in accounts
         /\ \A o \in DOMAIN employee : employee[o].account # e.account
  BY <1>4, <1>8
<1>10. \A o \in Imports : Transacts(import[o]) =>
          n \notin DOMAIN import[o].new /\ import[o].accounted \cap (accounts \ users) = {}
  BY <1>7, <1>8
<1>11. users \subseteq accounts /\ users' = accounts /\ UNCHANGED <<dialog, import>>
  BY <1>8
<1>12. e.manager = employee[n].manager
  BY <1>2, <1>4
<1> HIDE DEF ImportInv
<1> QED BY <1>1, <1>4, <1>5, <1>6, <1>9, <1>10, <1>11, <1>12, EditKeeps

LEMMA DeletedAccountStep ==
  ASSUME ImportInv, NEW u \in Emails, DeleteAccount(u)
  PROVE  ImportInv'
<1>1. PICK people : people = [n \in DOMAIN employee |->
          [employee[n] EXCEPT !.account = IF @ = u THEN None ELSE @]]
  OBVIOUS
<1>2. PICK accounts : accounts = users \ {u}
  OBVIOUS
<1>3. employee' = people /\ users' = accounts /\ dialog' = dialog /\ import' = import
  BY <1>1, <1>2 DEF DeleteAccount
<1>4. DOMAIN employee \subseteq Numbers /\ employee \in [DOMAIN employee -> Employee]
  BY EmployeeMap DEF ImportInv, EmployeesSound
<1>5. DOMAIN people = DOMAIN employee
  BY <1>1
<1>6. ASSUME NEW n \in DOMAIN people
      PROVE  /\ people[n] \in Employee
             /\ people[n].account = IF employee[n].account = u THEN None ELSE employee[n].account
             /\ people[n].manager = employee[n].manager
             /\ Unspoilt(n, people[n])
  <2>1. PICK old \in Employee : old = employee[n] /\ Unspoilt(n, old)
    BY <1>4, <1>5 DEF ImportInv, EmployeesSound
  <2>2. PICK a \in Emails \cup {None} : a = IF old.account = u THEN None ELSE old.account
    BY DEF Employee
  <2>3. people[n] = [old EXCEPT !.account = a]
    BY <1>1, <1>5, <2>1, <2>2
  <2>4. /\ people[n] \in Employee /\ people[n].account = a /\ people[n].manager = old.manager
        /\ people[n].family = old.family /\ people[n].phone = old.phone
        /\ people[n].banks = old.banks
    BY <2>3 DEF Employee
  <2> QED BY <2>1, <2>2, <2>4 DEF Unspoilt
<1>7. people \in EmployeeMaps
  <2>1. people \in [DOMAIN people -> Employee]
    BY <1>1, <1>5, <1>6
  <2> QED BY <1>4, <1>5, <2>1, EmployeeMap
<1>8. EmployeesSound(people, accounts)
  BY <1>2, <1>5, <1>6, <1>7 DEF ImportInv, EmployeesSound
<1>9. ASSUME NEW o \in Imports PROVE ImportSound(import[o], people, accounts)
  <2>1. ImportSound(import[o], employee, users)
    BY DEF ImportInv
  <2>2. ASSUME Transacts(import[o]), NEW n \in DOMAIN import[o].new
        PROVE  AccountOf(n, people) = AccountOf(n, employee)
    <3>1. CASE n \in DOMAIN employee
      <4>1. ~Untouched(n)
        BY <2>2 DEF Untouched, InTransaction, Transacts
      <4>2. employee[n].account # u
        BY <3>1, <4>1 DEF DeleteAccount
      <4> QED BY <1>5, <1>6, <3>1, <4>2 DEF AccountOf
    <3>2. CASE n \notin DOMAIN employee
      BY <1>5, <3>2 DEF AccountOf
    <3> QED BY <3>1, <3>2
  <2>3. DOMAIN employee \subseteq DOMAIN people
    BY <1>5
  <2>4. import[o].accounted \cap (accounts \ users) = {}
    BY <1>2
  <2> QED BY <2>1, <2>2, <2>3, <2>4, ImportStaysSound
<1> QED BY <1>3, <1>8, <1>9 DEF ImportInv

(* Nothing of this touches an import.                                      *)
Elsewhere ==
    \/ \E n \in Numbers : EditStatus(n) \/ CreateAccount(n) \/ UnlinkAccount(n)
    \/ \E n \in Numbers, u \in Emails : LinkAccount(n, u) \/ DeleteAccount(u)

LEMMA ElsewhereKeeps ==
  ASSUME ImportInv, Elsewhere
  PROVE  ImportInv' /\ import' = import
<1>1. import' = import
  BY DEF Elsewhere, EditStatus, CreateAccount, UnlinkAccount, LinkAccount, DeleteAccount
<1>2. ASSUME NEW n \in Numbers, UnlinkAccount(n) PROVE ImportInv'
  <2>1. Untouched(n) /\ employee' = [employee EXCEPT ![n].account = None]
        /\ UNCHANGED <<users, dialog, import>>
    BY <1>2 DEF UnlinkAccount
  <2> QED BY <2>1, RelinkStep
<1>3. ASSUME NEW n \in Numbers, NEW u \in Emails, LinkAccount(n, u) PROVE ImportInv'
  <2>1. /\ Untouched(n) /\ employee' = [employee EXCEPT ![n].account = u]
        /\ UNCHANGED <<users, dialog, import>>
        /\ u \in users /\ \A o \in DOMAIN employee : employee[o].account # u
    BY <1>3 DEF LinkAccount
  <2> QED BY <2>1, RelinkStep
<1> QED BY <1>1, <1>2, <1>3, StatusStep, ImportedAccountStep, DeletedAccountStep DEF Elsewhere

----------------------------------------------------------------------------
(* The invariant holds from the start and whatever happens.                *)
LEMMA ImportBegins ==
  ASSUME ImportInit
  PROVE  ImportInv
<1>1. Initial \in EmployeeMaps
  BY InitialAssumption, EmployeeMap
<1>2. EmployeesSound(employee, users)
  BY <1>1, InitialAssumption DEF ImportInit, EmployeesSound, Unspoilt
<1>3. ASSUME NEW d \in Dialogs PROVE WizardSound(d, Closed)
  <2>1. Closed \in WizardStates(NoResult, None) /\ Closed.file = None
    BY DEF Closed, WizardStates
  <2>2. Closed.result = NoResult /\ Closed.waits = None
    BY DEF Closed
  <2>3. ~(NoResult.count > 0)
    BY DEF NoResult
  <2> QED BY <2>1, <2>2, <2>3 DEF WizardSound
<1>4. ImportSound([op |-> "idle"], employee, users) /\ ~Transacts([op |-> "idle"])
  <2>1. [op |-> "idle"] \in [op : {"idle", "success", "error"}]
    OBVIOUS
  <2> QED BY <2>1 DEF ImportSound, Transacts
<1>5. DOMAIN dialog = Dialogs /\ \A d \in Dialogs : dialog[d] = Closed
  BY DEF ImportInit
<1>6. DOMAIN import = Imports /\ \A c \in Imports : import[c] = [op |-> "idle"]
  BY DEF ImportInit
<1> QED BY <1>2, <1>3, <1>4, <1>5, <1>6 DEF ImportInv, Apart

LEMMA ImportKeepsOn ==
  ASSUME ImportInv, [ImportNext]_importVars
  PROVE  ImportInv'
<1>1. CASE UNCHANGED importVars
  <2>1. employee' = employee /\ users' = users /\ dialog' = dialog /\ import' = import
    BY <1>1 DEF importVars
  <2> QED BY <2>1 DEF ImportInv
<1>2. ASSUME NEW d \in Dialogs, Wizard(d) PROVE ImportInv'
  BY <1>2, WizardStep, ConfirmStep DEF Wizard
<1>3. ASSUME NEW c \in Imports, Server(c) PROVE ImportInv'
  <2>1. CASE Abort(c)
    BY <2>1, RefusalKeeps DEF Abort
  <2>2. CASE Commit(c)
    BY <2>2, CommitStep
  <2> QED BY <1>3, <2>1, <2>2, AnalyzeStep, ResolveStep, ReadStep, WriteStep, ProvisionStep,
             CsvPreviewStep, CsvConfirmStep, CsvInsertStep DEF Server
<1>4. ASSUME Elsewhere PROVE ImportInv'
  BY <1>4, ElsewhereKeeps
<1> QED BY <1>1, <1>2, <1>3, <1>4 DEF ImportNext, Elsewhere

(* Imports that run at once and wizards that lose their answers keep the   *)
(* inductive invariant.                                                    *)
THEOREM ImportInductive == ImportSpec => []ImportInv
<1>1. ImportInit => ImportInv
  BY ImportBegins
<1>2. ImportInv /\ [ImportNext]_importVars => ImportInv'
  BY ImportKeepsOn
<1> QED BY <1>1, <1>2, PTL DEF ImportSpec

(* Imports that overlap leave each employee well formed and managed by an  *)
(* employee, each account with one employee, each relative stored once and *)
(* nothing masked (confirmExcelImportAction, confirmImport).               *)
THEOREM ImportsStayConsistent == ImportSpec => []ImportConsistent
<1>1. ImportInv => ImportConsistent
  <2> SUFFICES ASSUME ImportInv PROVE ImportConsistent
    OBVIOUS
  <2>1. /\ DOMAIN employee \subseteq Numbers /\ employee \in [DOMAIN employee -> Employee]
        /\ EmployeesSound(employee, users)
    BY EmployeeMap DEF ImportInv, EmployeesSound
  <2>2. ImportTypeOK
    BY <2>1 DEF ImportTypeOK, EmployeesSound, Known
  <2>3. NothingImportedTwice /\ MaskedNeverStored
    BY <2>1 DEF NothingImportedTwice, MaskedNeverStored, EmployeesSound, Unspoilt
  <2> QED BY <2>2, <2>3 DEF ImportConsistent
<1> QED BY <1>1, ImportInductive, PTL

(* A step of the server changes the one import it executes.                *)
LEMMA ServerMovesItsOwn ==
  ASSUME ImportInv, NEW o \in Imports, Server(o)
  PROVE  \A c \in Imports \ {o} : import'[c] = import[c]
<1>1. DOMAIN import = Imports
  BY DEF ImportInv
<1>2. ASSUME NEW s, Becomes(o, s) PROVE \A c \in Imports \ {o} : import'[c] = import[c]
  BY <1>1, <1>2 DEF Becomes
<1>3. ASSUME NEW status, Answer(o, status)
      PROVE  \A c \in Imports \ {o} : import'[c] = import[c]
  BY <1>1, <1>3 DEF Answer
<1>4. CASE Refuse(o)
  BY <1>3, <1>4 DEF Refuse
<1>5. CASE ~Refuse(o)
  <2>1. CASE ConfirmImport(o)
    BY <1>2, <1>5, <2>1 DEF ConfirmImport
  <2>2. CASE ResolveManagers(o)
    BY <1>2, <2>2 DEF ResolveManagers
  <2>3. CASE ReadRow(o)
    BY <1>2, <1>5, <2>3 DEF ReadRow
  <2>4. CASE WriteRow(o)
    BY <1>2, <1>5, <2>4 DEF WriteRow
  <2>5. CASE Provision(o)
    BY <1>2, <1>5, <2>5 DEF Provision
  <2>6. CASE Commit(o)
    BY <1>3, <2>6 DEF Commit
  <2>7. CASE PreviewCsv(o)
    BY <1>2, <2>7 DEF PreviewCsv
  <2>8. CASE ConfirmCsv(o)
    BY <1>2, <2>8 DEF ConfirmCsv
  <2>9. CASE InsertCsv(o)
    BY <1>2, <2>9 DEF InsertCsv
  <2> QED BY <1>5, <2>1, <2>2, <2>3, <2>4, <2>5, <2>6, <2>7, <2>8, <2>9 DEF Server, Abort
<1> QED BY <1>4, <1>5

(* Only the wizard starts an import.                                       *)
LEMMA OnlyTheWizardConfirms ==
  ASSUME ImportInv, ImportNext, NEW c \in Imports,
         import[c].op = "idle", import'[c].op = "confirm"
  PROVE  \E d \in Dialogs : RunConfirm(d, c)
<1>1. DOMAIN import = Imports
  BY DEF ImportInv
<1>2. CASE \E d \in Dialogs : Wizard(d)
  <2>1. PICK d \in Dialogs : Wizard(d)
    BY <1>2
  <2>2. CASE \E o \in Imports : RunConfirm(d, o)
    <3>1. PICK o \in Imports : RunConfirm(d, o)
      BY <2>2
    <3>2. import' = [import EXCEPT ![o] = Sent(d, dialog[d].file, dialog[d].accounts)]
      BY <3>1 DEF RunConfirm
    <3>3. o = c
      BY <1>1, <3>2
    <3> QED BY <3>1, <3>3
  <2>3. CASE ~\E o \in Imports : RunConfirm(d, o)
    <3>1. import' = import
      BY <2>1, <2>3 DEF Wizard, OpenDialog, CloseDialog, PickFile, ChooseSettings, RunPreview,
                       Preview, ReUpload, LoseAnswer
    <3> QED BY <3>1
  <2> QED BY <2>2, <2>3
<1>3. ASSUME NEW o \in Imports, Server(o) PROVE FALSE
  <2>1. o = c
    BY <1>3, ServerMovesItsOwn
  <2>2. PreviewCsv(c)
    BY <1>3, <2>1 DEF Server, ConfirmImport, ResolveManagers, ReadRow, WriteRow, Provision, Commit,
                     Abort, ConfirmCsv, InsertCsv, Running
  <2>3. import'[c].op = "csv"
    BY <1>1, <2>2 DEF PreviewCsv, Becomes
  <2> QED BY <2>3
<1>4. ASSUME Elsewhere PROVE FALSE
  <2>1. import' = import
    BY <1>4, ElsewhereKeeps
  <2> QED BY <2>1
<1> QED BY <1>2, <1>3, <1>4 DEF ImportNext, Elsewhere

(* Whatever was opened, picked or lost before, the wizard sends to be      *)
(* imported the file and the settings whose preview it shows, and that     *)
(* preview had no error (runConfirm of import-dialog.tsx).                 *)
THEOREM WizardSendsWhatItShows == ImportSpec => ConfirmedIsPreviewed
<1> DEFINE Step == \A d \in Dialogs, c \in Imports :
       import[c].op = "idle" /\ import'[c].op = "confirm" /\ import'[c].by = d =>
             /\ dialog[d].result.errors = {}
             /\ dialog[d].result.of = [file |-> import'[c].file, accounts |-> import'[c].accounts]
<1>1. ImportInv /\ [ImportNext]_importVars => [Step]_importVars
  <2> SUFFICES ASSUME ImportInv, ImportNext, NEW d \in Dialogs, NEW c \in Imports,
                      import[c].op = "idle", import'[c].op = "confirm", import'[c].by = d
               PROVE  /\ dialog[d].result.errors = {}
                      /\ dialog[d].result.of = [file |-> import'[c].file,
                                                accounts |-> import'[c].accounts]
    OBVIOUS
  <2>1. PICK e \in Dialogs : RunConfirm(e, c)
    BY OnlyTheWizardConfirms
  <2>2. /\ dialog[e].result.errors = {}
        /\ dialog[e].result.of = [file |-> dialog[e].file, accounts |-> dialog[e].accounts]
        /\ import'[c].by = e /\ import'[c].file = dialog[e].file
        /\ import'[c].accounts = dialog[e].accounts
    BY <2>1, ConfirmStep
  <2> QED BY <2>2
<1> HIDE DEF Step
<1>2. ImportSpec => [][Step]_importVars
  BY <1>1, ImportInductive, PTL DEF ImportSpec
<1> QED BY <1>2 DEF Step, ConfirmedIsPreviewed

(* An import that commits leaves no employee of its file without an        *)
(* assignment and, where the file asks for one, without an account only    *)
(* whom it had read with one, which was unlinked or deleted meanwhile      *)
(* (provisionEmployeeAccounts, provisionEmployeeAssignments).              *)
THEOREM ImportsProvision == ImportSpec => ImportedIsProvisioned
<1> DEFINE Step == \A c \in Imports : Commits(c) =>
          \A r \in ToSet(import[c].file.rows) :
             /\ r.number \in DOMAIN employee' /\ employee'[r.number].assigned
             /\ (r.status = "active" /\ r.email # None /\ import[c].accounts) =>
                   \/ employee'[r.number].account # None
                   \/ import[c].read[r.number].account # None
<1>1. ImportInv /\ [ImportNext]_importVars => [Step]_importVars
  <2> SUFFICES ASSUME ImportInv, ImportNext, NEW c \in Imports, Commits(c),
                      NEW r \in ToSet(import[c].file.rows)
               PROVE  /\ r.number \in DOMAIN employee' /\ employee'[r.number].assigned
                      /\ (r.status = "active" /\ r.email # None /\ import[c].accounts) =>
                            \/ employee'[r.number].account # None
                            \/ import[c].read[r.number].account # None
    OBVIOUS
  <2>1. import[c].op = "commit" /\ import'[c].op = "success" /\ DOMAIN import = Imports
    BY DEF Commits, Running, ImportInv
  <2>2. Commit(c)
    <3>1. ASSUME NEW d \in Dialogs, Wizard(d) PROVE FALSE
      <4>1. \/ import' = import
            \/ \E o \in Imports : import' = [import EXCEPT ![o] = Sent(d, dialog[d].file, dialog[d].accounts)]
        BY <3>1 DEF Wizard, OpenDialog, CloseDialog, PickFile, ChooseSettings, RunPreview,
                   Preview, ReUpload, LoseAnswer, RunConfirm
      <4>2. \A f, b : Sent(d, f, b).op = "confirm"
        BY DEF Sent
      <4> QED BY <2>1, <4>1, <4>2
    <3>2. ASSUME Elsewhere PROVE FALSE
      <4>1. import' = import
        BY <3>2, ElsewhereKeeps
      <4> QED BY <2>1, <4>1
    <3>3. ASSUME NEW o \in Imports, Server(o) PROVE Commit(c)
      <4>1. o = c
        BY <2>1, <3>3, ServerMovesItsOwn
      <4>2. Commit(c) \/ Abort(c)
        BY <2>1, <3>3, <4>1 DEF Server, ConfirmImport, ResolveManagers, ReadRow, WriteRow, Provision,
                     PreviewCsv, ConfirmCsv, InsertCsv, Running
      <4>3. CASE Abort(c)
        <5>1. import'[c].op = "error"
          BY <2>1, <4>3 DEF Abort, Refuse, Answer
        <5> QED BY <2>1, <5>1
      <4> QED BY <4>2, <4>3
    <3> QED BY <3>1, <3>2, <3>3 DEF ImportNext, Elsewhere
  <2>3. PICK s : s = import[c]
    OBVIOUS
  <2>4. /\ Provisioned(s) /\ employee' = Over(s.new, employee)
        /\ MayHold(s.file, s.by) /\ Checked(s.file)
        /\ \A i \in DOMAIN s.file.rows : s.file.rows[i].number \in DOMAIN s.new
    BY <2>2, <2>3, CommitStep
  <2>5. PICK i \in DOMAIN s.file.rows : r = s.file.rows[i]
    BY <2>3, <2>4, RowsOfAFile
  <2>6. r.number \in DOMAIN employee' /\ employee'[r.number] = s.new[r.number]
    BY <2>4, <2>5 DEF Over
  <2> QED BY <2>3, <2>4, <2>5, <2>6 DEF Provisioned
<1> HIDE DEF Step
<1>2. ImportSpec => [][Step]_importVars
  BY <1>1, ImportInductive, PTL DEF ImportSpec
<1> QED BY <1>2 DEF Step, ImportedIsProvisioned
=============================================================================
