--------------------------- MODULE AccountScreens ---------------------------
(***************************************************************************)
(* The pages settings/users, settings/roles and settings/organizations     *)
(* with their dialogs: what they show of the rows of Accounts and Tenants, *)
(* what their forms offer and what a form submits.  A page is rendered in  *)
(* one state; whoever uses it later meets the guards of the actions again. *)
(*                                                                         *)
(* The four user permissions are one permission of the model, as are the   *)
(* four for roles: who opens a page is offered all its actions.  Names,    *)
(* addresses and dates are left out.                                       *)
(***************************************************************************)
EXTENDS Tenants

\* The tables behind the counts are finite.
ASSUME FiniteTables == \A S \in {Users, Employees, Roles, Calls} : IsFiniteSet(S)

-----------------------------------------------------------------------------
(* The list of users                                                       *)

\* ROLE_DISPLAY_PRECEDENCE; codes outside the catalog come last.
Rank(code) == CASE code = "SUPERADMIN" -> 1 [] code = "ADMIN" -> 2
                [] code = "EMPLOYEE" -> 3 [] OTHER -> 4

\* Empty without a role; of several roles outside the catalog, any.
primaryGrant(rs) == {r \in rs : \A o \in rs : Rank(role[r].code) <= Rank(role[o].code)}

UsersOf(org) == {u \in DOMAIN account : account[u].org = org}

\* Only roles of the organization count here, as in getUserAuthorization.
listGrantsForOrganization(org) == [u \in UsersOf(org) |-> OwnRoles(u)]

\* A left join: an account linked to two employees is listed twice.
listUsersForOrganization(org) ==
    LET linked(u) == {e \in Employees : link[e] = u}
    IN  UNION {{[id |-> u, status |-> account[u].status, employee |-> e,
                 roles |-> primaryGrant(listGrantsForOrganization(org)[u])] :
                   e \in IF linked(u) = {} THEN {Nobody} ELSE linked(u)} :
                u \in UsersOf(org)}

listLinkableEmployees(org, current) == {e \in Employees : Linkable(e, org, current)}

listRolesByOrganization(org) ==
    [r \in {x \in DOMAIN role : role[x].org = org} |->
        [permissionCount |-> Cardinality(role[r].permissions),
         memberCount |-> Cardinality({g \in grants : g.role = r})]]

-----------------------------------------------------------------------------
(* settings/users                                                          *)

\* MUTANT: the last super administrator is miscounted by one.
offByOneEligibility(list, actor, historied) ==
    LET count == CountActiveSuperAdmins
    IN  {row.id : row \in {x \in list :
            /\ x.id # actor /\ x.id \notin historied
            /\ ~((\E r \in x.roles : role[r].code = "SUPERADMIN") /\ count < 1)}}

\* The rows with a Delete button; `historied` are the accounts with protected
\* history.
computeDeleteEligibility(list, actor, historied) ==
    LET count == CountActiveSuperAdmins
    IN  {row.id : row \in {x \in list :
            /\ x.id # actor /\ x.id \notin historied
            /\ ~((\E r \in x.roles : role[r].code = "SUPERADMIN") /\ count <= 1)}}

listAllOrganizationsForSuperAdmin == {o \in DOMAIN organization : Available(o)}

\* The selector of a super administrator offers the active ones; anyone else
\* stays at home, even in an organization that is not active.
SelectableOrganizations(actor) ==
    IF IsSuperAdmin(actor) THEN listAllOrganizationsForSuperAdmin ELSE {account[actor].org}

\* The actions of a row.
RowActions(row, deletable) ==
    {"Edit", "Reset Password"} \cup (IF row.id \in deletable THEN {"Delete"} ELSE {})

UsersManager(list, deletable) == [row \in list |-> RowActions(row, deletable)]

\* The options of the dialogs are those of the page: the list of employees is
\* computed without a current user.
UsersSettingsPage(actor, org, historied) ==
    LET list == listUsersForOrganization(org)
    IN  [rows |-> UsersManager(list, computeDeleteEligibility(list, actor, historied)),
         roles |-> DOMAIN listRolesByOrganization(org),
         employees |-> listLinkableEmployees(org, Nobody)]

\* An active account needs a password, in the dialog and in createUserSchema.
CreateUserForms(page) ==
    [role : page.roles, employee : page.employees \cup {Nobody},
     status : Statuses, password : BOOLEAN]
CreateUserDialog(page) ==
    {f \in CreateUserForms(page) : f.status = "active" => f.password}

\* What a select shows when it opens: the value if it is an option, else the
\* first option, which stands for none.
Preselected(value, options) == IF value \in options THEN value ELSE Nobody

SubmittedEmployee(e) == IF e = Nobody THEN Unlink ELSE LinkTo(e)

\* What the edit dialog submits if nothing in it is touched, one of these.  The
\* employee an account is linked to is no option, so this always unlinks it.
UntouchedEdits(page, row) ==
    {[role |-> r, status |-> row.status,
      edit |-> SubmittedEmployee(Preselected(row.employee, page.employees))] :
        r \in IF row.roles = {} THEN {Nobody} ELSE row.roles}

-----------------------------------------------------------------------------
(* settings/roles                                                          *)

RolesPage(actor) == listRolesByOrganization(account[actor].org)

\* Permissions reserved for the system are offered for the super role only.
assignableCatalog(r) ==
    IF role[r].code = "SUPERADMIN" THEN Permissions ELSE Permissions \ SystemOnly

\* RoleDetailPage refuses other roles.
OpensRole(actor, r) ==
    /\ Requires(actor, "roles")
    /\ RoleIn(r, account[actor].org)
    /\ role[r].code = "SUPERADMIN" => IsSuperAdmin(actor)

canDelete(r) == ~role[r].system /\ role[r].code # "SUPERADMIN"

\* The boxes that can be ticked; a granted code outside of the catalog has no
\* box and is not submitted.
RolePermissionEditor(r) ==
    LET catalog == assignableCatalog(r)
    IN  [submissions |-> SUBSET catalog,
         untouched |-> catalog \cap role[r].permissions,
         danger |-> canDelete(r)]

-----------------------------------------------------------------------------
(* settings/organizations                                                  *)

listOrganizations ==
    [o \in DOMAIN organization |->
        [row |-> organization[o],
         employeeCount |-> detectOrganizationDependencies(o).employees,
         userCount |-> detectOrganizationDependencies(o).users]]

\* The list knows of employees and users only.
OrganizationsManager ==
    [o \in DOMAIN organization |->
        LET row == listOrganizations[o]
        IN  {"View", "Edit"} \cup
            (IF row.row.code = SystemCode \/ row.employeeCount + row.userCount > 0
             THEN {} ELSE {"Delete"})]

\* The page of one organization shows what the scan of a deletion would count.
OrganizationDetailPage(o) ==
    LET counts == detectOrganizationDependencies(o)
    IN  [actions |-> {"Edit"} \cup (IF organization[o].code = SystemCode THEN {} ELSE {"Delete"}),
         linked |-> {k \in DOMAIN counts : counts[k] > 0}]

\* Fields that are disabled, those of the system's organization, are not sent.
EditOrganizationDialog(row) ==
    IF row.code = SystemCode THEN <<>> ELSE [code |-> row.code, status |-> row.status]

-----------------------------------------------------------------------------
(* Properties                                                              *)

\* The users page shows Delete beside exactly the accounts whose deletion the
\* action would accept in the same state.  The page judges by the role it
\* displays, one of the own organization, the action by every grant.
DeleteFollowsPolicy(actor, org) ==
    \A historied \in {{}, UsersOf(org)} :
        LET page == UsersSettingsPage(actor, org, historied)
        IN  \A row \in DOMAIN page.rows :
                "Delete" \in page.rows[row]
                    <=> MayDeleteUser(actor, row.id, row.id \in historied)

\* Every form the create dialog can submit is accepted, except the super
\* administrator's role from anybody else and, from administrators of an
\* organization that is not active, all of them.
CreationIsAccepted(actor, org) ==
    LET page == UsersSettingsPage(actor, org, {})
    IN  Available(org) => \A f \in CreateUserDialog(page) :
            (IsSuperAdmin(actor) \/ role[f.role].code # "SUPERADMIN") =>
                MayCreateUser(actor, org, f.role, f.employee)

\* Saving the edit dialog as it opened is accepted wherever the account may be
\* managed at all, and grants no role.
UntouchedEditIsAccepted(actor, org) ==
    LET page == UsersSettingsPage(actor, org, {})
    IN  \A row \in DOMAIN page.rows : \A f \in UntouchedEdits(page, row) :
            /\ f.role \in RolesOf(row.id) \cup {Nobody}
            /\ (IsSuperAdmin(actor) \/ ~IsSuperAdminAccount(row.id)) =>
                   MayUpdateUser(actor, row.id, f.status, f.role, f.edit)

\* The role editor has a box for every permission a role has, so that saving it
\* untouched submits what is stored; a super administrator may save whatever
\* else it offers; and Delete works where the list of roles shows no member.
RoleEditorIsFaithful(actor, r) ==
    LET editor == RolePermissionEditor(r)
    IN  /\ editor.untouched = role[r].permissions
        /\ \A ps \in editor.submissions \ {{}} :
               IsSuperAdmin(actor) => MayUpdateRole(actor, r, ps)
        /\ (editor.danger /\ RolesPage(actor)[r].memberCount = 0)
               <=> MayDeleteRole(actor, r)

\* Whatever can be deleted has its button in the list and in the detail page;
\* the latter says "safe to delete" exactly when the action agrees; and the edit
\* dialog saved as it opened is accepted and names what is stored.
OrganizationPagesAreFaithful(actor, o) ==
    LET detail == OrganizationDetailPage(o)
        untouched == EditOrganizationDialog(listOrganizations[o].row)
    IN  /\ MayDeleteOrganization(actor, o) =>
              "Delete" \in OrganizationsManager[o] \cap detail.actions
        /\ "Delete" \in detail.actions =>
              (detail.linked = {} <=> MayDeleteOrganization(actor, o))
        /\ untouched \in OrganizationForm
        /\ MayUpdateOrganization(actor, o, untouched)

\* Pages and dialogs of accounts, roles and organizations offer what the actions accept,
\* whatever calls are under way (app/(dashboard)/settings/users/page.tsx:46,
\* features/users/user-delete-dialog.tsx, roles/[roleId]/page.tsx:79).
ScreensFollowAccounts ==
    \A actor \in Users :
        /\ Requires(actor, "users") =>
              \A org \in SelectableOrganizations(actor) :
                  /\ DeleteFollowsPolicy(actor, org)
                  /\ CreationIsAccepted(actor, org)
                  /\ UntouchedEditIsAccepted(actor, org)
        /\ \A r \in DOMAIN role : OpensRole(actor, r) => RoleEditorIsFaithful(actor, r)
        /\ SuperAdminActor(actor) =>
              \A o \in DOMAIN organization : OrganizationPagesAreFaithful(actor, o)
=============================================================================
