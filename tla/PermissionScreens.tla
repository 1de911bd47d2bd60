-------------------------- MODULE PermissionScreens --------------------------
(***************************************************************************)
(* What the pages of permission requests show of the rows and which        *)
(* actions they offer: features/permission/queries.ts, its dialog and      *)
(* buttons, app/(dashboard)/permission, and the figures of the dashboards. *)
(* A page is an operator of the state: it is read anew on every request,   *)
(* while calls are under way.  Lists are cut to 50 or 20 rows, more than   *)
(* an instance has; texts, times and the order of the rows are left out.   *)
(***************************************************************************)
EXTENDS PermissionRequests, FiniteSets

Present == {r \in Requests : status[r] # "none"}

\* permission.approve or permission.manage.
CanReview(u) == u \in Reviewers

IsOwner(u, r) == u = UserOf[owner[r]]

-----------------------------------------------------------------------------
(* The queries                                                             *)

toRow(r) == [employee |-> owner[r], status |-> status[r]]

listMyPermissionRequests(e) ==
    [r \in {q \in Present : owner[q] = e} |-> toRow(r)]

\* An absent filter admits every status.
listOrganizationPermissionRequests(statuses) ==
    [r \in {q \in Present : status[q] \in statuses} |-> toRow(r)]

\* Events come with the e-mail of their actor.
getPermissionRequestDetail(r) == [request |-> toRow(r), events |-> events[r]]

-----------------------------------------------------------------------------
(* The pages                                                               *)

\* permission/page.tsx, for the employee linked to the session's user.
PermissionPage(u) ==
    UNION {DOMAIN listMyPermissionRequests(e) : e \in {x \in Staff : UserOf[x] = u}}

\* permission/management/page.tsx
PermissionManagementPage(u, statuses) ==
    IF CanReview(u) THEN DOMAIN listOrganizationPermissionRequests(statuses) ELSE {}

\* permission/[requestId]/page.tsx: forbidden to everyone else.
DetailPage(u, r) ==
    [opens |-> r \in Present /\ (IsOwner(u, r) \/ CanReview(u)),
     history |-> getPermissionRequestDetail(r).events]

\* MUTANT of PermissionRequestActions: reviewers may decide their own request.
ActionsForEveryReviewer(u, r) ==
    LET pending == toRow(r).status = "pending"
    IN  [canCancel |-> pending /\ IsOwner(u, r), canReview |-> pending /\ CanReview(u)]

\* The card of actions appears while the request is pending.
PermissionRequestActions(u, r) ==
    LET pending == toRow(r).status = "pending"
    IN  [canCancel |-> pending /\ IsOwner(u, r),
         canReview |-> pending /\ CanReview(u) /\ ~IsOwner(u, r)]

\* permission-create-dialog.tsx names no employee: it is the linked one.
PermissionCreateDialog(u) == {e \in Staff : UserOf[e] = u}

\* dashboard/queries.ts
pendingPermission == Cardinality({r \in Present : status[r] = "pending"})

\* What employee-dashboard.tsx counts of the employee's own list.
PendingOnDashboard(e) ==
    LET mine == listMyPermissionRequests(e)
    IN  {r \in DOMAIN mine : mine[r].status = "pending"}

-----------------------------------------------------------------------------
(* A request opens exactly for those whom a list shows it, and for whoever *)
(* acted on it, long after.                                                *)
DetailsOpenFromLists ==
    \A u \in Users, r \in Present :
        LET page == DetailPage(u, r)
        IN  /\ page.opens <=> r \in PermissionPage(u)
                                  \cup PermissionManagementPage(u, {"pending"} \cup Decisions)
            /\ (\E i \in DOMAIN page.history : page.history[i].actor = u) => page.opens

(* Buttons appear when the server lets the call in, only beside a history  *)
(* without a decision, and the cancel button whenever the server would let *)
(* the owner cancel; who is offered a review finds it in the management    *)
(* list.                                                                   *)
ButtonsFollowGuards ==
    \A u \in Users, r \in Present :
        LET shown == PermissionRequestActions(u, r)
            page == DetailPage(u, r)
        IN  /\ shown.canReview \/ shown.canCancel =>
                  page.opens /\ {i \in DOMAIN page.history : page.history[i].type \in Decisions} = {}
            /\ shown.canReview => r \in PermissionManagementPage(u, {"pending"})
            /\ shown.canReview => MayReview(r, u)
            /\ shown.canCancel <=> \E e \in PermissionCreateDialog(u) : MayCancel(r, e)

(* The dashboard of management and its list count the same, and each       *)
(* waiting request is counted on the dashboard of one employee.            *)
DashboardsCountOnce ==
    /\ \A u \in Reviewers :
          pendingPermission = Cardinality(PermissionManagementPage(u, {"pending"}))
    /\ UNION {PendingOnDashboard(e) : e \in Staff} = {r \in Present : status[r] = "pending"}
    /\ \A e, f \in Staff : e # f => PendingOnDashboard(e) \cap PendingOnDashboard(f) = {}

\* Pages and actions of permission requests agree, while calls race.
ScreensFollowRequests ==
    /\ DetailsOpenFromLists
    /\ ButtonsFollowGuards
    /\ DashboardsCountOnce
=============================================================================
