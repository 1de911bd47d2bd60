---------------------------- MODULE LeaveScreens ----------------------------
(***************************************************************************)
(* What the pages of leave show of the rows, and which actions they offer: *)
(* features/leave/queries.ts, app/(dashboard)/leave, the dialog and the    *)
(* buttons, and the leave figures of both dashboards.  The pages are       *)
(* operators of the state: they are read anew on every request, while      *)
(* calls are under way.  Lists are cut to 50 or 20 rows, more than an      *)
(* instance has; names, texts and the order of the rows are left out.      *)
(***************************************************************************)
EXTENDS LeaveRequests

\* What the figures are summed over; a year has no missing days.
ASSUME ScreenConstants ==
    /\ IsFiniteSet(Employees) /\ IsFiniteSet(LeaveTypes) /\ IsFiniteSet(Years)
    /\ IsFiniteSet(Days) /\ \A d, e \in Days : d..e \subseteq Days

Users == Reviewers \cup {UserOf[e] : e \in Employees}

\* leave.approve or leave.manage.
CanReview(u) == u \in Reviewers

Present == {r \in Requests : status[r] # "none"}

-----------------------------------------------------------------------------
(* The queries                                                             *)

\* getLeaveTypeInOrganization asks for any type, listActiveLeaveTypes for these.
listActiveLeaveTypes == ActiveTypes

getLeaveBalance(e, t, year) == balance[<<e, t, year>>]

\* One card for each balance row of the employee.
listLeaveBalances(e) ==
    LET rows == {a \in Accounts : a[1] = e /\ getLeaveBalance(e, a[2], a[3]) # NoBalance}
    IN  [a \in rows |->
            [entitlement |-> balance[a].entitlement, adjustment |-> balance[a].adjustment,
             used |-> balance[a].used, pending |-> balance[a].pending,
             available |-> balance[a].entitlement + balance[a].adjustment
                             - balance[a].used - balance[a].pending]]

\* The columns of a request, as lists and detail page join them.
toLeaveRequestRow(r) ==
    [employee |-> form[r].employee, type |-> form[r].type,
     first |-> form[r].first, last |-> form[r].last,
     totalDays |-> DaysOf(form[r]), status |-> status[r]]

listMyLeaveRequests(e) ==
    [r \in {q \in Present : form[q].employee = e} |-> toLeaveRequestRow(r)]

\* An absent filter admits everything.
listOrganizationLeaveRequests(statuses, types) ==
    [r \in {q \in Present : status[q] \in statuses /\ form[q].type \in types}
        |-> toLeaveRequestRow(r)]

getLeaveRequestDetail(r) == [request |-> toLeaveRequestRow(r), events |-> events[r]]

-----------------------------------------------------------------------------
(* The pages                                                               *)

\* leave/page.tsx: the total of this year's cards stands above its tabs.
EmployeePage(e, currentYear) ==
    LET cards == listLeaveBalances(e)
        ofThisYear == {a \in DOMAIN cards : a[3] = currentYear}
    IN  [cards |-> cards, annual |-> ofThisYear,
         availableTotal |->
            SumFunctionOnSet([a \in ofThisYear |-> cards[a].available], ofThisYear),
         requests |-> DOMAIN listMyLeaveRequests(e),
         types |-> listActiveLeaveTypes]

\* The tab to ask in, with the dialog; the history, with links to the details.
AjukanTab(page) ==
    [cards |-> [a \in page.annual |-> page.cards[a]], types |-> page.types]
RiwayatTab(page) == page.requests

\* Headed by the current year, but of every year.
SaldoTab(page) == page.cards

\* leave/balances/page.tsx shows every year.
BalancesPage(e) == listLeaveBalances(e)

\* leave/management/page.tsx, with the links to the detail pages.
ManagementPage(u, statuses, types) ==
    IF CanReview(u) THEN DOMAIN listOrganizationLeaveRequests(statuses, types) ELSE {}

IsOwner(u, r) == u = UserOf[form[r].employee]

\* leave/[requestId]/page.tsx: forbidden to everyone else.
DetailOpens(u, r) == r \in Present /\ (IsOwner(u, r) \/ CanReview(u))

\* The card of actions appears while the request is pending.
LeaveRequestActions(u, r) ==
    [canCancel |-> status[r] = "pending" /\ IsOwner(u, r),
     canReview |-> status[r] = "pending" /\ CanReview(u) /\ ~IsOwner(u, r)]

\* leave-create-dialog.tsx submits any dates for a type of its list.
LeaveCreateDialog(e, currentYear) ==
    {f \in Form : /\ f.employee = e
                  /\ f.type \in AjukanTab(EmployeePage(e, currentYear)).types}

\* MUTANT of countLeaveRequestsOnDate: the last day does not count.
CountUntilLastDay(d, s) ==
    Cardinality({r \in Present : status[r] = s /\ form[r].first <= d /\ d < form[r].last})

\* dashboard/queries.ts
countLeaveRequestsOnDate(d, s) ==
    Cardinality({r \in Present : status[r] = s /\ form[r].first <= d /\ d <= form[r].last})

pendingLeave == Cardinality({r \in Present : status[r] = "pending"})

\* employee-dashboard.tsx, from the requests and cards of the leave page.
OnLeaveToday(e, today) ==
    LET mine == listMyLeaveRequests(e)
    IN  \E r \in DOMAIN mine :
           mine[r].status = "approved" /\ mine[r].first <= today /\ today <= mine[r].last

EmployeeDashboard(e, currentYear) ==
    LET mine == listMyLeaveRequests(e)
    IN  [available |-> EmployeePage(e, currentYear).availableTotal,
         pending |-> Cardinality({r \in DOMAIN mine : mine[r].status = "pending"})]

-----------------------------------------------------------------------------
UsersRequests(u) ==
    UNION {DOMAIN listMyLeaveRequests(e) : e \in {x \in Employees : UserOf[x] = u}}

(* Every listed request opens, and only to those it is listed for.  The    *)
(* owner's cancellation and a reviewer's decision are offered when the     *)
(* server lets them in, and a decision that nobody overtakes is not        *)
(* refused for want of a balance, whatever calls wrote the counters since. *)
OfferedDecisionsAreAccepted ==
    \A u \in Users, r \in Present :
        LET shown == LeaveRequestActions(u, r)
            listed == UsersRequests(u) \cup ManagementPage(u, Statuses, LeaveTypes)
        IN  /\ DetailOpens(u, r) <=> r \in listed
            /\ shown.canReview => r \in ManagementPage(u, {"pending"}, LeaveTypes)
            /\ shown.canReview \/ shown.canCancel
                  => BalanceBacks(balance[AccountOf(form[r])], form[r])
            /\ shown.canCancel <=> MayCancel(r, u)
            /\ shown.canReview => MayReview(r, u)

(* The cards tell what can still be asked for: each live request is on the *)
(* list and charged to a card, and a form the dialog can send is accepted  *)
(* exactly when it overlaps no live request of the list and, where there   *)
(* is a card for the year it begins in, its days are available there.      *)
CardsTellWhatIsAccepted ==
    \A e \in Employees, year \in Years :
        LET page == EmployeePage(e, year)
            live == {r \in RiwayatTab(page) : Live(r)}
            all == SaldoTab(page)
            current == AjukanTab(page).cards
        IN  /\ BalancesPage(e) = all
            /\ page.availableTotal >= 0
            /\ \A r \in live : AccountOf(form[r]) \in DOMAIN all
            /\ \A f \in LeaveCreateDialog(e, year) :
                  /\ NoOverlapFor(f) <=> \A r \in live : ~Overlap(form[r], f)
                  /\ AccountOf(f) \in DOMAIN current =>
                        (Covers(balance[AccountOf(f)], f)
                            <=> DaysOf(f) <= current[AccountOf(f)].available)

(* The dashboards count days as the balances do: over the calendar, "on    *)
(* leave today" adds up to the days used, also across the turn of a year,  *)
(* an employee on leave is counted, and the approvals are those listed.    *)
DashboardsFollowBalances ==
    LET charged == {a \in Accounts : balance[a] # NoBalance}
        OnLeave(s) == [d \in Days |-> countLeaveRequestsOnDate(d, s)]
    IN  /\ SumFunctionOnSet(OnLeave("approved"), Days)
              = SumFunctionOnSet([a \in charged |-> balance[a].used], charged)
        /\ SumFunctionOnSet(OnLeave("pending"), Days)
              = SumFunctionOnSet([a \in charged |-> balance[a].pending], charged)
        /\ \A u \in Reviewers :
              pendingLeave = Cardinality(ManagementPage(u, {"pending"}, LeaveTypes))
        /\ \A y \in Years : pendingLeave = SumFunctionOnSet(
              [e \in Employees |-> EmployeeDashboard(e, y).pending], Employees)
        /\ \A d \in Days :
              (\E e \in Employees : OnLeaveToday(e, d))
                  <=> countLeaveRequestsOnDate(d, "approved") > 0

\* The pages and the actions of leave agree.
ScreensFollowRequests ==
    /\ OfferedDecisionsAreAccepted
    /\ CardsTellWhatIsAccepted
    /\ DashboardsFollowBalances
=============================================================================
