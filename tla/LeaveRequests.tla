--------------------------- MODULE LeaveRequests ---------------------------
(***************************************************************************)
(* Leave requests and leave balances (features/leave/actions.ts).          *)
(*                                                                         *)
(* A call is one execution of a server action.  Its database transaction   *)
(* runs under READ COMMITTED: what it reads before it holds a row lock may *)
(* be out of date by the time it writes.  Therefore every read and every   *)
(* SELECT ... FOR UPDATE is a step of its own; the writes become visible   *)
(* together, in the step that commits and releases the row locks.          *)
(***************************************************************************)
EXTENDS Integers, Sequences, FiniteSets, Functions

CONSTANTS
    Employees, LeaveTypes,
    ActiveTypes,       \* the leave types with active = true
    DefaultAllowance,  \* leave type -> days, or NoAllowance
    Days,              \* the calendar, a set of day numbers
    Years, YearOf,     \* the year bucket of a day
    Grants,            \* entitlements of the balances that exist at the start
    Adjustments,       \* corrections of these entitlements
    Reviewers,         \* users with leave.approve or leave.manage
    UserOf,            \* employee -> the user account linked to it
    Requests,          \* ids of request rows
    Calls,             \* concurrent executions of the actions
    NoBalance, NoAllowance, NoForm, NoCall

ASSUME LeaveConstants ==
    /\ ActiveTypes \subseteq LeaveTypes
    /\ Days \subseteq Int
    /\ YearOf \in [Days -> Years]
    /\ Grants \subseteq Nat /\ Adjustments \subseteq Int
    /\ NoAllowance \notin Int
    /\ DefaultAllowance \in [LeaveTypes -> Nat \cup {NoAllowance}]
    /\ NoCall \notin Calls
    /\ Requests # {} /\ IsFiniteSet(Requests)

VARIABLES
    status,       \* leave_requests.status, "none" while the row is absent
    form,         \* who asked for which days of which type
    balance,      \* leave_balances: at most one row per account
    events,       \* leave_request_events, in order of insertion
    requestLock,  \* the call that holds the request row
    balanceLock,  \* the call that holds the balance row
    call          \* where each call stands and what it has read

vars == <<status, form, balance, events, requestLock, balanceLock, call>>

Form == [employee: Employees, type: LeaveTypes, first: Days, last: Days]
Accounts == Employees \X LeaveTypes \X Years
Balance == [entitlement: Nat, adjustment: Int, used: Nat, pending: Nat]
ASSUME LeaveNulls == NoForm \notin Form /\ NoBalance \notin Balance

Decisions == {"approved", "rejected", "cancelled"}
Statuses == {"none", "pending"} \cup Decisions

\* A balance belongs to the year in which the leave starts.
AccountOf(f) == <<f.employee, f.type, YearOf[f.first]>>

\* MUTANT of DaysOf: the last day does not count.
DaysOfNoLastDay(f) == f.last - f.first
DaysOf(f) == f.last - f.first + 1

Overlap(f, g) == /\ f.employee = g.employee /\ f.type = g.type
                 /\ f.first <= g.last /\ g.first <= f.last

Live(r) == status[r] \in {"pending", "approved"}

Available(b) == b.entitlement + b.adjustment - b.used - b.pending

Idle == [stage |-> "idle", op |-> "create", request |-> CHOOSE r \in Requests : TRUE,
         form |-> NoForm, seen |-> NoBalance]

CallRecord == [stage: {"idle", "open", "claimed", "ready"},
               op: {"create"} \cup Decisions,
               request: Requests,
               form: Form \cup {NoForm},
               seen: Balance \cup {NoBalance}]

TypeOK ==
    /\ status \in [Requests -> Statuses]
    /\ form \in [Requests -> Form \cup {NoForm}]
    /\ balance \in [Accounts -> Balance \cup {NoBalance}]
    /\ events \in [Requests -> Seq({"submitted"} \cup Decisions)]
    /\ requestLock \in [Requests -> Calls \cup {NoCall}]
    /\ balanceLock \in [Accounts -> Calls \cup {NoCall}]
    /\ call \in [Calls -> CallRecord]

\* Balance rows granted by HR before any request is made.
OpeningBalance ==
    {b \in [entitlement: Grants, adjustment: Adjustments, used: {0}, pending: {0}] :
        Available(b) >= 0}

Init ==
    /\ status = [r \in Requests |-> "none"]
    /\ form = [r \in Requests |-> NoForm]
    /\ balance \in [Accounts -> OpeningBalance \cup {NoBalance}]
    /\ events = [r \in Requests |-> <<>>]
    /\ requestLock = [r \in Requests |-> NoCall]
    /\ balanceLock = [a \in Accounts |-> NoCall]
    /\ call = [c \in Calls |-> Idle]

-----------------------------------------------------------------------------
(* Ending a transaction releases every row lock it holds.                  *)

Released(lock, c) == [x \in DOMAIN lock |-> IF lock[x] = c THEN NoCall ELSE lock[x]]

EndCall(c) ==
    /\ call' = [call EXCEPT ![c] = Idle]
    /\ requestLock' = Released(requestLock, c)
    /\ balanceLock' = Released(balanceLock, c)

\* MUTANT of RollBack: the locks outlive the transaction.
RollBackKeepingLocks(c) ==
    /\ call' = [call EXCEPT ![c] = Idle]
    /\ UNCHANGED <<status, form, balance, events, requestLock, balanceLock>>

RollBack(c) ==
    /\ EndCall(c)
    /\ UNCHANGED <<status, form, balance, events>>

At(c, stage, ops) == call[c].stage = stage /\ call[c].op \in ops

-----------------------------------------------------------------------------
(* createLeaveRequestAction                                                *)

(* The form is valid, the type is active, and no live request of the same   *)
(* employee and type overlaps it: all read without a lock.  The id of the   *)
(* row to insert is fresh.                                                 *)
StartCreate(c, r, f) ==
    /\ call[c].stage = "idle"
    /\ status[r] = "none"
    /\ \A d \in Calls : At(d, "open", {"create"}) \/ At(d, "ready", {"create"})
                          => call[d].request # r
    /\ f.type \in ActiveTypes
    /\ call' = [call EXCEPT ![c] = [stage |-> "open", op |-> "create", request |-> r,
                                    form |-> f, seen |-> NoBalance]]
    /\ UNCHANGED <<status, form, balance, events, requestLock, balanceLock>>

NoOverlapFor(f) == \A q \in Requests : Live(q) => ~Overlap(form[q], f)

OpenCreate(c, r, f) ==
    /\ f.first <= f.last
    /\ NoOverlapFor(f)
    /\ StartCreate(c, r, f)

\* The balance row, or the default allowance when there is no row, covers the days.
Covers(b, f) ==
    IF b # NoBalance
    THEN DaysOf(f) <= Available(b)
    ELSE /\ DefaultAllowance[f.type] # NoAllowance
         /\ DaysOf(f) <= DefaultAllowance[f.type]

\* SELECT ... FOR UPDATE waits for the holder, locks the row if there is one, reads it.
TakeBalance(c, a) ==
    /\ balanceLock[a] = NoCall
    /\ balanceLock' = IF balance[a] = NoBalance THEN balanceLock
                      ELSE [balanceLock EXCEPT ![a] = c]

\* MUTANT of Reserve: the balance row is read without FOR UPDATE.
ReserveNoLock(c) ==
    LET a == AccountOf(call[c].form)
    IN  /\ At(c, "open", {"create"})
        /\ Covers(balance[a], call[c].form)
        /\ call' = [call EXCEPT ![c].stage = "ready", ![c].seen = balance[a]]
        /\ UNCHANGED <<status, form, balance, events, requestLock, balanceLock>>

Reserve(c) ==
    LET a == AccountOf(call[c].form)
    IN  /\ At(c, "open", {"create"})
        /\ TakeBalance(c, a)
        /\ Covers(balance[a], call[c].form)
        /\ call' = [call EXCEPT ![c].stage = "ready", ![c].seen = balance[a]]
        /\ UNCHANGED <<status, form, balance, events, requestLock>>

RefuseCreate(c) ==
    LET a == AccountOf(call[c].form)
    IN  /\ At(c, "open", {"create"})
        /\ balanceLock[a] = NoCall
        /\ ~Covers(balance[a], call[c].form)
        /\ RollBack(c)

FirstBalance(f) ==
    [entitlement |-> DefaultAllowance[f.type], adjustment |-> 0,
     used |-> 0, pending |-> DaysOf(f)]

\* Insert the request, charge the balance (update or first row), log the event.
SubmitRow(c) ==
    LET f == call[c].form
        r == call[c].request
        a == AccountOf(f)
        seen == call[c].seen
    IN  /\ status' = [status EXCEPT ![r] = "pending"]
        /\ form' = [form EXCEPT ![r] = f]
        /\ events' = [events EXCEPT ![r] = Append(@, "submitted")]
        /\ balance' = [balance EXCEPT ![a] =
              IF seen = NoBalance THEN FirstBalance(f)
              ELSE [@ EXCEPT !.pending = seen.pending + DaysOf(f)]]
        /\ EndCall(c)

\* The unique index (employee, type, year) admits the first row of an account only once.
DuplicateBalance(c) ==
    /\ call[c].seen = NoBalance
    /\ balance[AccountOf(call[c].form)] # NoBalance

CommitCreate(c) ==
    /\ At(c, "ready", {"create"})
    /\ ~DuplicateBalance(c)
    /\ SubmitRow(c)

UniqueViolation(c) ==
    /\ At(c, "ready", {"create"})
    /\ DuplicateBalance(c)
    /\ RollBack(c)

-----------------------------------------------------------------------------
(* reviewLeaveRequestAction and cancelLeaveRequestAction                   *)

Open(c, r, op) ==
    /\ call[c].stage = "idle"
    /\ call' = [call EXCEPT ![c] = [stage |-> "open", op |-> op, request |-> r,
                                    form |-> form[r], seen |-> NoBalance]]
    /\ UNCHANGED <<status, form, balance, events, requestLock, balanceLock>>

\* The unlocked pre-read of a review looks at the employee, not at the status.
MayReview(r, u) == status[r] # "none" /\ u \in Reviewers /\ u # UserOf[form[r].employee]

OpenReview(c, r, decision) ==
    /\ \E u \in Reviewers : MayReview(r, u)
    /\ Open(c, r, decision)

\* The owner cancels; the unlocked pre-read wants the request pending.
MayCancel(r, u) == status[r] = "pending" /\ u = UserOf[form[r].employee]

OpenCancel(c, r) ==
    /\ \E e \in Employees : MayCancel(r, UserOf[e])
    /\ Open(c, r, "cancelled")

\* MUTANT of Claim: the row is not looked at again under its lock.
ClaimAnyStatus(c) ==
    LET r == call[c].request
    IN  /\ At(c, "open", Decisions)
        /\ requestLock[r] = NoCall
        /\ requestLock' = [requestLock EXCEPT ![r] = c]
        /\ call' = [call EXCEPT ![c].stage = "claimed"]
        /\ UNCHANGED <<status, form, balance, events, balanceLock>>

\* SELECT ... FOR UPDATE on the request, then the status is checked again.
Claim(c) ==
    /\ status[call[c].request] = "pending"
    /\ ClaimAnyStatus(c)

AlreadyDecided(c) ==
    LET r == call[c].request
    IN  /\ At(c, "open", Decisions)
        /\ requestLock[r] = NoCall
        /\ status[r] # "pending"
        /\ RollBack(c)

\* A review refuses when the balance is missing or holds fewer pending days.
BalanceBacks(b, f) == b # NoBalance /\ b.pending - DaysOf(f) >= 0

LockBalance(c) ==
    LET f == call[c].form
        a == AccountOf(f)
    IN  /\ At(c, "claimed", Decisions)
        /\ balanceLock[a] = NoCall
        /\ IF call[c].op = "cancelled" \/ BalanceBacks(balance[a], f)
           THEN /\ TakeBalance(c, a)
                /\ call' = [call EXCEPT ![c].stage = "ready", ![c].seen = balance[a]]
                /\ UNCHANGED requestLock
           ELSE EndCall(c)
        /\ UNCHANGED <<status, form, balance, events>>

MonusZero(a, b) == IF a - b < 0 THEN 0 ELSE a - b

(* Approval moves the days from pending to used, rejection and cancellation *)
(* give them back.  max(0, ...) is the code's only for a cancellation; a    *)
(* review has refused by then when the difference is negative.              *)
Settled(b, seen, op, days) ==
    [b EXCEPT !.pending = MonusZero(seen.pending, days),
              !.used = IF op = "approved" THEN seen.used + days ELSE @]

CommitDecision(c) ==
    LET r == call[c].request
        f == call[c].form
        a == AccountOf(f)
        seen == call[c].seen
    IN  /\ At(c, "ready", Decisions)
        /\ status' = [status EXCEPT ![r] = call[c].op]
        /\ events' = [events EXCEPT ![r] = Append(@, call[c].op)]
        /\ balance' = IF seen = NoBalance THEN balance
                      ELSE [balance EXCEPT ![a] = Settled(@, seen, call[c].op, DaysOf(f))]
        /\ EndCall(c)
        /\ UNCHANGED form

-----------------------------------------------------------------------------
\* The server or the connection fails at any point: the database rolls back.
Fail(c) ==
    /\ call[c].stage # "idle"
    /\ RollBack(c)

Advance(c) ==
    \/ Reserve(c) \/ RefuseCreate(c)
    \/ CommitCreate(c) \/ UniqueViolation(c)
    \/ Claim(c) \/ AlreadyDecided(c)
    \/ LockBalance(c) \/ CommitDecision(c)

Begin(c) ==
    \E r \in Requests :
        \/ \E f \in Form : OpenCreate(c, r, f)
        \/ \E decision \in {"approved", "rejected"} : OpenReview(c, r, decision)
        \/ OpenCancel(c, r)

Next == \E c \in Calls : Begin(c) \/ Advance(c) \/ Fail(c)

Spec == Init /\ [][Next]_vars

(* PostgreSQL grants a row lock to its waiters in turn, so a call that waits *)
(* is not overtaken forever: strong fairness of its next step.  Failures     *)
(* and new calls are not obliged to happen.                                  *)
FairSpec == Spec /\ \A c \in Calls : SF_vars(Advance(c))

-----------------------------------------------------------------------------
(* What the module promises                                                *)

RequestsOf(a, statuses) ==
    {r \in Requests : status[r] \in statuses /\ AccountOf(form[r]) = a}

DaysIn(S) == SumFunctionOnSet([r \in S |-> DaysOf(form[r])], S)

(* The counters of a balance are exactly the days of the pending and of the *)
(* approved requests charged to it, whatever creates, reviews and           *)
(* cancellations ran at the same time (createLeaveRequestAction,            *)
(* reviewLeaveRequestAction, cancelLeaveRequestAction read the row before   *)
(* they write it).                                                          *)
CountersMatchRequests ==
    \A a \in Accounts :
        IF balance[a] = NoBalance
        THEN RequestsOf(a, {"pending", "approved"}) = {}
        ELSE /\ balance[a].pending = DaysIn(RequestsOf(a, {"pending"}))
             /\ balance[a].used = DaysIn(RequestsOf(a, {"approved"}))

(* "Negative balances are rejected" (docs/leave.md): concurrent submissions *)
(* never take more days than were granted.                                  *)
NeverOverdrawn ==
    \A a \in Accounts : balance[a] # NoBalance =>
        Available(balance[a]) >= 0

(* leave_request_events tells the life of the request: it was submitted     *)
(* once and decided at most once, the way its status says.                  *)
HistoryMatchesStatus ==
    \A r \in Requests :
        events[r] = CASE status[r] = "none" -> <<>>
                      [] status[r] = "pending" -> <<"submitted">>
                      [] OTHER -> <<"submitted", status[r]>>

(* "Double approval cannot commit": a decided request keeps its decision,   *)
(* and no step rewrites the days it asked for.                              *)
DecisionIsFinal ==
    [][\A r \in Requests :
          /\ status[r] \in Decisions => status'[r] = status[r]
          /\ status[r] # "none" => form'[r] = form[r]]_vars

(* No circular wait between the request row and the balance row: every      *)
(* execution of an action ends, also when no failure comes to its rescue.   *)
CallsFinish ==
    \A c \in Calls : call[c].stage # "idle" ~> call[c].stage = "idle"

(* The actions together implement the ledger that keeps no counters.        *)
Granted == [a \in Accounts |->
              IF balance[a] = NoBalance THEN NoAllowance
              ELSE balance[a].entitlement + balance[a].adjustment]

Ledger == INSTANCE LeaveLedger WITH granted <- Granted

ImplementsLedger == Ledger!Spec

\* Requests, their events and the balances of their employees agree, whatever
\* calls run at the same time (features/leave/actions.ts).
BalancesFollowRequests ==
    /\ TypeOK
    /\ CountersMatchRequests
    /\ NeverOverdrawn
    /\ HistoryMatchesStatus
=============================================================================

