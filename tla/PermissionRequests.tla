-------------------------- MODULE PermissionRequests --------------------------
(***************************************************************************)
(* Permission (short absence) requests (features/permission/actions.ts).   *)
(*                                                                         *)
(* As in LeaveRequests a call is one execution of a server action, READ    *)
(* COMMITTED, one step per read or row lock.  There is no balance; what is *)
(* modelled here and not there is who acts, and the audit entry that a     *)
(* call writes after its transaction, on a best-effort basis.              *)
(***************************************************************************)
EXTENDS Sequences

CONSTANTS
    Staff,       \* the employees
    Users,
    UserOf,      \* employee -> the user account linked to it
    Reviewers,   \* users with permission.approve or permission.manage
    Requests, NoEmployee,
    Actions,     \* the calls, each one execution of a server action
    NoCall

ASSUME PermissionConstants ==
    /\ UserOf \in [Staff -> Users]
    /\ Reviewers \subseteq Users
    /\ NoEmployee \notin Staff
    /\ NoCall \notin Actions

VARIABLES
    status,  \* permission_requests.status, "none" while the row is absent
    owner,   \* the employee who asked
    events,  \* permission_request_events, in order of insertion
    audit,   \* the audit log entries about the request
    lock,    \* the call that holds the request row
    action   \* what each call is doing

permissionVars == <<status, owner, events, audit, lock, action>>

Decisions == {"approved", "rejected", "cancelled"}
Event == [type: {"submitted"} \cup Decisions, actor: Users]
CallRecord == [stage: {"idle", "open", "claimed", "auditing"},
               op: {"submitted"} \cup Decisions, request: Requests, actor: Users]

PermissionTypeOK ==
    /\ status \in [Requests -> {"none", "pending"} \cup Decisions]
    /\ owner \in [Requests -> Staff \cup {NoEmployee}]
    /\ events \in [Requests -> Seq(Event)]
    /\ audit \in [Requests -> SUBSET Event]
    /\ lock \in [Requests -> Actions \cup {NoCall}]
    /\ action \in [Actions -> CallRecord]

PermissionInit ==
    /\ status = [r \in Requests |-> "none"]
    /\ owner = [r \in Requests |-> NoEmployee]
    /\ events = [r \in Requests |-> <<>>]
    /\ audit = [r \in Requests |-> {}]
    /\ lock = [r \in Requests |-> NoCall]
    /\ \E k \in CallRecord :  \* of an idle call nothing else is read
          k.stage = "idle" /\ action = [c \in Actions |-> k]

rows == <<status, owner, events>>

EventOf(c) == [type |-> action[c].op, actor |-> action[c].actor]

BeginAction(c, stage, op, r, u) ==
    /\ action[c].stage = "idle"
    /\ action' = [action EXCEPT ![c] = [stage |-> stage, op |-> op, request |-> r, actor |-> u]]

Released(c) == [r \in Requests |-> IF lock[r] = c THEN NoCall ELSE lock[r]]

-----------------------------------------------------------------------------
(* One transaction inserts the request and its first event; it reads       *)
(* nothing, and the employee is the one linked to the session's user.      *)
Create(c, r, e) ==
    /\ status[r] = "none"
    /\ BeginAction(c, "auditing", "submitted", r, UserOf[e])
    /\ status' = [status EXCEPT ![r] = "pending"]
    /\ owner' = [owner EXCEPT ![r] = e]
    /\ events' = [events EXCEPT ![r] = <<[type |-> "submitted", actor |-> UserOf[e]]>>]
    /\ UNCHANGED <<audit, lock>>

\* MUTANT of MayReview: a reviewer may decide the own request.
MayReviewAny(r, u) == status[r] # "none"

\* A reviewer other than the requester; the status is not looked at yet.
MayReview(r, u) == status[r] # "none" /\ UserOf[owner[r]] # u

OpenReview(c, r, u, decision) ==
    /\ MayReview(r, u)
    /\ BeginAction(c, "open", decision, r, u)
    /\ UNCHANGED <<rows, audit, lock>>

\* Only the owner, and only while the pre-read finds the request pending.
MayCancel(r, e) == status[r] = "pending" /\ owner[r] = e

OpenCancel(c, r, e) ==
    /\ MayCancel(r, e)
    /\ BeginAction(c, "open", "cancelled", r, UserOf[e])
    /\ UNCHANGED <<rows, audit, lock>>

-----------------------------------------------------------------------------

\* MUTANT of Claim: the update is not guarded by the status.
ClaimAnyStatus(c) ==
    LET r == action[c].request
    IN  /\ action[c].stage = "open"
        /\ lock[r] = NoCall
        /\ lock' = [lock EXCEPT ![r] = c]
        /\ action' = [action EXCEPT ![c].stage = "claimed"]
        /\ UNCHANGED <<rows, audit>>

\* SELECT ... FOR UPDATE waits for the row, then the status is checked again.
Claim(c) ==
    /\ status[action[c].request] = "pending"
    /\ ClaimAnyStatus(c)

AlreadyDecided(c) ==
    LET r == action[c].request
    IN  /\ action[c].stage = "open"
        /\ lock[r] = NoCall
        /\ status[r] # "pending"
        /\ action' = [action EXCEPT ![c].stage = "idle"]
        /\ UNCHANGED <<rows, audit, lock>>

Commit(c) ==
    LET r == action[c].request
    IN  /\ action[c].stage = "claimed"
        /\ status' = [status EXCEPT ![r] = action[c].op]
        /\ events' = [events EXCEPT ![r] = Append(@, EventOf(c))]
        /\ lock' = Released(c)
        /\ action' = [action EXCEPT ![c].stage = "auditing"]
        /\ UNCHANGED <<owner, audit>>

\* MUTANT of WriteAudit: the entry is written again and again, whatever came of it.
WriteAuditAgain(c) ==
    /\ action[c].stage = "auditing"
    /\ audit' = [audit EXCEPT ![action[c].request] = @ \cup {EventOf(c)}]
    /\ UNCHANGED <<rows, lock, action>>

\* After the transaction, outside of it.
WriteAudit(c) ==
    /\ action[c].stage = "auditing"
    /\ audit' = [audit EXCEPT ![action[c].request] = @ \cup {EventOf(c)}]
    /\ action' = [action EXCEPT ![c].stage = "idle"]
    /\ UNCHANGED <<rows, lock>>

\* A failure rolls the transaction back, or loses the audit entry of a committed one.
Fail(c) ==
    /\ action[c].stage # "idle"
    /\ lock' = Released(c)
    /\ action' = [action EXCEPT ![c].stage = "idle"]
    /\ UNCHANGED <<rows, audit>>

Advance(c) == Claim(c) \/ AlreadyDecided(c) \/ Commit(c) \/ WriteAudit(c)

Submitting(c, r) == \E e \in Staff : Create(c, r, e) \/ OpenCancel(c, r, e)
Reviewing(c, r) ==
    \E u \in Reviewers, decision \in {"approved", "rejected"} : OpenReview(c, r, u, decision)

PermissionNext ==
    \E c \in Actions :
        \/ \E r \in Requests : Submitting(c, r) \/ Reviewing(c, r)
        \/ Advance(c) \/ Fail(c)

PermissionSpec == PermissionInit /\ [][PermissionNext]_permissionVars

(* PostgreSQL serves the waiters of a row lock in turn: a call is not        *)
(* overtaken forever.  Neither failures nor new calls have to happen.        *)
FairSpec == PermissionSpec /\ \A c \in Actions : SF_permissionVars(Advance(c))

-----------------------------------------------------------------------------
(* "pending -> approved | rejected | cancelled only" (docs/permission.md):   *)
(* the history is the submission and at most one decision, the one the      *)
(* status shows, whatever reviews and cancellations raced.                  *)
HistoryMatchesStatus ==
    \A r \in Requests :
        /\ status[r] = "none" <=> events[r] = <<>>
        /\ status[r] = "pending" => Len(events[r]) = 1
        /\ status[r] \in Decisions => Len(events[r]) = 2 /\ events[r][2].type = status[r]

(* "A requester cannot review their own request", and nobody else cancels   *)
(* it: judged by the history, long after the checks.                        *)
DecidedByTheRightUser ==
    \A r \in Requests : \A i \in DOMAIN events[r] :
        LET e == events[r][i]
        IN  IF e.type \in {"approved", "rejected"}
            THEN e.actor \in Reviewers /\ e.actor # UserOf[owner[r]]
            ELSE e.actor = UserOf[owner[r]]

(* The audit log may miss an entry but never reports what did not happen    *)
(* (auditPermission runs after the transaction, and only if it committed).  *)
AuditIsBacked ==
    \A r \in Requests : \A e \in audit[r] :
        \E i \in DOMAIN events[r] : events[r][i] = e

(* Review and cancel "preventing double approval": a decision stays.        *)
DecisionIsFinal ==
    [][\A r \in Requests :
          status[r] \in Decisions => status'[r] = status[r] /\ events'[r] = events[r]]_permissionVars

(* Every execution ends without the help of a failure.                      *)
CallsFinish == \A c \in Actions : action[c].stage # "idle" ~> action[c].stage = "idle"

\* Status, events and audit log tell one story of each request, and the right
\* user decided it (features/permission/actions.ts).
DecisionsAreRecorded ==
    /\ PermissionTypeOK
    /\ HistoryMatchesStatus
    /\ DecidedByTheRightUser
    /\ AuditIsBacked
=============================================================================

