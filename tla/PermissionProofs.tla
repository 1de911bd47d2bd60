-------------------------- MODULE PermissionProofs --------------------------
(***************************************************************************)
(* Proofs about PermissionRequests, for every number of employees, users,  *)
(* requests and concurrent calls, and about Announcements, for every       *)
(* finite set of employees and of calls, any visibility windows and any    *)
(* number of files of an upload.                                           *)
(*                                                                         *)
(* In Announcements the count of reads and the receipts are written by     *)
(* statements of their own, so the invariant counts the calls between the  *)
(* two; the files are accounted for by the calls that have stored one or   *)
(* unlinked its row.                                                       *)
(***************************************************************************)
EXTENDS PermissionScreens, Announcements, Integers, FiniteSetTheorems, TLAPS

(* A call that passed the second check of the status holds the row, and    *)
(* the request stays pending until the call ends.                          *)
ClaimsHold ==
    \A c \in Actions : action[c].stage = "claimed" =>
        /\ lock[action[c].request] = c
        /\ status[action[c].request] = "pending"

(* A call that is about to decide knows its decision.                      *)
CallsDecide ==
    \A c \in Actions : action[c].stage \in {"open", "claimed"} => action[c].op \in Decisions

(* What a call intends, its user is entitled to: the owner does not change *)
(* between the check and the commit.                                       *)
Entitled(op, u, r) ==
    IF op \in {"approved", "rejected"}
    THEN u \in Reviewers /\ u # UserOf[owner[r]]
    ELSE op = "cancelled" /\ u = UserOf[owner[r]]

CallsAreEntitled ==
    \A c \in Actions : action[c].stage \in {"open", "claimed"} =>
        /\ status[action[c].request] # "none"
        /\ Entitled(action[c].op, action[c].actor, action[c].request)

(* A call that goes on to the audit log has committed its event.           *)
AuditingIsBacked ==
    \A c \in Actions : action[c].stage = "auditing" =>
        \E i \in DOMAIN events[action[c].request] : events[action[c].request][i] = EventOf(c)

-----------------------------------------------------------------------------
(* Types                                                                   *)

(* Releasing the rows of a call leaves a lock table.                       *)
LEMMA ReleasedType ==
    ASSUME PermissionTypeOK, NEW c \in Actions
    PROVE  Released(c) \in [Requests -> Actions \cup {NoCall}]
BY DEF Released, PermissionTypeOK

(* A call that moves to another stage remains the same call.               *)
LEMMA ActionMoves ==
    ASSUME PermissionTypeOK, NEW c \in Actions, NEW st \in {"idle", "open", "claimed", "auditing"},
           action' = [action EXCEPT ![c].stage = st]
    PROVE  /\ action' \in [Actions -> CallRecord]
           /\ \A d \in Actions : d # c => action'[d] = action[d]
           /\ action'[c].stage = st /\ action'[c].op = action[c].op
           /\ action'[c].request = action[c].request /\ action'[c].actor = action[c].actor
<1>1. action \in [Actions -> CallRecord] /\ action[c] \in CallRecord
  BY DEF PermissionTypeOK
<1>2. [action[c] EXCEPT !.stage = st] \in CallRecord
  BY <1>1 DEF CallRecord
<1> QED BY <1>1, <1>2 DEF CallRecord

(* Every step keeps the types; a call that is about to commit has decided  *)
(* for one of the decisions.                                               *)
LEMMA TypeStep == PermissionTypeOK /\ CallsDecide /\ [PermissionNext]_permissionVars => PermissionTypeOK' /\ CallsDecide'
<1> SUFFICES ASSUME PermissionTypeOK, CallsDecide, [PermissionNext]_permissionVars PROVE PermissionTypeOK' /\ CallsDecide'
  OBVIOUS
<1> USE PermissionConstants
<1>1. ASSUME NEW c \in Actions, NEW r \in Requests, NEW e \in Staff, Create(c, r, e)
      PROVE  PermissionTypeOK' /\ CallsDecide'
  <2>1. UserOf[e] \in Users
    OBVIOUS
  <2>2. [type |-> "submitted", actor |-> UserOf[e]] \in Event
    BY <2>1 DEF Event
  <2>3. <<[type |-> "submitted", actor |-> UserOf[e]]>> \in Seq(Event)
    BY <2>2
  <2> QED BY <1>1, <2>1, <2>3 DEF Create, BeginAction, PermissionTypeOK, CallsDecide, CallRecord
<1>2. ASSUME NEW c \in Actions, NEW r \in Requests, NEW e \in Staff, OpenCancel(c, r, e)
      PROVE  PermissionTypeOK' /\ CallsDecide'
  BY <1>2 DEF OpenCancel, MayCancel, BeginAction, rows, PermissionTypeOK, CallsDecide, CallRecord, Decisions
<1>3. ASSUME NEW c \in Actions, NEW r \in Requests, NEW u \in Reviewers,
             NEW decision \in {"approved", "rejected"}, OpenReview(c, r, u, decision)
      PROVE  PermissionTypeOK' /\ CallsDecide'
  BY <1>3 DEF OpenReview, MayReview, BeginAction, rows, PermissionTypeOK, CallsDecide, CallRecord, Decisions
<1>4. ASSUME NEW c \in Actions, Claim(c) \/ AlreadyDecided(c)
      PROVE  PermissionTypeOK' /\ CallsDecide'
  <2>1. action' \in [Actions -> CallRecord] /\ CallsDecide'
    BY <1>4, ActionMoves DEF Claim, ClaimAnyStatus, AlreadyDecided, CallsDecide
  <2>2. lock' \in [Requests -> Actions \cup {NoCall}]
    BY <1>4 DEF Claim, ClaimAnyStatus, AlreadyDecided, PermissionTypeOK
  <2> QED BY <1>4, <2>1, <2>2 DEF Claim, ClaimAnyStatus, AlreadyDecided, rows, PermissionTypeOK
<1>5. ASSUME NEW c \in Actions, Commit(c)
      PROVE  PermissionTypeOK' /\ CallsDecide'
  <2>1. EventOf(c) \in Event /\ action[c].op \in Decisions /\ action[c].request \in Requests
    BY <1>5 DEF Commit, EventOf, PermissionTypeOK, CallsDecide, CallRecord, Event
  <2>2. Append(events[action[c].request], EventOf(c)) \in Seq(Event)
    BY <2>1 DEF PermissionTypeOK
  <2>3. status' \in [Requests -> {"none", "pending"} \cup Decisions]
        /\ events' \in [Requests -> Seq(Event)]
    BY <1>5, <2>1, <2>2 DEF Commit, PermissionTypeOK
  <2>4. action' \in [Actions -> CallRecord] /\ CallsDecide'
    BY <1>5, ActionMoves DEF Commit, CallsDecide
  <2> QED BY <1>5, <2>3, <2>4, ReleasedType DEF Commit, PermissionTypeOK
<1>6. ASSUME NEW c \in Actions, WriteAudit(c)
      PROVE  PermissionTypeOK' /\ CallsDecide'
  <2>1. EventOf(c) \in Event
    BY DEF EventOf, PermissionTypeOK, CallRecord, Event
  <2>2. audit' \in [Requests -> SUBSET Event]
    BY <1>6, <2>1 DEF WriteAudit, PermissionTypeOK
  <2>3. action' \in [Actions -> CallRecord] /\ CallsDecide'
    BY <1>6, ActionMoves DEF WriteAudit, CallsDecide
  <2> QED BY <1>6, <2>2, <2>3 DEF WriteAudit, rows, PermissionTypeOK
<1>7. ASSUME NEW c \in Actions, Fail(c)
      PROVE  PermissionTypeOK' /\ CallsDecide'
  <2>1. action' \in [Actions -> CallRecord] /\ CallsDecide'
    BY <1>7, ActionMoves, ZenonT(60) DEF Fail, CallsDecide
  <2> QED BY <1>7, <2>1, ReleasedType DEF Fail, rows, PermissionTypeOK
<1>8. CASE UNCHANGED permissionVars
  BY <1>8 DEF permissionVars, PermissionTypeOK, CallsDecide
<1> QED
  BY <1>1, <1>2, <1>3, <1>4, <1>5, <1>6, <1>7, <1>8
     DEF PermissionNext, Submitting, Reviewing, Advance

(* Every reachable state is well-typed.                                    *)
THEOREM TypeCorrect == PermissionSpec => [](PermissionTypeOK /\ CallsDecide)
<1>1. PermissionInit => PermissionTypeOK /\ CallsDecide
  <2> SUFFICES ASSUME PermissionInit PROVE PermissionTypeOK /\ CallsDecide
    OBVIOUS
  <2>1. \A c \in Actions : action[c] \in CallRecord /\ action[c].stage = "idle"
    BY DEF PermissionInit
  <2>2. action \in [Actions -> CallRecord] /\ CallsDecide
    BY <2>1 DEF PermissionInit, CallsDecide
  <2>3. <<>> \in Seq(Event)
    OBVIOUS
  <2> QED BY <2>2, <2>3 DEF PermissionInit, PermissionTypeOK
<1> QED BY <1>1, TypeStep, PTL DEF PermissionSpec

-----------------------------------------------------------------------------
(* The second check under the row lock                                     *)

(* Releasing the rows of one call leaves the others theirs.                *)
LEMMA OthersKeepRows ==
    ASSUME NEW c \in Actions, NEW d \in Actions, d # c, NEW r \in Requests, lock[r] = d
    PROVE  Released(c)[r] = d
BY DEF Released

(* A claim is taken on a free row that shows "pending", and while it lasts *)
(* nobody else writes that row.                                            *)
LEMMA ClaimStep ==
    PermissionTypeOK /\ CallsDecide /\ ClaimsHold /\ [PermissionNext]_permissionVars => ClaimsHold'
<1> SUFFICES ASSUME PermissionTypeOK, CallsDecide, ClaimsHold, [PermissionNext]_permissionVars PROVE ClaimsHold'
  OBVIOUS
<1> USE PermissionConstants
<1>0. \A d \in Actions : action[d].request \in Requests
  BY DEF PermissionTypeOK, CallRecord
<1>1. ASSUME NEW c \in Actions, NEW r \in Requests, NEW e \in Staff, Create(c, r, e)
      PROVE  ClaimsHold'
  BY <1>0, <1>1 DEF Create, BeginAction, PermissionTypeOK, ClaimsHold
<1>2. ASSUME NEW c \in Actions, NEW r \in Requests, NEW e \in Staff, OpenCancel(c, r, e)
      PROVE  ClaimsHold'
  BY <1>0, <1>2 DEF OpenCancel, MayCancel, BeginAction, rows, PermissionTypeOK, ClaimsHold
<1>3. ASSUME NEW c \in Actions, NEW r \in Requests, NEW u \in Reviewers,
             NEW decision \in {"approved", "rejected"}, OpenReview(c, r, u, decision)
      PROVE  ClaimsHold'
  BY <1>0, <1>3 DEF OpenReview, MayReview, BeginAction, rows, PermissionTypeOK, ClaimsHold
<1>4. ASSUME NEW c \in Actions, Claim(c)
      PROVE  ClaimsHold'
  <2>1. /\ action' = [action EXCEPT ![c].stage = "claimed"]
        /\ status[action[c].request] = "pending" /\ status' = status
        /\ lock[action[c].request] = NoCall
        /\ lock' = [lock EXCEPT ![action[c].request] = c]
    BY <1>4 DEF Claim, ClaimAnyStatus, rows
  <2>2. /\ \A d \in Actions : d # c => action'[d] = action[d]
        /\ action'[c].request = action[c].request
    BY <2>1, ActionMoves
  <2> QED BY <1>0, <2>1, <2>2 DEF ClaimsHold, PermissionTypeOK
<1>5. ASSUME NEW c \in Actions, AlreadyDecided(c)
      PROVE  ClaimsHold'
  BY <1>5, ActionMoves DEF AlreadyDecided, rows, ClaimsHold
<1>6. ASSUME NEW c \in Actions, Commit(c)
      PROVE  ClaimsHold'
  <2>1. \A d \in Actions : d # c => action'[d] = action[d]
    BY <1>6, ActionMoves DEF Commit
  <2>2. action'[c].stage = "auditing"
    BY <1>6, ActionMoves DEF Commit
  <2>3. ASSUME NEW d \in Actions, d # c, action[d].stage = "claimed"
        PROVE  lock'[action[d].request] = d /\ status'[action[d].request] = "pending"
    <3>1. action[d].request # action[c].request
      BY <1>6, <2>3 DEF Commit, ClaimsHold
    <3>2. lock'[action[d].request] = d
      BY <1>0, <1>6, <2>3, OthersKeepRows DEF Commit, ClaimsHold
    <3> QED BY <1>0, <1>6, <2>3, <3>1, <3>2 DEF Commit, ClaimsHold, PermissionTypeOK
  <2> QED BY <2>1, <2>2, <2>3 DEF ClaimsHold
<1>7. ASSUME NEW c \in Actions, WriteAudit(c)
      PROVE  ClaimsHold'
  BY <1>7, ActionMoves DEF WriteAudit, rows, ClaimsHold
<1>8. ASSUME NEW c \in Actions, Fail(c)
      PROVE  ClaimsHold'
  <2>1. action'[c].stage = "idle" /\ \A d \in Actions : d # c => action'[d] = action[d]
    BY <1>8, ActionMoves DEF Fail
  <2> QED BY <1>0, <1>8, <2>1, OthersKeepRows DEF Fail, rows, ClaimsHold
<1>9. CASE UNCHANGED permissionVars
  BY <1>9 DEF permissionVars, ClaimsHold
<1> QED
  BY <1>1, <1>2, <1>3, <1>4, <1>5, <1>6, <1>7, <1>8, <1>9
     DEF PermissionNext, Submitting, Reviewing, Advance

(* In every reachable state a call between its second check and its end    *)
(* has the row to itself.                                                  *)
THEOREM ClaimsAreExclusive == PermissionSpec => []ClaimsHold
<1>1. PermissionInit => ClaimsHold
  BY DEF PermissionInit, ClaimsHold
<1> QED BY <1>1, ClaimStep, TypeCorrect, PTL DEF PermissionSpec

(* "Preventing double approval": after a decision neither the status nor   *)
(* the history changes, whichever calls had passed the first check before. *)
THEOREM DecisionsAreFinal == PermissionSpec => DecisionIsFinal
<1>1. ASSUME PermissionTypeOK, ClaimsHold, [PermissionNext]_permissionVars, NEW r \in Requests, status[r] \in Decisions
      PROVE  status'[r] = status[r] /\ events'[r] = events[r]
  <2>1. ASSUME NEW c \in Actions, NEW q \in Requests, NEW e \in Staff, Create(c, q, e)
        PROVE  status'[r] = status[r] /\ events'[r] = events[r]
    BY <1>1, <2>1 DEF Create, PermissionTypeOK, Decisions
  <2>2. ASSUME NEW c \in Actions, Commit(c)
        PROVE  status'[r] = status[r] /\ events'[r] = events[r]
    <3>1. status[action[c].request] = "pending"
      BY <1>1, <2>2 DEF Commit, ClaimsHold
    <3> QED BY <1>1, <2>2, <3>1 DEF Commit, PermissionTypeOK, Decisions
  <2>3. CASE UNCHANGED rows
    BY <2>3 DEF rows
  <2> QED
    BY <1>1, <2>1, <2>2, <2>3
       DEF PermissionNext, Submitting, Reviewing, Advance, OpenCancel, OpenReview, Claim,
           ClaimAnyStatus, AlreadyDecided, WriteAudit, Fail, permissionVars, rows
<1>2. PermissionTypeOK /\ ClaimsHold /\ [PermissionNext]_permissionVars =>
        [\A r \in Requests : status[r] \in Decisions =>
            status'[r] = status[r] /\ events'[r] = events[r]]_permissionVars
  BY <1>1
<1> QED BY <1>2, TypeCorrect, ClaimsAreExclusive, PTL DEF PermissionSpec, DecisionIsFinal

(* A history that gets one more event.                                     *)
LEMMA Appended ==
    ASSUME NEW old \in Seq(Event), NEW e \in Event
    PROVE  /\ Append(old, e) # <<>>
           /\ Len(Append(old, e)) = Len(old) + 1
           /\ Append(old, e)[Len(old) + 1] = e
           /\ \A i \in DOMAIN old : i \in DOMAIN Append(old, e) /\ Append(old, e)[i] = old[i]
           /\ \A i \in DOMAIN Append(old, e) : i \in DOMAIN old \/ i = Len(old) + 1
OBVIOUS

(* The history is the submission and at most one decision, the one that    *)
(* the status shows.                                                       *)
LEMMA HistoryStep ==
    PermissionTypeOK /\ CallsDecide /\ ClaimsHold /\ HistoryMatchesStatus /\ [PermissionNext]_permissionVars
        => HistoryMatchesStatus'
<1> SUFFICES ASSUME PermissionTypeOK, CallsDecide, ClaimsHold, HistoryMatchesStatus, [PermissionNext]_permissionVars
             PROVE  HistoryMatchesStatus'
  OBVIOUS
<1>1. ASSUME NEW c \in Actions, NEW q \in Requests, NEW e \in Staff, Create(c, q, e)
      PROVE  HistoryMatchesStatus'
  BY <1>1 DEF Create, PermissionTypeOK, HistoryMatchesStatus, Decisions
<1>2. ASSUME NEW c \in Actions, Commit(c)
      PROVE  HistoryMatchesStatus'
  <2> DEFINE r == action[c].request
  <2>1. /\ r \in Requests /\ status[r] = "pending" /\ Len(events[r]) = 1
        /\ action[c].op \in Decisions /\ events[r] \in Seq(Event)
    BY <1>2 DEF Commit, ClaimsHold, CallsDecide, HistoryMatchesStatus, PermissionTypeOK, CallRecord
  <2>2. EventOf(c) \in Event /\ EventOf(c).type = action[c].op
    BY <2>1 DEF EventOf, PermissionTypeOK, CallRecord, Event
  <2>3. /\ status'[r] = action[c].op
        /\ Len(events'[r]) = 2 /\ events'[r][2] = EventOf(c) /\ events'[r] # <<>>
    <3>1. status'[r] = action[c].op /\ events'[r] = Append(events[r], EventOf(c))
      BY <1>2, <2>1 DEF Commit, PermissionTypeOK
    <3> HIDE DEF r
    <3> QED BY <2>1, <2>2, <3>1, Appended
  <2>4. \A q \in Requests : q # r => status'[q] = status[q] /\ events'[q] = events[q]
    BY <1>2 DEF Commit, PermissionTypeOK
  <2> HIDE DEF r
  <2> QED BY <2>1, <2>2, <2>3, <2>4 DEF HistoryMatchesStatus, Decisions
<1>3. CASE UNCHANGED rows
  BY <1>3 DEF rows, HistoryMatchesStatus
<1> QED
  BY <1>1, <1>2, <1>3
     DEF PermissionNext, Submitting, Reviewing, Advance, OpenCancel, OpenReview, Claim,
         ClaimAnyStatus, AlreadyDecided, WriteAudit, Fail, permissionVars, rows

(* "pending -> approved | rejected | cancelled only": history and status   *)
(* agree whatever reviews and cancellations raced.                         *)
THEOREM HistoriesAgree == PermissionSpec => []HistoryMatchesStatus
<1>1. PermissionInit => HistoryMatchesStatus
  BY DEF PermissionInit, HistoryMatchesStatus, Decisions
<1> QED BY <1>1, HistoryStep, TypeCorrect, ClaimsAreExclusive, PTL DEF PermissionSpec

-----------------------------------------------------------------------------
(* Who decided, and what the audit log says                                *)

(* The owner is checked before the transaction and never changes after.    *)
LEMMA EntitledStep ==
    PermissionTypeOK /\ CallsDecide /\ CallsAreEntitled /\ [PermissionNext]_permissionVars => CallsAreEntitled'
<1> SUFFICES ASSUME PermissionTypeOK, CallsDecide, CallsAreEntitled, [PermissionNext]_permissionVars
             PROVE  CallsAreEntitled'
  OBVIOUS
<1> USE PermissionConstants DEF Entitled
<1>0. \A d \in Actions : action[d].request \in Requests
  BY DEF PermissionTypeOK, CallRecord
<1>1. ASSUME NEW c \in Actions, NEW r \in Requests, NEW e \in Staff, Create(c, r, e)
      PROVE  CallsAreEntitled'
  BY <1>0, <1>1 DEF Create, BeginAction, PermissionTypeOK, CallsAreEntitled
<1>2. ASSUME NEW c \in Actions, NEW r \in Requests, NEW e \in Staff, OpenCancel(c, r, e)
      PROVE  CallsAreEntitled'
  BY <1>2 DEF OpenCancel, MayCancel, BeginAction, rows, PermissionTypeOK, CallsAreEntitled
<1>3. ASSUME NEW c \in Actions, NEW r \in Requests, NEW u \in Reviewers,
             NEW decision \in {"approved", "rejected"}, OpenReview(c, r, u, decision)
      PROVE  CallsAreEntitled'
  BY <1>3 DEF OpenReview, MayReview, BeginAction, rows, PermissionTypeOK, CallsAreEntitled
<1>4. ASSUME NEW c \in Actions, Claim(c)
      PROVE  CallsAreEntitled'
  <2>1. /\ action[c].stage = "open" /\ action' = [action EXCEPT ![c].stage = "claimed"]
        /\ UNCHANGED rows
    BY <1>4 DEF Claim, ClaimAnyStatus
  <2> QED BY <2>1, ActionMoves DEF rows, CallsAreEntitled
<1>5. ASSUME NEW c \in Actions, AlreadyDecided(c) \/ WriteAudit(c) \/ Fail(c)
      PROVE  CallsAreEntitled'
  <2>1. action' = [action EXCEPT ![c].stage = "idle"] /\ UNCHANGED rows
    BY <1>5 DEF AlreadyDecided, WriteAudit, Fail, rows
  <2> QED BY <2>1, ActionMoves DEF rows, CallsAreEntitled
<1>6. ASSUME NEW c \in Actions, Commit(c)
      PROVE  CallsAreEntitled'
  <2>1. action'[c].stage = "auditing" /\ \A d \in Actions : d # c => action'[d] = action[d]
    BY <1>6, ActionMoves DEF Commit
  <2>2. \A r \in Requests : status[r] # "none" => status'[r] # "none"
    BY <1>6 DEF Commit, PermissionTypeOK, CallsDecide, Decisions
  <2> QED BY <1>0, <1>6, <2>1, <2>2 DEF Commit, CallsAreEntitled
<1>7. CASE UNCHANGED permissionVars
  BY <1>7 DEF permissionVars, CallsAreEntitled
<1> QED
  BY <1>1, <1>2, <1>3, <1>4, <1>5, <1>6, <1>7
     DEF PermissionNext, Submitting, Reviewing, Advance

(* Whatever a call intends in a reachable state, its user may do.          *)
LEMMA EntitledAlways == PermissionSpec => []CallsAreEntitled
<1>1. PermissionInit => CallsAreEntitled
  BY DEF PermissionInit, CallsAreEntitled
<1> QED BY <1>1, EntitledStep, TypeCorrect, PTL DEF PermissionSpec

(* An event of the history that its owner or a reviewer may have caused.   *)
LEMMA RightUserStep ==
    PermissionTypeOK /\ CallsDecide /\ CallsAreEntitled /\ DecidedByTheRightUser /\ [PermissionNext]_permissionVars
        => DecidedByTheRightUser'
<1> SUFFICES ASSUME PermissionTypeOK, CallsDecide, CallsAreEntitled, DecidedByTheRightUser, [PermissionNext]_permissionVars
             PROVE  DecidedByTheRightUser'
  OBVIOUS
<1>1. ASSUME NEW c \in Actions, NEW q \in Requests, NEW e \in Staff, Create(c, q, e)
      PROVE  DecidedByTheRightUser'
  <2>1. /\ owner'[q] = e
        /\ events'[q] = <<[type |-> "submitted", actor |-> UserOf[e]]>>
        /\ \A r \in Requests : r # q => owner'[r] = owner[r] /\ events'[r] = events[r]
    BY <1>1 DEF Create, PermissionTypeOK
  <2> QED BY <2>1 DEF DecidedByTheRightUser
<1>2. ASSUME NEW c \in Actions, Commit(c)
      PROVE  DecidedByTheRightUser'
  <2> DEFINE q == action[c].request
  <2>1. q \in Requests /\ events[q] \in Seq(Event) /\ EventOf(c) \in Event
    BY <1>2 DEF Commit, PermissionTypeOK, CallRecord, EventOf, Event
  <2>2. /\ events'[q] = Append(events[q], EventOf(c)) /\ owner' = owner
        /\ \A r \in Requests : r # q => events'[r] = events[r]
    BY <1>2, <2>1 DEF Commit, PermissionTypeOK
  <2>3. IF EventOf(c).type \in {"approved", "rejected"}
        THEN EventOf(c).actor \in Reviewers /\ EventOf(c).actor # UserOf[owner[q]]
        ELSE EventOf(c).actor = UserOf[owner[q]]
    BY <1>2 DEF Commit, CallsAreEntitled, Entitled, EventOf
  <2> HIDE DEF q
  <2>4. ASSUME NEW i \in DOMAIN events'[q]
        PROVE  events'[q][i] = EventOf(c)
               \/ (i \in DOMAIN events[q] /\ events'[q][i] = events[q][i])
    <3> DEFINE new == Append(events[q], EventOf(c))
    <3>1. i \in DOMAIN new
      BY <2>2, <2>4
    <3>2. /\ new[Len(events[q]) + 1] = EventOf(c)
          /\ \A k \in DOMAIN events[q] : new[k] = events[q][k]
          /\ i \in DOMAIN events[q] \/ i = Len(events[q]) + 1
      BY <2>1, <3>1, Appended
    <3> QED BY <2>2, <3>2
  <2> DEFINE Right(e, o) ==
        IF e.type \in {"approved", "rejected"}
        THEN e.actor \in Reviewers /\ e.actor # UserOf[o]
        ELSE e.actor = UserOf[o]
  <2>5. \A r \in Requests : \A k \in DOMAIN events[r] : Right(events[r][k], owner[r])
    BY DEF DecidedByTheRightUser
  <2>6. Right(EventOf(c), owner[q])
    BY <2>3
  <2> HIDE DEF Right
  <2>7. \A r \in Requests : \A k \in DOMAIN events'[r] : Right(events'[r][k], owner'[r])
    BY <2>1, <2>2, <2>4, <2>5, <2>6
  <2> QED BY <2>7 DEF DecidedByTheRightUser, Right
<1>3. CASE UNCHANGED rows
  BY <1>3 DEF rows, DecidedByTheRightUser
<1> QED
  BY <1>1, <1>2, <1>3
     DEF PermissionNext, Submitting, Reviewing, Advance, OpenCancel, OpenReview, Claim,
         ClaimAnyStatus, AlreadyDecided, WriteAudit, Fail, permissionVars, rows

(* "A requester cannot review their own request", and only the requester   *)
(* cancels it, at whatever moment the check was made.                      *)
THEOREM RightUsersDecide == PermissionSpec => []DecidedByTheRightUser
<1>1. PermissionInit => DecidedByTheRightUser
  BY DEF PermissionInit, DecidedByTheRightUser
<1> QED BY <1>1, RightUserStep, TypeCorrect, EntitledAlways, PTL DEF PermissionSpec

(* Events are never removed or altered; a request that is created has none. *)
LEMMA EventsGrow ==
    ASSUME PermissionTypeOK, HistoryMatchesStatus, [PermissionNext]_permissionVars, NEW r \in Requests,
           NEW i \in DOMAIN events[r]
    PROVE  i \in DOMAIN events'[r] /\ events'[r][i] = events[r][i]
<1>1. ASSUME NEW c \in Actions, NEW q \in Requests, NEW e \in Staff, Create(c, q, e)
      PROVE  i \in DOMAIN events'[r] /\ events'[r][i] = events[r][i]
  <2>1. q # r
    BY <1>1 DEF Create, HistoryMatchesStatus
  <2> QED BY <1>1, <2>1 DEF Create, PermissionTypeOK
<1>2. ASSUME NEW c \in Actions, Commit(c)
      PROVE  i \in DOMAIN events'[r] /\ events'[r][i] = events[r][i]
  <2>1. EventOf(c) \in Event /\ events[r] \in Seq(Event)
    BY DEF PermissionTypeOK, CallRecord, EventOf, Event
  <2>2. events'[r] = events[r] \/ events'[r] = Append(events[r], EventOf(c))
    BY <1>2 DEF Commit, PermissionTypeOK
  <2> QED BY <2>1, <2>2, Appended
<1>3. CASE UNCHANGED rows
  BY <1>3 DEF rows
<1> QED
  BY <1>1, <1>2, <1>3
     DEF PermissionNext, Submitting, Reviewing, Advance, OpenCancel, OpenReview, Claim,
         ClaimAnyStatus, AlreadyDecided, WriteAudit, Fail, permissionVars, rows

(* The audit log reports only what is in the history, and so will a call   *)
(* that has still to report.                                               *)
LEMMA AuditStep ==
    PermissionTypeOK /\ HistoryMatchesStatus /\ AuditIsBacked /\ AuditingIsBacked /\ [PermissionNext]_permissionVars
        => AuditIsBacked' /\ AuditingIsBacked'
<1> SUFFICES ASSUME PermissionTypeOK, HistoryMatchesStatus, AuditIsBacked, AuditingIsBacked, [PermissionNext]_permissionVars
             PROVE  AuditIsBacked' /\ AuditingIsBacked'
  OBVIOUS
<1> DEFINE Recorded(r, e) == \E i \in DOMAIN events[r] : events[r][i] = e
           RecordedNext(r, e) == \E i \in DOMAIN events'[r] : events'[r][i] = e
<1>0. ASSUME NEW r \in Requests, NEW e, Recorded(r, e) PROVE RecordedNext(r, e)
  BY <1>0, EventsGrow
<1>1. ASSUME NEW c \in Actions, action[c].stage = "auditing"
      PROVE  RecordedNext(action[c].request, EventOf(c))
  BY <1>0, <1>1 DEF AuditingIsBacked, PermissionTypeOK, CallRecord
<1>2. ASSUME UNCHANGED audit PROVE AuditIsBacked'
  BY <1>0, <1>2 DEF AuditIsBacked
<1>3. ASSUME NEW c \in Actions, \A d \in Actions : d # c => action'[d] = action[d],
             action'[c].stage = "auditing" => RecordedNext(action'[c].request, EventOf(c)')
      PROVE  AuditingIsBacked'
  <2>1. ASSUME NEW d \in Actions, action'[d].stage = "auditing"
        PROVE  RecordedNext(action'[d].request, EventOf(d)')
    BY <1>1, <1>3, <2>1 DEF EventOf
  <2> QED BY <2>1 DEF AuditingIsBacked
<1>4. ASSUME NEW c \in Actions, NEW q \in Requests, NEW e \in Staff, Create(c, q, e)
      PROVE  AuditIsBacked' /\ AuditingIsBacked'
  <2>1. /\ action'[c].request = q /\ \A d \in Actions : d # c => action'[d] = action[d]
        /\ action'[c].op = "submitted" /\ action'[c].actor = UserOf[e]
        /\ events'[q] = <<[type |-> "submitted", actor |-> UserOf[e]]>>
    BY <1>4 DEF Create, BeginAction, PermissionTypeOK
  <2>2. RecordedNext(q, EventOf(c)')
    BY <2>1 DEF EventOf
  <2>3. UNCHANGED audit
    BY <1>4 DEF Create
  <2> QED BY <1>2, <1>3, <2>1, <2>2, <2>3
<1>5. ASSUME NEW c \in Actions, NEW op, NEW q \in Requests, NEW u, BeginAction(c, "open", op, q, u),
             UNCHANGED audit
      PROVE  AuditIsBacked' /\ AuditingIsBacked'
  <2>1. action'[c].stage = "open" /\ \A d \in Actions : d # c => action'[d] = action[d]
    BY <1>5 DEF BeginAction, PermissionTypeOK
  <2> QED BY <1>2, <1>3, <1>5, <2>1
<1>6. ASSUME NEW c \in Actions, NEW st \in {"idle", "claimed"},
             action' = [action EXCEPT ![c].stage = st], UNCHANGED audit
      PROVE  AuditIsBacked' /\ AuditingIsBacked'
  BY <1>2, <1>3, <1>6, ActionMoves
<1>7. ASSUME NEW c \in Actions, Commit(c)
      PROVE  AuditIsBacked' /\ AuditingIsBacked'
  <2> DEFINE q == action[c].request
  <2>1. q \in Requests /\ events[q] \in Seq(Event) /\ EventOf(c) \in Event
    BY <1>7 DEF Commit, PermissionTypeOK, CallRecord, EventOf, Event
  <2>2. events'[q] = Append(events[q], EventOf(c))
    BY <1>7, <2>1 DEF Commit, PermissionTypeOK
  <2>3. /\ action'[c].request = q /\ EventOf(c)' = EventOf(c)
        /\ \A d \in Actions : d # c => action'[d] = action[d]
    BY <1>7, ActionMoves DEF Commit, EventOf
  <2> HIDE DEF q
  <2>4. /\ Len(events[q]) + 1 \in DOMAIN events'[q]
        /\ events'[q][Len(events[q]) + 1] = EventOf(c)
    BY <2>1, <2>2, Appended
  <2> QED BY <1>2, <1>3, <1>7, <2>3, <2>4 DEF Commit
<1>8. ASSUME NEW c \in Actions, WriteAudit(c)
      PROVE  AuditIsBacked' /\ AuditingIsBacked'
  <2>1. /\ action'[c].stage = "idle"
        /\ \A d \in Actions : d # c => action'[d] = action[d]
    BY <1>8, ActionMoves DEF WriteAudit
  <2>2. ASSUME NEW r \in Requests, NEW e \in audit'[r] PROVE RecordedNext(r, e)
    <3>1. e \in audit[r] \/ (r = action[c].request /\ e = EventOf(c))
      <4>1. /\ audit \in [Requests -> SUBSET Event]
            /\ audit' = [audit EXCEPT ![action[c].request] = @ \cup {EventOf(c)}]
        BY <1>8 DEF WriteAudit, PermissionTypeOK
      <4> QED BY <2>2, <4>1
    <3>2. CASE e \in audit[r]
      BY <1>0, <3>2 DEF AuditIsBacked
    <3>3. CASE r = action[c].request /\ e = EventOf(c)
      BY <1>1, <1>8, <3>3 DEF WriteAudit
    <3> QED BY <3>1, <3>2, <3>3
  <2> QED BY <1>3, <2>1, <2>2 DEF AuditIsBacked
<1>9. CASE UNCHANGED permissionVars
  BY <1>9 DEF permissionVars, AuditIsBacked, AuditingIsBacked, EventOf
<1> QED
  BY <1>4, <1>5, <1>6, <1>7, <1>8, <1>9
     DEF PermissionNext, Submitting, Reviewing, Advance, OpenCancel, OpenReview, Claim,
         ClaimAnyStatus, AlreadyDecided, Fail

(* auditPermission runs after the transaction and only if that committed:  *)
(* entries may be lost, none is false.                                     *)
THEOREM AuditNeverLies == PermissionSpec => []AuditIsBacked
<1>1. PermissionInit => AuditIsBacked /\ AuditingIsBacked
  BY DEF PermissionInit, AuditIsBacked, AuditingIsBacked
<1> QED BY <1>1, AuditStep, TypeCorrect, HistoriesAgree, PTL DEF PermissionSpec

(* All of it together: the invariant the permission run checks.            *)
THEOREM RecordsAgree == PermissionSpec => []DecisionsAreRecorded
<1>1. (PermissionTypeOK /\ CallsDecide) /\ HistoryMatchesStatus /\ DecidedByTheRightUser /\ AuditIsBacked
        => DecisionsAreRecorded
  BY DEF DecisionsAreRecorded
<1> QED BY <1>1, TypeCorrect, HistoriesAgree, RightUsersDecide, AuditNeverLies, PTL

-----------------------------------------------------------------------------
(* Waiting                                                                 *)

\* Advance(c) has its lock, or needs none.
MayProceed(c) ==
    \/ action[c].stage = "open" /\ lock[action[c].request] = NoCall
    \/ action[c].stage \in {"claimed", "auditing"}

\* A row is locked by the call that decides about it, and by no other.
LocksAreClaims ==
    \A r \in Requests : lock[r] # NoCall =>
        action[lock[r]].stage = "claimed" /\ action[lock[r]].request = r

(* A call waits for one row, and never for a call that waits itself.       *)
WaitersWaitForClaims ==
    \A c \in Actions : action[c].stage # "idle" /\ ~MayProceed(c) =>
        \E d \in Actions : /\ lock[action[c].request] = d
                           /\ action[d].request = action[c].request /\ MayProceed(d)

\* The steps that a call has before it at most.
StepsLeft(stage) ==
    CASE stage = "idle" -> 0 [] stage = "auditing" -> 1
      [] stage = "claimed" -> 2 [] stage = "open" -> 3

(* A call that runs is changed by its own steps only, and each of them     *)
(* brings it closer to its end: no step is tried again.                    *)
ActionsComeCloser ==
    [][\A c \in Actions : action[c].stage # "idle" =>
          \/ action'[c] = action[c]
          \/ StepsLeft(action'[c].stage) < StepsLeft(action[c].stage)]_permissionVars

(* A step of one call that takes no row keeps the holders of the others.   *)
LEMMA HoldersKept ==
    ASSUME PermissionTypeOK, LocksAreClaims, NEW c \in Actions,
           \A d \in Actions : d # c => action'[d] = action[d],
           \A r \in Requests : lock'[r] # NoCall => lock[r] # c /\ lock'[r] = lock[r]
    PROVE  LocksAreClaims'
<1>1. ASSUME NEW r \in Requests, lock'[r] # NoCall
      PROVE  action'[lock'[r]].stage = "claimed" /\ action'[lock'[r]].request = r
  <2>1. lock[r] \in Actions /\ lock'[r] = lock[r] /\ action'[lock[r]] = action[lock[r]]
    BY <1>1 DEF PermissionTypeOK
  <2> QED BY <1>1, <2>1 DEF LocksAreClaims
<1> QED BY <1>1 DEF LocksAreClaims

(* Whoever holds a row decides about it.                                   *)
LEMMA HoldersStep ==
    PermissionTypeOK /\ LocksAreClaims /\ [PermissionNext]_permissionVars => LocksAreClaims'
<1> SUFFICES ASSUME PermissionTypeOK, LocksAreClaims, [PermissionNext]_permissionVars
             PROVE  LocksAreClaims'
  OBVIOUS
<1>1. ASSUME NEW c \in Actions, action[c].stage # "claimed"
      PROVE  \A r \in Requests : lock[r] # c
  BY <1>1, PermissionConstants DEF LocksAreClaims
<1>2. ASSUME NEW c \in Actions, UNCHANGED lock, action[c].stage # "claimed",
             \A d \in Actions : d # c => action'[d] = action[d]
      PROVE  LocksAreClaims'
  BY <1>1, <1>2, HoldersKept
<1>3. ASSUME NEW c \in Actions, lock' = Released(c),
             \A d \in Actions : d # c => action'[d] = action[d]
      PROVE  LocksAreClaims'
  BY <1>3, HoldersKept, PermissionConstants DEF Released
<1>4. ASSUME NEW c \in Actions, NEW r \in Requests, Submitting(c, r) \/ Reviewing(c, r)
      PROVE  LocksAreClaims'
  BY <1>2, <1>4
     DEF Submitting, Reviewing, Create, OpenCancel, OpenReview, BeginAction, PermissionTypeOK
<1>5. ASSUME NEW c \in Actions, Claim(c) PROVE LocksAreClaims'
  <2> DEFINE q == action[c].request
  <2>1. /\ q \in Requests /\ action[c].stage = "open" /\ lock' = [lock EXCEPT ![q] = c]
        /\ action' = [action EXCEPT ![c].stage = "claimed"]
    BY <1>5 DEF Claim, ClaimAnyStatus, PermissionTypeOK, CallRecord
  <2>2. /\ action'[c].stage = "claimed" /\ action'[c].request = q
        /\ \A d \in Actions : d # c => action'[d] = action[d]
    BY <2>1, ActionMoves
  <2> HIDE DEF q
  <2>3. ASSUME NEW r \in Requests, lock'[r] # NoCall
        PROVE  action'[lock'[r]].stage = "claimed" /\ action'[lock'[r]].request = r
    <3>1. CASE r = q
      BY <2>1, <2>2, <3>1 DEF PermissionTypeOK
    <3>2. CASE r # q
      <4>1. lock'[r] = lock[r] /\ lock[r] \in Actions /\ lock[r] # c
        BY <1>1, <2>1, <2>3, <3>2 DEF PermissionTypeOK
      <4> QED BY <2>2, <2>3, <4>1 DEF LocksAreClaims
    <3> QED BY <3>1, <3>2
  <2> QED BY <2>3 DEF LocksAreClaims
<1>6. ASSUME NEW c \in Actions, AlreadyDecided(c) \/ WriteAudit(c) PROVE LocksAreClaims'
  BY <1>2, <1>6 DEF AlreadyDecided, WriteAudit, PermissionTypeOK
<1>7. ASSUME NEW c \in Actions, Commit(c) \/ Fail(c) PROVE LocksAreClaims'
  BY <1>3, <1>7 DEF Commit, Fail, PermissionTypeOK
<1>8. CASE UNCHANGED permissionVars
  BY <1>8 DEF permissionVars, LocksAreClaims
<1> QED BY <1>4, <1>5, <1>6, <1>7, <1>8 DEF PermissionNext, Advance

(* What CallsFinish rests on beside fairness, for any number of calls: who *)
(* waits for a row waits for a call that may go on.                        *)
THEOREM NobodyWaitsForAWaiter == PermissionSpec => [](LocksAreClaims /\ WaitersWaitForClaims)
<1>1. PermissionInit => LocksAreClaims
  BY DEF PermissionInit, LocksAreClaims
<1>2. PermissionTypeOK /\ LocksAreClaims => WaitersWaitForClaims
  <2> SUFFICES ASSUME PermissionTypeOK, LocksAreClaims,
                      NEW c \in Actions, action[c].stage # "idle", ~MayProceed(c)
               PROVE  \E d \in Actions :
                         /\ lock[action[c].request] = d
                         /\ action[d].request = action[c].request /\ MayProceed(d)
    BY DEF WaitersWaitForClaims
  <2>1. action[c].request \in Requests /\ lock[action[c].request] \in Actions
    BY DEF MayProceed, PermissionTypeOK, CallRecord
  <2> QED BY <2>1, PermissionConstants DEF LocksAreClaims, MayProceed
<1> QED BY <1>1, <1>2, HoldersStep, TypeCorrect, PTL DEF PermissionSpec

(* Each call has at most three steps after its first, and no other call    *)
(* sends it back.                                                          *)
THEOREM ActionsGoForward == PermissionSpec => ActionsComeCloser
<1>1. PermissionTypeOK /\ [PermissionNext]_permissionVars =>
        [\A c \in Actions : action[c].stage # "idle" =>
            \/ action'[c] = action[c]
            \/ StepsLeft(action'[c].stage) < StepsLeft(action[c].stage)]_permissionVars
  <2> SUFFICES ASSUME PermissionTypeOK, [PermissionNext]_permissionVars,
                      NEW c \in Actions, action[c].stage # "idle", action'[c] # action[c]
               PROVE  StepsLeft(action'[c].stage) < StepsLeft(action[c].stage)
    OBVIOUS
  <2>1. ASSUME NEW d \in Actions, NEW r \in Requests, Submitting(d, r) \/ Reviewing(d, r)
        PROVE  FALSE
    BY <2>1 DEF Submitting, Reviewing, Create, OpenCancel, OpenReview, BeginAction, PermissionTypeOK
  <2>2. ASSUME NEW d \in Actions, Advance(d) \/ Fail(d) PROVE d = c
    BY <2>2
       DEF Advance, Fail, Claim, ClaimAnyStatus, AlreadyDecided, Commit, WriteAudit, PermissionTypeOK
  <2>3. CASE Claim(c)
    <3>1. action[c].stage = "open" /\ action'[c].stage = "claimed"
      BY <2>3, ActionMoves DEF Claim, ClaimAnyStatus
    <3> QED BY <3>1 DEF StepsLeft
  <2>4. CASE Commit(c)
    <3>1. action[c].stage = "claimed" /\ action'[c].stage = "auditing"
      BY <2>4, ActionMoves DEF Commit
    <3> QED BY <3>1 DEF StepsLeft
  <2>5. CASE AlreadyDecided(c) \/ WriteAudit(c) \/ Fail(c)
    <3>1. action[c].stage \in {"open", "claimed", "auditing"} /\ action'[c].stage = "idle"
      BY <2>5, ActionMoves DEF AlreadyDecided, WriteAudit, Fail, PermissionTypeOK, CallRecord
    <3> QED BY <3>1 DEF StepsLeft
  <2>6. ~UNCHANGED permissionVars
    BY DEF permissionVars
  <2> QED BY <2>1, <2>2, <2>3, <2>4, <2>5, <2>6 DEF PermissionNext, Advance
<1> QED BY <1>1, TypeCorrect, PTL DEF PermissionSpec, ActionsComeCloser

-----------------------------------------------------------------------------
(* What the pages show                                                     *)

(* A request has an owner, and its history begins with the submission.     *)
Submitted ==
    \A r \in Requests : status[r] # "none" =>
        /\ owner[r] \in Staff
        /\ events[r] # <<>>
        /\ events[r][1].type = "submitted"

(* Creation submits, a decision comes after, and the owner is written once. *)
LEMMA SubmittedStep ==
    PermissionTypeOK /\ HistoryMatchesStatus /\ Submitted /\ CallsAreEntitled /\ [PermissionNext]_permissionVars => Submitted'
<1> SUFFICES ASSUME PermissionTypeOK, HistoryMatchesStatus, Submitted, CallsAreEntitled, [PermissionNext]_permissionVars
             PROVE  Submitted'
  OBVIOUS
<1>1. ASSUME NEW c \in Actions, NEW q \in Requests, NEW e \in Staff, Create(c, q, e)
      PROVE  Submitted'
  BY <1>1 DEF Create, PermissionTypeOK, Submitted
<1>2. ASSUME NEW c \in Actions, Commit(c)
      PROVE  Submitted'
  <2> DEFINE q == action[c].request
  <2>1. q \in Requests /\ events[q] \in Seq(Event) /\ EventOf(c) \in Event /\ status[q] # "none"
    BY <1>2 DEF Commit, PermissionTypeOK, CallRecord, EventOf, Event, CallsAreEntitled
  <2>2. /\ events'[q] = Append(events[q], EventOf(c)) /\ owner' = owner
        /\ \A r \in Requests : r # q => events'[r] = events[r] /\ status'[r] = status[r]
    BY <1>2, <2>1 DEF Commit, PermissionTypeOK
  <2> HIDE DEF q
  <2>3. events'[q] # <<>> /\ events'[q][1].type = "submitted" /\ owner'[q] \in Staff
    <3>1. events[q] # <<>> /\ events[q][1].type = "submitted" /\ owner[q] \in Staff
      BY <2>1 DEF Submitted
    <3>2. 1 \in DOMAIN events[q]
      BY <2>1, <3>1
    <3> QED BY <2>1, <2>2, <3>1, <3>2, Appended
  <2> QED BY <2>2, <2>3 DEF Submitted
<1>3. CASE UNCHANGED rows
  BY <1>3 DEF rows, Submitted
<1> QED
  BY <1>1, <1>2, <1>3
     DEF PermissionNext, Submitting, Reviewing, Advance, OpenCancel, OpenReview, Claim,
         ClaimAnyStatus, AlreadyDecided, WriteAudit, Fail, permissionVars, rows

(* Every request in a reachable state was submitted by an employee.        *)
LEMMA SubmittedAlways == PermissionSpec => []Submitted
<1>1. PermissionInit => Submitted
  BY DEF PermissionInit, Submitted
<1> QED BY <1>1, SubmittedStep, TypeCorrect, HistoriesAgree, EntitledAlways, PTL DEF PermissionSpec

(* Who may open a request, lists it; whoever acted on it, still opens it.  *)
LEMMA DetailsOpen ==
    ASSUME PermissionTypeOK, DecidedByTheRightUser, Submitted
    PROVE  DetailsOpenFromLists
<1> SUFFICES ASSUME NEW u \in Users, NEW r \in Present
             PROVE  LET page == DetailPage(u, r)
                    IN  /\ page.opens <=> r \in PermissionPage(u)
                              \cup PermissionManagementPage(u, {"pending"} \cup Decisions)
                        /\ (\E i \in DOMAIN page.history : page.history[i].actor = u)
                               => page.opens
  BY DEF DetailsOpenFromLists
<1>1. /\ r \in Requests /\ owner[r] \in Staff
      /\ status[r] \in {"pending"} \cup Decisions
  BY DEF Present, Submitted, PermissionTypeOK
<1>2. /\ DetailPage(u, r).opens <=> u = UserOf[owner[r]] \/ u \in Reviewers
      /\ DetailPage(u, r).history = events[r]
  BY DEF DetailPage, IsOwner, CanReview, getPermissionRequestDetail
<1>3. r \in PermissionPage(u) <=> u = UserOf[owner[r]]
  <2>1. \A e \in Staff :
           DOMAIN listMyPermissionRequests(e) = {q \in Present : owner[q] = e}
    BY DEF listMyPermissionRequests
  <2> QED BY <1>1, <2>1 DEF PermissionPage
<1>4. r \in PermissionManagementPage(u, {"pending"} \cup Decisions) <=> u \in Reviewers
  <2>1. DOMAIN listOrganizationPermissionRequests({"pending"} \cup Decisions)
            = {q \in Present : status[q] \in {"pending"} \cup Decisions}
    BY DEF listOrganizationPermissionRequests
  <2> QED BY <1>1, <2>1 DEF PermissionManagementPage, CanReview
<1>5. ASSUME NEW i \in DOMAIN events[r], events[r][i].actor = u
      PROVE  u = UserOf[owner[r]] \/ u \in Reviewers
  BY <1>1, <1>5 DEF DecidedByTheRightUser
<1> QED BY <1>2, <1>3, <1>4, <1>5

(* A button is shown for what the server would start, beside a history     *)
(* that holds no decision.                                                 *)
LEMMA ButtonsFollow ==
    ASSUME PermissionTypeOK, HistoryMatchesStatus, Submitted
    PROVE  ButtonsFollowGuards
<1> SUFFICES ASSUME NEW u \in Users, NEW r \in Present
             PROVE  LET shown == PermissionRequestActions(u, r)
                        page == DetailPage(u, r)
                    IN  /\ shown.canReview \/ shown.canCancel =>
                              /\ page.opens
                              /\ {i \in DOMAIN page.history :
                                      page.history[i].type \in Decisions} = {}
                        /\ shown.canReview => r \in PermissionManagementPage(u, {"pending"})
                        /\ shown.canReview => MayReview(r, u)
                        /\ shown.canCancel <=>
                              \E e \in PermissionCreateDialog(u) : MayCancel(r, e)
  BY DEF ButtonsFollowGuards
<1>1. r \in Requests /\ owner[r] \in Staff /\ status[r] # "none"
  BY DEF Present, Submitted
<1>2. /\ DetailPage(u, r).opens <=> u = UserOf[owner[r]] \/ u \in Reviewers
      /\ DetailPage(u, r).history = events[r]
  BY <1>1 DEF DetailPage, IsOwner, CanReview, getPermissionRequestDetail
<1>3. /\ PermissionRequestActions(u, r).canCancel
            <=> status[r] = "pending" /\ u = UserOf[owner[r]]
      /\ PermissionRequestActions(u, r).canReview
            <=> status[r] = "pending" /\ u \in Reviewers /\ u # UserOf[owner[r]]
  BY DEF PermissionRequestActions, toRow, IsOwner, CanReview
<1>4. ASSUME status[r] = "pending"
      PROVE  {i \in DOMAIN events[r] : events[r][i].type \in Decisions} = {}
  <2>1. events[r] \in Seq(Event) /\ Len(events[r]) = 1 /\ events[r][1].type = "submitted"
    BY <1>1, <1>4 DEF HistoryMatchesStatus, Submitted, PermissionTypeOK
  <2>2. \A i \in DOMAIN events[r] : i = 1
    BY <2>1
  <2> QED BY <2>1, <2>2 DEF Decisions
<1>5. ASSUME status[r] = "pending", u \in Reviewers
      PROVE  r \in PermissionManagementPage(u, {"pending"})
  <2>1. DOMAIN listOrganizationPermissionRequests({"pending"})
            = {q \in Present : status[q] \in {"pending"}}
    BY DEF listOrganizationPermissionRequests
  <2> QED BY <1>5, <2>1 DEF PermissionManagementPage, CanReview
<1>6. (\E e \in PermissionCreateDialog(u) : MayCancel(r, e))
          <=> status[r] = "pending" /\ u = UserOf[owner[r]]
  BY <1>1 DEF PermissionCreateDialog, MayCancel
<1> QED BY <1>1, <1>2, <1>3, <1>4, <1>5, <1>6 DEF MayReview

(* Management counts its list, and the employees' dashboards divide it.    *)
LEMMA DashboardsCount ==
    ASSUME PermissionTypeOK, Submitted
    PROVE  DashboardsCountOnce
<1>1. ASSUME NEW u \in Reviewers
      PROVE  pendingPermission = Cardinality(PermissionManagementPage(u, {"pending"}))
  <2>1. DOMAIN listOrganizationPermissionRequests({"pending"})
            = {q \in Present : status[q] = "pending"}
    BY DEF listOrganizationPermissionRequests
  <2> QED BY <2>1 DEF PermissionManagementPage, CanReview, pendingPermission
<1>2. \A e \in Staff :
          PendingOnDashboard(e) = {r \in Present : owner[r] = e /\ status[r] = "pending"}
  <2> SUFFICES ASSUME NEW e \in Staff
               PROVE  PendingOnDashboard(e)
                        = {r \in Present : owner[r] = e /\ status[r] = "pending"}
    OBVIOUS
  <2> DEFINE mine == listMyPermissionRequests(e)
  <2>1. /\ DOMAIN mine = {r \in Present : owner[r] = e}
        /\ \A r \in DOMAIN mine : mine[r].status = status[r]
    BY DEF listMyPermissionRequests, toRow
  <2> HIDE DEF mine
  <2>2. {r \in DOMAIN mine : mine[r].status = "pending"}
            = {r \in Present : owner[r] = e /\ status[r] = "pending"}
    BY <2>1
  <2> QED BY <2>2 DEF PendingOnDashboard, mine
<1>3. \A r \in Present : owner[r] \in Staff
  BY DEF Present, Submitted
<1> QED BY <1>1, <1>2, <1>3 DEF DashboardsCountOnce

(* Pages, buttons and dashboards agree with what the server accepts, in    *)
(* every reachable state, whatever calls are under way.                    *)
THEOREM ScreensStayTrue == PermissionSpec => []ScreensFollowRequests
<1>1. DecisionsAreRecorded /\ Submitted => ScreensFollowRequests
  BY DetailsOpen, ButtonsFollow, DashboardsCount
     DEF DecisionsAreRecorded, ScreensFollowRequests
<1> QED BY <1>1, RecordsAgree, SubmittedAlways, PTL

-----------------------------------------------------------------------------
(***************************************************************************)
(* Announcements                                                           *)
(***************************************************************************)

(***************************************************************************)
(* What a call remembers                                                   *)
(***************************************************************************)
Running == [op : Ops, on : Announcements, phase : Phases, all : BOOLEAN, to : SUBSET Employees,
            window : Windows \cup {Always}, uploads : 0 .. Uploads, next : 1 .. Uploads + 1,
            key : Keys \cup {None}, by : Employees \cup {None}]

(* What follows from the phase a call is in: a creation names the          *)
(* announcement after itself, and each statement belongs to its action.    *)
Shape(c, r) ==
    /\ r.op = "create" => r.on = c
    /\ r.phase = "insert" => r.op = "create" /\ r.window \in Windows
    /\ r.phase = "set" => /\ r.op \in {"update", "retarget", "publish", "unpublish"}
                          /\ r.op = "update" => r.window \in Windows
    /\ r.phase \in {"rows", "row", "storage"} => r.op = "delete"
    /\ r.phase \in {"file", "attach"} => r.next <= r.uploads
    /\ r.phase \in {"detach", "unlink"} => r.key \in Keys

Sound(c, s) == s = Ended \/ (s \in Running /\ Shape(c, s))
CallsAreSound == call \in [Calls -> Call \cup {None}] /\ \A c \in Calls : call[c] = None \/ Sound(c, call[c])

(* Before its INSERT an announcement has left no trace.                    *)
Unborn(c) == call[c] = None \/ At(c, "insert")
NewIdsAreFree ==
    \A c \in Calls : Unborn(c) =>
        /\ c \notin DOMAIN row /\ c \notin DOMAIN receipt /\ erased[c] = 0 /\ lost[c] = 0
        /\ \A d \in Calls : d # c /\ call[d] \in Running => call[d].on # c

(* No announcement is read more often than calls have ended.               *)
ReadsHaveEnded ==
    \A a \in DOMAIN row : row[a].readCount <= Cardinality({c \in Calls : call[c] = Ended})

(* A file without a row is the one a call has just stored, one that a      *)
(* deletion is about to remove, or one left by a failure.                  *)
Attaching(k, c) == At(c, "attach") /\ k = NextKey(c)
Removing(k, c) ==
    \/ At(c, "unlink") /\ call[c].key = k
    \/ \E phase \in {"clear", "row", "storage"} :
          At(c, phase) /\ call[c].op = "delete" /\ call[c].on = k[1]
Known == attachment \cup stray
FilesAreKnown ==
    \A k \in file : k \in Known \/ \E c \in Calls : Attaching(k, c) \/ Removing(k, c)

IInv ==
    /\ TypeOK
    /\ CallsAreSound
    /\ NewIdsAreFree
    /\ ReadsAreCounted
    /\ ReadsHaveEnded
    /\ FilesAreKnown

LEMMA CallIsRunningOrEnded == Call = Running \cup {Ended}
BY DEF Call, Running

LEMMA Kinds == /\ \A r \in Running : r # Ended /\ "phase" \in DOMAIN r /\ r # None
               /\ Ended \notin Running /\ "phase" \notin DOMAIN Ended /\ Ended # None
<1>1. ASSUME NEW r \in Running PROVE "phase" \in DOMAIN r
  BY DEF Running
<1>2. "phase" \notin DOMAIN Ended
  BY DEF Ended
<1>3. None \notin Running \cup {Ended}
  BY NoneIsNoCall, CallIsRunningOrEnded
<1> QED BY <1>1, <1>2, <1>3

(* A call in a phase is running, with the shape its phase tells.           *)
LEMMA InPhase ==
    ASSUME CallsAreSound, NEW c \in Calls, NEW phase, At(c, phase)
    PROVE  call[c] \in Running /\ Shape(c, call[c]) /\ call[c].phase = phase /\ call[c] # None
BY Kinds DEF CallsAreSound, Sound, At

LEMMA PhaseOf ==
    ASSUME CallsAreSound, NEW c \in Calls, NEW phase
    PROVE  At(c, phase) <=> call[c] \in Running /\ call[c].phase = phase
BY Kinds DEF CallsAreSound, Sound, At

(* The same of the next state.                                             *)
LEMMA PhaseOfNext ==
    ASSUME CallsAreSound', NEW c \in Calls, NEW phase
    PROVE  At(c, phase)' <=> call'[c] \in Running /\ call'[c].phase = phase
BY Kinds DEF CallsAreSound, Sound, At

(***************************************************************************)
(* One call moves                                                          *)
(***************************************************************************)
Moves(c, s) == call' = [call EXCEPT ![c] = s]

LEMMA MovedCall ==
    ASSUME CallsAreSound, NEW c \in Calls, NEW s, Moves(c, s), Sound(c, s)
    PROVE  CallsAreSound' /\ call'[c] = s /\ \A d \in Calls : d # c => call'[d] = call[d]
BY CallIsRunningOrEnded DEF CallsAreSound, Sound, Moves

LEMMA Gone ==
    ASSUME CallsAreSound, NEW c \in Calls, call[c] \in Running, NEW phase \in Phases, Goto(c, phase)
    PROVE  \E s \in Running :
              /\ Moves(c, s) /\ s.phase = phase
              /\ \A f \in {"op", "on", "all", "to", "window", "uploads", "next", "key", "by"} :
                    s[f] = call[c][f]
<1> DEFINE s == [call[c] EXCEPT !.phase = phase]
<1>1. s \in Running
  BY DEF Running
<1>2. Moves(c, s)
  BY DEF Goto, Moves
<1>3. /\ s.phase = phase
      /\ \A f \in {"op", "on", "all", "to", "window", "uploads", "next", "key", "by"} :
            s[f] = call[c][f]
  BY DEF Running
<1> QED BY <1>1, <1>2, <1>3

LEMMA Finished ==
    ASSUME NEW c \in Calls, Finish(c)
    PROVE  Moves(c, Ended) /\ Sound(c, Ended) /\ Ended \notin Running
BY Kinds DEF Finish, Moves, Sound

(* An upload goes on to the next file, or the call ends.                   *)
LEMMA Uploading ==
    ASSUME NEW c \in Calls, NEW r \in Running, r.op = "create" => r.on = c, Upload(c, r)
    PROVE  \E s : /\ Moves(c, s) /\ Sound(c, s)
                  /\ s \in Running => s.on = r.on /\ s.phase = "file"
<1>1. CASE r.next <= r.uploads
  <2> DEFINE s == [r EXCEPT !.phase = "file"]
  <2>1. Moves(c, s)
    BY <1>1 DEF Upload, Moves
  <2>2. /\ s \in Running /\ s.phase = "file" /\ s.on = r.on /\ s.op = r.op
        /\ s.next = r.next /\ s.uploads = r.uploads
    BY DEF Running, Phases
  <2> HIDE DEF s
  <2>3. Sound(c, s)
    BY <1>1, <2>2 DEF Sound, Shape
  <2> QED BY <2>1, <2>2, <2>3
<1>2. CASE ~(r.next <= r.uploads)
  <2>1. Moves(c, Ended) /\ Sound(c, Ended) /\ Ended \notin Running
    BY <1>2, Kinds DEF Upload, Moves, Sound
  <2> QED BY <2>1
<1> QED BY <1>1, <1>2

(* Ids stay new: rows come only under the id of a creation, receipts only  *)
(* for an announcement that exists, erased ones only where there were some. *)
LEMMA IdsStayFree ==
    ASSUME IInv, CallsAreSound',
           \A d \in Calls : Unborn(d)' =>
              /\ Unborn(d)
              /\ d \notin DOMAIN row' /\ d \notin DOMAIN receipt' /\ erased'[d] = erased[d] /\ lost'[d] = lost[d],
           \A d, e \in Calls : d # e /\ call'[e] \in Running /\ Unborn(d)' =>
              call'[e].on # d
    PROVE  NewIdsAreFree'
BY DEF IInv, NewIdsAreFree

(***************************************************************************)
(* What a step of the call c has to show for each part of the invariant    *)
(***************************************************************************)
StoreTypes ==
    /\ now \in Moments /\ employed \subseteq Employees
    /\ DOMAIN row \subseteq Announcements /\ \A a \in DOMAIN row : row[a] \in Row
    /\ \A a \in DOMAIN receipt :
         /\ DOMAIN receipt[a] \subseteq employed /\ receipt[a] \in [DOMAIN receipt[a] -> BOOLEAN]
         /\ DOMAIN receipt[a] # {} => Exists(a)
    /\ attachment \subseteq Keys /\ file \subseteq Keys /\ \A k \in attachment : Exists(k[1])
    /\ erased \in [Announcements -> Nat] /\ lost \in [Announcements -> Nat] /\ stray \subseteq Keys

LEMMA Types == CallsAreSound => (TypeOK <=> StoreTypes)
BY DEF CallsAreSound, TypeOK, StoreTypes

LEMMA TypesNext == CallsAreSound' => (TypeOK' <=> StoreTypes')
BY DEF CallsAreSound, TypeOK, StoreTypes

(* The calls and the ids.                                                  *)
LEMMA CallsContinue ==
    ASSUME IInv, NEW c \in Calls, call[c] \in Running, NEW s, Moves(c, s), Sound(c, s),
           s \in Running => s.on = call[c].on /\ s.phase # "insert",
           \A d \in Calls :
              d # c /\ d # call[c].on /\ d \notin DOMAIN row /\ d \notin DOMAIN receipt
                 => d \notin DOMAIN row' /\ d \notin DOMAIN receipt' /\ erased'[d] = erased[d] /\ lost'[d] = lost[d]
    PROVE  CallsAreSound' /\ NewIdsAreFree'
<1>1. CallsAreSound /\ NewIdsAreFree
  BY DEF IInv
<1>2. CallsAreSound' /\ call'[c] = s /\ \A d \in Calls : d # c => call'[d] = call[d]
  BY <1>1, MovedCall
<1>3. ASSUME NEW d \in Calls, Unborn(d)' PROVE d # c /\ Unborn(d) /\ call[c].on # d
  <2>1. d # c
    BY <1>2, <1>3, PhaseOfNext, Kinds DEF Unborn, Sound
  <2>2. Unborn(d)
    BY <1>1, <1>2, <1>3, <2>1, PhaseOf, PhaseOfNext DEF Unborn
  <2> QED BY <1>1, <2>1, <2>2 DEF NewIdsAreFree
<1>4. ASSUME NEW d \in Calls, Unborn(d)'
      PROVE  d \notin DOMAIN row' /\ d \notin DOMAIN receipt' /\ erased'[d] = erased[d] /\ lost'[d] = lost[d]
  BY <1>1, <1>3, <1>4 DEF NewIdsAreFree
<1>5. ASSUME NEW d \in Calls, NEW e \in Calls, d # e, call'[e] \in Running, Unborn(d)'
      PROVE  call'[e].on # d
  <2>1. CASE e = c
    BY <1>2, <1>3, <1>5, <2>1
  <2>2. CASE e # c
    BY <1>1, <1>2, <1>3, <1>5, <2>2 DEF NewIdsAreFree
  <2> QED BY <2>1, <2>2
<1> QED BY <1>2, <1>3, <1>4, <1>5, IdsStayFree

(* The counts, when no count is pending for c before or after.             *)
LEMMA EndedOnly ==
    ASSUME CallsAreSound, NEW c \in Calls, NEW s, Moves(c, s), Sound(c, s), call[c] # Ended
    PROVE  /\ {d \in Calls : call[d] = Ended} \subseteq {d \in Calls : call'[d] = Ended}
           /\ Cardinality({d \in Calls : call[d] = Ended}) \in Nat
           /\ Cardinality({d \in Calls : call'[d] = Ended}) \in Nat
           /\ Cardinality({d \in Calls : call[d] = Ended})
                 <= Cardinality({d \in Calls : call'[d] = Ended})
<1> DEFINE S == {d \in Calls : call[d] = Ended}
           T == {d \in Calls : call'[d] = Ended}
<1>1. S \subseteq T
  BY MovedCall
<1>2. IsFiniteSet(S) /\ IsFiniteSet(T)
  BY AnnouncementAssumption, FS_Subset
<1> HIDE DEF S, T
<1>3. Cardinality(S) \in Nat /\ Cardinality(T) \in Nat
  BY <1>2, FS_CardinalityType
<1>4. Cardinality(S) <= Cardinality(T)
  BY <1>1, <1>2, FS_Subset
<1> QED BY <1>1, <1>3, <1>4 DEF S, T

LEMMA CountingIsFinite ==
    ASSUME NEW a
    PROVE  IsFiniteSet(Counting(a)) /\ Cardinality(Counting(a)) \in Nat
<1>1. Counting(a) \subseteq Calls
  BY DEF Counting
<1> QED BY <1>1, AnnouncementAssumption, FS_Subset, FS_CardinalityType

ReadsOf(a) == ReadReceipts(Receipts(a))

LEMMA ReadsContinue ==
    ASSUME IInv, NEW c \in Calls, call[c] # Ended, NEW s, Moves(c, s), Sound(c, s),
           ~At(c, "count"), s \in Running => s.phase # "count", UNCHANGED lost,
           \A a \in DOMAIN row' :
              \/ /\ a \in DOMAIN row /\ row'[a].readCount = row[a].readCount
                 /\ ReadsOf(a)' + erased'[a] = ReadsOf(a) + erased[a]
              \/ /\ row'[a].readCount = 0 /\ ReadsOf(a)' + erased'[a] = 0 /\ lost[a] = 0
                 /\ \A d \in Calls : d # c /\ call[d] \in Running => call[d].on # a
    PROVE  ReadsAreCounted' /\ ReadsHaveEnded'
<1>1. CallsAreSound /\ CallsAreSound' /\ call'[c] = s /\ \A d \in Calls : d # c => call'[d] = call[d]
  BY MovedCall DEF IInv
<1>2. \A d \in Calls : At(d, "count")' <=> At(d, "count")
  BY <1>1, PhaseOf, PhaseOfNext
<1>3. ASSUME NEW a PROVE Counting(a)' = Counting(a)
  BY <1>1, <1>2 DEF Counting
<1>4. ReadsAreCounted'
  <2> SUFFICES ASSUME NEW a \in DOMAIN row'
               PROVE  row'[a].readCount + Cardinality(Counting(a)') + lost'[a] = ReadsOf(a)' + erased'[a]
    BY DEF ReadsAreCounted, ReadsOf
  <2>1. CASE a \in DOMAIN row /\ row'[a].readCount = row[a].readCount
             /\ ReadsOf(a)' + erased'[a] = ReadsOf(a) + erased[a]
    BY <1>3, <2>1 DEF IInv, ReadsAreCounted, ReadsOf
  <2>2. CASE row'[a].readCount = 0 /\ ReadsOf(a)' + erased'[a] = 0 /\ lost[a] = 0
             /\ \A d \in Calls : d # c /\ call[d] \in Running => call[d].on # a
    <3>1. Counting(a) = {}
      BY <1>1, <2>2, PhaseOf DEF Counting
    <3>2. Cardinality(Counting(a)') = 0
      BY <1>3, <3>1, FS_EmptySet
    <3>3. row'[a].readCount + Cardinality(Counting(a)') = 0
      BY <2>2, <3>2
    <3> QED BY <2>2, <3>3
  <2> QED BY <2>1, <2>2
<1>5. ReadsHaveEnded'
  <2> DEFINE n == Cardinality({d \in Calls : call[d] = Ended})
             m == Cardinality({d \in Calls : call'[d] = Ended})
  <2>1. n \in Nat /\ m \in Nat /\ n <= m
    BY <1>1, EndedOnly
  <2>2. \A a \in DOMAIN row : row[a].readCount \in Nat /\ row[a].readCount <= n
    BY AnnouncementAssumption, FS_CardinalityType DEF IInv, TypeOK, Row, ReadsHaveEnded
  <2> HIDE DEF n, m
  <2>3. \A a \in DOMAIN row' : row'[a].readCount <= m
    BY <2>1, <2>2
  <2> QED BY <2>3 DEF ReadsHaveEnded, m
<1> QED BY <1>4, <1>5

(* The files: one that c answered for, before, has its row or is answered  *)
(* for by c again.                                                         *)
LEMMA FilesContinue ==
    ASSUME IInv, NEW c \in Calls, NEW s, Moves(c, s), Sound(c, s),
           \A k \in file' :
              \/ k \in Known'
              \/ Attaching(k, c)' \/ Removing(k, c)'
              \/ k \in file /\ k \notin Known /\ ~Attaching(k, c) /\ ~Removing(k, c)
    PROVE  FilesAreKnown'
<1>1. CallsAreSound /\ CallsAreSound' /\ call'[c] = s /\ \A d \in Calls : d # c => call'[d] = call[d]
  BY MovedCall DEF IInv
<1>2. ASSUME NEW d \in Calls, d # c, NEW k
      PROVE  (Attaching(k, d) => Attaching(k, d)') /\ (Removing(k, d) => Removing(k, d)')
  <2>1. call'[d] = call[d] /\ \A phase : At(d, phase) => At(d, phase)'
    BY <1>1, <1>2 DEF At
  <2> QED BY <2>1 DEF Attaching, Removing, NextKey
<1> SUFFICES ASSUME NEW k \in file'
             PROVE  k \in Known' \/ \E d \in Calls : Attaching(k, d)' \/ Removing(k, d)'
  BY DEF FilesAreKnown
<1>3. CASE k \in file /\ k \notin Known /\ ~Attaching(k, c) /\ ~Removing(k, c)
  BY <1>2, <1>3 DEF IInv, FilesAreKnown
<1> QED BY <1>3

(***************************************************************************)
(* The actions that begin a call                                           *)
(***************************************************************************)
BeginPhases == {"insert", "set", "rows", "detach", "receipt"}

LEMMA BeginStep ==
    ASSUME IInv, NEW c \in Calls, NEW s \in Running, Begin(c, s), Shape(c, s),
           s.phase \in BeginPhases,
           IF s.phase = "insert" THEN s.on = c ELSE Exists(s.on)
    PROVE  IInv'
<1>1. call[c] = None /\ Moves(c, s) /\ Sound(c, s) /\ UNCHANGED store
  BY DEF Begin, Idle, Moves, Sound
<1>2. CallsAreSound /\ CallsAreSound' /\ call'[c] = s /\ \A d \in Calls : d # c => call'[d] = call[d]
  BY <1>1, MovedCall DEF IInv
<1>3. UNCHANGED <<now, employed, row, receipt, attachment, file, erased, lost, stray>>
  BY <1>1 DEF store, history
<1>4. ~At(c, "count") /\ \A k : ~Attaching(k, c) /\ ~Removing(k, c)
  BY <1>1 DEF At, Attaching, Removing
<1>5. TypeOK'
  <2>1. StoreTypes'
    BY <1>2, <1>3, Types DEF StoreTypes, Exists, IInv
  <2> QED BY <1>2, <2>1, TypesNext
<1>6. NewIdsAreFree'
  <2>1. ASSUME NEW d \in Calls, Unborn(d)' PROVE Unborn(d) /\ (d # c => s.on # d)
    <3>1. CASE d = c
      BY <1>1, <3>1 DEF Unborn
    <3>2. CASE d # c
      <4>1. Unborn(d)
        BY <1>2, <2>1, <3>2, PhaseOf, PhaseOfNext DEF Unborn
      <4>2. d \notin DOMAIN row
        BY <4>1 DEF IInv, NewIdsAreFree
      <4> QED BY <3>2, <4>1, <4>2 DEF Exists
    <3> QED BY <3>1, <3>2
  <2>2. ASSUME NEW d \in Calls, Unborn(d)'
        PROVE  /\ Unborn(d)
               /\ d \notin DOMAIN row' /\ d \notin DOMAIN receipt' /\ erased'[d] = erased[d] /\ lost'[d] = lost[d]
    BY <1>3, <2>1, <2>2 DEF IInv, NewIdsAreFree
  <2>3. ASSUME NEW d \in Calls, NEW e \in Calls, d # e, call'[e] \in Running, Unborn(d)'
        PROVE  call'[e].on # d
    <3>1. CASE e = c
      BY <1>2, <2>1, <2>3, <3>1
    <3>2. CASE e # c
      BY <1>2, <2>1, <2>3, <3>2 DEF IInv, NewIdsAreFree
    <3> QED BY <3>1, <3>2
  <2> QED BY <1>2, <2>2, <2>3, IdsStayFree
<1>7. ReadsAreCounted' /\ ReadsHaveEnded'
  <2>1. \A a \in DOMAIN row' : /\ a \in DOMAIN row /\ row'[a].readCount = row[a].readCount
                               /\ ReadsOf(a)' + erased'[a] = ReadsOf(a) + erased[a]
    BY <1>3 DEF ReadsOf, ReadReceipts, Receipts
  <2>2. call[c] # Ended /\ s.phase # "count"
    BY <1>1, Kinds DEF BeginPhases
  <2> QED BY <1>1, <1>3, <1>4, <2>1, <2>2, ReadsContinue
<1>8. FilesAreKnown'
  <2>1. ASSUME NEW k \in file'
        PROVE  k \in Known' \/ (k \in file /\ k \notin Known
                                      /\ ~Attaching(k, c) /\ ~Removing(k, c))
    BY <1>3, <1>4 DEF Known
  <2> QED BY <1>1, <2>1, FilesContinue
<1> QED BY <1>2, <1>5, <1>6, <1>7, <1>8 DEF IInv

LEMMA RequestIsSound ==
    ASSUME NEW op \in Ops, NEW a \in Announcements, NEW phase \in Phases
    PROVE  /\ Request(op, a, phase) \in Running
           /\ Request(op, a, phase).op = op /\ Request(op, a, phase).on = a
           /\ Request(op, a, phase).phase = phase
<1>1. Uploads \in Nat
  BY AnnouncementAssumption
<1>2. 0 \in 0 .. Uploads /\ 1 \in 1 .. Uploads + 1
  BY <1>1
<1> QED BY <1>2 DEF Request, Running

LEMMA BeginManageStep ==
    ASSUME IInv, NEW c \in Calls,
           \/ CreateAnnouncement(c) \/ UpdateAnnouncement(c) \/ UpdateTarget(c)
           \/ PublishAnnouncement(c) \/ UnpublishAnnouncement(c) \/ DeleteAnnouncement(c)
           \/ RemoveAttachment(c) \/ MarkRead(c)
    PROVE  IInv'
<1>1. /\ DOMAIN row \subseteq Announcements /\ c \in Announcements
      /\ \A k \in attachment : k \in Keys /\ Exists(k[1]) /\ k[1] \in Announcements
      /\ employed \subseteq Employees
  BY DEF IInv, TypeOK, Announcements, Exists
<1>2. CASE CreateAnnouncement(c)
  <2>1. PICK all \in BOOLEAN, to \in SUBSET Employees, w \in Windows, n \in 0 .. Uploads :
           Begin(c, [Request("create", c, "insert") EXCEPT
                       !.all = all, !.to = to, !.window = w, !.uploads = n])
    BY <1>2, AnnouncementAssumption DEF CreateAnnouncement
  <2> DEFINE r == Request("create", c, "insert")
             s == [r EXCEPT !.all = all, !.to = to, !.window = w, !.uploads = n]
  <2>2. r \in Running /\ r.op = "create" /\ r.on = c /\ r.phase = "insert"
    BY <1>1, RequestIsSound DEF Ops, Phases
  <2> HIDE DEF r
  <2>3. s \in Running /\ s.op = "create" /\ s.on = c /\ s.phase = "insert" /\ s.window \in Windows
    BY <2>2 DEF Running
  <2>4. Begin(c, s)
    BY <2>1 DEF r
  <2> HIDE DEF s
  <2>5. Shape(c, s)
    BY <2>3 DEF Shape
  <2> QED BY <2>3, <2>4, <2>5, BeginStep DEF BeginPhases
<1>3. CASE UpdateAnnouncement(c)
  <2>1. PICK a \in DOMAIN row, w \in Windows, n \in 0 .. Uploads :
           Begin(c, [Request("update", a, "set") EXCEPT !.window = w, !.uploads = n])
    BY <1>3, AnnouncementAssumption DEF UpdateAnnouncement
  <2> DEFINE r == Request("update", a, "set")
             s == [r EXCEPT !.window = w, !.uploads = n]
  <2>2. r \in Running /\ r.op = "update" /\ r.on = a /\ r.phase = "set"
    BY <1>1, RequestIsSound DEF Ops, Phases
  <2> HIDE DEF r
  <2>3. s \in Running /\ s.op = "update" /\ s.on = a /\ s.phase = "set" /\ s.window \in Windows
    BY <2>2 DEF Running
  <2>4. Begin(c, s) /\ Exists(a)
    BY <2>1 DEF r, Exists
  <2> HIDE DEF s
  <2>5. Shape(c, s)
    BY <2>3 DEF Shape
  <2> QED BY <2>3, <2>4, <2>5, BeginStep DEF BeginPhases
<1>4. CASE UpdateTarget(c)
  <2>1. PICK a \in DOMAIN row, all \in BOOLEAN, to \in SUBSET Employees :
           Begin(c, [Request("retarget", a, "set") EXCEPT !.all = all, !.to = to])
    BY <1>4 DEF UpdateTarget
  <2> DEFINE r == Request("retarget", a, "set")
             s == [r EXCEPT !.all = all, !.to = to]
  <2>2. r \in Running /\ r.op = "retarget" /\ r.on = a /\ r.phase = "set"
    BY <1>1, RequestIsSound DEF Ops, Phases
  <2> HIDE DEF r
  <2>3. s \in Running /\ s.op = "retarget" /\ s.on = a /\ s.phase = "set"
    BY <2>2 DEF Running
  <2>4. Begin(c, s) /\ Exists(a)
    BY <2>1 DEF r, Exists
  <2> HIDE DEF s
  <2>5. Shape(c, s)
    BY <2>3 DEF Shape
  <2> QED BY <2>3, <2>4, <2>5, BeginStep DEF BeginPhases
<1>5. CASE PublishAnnouncement(c) \/ UnpublishAnnouncement(c) \/ DeleteAnnouncement(c)
  <2> DEFINE Simple == {<<"publish", "set">>, <<"unpublish", "set">>, <<"delete", "rows">>}
  <2>1. PICK a \in DOMAIN row : \E x \in Simple : Begin(c, Request(x[1], a, x[2]))
    <3>1. \E a \in DOMAIN row : \/ Begin(c, Request("publish", a, "set"))
                                \/ Begin(c, Request("unpublish", a, "set"))
                                \/ Begin(c, Request("delete", a, "rows"))
      BY <1>5 DEF PublishAnnouncement, UnpublishAnnouncement, DeleteAnnouncement
    <3> QED BY <3>1
  <2>2. PICK x \in Simple : Begin(c, Request(x[1], a, x[2]))
    BY <2>1
  <2> DEFINE s == Request(x[1], a, x[2])
  <2>3. s \in Running /\ s.op = x[1] /\ s.on = a /\ s.phase = x[2]
    BY <1>1, RequestIsSound DEF Ops, Phases
  <2>4. Begin(c, s) /\ Exists(a)
    BY <2>2 DEF Exists
  <2> HIDE DEF s
  <2>5. Shape(c, s) /\ s.phase \in {"set", "rows"}
    BY <2>3 DEF Shape
  <2> QED BY <2>3, <2>4, <2>5, BeginStep DEF BeginPhases
<1>6. CASE RemoveAttachment(c)
  <2>1. PICK k \in attachment : Begin(c, [Request("remove", k[1], "detach") EXCEPT !.key = k])
    BY <1>6 DEF RemoveAttachment
  <2> DEFINE r == Request("remove", k[1], "detach")
             s == [r EXCEPT !.key = k]
  <2>2. r \in Running /\ r.op = "remove" /\ r.on = k[1] /\ r.phase = "detach"
    BY <1>1, RequestIsSound DEF Ops, Phases
  <2> HIDE DEF r
  <2>3. s \in Running /\ s.op = "remove" /\ s.on = k[1] /\ s.phase = "detach" /\ s.key \in Keys
    BY <1>1, <2>2 DEF Running
  <2>4. Begin(c, s) /\ Exists(k[1])
    BY <1>1, <2>1 DEF r
  <2> HIDE DEF s
  <2>5. Shape(c, s)
    BY <2>3 DEF Shape
  <2> QED BY <2>3, <2>4, <2>5, BeginStep DEF BeginPhases
<1>7. CASE MarkRead(c)
  <2>1. PICK a \in DOMAIN row, e \in employed :
           Begin(c, [Request("read", a, "receipt") EXCEPT !.by = e])
    BY <1>7 DEF MarkRead
  <2> DEFINE r == Request("read", a, "receipt")
             s == [r EXCEPT !.by = e]
  <2>2. r \in Running /\ r.op = "read" /\ r.on = a /\ r.phase = "receipt"
    BY <1>1, RequestIsSound DEF Ops, Phases
  <2> HIDE DEF r
  <2>3. s \in Running /\ s.op = "read" /\ s.on = a /\ s.phase = "receipt"
    BY <1>1, <2>2 DEF Running
  <2>4. Begin(c, s) /\ Exists(a)
    BY <2>1 DEF r, Exists
  <2> HIDE DEF s
  <2>5. Shape(c, s)
    BY <2>3 DEF Shape
  <2> QED BY <2>3, <2>4, <2>5, BeginStep DEF BeginPhases
<1> QED BY <1>2, <1>3, <1>4, <1>5, <1>6, <1>7

(***************************************************************************)
(* The statements of a call, but those about a read                        *)
(***************************************************************************)
LEMMA ContinueStep ==
    ASSUME IInv, NEW c \in Calls, call[c] \in Running, ~At(c, "count"),
           NEW s, Moves(c, s), Sound(c, s),
           s \in Running => s.on = call[c].on /\ s.phase \notin {"insert", "count"},
           StoreTypes', UNCHANGED lost,
           \A d \in Calls :
              d # c /\ d # call[c].on /\ d \notin DOMAIN row /\ d \notin DOMAIN receipt
                 => d \notin DOMAIN row' /\ d \notin DOMAIN receipt' /\ erased'[d] = erased[d] /\ lost'[d] = lost[d],
           \A a \in DOMAIN row' :
              \/ /\ a \in DOMAIN row /\ row'[a].readCount = row[a].readCount
                 /\ ReadsOf(a)' + erased'[a] = ReadsOf(a) + erased[a]
              \/ /\ row'[a].readCount = 0 /\ ReadsOf(a)' + erased'[a] = 0 /\ lost[a] = 0
                 /\ \A d \in Calls : d # c /\ call[d] \in Running => call[d].on # a,
           \A k \in file' :
              \/ k \in Known'
              \/ Attaching(k, c)' \/ Removing(k, c)'
              \/ k \in file /\ k \notin Known /\ ~Attaching(k, c) /\ ~Removing(k, c)
    PROVE  IInv'
<1>1. CallsAreSound' /\ NewIdsAreFree'
  BY CallsContinue
<1>2. TypeOK'
  BY <1>1, TypesNext
<1>3. ReadsAreCounted' /\ ReadsHaveEnded'
  BY Kinds, ReadsContinue
<1>4. FilesAreKnown'
  BY FilesContinue
<1> QED BY <1>1, <1>2, <1>3, <1>4 DEF IInv

(* Only files and attachments change.                                      *)
LEMMA FilesStep ==
    ASSUME IInv, NEW c \in Calls, call[c] \in Running, ~At(c, "count"),
           NEW s, Moves(c, s), Sound(c, s),
           s \in Running => s.on = call[c].on /\ s.phase \notin {"insert", "count"},
           UNCHANGED <<now, employed, row, receipt, erased, lost>>,
           attachment' \subseteq Keys, file' \subseteq Keys, stray' \subseteq Keys,
           \A k \in attachment' : Exists(k[1]),
           \A k \in file' :
              \/ k \in Known'
              \/ Attaching(k, c)' \/ Removing(k, c)'
              \/ k \in file /\ k \notin Known /\ ~Attaching(k, c) /\ ~Removing(k, c)
    PROVE  IInv'
<1>1. StoreTypes'
  BY DEF IInv, TypeOK, StoreTypes, Exists
<1>2. \A a \in DOMAIN row' : /\ a \in DOMAIN row /\ row'[a].readCount = row[a].readCount
                             /\ ReadsOf(a)' + erased'[a] = ReadsOf(a) + erased[a]
  BY DEF ReadsOf, ReadReceipts, Receipts
<1> QED BY <1>1, <1>2, ContinueStep

(* A call that answers for no file leaves files and attachments alone.     *)
LEMMA RowsStep ==
    ASSUME IInv, NEW c \in Calls, call[c] \in Running, ~At(c, "count"),
           NEW s, Moves(c, s), Sound(c, s),
           s \in Running => s.on = call[c].on /\ s.phase \notin {"insert", "count"},
           UNCHANGED <<attachment, file, lost, stray>>,
           \A k : ~Attaching(k, c) /\ (Removing(k, c) => Removing(k, c)'),
           StoreTypes',
           \A d \in Calls :
              d # c /\ d # call[c].on /\ d \notin DOMAIN row /\ d \notin DOMAIN receipt
                 => d \notin DOMAIN row' /\ d \notin DOMAIN receipt' /\ erased'[d] = erased[d] /\ lost'[d] = lost[d],
           \A a \in DOMAIN row' :
              \/ /\ a \in DOMAIN row /\ row'[a].readCount = row[a].readCount
                 /\ ReadsOf(a)' + erased'[a] = ReadsOf(a) + erased[a]
              \/ /\ row'[a].readCount = 0 /\ ReadsOf(a)' + erased'[a] = 0 /\ lost[a] = 0
                 /\ \A d \in Calls : d # c /\ call[d] \in Running => call[d].on # a
    PROVE  IInv'
<1>1. ASSUME NEW k \in file'
      PROVE  \/ k \in Known'
             \/ Attaching(k, c)' \/ Removing(k, c)'
             \/ k \in file /\ k \notin Known /\ ~Attaching(k, c) /\ ~Removing(k, c)
  BY DEF Known
<1> QED BY <1>1, ContinueStep

(* Where a statement goes to.                                              *)
Kept(r, s) ==
    \A f \in {"op", "on", "all", "to", "window", "uploads", "next", "key", "by"} : s[f] = r[f]

LEMMA GoneSound ==
    ASSUME CallsAreSound, NEW c \in Calls, call[c] \in Running,
           NEW phase \in Phases \ {"insert", "set", "rows", "detach"}, Goto(c, phase),
           phase \in {"row", "storage"} => call[c].op = "delete",
           phase \in {"file", "attach"} => call[c].next <= call[c].uploads,
           phase = "unlink" => call[c].key \in Keys
    PROVE  \E s \in Running : Moves(c, s) /\ Shape(c, s) /\ s.phase = phase /\ Kept(call[c], s)
<1>1. PICK s \in Running :
         /\ Moves(c, s) /\ s.phase = phase
         /\ \A f \in {"op", "on", "all", "to", "window", "uploads", "next", "key", "by"} :
               s[f] = call[c][f]
  BY Gone
<1>2. call[c].op = "create" => call[c].on = c
  BY Kinds DEF CallsAreSound, Sound, Shape
<1>3. s.op = call[c].op /\ s.on = call[c].on /\ s.next = call[c].next
      /\ s.uploads = call[c].uploads /\ s.key = call[c].key
  BY <1>1
<1>4. Shape(c, s)
  BY <1>1, <1>2, <1>3 DEF Shape
<1> QED BY <1>1, <1>4 DEF Kept

LEMMA KeptFields ==
    ASSUME NEW r, NEW s, Kept(r, s)
    PROVE  /\ s.op = r.op /\ s.on = r.on /\ s.to = r.to /\ s.uploads = r.uploads
           /\ s.next = r.next /\ s.key = r.key /\ s.by = r.by
BY DEF Kept

(* The phases exclude one another.                                         *)
LEMMA OnePhase ==
    ASSUME CallsAreSound, NEW c \in Calls, NEW p, At(c, p), NEW q, q # p
    PROVE  ~At(c, q)
BY InPhase

(* Recipients are inserted, if any are chosen, before the files.           *)
LEMMA Addressing ==
    ASSUME CallsAreSound, NEW c \in Calls, call[c] \in Running, Address(c)
    PROVE  \E s : /\ Moves(c, s) /\ Sound(c, s)
                  /\ s \in Running => s.on = call[c].on /\ s.phase \in {"recipients", "file"}
<1>1. CASE call[c].to # {}
  <2>1. Goto(c, "recipients")
    BY <1>1 DEF Address
  <2>2. PICK s \in Running : /\ Moves(c, s) /\ Shape(c, s) /\ s.phase = "recipients"
                             /\ Kept(call[c], s)
    BY <2>1, GoneSound DEF Phases
  <2> QED BY <2>2, KeptFields DEF Sound
<1>2. CASE call[c].to = {}
  <2>1. Upload(c, call[c]) /\ (call[c].op = "create" => call[c].on = c)
    BY <1>2, Kinds DEF Address, CallsAreSound, Sound, Shape
  <2> QED BY <2>1, Uploading
<1> QED BY <1>1, <1>2

(* The file operations.  A failed upload answers for no file any more:     *)
(* what it does not remove is remembered as left.                          *)
LEMMA FailUploadStep ==
    ASSUME IInv, NEW c \in Calls, call[c] \in Running,
           call[c].phase \in {"recipients", "file", "attach"},
           NEW partial \in SUBSET Keys, FailUpload(c, partial),
           attachment \subseteq attachment', attachment' \subseteq Keys,
           \A k \in attachment' : Exists(k[1]),
           UNCHANGED <<now, employed, row, receipt, erased, lost>>
    PROVE  IInv'
<1>1. PICK R : R = ToRemove(c, partial)
  OBVIOUS
<1>2. PICK failing \in SUBSET R :
         /\ file' = ((file \cup partial) \ R) \cup failing
         /\ stray' = (stray \ R) \cup failing \cup (partial \ R)
         /\ Finish(c)
  BY <1>1 DEF FailUpload, FilesAfterFailure
<1>3. CallsAreSound /\ (call[c].op = "create" => call[c].on = c)
  BY Kinds DEF IInv, CallsAreSound, Sound, Shape
<1>4. ~At(c, "count") /\ \A k : (Attaching(k, c) => k = NextKey(c)) /\ ~Removing(k, c)
  BY <1>3, PhaseOf DEF Attaching, Removing
<1>5. /\ attachment \subseteq Keys /\ file \subseteq Keys /\ stray \subseteq Keys
      /\ \A k \in attachment : Exists(k[1])
  BY DEF IInv, TypeOK
<1>6. R \subseteq file \cup partial /\ (NextKey(c) \in file => NextKey(c) \in R)
  BY <1>1, <1>3 DEF ToRemove, NextKey
<1>7. file' \subseteq Keys /\ stray' \subseteq Keys /\ \A k \in attachment' : Exists(k[1])
  BY <1>2, <1>5, <1>6
<1>8. Moves(c, Ended) /\ Sound(c, Ended) /\ Ended \notin Running
  BY <1>2, Finished
<1>9. ASSUME NEW k \in file'
      PROVE  \/ k \in Known'
             \/ k \in file /\ k \notin Known /\ ~Attaching(k, c) /\ ~Removing(k, c)
  <2>1. CASE k \in failing \cup partial
    BY <1>2, <2>1, <1>9 DEF Known
  <2>2. CASE k \notin failing \cup partial
    <3>1. k \in file /\ k \notin R
      BY <1>2, <1>9, <2>2
    <3>2. ~Attaching(k, c) /\ ~Removing(k, c)
      BY <1>4, <1>6, <3>1
    <3>3. k \in Known => k \in Known'
      BY <1>2, <3>1 DEF Known
    <3> QED BY <3>1, <3>2, <3>3
  <2> QED BY <2>1, <2>2
<1> QED BY <1>4, <1>5, <1>7, <1>8, <1>9, FilesStep

LEMMA StoreFileStep == ASSUME IInv, NEW c \in Calls, StoreFile(c) PROVE IInv'
<1>1. CallsAreSound /\ call[c] \in Running /\ call[c].phase = "file" /\ Shape(c, call[c])
  BY InPhase DEF StoreFile, IInv
<1>2. call[c].on \in Announcements /\ call[c].next \in 1 .. Uploads
  BY <1>1, AnnouncementAssumption DEF Running, Shape
<1>3. ~At(c, "count") /\ \A k : ~Attaching(k, c) /\ ~Removing(k, c)
  BY <1>1, PhaseOf DEF Attaching, Removing
<1>4. /\ attachment \subseteq Keys /\ file \subseteq Keys /\ stray \subseteq Keys
      /\ \A k \in attachment : Exists(k[1])
  BY DEF IInv, TypeOK
<1>5. UNCHANGED <<now, employed, row, receipt, attachment, erased, lost>>
  BY DEF StoreFile
<1> DEFINE x == NextKey(c)
<1>6. x \in Keys
  BY <1>2 DEF Keys, NextKey
<1>7. CASE file' = file \cup {x} /\ Goto(c, "attach") /\ UNCHANGED stray
  <2>1. PICK s \in Running : Moves(c, s) /\ Shape(c, s) /\ s.phase = "attach" /\ Kept(call[c], s)
    BY <1>1, <1>7, GoneSound DEF Phases, Shape
  <2>2. s.on = call[c].on /\ s.next = call[c].next
    BY <2>1, KeptFields
  <2>3. Sound(c, s)
    BY <2>1 DEF Sound
  <2>4. call'[c] = s /\ CallsAreSound'
    BY <1>1, <2>1, <2>3, MovedCall
  <2>5. \A k : k = x => Attaching(k, c)'
    BY <2>1, <2>2, <2>4, PhaseOfNext DEF Attaching, NextKey
  <2> HIDE DEF x
  <2>6. file' \subseteq Keys /\ stray' \subseteq Keys /\ \A k \in attachment' : Exists(k[1])
    BY <1>4, <1>5, <1>6, <1>7
  <2>7. ASSUME NEW k \in file'
        PROVE  \/ k \in Known' \/ Attaching(k, c)'
               \/ k \in file /\ k \notin Known /\ ~Attaching(k, c) /\ ~Removing(k, c)
    BY <1>3, <1>5, <1>7, <2>5 DEF Known
  <2> QED BY <1>1, <1>3, <1>4, <1>5, <2>1, <2>2, <2>3, <2>6, <2>7, FilesStep
<1>8. CASE \E partial \in SUBSET {x} : FailUpload(c, partial)
  BY <1>1, <1>4, <1>5, <1>6, <1>8, FailUploadStep
<1> QED BY <1>7, <1>8 DEF StoreFile

LEMMA InsertAttachmentStep == ASSUME IInv, NEW c \in Calls, InsertAttachment(c) PROVE IInv'
<1> DEFINE x == NextKey(c)
<1>1. CallsAreSound /\ call[c] \in Running /\ call[c].phase = "attach" /\ Shape(c, call[c])
  BY InPhase DEF InsertAttachment, IInv
<1>2. /\ call[c].on \in Announcements /\ call[c].next \in 1 .. Uploads
      /\ call[c].next + 1 \in 1 .. Uploads + 1
      /\ call[c].op = "create" => call[c].on = c
  BY <1>1, AnnouncementAssumption DEF Running, Shape
<1>3. ~At(c, "count") /\ \A k : (Attaching(k, c) => k = x) /\ ~Removing(k, c)
  BY <1>1, PhaseOf DEF Attaching, Removing
<1>4. /\ attachment \subseteq Keys /\ file \subseteq Keys /\ stray \subseteq Keys
      /\ \A k \in attachment : Exists(k[1])
  BY DEF IInv, TypeOK
<1>5. UNCHANGED <<now, employed, row, receipt, erased, lost>>
  BY DEF InsertAttachment
<1>6. x \in Keys /\ x[1] = call[c].on
  BY <1>2 DEF Keys, NextKey
<1> HIDE DEF x
<1>7. CASE /\ Exists(call[c].on) /\ x \in attachment'
           /\ Upload(c, [call[c] EXCEPT !.next = call[c].next + 1])
           /\ UNCHANGED <<file, stray>>
  <2>1. PICK r : r = [call[c] EXCEPT !.next = call[c].next + 1]
    OBVIOUS
  <2>2. /\ r \in Running /\ r.on = call[c].on /\ r.op = call[c].op
        /\ Upload(c, r) /\ (r.op = "create" => r.on = c)
    BY <1>1, <1>2, <1>7, <2>1 DEF Running
  <2>3. PICK s : /\ Moves(c, s) /\ Sound(c, s)
                 /\ s \in Running => s.on = call[c].on /\ s.phase = "file"
    BY <2>2, Uploading
  <2>4. /\ attachment' \subseteq Keys /\ file' \subseteq Keys /\ stray' \subseteq Keys
        /\ \A k \in attachment' : Exists(k[1])
    BY <1>4, <1>6, <1>7 DEF InsertAttachment, x
  <2>5. ASSUME NEW k \in file'
        PROVE  \/ k \in Known'
               \/ k \in file /\ k \notin Known /\ ~Attaching(k, c) /\ ~Removing(k, c)
    BY <1>3, <1>7 DEF Known, InsertAttachment
  <2> QED BY <1>1, <1>3, <1>5, <2>3, <2>4, <2>5, FilesStep
<1>8. CASE FailUpload(c, {})
  <2>1. /\ attachment \subseteq attachment' /\ attachment' \subseteq Keys
        /\ \A k \in attachment' : Exists(k[1])
    BY <1>4, <1>6 DEF InsertAttachment, x
  <2> QED BY <1>1, <1>5, <1>8, <2>1, FailUploadStep
<1> QED BY <1>7, <1>8 DEF InsertAttachment, x

(* A removal leaves what it cannot remove, and what it can is gone.        *)
LEMMA RemovedStep ==
    ASSUME IInv, NEW c \in Calls, call[c] \in Running, ~At(c, "count"),
           NEW keys, Removal(c, keys),
           \A k : ~Attaching(k, c) /\ (Removing(k, c) => k \in keys \/ k \notin file),
           UNCHANGED <<now, employed, row, receipt, attachment, erased, lost>>
    PROVE  IInv'
<1>1. PICK failing \in SUBSET (keys \cap file) :
         file' = (file \ keys) \cup failing /\ stray' = (stray \ keys) \cup failing /\ Finish(c)
  BY DEF Removal
<1>2. Moves(c, Ended) /\ Sound(c, Ended) /\ Ended \notin Running
  BY <1>1, Finished
<1>3. /\ attachment \subseteq Keys /\ file \subseteq Keys /\ stray \subseteq Keys
      /\ \A k \in attachment : Exists(k[1])
  BY DEF IInv, TypeOK
<1>4. file' \subseteq Keys /\ stray' \subseteq Keys
  BY <1>1, <1>3
<1>5. ASSUME NEW k \in file'
      PROVE  \/ k \in Known'
             \/ k \in file /\ k \notin Known /\ ~Attaching(k, c) /\ ~Removing(k, c)
  BY <1>1 DEF Known
<1> QED BY <1>2, <1>3, <1>4, <1>5, FilesStep

LEMMA RemovalStep ==
    ASSUME IInv, NEW c \in Calls,
           \/ DeleteAttachmentRows(c) \/ DeleteStorage(c)
           \/ DetachRow(c) \/ UnlinkFile(c)
    PROVE  IInv'
<1> USE DEF IInv
<1>1. /\ CallsAreSound /\ attachment \subseteq Keys /\ file \subseteq Keys /\ stray \subseteq Keys
      /\ \A k \in attachment : Exists(k[1])
  BY DEF TypeOK
<1>2. CASE DeleteAttachmentRows(c)
  <2>1. /\ call[c] \in Running /\ call[c].op = "delete"
        /\ ~At(c, "count") /\ \A k : ~Attaching(k, c) /\ ~Removing(k, c)
    BY <1>1, <1>2, InPhase, OnePhase DEF DeleteAttachmentRows, Attaching, Removing, Shape
  <2>2. PICK s \in Running : Moves(c, s) /\ Shape(c, s) /\ s.phase = "clear" /\ Kept(call[c], s)
    BY <1>1, <1>2, <2>1, GoneSound DEF DeleteAttachmentRows, Phases
  <2>3. Sound(c, s) /\ s.on = call[c].on /\ s.op = "delete"
    BY <2>1, <2>2, KeptFields DEF Sound
  <2>4. call'[c] = s /\ CallsAreSound'
    BY <1>1, <2>2, <2>3, MovedCall
  <2>5. \A k : k[1] = call[c].on => Removing(k, c)'
    BY <2>2, <2>3, <2>4, PhaseOfNext DEF Removing
  <2>6. attachment' = {k \in attachment : k[1] # call[c].on}
        /\ UNCHANGED <<now, employed, row, receipt, file, erased, lost, stray>>
    BY <1>2 DEF DeleteAttachmentRows, WithoutAttachments, history
  <2>7. ASSUME NEW k \in file'
        PROVE  \/ k \in Known' \/ Removing(k, c)'
               \/ k \in file /\ k \notin Known /\ ~Attaching(k, c) /\ ~Removing(k, c)
    BY <2>1, <2>5, <2>6 DEF Known
  <2> QED BY <1>1, <2>1, <2>2, <2>3, <2>6, <2>7, FilesStep
<1>3. CASE DeleteStorage(c)
  <2>1. call[c] \in Running /\ call[c].phase = "storage" /\ ~At(c, "count")
    BY <1>1, <1>3, InPhase, OnePhase DEF DeleteStorage
  <2>2. PICK keys : keys = {k \in file : k[1] = call[c].on}
    OBVIOUS
  <2>3. \A k : ~Attaching(k, c) /\ (Removing(k, c) => k \in keys \/ k \notin file)
    BY <1>1, <2>1, <2>2, PhaseOf DEF Attaching, Removing
  <2>4. Removal(c, keys) /\ UNCHANGED <<now, employed, row, receipt, attachment, erased, lost>>
    BY <1>3, <2>2 DEF DeleteStorage
  <2> QED BY <2>1, <2>3, <2>4, RemovedStep
<1>4. CASE DetachRow(c)
  <2>1. /\ call[c] \in Running /\ call[c].key \in Keys /\ call[c].phase = "detach"
        /\ ~At(c, "count") /\ \A k : ~Attaching(k, c) /\ ~Removing(k, c)
    BY <1>1, <1>4, InPhase, OnePhase DEF DetachRow, Attaching, Removing, Shape
  <2>2. PICK s \in Running : Moves(c, s) /\ Shape(c, s) /\ s.phase = "unlink" /\ Kept(call[c], s)
    BY <1>1, <1>4, <2>1, GoneSound DEF DetachRow, Phases
  <2>3. Sound(c, s) /\ s.on = call[c].on /\ s.key = call[c].key
    BY <2>2, KeptFields DEF Sound
  <2>4. call'[c] = s /\ CallsAreSound'
    BY <1>1, <2>2, <2>3, MovedCall
  <2>5. \A k : k = call[c].key => Removing(k, c)'
    BY <2>2, <2>3, <2>4, PhaseOfNext DEF Removing
  <2>6. attachment' = attachment \ {call[c].key}
        /\ UNCHANGED <<now, employed, row, receipt, file, erased, lost, stray>>
    BY <1>4 DEF DetachRow, history
  <2>7. ASSUME NEW k \in file'
        PROVE  \/ k \in Known' \/ Removing(k, c)'
               \/ k \in file /\ k \notin Known /\ ~Attaching(k, c) /\ ~Removing(k, c)
    BY <2>1, <2>5, <2>6 DEF Known
  <2> QED BY <1>1, <2>1, <2>2, <2>3, <2>6, <2>7, FilesStep
<1>5. CASE UnlinkFile(c)
  <2>1. call[c] \in Running /\ call[c].phase = "unlink" /\ ~At(c, "count")
    BY <1>1, <1>5, InPhase, OnePhase DEF UnlinkFile
  <2>2. PICK keys : keys = {call[c].key}
    OBVIOUS
  <2>3. \A k : ~Attaching(k, c) /\ (Removing(k, c) => k \in keys \/ k \notin file)
    BY <1>1, <2>1, <2>2, PhaseOf DEF Attaching, Removing
  <2>4. Removal(c, keys) /\ UNCHANGED <<now, employed, row, receipt, attachment, erased, lost>>
    BY <1>5, <2>2 DEF UnlinkFile
  <2> QED BY <2>1, <2>3, <2>4, RemovedStep
<1> QED BY <1>2, <1>3, <1>4, <1>5

(***************************************************************************)
(* Receipts                                                                *)
(***************************************************************************)
ReadBy(f) == {e \in DOMAIN f : f[e]}

LEMMA ReceiptsTyped ==
    ASSUME TypeOK, NEW a
    PROVE  /\ DOMAIN Receipts(a) \subseteq employed
           /\ Receipts(a) \in [DOMAIN Receipts(a) -> BOOLEAN]
           /\ DOMAIN Receipts(a) # {} => Exists(a)
           /\ IsFiniteSet(ReadBy(Receipts(a))) /\ ReadsOf(a) = Cardinality(ReadBy(Receipts(a)))
           /\ ReadsOf(a) \in Nat
<1>1. /\ DOMAIN Receipts(a) \subseteq employed
      /\ Receipts(a) \in [DOMAIN Receipts(a) -> BOOLEAN]
      /\ DOMAIN Receipts(a) # {} => Exists(a)
  <2>1. CASE a \in DOMAIN receipt
    BY <2>1 DEF TypeOK, Receipts
  <2>2. CASE a \notin DOMAIN receipt
    BY <2>2 DEF Receipts
  <2> QED BY <2>1, <2>2
<1>2. ReadBy(Receipts(a)) \subseteq Employees
  BY <1>1 DEF ReadBy, TypeOK
<1>3. IsFiniteSet(ReadBy(Receipts(a)))
  BY <1>2, AnnouncementAssumption, FS_Subset
<1>4. ReadsOf(a) = Cardinality(ReadBy(Receipts(a)))
  BY DEF ReadsOf, ReadReceipts, ReadBy
<1> QED BY <1>1, <1>3, <1>4, FS_CardinalityType

LEMMA ReceiptsSet ==
    ASSUME TypeOK, NEW a, NEW f, SetReceipts(a, f), Exists(a),
           DOMAIN f \subseteq employed, f \in [DOMAIN f -> BOOLEAN]
    PROVE  /\ DOMAIN receipt' = DOMAIN receipt \cup {a}
           /\ \A b : Receipts(b)' = IF b = a THEN f ELSE Receipts(b)
           /\ \A b \in DOMAIN receipt' :
                /\ DOMAIN receipt'[b] \subseteq employed
                /\ receipt'[b] \in [DOMAIN receipt'[b] -> BOOLEAN]
                /\ DOMAIN receipt'[b] # {} => Exists(b)
<1>1. /\ DOMAIN receipt' = DOMAIN receipt \cup {a}
      /\ receipt'[a] = f /\ \A b \in DOMAIN receipt : b # a => receipt'[b] = receipt[b]
  BY DEF SetReceipts
<1>2. \A b : Receipts(b)' = IF b = a THEN f ELSE Receipts(b)
  BY <1>1 DEF Receipts
<1> QED BY <1>1, <1>2 DEF TypeOK

LEMMA ReceiptsDropped ==
    ASSUME TypeOK, NEW a \in Announcements, DropReceipts(a)
    PROVE  /\ DOMAIN receipt' = DOMAIN receipt \ {a}
           /\ \A b \in DOMAIN receipt' : receipt'[b] = receipt[b]
           /\ erased' \in [Announcements -> Nat]
           /\ \A b \in Announcements : b # a => erased'[b] = erased[b]
           /\ \A b \in Announcements : ReadsOf(b)' + erased'[b] = ReadsOf(b) + erased[b]
<1>1. /\ DOMAIN receipt' = DOMAIN receipt \ {a}
      /\ \A b \in DOMAIN receipt' : receipt'[b] = receipt[b]
  BY DEF DropReceipts, Restrict
<1>2. erased \in [Announcements -> Nat] /\ \A b : ReadsOf(b) \in Nat
  BY ReceiptsTyped DEF TypeOK
<1>3. erased' = [erased EXCEPT ![a] = erased[a] + ReadsOf(a)]
  BY <1>2 DEF DropReceipts, ReadsOf
<1>4. /\ erased' \in [Announcements -> Nat] /\ erased'[a] = erased[a] + ReadsOf(a)
      /\ \A b \in Announcements : b # a => erased'[b] = erased[b]
  BY <1>2, <1>3
<1>5. \A b : b # a => Receipts(b)' = Receipts(b)
  BY <1>1 DEF Receipts
<1>6. \A b : b # a => ReadsOf(b)' = ReadsOf(b)
  BY <1>5 DEF ReadsOf
<1>7. ReadsOf(a)' = 0
  <2>1. DOMAIN Receipts(a)' = {}
    BY <1>1 DEF Receipts
  <2>2. {e \in DOMAIN Receipts(a)' : Receipts(a)'[e]} = {}
    BY <2>1
  <2> QED BY <2>2, FS_EmptySet DEF ReadsOf, ReadReceipts
<1> QED BY <1>1, <1>2, <1>4, <1>6, <1>7

(***************************************************************************)
(* The statements about rows                                               *)
(***************************************************************************)
LEMMA InsertDraftStep == ASSUME IInv, NEW c \in Calls, InsertDraft(c) PROVE IInv'
<1>1. /\ TypeOK /\ CallsAreSound /\ call[c] \in Running /\ call[c].phase = "insert"
      /\ Shape(c, call[c]) /\ c \in Announcements
  BY InPhase DEF InsertDraft, IInv, Announcements
<1>2. ~At(c, "count") /\ \A k : ~Attaching(k, c) /\ ~Removing(k, c)
  BY <1>1, PhaseOf DEF Attaching, Removing
<1>3. /\ c \notin DOMAIN row /\ c \notin DOMAIN receipt /\ erased[c] = 0 /\ lost[c] = 0
      /\ \A d \in Calls : d # c /\ call[d] \in Running => call[d].on # c
  BY <1>1, PhaseOf DEF IInv, NewIdsAreFree, Unborn
<1>4. Address(c)
  BY DEF InsertDraft
<1>5. PICK s : /\ Moves(c, s) /\ Sound(c, s)
               /\ s \in Running => s.on = call[c].on /\ s.phase \in {"recipients", "file"}
  BY <1>1, <1>4, Addressing
<1>6. s \in Running => s.on = call[c].on /\ s.phase \notin {"insert", "count"}
  BY <1>5
<1> DEFINE x == [status |-> "draft", all |-> call[c].all, window |-> call[c].window, readCount |-> 0]
<1>7. x \in Row /\ x.readCount = 0
  <2>1. Cardinality(Calls) \in Nat
    BY AnnouncementAssumption, FS_CardinalityType
  <2>2. call[c].all \in BOOLEAN /\ call[c].window \in Windows
    BY <1>1 DEF Running, Shape
  <2> QED BY <2>1, <2>2 DEF Row
<1>8. /\ DOMAIN row' = DOMAIN row \cup {c} /\ row'[c] = x
      /\ \A a \in DOMAIN row : row'[a] = row[a]
      /\ UNCHANGED <<now, employed, receipt, attachment, file, erased, lost, stray>>
  BY <1>3 DEF InsertDraft, history
<1> HIDE DEF x
<1>9. StoreTypes'
  BY <1>1, <1>7, <1>8 DEF TypeOK, StoreTypes, Exists
<1>10. ASSUME NEW a \in DOMAIN row'
       PROVE  \/ /\ a \in DOMAIN row /\ row'[a].readCount = row[a].readCount
                 /\ ReadsOf(a)' + erased'[a] = ReadsOf(a) + erased[a]
              \/ /\ row'[a].readCount = 0 /\ ReadsOf(a)' + erased'[a] = 0 /\ lost[a] = 0
                 /\ \A d \in Calls : d # c /\ call[d] \in Running => call[d].on # a
  <2>1. ReadsOf(a)' = ReadsOf(a) /\ erased'[a] = erased[a]
    BY <1>8 DEF ReadsOf, ReadReceipts, Receipts
  <2>2. CASE a \in DOMAIN row
    BY <1>8, <2>1, <2>2
  <2>3. CASE a = c
    <3>1. {e \in DOMAIN Receipts(c) : Receipts(c)[e]} = {}
      BY <1>3 DEF Receipts
    <3>2. ReadsOf(c) = 0
      BY <3>1, FS_EmptySet DEF ReadsOf, ReadReceipts
    <3> QED BY <1>3, <1>7, <1>8, <2>1, <2>3, <3>2
  <2> QED BY <1>8, <2>2, <2>3
<1>11. \A d \in Calls : d # c /\ d # call[c].on /\ d \notin DOMAIN row /\ d \notin DOMAIN receipt
          => d \notin DOMAIN row' /\ d \notin DOMAIN receipt' /\ erased'[d] = erased[d] /\ lost'[d] = lost[d]
  BY <1>8
<1> QED BY <1>1, <1>2, <1>5, <1>6, <1>8, <1>9, <1>10, <1>11, RowsStep

LEMMA UpdateRowStep == ASSUME IInv, NEW c \in Calls, UpdateRow(c) PROVE IInv'
<1>1. /\ TypeOK /\ CallsAreSound /\ call[c] \in Running /\ call[c].phase = "set"
      /\ Shape(c, call[c]) /\ call[c].on \in Announcements
  BY InPhase DEF UpdateRow, IInv, Running
<1>2. ~At(c, "count") /\ \A k : ~Attaching(k, c) /\ ~Removing(k, c)
  BY <1>1, PhaseOf DEF Attaching, Removing
<1> DEFINE x == Updated(row[call[c].on], call[c])
<1>3. call[c].op = "create" => call[c].on = c
  BY <1>1 DEF Shape
<1>5. PICK s : /\ Moves(c, s) /\ Sound(c, s)
               /\ s \in Running => s.on = call[c].on /\ s.phase \in {"clear", "file"}
  <2>1. CASE call[c].op = "retarget"
    <3>1. Goto(c, "clear")
      BY <2>1 DEF UpdateRow
    <3>2. PICK s \in Running : Moves(c, s) /\ Shape(c, s) /\ s.phase = "clear" /\ Kept(call[c], s)
      BY <1>1, <3>1, GoneSound DEF Phases
    <3> QED BY <3>2, KeptFields DEF Sound
  <2>2. CASE call[c].op # "retarget"
    <3>1. Upload(c, call[c])
      BY <2>2 DEF UpdateRow
    <3> QED BY <1>1, <1>3, <3>1, Uploading
  <2> QED BY <2>1, <2>2
<1>6. s \in Running => s.on = call[c].on /\ s.phase \notin {"insert", "count"}
  BY <1>5
<1>7. UNCHANGED <<now, employed, receipt, attachment, file, erased, lost, stray>>
  BY DEF UpdateRow, history
<1>8. Exists(call[c].on) => x \in Row /\ x.readCount = row[call[c].on].readCount
  <2> SUFFICES ASSUME Exists(call[c].on) PROVE x \in Row /\ x.readCount = row[call[c].on].readCount
    OBVIOUS
  <2> DEFINE y == row[call[c].on]
  <2>1. y \in Row /\ call[c].all \in BOOLEAN
    BY <1>1 DEF TypeOK, Exists, Running
  <2>2. call[c].op \in {"update", "retarget", "publish", "unpublish"}
        /\ (call[c].op = "update" => call[c].window \in Windows)
    BY <1>1 DEF Shape
  <2> HIDE DEF y
  <2>3. CASE call[c].op = "update"
    BY <2>1, <2>2, <2>3 DEF Updated, Row, y
  <2>4. CASE call[c].op = "retarget"
    BY <2>1, <2>4 DEF Updated, Row, y
  <2>5. CASE call[c].op = "publish"
    BY <2>1, <2>5 DEF Updated, Row, y
  <2>6. CASE call[c].op = "unpublish"
    BY <2>1, <2>6 DEF Updated, Row, y
  <2> QED BY <2>2, <2>3, <2>4, <2>5, <2>6
<1>9. row' = IF Exists(call[c].on) THEN [row EXCEPT ![call[c].on] = x] ELSE row
  BY DEF UpdateRow
<1> HIDE DEF x
<1>10. /\ DOMAIN row' = DOMAIN row
       /\ \A a \in DOMAIN row : row'[a] \in Row /\ row'[a].readCount = row[a].readCount
  BY <1>1, <1>8, <1>9 DEF TypeOK, Exists
<1>11. StoreTypes'
  BY <1>1, <1>7, <1>10 DEF TypeOK, StoreTypes, Exists
<1>12. \A a \in DOMAIN row' : /\ a \in DOMAIN row /\ row'[a].readCount = row[a].readCount
                              /\ ReadsOf(a)' + erased'[a] = ReadsOf(a) + erased[a]
  BY <1>7, <1>10 DEF ReadsOf, ReadReceipts, Receipts
<1> QED BY <1>1, <1>2, <1>5, <1>6, <1>7, <1>10, <1>11, <1>12, RowsStep

LEMMA InsertRecipientsStep == ASSUME IInv, NEW c \in Calls, InsertRecipients(c) PROVE IInv'
<1> DEFINE a == call[c].on
           to == call[c].to
           f == [e \in DOMAIN Receipts(a) \cup to |->
                   e \in DOMAIN Receipts(a) /\ Receipts(a)[e]]
<1>1. /\ TypeOK /\ CallsAreSound /\ call[c] \in Running /\ call[c].phase = "recipients"
      /\ a \in Announcements /\ Shape(c, call[c])
  BY InPhase DEF InsertRecipients, IInv, Running
<1>2. ~At(c, "count") /\ \A k : ~Attaching(k, c) /\ ~Removing(k, c)
  BY <1>1, PhaseOf DEF Attaching, Removing
<1>3. CASE /\ Exists(a) /\ to \subseteq employed /\ SetReceipts(a, f)
           /\ Upload(c, [call[c] EXCEPT !.to = {}])
           /\ UNCHANGED <<now, employed, row, attachment, file, erased, lost, stray>>
  <2>1. PICK r : r = [call[c] EXCEPT !.to = {}]
    OBVIOUS
  <2>11. r \in Running /\ r.on = a /\ r.op = call[c].op /\ (call[c].op = "create" => a = c)
    BY <1>1, <2>1 DEF Running, Shape
  <2>2. PICK s : /\ Moves(c, s) /\ Sound(c, s)
                 /\ s \in Running => s.on = a /\ s.phase \notin {"insert", "count"}
    BY <1>3, <2>1, <2>11, Uploading
  <2>3. /\ DOMAIN Receipts(a) \subseteq employed
        /\ Receipts(a) \in [DOMAIN Receipts(a) -> BOOLEAN]
    BY <1>1, ReceiptsTyped
  <2>4. DOMAIN f \subseteq employed /\ f \in [DOMAIN f -> BOOLEAN]
    BY <1>3, <2>3
  <2>5. ReadBy(f) = ReadBy(Receipts(a))
    BY DEF ReadBy
  <2> HIDE DEF f
  <2>6. /\ DOMAIN receipt' = DOMAIN receipt \cup {a}
        /\ \A b : Receipts(b)' = IF b = a THEN f ELSE Receipts(b)
        /\ \A b \in DOMAIN receipt' :
             /\ DOMAIN receipt'[b] \subseteq employed
             /\ receipt'[b] \in [DOMAIN receipt'[b] -> BOOLEAN]
             /\ DOMAIN receipt'[b] # {} => Exists(b)
    BY <1>1, <1>3, <2>4, ReceiptsSet
  <2>7. StoreTypes'
    BY <1>1, <1>3, <2>6 DEF TypeOK, StoreTypes, Exists
  <2>8. \A b : ReadsOf(b)' = ReadsOf(b)
    BY <2>5, <2>6 DEF ReadsOf, ReadReceipts, ReadBy
  <2>9. \A b \in DOMAIN row' : /\ b \in DOMAIN row /\ row'[b].readCount = row[b].readCount
                               /\ ReadsOf(b)' + erased'[b] = ReadsOf(b) + erased[b]
    BY <1>3, <2>8
  <2>10. \A d \in Calls : d # c /\ d # call[c].on /\ d \notin DOMAIN row /\ d \notin DOMAIN receipt
            => d \notin DOMAIN row' /\ d \notin DOMAIN receipt' /\ erased'[d] = erased[d] /\ lost'[d] = lost[d]
    BY <1>3, <2>6
  <2> QED BY <1>1, <1>2, <1>3, <2>1, <2>2, <2>7, <2>9, <2>10, RowsStep
<1>4. CASE /\ FailUpload(c, {})
           /\ UNCHANGED <<now, employed, row, receipt, attachment, erased, lost>>
  <2>1. attachment \subseteq Keys /\ \A k \in attachment : Exists(k[1])
    BY <1>1 DEF TypeOK
  <2> QED BY <1>1, <1>4, <2>1, FailUploadStep
<1> QED BY <1>3, <1>4 DEF InsertRecipients

LEMMA ClearRecipientsStep == ASSUME IInv, NEW c \in Calls, ClearRecipients(c) PROVE IInv'
<1>1. /\ TypeOK /\ CallsAreSound /\ call[c] \in Running /\ call[c].phase = "clear"
      /\ call[c].on \in Announcements
  BY InPhase DEF ClearRecipients, IInv, Running
<1>2. /\ ~At(c, "count") /\ \A k : ~Attaching(k, c)
      /\ \A k : Removing(k, c) => call[c].op = "delete" /\ call[c].on = k[1]
  BY <1>1, PhaseOf DEF Attaching, Removing
<1>3. /\ DropReceipts(call[c].on)
      /\ UNCHANGED <<now, employed, row, attachment, file, lost, stray>>
  BY DEF ClearRecipients
<1>4. PICK s : /\ Moves(c, s) /\ Sound(c, s)
               /\ s \in Running => s.on = call[c].on /\ s.phase \notin {"insert", "count"}
               /\ call[c].op = "delete" => s \in Running /\ s.op = "delete" /\ s.phase = "row"
  <2>1. CASE call[c].op = "delete"
    <3>1. Goto(c, "row")
      BY <2>1 DEF ClearRecipients
    <3>2. PICK s \in Running : Moves(c, s) /\ Shape(c, s) /\ s.phase = "row" /\ Kept(call[c], s)
      BY <1>1, <2>1, <3>1, GoneSound DEF Phases
    <3> QED BY <2>1, <3>2, KeptFields DEF Sound
  <2>2. CASE call[c].op # "delete"
    <3>1. Address(c)
      BY <2>2 DEF ClearRecipients
    <3> QED BY <1>1, <2>2, <3>1, Addressing
  <2> QED BY <2>1, <2>2
<1>5. call'[c] = s /\ CallsAreSound'
  BY <1>1, <1>4, MovedCall
<1>6. \A k : Removing(k, c) => Removing(k, c)'
  BY <1>2, <1>4, <1>5, PhaseOfNext DEF Removing
<1>7. /\ DOMAIN receipt' \subseteq DOMAIN receipt
      /\ \A b \in DOMAIN receipt' : receipt'[b] = receipt[b]
      /\ erased' \in [Announcements -> Nat]
      /\ \A b \in Announcements : b # call[c].on => erased'[b] = erased[b]
      /\ \A b \in Announcements : ReadsOf(b)' + erased'[b] = ReadsOf(b) + erased[b]
  BY <1>1, <1>3, ReceiptsDropped
<1>8. StoreTypes'
  BY <1>1, <1>3, <1>7 DEF TypeOK, StoreTypes, Exists
<1>9. \A b \in DOMAIN row' : /\ b \in DOMAIN row /\ row'[b].readCount = row[b].readCount
                              /\ ReadsOf(b)' + erased'[b] = ReadsOf(b) + erased[b]
  BY <1>1, <1>3, <1>7 DEF TypeOK
<1>10. \A d \in Calls : d # c /\ d # call[c].on /\ d \notin DOMAIN row /\ d \notin DOMAIN receipt
          => d \notin DOMAIN row' /\ d \notin DOMAIN receipt' /\ erased'[d] = erased[d] /\ lost'[d] = lost[d]
  BY <1>3, <1>7 DEF Announcements
<1> QED BY <1>1, <1>2, <1>3, <1>4, <1>6, <1>8, <1>9, <1>10, RowsStep

LEMMA DeleteRowStep == ASSUME IInv, NEW c \in Calls, DeleteRow(c) PROVE IInv'
<1>1. /\ TypeOK /\ CallsAreSound /\ call[c] \in Running /\ call[c].phase = "row"
      /\ call[c].op = "delete" /\ call[c].on \in Announcements
  BY InPhase DEF DeleteRow, IInv, Running, Shape
<1>2. /\ ~At(c, "count") /\ \A k : ~Attaching(k, c)
      /\ \A k : Removing(k, c) => call[c].on = k[1]
  BY <1>1, PhaseOf DEF Attaching, Removing
<1>3. PICK s \in Running : Moves(c, s) /\ Shape(c, s) /\ s.phase = "storage" /\ Kept(call[c], s)
  BY <1>1, GoneSound DEF DeleteRow, Phases
<1>4. Sound(c, s) /\ s.on = call[c].on /\ s.op = "delete"
  BY <1>1, <1>3, KeptFields DEF Sound
<1>5. call'[c] = s /\ CallsAreSound'
  BY <1>1, <1>3, <1>4, MovedCall
<1>6. \A k : k[1] = call[c].on => Removing(k, c)'
  BY <1>3, <1>4, <1>5, PhaseOfNext DEF Removing
<1>7. /\ DOMAIN row' = DOMAIN row \ {call[c].on} /\ \A b \in DOMAIN row' : row'[b] = row[b]
      /\ attachment' = {k \in attachment : k[1] # call[c].on}
      /\ DropReceipts(call[c].on)
      /\ UNCHANGED <<now, employed, file, lost, stray>>
  BY DEF DeleteRow, Restrict, WithoutAttachments
<1>8. /\ DOMAIN receipt' = DOMAIN receipt \ {call[c].on}
      /\ \A b \in DOMAIN receipt' : receipt'[b] = receipt[b]
      /\ erased' \in [Announcements -> Nat]
      /\ \A b \in Announcements : b # call[c].on => erased'[b] = erased[b]
      /\ \A b \in Announcements : ReadsOf(b)' + erased'[b] = ReadsOf(b) + erased[b]
  BY <1>1, <1>7, ReceiptsDropped
<1>9. StoreTypes'
  BY <1>1, <1>7, <1>8 DEF TypeOK, StoreTypes, Exists
<1>10. \A b \in DOMAIN row' : /\ b \in DOMAIN row /\ row'[b].readCount = row[b].readCount
                              /\ ReadsOf(b)' + erased'[b] = ReadsOf(b) + erased[b]
  BY <1>1, <1>7, <1>8 DEF TypeOK
<1>11. \A d \in Calls : d # c /\ d # call[c].on /\ d \notin DOMAIN row /\ d \notin DOMAIN receipt
          => d \notin DOMAIN row' /\ d \notin DOMAIN receipt' /\ erased'[d] = erased[d] /\ lost'[d] = lost[d]
  BY <1>7, <1>8 DEF Announcements
<1>12. ASSUME NEW k \in file'
       PROVE  \/ k \in Known' \/ Removing(k, c)'
              \/ k \in file /\ k \notin Known /\ ~Attaching(k, c) /\ ~Removing(k, c)
  BY <1>2, <1>6, <1>7 DEF Known
<1> QED BY <1>1, <1>2, <1>3, <1>4, <1>7, <1>9, <1>10, <1>11, <1>12, ContinueStep

(***************************************************************************)
(* Reading: a receipt is read, and then counted                            *)
(***************************************************************************)
(* One employee reads an announcement for the first time: one receipt      *)
(* more is read, and one call more is about to count it.                   *)
LEMMA ReadOnceStep ==
    ASSUME IInv, NEW c \in Calls, call[c] \in Running, ~At(c, "count"),
           call[c].phase \in {"receipt", "mark"}, NEW e \in employed,
           Exists(call[c].on), e \notin ReadBy(Receipts(call[c].on)),
           SetReceipts(call[c].on, With(Receipts(call[c].on), e, TRUE)),
           Goto(c, "count"), UNCHANGED <<now, employed, row, attachment, file, erased, lost, stray>>
    PROVE  IInv'
<1>0. PICK a : a = call[c].on
  OBVIOUS
<1> USE <1>0
<1>1. PICK f : f = With(Receipts(a), e, TRUE)
  OBVIOUS
<1>2. TypeOK /\ CallsAreSound /\ ReadsAreCounted /\ a \in Announcements
  BY DEF IInv, Running
<1>3. PICK s \in Running : Moves(c, s) /\ Shape(c, s) /\ s.phase = "count" /\ Kept(call[c], s)
  BY <1>2, GoneSound DEF Phases
<1>4. Sound(c, s) /\ s.on = a
  BY <1>3, KeptFields DEF Sound
<1>5. CallsAreSound' /\ call'[c] = s /\ \A d \in Calls : d # c => call'[d] = call[d]
  BY <1>2, <1>3, <1>4, MovedCall
<1>6. /\ DOMAIN Receipts(a) \subseteq employed
      /\ Receipts(a) \in [DOMAIN Receipts(a) -> BOOLEAN]
      /\ IsFiniteSet(ReadBy(Receipts(a))) /\ ReadsOf(a) = Cardinality(ReadBy(Receipts(a)))
      /\ ReadsOf(a) \in Nat
  BY <1>2, ReceiptsTyped
<1>7. /\ DOMAIN f \subseteq employed /\ f \in [DOMAIN f -> BOOLEAN]
      /\ ReadBy(f) = ReadBy(Receipts(a)) \cup {e}
  BY <1>6, <1>1 DEF With, ReadBy
<1>8. /\ DOMAIN receipt' = DOMAIN receipt \cup {a}
      /\ \A b : Receipts(b)' = IF b = a THEN f ELSE Receipts(b)
      /\ \A b \in DOMAIN receipt' :
           /\ DOMAIN receipt'[b] \subseteq employed
           /\ receipt'[b] \in [DOMAIN receipt'[b] -> BOOLEAN]
           /\ DOMAIN receipt'[b] # {} => Exists(b)
  <2>1. SetReceipts(a, f) /\ Exists(a)
    BY <1>1
  <2>2. /\ TypeOK /\ SetReceipts(a, f) /\ Exists(a)
        /\ DOMAIN f \subseteq employed /\ f \in [DOMAIN f -> BOOLEAN]
    BY <1>2, <1>7, <2>1
  <2>3. DOMAIN receipt' = DOMAIN receipt \cup {a}
    BY ONLY <2>2, ReceiptsSet
  <2>4. \A b : Receipts(b)' = IF b = a THEN f ELSE Receipts(b)
    BY ONLY <2>2, ReceiptsSet
  <2> QED BY ONLY <2>2, <2>3, <2>4, ReceiptsSet
<1>9. StoreTypes'
  BY <1>2, <1>8 DEF TypeOK, StoreTypes, Exists
<1>10. TypeOK'
  BY <1>5, <1>9, TypesNext
<1>11. NewIdsAreFree'
  <2>1. \A d \in Calls : d # c /\ d # call[c].on /\ d \notin DOMAIN row /\ d \notin DOMAIN receipt
            => d \notin DOMAIN row' /\ d \notin DOMAIN receipt' /\ erased'[d] = erased[d] /\ lost'[d] = lost[d]
    BY <1>8
  <2> QED BY <1>3, <1>4, <2>1, CallsContinue
<1>12. ReadsOf(a)' = ReadsOf(a) + 1 /\ \A b : b # a => ReadsOf(b)' = ReadsOf(b)
  <2>1. ReadsOf(a)' = Cardinality(ReadBy(f))
    BY <1>8 DEF ReadsOf, ReadReceipts, ReadBy
  <2>2. Cardinality(ReadBy(f)) = Cardinality(ReadBy(Receipts(a))) + 1
    <3>1. IsFiniteSet(ReadBy(Receipts(a))) /\ e \notin ReadBy(Receipts(a))
      BY <1>6
    <3>2. Cardinality(ReadBy(Receipts(a)) \cup {e}) = Cardinality(ReadBy(Receipts(a))) + 1
      BY ONLY <3>1, FS_AddElement
    <3> QED BY ONLY <1>7, <3>2
  <2>3. \A b : b # a => Receipts(b)' = Receipts(b)
    BY <1>8
  <2>4. \A b : b # a => ReadsOf(b)' = ReadsOf(b)
    BY <2>3 DEF ReadsOf
  <2> QED BY <1>6, <2>1, <2>2, <2>4
<1>13. Counting(a)' = Counting(a) \cup {c} /\ \A b : b # a => Counting(b)' = Counting(b)
  <2>1. \A d \in Calls : d # c => (At(d, "count")' <=> At(d, "count"))
    BY <1>2, <1>5, PhaseOf, PhaseOfNext
  <2>2. At(c, "count")'
    BY <1>3, <1>5, PhaseOfNext
  <2> QED BY <1>4, <1>5, <2>1, <2>2 DEF Counting
<1>14. Cardinality(Counting(a)') = Cardinality(Counting(a)) + 1
  <2>1. c \notin Counting(a)
    BY DEF Counting
  <2> QED BY <1>13, <2>1, CountingIsFinite, FS_AddElement
<1>15. ReadsAreCounted'
  <2> SUFFICES ASSUME NEW b \in DOMAIN row'
               PROVE  row'[b].readCount + Cardinality(Counting(b)') + lost'[b] = ReadsOf(b)' + erased'[b]
    BY DEF ReadsAreCounted, ReadsOf
  <2>1. /\ b \in DOMAIN row /\ row'[b] = row[b] /\ erased'[b] = erased[b] /\ lost'[b] = lost[b]
        /\ row[b].readCount + Cardinality(Counting(b)) + lost[b] = ReadsOf(b) + erased[b]
    BY <1>2 DEF ReadsAreCounted, ReadsOf
  <2>2. row[b].readCount \in Nat /\ erased[b] \in Nat /\ Cardinality(Counting(b)) \in Nat
        /\ ReadsOf(b) \in Nat /\ lost[b] \in Nat
    BY <1>2, <2>1, CountingIsFinite, ReceiptsTyped, AnnouncementAssumption, FS_CardinalityType
       DEF TypeOK, Row
  <2>3. CASE b = a
    BY <1>12, <1>14, <2>1, <2>2, <2>3
  <2>4. CASE b # a
    BY <1>12, <1>13, <2>1, <2>4
  <2> QED BY <2>3, <2>4
<1>16. ReadsHaveEnded'
  <2>1. {d \in Calls : call[d] = Ended} = {d \in Calls : call'[d] = Ended}
    BY <1>3, <1>5, Kinds
  <2> QED BY <2>1 DEF IInv, ReadsHaveEnded
<1>17. FilesAreKnown'
  <2>1. \A k : ~Attaching(k, c) /\ ~Removing(k, c)
    BY <1>2, PhaseOf DEF Attaching, Removing
  <2>2. ASSUME NEW k \in file'
        PROVE  k \in Known' \/ (k \in file /\ k \notin Known
                                      /\ ~Attaching(k, c) /\ ~Removing(k, c))
    BY <2>1 DEF Known
  <2> QED BY <1>3, <1>4, <2>2, FilesContinue
<1> QED BY <1>5, <1>10, <1>11, <1>15, <1>16, <1>17 DEF IInv

LEMMA ReceiptStep ==
    ASSUME IInv, NEW c \in Calls, InsertReceipt(c) \/ MarkReceipt(c)
    PROVE  IInv'
<1> DEFINE a == call[c].on
           e == call[c].by
<1>1. /\ TypeOK /\ CallsAreSound /\ call[c] \in Running /\ call[c].phase \in {"receipt", "mark"}
      /\ a \in Announcements
  BY InPhase DEF InsertReceipt, MarkReceipt, IInv, Running
<1>2. ~At(c, "count") /\ \A k : ~Attaching(k, c) /\ ~Removing(k, c)
  BY <1>1, PhaseOf DEF Attaching, Removing
<1>3. /\ attachment \subseteq Keys /\ file \subseteq Keys /\ stray \subseteq Keys
      /\ \A k \in attachment : Exists(k[1])
  BY <1>1 DEF TypeOK
<1>4. UNCHANGED <<now, employed, row, attachment, file, erased, lost, stray>>
  BY DEF InsertReceipt, MarkReceipt, history
<1>5. CASE Goto(c, "mark") /\ UNCHANGED receipt
  <2>1. PICK s \in Running : Moves(c, s) /\ Shape(c, s) /\ s.phase = "mark" /\ Kept(call[c], s)
    BY <1>1, <1>5, GoneSound DEF Phases
  <2>2. Sound(c, s) /\ s.on = a
    BY <2>1, KeptFields DEF Sound
  <2> QED BY <1>1, <1>2, <1>3, <1>4, <1>5, <2>1, <2>2, FilesStep DEF Known
<1>6. CASE Finish(c) /\ UNCHANGED receipt
  BY <1>1, <1>2, <1>3, <1>4, <1>6, Finished, FilesStep DEF Known
<1>7. CASE /\ ~Received(a, e) /\ Exists(a) /\ e \in employed
           /\ SetReceipts(a, With(Receipts(a), e, TRUE)) /\ Goto(c, "count")
  <2>1. e \notin ReadBy(Receipts(a))
    BY <1>7 DEF Received, Receipts, ReadBy
  <2> QED BY <1>1, <1>2, <1>4, <1>7, <2>1, ReadOnceStep
<1>8. CASE Markable(a, e) /\ SetReceipts(a, With(receipt[a], e, TRUE)) /\ Goto(c, "count")
  <2>1. receipt[a] = Receipts(a) /\ e \in DOMAIN Receipts(a) /\ e \notin ReadBy(Receipts(a))
    BY <1>8 DEF Markable, Received, Receipts, ReadBy
  <2>2. e \in employed /\ Exists(a)
    BY <1>1, <2>1, ReceiptsTyped
  <2> QED BY <1>1, <1>2, <1>4, <1>8, <2>1, <2>2, ReadOnceStep
<1>9. CASE InsertReceipt(c)
  BY <1>5, <1>6, <1>7, <1>9 DEF InsertReceipt
<1>10. CASE MarkReceipt(c)
  BY <1>6, <1>8, <1>10 DEF MarkReceipt
<1> QED BY <1>9, <1>10

(* A call counts the read, or dies before: one call less is about to count. *)
LEMMA CountedStep ==
    ASSUME IInv, NEW c \in Calls, At(c, "count"), Finish(c),
           UNCHANGED <<now, employed, receipt, attachment, file, erased, stray>>,
           \/ /\ row' = IF Exists(call[c].on)
                        THEN [row EXCEPT ![call[c].on].readCount = row[call[c].on].readCount + 1]
                        ELSE row
              /\ UNCHANGED lost
           \/ /\ lost' = [lost EXCEPT ![call[c].on] = lost[call[c].on] + 1]
              /\ UNCHANGED row
    PROVE  IInv'
<1>0. PICK a : a = call[c].on
  OBVIOUS
<1> USE <1>0
<1> DEFINE S == {d \in Calls : call[d] = Ended}
           T == {d \in Calls : call'[d] = Ended}
<1>1. /\ TypeOK /\ CallsAreSound /\ ReadsAreCounted /\ ReadsHaveEnded
      /\ call[c] \in Running /\ call[c].phase = "count" /\ a \in Announcements
      /\ lost \in [Announcements -> Nat]
  BY InPhase DEF IInv, Running, TypeOK
<1>2. Moves(c, Ended) /\ Sound(c, Ended) /\ Ended \notin Running
  BY Finished
<1>3. CallsAreSound' /\ call'[c] = Ended /\ \A d \in Calls : d # c => call'[d] = call[d]
  BY <1>1, <1>2, MovedCall
<1>4. T = S \cup {c} /\ c \notin S /\ IsFiniteSet(S) /\ IsFiniteSet(Calls) /\ T \subseteq Calls
  <2>1. T = S \cup {c} /\ c \notin S
    BY <1>1, <1>3, Kinds
  <2>2. IsFiniteSet(S)
    BY AnnouncementAssumption, FS_Subset
  <2> QED BY <2>1, <2>2, AnnouncementAssumption
<1> HIDE DEF S, T
<1>5. /\ Cardinality(S) \in Nat /\ Cardinality(T) = Cardinality(S) + 1
      /\ Cardinality(T) <= Cardinality(Calls) /\ Cardinality(Calls) \in Nat
  <2>1. Cardinality(T) = Cardinality(S) + 1
    BY <1>4, FS_AddElement
  <2>2. Cardinality(T) <= Cardinality(Calls)
    BY <1>4, FS_Subset
  <2> QED BY <1>4, <2>1, <2>2, FS_CardinalityType
<1>6. \A b \in DOMAIN row : row[b].readCount \in Nat /\ row[b].readCount <= Cardinality(S)
  BY <1>1, <1>5 DEF TypeOK, Row, ReadsHaveEnded, S
<1>7. /\ DOMAIN row' = DOMAIN row /\ lost' \in [Announcements -> Nat]
      /\ \A b \in DOMAIN row :
           /\ row'[b].readCount + lost'[b] = row[b].readCount + lost[b] + (IF b = a THEN 1 ELSE 0)
           /\ row'[b].readCount <= row[b].readCount + 1
           /\ row'[b] \in Row
      /\ \A b \in Announcements : b # a => lost'[b] = lost[b]
  <2>1. \A b \in DOMAIN row : row[b] \in Row /\ b \in Announcements /\ lost[b] \in Nat
    BY <1>1 DEF TypeOK
  <2>2. CASE /\ row' = IF Exists(a) THEN [row EXCEPT ![a].readCount = row[a].readCount + 1] ELSE row
             /\ UNCHANGED lost
    <3>1. DOMAIN row' = DOMAIN row /\ \A b \in DOMAIN row : b # a => row'[b] = row[b]
      BY <2>2
    <3>2. ASSUME NEW b \in DOMAIN row, b = a
          PROVE  row'[b].readCount = row[b].readCount + 1 /\ row'[b] \in Row
      <4>1. row'[b] = [row[b] EXCEPT !.readCount = row[b].readCount + 1]
        BY <2>2, <3>2 DEF Exists
      <4>2. row[b].readCount + 1 \in 0 .. Cardinality(Calls)
        BY <1>5, <1>6
      <4> QED BY <2>1, <4>1, <4>2 DEF Row
    <3> QED BY <1>1, <1>6, <2>1, <2>2, <3>1, <3>2
  <2>3. CASE lost' = [lost EXCEPT ![a] = lost[a] + 1] /\ UNCHANGED row
    <3>1. lost' \in [Announcements -> Nat] /\ lost'[a] = lost[a] + 1
          /\ \A b \in Announcements : b # a => lost'[b] = lost[b]
      BY <1>1, <2>3
    <3> QED BY <1>6, <2>1, <2>3, <3>1
  <2> QED BY <2>2, <2>3
<1>8. StoreTypes'
  BY <1>1, <1>7 DEF TypeOK, StoreTypes, Exists
<1>9. TypeOK'
  BY <1>3, <1>8, TypesNext
<1>10. NewIdsAreFree'
  <2>1. \A d \in Calls : d # c /\ d # call[c].on /\ d \notin DOMAIN row /\ d \notin DOMAIN receipt
            => /\ d \notin DOMAIN row' /\ d \notin DOMAIN receipt'
               /\ erased'[d] = erased[d] /\ lost'[d] = lost[d]
    BY <1>7 DEF Announcements
  <2> QED BY <1>1, <1>2, <2>1, CallsContinue
<1>11. Counting(a)' = Counting(a) \ {c} /\ c \in Counting(a)
       /\ \A b : b # a => Counting(b)' = Counting(b)
  <2>1. \A d \in Calls : d # c => (At(d, "count")' <=> At(d, "count"))
    BY <1>1, <1>3, PhaseOf, PhaseOfNext
  <2>2. ~At(c, "count")'
    BY <1>2, <1>3, PhaseOfNext
  <2> QED BY <1>1, <1>3, <2>1, <2>2 DEF Counting
<1>12. Cardinality(Counting(a)') = Cardinality(Counting(a)) - 1
  BY <1>11, CountingIsFinite, FS_RemoveElement
<1>13. ReadsAreCounted'
  <2> SUFFICES ASSUME NEW b \in DOMAIN row'
               PROVE  row'[b].readCount + Cardinality(Counting(b)') + lost'[b]
                          = ReadsOf(b)' + erased'[b]
    BY DEF ReadsAreCounted, ReadsOf
  <2>1. /\ b \in DOMAIN row /\ erased'[b] = erased[b] /\ ReadsOf(b)' = ReadsOf(b)
        /\ row[b].readCount + Cardinality(Counting(b)) + lost[b] = ReadsOf(b) + erased[b]
    BY <1>1, <1>7 DEF ReadsAreCounted, ReadsOf, ReadReceipts, Receipts
  <2>2. /\ row[b].readCount \in Nat /\ Cardinality(Counting(b)) \in Nat
        /\ lost[b] \in Nat /\ lost'[b] \in Nat /\ row'[b].readCount \in Nat
        /\ row'[b].readCount + lost'[b] = row[b].readCount + lost[b] + (IF b = a THEN 1 ELSE 0)
    <3>1. row'[b] \in Row /\ b \in Announcements
      BY <1>1, <1>7, <2>1 DEF TypeOK
    <3> QED BY <1>1, <1>5, <1>6, <1>7, <2>1, <3>1, CountingIsFinite DEF Row
  <2>3. CASE b = a
    BY <1>12, <2>1, <2>2, <2>3
  <2>4. CASE b # a
    BY <1>11, <2>1, <2>2, <2>4
  <2> QED BY <2>3, <2>4
<1>14. ReadsHaveEnded'
  <2>1. \A b \in DOMAIN row' : row'[b].readCount <= Cardinality(T)
    <3>1. \A b \in DOMAIN row' : row'[b] \in Row
      BY <1>7
    <3>2. \A b \in DOMAIN row' : row'[b].readCount \in Nat
      BY <1>5, <3>1 DEF Row
    <3> QED BY <1>5, <1>6, <1>7, <3>2
  <2> QED BY <2>1 DEF ReadsHaveEnded, T
<1>15. FilesAreKnown'
  <2>1. \A k : ~Attaching(k, c) /\ ~Removing(k, c)
    BY <1>1, PhaseOf DEF Attaching, Removing
  <2>2. ASSUME NEW k \in file'
        PROVE  k \in Known' \/ (k \in file /\ k \notin Known
                                      /\ ~Attaching(k, c) /\ ~Removing(k, c))
    BY <2>1 DEF Known
  <2> QED BY <1>2, <2>2, FilesContinue
<1> QED BY <1>3, <1>9, <1>10, <1>13, <1>14, <1>15 DEF IInv

LEMMA CountReadStep == ASSUME IInv, NEW c \in Calls, CountRead(c) PROVE IInv'
<1>1. UNCHANGED <<now, employed, receipt, attachment, file, erased, lost, stray>>
  BY DEF CountRead, history
<1>2. row' = IF Exists(call[c].on)
             THEN [row EXCEPT ![call[c].on].readCount = row[call[c].on].readCount + 1]
             ELSE row
  BY DEF CountRead
<1>3. At(c, "count") /\ Finish(c)
  BY DEF CountRead
<1> QED BY <1>1, <1>2, <1>3, CountedStep

(* A call that dies leaves what it answered for.                           *)
LEMMA DieStep == ASSUME IInv, NEW c \in Calls, Die(c) PROVE IInv'
<1>1. PICK partial \in SUBSET (IF At(c, "file") THEN {NextKey(c)} ELSE {}) :
         /\ file' = file \cup partial
         /\ stray' = stray \cup partial \cup {k \in file : Settling(k, c)}
  BY DEF Die
<1>2. /\ lost' = IF At(c, "count") THEN [lost EXCEPT ![call[c].on] = lost[call[c].on] + 1] ELSE lost
      /\ Finish(c) /\ UNCHANGED <<now, employed, row, receipt, attachment, erased>>
  BY DEF Die
<1>3. CallsAreSound /\ call[c] \in Running
  BY Kinds DEF Die, IInv, CallsAreSound, Sound
<1>4. \A k : Settling(k, c) <=> Attaching(k, c) \/ Removing(k, c)
  BY DEF Settling, Attaching, Removing
<1>5. CASE At(c, "count")
  <2>1. \A k : ~Attaching(k, c) /\ ~Removing(k, c)
    BY <1>3, <1>5, OnePhase DEF Attaching, Removing
  <2>2. partial = {}
    BY <1>1, <1>3, <1>5, OnePhase
  <2>3. UNCHANGED <<file, stray>>
    BY <1>1, <1>4, <2>1, <2>2
  <2> QED BY <1>2, <1>5, <2>3, CountedStep
<1>6. CASE ~At(c, "count")
  <2>1. partial \subseteq Keys
    <3>1. CASE At(c, "file")
      <4>1. call[c].on \in Announcements /\ call[c].next \in 1 .. Uploads
        BY <1>3, <3>1, InPhase, AnnouncementAssumption DEF Running, Shape
      <4> QED BY <1>1, <3>1, <4>1 DEF Keys, NextKey
    <3>2. CASE ~At(c, "file")
      BY <1>1, <3>2
    <3> QED BY <3>1, <3>2
  <2>2. /\ attachment \subseteq Keys /\ file \subseteq Keys /\ stray \subseteq Keys
        /\ \A k \in attachment : Exists(k[1])
    BY DEF IInv, TypeOK
  <2>3. /\ attachment' \subseteq Keys /\ file' \subseteq Keys /\ stray' \subseteq Keys
        /\ \A k \in attachment' : Exists(k[1])
    BY <1>1, <1>2, <2>1, <2>2
  <2>4. ASSUME NEW k \in file'
        PROVE  \/ k \in Known'
               \/ k \in file /\ k \notin Known /\ ~Attaching(k, c) /\ ~Removing(k, c)
    BY <1>1, <1>2, <1>4, <2>4 DEF Known
  <2>5. UNCHANGED <<now, employed, row, receipt, erased, lost>>
    BY <1>2, <1>6
  <2> QED BY <1>2, <1>3, <1>6, <2>3, <2>4, <2>5, Finished, FilesStep
<1> QED BY <1>5, <1>6

(***************************************************************************)
(* The rest of the world                                                   *)
(***************************************************************************)
(* The receipts of an employee go with the employee; the read ones among   *)
(* them are remembered.                                                    *)
LEMMA DeleteEmployeeStep == ASSUME IInv, NEW e \in Employees, DeleteEmployee(e) PROVE IInv'
<1>1. TypeOK /\ CallsAreSound
  BY DEF IInv
<1>2. employed' = employed \ {e} /\ UNCHANGED <<now, row, attachment, file, lost, stray, call>>
  BY DEF DeleteEmployee
<1>3. /\ DOMAIN receipt' = DOMAIN receipt
      /\ \A a \in DOMAIN receipt :
           /\ DOMAIN receipt'[a] = DOMAIN receipt[a] \ {e}
           /\ \A x \in DOMAIN receipt'[a] : receipt'[a][x] = receipt[a][x]
           /\ receipt'[a] \in [DOMAIN receipt'[a] -> BOOLEAN]
  <2>1. /\ DOMAIN receipt' = DOMAIN receipt
        /\ \A a \in DOMAIN receipt :
              receipt'[a] = [x \in DOMAIN receipt[a] \ {e} |-> receipt[a][x]]
    BY DEF DeleteEmployee, Restrict
  <2>2. \A a \in DOMAIN receipt : \A x \in DOMAIN receipt[a] : receipt[a][x] \in BOOLEAN
    BY <1>1 DEF TypeOK
  <2> QED BY <2>1, <2>2
<1>4. \A a \in Announcements : /\ IsRead(a, e) => erased'[a] = erased[a] + 1
                               /\ ~IsRead(a, e) => erased'[a] = erased[a] + 0
  BY DEF DeleteEmployee
<1>5. erased' \in [Announcements -> Nat] /\ \A a \in Announcements : erased[a] \in Nat
  <2>1. erased \in [Announcements -> Nat]
    BY <1>1 DEF TypeOK
  <2> QED BY <2>1 DEF DeleteEmployee
<1>6. StoreTypes'
  BY <1>1, <1>2, <1>3, <1>5 DEF TypeOK, StoreTypes, Exists
<1>7. CallsAreSound'
  BY <1>1, <1>2 DEF CallsAreSound
<1>8. TypeOK'
  BY <1>6, <1>7, TypesNext
<1>9. ASSUME NEW a PROVE ReadBy(Receipts(a)') = ReadBy(Receipts(a)) \ {e}
  <2>1. CASE a \in DOMAIN receipt
    <3>1. Receipts(a) = receipt[a] /\ Receipts(a)' = receipt'[a]
      BY <1>3, <2>1 DEF Receipts
    <3>2. /\ DOMAIN receipt'[a] = DOMAIN receipt[a] \ {e}
          /\ \A x \in DOMAIN receipt'[a] : receipt'[a][x] = receipt[a][x]
      BY <1>3, <2>1
    <3> QED BY <3>1, <3>2 DEF ReadBy
  <2>2. CASE a \notin DOMAIN receipt
    BY <1>3, <2>2 DEF Receipts, ReadBy
  <2> QED BY <2>1, <2>2
<1>10. ASSUME NEW a \in Announcements
       PROVE  ReadsOf(a)' + erased'[a] = ReadsOf(a) + erased[a]
  <2>1. /\ IsFiniteSet(ReadBy(Receipts(a))) /\ ReadsOf(a) = Cardinality(ReadBy(Receipts(a)))
        /\ ReadsOf(a) \in Nat
    BY <1>1, ReceiptsTyped
  <2>2. ReadsOf(a)' = Cardinality(ReadBy(Receipts(a)'))
    BY DEF ReadsOf, ReadReceipts, ReadBy
  <2>3. IsRead(a, e) <=> e \in ReadBy(Receipts(a))
    BY DEF IsRead, Received, Receipts, ReadBy
  <2>4. ReadsOf(a)' = IF e \in ReadBy(Receipts(a)) THEN ReadsOf(a) - 1 ELSE ReadsOf(a)
    BY <1>9, <2>1, <2>2, FS_RemoveElement
  <2> QED BY <1>4, <1>5, <2>1, <2>3, <2>4
<1>11. ReadsAreCounted'
  <2> SUFFICES ASSUME NEW a \in DOMAIN row'
               PROVE  row'[a].readCount + Cardinality(Counting(a)') + lost'[a] = ReadsOf(a)' + erased'[a]
    BY DEF ReadsAreCounted, ReadsOf
  <2>1. a \in DOMAIN row /\ row' = row /\ a \in Announcements
    BY <1>1, <1>2 DEF TypeOK
  <2>2. Counting(a)' = Counting(a) /\ lost' = lost
    BY <1>2 DEF Counting, At
  <2>3. row[a].readCount + Cardinality(Counting(a)) + lost[a] = ReadsOf(a) + erased[a]
    BY <2>1 DEF IInv, ReadsAreCounted, ReadsOf
  <2> QED BY <1>10, <2>1, <2>2, <2>3
<1>12. NewIdsAreFree'
  <2>1. \A d \in Calls : d \notin DOMAIN receipt => erased'[d] = erased[d] /\ lost'[d] = lost[d]
    BY <1>2, <1>4, <1>5 DEF IsRead, Received, Announcements
  <2> QED BY <1>2, <1>3, <2>1 DEF IInv, NewIdsAreFree, Unborn, At
<1>13. ReadsHaveEnded' /\ FilesAreKnown'
  BY <1>2 DEF IInv, ReadsHaveEnded, FilesAreKnown, Known, Attaching, Removing, NextKey, At
<1> QED BY <1>7, <1>8, <1>11, <1>12, <1>13 DEF IInv

(* The clock is not part of the invariant but for its type.                *)
LEMMA TickStep == ASSUME IInv, Tick \/ UNCHANGED vars PROVE IInv'
<1>1. UNCHANGED <<employed, row, receipt, attachment, file, erased, lost, stray, call>> /\ now' \in Moments
  BY AnnouncementAssumption DEF Tick, vars, history, IInv, TypeOK, Moments
<1>2. TypeOK' /\ CallsAreSound'
  BY <1>1 DEF IInv, TypeOK, CallsAreSound, Exists
<1>3. ReadsAreCounted'
  BY <1>1 DEF IInv, ReadsAreCounted, Counting, At, ReadReceipts, Receipts
<1>4. NewIdsAreFree' /\ ReadsHaveEnded' /\ FilesAreKnown'
  BY <1>1 DEF IInv, NewIdsAreFree, Unborn, ReadsHaveEnded, FilesAreKnown, Known, Attaching,
            Removing, NextKey, At
<1> QED BY <1>2, <1>3, <1>4 DEF IInv

LEMMA AnnouncementStep == IInv /\ [Next]_vars => IInv'
<1> SUFFICES ASSUME IInv, [Next]_vars PROVE IInv'
  OBVIOUS
<1>1. CASE Tick \/ UNCHANGED vars
  BY <1>1, TickStep
<1>2. CASE \E e \in Employees : DeleteEmployee(e)
  BY <1>2, DeleteEmployeeStep
<1>3. ASSUME NEW c \in Calls, Manage(c) PROVE IInv'
  BY <1>3, BeginManageStep, InsertDraftStep, InsertRecipientsStep, StoreFileStep,
     InsertAttachmentStep, RemovalStep, UpdateRowStep, ClearRecipientsStep, DeleteRowStep
     DEF Manage
<1>4. ASSUME NEW c \in Calls, Read(c) PROVE IInv'
  BY <1>4, BeginManageStep, ReceiptStep, CountReadStep DEF Read
<1>5. ASSUME NEW c \in Calls, Die(c) PROVE IInv'
  BY <1>5, DieStep
<1> QED BY <1>1, <1>2, <1>3, <1>4, <1>5 DEF Next

LEMMA AnnouncementStart == Init => IInv
<1> SUFFICES ASSUME Init PROVE IInv
  OBVIOUS
<1>1. /\ now = 0 /\ employed = Employees /\ attachment = {} /\ file = {}
      /\ erased = [a \in Announcements |-> 0] /\ call = [c \in Calls |-> None]
      /\ lost = [a \in Announcements |-> 0] /\ stray = {}
  BY DEF Init
<1>2. Cardinality(Calls) \in Nat /\ 0 \in Moments
  BY AnnouncementAssumption, FS_CardinalityType DEF Moments
<1> DEFINE Unread ==
             /\ DOMAIN row \subseteq {Earlier} /\ DOMAIN receipt = DOMAIN row
             /\ \A a \in DOMAIN row : row[a] \in Row /\ row[a].readCount = 0
             /\ \A a \in DOMAIN receipt :
                  /\ DOMAIN receipt[a] \subseteq Employees
                  /\ receipt[a] \in [DOMAIN receipt[a] -> BOOLEAN]
                  /\ \A e \in DOMAIN receipt[a] : ~receipt[a][e]
<1>3. Unread
  <2>1. CASE row = [a \in {} |-> None] /\ receipt = [a \in {} |-> None]
    BY <2>1
  <2>2. ASSUME NEW s \in {"draft", "published"}, NEW w \in Windows, NEW to \in SUBSET Employees,
               row = [a \in {Earlier} |->
                        [status |-> s, all |-> to = {}, window |-> w, readCount |-> 0]],
               receipt = [a \in {Earlier} |-> [e \in to |-> FALSE]]
        PROVE  Unread
    <3>1. [status |-> s, all |-> to = {}, window |-> w, readCount |-> 0] \in Row
      BY <1>2 DEF Row
    <3>2. DOMAIN row = {Earlier} /\ \A a \in DOMAIN row : row[a] \in Row /\ row[a].readCount = 0
      BY <2>2, <3>1
    <3> QED BY <2>2, <3>2
  <2> HIDE DEF Unread
  <2> QED BY <2>1, <2>2 DEF Init
<1>4. \A a : Counting(a) = {}
  BY <1>1 DEF Counting, At
<1>5. CallsAreSound
  BY <1>1 DEF CallsAreSound
<1>6. TypeOK
  <2>1. StoreTypes
    BY <1>1, <1>2, <1>3 DEF StoreTypes, Announcements, Exists
  <2> QED BY <1>5, <2>1, Types
<1>7. NewIdsAreFree
  BY <1>1, <1>3, AnnouncementAssumption, Kinds DEF NewIdsAreFree, Announcements
<1>8. ReadsAreCounted
  <2> SUFFICES ASSUME NEW a \in DOMAIN row
               PROVE  row[a].readCount + Cardinality(Counting(a)) + lost[a] = ReadsOf(a) + erased[a]
    BY DEF ReadsAreCounted, ReadsOf
  <2>1. {e \in DOMAIN Receipts(a) : Receipts(a)[e]} = {}
    BY <1>3 DEF Receipts
  <2>2. ReadsOf(a) = 0 /\ Cardinality(Counting(a)) = 0
    BY <1>4, <2>1, FS_EmptySet DEF ReadsOf, ReadReceipts
  <2>3. erased[a] = 0 /\ lost[a] = 0 /\ row[a].readCount = 0
    BY <1>1, <1>3 DEF Announcements
  <2> QED BY <2>2, <2>3
<1>9. ReadsHaveEnded
  <2>1. IsFiniteSet({c \in Calls : call[c] = Ended})
    BY AnnouncementAssumption, FS_Subset
  <2>2. Cardinality({c \in Calls : call[c] = Ended}) \in Nat
    BY <2>1, FS_CardinalityType
  <2> QED BY <1>3, <2>2 DEF ReadsHaveEnded
<1>10. FilesAreKnown
  BY <1>1 DEF FilesAreKnown
<1> QED BY <1>5, <1>6, <1>7, <1>8, <1>9, <1>10 DEF IInv

(***************************************************************************)
(* The theorems                                                            *)
(***************************************************************************)
(* Whatever the calls of createAnnouncementAction to                       *)
(* markAnnouncementReadAction do, step by step and in any order, the       *)
(* invariant above holds.                                                  *)
THEOREM AnnouncementsInductive == Spec => []IInv
<1>1. Init => IInv
  BY AnnouncementStart
<1>2. IInv /\ [Next]_vars => IInv'
  BY AnnouncementStep
<1> QED BY <1>1, <1>2, PTL DEF Spec

(* A read is counted at most once, and exactly once unless its call died   *)
(* before the increment; a file without a row still has a call that will   *)
(* deal with it, unless a removal, a write or a call failed: actions.ts    *)
(* and attachment-storage.ts of the announcements, for any number of calls. *)
THEOREM AnnouncementsStayConsistent == Spec => []AnnouncementsConsistent
<1>1. IInv => NoOrphanFiles
  BY DEF IInv, FilesAreKnown, Known, NoOrphanFiles, Attaching, Removing, Settling
<1>2. IInv => AnnouncementsConsistent
  BY <1>1 DEF IInv, AnnouncementsConsistent
<1> QED BY <1>2, AnnouncementsInductive, PTL

(* listFeed and the policy state the window and the audience twice: what   *)
(* the feed lists, the detail page, the read action and the download route *)
(* accept, for any windows.                                                *)
THEOREM FeedOpens == Spec => []FeedIsOpenable
<1>1. ASSUME TypeOK, NEW e \in employed, NEW a \in Feed(e)
      PROVE  Visible(a, e) /\ DetailOpens(a, {}) /\ MayDownload(a, e, {})
  <2>1. /\ a \in DOMAIN row /\ Published(a) /\ Listed(row[a].window, now) /\ Addressed(a, e)
    BY DEF Feed
  <2>2. now \in Nat
    BY <1>1, AnnouncementAssumption DEF TypeOK, Moments
  <2>3. row[a].window \in [from : Nat \cup {None}, until : Nat \cup {None}]
    BY <1>1, <2>1, AnnouncementAssumption DEF TypeOK, Row
  <2>4. Open(row[a].window, now)
    BY <2>1, <2>2, <2>3 DEF Listed, Open
  <2> QED BY <2>1, <2>4 DEF Visible, DetailOpens, MayDownload, Exists
<1>2. IInv => FeedIsOpenable
  BY <1>1 DEF IInv, FeedIsOpenable
<1> QED BY <1>2, AnnouncementsInductive, PTL
=============================================================================
