---------------------------- MODULE LeaveProofs ----------------------------
(***************************************************************************)
(* Proofs about LeaveRequests, for every number of employees, leave types, *)
(* days, years, requests and concurrent calls.                             *)
(*                                                                         *)
(* The inductive invariant says what a call may rely on between two of its *)
(* steps: what it read under a row lock is still true when it writes.      *)
(***************************************************************************)
EXTENDS LeaveScreens, SumTheorems, SequenceTheorems, FiniteSetTheorems, TLAPS

-----------------------------------------------------------------------------
(***************************************************************************)
(* Requests and balances.                                                  *)
(***************************************************************************)

Creating(c) == call[c].stage # "idle" /\ call[c].op = "create"
Deciding(c) == call[c].stage # "idle" /\ call[c].op \in Decisions

(* A request that exists, and a call that runs, ask for ordered days.      *)
Ordered(f) == f \in Form /\ f.first <= f.last

(* What a running call knows of the rows it is about to write.             *)
Sound(c) ==
    /\ call[c].stage # "idle" => Ordered(call[c].form)
    /\ Creating(c) => /\ call[c].stage # "claimed" /\ status[call[c].request] = "none"
                      /\ call[c].form.type \in ActiveTypes
    /\ Deciding(c) => /\ status[call[c].request] # "none"
                      /\ call[c].form = form[call[c].request]
    /\ Deciding(c) /\ call[c].stage # "open" => /\ requestLock[call[c].request] = c
                                                /\ status[call[c].request] = "pending"
    /\ call[c].stage = "ready" =>
          /\ call[c].seen # NoBalance => /\ balanceLock[AccountOf(call[c].form)] = c
                                         /\ balance[AccountOf(call[c].form)] = call[c].seen
          /\ call[c].op = "create" => Covers(call[c].seen, call[c].form)
          /\ call[c].op \in {"approved", "rejected"} =>
                BalanceBacks(call[c].seen, call[c].form)

(* Two creations insert two rows.                                          *)
FreshRows ==
    \A c, d \in Calls : Creating(c) /\ Creating(d) /\ c # d
                          => call[c].request # call[d].request

OrderedRows == \A r \in Requests : status[r] # "none" => Ordered(form[r])

Discipline ==
    /\ \A c \in Calls : Sound(c)
    /\ FreshRows
    /\ OrderedRows

-----------------------------------------------------------------------------
(* Data                                                                    *)

(* The days of an ordered form are counted by a positive number, and its   *)
(* account is one of the accounts.                                         *)
LEMMA FormFacts ==
    ASSUME NEW f, Ordered(f)
    PROVE  DaysOf(f) \in Nat /\ DaysOf(f) > 0 /\ AccountOf(f) \in Accounts
<1>1. f.first \in Int /\ f.last \in Int /\ f.first \in Days /\ f.last \in Days
  BY LeaveConstants DEF Ordered, Form
<1> QED BY <1>1, LeaveConstants DEF Ordered, Form, DaysOf, AccountOf, Accounts

(* What CommitCreate stores is a balance that is not overdrawn.            *)
LEMMA ChargedBalance ==
    ASSUME NEW f, Ordered(f), NEW b \in Balance \cup {NoBalance}, Covers(b, f)
    PROVE  /\ b = NoBalance => /\ FirstBalance(f) \in Balance
                               /\ Available(FirstBalance(f)) >= 0
           /\ b # NoBalance =>
                LET n == [b EXCEPT !.pending = b.pending + DaysOf(f)]
                IN  n \in Balance /\ Available(n) >= 0
<1>1. DaysOf(f) \in Nat
  BY FormFacts
<1>2. CASE b = NoBalance
  <2>1. DefaultAllowance[f.type] \in Nat /\ DaysOf(f) <= DefaultAllowance[f.type]
    BY <1>2, LeaveConstants DEF Covers, Ordered, Form
  <2> QED BY <1>1, <1>2, <2>1 DEF FirstBalance, Balance, Available
<1>3. CASE b # NoBalance
  <2>1. b \in Balance /\ DaysOf(f) <= Available(b)
    BY <1>3 DEF Covers
  <2> DEFINE n == [b EXCEPT !.pending = b.pending + DaysOf(f)]
  <2>2. /\ n \in Balance /\ n.entitlement = b.entitlement /\ n.adjustment = b.adjustment
        /\ n.used = b.used /\ n.pending = b.pending + DaysOf(f)
    BY <1>1, <2>1 DEF Balance
  <2>3. Available(n) >= 0
    <3> HIDE DEF n
    <3> QED BY <1>1, <2>1, <2>2 DEF Available, Balance
  <2> QED BY <1>3, <2>2, <2>3
<1> QED BY <1>2, <1>3

(* What CommitDecision stores is a balance that is not overdrawn if the    *)
(* balance was not.                                                        *)
LEMMA SettledBalance ==
    ASSUME NEW f, Ordered(f), NEW b \in Balance, NEW op \in Decisions,
           op # "cancelled" => BalanceBacks(b, f)
    PROVE  /\ Settled(b, b, op, DaysOf(f)) \in Balance
           /\ Available(b) >= 0 => Available(Settled(b, b, op, DaysOf(f))) >= 0
<1>1. DaysOf(f) \in Nat
  BY FormFacts
<1> DEFINE n == Settled(b, b, op, DaysOf(f))
<1>2. /\ MonusZero(b.pending, DaysOf(f)) \in Nat
      /\ MonusZero(b.pending, DaysOf(f)) <= b.pending
      /\ op # "cancelled" => MonusZero(b.pending, DaysOf(f)) = b.pending - DaysOf(f)
  BY <1>1 DEF MonusZero, Balance, BalanceBacks
<1>3. /\ n \in Balance /\ n.entitlement = b.entitlement /\ n.adjustment = b.adjustment
      /\ n.pending = MonusZero(b.pending, DaysOf(f))
      /\ n.used = IF op = "approved" THEN b.used + DaysOf(f) ELSE b.used
  <2> DEFINE p == MonusZero(b.pending, DaysOf(f))
             u == IF op = "approved" THEN b.used + DaysOf(f) ELSE b.used
  <2>1. n = [b EXCEPT !.pending = p, !.used = u]
    BY DEF Settled
  <2>2. p \in Nat /\ u \in Nat
    BY <1>1, <1>2 DEF Balance
  <2> HIDE DEF n, p, u
  <2>3. /\ n \in Balance /\ n.entitlement = b.entitlement /\ n.adjustment = b.adjustment
        /\ n.pending = p /\ n.used = u
    BY <2>1, <2>2 DEF Balance
  <2> QED BY <2>3 DEF p, u
<1> HIDE DEF n
<1>4. Available(b) >= 0 => Available(n) >= 0
  BY <1>1, <1>2, <1>3 DEF Available, Balance, Decisions
<1> QED BY <1>3, <1>4 DEF n

-----------------------------------------------------------------------------
(* Steps of a call                                                         *)

(* A call that ends releases its rows; the other calls keep theirs.        *)
LEMMA Ends ==
    ASSUME TypeOK, NEW c \in Calls, EndCall(c)
    PROVE  /\ call' \in [Calls -> CallRecord]
           /\ requestLock' \in [Requests -> Calls \cup {NoCall}]
           /\ balanceLock' \in [Accounts -> Calls \cup {NoCall}]
           /\ call'[c].stage = "idle"
           /\ \A d \in Calls : d # c =>
                 /\ call'[d] = call[d]
                 /\ \A r \in Requests : requestLock[r] = d => requestLock'[r] = d
                 /\ \A a \in Accounts : balanceLock[a] = d => balanceLock'[a] = d
<1>1. Idle \in CallRecord /\ Idle.stage = "idle"
  BY LeaveConstants DEF Idle, CallRecord
<1> QED BY <1>1, LeaveConstants DEF EndCall, Released, TypeOK

(* A call goes on, having read a balance or not.                           *)
LEMMA GoesOn ==
    ASSUME TypeOK, NEW c \in Calls, NEW st \in {"claimed", "ready"},
           NEW b \in Balance \cup {NoBalance},
           call' = [call EXCEPT ![c].stage = st, ![c].seen = b]
    PROVE  /\ call' \in [Calls -> CallRecord]
           /\ \A d \in Calls : d # c => call'[d] = call[d]
           /\ call'[c].stage = st /\ call'[c].op = call[c].op
           /\ call'[c].request = call[c].request /\ call'[c].form = call[c].form
           /\ call'[c].seen = b
<1>1. call \in [Calls -> CallRecord] /\ call[c] \in CallRecord
  BY DEF TypeOK
<1>2. [call[c] EXCEPT !.stage = st, !.seen = b] \in CallRecord
  BY <1>1 DEF CallRecord
<1> QED BY <1>1, <1>2 DEF CallRecord

(* A claim.                                                                *)
LEMMA Claims ==
    ASSUME TypeOK, NEW c \in Calls, call' = [call EXCEPT ![c].stage = "claimed"]
    PROVE  /\ call' \in [Calls -> CallRecord]
           /\ \A d \in Calls : d # c => call'[d] = call[d]
           /\ call'[c].stage = "claimed" /\ call'[c].op = call[c].op
           /\ call'[c].request = call[c].request /\ call'[c].form = call[c].form
           /\ call'[c].seen = call[c].seen
<1>1. call \in [Calls -> CallRecord] /\ call[c] \in CallRecord
  BY DEF TypeOK
<1>2. [call[c] EXCEPT !.stage = "claimed"] \in CallRecord
  BY <1>1 DEF CallRecord
<1> QED BY <1>1, <1>2 DEF CallRecord

(* The rows a call has locked, and the id it is about to insert, are left  *)
(* alone by the others.                                                    *)
LEMMA OthersStaySound ==
    ASSUME TypeOK, NEW d \in Calls, Sound(d), call'[d] = call[d],
           \A r \in Requests : status[r] # "none" =>
                                 status'[r] # "none" /\ form'[r] = form[r],
           \A r \in Requests : requestLock[r] = d /\ status[r] = "pending" =>
                                 requestLock'[r] = d /\ status'[r] = status[r],
           \A a \in Accounts : balanceLock[a] = d /\ balance[a] # NoBalance =>
                                 balanceLock'[a] = d /\ balance'[a] = balance[a],
           Creating(d) => status'[call[d].request] = "none"
    PROVE  Sound(d)'
<1>1. call[d].request \in Requests
  BY DEF TypeOK, CallRecord
<1>2. call[d].stage # "idle" => AccountOf(call[d].form) \in Accounts
  BY FormFacts DEF Sound
<1>3. /\ (Creating(d)' <=> Creating(d)) /\ (Deciding(d)' <=> Deciding(d))
  BY DEF Creating, Deciding
<1>4. Deciding(d) => call'[d].form = form'[call'[d].request]
  BY <1>1 DEF Sound
<1>5. call[d].stage = "ready" /\ call[d].seen # NoBalance =>
         /\ balanceLock'[AccountOf(call[d].form)] = d
         /\ balance'[AccountOf(call[d].form)] = call[d].seen
  BY <1>2 DEF Sound
<1> QED BY <1>1, <1>3, <1>4, <1>5 DEF Sound

(* A step of one call that writes no row but its own locks: the others     *)
(* rely on what they relied on.                                            *)
LEMMA Frame ==
    ASSUME TypeOK, Discipline, NEW c \in Calls,
           UNCHANGED <<status, form, balance, events>>,
           \A d \in Calls : d # c =>
              /\ call'[d] = call[d]
              /\ \A r \in Requests : requestLock[r] = d => requestLock'[r] = d
              /\ \A a \in Accounts : balanceLock[a] = d => balanceLock'[a] = d,
           Sound(c)',
           Creating(c)' => \A d \in Calls : d # c /\ Creating(d)
                                              => call'[c].request # call[d].request
    PROVE  Discipline'
<1>1. ASSUME NEW d \in Calls, d # c PROVE Sound(d)'
  <2>1. Creating(d) => status'[call[d].request] = "none"
    BY DEF Discipline, Sound
  <2> QED BY <1>1, <2>1, OthersStaySound DEF Discipline
<1>2. FreshRows'
  BY DEF Discipline, FreshRows, Creating
<1>3. OrderedRows'
  BY DEF Discipline, OrderedRows
<1> QED BY <1>1, <1>2, <1>3 DEF Discipline

-----------------------------------------------------------------------------
(* The types and the discipline are kept by each action                    *)

(* A call that ends without having written.                                *)
LEMMA RollBackStep ==
    ASSUME TypeOK, Discipline, NEW c \in Calls, RollBack(c)
    PROVE  TypeOK' /\ Discipline'
<1>1. EndCall(c) /\ UNCHANGED <<status, form, balance, events>>
  BY DEF RollBack
<1>2. Sound(c)' /\ ~Creating(c)'
  BY <1>1, Ends DEF Sound, Creating, Deciding
<1>3. Discipline'
  BY <1>1, <1>2, Ends, Frame
<1>4. TypeOK'
  BY <1>1, Ends DEF TypeOK
<1> QED BY <1>3, <1>4

(* A call that begins has read the form and, to decide, the row.           *)
LEMMA BeginStep ==
    ASSUME TypeOK, Discipline, NEW c \in Calls, Begin(c)
    PROVE  TypeOK' /\ Discipline'
<1>1. ASSUME NEW op \in {"create"} \cup Decisions, NEW r \in Requests, NEW f, Ordered(f),
             call' = [call EXCEPT ![c] = [stage |-> "open", op |-> op, request |-> r,
                                          form |-> f, seen |-> NoBalance]],
             UNCHANGED <<status, form, balance, events, requestLock, balanceLock>>,
             op = "create" => /\ status[r] = "none" /\ f.type \in ActiveTypes
                              /\ \A d \in Calls : Creating(d) => call[d].request # r,
             op \in Decisions => status[r] # "none" /\ f = form[r]
      PROVE  TypeOK' /\ Discipline'
  <2>1. call' \in [Calls -> CallRecord]
    BY <1>1 DEF TypeOK, CallRecord, Ordered
  <2>2. call'[c] = [stage |-> "open", op |-> op, request |-> r,
                    form |-> f, seen |-> NoBalance]
        /\ \A d \in Calls : d # c => call'[d] = call[d]
    BY <1>1 DEF TypeOK
  <2>3. Sound(c)'
    BY <1>1, <2>2 DEF Sound, Creating, Deciding, Decisions
  <2>4. Creating(c)' => op = "create"
    BY <2>2 DEF Creating
  <2>5. Discipline'
    BY <1>1, <2>2, <2>3, <2>4, Frame
  <2>6. TypeOK'
    BY <1>1, <2>1 DEF TypeOK
  <2> QED BY <2>5, <2>6
<1>2. ASSUME NEW r \in Requests, NEW f \in Form, OpenCreate(c, r, f)
      PROVE  TypeOK' /\ Discipline'
  <2>1. \A d \in Calls : Creating(d) => At(d, "open", {"create"}) \/ At(d, "ready", {"create"})
    BY DEF Discipline, Sound, Creating, At, TypeOK, CallRecord
  <2> QED BY <1>1, <1>2, <2>1 DEF OpenCreate, StartCreate, Ordered, Decisions
<1>3. ASSUME NEW r \in Requests, NEW op \in Decisions, Open(c, r, op), status[r] # "none"
      PROVE  TypeOK' /\ Discipline'
  <2>1. op # "create" /\ Ordered(form[r])
    BY <1>3 DEF Discipline, OrderedRows, Decisions
  <2> QED BY <1>1, <1>3, <2>1 DEF Open
<1> QED BY <1>2, <1>3 DEF Begin, OpenReview, MayReview, OpenCancel, MayCancel, Decisions

(* Reserve: the balance read under the lock is the one the days fit in.    *)
LEMMA ReserveStep ==
    ASSUME TypeOK, Discipline, NEW c \in Calls, Reserve(c)
    PROVE  TypeOK' /\ Discipline'
<1> DEFINE a == AccountOf(call[c].form)
<1>1. /\ call[c].stage = "open" /\ call[c].op = "create" /\ Covers(balance[a], call[c].form)
      /\ call' = [call EXCEPT ![c].stage = "ready", ![c].seen = balance[a]]
      /\ UNCHANGED <<status, form, balance, events, requestLock>>
      /\ balanceLock[a] = NoCall
      /\ balanceLock' = IF balance[a] = NoBalance THEN balanceLock
                        ELSE [balanceLock EXCEPT ![a] = c]
  BY DEF Reserve, At, TakeBalance
<1>2. /\ Ordered(call[c].form) /\ a \in Accounts /\ status[call[c].request] = "none"
      /\ call[c].form.type \in ActiveTypes
  BY <1>1, FormFacts DEF Discipline, Sound, Creating
<1>3. balance[a] \in Balance \cup {NoBalance}
  BY <1>2 DEF TypeOK
<1> HIDE DEF a
<1>4. /\ call' \in [Calls -> CallRecord]
      /\ \A d \in Calls : d # c => call'[d] = call[d]
      /\ call'[c].stage = "ready" /\ call'[c].op = call[c].op
      /\ call'[c].request = call[c].request /\ call'[c].form = call[c].form
      /\ call'[c].seen = balance[a]
  BY <1>1, <1>3, GoesOn
<1>5. /\ \A d \in Calls, b \in Accounts : d # c /\ balanceLock[b] = d => balanceLock'[b] = d
      /\ balance[a] # NoBalance => balanceLock'[a] = c
      /\ balanceLock' \in [Accounts -> Calls \cup {NoCall}]
  BY <1>1, <1>2, LeaveConstants DEF TypeOK
<1>6. Sound(c)'
  <2>1. Covers(call'[c].seen, call'[c].form)
    BY <1>1, <1>4
  <2>2. call'[c].seen # NoBalance => balanceLock'[AccountOf(call'[c].form)] = c
                                     /\ balance'[AccountOf(call'[c].form)] = call'[c].seen
    BY <1>1, <1>4, <1>5 DEF a
  <2> QED BY <1>1, <1>2, <1>4, <2>1, <2>2 DEF Sound, Creating, Deciding, Decisions
<1>7. Creating(c) /\ (Creating(c)' => \A d \in Calls : d # c /\ Creating(d)
                                          => call'[c].request # call[d].request)
  BY <1>1, <1>4 DEF Discipline, FreshRows, Creating
<1>8. Discipline'
  BY <1>1, <1>4, <1>5, <1>6, <1>7, Frame
<1>9. TypeOK'
  BY <1>1, <1>4, <1>5 DEF TypeOK
<1> QED BY <1>8, <1>9

(* Claim: the row is locked while it shows "pending".                      *)
LEMMA ClaimStep ==
    ASSUME TypeOK, Discipline, NEW c \in Calls, Claim(c)
    PROVE  TypeOK' /\ Discipline'
<1>1. /\ call[c].stage = "open" /\ call[c].op \in Decisions
      /\ status[call[c].request] = "pending" /\ requestLock[call[c].request] = NoCall
      /\ requestLock' = [requestLock EXCEPT ![call[c].request] = c]
      /\ call' = [call EXCEPT ![c].stage = "claimed"]
      /\ UNCHANGED <<status, form, balance, events, balanceLock>>
  BY DEF Claim, ClaimAnyStatus, At
<1>2. /\ call' \in [Calls -> CallRecord]
      /\ \A d \in Calls : d # c => call'[d] = call[d]
      /\ call'[c].stage = "claimed" /\ call'[c].op = call[c].op
      /\ call'[c].request = call[c].request /\ call'[c].form = call[c].form
  BY <1>1, Claims
<1>3. call[c].request \in Requests
  BY DEF TypeOK, CallRecord
<1>4. /\ \A d \in Calls, r \in Requests : d # c /\ requestLock[r] = d => requestLock'[r] = d
      /\ requestLock'[call[c].request] = c
      /\ requestLock' \in [Requests -> Calls \cup {NoCall}]
  BY <1>1, <1>3, LeaveConstants DEF TypeOK
<1>5. Sound(c)' /\ ~Creating(c)'
  BY <1>1, <1>2, <1>4 DEF Discipline, Sound, Creating, Deciding, Decisions
<1>6. Discipline'
  BY <1>1, <1>2, <1>4, <1>5, Frame
<1>7. TypeOK'
  BY <1>1, <1>2, <1>4 DEF TypeOK
<1> QED BY <1>6, <1>7

(* LockBalance: the balance is read under its lock, or the review refuses. *)
LEMMA LockBalanceStep ==
    ASSUME TypeOK, Discipline, NEW c \in Calls, LockBalance(c)
    PROVE  TypeOK' /\ Discipline'
<1> DEFINE f == call[c].form
           a == AccountOf(f)
<1>1. /\ call[c].stage = "claimed" /\ call[c].op \in Decisions
      /\ balanceLock[a] = NoCall
      /\ UNCHANGED <<status, form, balance, events>>
  BY DEF LockBalance, At
<1>2. Ordered(f) /\ a \in Accounts
  BY <1>1, FormFacts DEF Discipline, Sound
<1>3. CASE EndCall(c)
  BY <1>1, <1>3, RollBackStep DEF RollBack
<1>4. CASE /\ call[c].op = "cancelled" \/ BalanceBacks(balance[a], f)
           /\ TakeBalance(c, a)
           /\ call' = [call EXCEPT ![c].stage = "ready", ![c].seen = balance[a]]
           /\ UNCHANGED requestLock
  <2>1. balance[a] \in Balance \cup {NoBalance}
    BY <1>2 DEF TypeOK
  <2> HIDE DEF a
  <2>2. /\ call' \in [Calls -> CallRecord]
        /\ \A d \in Calls : d # c => call'[d] = call[d]
        /\ call'[c].stage = "ready" /\ call'[c].op = call[c].op
        /\ call'[c].request = call[c].request /\ call'[c].form = f
        /\ call'[c].seen = balance[a]
    BY <1>4, <2>1, GoesOn
  <2>3. /\ \A d \in Calls, b \in Accounts : d # c /\ balanceLock[b] = d => balanceLock'[b] = d
        /\ balance[a] # NoBalance => balanceLock'[a] = c
        /\ balanceLock' \in [Accounts -> Calls \cup {NoCall}]
    BY <1>1, <1>2, <1>4, LeaveConstants DEF TakeBalance, TypeOK
  <2>4. Sound(c)' /\ ~Creating(c)'
    <3>1. call'[c].op \in {"approved", "rejected"} => BalanceBacks(call'[c].seen, call'[c].form)
      BY <1>4, <2>2
    <3>2. call'[c].seen # NoBalance => balanceLock'[AccountOf(call'[c].form)] = c
                                       /\ balance'[AccountOf(call'[c].form)] = call'[c].seen
      BY <1>1, <2>2, <2>3 DEF a
    <3>3. /\ call[c].form = form[call[c].request]
          /\ requestLock[call[c].request] = c /\ status[call[c].request] = "pending"
      BY <1>1 DEF Discipline, Sound, Deciding, Decisions
    <3> QED BY <1>1, <1>2, <1>4, <2>2, <3>1, <3>2, <3>3
            DEF Sound, Creating, Deciding, Decisions
  <2>5. Discipline'
    BY <1>1, <1>4, <2>2, <2>3, <2>4, Frame
  <2>6. TypeOK'
    BY <1>1, <1>4, <2>2, <2>3 DEF TypeOK
  <2> QED BY <2>5, <2>6
<1> QED BY <1>3, <1>4 DEF LockBalance

(* CommitCreate: the inserted row is nobody else's, and the balance that   *)
(* was read is the balance that is charged.                                *)
LEMMA CommitCreateStep ==
    ASSUME TypeOK, Discipline, NEW c \in Calls, CommitCreate(c)
    PROVE  /\ TypeOK' /\ Discipline'
           /\ (\A a \in Accounts : balance[a] # NoBalance => Available(balance[a]) >= 0)
                => \A a \in Accounts : balance'[a] # NoBalance => Available(balance'[a]) >= 0
<1> DEFINE f == call[c].form
           r == call[c].request
           a == AccountOf(f)
           seen == call[c].seen
           new == IF seen = NoBalance THEN FirstBalance(f)
                  ELSE [balance[a] EXCEPT !.pending = seen.pending + DaysOf(f)]
<1>1. /\ call[c].stage = "ready" /\ call[c].op = "create"
      /\ seen = NoBalance => balance[a] = NoBalance
      /\ status' = [status EXCEPT ![r] = "pending"]
      /\ form' = [form EXCEPT ![r] = f]
      /\ events' = [events EXCEPT ![r] = Append(@, "submitted")]
      /\ balance' = [balance EXCEPT ![a] = new]
      /\ EndCall(c)
  BY DEF CommitCreate, At, DuplicateBalance, SubmitRow
<1>2. /\ Ordered(f) /\ a \in Accounts /\ r \in Requests /\ status[r] = "none"
      /\ seen \in Balance \cup {NoBalance} /\ Covers(seen, f)
      /\ seen # NoBalance => balanceLock[a] = c /\ balance[a] = seen
  BY <1>1, FormFacts DEF Discipline, Sound, Creating, TypeOK, CallRecord
<1>3. new \in Balance /\ Available(new) >= 0
  BY <1>2, ChargedBalance
<1>4. Creating(c) /\ call[c].request = r
  BY <1>1 DEF Creating
<1> HIDE DEF new, f, r, a, seen
<1>6. TypeOK'
  <2>1. status' \in [Requests -> Statuses] /\ form' \in [Requests -> Form \cup {NoForm}]
    BY <1>1, <1>2 DEF TypeOK, Statuses, Ordered
  <2>2. balance' \in [Accounts -> Balance \cup {NoBalance}]
    BY <1>1, <1>2, <1>3 DEF TypeOK
  <2>3. Append(events[r], "submitted") \in Seq({"submitted"} \cup Decisions)
    BY <1>2 DEF TypeOK
  <2>4. events' \in [Requests -> Seq({"submitted"} \cup Decisions)]
    BY <1>1, <1>2, <2>3 DEF TypeOK
  <2> QED BY <1>1, <2>1, <2>2, <2>4, Ends DEF TypeOK
<1>7. Sound(c)' /\ ~Creating(c)'
  BY <1>1, Ends DEF Sound, Creating, Deciding
<1>8. ASSUME NEW d \in Calls, d # c PROVE Sound(d)'
  <2>1. call'[d] = call[d] /\ Sound(d)
    BY <1>1, <1>8, Ends DEF Discipline
  <2>2. \A q \in Requests : status[q] # "none" => status'[q] # "none" /\ form'[q] = form[q]
    BY <1>1, <1>2 DEF TypeOK
  <2>3. Creating(d) => status'[call[d].request] = "none"
    <3>1. ASSUME Creating(d) PROVE call[d].request # r /\ call[d].request \in Requests
      BY <1>4, <1>8, <3>1 DEF Discipline, FreshRows, TypeOK, CallRecord
    <3> QED BY <1>1, <2>1, <3>1 DEF TypeOK, Sound
  <2>4. \A b \in Accounts : balanceLock[b] = d /\ balance[b] # NoBalance =>
                                balanceLock'[b] = d /\ balance'[b] = balance[b]
    <3>1. ASSUME NEW b \in Accounts, balanceLock[b] = d, balance[b] # NoBalance
          PROVE  b # a
      BY <1>1, <1>2, <1>8, <3>1
    <3> QED BY <1>1, <1>8, <3>1, Ends DEF TypeOK
  <2>5. \A q \in Requests : requestLock[q] = d /\ status[q] = "pending" =>
                                requestLock'[q] = d /\ status'[q] = status[q]
    BY <1>1, <1>2, <1>8, Ends DEF TypeOK
  <2> QED BY <2>1, <2>2, <2>3, <2>4, <2>5, OthersStaySound
<1>9. FreshRows'
  BY <1>1, <1>7, Ends DEF Discipline, FreshRows, Creating
<1>10. OrderedRows'
  BY <1>1, <1>2 DEF Discipline, OrderedRows, TypeOK
<1>11. Discipline'
  BY <1>7, <1>8, <1>9, <1>10 DEF Discipline
<1>12. ASSUME \A b \in Accounts : balance[b] # NoBalance => Available(balance[b]) >= 0,
              NEW b \in Accounts, balance'[b] # NoBalance
       PROVE  Available(balance'[b]) >= 0
  <2>1. balance'[b] = IF b = a THEN new ELSE balance[b]
    BY <1>1, <1>2 DEF TypeOK
  <2> QED BY <1>3, <1>12, <2>1
<1> QED BY <1>6, <1>11, <1>12

(* CommitDecision: request and balance are still as they were read.        *)
LEMMA CommitDecisionStep ==
    ASSUME TypeOK, Discipline, NEW c \in Calls, CommitDecision(c)
    PROVE  /\ TypeOK' /\ Discipline'
           /\ (\A a \in Accounts : balance[a] # NoBalance => Available(balance[a]) >= 0)
                => \A a \in Accounts : balance'[a] # NoBalance => Available(balance'[a]) >= 0
<1> DEFINE f == call[c].form
           r == call[c].request
           a == AccountOf(f)
           seen == call[c].seen
           op == call[c].op
           new == Settled(balance[a], seen, op, DaysOf(f))
<1>1. /\ call[c].stage = "ready" /\ op \in Decisions
      /\ status' = [status EXCEPT ![r] = op]
      /\ events' = [events EXCEPT ![r] = Append(@, op)]
      /\ balance' = IF seen = NoBalance THEN balance ELSE [balance EXCEPT ![a] = new]
      /\ EndCall(c) /\ form' = form
  BY DEF CommitDecision, At
<1>2. /\ Ordered(f) /\ a \in Accounts /\ r \in Requests
      /\ status[r] = "pending" /\ requestLock[r] = c
      /\ seen \in Balance \cup {NoBalance}
      /\ seen # NoBalance => balanceLock[a] = c /\ balance[a] = seen
      /\ op # "cancelled" => BalanceBacks(seen, f)
  BY <1>1, FormFacts DEF Discipline, Sound, Deciding, Decisions, TypeOK, CallRecord
<1>3. seen # NoBalance => /\ new \in Balance
                          /\ Available(balance[a]) >= 0 => Available(new) >= 0
  BY <1>1, <1>2, SettledBalance
<1>4. op # "none" /\ op # "create"
  BY <1>1 DEF Decisions
<1> HIDE DEF new, f, r, a, seen, op
<1>5. TypeOK'
  <2>1. status' \in [Requests -> Statuses]
    BY <1>1, <1>2 DEF TypeOK, Statuses
  <2>2. balance' \in [Accounts -> Balance \cup {NoBalance}]
    BY <1>1, <1>2, <1>3 DEF TypeOK
  <2>3. Append(events[r], op) \in Seq({"submitted"} \cup Decisions)
    BY <1>1, <1>2 DEF TypeOK
  <2>4. events' \in [Requests -> Seq({"submitted"} \cup Decisions)]
    BY <1>1, <1>2, <2>3 DEF TypeOK
  <2> QED BY <1>1, <2>1, <2>2, <2>4, Ends DEF TypeOK
<1>6. Sound(c)' /\ ~Creating(c)'
  BY <1>1, Ends DEF Sound, Creating, Deciding
<1>7. ASSUME NEW d \in Calls, d # c PROVE Sound(d)'
  <2>1. call'[d] = call[d] /\ Sound(d)
    BY <1>1, <1>7, Ends DEF Discipline
  <2>2. \A q \in Requests : status[q] # "none" => status'[q] # "none" /\ form'[q] = form[q]
    BY <1>1, <1>2, <1>4 DEF TypeOK
  <2>3. Creating(d) => status'[call[d].request] = "none"
    <3>1. ASSUME Creating(d)
          PROVE  status[call[d].request] = "none" /\ call[d].request \in Requests
      BY <2>1, <3>1 DEF Sound, TypeOK, CallRecord
    <3> QED BY <1>1, <1>2, <3>1 DEF TypeOK
  <2>4. \A b \in Accounts : balanceLock[b] = d /\ balance[b] # NoBalance =>
                                balanceLock'[b] = d /\ balance'[b] = balance[b]
    <3>1. seen = NoBalance \/ balanceLock[a] # d
      BY <1>2, <1>7
    <3> QED BY <1>1, <1>7, <3>1, Ends DEF TypeOK
  <2>5. \A q \in Requests : requestLock[q] = d /\ status[q] = "pending" =>
                                requestLock'[q] = d /\ status'[q] = status[q]
    BY <1>1, <1>2, <1>7, Ends DEF TypeOK
  <2> QED BY <2>1, <2>2, <2>3, <2>4, <2>5, OthersStaySound
<1>8. FreshRows'
  BY <1>1, <1>6, Ends DEF Discipline, FreshRows, Creating
<1>9. OrderedRows'
  BY <1>1, <1>2 DEF Discipline, OrderedRows, TypeOK
<1>10. Discipline'
  BY <1>6, <1>7, <1>8, <1>9 DEF Discipline
<1>11. ASSUME \A b \in Accounts : balance[b] # NoBalance => Available(balance[b]) >= 0,
              NEW b \in Accounts, balance'[b] # NoBalance
       PROVE  Available(balance'[b]) >= 0
  <2>1. CASE seen = NoBalance
    BY <1>1, <1>11, <2>1
  <2>2. CASE seen # NoBalance
    <3>1. balance[a] # NoBalance
      BY <1>2, <2>2
    <3>2. balance'[b] = IF b = a THEN new ELSE balance[b]
      BY <1>1, <1>2, <2>2 DEF TypeOK
    <3> QED BY <1>2, <1>3, <1>11, <2>2, <3>1, <3>2
  <2> QED BY <2>1, <2>2
<1> QED BY <1>5, <1>10, <1>11

-----------------------------------------------------------------------------
(* The theorems                                                            *)

(* One step of the specification.                                          *)
LEMMA Step ==
    TypeOK /\ Discipline /\ NeverOverdrawn /\ [Next]_vars
        => TypeOK' /\ Discipline' /\ NeverOverdrawn'
<1> SUFFICES ASSUME TypeOK, Discipline, NeverOverdrawn, [Next]_vars
             PROVE  TypeOK' /\ Discipline' /\ NeverOverdrawn'
  OBVIOUS
<1>1. ASSUME UNCHANGED balance PROVE NeverOverdrawn'
  BY <1>1 DEF NeverOverdrawn
<1>2. ASSUME NEW c \in Calls, Begin(c) PROVE TypeOK' /\ Discipline' /\ NeverOverdrawn'
  BY <1>1, <1>2, BeginStep DEF Begin, OpenCreate, StartCreate, OpenReview, OpenCancel, Open
<1>3. ASSUME NEW c \in Calls, Reserve(c) PROVE TypeOK' /\ Discipline' /\ NeverOverdrawn'
  BY <1>1, <1>3, ReserveStep DEF Reserve
<1>4. ASSUME NEW c \in Calls, CommitCreate(c) PROVE TypeOK' /\ Discipline' /\ NeverOverdrawn'
  BY <1>4, CommitCreateStep DEF NeverOverdrawn
<1>5. ASSUME NEW c \in Calls, Claim(c) PROVE TypeOK' /\ Discipline' /\ NeverOverdrawn'
  BY <1>1, <1>5, ClaimStep DEF Claim, ClaimAnyStatus
<1>6. ASSUME NEW c \in Calls, LockBalance(c) PROVE TypeOK' /\ Discipline' /\ NeverOverdrawn'
  BY <1>1, <1>6, LockBalanceStep DEF LockBalance
<1>7. ASSUME NEW c \in Calls, CommitDecision(c) PROVE TypeOK' /\ Discipline' /\ NeverOverdrawn'
  BY <1>7, CommitDecisionStep DEF NeverOverdrawn
<1>8. ASSUME NEW c \in Calls, RollBack(c) PROVE TypeOK' /\ Discipline' /\ NeverOverdrawn'
  BY <1>1, <1>8, RollBackStep DEF RollBack
<1>9. CASE UNCHANGED vars
  <2>1. \A c \in Calls : Sound(c)'
    BY <1>9 DEF vars, Discipline, Sound, Creating, Deciding
  <2> QED BY <1>1, <1>9, <2>1
          DEF vars, TypeOK, Discipline, FreshRows, OrderedRows, Creating
<1> QED
  BY <1>2, <1>3, <1>4, <1>5, <1>6, <1>7, <1>8, <1>9
     DEF Next, Advance, RefuseCreate, UniqueViolation, AlreadyDecided, Fail

(* Every reachable state is well-typed, and what a call has read under a   *)
(* row lock is true until it ends.                                         *)
THEOREM TypeCorrect == Spec => [](TypeOK /\ Discipline /\ NeverOverdrawn)
<1>1. Init => TypeOK /\ Discipline /\ NeverOverdrawn
  <2> SUFFICES ASSUME Init PROVE TypeOK /\ Discipline /\ NeverOverdrawn
    OBVIOUS
  <2>1. ASSUME NEW b \in OpeningBalance PROVE b \in Balance /\ Available(b) >= 0
    <3>1. /\ b \in [entitlement: Grants, adjustment: Adjustments, used: {0}, pending: {0}]
          /\ Available(b) >= 0
      BY DEF OpeningBalance
    <3>2. Grants \subseteq Nat /\ Adjustments \subseteq Int /\ {0} \subseteq Nat
      BY LeaveConstants
    <3>3. b \in Balance
      BY <3>1, <3>2 DEF Balance
    <3> QED BY <3>1, <3>3
  <2>2. Idle \in CallRecord /\ Idle.stage = "idle"
    BY LeaveConstants DEF Idle, CallRecord
  <2>3. TypeOK
    BY <2>1, <2>2 DEF Init, TypeOK, Statuses
  <2>4. Discipline
    BY <2>2 DEF Init, Discipline, Sound, FreshRows, OrderedRows, Creating, Deciding
  <2> QED BY <2>1, <2>3, <2>4 DEF Init, NeverOverdrawn
<1> QED BY <1>1, Step, PTL DEF Spec

(* "Negative balances are rejected" (docs/leave.md), for any number of     *)
(* concurrent submissions, reviews and cancellations.                      *)
THEOREM BalancesNeverOverdrawn == Spec => []NeverOverdrawn
BY TypeCorrect, PTL

(* Only a commit writes a request, and only a request that was absent or   *)
(* pending.                                                                *)
LEMMA RequestStep ==
    ASSUME TypeOK, Discipline, [Next]_vars, NEW r \in Requests
    PROVE  \/ status'[r] = status[r] /\ events'[r] = events[r] /\ form'[r] = form[r]
           \/ /\ status[r] = "none" /\ status'[r] = "pending"
              /\ events'[r] = Append(events[r], "submitted")
           \/ /\ status[r] = "pending" /\ status'[r] \in Decisions /\ form'[r] = form[r]
              /\ events'[r] = Append(events[r], status'[r])
<1>1. ASSUME NEW c \in Calls, CommitCreate(c)
      PROVE  \/ status'[r] = status[r] /\ events'[r] = events[r] /\ form'[r] = form[r]
             \/ /\ status[r] = "none" /\ status'[r] = "pending"
                /\ events'[r] = Append(events[r], "submitted")
  <2>1. status[call[c].request] = "none"
    BY <1>1 DEF CommitCreate, At, Discipline, Sound, Creating
  <2> QED BY <1>1, <2>1 DEF CommitCreate, SubmitRow, TypeOK
<1>2. ASSUME NEW c \in Calls, CommitDecision(c)
      PROVE  \/ status'[r] = status[r] /\ events'[r] = events[r] /\ form'[r] = form[r]
             \/ /\ status[r] = "pending" /\ status'[r] \in Decisions /\ form'[r] = form[r]
                /\ events'[r] = Append(events[r], status'[r])
  <2>1. status[call[c].request] = "pending" /\ call[c].op \in Decisions
    BY <1>2 DEF CommitDecision, At, Discipline, Sound, Deciding
  <2> QED BY <1>2, <2>1 DEF CommitDecision, TypeOK
<1>3. CASE UNCHANGED <<status, form, events>>
  BY <1>3
<1> QED
  BY <1>1, <1>2, <1>3
     DEF Next, Begin, Advance, OpenCreate, StartCreate, OpenReview, OpenCancel, Open,
         Reserve, Claim, ClaimAnyStatus, LockBalance, RefuseCreate, UniqueViolation,
         AlreadyDecided, Fail, RollBack, vars

(* "Double approval cannot commit": a decided request keeps its decision   *)
(* and its days, whichever calls had passed the first check before.        *)
THEOREM DecisionsAreFinal == Spec => DecisionIsFinal
<1>1. TypeOK /\ Discipline /\ [Next]_vars =>
        [\A r \in Requests :
            /\ status[r] \in Decisions => status'[r] = status[r]
            /\ status[r] # "none" => form'[r] = form[r]]_vars
  BY RequestStep DEF Decisions
<1> QED BY <1>1, TypeCorrect, PTL DEF Spec, DecisionIsFinal

(* "submitted" once, then at most one decision, the one of the status.     *)
THEOREM HistoriesAgree == Spec => []HistoryMatchesStatus
<1>1. Init => HistoryMatchesStatus
  BY DEF Init, HistoryMatchesStatus
<1>2. TypeOK /\ Discipline /\ HistoryMatchesStatus /\ [Next]_vars => HistoryMatchesStatus'
  <2> SUFFICES ASSUME TypeOK, Discipline, HistoryMatchesStatus, [Next]_vars,
                      NEW r \in Requests
               PROVE  events'[r] = CASE status'[r] = "none" -> <<>>
                                     [] status'[r] = "pending" -> <<"submitted">>
                                     [] OTHER -> <<"submitted", status'[r]>>
    BY DEF HistoryMatchesStatus
  <2>1. Append(<<>>, "submitted") = <<"submitted">>
    OBVIOUS
  <2>2. \A d \in Decisions : Append(<<"submitted">>, d) = <<"submitted", d>>
    <3> SUFFICES ASSUME NEW d \in Decisions
                 PROVE  Append(<<"submitted">>, d) = <<"submitted", d>>
      OBVIOUS
    <3> DEFINE S == {"submitted"} \cup Decisions
               left == Append(<<"submitted">>, d)
               right == <<"submitted", d>>
    <3>1. left \in Seq(S) /\ right \in Seq(S)
      OBVIOUS
    <3>2. Len(left) = 2 /\ left[1] = "submitted" /\ left[2] = d
      OBVIOUS
    <3>3. Len(right) = 2 /\ right[1] = "submitted" /\ right[2] = d
      OBVIOUS
    <3> HIDE DEF left, right
    <3>4. left = right
      BY <3>1, <3>2, <3>3, SeqEqual
    <3> QED BY <3>4 DEF left, right
  <2> QED BY <2>1, <2>2, RequestStep DEF HistoryMatchesStatus, Decisions
<1> QED BY <1>1, <1>2, TypeCorrect, PTL DEF Spec

-----------------------------------------------------------------------------
(* The counters                                                            *)

\* The days of the requests in S when fm holds their forms.
Total(fm, S) == SumFunctionOnSet([r \in S |-> DaysOf(fm[r])], S)

(* Days of requests add up like the natural numbers they are.              *)
LEMMA TotalFacts ==
    ASSUME NEW fm, NEW S, S \subseteq Requests, \A r \in S : Ordered(fm[r])
    PROVE  /\ Total(fm, S) \in Int
           /\ Total(fm, {}) = 0
           /\ \A r \in S : Total(fm, S) = DaysOf(fm[r]) + Total(fm, S \ {r})
<1>1. IsFiniteSet(S)
  BY LeaveConstants, FS_Subset
<1> DEFINE w == [r \in S |-> DaysOf(fm[r])]
<1>2. \A r \in S : w[r] \in Int
  BY FormFacts
<1>3. Total(fm, S) \in Int
  BY <1>1, <1>2, SumType DEF Total
<1>4. Total(fm, {}) = 0
  BY SumOfNone DEF Total
<1>5. ASSUME NEW r \in S PROVE Total(fm, S) = DaysOf(fm[r]) + Total(fm, S \ {r})
  <2> DEFINE T == S \ {r}
             v == [q \in T |-> DaysOf(fm[q])]
  <2>1. IsFiniteSet(T) /\ \A q \in T : w[q] = v[q]
    BY <1>1, FS_Subset
  <2>2. Total(fm, T) = SumFunctionOnSet(v, T)
    BY DEF Total
  <2>3. w[r] = DaysOf(fm[r])
    OBVIOUS
  <2> HIDE DEF w, v, T
  <2>4. SumFunctionOnSet(w, T) = SumFunctionOnSet(v, T)
    BY <2>1, SumOfSameValues
  <2>5. SumFunctionOnSet(w, S) = w[r] + SumFunctionOnSet(w, S \ {r})
    BY <1>1, <1>2, <1>5, SumAtElement
  <2> QED BY <2>2, <2>3, <2>4, <2>5 DEF Total, w, T
<1> QED BY <1>3, <1>4, <1>5

(* The total of requests whose forms did not change is the same.           *)
LEMMA TotalOfSame ==
    ASSUME NEW fm, NEW gm, NEW S, S \subseteq Requests, \A r \in S : fm[r] = gm[r]
    PROVE  Total(fm, S) = Total(gm, S)
<1> DEFINE w == [r \in S |-> DaysOf(fm[r])]
           v == [r \in S |-> DaysOf(gm[r])]
<1>1. IsFiniteSet(S) /\ \A r \in S : w[r] = v[r]
  BY LeaveConstants, FS_Subset
<1> HIDE DEF w, v
<1>2. SumFunctionOnSet(w, S) = SumFunctionOnSet(v, S)
  BY <1>1, SumOfSameValues
<1> QED BY <1>2 DEF Total, w, v

(* Totals are never negative.                                              *)
LEMMA TotalIsNatural ==
    ASSUME NEW fm, NEW S, S \subseteq Requests, \A r \in S : Ordered(fm[r])
    PROVE  Total(fm, S) \in Nat
<1> DEFINE w == [r \in S |-> DaysOf(fm[r])]
<1>1. IsFiniteSet(S) /\ \A r \in S : w[r] \in Nat
  BY LeaveConstants, FS_Subset, FormFacts
<1> HIDE DEF w
<1>2. SumFunctionOnSet(w, S) \in Nat
  BY <1>1, SumIsNatural
<1> QED BY <1>2 DEF Total, w

\* The requests of an account, when st and fm hold their statuses and forms.
Charged(st, fm, a, S) == {r \in Requests : st[r] \in S /\ AccountOf(fm[r]) = a}

\* The counters of one account are right.
CountersOf(a) ==
    IF balance[a] = NoBalance
    THEN Charged(status, form, a, {"pending", "approved"}) = {}
    ELSE /\ balance[a].pending = Total(form, Charged(status, form, a, {"pending"}))
         /\ balance[a].used = Total(form, Charged(status, form, a, {"approved"}))

LEMMA CountersByAccount == CountersMatchRequests <=> \A a \in Accounts : CountersOf(a)
BY DEF CountersMatchRequests, CountersOf, Charged, Total, DaysIn, RequestsOf

\* A decision has found the balance of its request.
DecisionsHaveBalance ==
    \A c \in Calls : Deciding(c) /\ call[c].stage = "ready" => call[c].seen # NoBalance

(* An account is not affected by a commit to the request of another one.   *)
LEMMA OtherAccount ==
    ASSUME NEW a \in Accounts, CountersOf(a), balance'[a] = balance[a],
           NEW q \in Requests,
           \A r \in Requests : r # q => status'[r] = status[r] /\ form'[r] = form[r],
           status[q] = "none" \/ AccountOf(form[q]) # a,
           AccountOf(form'[q]) # a
    PROVE  CountersOf(a)'
<1>1. \A S \in SUBSET {"pending", "approved"} :
         Charged(status', form', a, S) = Charged(status, form, a, S)
  BY DEF Charged
<1>2. \A S \in SUBSET {"pending", "approved"} :
         Total(form', Charged(status, form, a, S)) = Total(form, Charged(status, form, a, S))
  <2> SUFFICES ASSUME NEW S \in SUBSET {"pending", "approved"}
               PROVE  Total(form', Charged(status, form, a, S))
                        = Total(form, Charged(status, form, a, S))
    OBVIOUS
  <2>1. \A r \in Charged(status, form, a, S) : r \in Requests /\ form'[r] = form[r]
    BY DEF Charged
  <2> QED BY <2>1, TotalOfSame
<1> QED BY <1>1, <1>2 DEF CountersOf

(* A submission adds its days to the pending ones.                         *)
LEMMA CountersAfterCreate ==
    ASSUME TypeOK, Discipline, CountersMatchRequests, NEW c \in Calls, CommitCreate(c)
    PROVE  CountersMatchRequests'
<1> DEFINE f == call[c].form
           r == call[c].request
           seen == call[c].seen
<1>0. PICK a : a = AccountOf(f)
  OBVIOUS
<1>1. /\ call[c].stage = "ready" /\ call[c].op = "create"
      /\ seen = NoBalance => balance[a] = NoBalance
      /\ status' = [status EXCEPT ![r] = "pending"]
      /\ form' = [form EXCEPT ![r] = f]
      /\ balance' = [balance EXCEPT ![a] =
            IF seen = NoBalance THEN FirstBalance(f)
            ELSE [@ EXCEPT !.pending = seen.pending + DaysOf(f)]]
  BY <1>0 DEF CommitCreate, At, DuplicateBalance, SubmitRow
<1>2. /\ Ordered(f) /\ a \in Accounts /\ r \in Requests /\ status[r] = "none"
      /\ seen \in Balance \cup {NoBalance} /\ Covers(seen, f)
      /\ seen # NoBalance => balance[a] = seen
  BY <1>0, <1>1, FormFacts DEF Discipline, Sound, Creating, TypeOK, CallRecord
<1> HIDE DEF f, r, seen
<1>3. /\ status'[r] = "pending" /\ form'[r] = f
      /\ \A q \in Requests : q # r => status'[q] = status[q] /\ form'[q] = form[q]
      /\ \A b \in Accounts : b # a => balance'[b] = balance[b]
  BY <1>1, <1>2 DEF TypeOK
<1>4. AccountOf(f) = a
  BY <1>0 DEF f
<1>5. ASSUME NEW b \in Accounts, b # a PROVE CountersOf(b)'
  BY <1>2, <1>3, <1>4, <1>5, OtherAccount, CountersByAccount
<1>6. CountersOf(a)'
  <2> DEFINE P == Charged(status, form, a, {"pending"})
             A == Charged(status, form, a, {"approved"})
             PP == Charged(status', form', a, {"pending"})
             AA == Charged(status', form', a, {"approved"})
  <2>1. PP = P \cup {r} /\ AA = A /\ r \notin P /\ r \notin A
    BY <1>2, <1>3, <1>4 DEF Charged
  <2>2. \A q \in P \cup A : q \in Requests /\ status[q] # "none" /\ form'[q] = form[q]
    BY <1>3, <2>1 DEF Charged
  <2>3. \A q \in P \cup A : Ordered(form[q])
    BY <2>2 DEF Discipline, OrderedRows
  <2>4. \A q \in PP : q \in Requests /\ Ordered(form'[q])
    BY <1>2, <1>3, <2>1, <2>2, <2>3
  <2> HIDE DEF P, A, PP, AA
  <2>5. Total(form', P) = Total(form, P) /\ Total(form', A) = Total(form, A)
    BY <2>2, TotalOfSame
  <2>6. Total(form', PP) = DaysOf(f) + Total(form', P)
    <3>1. PP \ {r} = P /\ r \in PP /\ PP \subseteq Requests
      BY <1>2, <2>1, <2>4
    <3> QED BY <1>3, <2>4, <3>1, TotalFacts
  <2>7. DaysOf(f) \in Nat /\ Total(form, P) \in Int
    BY <1>2, <2>2, <2>3, FormFacts, TotalFacts
  <2>8. CASE seen = NoBalance
    <3>1. Charged(status, form, a, {"pending", "approved"}) = {}
      BY <1>1, <1>2, <2>8, CountersByAccount DEF CountersOf
    <3>2. P = {} /\ A = {}
      BY <3>1 DEF P, A, Charged
    <3>3. Total(form, P) = 0 /\ Total(form, A) = 0
      BY <3>2, TotalFacts
    <3>4. balance'[a] = FirstBalance(f) /\ FirstBalance(f) \in Balance
      BY <1>1, <1>2, <2>8, ChargedBalance DEF TypeOK
    <3>5. balance'[a].pending = DaysOf(f) /\ balance'[a].used = 0
      BY <3>4 DEF FirstBalance
    <3>6. balance'[a] # NoBalance
      BY <3>4, LeaveNulls
    <3>7. balance'[a].pending = Total(form', PP) /\ balance'[a].used = Total(form', AA)
      BY <2>1, <2>5, <2>6, <2>7, <3>3, <3>5
    <3> QED BY <3>6, <3>7 DEF CountersOf, PP, AA
  <2>9. CASE seen # NoBalance
    <3>1. balance[a] \in Balance /\ balance[a] = seen
      BY <1>2, <2>9
    <3>2. balance[a].pending = Total(form, P) /\ balance[a].used = Total(form, A)
      BY <1>2, <2>9, CountersByAccount DEF CountersOf, P, A
    <3>3. balance'[a] = [balance[a] EXCEPT !.pending = seen.pending + DaysOf(f)]
      BY <1>1, <1>2, <2>9 DEF TypeOK
    <3>4. balance'[a] \in Balance /\ balance'[a].used = balance[a].used
          /\ balance'[a].pending = balance[a].pending + DaysOf(f)
      BY <2>7, <3>1, <3>3 DEF Balance
    <3>5. balance'[a] # NoBalance
      BY <3>4, LeaveNulls
    <3>6. balance'[a].pending = Total(form', PP) /\ balance'[a].used = Total(form', AA)
      BY <2>1, <2>5, <2>6, <2>7, <3>2, <3>4
    <3> QED BY <3>5, <3>6 DEF CountersOf, PP, AA
  <2> QED BY <2>8, <2>9
<1>7. (\A b \in Accounts : CountersOf(b))'
  BY <1>5, <1>6
<1> QED BY <1>7, CountersByAccount
           DEF CountersMatchRequests, CountersOf, Charged, Total, DaysIn, RequestsOf

(* A decision moves its days out of the pending ones.                      *)
LEMMA CountersAfterDecision ==
    ASSUME TypeOK, Discipline, CountersMatchRequests, DecisionsHaveBalance,
           NEW c \in Calls, CommitDecision(c)
    PROVE  CountersMatchRequests'
<1> DEFINE f == call[c].form
           r == call[c].request
           seen == call[c].seen
           op == call[c].op
<1>0. PICK a : a = AccountOf(f)
  OBVIOUS
<1>1. /\ call[c].stage = "ready" /\ op \in Decisions /\ seen # NoBalance
      /\ status' = [status EXCEPT ![r] = op]
      /\ balance' = [balance EXCEPT ![a] = Settled(@, seen, op, DaysOf(f))]
      /\ form' = form
  BY <1>0 DEF CommitDecision, At, DecisionsHaveBalance, Deciding
<1>2. /\ Ordered(f) /\ a \in Accounts /\ r \in Requests
      /\ status[r] = "pending" /\ form[r] = f
      /\ balance[a] = seen /\ seen \in Balance
      /\ op # "cancelled" => BalanceBacks(seen, f)
  BY <1>0, <1>1, FormFacts
     DEF Discipline, Sound, Deciding, Decisions, TypeOK, CallRecord
<1>3. AccountOf(f) = a /\ DaysOf(f) \in Nat
  BY <1>0, <1>2, FormFacts DEF f
<1>4. Settled(balance[a], seen, op, DaysOf(f)) \in Balance
  BY <1>1, <1>2, SettledBalance
<1> HIDE DEF f, r, seen, op
<1>5. /\ status'[r] = op
      /\ \A q \in Requests : q # r => status'[q] = status[q]
      /\ \A b \in Accounts : b # a => balance'[b] = balance[b]
      /\ balance'[a] = Settled(balance[a], seen, op, DaysOf(f))
  BY <1>1, <1>2 DEF TypeOK
<1>6. ASSUME NEW b \in Accounts, b # a PROVE CountersOf(b)'
  BY <1>1, <1>2, <1>3, <1>5, <1>6, OtherAccount, CountersByAccount
<1>7. CountersOf(a)'
  <2> DEFINE P == Charged(status, form, a, {"pending"})
             A == Charged(status, form, a, {"approved"})
             PP == Charged(status', form', a, {"pending"})
             AA == Charged(status', form', a, {"approved"})
  <2>1. /\ PP = P \ {r} /\ r \in P /\ r \notin A
        /\ AA = IF op = "approved" THEN A \cup {r} ELSE A
    BY <1>1, <1>2, <1>3, <1>5 DEF Charged, Decisions
  <2>2. /\ P \subseteq Requests /\ PP \subseteq Requests
        /\ A \subseteq Requests /\ AA \subseteq Requests
    BY DEF Charged
  <2>3. \A q \in P \cup A : Ordered(form[q])
    BY DEF Discipline, OrderedRows, Charged
  <2>4. \A q \in PP \cup AA : Ordered(form[q])
    BY <1>2, <2>1, <2>3
  <2> HIDE DEF P, A, PP, AA
  <2>5. Total(form, P) = DaysOf(f) + Total(form, PP) /\ Total(form, PP) \in Nat
    BY <1>2, <2>1, <2>2, <2>3, <2>4, TotalFacts, TotalIsNatural
  <2>6. Total(form, A) \in Int
        /\ Total(form, AA) = IF op = "approved" THEN Total(form, A) + DaysOf(f)
                             ELSE Total(form, A)
    <3>1. Total(form, A) \in Int
      BY <2>2, <2>3, TotalFacts
    <3>2. CASE op = "approved"
      <4>1. AA \ {r} = A /\ r \in AA
        BY <2>1, <3>2
      <4>2. Total(form, AA) = DaysOf(f) + Total(form, A)
        BY <1>2, <2>2, <2>4, <4>1, TotalFacts
      <4> QED BY <1>3, <3>1, <3>2, <4>2
    <3>3. CASE op # "approved"
      BY <2>1, <3>1, <3>3
    <3> QED BY <3>1, <3>2, <3>3
  <2>7. balance[a].pending = Total(form, P) /\ balance[a].used = Total(form, A)
    <3>1. balance[a] # NoBalance
      BY <1>2, LeaveNulls
    <3> QED BY <1>2, <3>1, CountersByAccount DEF CountersOf, P, A
  <2>8. balance'[a].pending = MonusZero(balance[a].pending, DaysOf(f))
        /\ balance'[a].used = IF op = "approved" THEN balance[a].used + DaysOf(f)
                              ELSE balance[a].used
    BY <1>2, <1>5 DEF Settled, Balance
  <2>9. balance'[a].pending = Total(form, PP) /\ balance'[a].used = Total(form, AA)
    BY <1>3, <2>5, <2>6, <2>7, <2>8 DEF MonusZero
  <2>10. balance'[a] # NoBalance
    BY <1>4, <1>5, LeaveNulls
  <2> QED BY <1>1, <2>9, <2>10 DEF CountersOf, PP, AA
<1>8. (\A b \in Accounts : CountersOf(b))'
  BY <1>6, <1>7
<1> QED BY <1>8, CountersByAccount
        DEF CountersMatchRequests, CountersOf, Charged, Total, DaysIn, RequestsOf

(* A decision reads the balance of a request that is pending: it is there. *)
LEMMA BalanceIsThere ==
    ASSUME TypeOK, Discipline, CountersMatchRequests, DecisionsHaveBalance, [Next]_vars
    PROVE  DecisionsHaveBalance'
<1>1. ASSUME NEW c \in Calls, \A d \in Calls : d # c => call'[d] = call[d],
             Deciding(c)' /\ call'[c].stage = "ready" => call'[c].seen # NoBalance
      PROVE  DecisionsHaveBalance'
  BY <1>1 DEF DecisionsHaveBalance, Deciding
<1>2. ASSUME NEW c \in Calls, Begin(c) PROVE DecisionsHaveBalance'
  <2>1. call'[c].stage = "open" /\ \A d \in Calls : d # c => call'[d] = call[d]
    BY <1>2 DEF Begin, OpenCreate, StartCreate, OpenReview, OpenCancel, Open, TypeOK
  <2> QED BY <1>1, <2>1
<1>3. ASSUME NEW c \in Calls, EndCall(c) PROVE DecisionsHaveBalance'
  <2>1. ~Deciding(c)'
    BY <1>3, Ends DEF Deciding
  <2> QED BY <1>1, <1>3, <2>1, Ends
<1>4. ASSUME NEW c \in Calls, Reserve(c) PROVE DecisionsHaveBalance'
  <2> DEFINE a == AccountOf(call[c].form)
  <2>1. /\ call[c].op = "create" /\ call[c].stage = "open"
        /\ call' = [call EXCEPT ![c].stage = "ready", ![c].seen = balance[a]]
    BY <1>4 DEF Reserve, At
  <2>2. a \in Accounts
    BY <2>1, FormFacts DEF Discipline, Sound
  <2>3. balance[a] \in Balance \cup {NoBalance}
    BY <2>2 DEF TypeOK
  <2> HIDE DEF a
  <2>4. call'[c].op = call[c].op /\ \A d \in Calls : d # c => call'[d] = call[d]
    BY <2>1, <2>3, GoesOn
  <2> QED BY <1>1, <2>1, <2>4 DEF Deciding, Decisions
<1>5. ASSUME NEW c \in Calls, Claim(c) PROVE DecisionsHaveBalance'
  <2>1. call' = [call EXCEPT ![c].stage = "claimed"]
    BY <1>5 DEF Claim, ClaimAnyStatus
  <2> QED BY <1>1, <2>1, Claims
<1>6. ASSUME NEW c \in Calls, LockBalance(c) PROVE DecisionsHaveBalance'
  <2> DEFINE a == AccountOf(call[c].form)
  <2>1. CASE EndCall(c)
    BY <1>3, <2>1
  <2>2. CASE call' = [call EXCEPT ![c].stage = "ready", ![c].seen = balance[a]]
    <3>1. /\ a \in Accounts /\ call[c].request \in Requests
          /\ status[call[c].request] = "pending" /\ AccountOf(form[call[c].request]) = a
      BY <1>6, FormFacts DEF LockBalance, At, Discipline, Sound, Deciding, TypeOK, CallRecord
    <3>2. balance[a] # NoBalance
      <4>1. call[c].request \in Charged(status, form, a, {"pending", "approved"})
        BY <3>1 DEF Charged
      <4> QED BY <3>1, <4>1, CountersByAccount DEF CountersOf
    <3>3. balance[a] \in Balance \cup {NoBalance}
      BY <3>1 DEF TypeOK
    <3> HIDE DEF a
    <3> QED BY <1>1, <2>2, <3>2, <3>3, GoesOn
  <2> QED BY <1>6, <2>1, <2>2 DEF LockBalance
<1>7. CASE UNCHANGED vars
  BY <1>7 DEF vars, DecisionsHaveBalance, Deciding
<1> QED
  BY <1>2, <1>3, <1>4, <1>5, <1>6, <1>7
     DEF Next, Advance, RefuseCreate, CommitCreate, SubmitRow, UniqueViolation,
         AlreadyDecided, CommitDecision, Fail, RollBack

(* The counters of every balance are the days of the requests charged to   *)
(* it, however creations, reviews, cancellations and failures interleave.  *)
THEOREM CountersAgree == Spec => [](CountersMatchRequests /\ DecisionsHaveBalance)
<1>1. Init => CountersMatchRequests /\ DecisionsHaveBalance
  <2> SUFFICES ASSUME Init PROVE CountersMatchRequests /\ DecisionsHaveBalance
    OBVIOUS
  <2>1. DecisionsHaveBalance
    BY DEF Init, DecisionsHaveBalance, Deciding, Idle
  <2>2. ASSUME NEW a \in Accounts PROVE CountersOf(a)
    <3>1. \A S \in SUBSET {"pending", "approved"} : Charged(status, form, a, S) = {}
      BY DEF Init, Charged
    <3>2. Total(form, {}) = 0
      BY TotalFacts
    <3>3. balance[a] # NoBalance => balance[a].pending = 0 /\ balance[a].used = 0
      BY DEF Init, OpeningBalance
    <3> QED BY <3>1, <3>2, <3>3 DEF CountersOf
  <2> QED BY <2>1, <2>2, CountersByAccount
<1>2. TypeOK /\ Discipline /\ CountersMatchRequests /\ DecisionsHaveBalance /\ [Next]_vars
        => CountersMatchRequests' /\ DecisionsHaveBalance'
  <2> SUFFICES ASSUME TypeOK, Discipline, CountersMatchRequests, DecisionsHaveBalance,
                      [Next]_vars
               PROVE  CountersMatchRequests'
    BY BalanceIsThere
  <2>1. CASE UNCHANGED <<status, form, balance>>
    BY <2>1 DEF CountersMatchRequests, DaysIn, RequestsOf
  <2> QED
    BY <2>1, CountersAfterCreate, CountersAfterDecision
       DEF Next, Begin, Advance, OpenCreate, StartCreate, OpenReview, OpenCancel, Open,
           Reserve, Claim, ClaimAnyStatus, LockBalance, RefuseCreate, UniqueViolation,
           AlreadyDecided, Fail, RollBack, vars
<1> QED BY <1>1, <1>2, TypeCorrect, PTL DEF Spec

(* All of it: the invariant that the leave run checks.                     *)
THEOREM BalancesAgree == Spec => []BalancesFollowRequests
<1>1. (TypeOK /\ Discipline /\ NeverOverdrawn) /\ HistoryMatchesStatus
        /\ (CountersMatchRequests /\ DecisionsHaveBalance) => BalancesFollowRequests
  BY DEF BalancesFollowRequests
<1> QED BY <1>1, TypeCorrect, HistoriesAgree, CountersAgree, PTL

-----------------------------------------------------------------------------
(***************************************************************************)
(* Waiting.                                                                *)
(*                                                                         *)
(* CallsFinish says that calls end under the fairness of the row locks.    *)
(* What fairness cannot give is proved here for any number of calls: no    *)
(* circle of waiting calls exists, and a step never takes a call further   *)
(* from its end.                                                           *)
(***************************************************************************)

\* The next step of c needs a row that d has locked.
WaitsFor(c, d) ==
    \/ At(c, "open", Decisions) /\ requestLock[call[c].request] = d
    \/ /\ At(c, "open", {"create"}) \/ At(c, "claimed", Decisions)
       /\ balanceLock[AccountOf(call[c].form)] = d

\* The guards of Advance(c): with the lock it needs a call goes on or is refused,
\* and a call that has read all it needs commits or is rolled back.
MayGoOn(c) ==
    \/ At(c, "open", {"create"}) /\ balanceLock[AccountOf(call[c].form)] = NoCall
    \/ At(c, "open", Decisions) /\ requestLock[call[c].request] = NoCall
    \/ At(c, "claimed", Decisions) /\ balanceLock[AccountOf(call[c].form)] = NoCall
    \/ call[c].stage = "ready"

\* The request row is taken by a decision before it asks for the balance row,
\* and whoever holds a balance row asks for nothing more.
LocksAreOrdered ==
    /\ \A r \in Requests : requestLock[r] # NoCall =>
          /\ call[requestLock[r]].stage \in {"claimed", "ready"}
          /\ call[requestLock[r]].op \in Decisions
          /\ call[requestLock[r]].request = r
    /\ \A a \in Accounts : balanceLock[a] # NoCall => call[balanceLock[a]].stage = "ready"

(* No circular wait: a call that runs may go on, or it waits for one that   *)
(* may, or it waits for a decision that waits for one that may.            *)
WaitsEnd ==
    \A c \in Calls : call[c].stage # "idle" =>
        \/ MayGoOn(c)
        \/ \E d \in Calls :
              /\ WaitsFor(c, d)
              /\ MayGoOn(d) \/ \E e \in Calls : WaitsFor(d, e) /\ MayGoOn(e)

\* The steps that a call has before it at most.
Remaining(record) ==
    CASE record.stage = "idle" -> 0
      [] record.stage = "ready" -> 1
      [] record.stage = "claimed" -> 2
      [] record.stage = "open" -> 3

(* Every step of a call that runs brings it closer to its end: nothing is   *)
(* tried again, and no call changes another one.                           *)
CallsComeCloser ==
    [][\A c \in Calls : call[c].stage # "idle" =>
          call'[c] = call[c] \/ Remaining(call'[c]) < Remaining(call[c])]_vars

(* What a call is after its last step.                                     *)
LEMMA EndsIdle ==
    ASSUME TypeOK, NEW c \in Calls, EndCall(c)
    PROVE  /\ call'[c].stage = "idle" /\ \A d \in Calls : d # c => call'[d] = call[d]
           /\ \A r \in Requests : requestLock'[r] # NoCall =>
                 requestLock[r] # c /\ requestLock'[r] = requestLock[r]
           /\ \A a \in Accounts : balanceLock'[a] # NoCall =>
                 balanceLock[a] # c /\ balanceLock'[a] = balanceLock[a]
BY LeaveConstants DEF EndCall, Released, TypeOK, Idle

(* The order of the locks is kept when a call takes no lock.               *)
LEMMA OrderKept ==
    ASSUME TypeOK, LocksAreOrdered, NEW c \in Calls,
           \A d \in Calls : d # c => call'[d] = call[d],
           \A r \in Requests : requestLock'[r] # NoCall =>
              requestLock[r] # c /\ requestLock'[r] = requestLock[r],
           \A a \in Accounts : balanceLock'[a] # NoCall =>
              balanceLock[a] # c /\ balanceLock'[a] = balanceLock[a]
    PROVE  LocksAreOrdered'
<1>1. ASSUME NEW r \in Requests, requestLock'[r] # NoCall
      PROVE  /\ call'[requestLock'[r]].stage \in {"claimed", "ready"}
             /\ call'[requestLock'[r]].op \in Decisions
             /\ call'[requestLock'[r]].request = r
  <2>1. requestLock[r] \in Calls /\ call'[requestLock[r]] = call[requestLock[r]]
        /\ requestLock'[r] = requestLock[r]
    BY <1>1 DEF TypeOK
  <2> QED BY <1>1, <2>1 DEF LocksAreOrdered
<1>2. ASSUME NEW a \in Accounts, balanceLock'[a] # NoCall
      PROVE  call'[balanceLock'[a]].stage = "ready"
  <2>1. balanceLock[a] \in Calls /\ call'[balanceLock[a]] = call[balanceLock[a]]
        /\ balanceLock'[a] = balanceLock[a]
    BY <1>2 DEF TypeOK
  <2> QED BY <1>2, <2>1 DEF LocksAreOrdered
<1> QED BY <1>1, <1>2 DEF LocksAreOrdered

(* The order of the locks is kept by every step.                           *)
LEMMA OrderStep ==
    TypeOK /\ Discipline /\ LocksAreOrdered /\ [Next]_vars => LocksAreOrdered'
<1> SUFFICES ASSUME TypeOK, Discipline, LocksAreOrdered, [Next]_vars
             PROVE  LocksAreOrdered'
  OBVIOUS
<1>1. ASSUME NEW c \in Calls, EndCall(c) PROVE LocksAreOrdered'
  BY <1>1, EndsIdle, OrderKept
<1>2. ASSUME NEW c \in Calls, call[c].stage \in {"idle", "open"}
      PROVE  /\ \A r \in Requests : requestLock[r] # c
             /\ \A a \in Accounts : balanceLock[a] # c
  BY <1>2, LeaveConstants DEF LocksAreOrdered
<1>3. ASSUME NEW c \in Calls, Begin(c) PROVE LocksAreOrdered'
  <2>1. /\ call[c].stage = "idle" /\ UNCHANGED <<requestLock, balanceLock>>
        /\ \A d \in Calls : d # c => call'[d] = call[d]
    BY <1>3 DEF Begin, OpenCreate, StartCreate, OpenReview, OpenCancel, Open, TypeOK
  <2> QED BY <1>2, <2>1, OrderKept
<1>4. ASSUME NEW c \in Calls, call[c].stage # "idle", NEW a, a = AccountOf(call[c].form),
             TakeBalance(c, a), UNCHANGED requestLock,
             call' = [call EXCEPT ![c].stage = "ready", ![c].seen = balance[a]]
      PROVE  LocksAreOrdered'
  <2>1. a \in Accounts
    BY <1>4, FormFacts DEF Discipline, Sound
  <2>2. balance[a] \in Balance \cup {NoBalance}
    BY <2>1 DEF TypeOK
  <2>3. /\ \A d \in Calls : d # c => call'[d] = call[d]
        /\ call'[c].stage = "ready" /\ call'[c].op = call[c].op
        /\ call'[c].request = call[c].request
    BY <1>4, <2>2, GoesOn
  <2>4. ASSUME NEW r \in Requests, requestLock'[r] # NoCall
        PROVE  /\ call'[requestLock'[r]].stage \in {"claimed", "ready"}
               /\ call'[requestLock'[r]].op \in Decisions
               /\ call'[requestLock'[r]].request = r
    <3>1. requestLock[r] \in Calls /\ requestLock'[r] = requestLock[r]
      BY <1>4, <2>4 DEF TypeOK
    <3> QED BY <2>3, <2>4, <3>1 DEF LocksAreOrdered
  <2>5. ASSUME NEW b \in Accounts, balanceLock'[b] # NoCall
        PROVE  call'[balanceLock'[b]].stage = "ready"
    <3>1. balanceLock[b] \in Calls \cup {NoCall} /\ (balanceLock'[b] = c \/ balanceLock'[b] = balanceLock[b])
      BY <1>4, <2>1 DEF TakeBalance, TypeOK
    <3> QED BY <2>3, <2>5, <3>1 DEF LocksAreOrdered
  <2> QED BY <2>4, <2>5 DEF LocksAreOrdered
<1>5. ASSUME NEW c \in Calls, Reserve(c) PROVE LocksAreOrdered'
  BY <1>4, <1>5 DEF Reserve, At
<1>6. ASSUME NEW c \in Calls, LockBalance(c) PROVE LocksAreOrdered'
  BY <1>1, <1>4, <1>6 DEF LockBalance, At
<1>7. ASSUME NEW c \in Calls, Claim(c) PROVE LocksAreOrdered'
  <2>1. /\ call[c].stage = "open" /\ call[c].op \in Decisions
        /\ requestLock' = [requestLock EXCEPT ![call[c].request] = c]
        /\ call' = [call EXCEPT ![c].stage = "claimed"] /\ balanceLock' = balanceLock
        /\ call[c].request \in Requests
    BY <1>7 DEF Claim, ClaimAnyStatus, At, TypeOK, CallRecord
  <2>2. /\ \A d \in Calls : d # c => call'[d] = call[d]
        /\ call'[c].stage = "claimed" /\ call'[c].op = call[c].op
        /\ call'[c].request = call[c].request
    BY <2>1, Claims
  <2>3. ASSUME NEW r \in Requests, requestLock'[r] # NoCall
        PROVE  /\ call'[requestLock'[r]].stage \in {"claimed", "ready"}
               /\ call'[requestLock'[r]].op \in Decisions
               /\ call'[requestLock'[r]].request = r
    <3>1. CASE r = call[c].request
      BY <2>1, <2>2, <3>1 DEF TypeOK
    <3>2. CASE r # call[c].request
      <4>1. requestLock'[r] = requestLock[r] /\ requestLock[r] \in Calls /\ requestLock[r] # c
        BY <1>2, <2>1, <2>3, <3>2 DEF TypeOK
      <4> QED BY <2>2, <2>3, <4>1 DEF LocksAreOrdered
    <3> QED BY <3>1, <3>2
  <2>4. ASSUME NEW a \in Accounts, balanceLock'[a] # NoCall
        PROVE  call'[balanceLock'[a]].stage = "ready"
    <3>1. balanceLock'[a] = balanceLock[a] /\ balanceLock[a] \in Calls /\ balanceLock[a] # c
      BY <1>2, <2>1, <2>4 DEF TypeOK
    <3> QED BY <2>2, <2>4, <3>1 DEF LocksAreOrdered
  <2> QED BY <2>3, <2>4 DEF LocksAreOrdered
<1>8. CASE UNCHANGED vars
  BY <1>8 DEF vars, LocksAreOrdered
<1> QED
  BY <1>1, <1>3, <1>5, <1>6, <1>7, <1>8
     DEF Next, Advance, CommitCreate, SubmitRow, CommitDecision, RefuseCreate,
         UniqueViolation, AlreadyDecided, Fail, RollBack

(* Row locks are taken in one order, so that no call waits in a circle,    *)
(* however many submissions, reviews and cancellations run at once.        *)
THEOREM NoCircularWait == Spec => [](LocksAreOrdered /\ WaitsEnd)
<1>1. Init => LocksAreOrdered
  BY DEF Init, LocksAreOrdered
<1>2. TypeOK /\ Discipline /\ LocksAreOrdered => WaitsEnd
  <2> SUFFICES ASSUME TypeOK, Discipline, LocksAreOrdered,
                      NEW c \in Calls, call[c].stage # "idle", ~MayGoOn(c)
               PROVE  \E d \in Calls :
                         /\ WaitsFor(c, d)
                         /\ MayGoOn(d) \/ \E e \in Calls : WaitsFor(d, e) /\ MayGoOn(e)
    BY DEF WaitsEnd
  <2>1. ASSUME NEW d \in Calls, call[d].stage # "idle", ~MayGoOn(d),
               ~At(d, "open", Decisions)
        PROVE  \E e \in Calls : WaitsFor(d, e) /\ MayGoOn(e)
    <3> DEFINE a == AccountOf(call[d].form)
    <3>1. a \in Accounts
      BY <2>1, FormFacts DEF Discipline, Sound
    <3>2. At(d, "open", {"create"}) \/ At(d, "claimed", Decisions)
      BY <2>1 DEF MayGoOn, At, Discipline, Sound, Creating, TypeOK, CallRecord
    <3>3. balanceLock[a] \in Calls
      BY <2>1, <3>1, <3>2 DEF MayGoOn, TypeOK
    <3>4. WaitsFor(d, balanceLock[a]) /\ MayGoOn(balanceLock[a])
      BY <3>1, <3>2, <3>3, LeaveConstants DEF WaitsFor, MayGoOn, LocksAreOrdered
    <3> QED BY <3>3, <3>4
  <2>2. CASE At(c, "open", Decisions)
    <3> DEFINE d == requestLock[call[c].request]
    <3>1. d \in Calls /\ call[c].request \in Requests /\ WaitsFor(c, d)
      BY <2>2 DEF MayGoOn, WaitsFor, TypeOK, CallRecord
    <3>2. call[d].stage # "idle" /\ ~At(d, "open", Decisions)
      BY <3>1, LeaveConstants DEF LocksAreOrdered, At
    <3> QED BY <2>1, <3>1, <3>2
  <2> QED BY <2>1, <2>2
<1> QED BY <1>1, <1>2, OrderStep, TypeCorrect, PTL DEF Spec

(* Each action has at most three steps, and no other call sends it back.   *)
THEOREM CallsGoForward == Spec => CallsComeCloser
<1>1. TypeOK /\ Discipline /\ [Next]_vars =>
        [\A c \in Calls : call[c].stage # "idle" =>
            call'[c] = call[c] \/ Remaining(call'[c]) < Remaining(call[c])]_vars
  <2> SUFFICES ASSUME TypeOK, Discipline, [Next]_vars,
                      NEW c \in Calls, call[c].stage # "idle", call'[c] # call[c]
               PROVE  Remaining(call'[c]) < Remaining(call[c])
    OBVIOUS
  <2>1. call[c].stage \in {"open", "claimed", "ready"}
    BY DEF TypeOK, CallRecord
  <2>2. ASSUME EndCall(c) PROVE Remaining(call'[c]) < Remaining(call[c])
    BY <2>1, <2>2, EndsIdle DEF Remaining
  <2>3. ASSUME NEW d \in Calls, Begin(d) \/ Advance(d) \/ Fail(d) PROVE d = c
    BY <2>3
       DEF Begin, Advance, Fail, OpenCreate, StartCreate, OpenReview, OpenCancel, Open,
           Reserve, RefuseCreate, CommitCreate, SubmitRow, UniqueViolation, Claim,
           ClaimAnyStatus, AlreadyDecided, LockBalance, CommitDecision, RollBack,
           EndCall, TypeOK
  <2>4. CASE Reserve(c) \/ (LockBalance(c) /\ ~EndCall(c))
    <3>1. PICK b : call' = [call EXCEPT ![c].stage = "ready", ![c].seen = b]
      BY <2>4 DEF Reserve, LockBalance
    <3>2. call[c].stage \in {"open", "claimed"} /\ call'[c].stage = "ready"
      BY <2>4, <3>1 DEF Reserve, LockBalance, At, TypeOK, CallRecord
    <3> QED BY <3>2 DEF Remaining
  <2>5. CASE Claim(c)
    <3>1. call[c].stage = "open" /\ call'[c].stage = "claimed"
      BY <2>5, Claims DEF Claim, ClaimAnyStatus, At
    <3> QED BY <3>1 DEF Remaining
  <2>6. ~Begin(c)
    BY DEF Begin, OpenCreate, StartCreate, OpenReview, OpenCancel, Open
  <2>7. ~UNCHANGED vars
    BY DEF vars
  <2> QED
    BY <2>2, <2>3, <2>4, <2>5, <2>6, <2>7
       DEF Next, Advance, CommitCreate, SubmitRow, CommitDecision, RefuseCreate,
           UniqueViolation, AlreadyDecided, Fail, RollBack
<1> QED BY <1>1, TypeCorrect, PTL DEF Spec, CallsComeCloser

-----------------------------------------------------------------------------
(* The refinement                                                          *)

(* The days committed in the ledger are the two counters together.         *)
LEMMA CommittedDays ==
    ASSUME TypeOK, Discipline, NEW a \in Accounts, CountersOf(a)
    PROVE  Ledger!Committed(a) = IF balance[a] = NoBalance THEN 0
                                 ELSE balance[a].pending + balance[a].used
<1> DEFINE L == Charged(status, form, a, {"pending", "approved"})
           P == Charged(status, form, a, {"pending"})
           A == Charged(status, form, a, {"approved"})
           w == [r \in L |-> DaysOf(form[r])]
           v == [r \in P |-> DaysOf(form[r])]
           u == [r \in A |-> DaysOf(form[r])]
<1>1. Ledger!Committed(a) = SumFunctionOnSet(w, L)
  <2>1. Ledger!LiveRequests(a) = L
    BY DEF Ledger!LiveRequests, Ledger!AccountOf, Charged, AccountOf
  <2>2. [r \in Ledger!LiveRequests(a) |-> Ledger!DaysOf(form[r])] = w
    BY <2>1 DEF Ledger!DaysOf, DaysOf
  <2>3. Ledger!SumFunctionOnSet(w, L) = SumFunctionOnSet(w, L)
    BY DEF Ledger!SumFunctionOnSet, Ledger!FoldFunctionOnSet, Ledger!MapThenFoldSet,
           SumFunctionOnSet, FoldFunctionOnSet, MapThenFoldSet
  <2> HIDE DEF w, L
  <2> QED BY <2>1, <2>2, <2>3 DEF Ledger!Committed
<1>2. /\ L = P \cup A /\ P \cap A = {}
      /\ L \subseteq Requests /\ P \subseteq Requests /\ A \subseteq Requests
  BY DEF Charged
<1>3. IsFiniteSet(P) /\ IsFiniteSet(A)
  BY <1>2, LeaveConstants, FS_Subset
<1>4. \A r \in L : DaysOf(form[r]) \in Int
  BY FormFacts DEF Discipline, OrderedRows, Charged
<1>5. /\ \A r \in L : w[r] \in Int
      /\ \A r \in P : w[r] = v[r]
      /\ \A r \in A : w[r] = u[r]
  BY <1>2, <1>4
<1>6. Total(form, P) = SumFunctionOnSet(v, P) /\ Total(form, A) = SumFunctionOnSet(u, A)
  BY DEF Total
<1>7. L = {} => SumFunctionOnSet(w, L) = 0
  BY SumOfNone
<1> HIDE DEF w, v, u, P, A, L
<1>8. SumFunctionOnSet(w, L) = SumFunctionOnSet(w, P) + SumFunctionOnSet(w, A)
  BY <1>2, <1>3, <1>5, SumOfDisjoint
<1>9. SumFunctionOnSet(w, P) = Total(form, P) /\ SumFunctionOnSet(w, A) = Total(form, A)
  BY <1>3, <1>5, <1>6, SumOfSameValues
<1> QED BY <1>1, <1>7, <1>8, <1>9 DEF CountersOf, P, A, L

(* An insertion is a submission within what is granted.                    *)
LEMMA CreateIsSubmit ==
    ASSUME TypeOK, Discipline, CountersMatchRequests, NEW c \in Calls, CommitCreate(c)
    PROVE  Ledger!Submit(call[c].request, call[c].form)
<1> DEFINE f == call[c].form
           r == call[c].request
           seen == call[c].seen
           a == AccountOf(f)
           grant == IF Granted[a] = NoAllowance THEN DefaultAllowance[f.type] ELSE Granted[a]
<1>1. /\ call[c].stage = "ready" /\ call[c].op = "create"
      /\ seen = NoBalance => balance[a] = NoBalance
      /\ status' = [status EXCEPT ![r] = "pending"]
      /\ form' = [form EXCEPT ![r] = f]
      /\ balance' = [balance EXCEPT ![a] =
            IF seen = NoBalance THEN FirstBalance(f)
            ELSE [@ EXCEPT !.pending = seen.pending + DaysOf(f)]]
  BY DEF CommitCreate, At, DuplicateBalance, SubmitRow
<1>2. /\ Ordered(f) /\ a \in Accounts /\ r \in Requests /\ status[r] = "none"
      /\ f.type \in ActiveTypes
      /\ seen \in Balance \cup {NoBalance} /\ Covers(seen, f)
      /\ seen # NoBalance => balance[a] = seen
  BY <1>1, FormFacts DEF Discipline, Sound, Creating, TypeOK, CallRecord
<1>3. DaysOf(f) \in Nat /\ f.type \in LeaveTypes
  BY <1>2, FormFacts DEF Ordered, Form
<1>4. Granted[a] = IF balance[a] = NoBalance THEN NoAllowance
                   ELSE balance[a].entitlement + balance[a].adjustment
  BY <1>2 DEF Granted
<1>5. Ledger!Committed(a) = IF balance[a] = NoBalance THEN 0
                            ELSE balance[a].pending + balance[a].used
  BY <1>2, CountersByAccount, CommittedDays
<1> HIDE DEF f, r, a, seen
<1>6. CASE seen = NoBalance
  <2>1. grant = DefaultAllowance[f.type] /\ grant \in Nat /\ DaysOf(f) <= grant
    BY <1>1, <1>2, <1>3, <1>4, <1>6, LeaveConstants DEF Covers
  <2>2. FirstBalance(f) \in Balance
    BY <1>2, <1>6, ChargedBalance
  <2>3. balance'[a] = FirstBalance(f) /\ balance'[a] # NoBalance
    BY <1>1, <1>2, <1>6, <2>2, LeaveNulls DEF TypeOK
  <2>4. balance'[a].entitlement + balance'[a].adjustment = grant
    BY <2>1, <2>3 DEF FirstBalance
  <2>5. Granted' = [Granted EXCEPT ![a] = grant]
    BY <1>1, <1>2, <2>3, <2>4 DEF Granted, TypeOK
  <2>6. grant # NoAllowance /\ Ledger!Committed(a) + DaysOf(f) <= grant
    BY <1>1, <1>3, <1>5, <1>6, <2>1, LeaveConstants
  <2> HIDE DEF grant
  <2> QED BY <1>1, <1>2, <2>5, <2>6
          DEF Ledger!Submit, Ledger!AccountOf, Ledger!DaysOf, Ordered, AccountOf, DaysOf,
              f, r, a, grant
<1>7. CASE seen # NoBalance
  <2>1. balance[a] = seen /\ seen \in Balance /\ DaysOf(f) <= Available(seen)
    BY <1>2, <1>7 DEF Covers
  <2>2. balance[a] # NoBalance
    BY <1>7, <2>1
  <2>3. Granted[a] = seen.entitlement + seen.adjustment /\ Granted[a] \in Int
    BY <1>4, <2>1, <2>2 DEF Balance
  <2>4. grant = Granted[a] /\ grant # NoAllowance
    BY <2>3, LeaveConstants
  <2>5. Ledger!Committed(a) + DaysOf(f) <= grant
    BY <1>3, <1>5, <2>1, <2>2, <2>3, <2>4 DEF Available, Balance
  <2>6. balance'[a] = [seen EXCEPT !.pending = seen.pending + DaysOf(f)]
    BY <1>1, <1>2, <1>7, <2>1 DEF TypeOK
  <2>7. /\ balance'[a] \in Balance
        /\ balance'[a].entitlement = seen.entitlement
        /\ balance'[a].adjustment = seen.adjustment
    BY <1>3, <2>1, <2>6 DEF Balance
  <2>8. balance'[a] # NoBalance
    BY <2>7, LeaveNulls
  <2> HIDE DEF grant
  <2>9. Granted' = [Granted EXCEPT ![a] = grant]
    BY <1>1, <1>2, <2>3, <2>4, <2>7, <2>8 DEF Granted, TypeOK
  <2> QED BY <1>1, <1>2, <2>4, <2>5, <2>9
          DEF Ledger!Submit, Ledger!AccountOf, Ledger!DaysOf, Ordered, AccountOf, DaysOf,
              f, r, a, grant
<1> QED BY <1>6, <1>7

(* A decision leaves what is granted.                                      *)
LEMMA DecisionIsDecide ==
    ASSUME TypeOK, Discipline, NEW c \in Calls, CommitDecision(c)
    PROVE  Ledger!Decide(call[c].request, call[c].op)
<1> DEFINE f == call[c].form
           r == call[c].request
           seen == call[c].seen
           op == call[c].op
           a == AccountOf(f)
<1>1. /\ call[c].stage = "ready" /\ op \in Decisions
      /\ status' = [status EXCEPT ![r] = op]
      /\ balance' = IF seen = NoBalance THEN balance
                    ELSE [balance EXCEPT ![a] = Settled(@, seen, op, DaysOf(f))]
      /\ form' = form
  BY DEF CommitDecision, At
<1>2. /\ Ordered(f) /\ a \in Accounts /\ status[r] = "pending"
      /\ seen \in Balance \cup {NoBalance}
      /\ seen # NoBalance => balance[a] = seen
      /\ op # "cancelled" => BalanceBacks(seen, f)
  BY <1>1, FormFacts DEF Discipline, Sound, Deciding, Decisions, TypeOK, CallRecord
<1> HIDE DEF f, r, seen, op, a
<1>3. Granted' = Granted
  <2>1. CASE seen = NoBalance
    BY <1>1, <2>1 DEF Granted
  <2>2. CASE seen # NoBalance
    <3> DEFINE n == Settled(balance[a], seen, op, DaysOf(f))
    <3>1. n \in Balance
      BY <1>1, <1>2, <2>2, SettledBalance
    <3>2. n.entitlement = balance[a].entitlement /\ n.adjustment = balance[a].adjustment
      BY <1>2, <2>2 DEF Settled, Balance
    <3>3. balance' = [balance EXCEPT ![a] = n] /\ balance[a] # NoBalance
      BY <1>1, <1>2, <2>2
    <3> HIDE DEF n
    <3> QED BY <1>2, <3>1, <3>2, <3>3, LeaveNulls DEF Granted, TypeOK
  <2> QED BY <2>1, <2>2
<1> QED BY <1>1, <1>2, <1>3 DEF Ledger!Decide, r, op

(* A change of a balance that is not a commit does not happen.             *)
LEMMA OtherStepsStutter ==
    ASSUME UNCHANGED <<status, form, balance>>
    PROVE  UNCHANGED Ledger!ledgerVars
BY DEF Ledger!ledgerVars, Granted

(* "Requests are submitted within what is granted, and decided once": the  *)
(* locks, re-reads and counters of features/leave/actions.ts implement the *)
(* ledger that computes what is taken from the requests themselves.        *)
THEOREM LeaveImplementsLedger == Spec => ImplementsLedger
<1>1. Init => Ledger!Init
  <2> SUFFICES ASSUME Init PROVE Ledger!Init
    OBVIOUS
  <2>1. ASSUME NEW a \in Accounts
        PROVE  Granted[a] \in {NoAllowance} \cup {g + d : g \in Grants, d \in Adjustments}
    BY DEF Init, Granted, OpeningBalance
  <2>2. Ledger!Accounts = Accounts
    BY DEF Ledger!Accounts, Accounts
  <2>3. Granted = [a \in Accounts |-> Granted[a]]
    BY DEF Granted
  <2>4. Granted \in [Accounts -> {NoAllowance} \cup {g + d : g \in Grants, d \in Adjustments}]
    BY <2>1, <2>3
  <2> QED BY <2>2, <2>4 DEF Init, Ledger!Init
<1>2. TypeOK /\ Discipline /\ CountersMatchRequests /\ [Next]_vars
        => [Ledger!Next]_(Ledger!ledgerVars)
  <2> SUFFICES ASSUME TypeOK, Discipline, CountersMatchRequests, [Next]_vars
               PROVE  [Ledger!Next]_(Ledger!ledgerVars)
    OBVIOUS
  <2>1. ASSUME NEW c \in Calls, CommitCreate(c) PROVE Ledger!Next
    <3>1. Ledger!Submit(call[c].request, call[c].form)
      BY <2>1, CreateIsSubmit
    <3>2. call[c].request \in Requests /\ call[c].form \in Ledger!Form
      BY <2>1 DEF CommitCreate, At, Discipline, Sound, Ordered, Form, Ledger!Form,
                  TypeOK, CallRecord
    <3> QED BY <3>1, <3>2 DEF Ledger!Next
  <2>2. ASSUME NEW c \in Calls, CommitDecision(c) PROVE Ledger!Next
    <3>1. Ledger!Decide(call[c].request, call[c].op)
      BY <2>2, DecisionIsDecide
    <3>2. call[c].request \in Requests /\ call[c].op \in Decisions
      BY <2>2 DEF CommitDecision, At, TypeOK, CallRecord
    <3> QED BY <3>1, <3>2 DEF Ledger!Next, Decisions
  <2>3. CASE UNCHANGED <<status, form, balance>>
    BY <2>3, OtherStepsStutter
  <2> QED
    BY <2>1, <2>2, <2>3
       DEF Next, Begin, Advance, OpenCreate, StartCreate, OpenReview, OpenCancel, Open,
           Reserve, Claim, ClaimAnyStatus, LockBalance, RefuseCreate, UniqueViolation,
           AlreadyDecided, Fail, RollBack, vars
<1> QED BY <1>1, <1>2, TypeCorrect, CountersAgree, PTL DEF Spec, ImplementsLedger, Ledger!Spec

-----------------------------------------------------------------------------
(* What the pages show                                                     *)

(* There are finitely many accounts.                                       *)
LEMMA AccountsAreFinite == IsFiniteSet(Accounts)
<1> DEFINE pairs == Employees \X (LeaveTypes \X Years)
           flat == [x \in pairs |-> <<x[1], x[2][1], x[2][2]>>]
<1>1. IsFiniteSet(pairs)
  BY ScreenConstants, FS_Product
<1>2. flat \in Surjection(pairs, Accounts)
  <2>1. flat \in [pairs -> Accounts]
    BY DEF Accounts
  <2>2. ASSUME NEW a \in Accounts PROVE \E x \in pairs : flat[x] = a
    <3>1. PICK e \in Employees, t \in LeaveTypes, y \in Years : a = <<e, t, y>>
      BY DEF Accounts
    <3>2. <<e, <<t, y>>>> \in pairs
      OBVIOUS
    <3>3. flat[<<e, <<t, y>>>>] = <<e, t, y>>
      BY <3>2
    <3> QED BY <3>1, <3>2, <3>3
  <2> HIDE DEF flat, pairs
  <2> QED BY <2>1, <2>2 DEF Surjection
<1> HIDE DEF flat, pairs
<1> QED BY <1>1, <1>2, FS_Surjection

(* A request that is there has a form with ordered days of an employee.    *)
LEMMA PresentForm ==
    ASSUME TypeOK, Discipline, NEW r \in Present
    PROVE  /\ r \in Requests /\ status[r] \in {"pending"} \cup Decisions
           /\ form[r] \in Form /\ Ordered(form[r]) /\ AccountOf(form[r]) \in Accounts
           /\ DaysOf(form[r]) \in Nat
<1>1. r \in Requests /\ status[r] \in {"pending"} \cup Decisions
  BY DEF Present, TypeOK, Statuses
<1>2. Ordered(form[r])
  BY <1>1 DEF Present, Discipline, OrderedRows
<1> QED BY <1>1, <1>2, FormFacts DEF Ordered

(* The balance that a live request was charged to holds its days.          *)
LEMMA LiveIsBacked ==
    ASSUME TypeOK, Discipline, CountersMatchRequests, NEW r \in Requests, Live(r)
    PROVE  /\ balance[AccountOf(form[r])] # NoBalance
           /\ status[r] = "pending" => BalanceBacks(balance[AccountOf(form[r])], form[r])
<1> DEFINE a == AccountOf(form[r])
           S == Charged(status, form, a, {"pending"})
<1>1. r \in Present
  BY DEF Live, Present
<1>2. a \in Accounts /\ CountersOf(a)
  BY <1>1, PresentForm, CountersByAccount
<1>3. balance[a] # NoBalance
  <2>1. r \in Charged(status, form, a, {"pending", "approved"})
    BY DEF Charged, Live
  <2> QED BY <1>2, <2>1 DEF CountersOf
<1>4. ASSUME status[r] = "pending" PROVE balance[a].pending - DaysOf(form[r]) >= 0
  <2>1. S \subseteq Requests /\ r \in S
    BY <1>4 DEF Charged
  <2>2. \A q \in S : Ordered(form[q])
    BY DEF Charged, Discipline, OrderedRows
  <2>3. S \ {r} \subseteq Requests /\ \A q \in S \ {r} : Ordered(form[q])
    BY <2>1, <2>2
  <2>4. balance[a].pending = Total(form, S)
    BY <1>2, <1>3 DEF CountersOf
  <2> HIDE DEF S
  <2>5. Total(form, S) = DaysOf(form[r]) + Total(form, S \ {r}) /\ Total(form, S \ {r}) \in Nat
    BY <2>1, <2>2, <2>3, TotalFacts, TotalIsNatural
  <2>6. DaysOf(form[r]) \in Nat
    BY <1>1, PresentForm
  <2> QED BY <2>4, <2>5, <2>6
<1> QED BY <1>3, <1>4 DEF BalanceBacks

(* Requests open from the lists, and the buttons that are shown lead to    *)
(* calls that the server lets in and that find their balance.              *)
LEMMA DecisionsAccepted ==
    ASSUME TypeOK, Discipline, CountersMatchRequests
    PROVE  OfferedDecisionsAreAccepted
<1> SUFFICES ASSUME NEW u \in Users, NEW r \in Present
             PROVE  LET shown == LeaveRequestActions(u, r)
                        listed == UsersRequests(u) \cup ManagementPage(u, Statuses, LeaveTypes)
                    IN  /\ DetailOpens(u, r) <=> r \in listed
                        /\ shown.canReview => r \in ManagementPage(u, {"pending"}, LeaveTypes)
                        /\ shown.canReview \/ shown.canCancel
                              => BalanceBacks(balance[AccountOf(form[r])], form[r])
                        /\ shown.canCancel <=> MayCancel(r, u)
                        /\ shown.canReview => MayReview(r, u)
  BY DEF OfferedDecisionsAreAccepted
<1>1. /\ r \in Requests /\ status[r] \in {"pending"} \cup Decisions
      /\ form[r] \in Form
  BY PresentForm
<1>2. form[r].employee \in Employees /\ form[r].type \in LeaveTypes
  BY <1>1 DEF Form
<1>3. r \in UsersRequests(u) <=> u = UserOf[form[r].employee]
  <2>1. \A e \in Employees :
           DOMAIN listMyLeaveRequests(e) = {q \in Present : form[q].employee = e}
    BY DEF listMyLeaveRequests
  <2> QED BY <1>2, <2>1 DEF UsersRequests
<1>4. ASSUME NEW S, status[r] \in S
      PROVE  r \in ManagementPage(u, S, LeaveTypes) <=> u \in Reviewers
  <2>1. DOMAIN listOrganizationLeaveRequests(S, LeaveTypes)
            = {q \in Present : status[q] \in S /\ form[q].type \in LeaveTypes}
    BY DEF listOrganizationLeaveRequests
  <2> QED BY <1>2, <1>4, <2>1 DEF ManagementPage, CanReview
<1>5. DetailOpens(u, r) <=> u = UserOf[form[r].employee] \/ u \in Reviewers
  BY DEF DetailOpens, IsOwner, CanReview
<1>6. /\ LeaveRequestActions(u, r).canCancel
            <=> status[r] = "pending" /\ u = UserOf[form[r].employee]
      /\ LeaveRequestActions(u, r).canReview
            <=> status[r] = "pending" /\ u \in Reviewers /\ u # UserOf[form[r].employee]
  BY DEF LeaveRequestActions, IsOwner, CanReview
<1>7. r \in ManagementPage(u, Statuses, LeaveTypes) <=> u \in Reviewers
  BY <1>1, <1>4 DEF Statuses
<1>8. status[r] = "pending" =>
          (r \in ManagementPage(u, {"pending"}, LeaveTypes) <=> u \in Reviewers)
  BY <1>4
<1>9. status[r] = "pending" => BalanceBacks(balance[AccountOf(form[r])], form[r])
  BY <1>1, LiveIsBacked DEF Live
<1> QED BY <1>1, <1>3, <1>5, <1>6, <1>7, <1>8, <1>9 DEF MayCancel, MayReview

(* What the cards show is what a submission is measured by.                *)
LEMMA CardsTell ==
    ASSUME TypeOK, Discipline, CountersMatchRequests, NeverOverdrawn
    PROVE  CardsTellWhatIsAccepted
<1> SUFFICES ASSUME NEW e \in Employees, NEW year \in Years
             PROVE  LET page == EmployeePage(e, year)
                        live == {r \in RiwayatTab(page) : Live(r)}
                        all == SaldoTab(page)
                        current == AjukanTab(page).cards
                    IN  /\ BalancesPage(e) = all
                        /\ page.availableTotal >= 0
                        /\ \A r \in live : AccountOf(form[r]) \in DOMAIN all
                        /\ \A f \in LeaveCreateDialog(e, year) :
                              /\ NoOverlapFor(f) <=> \A r \in live : ~Overlap(form[r], f)
                              /\ AccountOf(f) \in DOMAIN current =>
                                    (Covers(balance[AccountOf(f)], f)
                                        <=> DaysOf(f) <= current[AccountOf(f)].available)
  BY DEF CardsTellWhatIsAccepted
<1> DEFINE cards == listLeaveBalances(e)
           here == {a \in Accounts : a[1] = e /\ balance[a] # NoBalance}
           ofThisYear == {a \in here : a[3] = year}
           available == [a \in ofThisYear |-> cards[a].available]
           live == {r \in Present : form[r].employee = e /\ Live(r)}
<1>1. /\ DOMAIN cards = here
      /\ \A a \in here : cards[a].available = Available(balance[a])
  <2>1. \A a \in Accounts : getLeaveBalance(a[1], a[2], a[3]) = balance[a]
    BY DEF getLeaveBalance, Accounts
  <2>2. {a \in Accounts : a[1] = e /\ getLeaveBalance(e, a[2], a[3]) # NoBalance} = here
    BY <2>1
  <2> QED BY <2>2 DEF listLeaveBalances, Available
<1>2. /\ SaldoTab(EmployeePage(e, year)) = cards
      /\ RiwayatTab(EmployeePage(e, year)) = {r \in Present : form[r].employee = e}
      /\ AjukanTab(EmployeePage(e, year)).types = ActiveTypes
  BY DEF SaldoTab, RiwayatTab, AjukanTab, EmployeePage, listMyLeaveRequests,
         listActiveLeaveTypes
<1>3. /\ EmployeePage(e, year).availableTotal = SumFunctionOnSet(available, ofThisYear)
      /\ DOMAIN AjukanTab(EmployeePage(e, year)).cards = ofThisYear
      /\ \A a \in ofThisYear : AjukanTab(EmployeePage(e, year)).cards[a] = cards[a]
  <2>1. {a \in DOMAIN cards : a[3] = year} = ofThisYear
    BY <1>1
  <2> HIDE DEF ofThisYear, here
  <2> QED BY <2>1 DEF AjukanTab, EmployeePage
<1>4. SumFunctionOnSet(available, ofThisYear) \in Nat
  <2>1. \A a \in ofThisYear : available[a] \in Nat
    <3> SUFFICES ASSUME NEW a \in ofThisYear PROVE Available(balance[a]) \in Nat
      BY <1>1
    <3>1. balance[a] \in Balance /\ Available(balance[a]) >= 0
      BY DEF TypeOK, NeverOverdrawn
    <3> QED BY <3>1 DEF Available, Balance
  <2>2. IsFiniteSet(ofThisYear)
    <3>1. IsFiniteSet(Accounts)
      BY AccountsAreFinite
    <3> QED BY <3>1, FS_Subset
  <2> HIDE DEF ofThisYear, available
  <2> QED BY <2>1, <2>2, SumIsNatural
<1>5. \A r \in live : r \in Requests /\ AccountOf(form[r]) \in here
  <2> SUFFICES ASSUME NEW r \in live PROVE r \in Requests /\ AccountOf(form[r]) \in here
    OBVIOUS
  <2>1. r \in Requests /\ AccountOf(form[r]) \in Accounts
    BY PresentForm
  <2>2. balance[AccountOf(form[r])] # NoBalance
    BY <2>1, LiveIsBacked
  <2> QED BY <2>1, <2>2 DEF AccountOf
<1>6. ASSUME NEW f \in LeaveCreateDialog(e, year)
      PROVE  NoOverlapFor(f) <=> \A r \in live : ~Overlap(form[r], f)
  <2>1. f.employee = e
    BY <1>6 DEF LeaveCreateDialog
  <2>2. \A q \in Requests : Live(q) => q \in Present
    BY DEF Live, Present
  <2>3. \A q \in Requests : Overlap(form[q], f) => form[q].employee = e
    BY <2>1 DEF Overlap
  <2>4. \A r \in live : r \in Requests /\ Live(r)
    BY <1>5
  <2> QED BY <2>2, <2>3, <2>4 DEF NoOverlapFor
<1>7. ASSUME NEW f \in LeaveCreateDialog(e, year), AccountOf(f) \in ofThisYear
      PROVE  Covers(balance[AccountOf(f)], f) <=> DaysOf(f) <= cards[AccountOf(f)].available
  BY <1>1, <1>7 DEF Covers
<1>8. {r \in RiwayatTab(EmployeePage(e, year)) : Live(r)} = live
  BY <1>2
<1>9. BalancesPage(e) = cards
  BY DEF BalancesPage
<1> HIDE DEF cards, live, ofThisYear, available
<1> QED BY <1>1, <1>2, <1>3, <1>4, <1>5, <1>6, <1>7, <1>8, <1>9

\* The requests with a status.
With(s) == {r \in Present : status[r] = s}

LEMMA WithIsFinite == \A s : IsFiniteSet(With(s))
BY LeaveConstants, FS_Subset DEF With, Present

(* Over the calendar, who is away on each day adds up to the days asked    *)
(* for.                                                                    *)
LEMMA DaysOverCalendar ==
    ASSUME TypeOK, Discipline, NEW s
    PROVE  SumFunctionOnSet([d \in Days |-> countLeaveRequestsOnDate(d, s)], Days)
             = Total(form, With(s))
<1> DEFINE R == With(s)
           away == [r \in R |-> [d \in Days |->
                      IF form[r].first <= d /\ d <= form[r].last THEN 1 ELSE 0]]
           list == [d \in Days |-> [r \in R |->
                      IF form[r].first <= d /\ d <= form[r].last THEN 1 ELSE 0]]
           u == [r \in R |-> DaysOf(form[r])]
           v == [d \in Days |-> countLeaveRequestsOnDate(d, s)]
<1>1. /\ \A r \in R : \A d \in Days : away[r][d] \in Int /\ list[d][r] = away[r][d]
      /\ IsFiniteSet(R) /\ IsFiniteSet(Days)
  BY WithIsFinite, ScreenConstants
<1>2. ASSUME NEW r \in R PROVE u[r] = SumFunctionOnSet(away[r], Days)
  <2> DEFINE T == form[r].first .. form[r].last
  <2>1. /\ form[r].first \in Days /\ form[r].last \in Days
        /\ form[r].first <= form[r].last
    BY PresentForm DEF With, Ordered, Form
  <2>2. form[r].first \in Int /\ form[r].last \in Int /\ T \subseteq Days
    BY <2>1, LeaveConstants, ScreenConstants
  <2>3. Cardinality(T) = DaysOf(form[r])
    BY <2>1, <2>2, FS_Interval DEF DaysOf
  <2>4. /\ \A d \in T : away[r][d] = 1
        /\ \A d \in Days \ T : away[r][d] = 0
    BY <2>2, LeaveConstants
  <2> HIDE DEF T, away, R
  <2>5. SumFunctionOnSet(away[r], Days) = Cardinality(T)
    BY <1>1, <2>2, <2>4, SumOfFlags
  <2> QED BY <2>3, <2>5 DEF R
<1>3. ASSUME NEW d \in Days PROVE v[d] = SumFunctionOnSet(list[d], R)
  <2> DEFINE T == {r \in R : form[r].first <= d /\ d <= form[r].last}
  <2>1. v[d] = Cardinality(T)
    <3>1. {r \in Present : status[r] = s /\ form[r].first <= d /\ d <= form[r].last} = T
      BY DEF With
    <3> QED BY <3>1 DEF countLeaveRequestsOnDate
  <2>2. /\ T \subseteq R /\ \A r \in T : list[d][r] = 1
        /\ \A r \in R \ T : list[d][r] = 0
    OBVIOUS
  <2> HIDE DEF T, list, R
  <2>3. SumFunctionOnSet(list[d], R) = Cardinality(T)
    BY <1>1, <2>2, SumOfFlags
  <2> QED BY <2>1, <2>3
<1> HIDE DEF R, away, list, u, v
<1>4. IsTable(R, Days, away, list, u, v)
  BY <1>1, <1>2, <1>3 DEF IsTable
<1>5. SumFunctionOnSet(u, R) = SumFunctionOnSet(v, Days)
  BY <1>4, CountedTwice
<1> QED BY <1>5 DEF Total, R, u, v

(* Over the accounts, the days charged add up to the same.                 *)
LEMMA DaysOverAccounts ==
    ASSUME TypeOK, Discipline, CountersMatchRequests, NEW s \in {"pending", "approved"},
           NEW counter,
           \A a \in Accounts : balance[a] # NoBalance =>
               counter[a] = Total(form, Charged(status, form, a, {s}))
    PROVE  LET charged == {a \in Accounts : balance[a] # NoBalance}
           IN  SumFunctionOnSet(counter, charged) = Total(form, With(s))
<1> DEFINE charged == {a \in Accounts : balance[a] # NoBalance}
           R == With(s)
           share == [a \in charged |-> [r \in R |->
                       IF AccountOf(form[r]) = a THEN DaysOf(form[r]) ELSE 0]]
           charge == [r \in R |-> [a \in charged |->
                       IF AccountOf(form[r]) = a THEN DaysOf(form[r]) ELSE 0]]
           v == [r \in R |-> DaysOf(form[r])]
<1>1. \A r \in R : r \in Requests /\ AccountOf(form[r]) \in charged /\ DaysOf(form[r]) \in Int
  <2> SUFFICES ASSUME NEW r \in R
               PROVE  r \in Requests /\ AccountOf(form[r]) \in charged /\ DaysOf(form[r]) \in Int
    OBVIOUS
  <2>1. r \in Present /\ Live(r)
    BY DEF With, Live
  <2> QED BY <2>1, PresentForm, LiveIsBacked
<1>2. /\ \A a \in charged : \A r \in R : share[a][r] \in Int /\ charge[r][a] = share[a][r]
      /\ IsFiniteSet(R) /\ IsFiniteSet(charged)
  <2>1. IsFiniteSet(charged)
    BY AccountsAreFinite, FS_Subset
  <2> QED BY <1>1, <2>1, WithIsFinite
<1>3. ASSUME NEW a \in charged PROVE counter[a] = SumFunctionOnSet(share[a], R)
  <2> DEFINE T == Charged(status, form, a, {s})
             days == [r \in T |-> DaysOf(form[r])]
  <2>1. T \subseteq R
    BY DEF Charged, With, Present
  <2>2. /\ \A r \in T : share[a][r] = days[r] /\ share[a][r] \in Int
        /\ \A r \in R \ T : share[a][r] = 0
    BY <1>1, <2>1 DEF Charged, With
  <2>3. counter[a] = SumFunctionOnSet(days, T)
    BY DEF Total
  <2> HIDE DEF T, days, share, R
  <2>4. SumFunctionOnSet(share[a], R) = SumFunctionOnSet(share[a], T)
    BY <1>2, <2>1, <2>2, SumOfRelevant
  <2>5. SumFunctionOnSet(share[a], T) = SumFunctionOnSet(days, T)
    BY <1>2, <2>1, <2>2, SumOfSameValues, FS_Subset
  <2> QED BY <2>3, <2>4, <2>5
<1>4. ASSUME NEW r \in R
      PROVE  v[r] = SumFunctionOnSet(charge[r], charged)
  <2> DEFINE b == AccountOf(form[r])
  <2>1. /\ b \in charged /\ charge[r][b] = DaysOf(form[r]) /\ charge[r][b] \in Int
        /\ \A a \in charged \ {b} : charge[r][a] = 0
    BY <1>1
  <2>2. v[r] = DaysOf(form[r])
    OBVIOUS
  <2> HIDE DEF charge, b, charged, v
  <2>3. SumFunctionOnSet(charge[r], charged) = charge[r][b]
    BY <1>2, <2>1, SumOfOne
  <2> QED BY <2>1, <2>2, <2>3
<1> HIDE DEF charged, R, share, charge, v
<1>5. IsTable(charged, R, share, charge, counter, v)
  BY <1>2, <1>3, <1>4 DEF IsTable
<1>6. SumFunctionOnSet(counter, charged) = SumFunctionOnSet(v, R)
  BY <1>5, CountedTwice
<1> QED BY <1>6 DEF Total, R, v, charged

(* Each waiting request is counted once, on the dashboard of its owner.    *)
LEMMA PendingOverEmployees ==
    ASSUME TypeOK, Discipline, NEW y
    PROVE  pendingLeave = SumFunctionOnSet(
               [e \in Employees |-> EmployeeDashboard(e, y).pending], Employees)
<1> DEFINE R == With("pending")
           own == [e \in Employees |-> [r \in R |-> IF form[r].employee = e THEN 1 ELSE 0]]
           owner == [r \in R |-> [e \in Employees |-> IF form[r].employee = e THEN 1 ELSE 0]]
           u == [e \in Employees |-> EmployeeDashboard(e, y).pending]
           v == [r \in R |-> 1]
<1>1. /\ \A e \in Employees : \A r \in R : own[e][r] \in Int /\ owner[r][e] = own[e][r]
      /\ IsFiniteSet(R) /\ IsFiniteSet(Employees)
  BY WithIsFinite, ScreenConstants
<1>2. ASSUME NEW e \in Employees PROVE u[e] = SumFunctionOnSet(own[e], R)
  <2> DEFINE T == {r \in R : form[r].employee = e}
             mine == listMyLeaveRequests(e)
  <2>1. u[e] = Cardinality(T)
    <3>1. /\ DOMAIN mine = {r \in Present : form[r].employee = e}
          /\ \A r \in DOMAIN mine : mine[r].status = status[r]
      BY DEF listMyLeaveRequests, toLeaveRequestRow
    <3>2. {r \in DOMAIN mine : mine[r].status = "pending"} = T
      <4> HIDE DEF mine
      <4> QED BY <3>1 DEF With
    <3>3. u[e] = Cardinality({r \in DOMAIN mine : mine[r].status = "pending"})
      BY DEF EmployeeDashboard
    <3> HIDE DEF mine, T, u
    <3> QED BY <3>2, <3>3
  <2>2. /\ T \subseteq R /\ \A r \in T : own[e][r] = 1
        /\ \A r \in R \ T : own[e][r] = 0
    OBVIOUS
  <2> HIDE DEF T, own, R, u
  <2>3. SumFunctionOnSet(own[e], R) = Cardinality(T)
    BY <1>1, <2>2, SumOfFlags
  <2> QED BY <2>1, <2>3
<1>3. ASSUME NEW r \in R
      PROVE  v[r] = SumFunctionOnSet(owner[r], Employees)
  <2> DEFINE o == form[r].employee
  <2>1. o \in Employees
    BY PresentForm DEF With, Form
  <2>2. /\ owner[r][o] = 1 /\ owner[r][o] \in Int /\ v[r] = 1
        /\ \A e \in Employees \ {o} : owner[r][e] = 0
    BY <2>1
  <2> HIDE DEF owner, o, v
  <2>3. SumFunctionOnSet(owner[r], Employees) = owner[r][o]
    BY <1>1, <2>1, <2>2, SumOfOne
  <2> QED BY <2>2, <2>3
<1>4. \A r \in R : v[r] = 1
  OBVIOUS
<1>5. pendingLeave = Cardinality(R)
  BY DEF pendingLeave, With
<1> HIDE DEF R, own, owner, u, v
<1>6. SumFunctionOnSet(u, Employees) = SumFunctionOnSet(v, R)
  <2>1. IsTable(Employees, R, own, owner, u, v)
    BY <1>1, <1>2, <1>3 DEF IsTable
  <2> QED BY <2>1, CountedTwice
<1>7. SumFunctionOnSet(v, R) = Cardinality(R)
  BY <1>1, <1>4, SumOfOnes
<1> QED BY <1>5, <1>6, <1>7 DEF u

(* The figures of the dashboards are those of the balances and the lists.  *)
LEMMA DashboardsFollow ==
    ASSUME TypeOK, Discipline, CountersMatchRequests
    PROVE  DashboardsFollowBalances
<1> DEFINE charged == {a \in Accounts : balance[a] # NoBalance}
           used == [a \in charged |-> balance[a].used]
           pending == [a \in charged |-> balance[a].pending]
<1>1. \A a \in Accounts : CountersOf(a)
  BY CountersByAccount
<1>2. SumFunctionOnSet(used, charged) = Total(form, With("approved"))
  <2>1. \A a \in Accounts : balance[a] # NoBalance =>
            used[a] = Total(form, Charged(status, form, a, {"approved"}))
    BY <1>1 DEF CountersOf
  <2> HIDE DEF used
  <2> QED BY <2>1, DaysOverAccounts
<1>3. SumFunctionOnSet(pending, charged) = Total(form, With("pending"))
  <2>1. \A a \in Accounts : balance[a] # NoBalance =>
            pending[a] = Total(form, Charged(status, form, a, {"pending"}))
    BY <1>1 DEF CountersOf
  <2> HIDE DEF pending
  <2> QED BY <2>1, DaysOverAccounts
<1>4. ASSUME NEW u \in Reviewers
      PROVE  pendingLeave = Cardinality(ManagementPage(u, {"pending"}, LeaveTypes))
  <2>1. {q \in Present : status[q] \in {"pending"} /\ form[q].type \in LeaveTypes}
            = {q \in Present : status[q] = "pending"}
    BY PresentForm DEF Form
  <2>2. DOMAIN listOrganizationLeaveRequests({"pending"}, LeaveTypes)
            = {q \in Present : status[q] = "pending"}
    BY <2>1 DEF listOrganizationLeaveRequests
  <2> QED BY <2>2 DEF ManagementPage, CanReview, pendingLeave
<1>5. ASSUME NEW d \in Days
      PROVE  (\E e \in Employees : OnLeaveToday(e, d))
                <=> countLeaveRequestsOnDate(d, "approved") > 0
  <2> DEFINE T == {r \in Present : status[r] = "approved"
                                     /\ form[r].first <= d /\ d <= form[r].last}
  <2>1. IsFiniteSet(T)
    BY LeaveConstants, FS_Subset DEF Present
  <2>2. countLeaveRequestsOnDate(d, "approved") = Cardinality(T)
    BY DEF countLeaveRequestsOnDate
  <2>3. ASSUME NEW e \in Employees
        PROVE  OnLeaveToday(e, d) <=> \E r \in T : form[r].employee = e
    <3> DEFINE mine == listMyLeaveRequests(e)
    <3>1. /\ DOMAIN mine = {r \in Present : form[r].employee = e}
          /\ \A r \in DOMAIN mine :
                mine[r].status = status[r] /\ mine[r].first = form[r].first
                  /\ mine[r].last = form[r].last
      BY DEF listMyLeaveRequests, toLeaveRequestRow
    <3> HIDE DEF mine
    <3> QED BY <3>1 DEF OnLeaveToday, mine
  <2>4. \A r \in T : form[r].employee \in Employees
    BY PresentForm DEF Form
  <2>5. (\E e \in Employees : OnLeaveToday(e, d)) <=> T # {}
    BY <2>3, <2>4
  <2> HIDE DEF T
  <2> QED BY <2>1, <2>2, <2>5, FS_EmptySet, FS_CardinalityType
<1>6. \A s : SumFunctionOnSet([d \in Days |-> countLeaveRequestsOnDate(d, s)], Days)
                = Total(form, With(s))
  BY DaysOverCalendar
<1>7. \A y : pendingLeave = SumFunctionOnSet(
               [e \in Employees |-> EmployeeDashboard(e, y).pending], Employees)
  BY PendingOverEmployees
<1> QED BY <1>2, <1>3, <1>4, <1>5, <1>6, <1>7 DEF DashboardsFollowBalances

(* Pages, dialogs and dashboards of leave agree with the balances, and     *)
(* with what the actions accept, in every reachable state.                 *)
THEOREM ScreensStayTrue == Spec => []ScreensFollowRequests
<1>1. (TypeOK /\ Discipline /\ NeverOverdrawn) /\ (CountersMatchRequests /\ DecisionsHaveBalance)
        => ScreensFollowRequests
  BY DecisionsAccepted, CardsTell, DashboardsFollow DEF ScreensFollowRequests
<1> QED BY <1>1, TypeCorrect, CountersAgree, PTL
=============================================================================
