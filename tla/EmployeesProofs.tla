--------------------------- MODULE EmployeesProofs ---------------------------
(***************************************************************************)
(* Proofs about Employees, for every set of employees, accounts, numbers   *)
(* and concurrent calls.                                                   *)
(*                                                                         *)
(* Little is locked, so a call can rely on little of what it read.  The    *)
(* inductive invariant says on what: an id that was used is never used     *)
(* again, a file stored for a document that has no row yet is removed only *)
(* with the folder of its employee, and what a deletion took stays away    *)
(* while the deletion still has its file, folder or entry to settle.       *)
(*                                                                         *)
(* Then about EmployeeFields: the positions, places and values of fields.  *)
(***************************************************************************)
EXTENDS EmployeeScreens, EmployeeFields, SumTheorems, SequenceTheorems, FiniteSetTheorems, TLAPS

(* What the state of a call that is under way is made of.                  *)
CallState(s) ==
    /\ s.op = "create" => s.number \in Numbers /\ s.user \in Accounts \cup {None}
    /\ s.op = "update" => s.of \in Ids /\ s.old \in Employee /\ s.new \in Employee
    /\ s.op \in {"upload", "insert document"} =>
          s \in [op : {"upload", "insert document"}, of : Ids]
    /\ s.op \in {"deactivate", "status", "write status"} =>
          s \in [op : {"deactivate", "status", "write status"}, of : Ids, to : Statuses]
    /\ s.op = "employment" =>
          s.of \in Ids /\ s.manager \in Ids \cup {None} /\ s.to \in Statuses
    /\ s.op = "save" => s.of \in Ids /\ s.kind \in Deletable \ {"bank", "document"}
    /\ s.op = "bank" =>
          s.of \in Ids /\ s.id \in Calls \cup {"seed"} /\ s.primary \in BOOLEAN
    /\ s.op \in {"delete document", "delete file"} =>
          s \in [op : {"delete document", "delete file"}, of : Ids, id : Calls \cup {"seed"}]
    /\ s.op \in {"delete", "audit"} =>
          s \in [op : {"delete", "audit"}, of : SUBSET Ids, number : Numbers]
    /\ s.op \in {"purge", "apply", "purge rows", "storage"} => s.of \subseteq Ids
    /\ s.op = "purge rows" => s.confirmed \subseteq s.of

(* Ids that are, or once were, given to an employee or a row: the call     *)
(* that gave its own has ended, so no later one gives it again.            *)
Ended == {c \in Calls : call[c] = Done}
UsedIds == Seeded \cup Ended
UsedRowIds == {"seed"} \cup Ended

DocumentRow(r, of, id) == r.kind = "document" /\ r.of = of /\ r.id = id

(* What the call c in the state s relies on.                               *)
Knows(c, s) ==
    /\ s.op \in {"upload", "insert document"} => s.of \in UsedIds
    /\ s.op = "insert document" /\ Exists(s.of) => [of |-> s.of, id |-> c] \in files
    /\ s.op \in {"delete document", "delete file"} => s.id \in UsedRowIds
    /\ s.op = "delete file" => ~\E r \in rows : DocumentRow(r, s.of, s.id)
    /\ s.op \in {"delete", "purge", "apply", "purge rows", "audit", "storage"} =>
          s.of \subseteq UsedIds
    /\ s.op \in {"audit", "storage"} => s.of \cap DOMAIN employee = {}

CallsFit == DOMAIN call = Calls /\ \A c \in Calls : CallState(call[c])
IdsAreUsed ==
    /\ DOMAIN employee \subseteq UsedIds
    /\ \A r \in rows : r.id \in UsedRowIds
    /\ \A a \in audit : a.of \subseteq UsedIds
CallsKnow == \A c \in Calls : Knows(c, call[c])

IInv == NothingIsLeftBehind /\ CallsFit /\ IdsAreUsed /\ CallsKnow

-----------------------------------------------------------------------------
(* Calls                                                                   *)

(* A call that has not ended moves to s.  It may give its own id to an     *)
(* employee or a row when it ends, take files that no document still to be *)
(* inserted counts on, and must itself know what s relies on: then every   *)
(* other call still knows what it relies on.                               *)
LEMMA Moves ==
    ASSUME IInv, NEW c \in Calls, call[c] # Done, NEW s, CallState(s), Becomes(c, s),
           NothingIsLeftBehind',
           Knows(c, s)',
           DOMAIN employee' \subseteq DOMAIN employee \cup {x \in {c} : s = Done},
           \A r \in rows' : \/ r.id = c /\ s = Done
                            \/ \E q \in rows : q.id = r.id /\ q.of = r.of /\ q.kind = r.kind,
           \A f \in files \ files' : Exists(f.of)' => f.id \in UsedRowIds,
           \A a \in audit' \ audit : a.of \subseteq UsedIds
    PROVE  IInv'
<1> USE EmployeesAssumption
<1>1. /\ call'[c] = s /\ DOMAIN call' = Calls
      /\ \A d \in Calls : d # c => call'[d] = call[d]
  BY DEF IInv, CallsFit, Becomes
<1>2. /\ Ended \subseteq Ended'
      /\ s = Done => c \in Ended'
      /\ c \notin UsedIds /\ c \notin UsedRowIds
  BY <1>1 DEF Ended, UsedIds, UsedRowIds
<1>3. UsedIds \subseteq UsedIds' /\ UsedRowIds \subseteq UsedRowIds'
  BY <1>2 DEF UsedIds, UsedRowIds
<1>4. CallsFit'
  BY <1>1 DEF IInv, CallsFit
<1>5. IdsAreUsed'
  <2>1. DOMAIN employee' \subseteq UsedIds'
    BY <1>2, <1>3 DEF IInv, IdsAreUsed, UsedIds
  <2>2. \A r \in rows' : r.id \in UsedRowIds'
    BY <1>2, <1>3 DEF IInv, IdsAreUsed, UsedRowIds
  <2>3. \A a \in audit' : a.of \subseteq UsedIds'
    BY <1>3 DEF IInv, IdsAreUsed
  <2> QED BY <2>1, <2>2, <2>3 DEF IdsAreUsed
<1>6. ASSUME NEW d \in Calls, d # c, NEW k, k = call[d] PROVE Knows(d, k)'
  <2>1. Knows(d, k)
    BY <1>6 DEF IInv, CallsKnow
  <2>2. k.of \in UsedIds /\ Exists(k.of)' => Exists(k.of)
    <3>1. k.of \in DOMAIN employee' => k.of \in DOMAIN employee \cup {c}
      OBVIOUS
    <3> QED BY <1>2, <3>1 DEF Exists
  <2>3. k.op = "insert document" /\ Exists(k.of)' => [of |-> k.of, id |-> d] \in files'
    <3> SUFFICES ASSUME k.op = "insert document", Exists(k.of)'
                 PROVE  [of |-> k.of, id |-> d] \in files'
      OBVIOUS
    <3> DEFINE f == [of |-> k.of, id |-> d]
    <3>1. f \in files /\ f.of = k.of /\ f.id = d
      BY <2>1, <2>2 DEF Knows
    <3>2. d \notin UsedRowIds
      <4>1. Done.op = "done"
        BY DEF Done
      <4> QED BY <1>6, <4>1, EmployeesAssumption DEF UsedRowIds, Ended
    <3> HIDE DEF f
    <3> QED BY <3>1, <3>2 DEF f
  <2>4. k.op = "delete file" => ~\E r \in rows' : DocumentRow(r, k.of, k.id)
    BY <1>2, <2>1 DEF Knows, DocumentRow
  <2>5. k.of \subseteq UsedIds /\ k.of \cap DOMAIN employee = {}
          => k.of \cap DOMAIN employee' = {}
    BY <1>2
  <2> QED BY <1>3, <2>1, <2>2, <2>3, <2>4, <2>5 DEF Knows
<1>7. CallsKnow'
  <2>1. ASSUME NEW d \in Calls PROVE Knows(d, call[d])'
    <3>1. PICK k : k = call[d]
      OBVIOUS
    <3>2. PICK k2 : k2 = call'[d]
      OBVIOUS
    <3>3. Knows(d, k2)'
      BY <1>1, <1>6, <3>1, <3>2
    <3> QED BY <3>2, <3>3 DEF Knows
  <2> QED BY <2>1 DEF CallsKnow
<1> QED BY <1>4, <1>5, <1>7 DEF IInv

(* The call moves and no row or file changes.                              *)
LEMMA OnlyMoves ==
    ASSUME IInv, NEW c \in Calls, call[c] # Done, NEW s, CallState(s), Becomes(c, s),
           UNCHANGED <<employee, history, rows, files, audit>>, Knows(c, s)
    PROVE  IInv'
<1>1. NothingIsLeftBehind'
  BY DEF IInv, NothingIsLeftBehind, TypeOK, DocumentsHaveFiles, DeletionAuditIsTrue, Exists
<1>2. Knows(c, s)'
  <2>1. UsedIds \subseteq UsedIds' /\ UsedRowIds \subseteq UsedRowIds'
    BY DEF UsedIds, UsedRowIds, Ended, Becomes, IInv, CallsFit
  <2> QED BY <2>1 DEF Knows, Exists
<1> QED BY <1>1, <1>2, Moves

-----------------------------------------------------------------------------
(* The data                                                                *)

(* Rows go, or are replaced by rows of the same employee with a file.      *)
LEMMA RowsChange ==
    ASSUME NothingIsLeftBehind, UNCHANGED <<employee, history, files, audit>>,
           \A r \in rows' :
              \/ r \in rows
              \/ /\ r \in Row /\ Exists(r.of)
                 /\ r.kind = "document" => [of |-> r.of, id |-> r.id] \in files
    PROVE  NothingIsLeftBehind'
<1>1. TypeOK'
  BY DEF NothingIsLeftBehind, TypeOK, Exists
<1>2. DocumentsHaveFiles'
  BY DEF NothingIsLeftBehind, DocumentsHaveFiles
<1>3. DeletionAuditIsTrue'
  BY DEF NothingIsLeftBehind, DeletionAuditIsTrue
<1> QED BY <1>1, <1>2, <1>3 DEF NothingIsLeftBehind

(* Files come, or go that no document has.                                 *)
LEMMA FilesChange ==
    ASSUME NothingIsLeftBehind, UNCHANGED <<employee, history, rows, audit>>,
           files' \subseteq File,
           \A r \in rows : r.kind = "document" /\ [of |-> r.of, id |-> r.id] \in files
                              => [of |-> r.of, id |-> r.id] \in files'
    PROVE  NothingIsLeftBehind'
<1>1. TypeOK'
  BY DEF NothingIsLeftBehind, TypeOK, Exists
<1>2. DocumentsHaveFiles'
  BY DEF NothingIsLeftBehind, DocumentsHaveFiles
<1>3. DeletionAuditIsTrue'
  BY DEF NothingIsLeftBehind, DeletionAuditIsTrue
<1> QED BY <1>1, <1>2, <1>3 DEF NothingIsLeftBehind

(* Employees are created, with rows, or changed, and their history grows.  *)
LEMMA EmployeesChange ==
    ASSUME NothingIsLeftBehind, UNCHANGED <<files, audit>>,
           \A r \in rows' :
              r \in rows \/ (r \in Row /\ r.of \in DOMAIN employee' /\ r.kind # "document"),
           DOMAIN employee \subseteq DOMAIN employee', DOMAIN employee' \subseteq Ids,
           \A e \in DOMAIN employee' :
              employee'[e] \in Employee /\ employee'[e].manager \in DOMAIN employee \cup {None},
           history' \in [Ids -> Seq(Statuses)],
           \A e \in Ids : history'[e] # history[e] => Exists(e),
           \A a \in audit : \A e \in a.of : Exists(e)' => Exists(e)
    PROVE  NothingIsLeftBehind'
<1>1. TypeOK'
  BY DEF NothingIsLeftBehind, TypeOK, Exists
<1>2. DocumentsHaveFiles'
  BY DEF NothingIsLeftBehind, DocumentsHaveFiles
<1>3. DeletionAuditIsTrue'
  BY DEF NothingIsLeftBehind, DeletionAuditIsTrue, Exists
<1> QED BY <1>1, <1>2, <1>3 DEF NothingIsLeftBehind

(* Those of an existing employee are typed.                                *)
LEMMA Existing ==
    ASSUME IInv, NEW e \in DOMAIN employee
    PROVE  /\ e \in Ids /\ e \in UsedIds /\ Exists(e)
           /\ employee[e] \in Employee
           /\ employee[e].manager \in DOMAIN employee \cup {None}
           /\ history[e] \in Seq(Statuses)
BY DEF IInv, NothingIsLeftBehind, TypeOK, IdsAreUsed, Exists

(* An ended call changes nothing, and an idle one has not ended.           *)
LEMMA Alive ==
    ASSUME IInv, NEW c \in Calls
    PROVE  /\ call[c] = Idle => call[c] # Done
           /\ call[c].op # "done" => call[c] # Done
           /\ CallState(call[c]) /\ Knows(c, call[c])
           /\ CallState(Done) /\ Knows(c, Done) /\ Knows(c, Done)'
<1>1. Done.op = "done" /\ Idle.op = "idle"
  BY DEF Done, Idle
<1>2. CallState(Done) /\ Knows(c, Done) /\ Knows(c, Done)'
  BY <1>1 DEF CallState, Knows
<1> QED BY <1>1, <1>2 DEF IInv, CallsFit, CallsKnow

-----------------------------------------------------------------------------
(* A call begins                                                           *)

(* It reads, and writes nothing.                                           *)
LEMMA ReadStep ==
    ASSUME IInv, NEW c \in Calls, call[c] = Idle,
           \/ CreateEmployee(c) \/ UpdateEmployee(c) \/ CreateEmployeeAccount(c)
           \/ DeactivateEmployee(c) \/ UpdateEmployeeStatus(c) \/ UpdateEmployment(c)
    PROVE  IInv'
<1>1. call[c] # Done
  BY Alive
<1>2. CASE CreateEmployee(c)
  <2>1. PICK n \in Numbers, u \in Accounts \cup {None} :
           Becomes(c, [op |-> "create", number |-> n, user |-> u])
    BY <1>2 DEF CreateEmployee
  <2> DEFINE s == [op |-> "create", number |-> n, user |-> u]
  <2>2. CallState(s) /\ Knows(c, s)
    BY DEF CallState, Knows
  <2> HIDE DEF s
  <2> QED BY <1>1, <1>2, <2>1, <2>2, OnlyMoves DEF CreateEmployee, s
<1>3. CASE UpdateEmployee(c)
  <2>0. PICK e \in DOMAIN employee :
           \E new \in [number : Numbers, status : Statuses, manager : {employee[e].manager},
                       user : Accounts \cup {None, employee[e].user}] :
              Becomes(c, [op |-> "update", of |-> e, old |-> employee[e], new |-> new])
    BY <1>3 DEF UpdateEmployee
  <2>1. PICK new \in [number : Numbers, status : Statuses, manager : {employee[e].manager},
                      user : Accounts \cup {None, employee[e].user}] :
           Becomes(c, [op |-> "update", of |-> e, old |-> employee[e], new |-> new])
    BY <2>0
  <2> DEFINE s == [op |-> "update", of |-> e, old |-> employee[e], new |-> new]
  <2>2. e \in Ids /\ employee[e] \in Employee
    BY Existing
  <2>3. new \in Employee
    BY <2>1, <2>2 DEF Employee, Users
  <2>4. CallState(s) /\ Knows(c, s)
    BY <2>2, <2>3 DEF CallState, Knows
  <2> HIDE DEF s
  <2> QED BY <1>1, <1>3, <2>1, <2>4, OnlyMoves DEF UpdateEmployee, s
<1>4. CASE CreateEmployeeAccount(c)
  <2>1. PICK e \in DOMAIN employee : Becomes(c, [op |-> "account", of |-> e])
    BY <1>4 DEF CreateEmployeeAccount
  <2> DEFINE s == [op |-> "account", of |-> e]
  <2>2. CallState(s) /\ Knows(c, s)
    BY DEF CallState, Knows
  <2> HIDE DEF s
  <2> QED BY <1>1, <1>4, <2>1, <2>2, OnlyMoves DEF CreateEmployeeAccount, s
<1>5. CASE DeactivateEmployee(c) \/ UpdateEmployeeStatus(c)
  <2>1. PICK e \in DOMAIN employee, op \in {"deactivate", "status"}, to \in Statuses :
           Becomes(c, [op |-> op, of |-> e, to |-> to])
    BY <1>5 DEF DeactivateEmployee, UpdateEmployeeStatus, Statuses
  <2> DEFINE s == [op |-> op, of |-> e, to |-> to]
  <2>2. e \in Ids
    BY Existing
  <2>3. CallState(s) /\ Knows(c, s)
    BY <2>2 DEF CallState, Knows
  <2> HIDE DEF s
  <2> QED BY <1>1, <1>5, <2>1, <2>3, OnlyMoves DEF DeactivateEmployee, UpdateEmployeeStatus, s
<1>6. CASE UpdateEmployment(c)
  <2>1. PICK e \in DOMAIN employee, m \in DOMAIN employee \cup {None}, to \in Statuses :
           Becomes(c, [op |-> "employment", of |-> e, manager |-> m, to |-> to,
                       changed |-> m # employee[e].manager \/ to # employee[e].status])
    BY <1>6 DEF UpdateEmployment
  <2> DEFINE s == [op |-> "employment", of |-> e, manager |-> m, to |-> to,
                   changed |-> m # employee[e].manager \/ to # employee[e].status]
  <2>2. e \in Ids /\ m \in Ids \cup {None}
    BY Existing
  <2>3. CallState(s) /\ Knows(c, s)
    BY <2>2 DEF CallState, Knows
  <2> HIDE DEF s
  <2> QED BY <1>1, <1>6, <2>1, <2>3, OnlyMoves DEF UpdateEmployment, s
<1> QED BY <1>2, <1>3, <1>4, <1>5, <1>6

(* It reads the rows of an employee, a document or a deletion's targets.   *)
LEMMA ReadRowsStep ==
    ASSUME IInv, NEW c \in Calls, call[c] = Idle,
           \/ \E kind \in Deletable \ {"bank", "document"} : SaveRow(c, kind)
           \/ SaveBankAccount(c) \/ SetPrimaryBankAccount(c)
           \/ UploadDocument(c) \/ DeleteDocument(c)
           \/ PermanentlyDelete(c) \/ AnalyzePurge(c)
    PROVE  IInv'
<1>1. call[c] # Done
  BY Alive
<1>2. CASE \E kind \in Deletable \ {"bank", "document"} : SaveRow(c, kind)
  <2>1. PICK kind \in Deletable \ {"bank", "document"}, e \in DOMAIN employee :
           Becomes(c, [op |-> "save", of |-> e, kind |-> kind])
    BY <1>2 DEF SaveRow
  <2> DEFINE s == [op |-> "save", of |-> e, kind |-> kind]
  <2>2. e \in Ids
    BY Existing
  <2>3. CallState(s) /\ Knows(c, s)
    BY <2>2 DEF CallState, Knows
  <2> HIDE DEF s
  <2> QED BY <1>1, <1>2, <2>1, <2>3, OnlyMoves DEF SaveRow, s
<1>3. CASE SaveBankAccount(c) \/ SetPrimaryBankAccount(c)
  <2>1. PICK e \in DOMAIN employee, id \in {c} \cup {r.id : r \in rows}, p \in BOOLEAN :
           Becomes(c, [op |-> "bank", of |-> e, id |-> id, primary |-> p])
    BY <1>3 DEF SaveBankAccount, SetPrimaryBankAccount, RowsOf
  <2> DEFINE s == [op |-> "bank", of |-> e, id |-> id, primary |-> p]
  <2>2. e \in Ids /\ id \in Calls \cup {"seed"}
    BY Existing DEF IInv, NothingIsLeftBehind, TypeOK, Row
  <2>3. CallState(s) /\ Knows(c, s)
    BY <2>2 DEF CallState, Knows
  <2> HIDE DEF s
  <2> QED BY <1>1, <1>3, <2>1, <2>3, OnlyMoves DEF SaveBankAccount, SetPrimaryBankAccount, s
<1>4. CASE UploadDocument(c)
  <2>1. PICK e \in DOMAIN employee : Becomes(c, [op |-> "upload", of |-> e])
    BY <1>4 DEF UploadDocument
  <2> DEFINE s == [op |-> "upload", of |-> e]
  <2>2. e \in Ids /\ e \in UsedIds
    BY Existing
  <2>3. CallState(s) /\ Knows(c, s)
    BY <2>2 DEF CallState, Knows
  <2> HIDE DEF s
  <2> QED BY <1>1, <1>4, <2>1, <2>3, OnlyMoves DEF UploadDocument, s
<1>5. CASE DeleteDocument(c)
  <2>1. PICK r \in rows : Becomes(c, [op |-> "delete document", of |-> r.of, id |-> r.id])
    BY <1>5 DEF DeleteDocument
  <2> DEFINE s == [op |-> "delete document", of |-> r.of, id |-> r.id]
  <2>2. r.of \in Ids /\ r.id \in Calls \cup {"seed"} /\ r.id \in UsedRowIds
    BY DEF IInv, NothingIsLeftBehind, TypeOK, Row, IdsAreUsed
  <2>3. CallState(s) /\ Knows(c, s)
    BY <2>2 DEF CallState, Knows
  <2> HIDE DEF s
  <2> QED BY <1>1, <1>5, <2>1, <2>3, OnlyMoves DEF DeleteDocument, s
<1>6. CASE PermanentlyDelete(c)
  <2>1. PICK e \in DOMAIN employee :
           Becomes(c, [op |-> "delete", of |-> {e}, number |-> employee[e].number])
    BY <1>6 DEF PermanentlyDelete
  <2> DEFINE s == [op |-> "delete", of |-> {e}, number |-> employee[e].number]
  <2>2. e \in Ids /\ e \in UsedIds /\ employee[e].number \in Numbers
    BY Existing DEF Employee
  <2>3. CallState(s) /\ Knows(c, s)
    BY <2>2 DEF CallState, Knows
  <2> HIDE DEF s
  <2> QED BY <1>1, <1>6, <2>1, <2>3, OnlyMoves DEF PermanentlyDelete, s
<1>7. CASE AnalyzePurge(c)
  <2>1. PICK S \in SUBSET DOMAIN employee :
           Becomes(c, [op |-> "purge", of |-> S, token |-> PlanToken(S)])
    BY <1>7 DEF AnalyzePurge
  <2> DEFINE t == PlanToken(S)
             s == [op |-> "purge", of |-> S, token |-> t]
  <2>2. S \subseteq Ids /\ S \subseteq UsedIds
    BY Existing
  <2> HIDE DEF t
  <2>3. CallState(s) /\ Knows(c, s)
    BY <2>2 DEF CallState, Knows
  <2>4. Becomes(c, s)
    BY <2>1 DEF t
  <2> HIDE DEF s
  <2> QED BY <1>1, <1>7, <2>3, <2>4, OnlyMoves DEF AnalyzePurge
<1> QED BY <1>2, <1>3, <1>4, <1>5, <1>6, <1>7

(* It deletes a row by its id, or checks in.                               *)
LEMMA OneStatementStep ==
    ASSUME IInv, NEW c \in Calls, call[c] = Idle,
           (\E kind \in Deletable : DeleteRow(c, kind)) \/ RecordAttendance(c)
    PROVE  IInv'
<1>1. call[c] # Done /\ CallState(Done) /\ Knows(c, Done)'
  BY Alive
<1>2. /\ Becomes(c, Done) /\ UNCHANGED <<employee, history, files, audit>>
      /\ \A r \in rows' : \/ r \in rows
                          \/ /\ r.id = c /\ r \in Row /\ Exists(r.of)
                             /\ r.kind = "attendance"
  <2>1. CASE RecordAttendance(c)
    <3>1. PICK e \in DOMAIN employee : rows' = rows \cup {Insert(e, "attendance", c, FALSE)}
      BY <2>1 DEF RecordAttendance
    <3> DEFINE r == Insert(e, "attendance", c, FALSE)
    <3>2. r \in Row /\ r.id = c /\ r.of = e /\ r.kind = "attendance" /\ Exists(e)
      BY Existing DEF Insert, Row, Protected
    <3> HIDE DEF r
    <3> QED BY <2>1, <3>1, <3>2 DEF RecordAttendance, r
  <2>2. CASE \E kind \in Deletable : DeleteRow(c, kind)
    BY <2>2 DEF DeleteRow
  <2> QED BY <2>1, <2>2
<1>3. NothingIsLeftBehind'
  BY <1>2, RowsChange DEF IInv
<1> QED BY <1>1, <1>2, <1>3, Moves

LEMMA StartStep == ASSUME IInv, NEW c \in Calls, Start(c) PROVE IInv'
<1>1. /\ \A k \in {"address", "dependent", "education", "custom", "bank"} : k \in Deletable
      /\ \A k \in {"address", "insurance", "dependent", "education", "custom"} :
            k \in Deletable \ {"bank", "document"}
  BY DEF Deletable, Single
<1>2. CASE \/ CreateEmployee(c) \/ UpdateEmployee(c) \/ CreateEmployeeAccount(c)
           \/ DeactivateEmployee(c) \/ UpdateEmployeeStatus(c) \/ UpdateEmployment(c)
  BY <1>2, ReadStep DEF Start
<1>3. CASE \/ SaveAddress(c) \/ SaveInsurance(c) \/ SaveDependent(c) \/ SaveEducation(c)
           \/ SaveCustomData(c)
  <2>1. \E kind \in Deletable \ {"bank", "document"} : SaveRow(c, kind)
    BY <1>1, <1>3 DEF SaveAddress, SaveInsurance, SaveDependent, SaveEducation, SaveCustomData
  <2> QED BY <2>1, ReadRowsStep DEF Start
<1>4. CASE \/ SaveBankAccount(c) \/ SetPrimaryBankAccount(c) \/ UploadDocument(c)
           \/ DeleteDocument(c) \/ PermanentlyDelete(c) \/ AnalyzePurge(c)
  BY <1>4, ReadRowsStep DEF Start
<1>5. CASE \/ DeleteAddress(c) \/ DeleteDependent(c) \/ DeleteEducation(c)
           \/ DeleteCustomData(c) \/ DeleteBankAccount(c)
  <2>1. \E kind \in Deletable : DeleteRow(c, kind)
    BY <1>1, <1>5 DEF DeleteAddress, DeleteDependent, DeleteEducation, DeleteCustomData,
                      DeleteBankAccount
  <2> QED BY <2>1, OneStatementStep DEF Start
<1>6. CASE RecordAttendance(c)
  BY <1>6, OneStatementStep DEF Start
<1> QED BY <1>2, <1>3, <1>4, <1>5, <1>6 DEF Start

-----------------------------------------------------------------------------
(* A call goes on                                                          *)

(* An employee is created under the id of the call, or one is changed.     *)
LEMMA EmployeeStep ==
    ASSUME IInv, NEW c \in Calls,
           \/ CommitCreateEmployee(c) \/ CommitUpdateEmployee(c)
           \/ CommitCreateEmployeeAccount(c) \/ WriteStatus(c) \/ CommitUpdateEmployment(c)
    PROVE  IInv'
<1> DEFINE s == call[c]
<1>1. /\ s # Done /\ CallState(s) /\ CallState(Done) /\ Knows(c, Done)' /\ Becomes(c, Done)
      /\ UNCHANGED <<files, audit>> /\ (~CommitCreateEmployee(c) => rows' = rows)
  BY Alive DEF CommitCreateEmployee, CommitUpdateEmployee, CommitCreateEmployeeAccount,
               WriteStatus, CommitUpdateEmployment, Running
<1>2. \/ CommitUpdateEmployee(c) \/ CommitCreateEmployeeAccount(c) \/ WriteStatus(c)
       \/ CommitUpdateEmployment(c)
       => ~CommitCreateEmployee(c)
  BY DEF CommitCreateEmployee, CommitUpdateEmployee, CommitCreateEmployeeAccount, WriteStatus,
         CommitUpdateEmployment, Running
<1>3. CASE CommitCreateEmployee(c)
  <2> DEFINE new == [number |-> s.number, status |-> "active", manager |-> None, user |-> s.user]
  <2>1. new \in Employee /\ new.manager = None
    BY <1>1, <1>3 DEF CallState, CommitCreateEmployee, Running, Employee, Users, Statuses
  <2> HIDE DEF new
  <2>2. /\ DOMAIN employee' = DOMAIN employee \cup {c}
        /\ employee'[c] = new /\ \A e \in DOMAIN employee : e # c => employee'[e] = employee[e]
    BY <1>3 DEF CommitCreateEmployee, new
  <2>3. c \notin UsedIds
    BY <1>1, EmployeesAssumption DEF UsedIds, Ended
  <2>4. \A a \in audit : \A e \in a.of : Exists(e)' => Exists(e)
    BY <2>2, <2>3 DEF IInv, IdsAreUsed, Exists
  <2> DEFINE custom == Insert(c, "custom", c, FALSE)
  <2>5. custom \in Row /\ custom.of = c /\ custom.id = c /\ custom.kind = "custom"
    BY DEF Insert, Row, Ids, Deletable, Single
  <2> HIDE DEF custom
  <2>6. \A r \in rows' : r \in rows \/ r = custom
    <3>1. PICK filled \in SUBSET {custom} : rows' = rows \cup filled
      BY <1>3 DEF CommitCreateEmployee, custom
    <3> QED BY <3>1
  <2>7. \A r \in rows' :
           r \in rows \/ (r \in Row /\ r.of \in DOMAIN employee' /\ r.kind # "document")
    BY <2>2, <2>5, <2>6
  <2>8. NothingIsLeftBehind'
    <3>1. history' = history
      BY <1>3 DEF CommitCreateEmployee
    <3>2. \A e \in DOMAIN employee' :
             employee'[e] \in Employee /\ employee'[e].manager \in DOMAIN employee \cup {None}
      BY <2>1, <2>2, Existing
    <3>3. NothingIsLeftBehind /\ history \in [Ids -> Seq(Statuses)] /\ DOMAIN employee' \subseteq Ids
      BY <2>2 DEF IInv, NothingIsLeftBehind, TypeOK, Ids
    <3> QED BY <1>1, <2>2, <2>4, <2>7, <3>1, <3>2, <3>3, EmployeesChange
  <2> QED BY <1>1, <2>2, <2>5, <2>6, <2>8, Moves
<1>4. ASSUME ~CommitCreateEmployee(c), NEW e \in DOMAIN employee, NEW x \in Employee,
             x.manager \in DOMAIN employee \cup {None},
             DOMAIN employee' = DOMAIN employee, employee'[e] = x,
             \A o \in DOMAIN employee : o # e => employee'[o] = employee[o],
             history' \in [Ids -> Seq(Statuses)],
             \A o \in Ids : o # e => history'[o] = history[o]
      PROVE  IInv'
  <2>1. NothingIsLeftBehind'
    <3>1. \A o \in DOMAIN employee' :
             employee'[o] \in Employee /\ employee'[o].manager \in DOMAIN employee \cup {None}
      BY <1>4, Existing
    <3>2. NothingIsLeftBehind /\ DOMAIN employee' \subseteq Ids
      BY <1>4 DEF IInv, NothingIsLeftBehind, TypeOK
    <3>3. \A o \in Ids : history'[o] # history[o] => Exists(o)
      BY <1>4 DEF Exists
    <3>4. \A a \in audit : \A o \in a.of : Exists(o)' => Exists(o)
      BY <1>4 DEF Exists
    <3> QED BY <1>1, <1>4, <3>1, <3>2, <3>3, <3>4, EmployeesChange
  <2> QED BY <1>1, <1>4, <2>1, Moves
<1>5. ASSUME UNCHANGED <<employee, history>>, ~CommitCreateEmployee(c) PROVE IInv'
  <2>1. Knows(c, Done)
    BY Alive
  <2> QED BY <1>1, <1>5, <2>1, OnlyMoves
<1>6. ASSUME NEW e \in DOMAIN employee, NEW to \in Statuses,
             history' = history \/ history' = [history EXCEPT ![e] = Append(@, to)]
      PROVE  /\ history' \in [Ids -> Seq(Statuses)]
             /\ \A o \in Ids : o # e => history'[o] = history[o]
  <2>1. history \in [Ids -> Seq(Statuses)] /\ e \in Ids
    BY Existing DEF IInv, NothingIsLeftBehind, TypeOK
  <2>2. Append(history[e], to) \in Seq(Statuses)
    BY <1>6, <2>1
  <2> QED BY <1>6, <2>1, <2>2
<1>7. history \in [Ids -> Seq(Statuses)]
  BY DEF IInv, NothingIsLeftBehind, TypeOK
<1>8. CASE CommitUpdateEmployee(c)
  <2> DEFINE e == s.of
             x == [s.new EXCEPT !.manager = employee[e].manager]
  <2>1. CASE Exists(e)
    <3>1. e \in DOMAIN employee /\ s.new \in Employee
      BY <1>1, <1>8, <2>1 DEF CallState, CommitUpdateEmployee, Running, Exists
    <3>2. employee[e].manager \in DOMAIN employee \cup {None} /\ employee[e].manager \in Ids \cup {None}
      BY <3>1, Existing
    <3>3. x \in Employee /\ x.manager = employee[e].manager
      BY <3>1, <3>2 DEF Employee
    <3>4. employee' = [employee EXCEPT ![e] = x]
      BY <1>8, <2>1 DEF CommitUpdateEmployee
    <3>5. s.new.status \in Statuses
      BY <3>1 DEF Employee
    <3>6. history' \in [Ids -> Seq(Statuses)] /\ \A o \in Ids : o # e => history'[o] = history[o]
      <4>1. \/ history' = history
            \/ history' = [history EXCEPT ![e] = Append(@, s.new.status)]
        BY <1>8, <2>1 DEF CommitUpdateEmployee
      <4> HIDE DEF e
      <4> QED BY <1>6, <3>1, <3>5, <4>1
    <3> HIDE DEF x, e
    <3> QED BY <1>4, <1>8, <1>2, <3>1, <3>2, <3>3, <3>4, <3>6
  <2>2. CASE ~Exists(e)
    BY <1>5, <1>8, <1>2, <2>2 DEF CommitUpdateEmployee
  <2> QED BY <2>1, <2>2
<1>9. CASE CommitCreateEmployeeAccount(c)
  <2> DEFINE e == s.of
             x == [employee[e] EXCEPT !.user = c]
  <2>1. CASE Exists(e)
    <3>1. e \in DOMAIN employee /\ employee[e] \in Employee
          /\ employee[e].manager \in DOMAIN employee \cup {None}
      BY <2>1, Existing DEF Exists
    <3>2. x \in Employee /\ x.manager = employee[e].manager
      BY <3>1 DEF Employee, Users
    <3>3. /\ DOMAIN employee' = DOMAIN employee /\ employee'[e] = x /\ history' = history
          /\ \A o \in DOMAIN employee : o # e => employee'[o] = employee[o]
      BY <1>9, <3>1 DEF CommitCreateEmployeeAccount
    <3> HIDE DEF x, e
    <3> QED BY <1>4, <1>7, <1>9, <1>2, <3>1, <3>2, <3>3
  <2>2. CASE ~Exists(e)
    <3>1. employee' = [o \in DOMAIN employee |-> employee[o]] /\ history' = history
      BY <1>9, <2>2 DEF CommitCreateEmployeeAccount, Exists
    <3>2. NothingIsLeftBehind'
      <4>1. /\ DOMAIN employee' = DOMAIN employee
            /\ \A o \in DOMAIN employee : employee'[o] = employee[o]
        BY <3>1
      <4> QED BY <1>1, <1>9, <1>2, <3>1, <4>1, EmployeesChange
              DEF IInv, NothingIsLeftBehind, TypeOK, Exists
    <3> QED BY <1>1, <1>9, <1>2, <3>1, <3>2, Moves
  <2> QED BY <2>1, <2>2
<1>10. CASE WriteStatus(c)
  <2> DEFINE e == s.of
             x == [employee[e] EXCEPT !.status = s.to]
  <2>1. /\ e \in DOMAIN employee /\ s.to \in Statuses
        /\ employee' = [employee EXCEPT ![e] = x]
        /\ history' = [history EXCEPT ![e] = Append(@, s.to)]
    BY <1>1, <1>10 DEF CallState, WriteStatus, Running, Exists
  <2>2. employee[e] \in Employee /\ employee[e].manager \in DOMAIN employee \cup {None}
    BY <2>1, Existing
  <2>3. x \in Employee /\ x.manager = employee[e].manager
    BY <2>1, <2>2 DEF Employee
  <2>4. history' \in [Ids -> Seq(Statuses)] /\ \A o \in Ids : o # e => history'[o] = history[o]
    BY <1>6, <2>1
  <2> HIDE DEF x, e
  <2> QED BY <1>4, <1>10, <1>2, <2>1, <2>2, <2>3, <2>4
<1>11. CASE CommitUpdateEmployment(c)
  <2> DEFINE e == s.of
             x == [employee[e] EXCEPT !.manager = s.manager, !.status = s.to]
  <2>1. CASE Exists(e)
    <3>1. /\ e \in DOMAIN employee /\ s.to \in Statuses
          /\ s.manager \in DOMAIN employee \cup {None} /\ s.manager \in Ids \cup {None}
      BY <1>1, <1>11, <2>1 DEF CallState, CommitUpdateEmployment, Running, Exists
    <3>2. employee[e] \in Employee
      BY <3>1, Existing
    <3>3. x \in Employee /\ x.manager = s.manager
      BY <3>1, <3>2 DEF Employee
    <3>4. employee' = [employee EXCEPT ![e] = x]
      BY <1>11, <2>1, <3>1 DEF CommitUpdateEmployment
    <3>5. history' \in [Ids -> Seq(Statuses)] /\ \A o \in Ids : o # e => history'[o] = history[o]
      <4>1. \/ history' = history
            \/ history' = [history EXCEPT ![e] = Append(@, s.to)]
        BY <1>11, <2>1 DEF CommitUpdateEmployment
      <4> HIDE DEF e
      <4> QED BY <1>6, <3>1, <4>1
    <3>6. DOMAIN employee' = DOMAIN employee /\ employee'[e] = x
          /\ \A o \in DOMAIN employee : o # e => employee'[o] = employee[o]
      BY <3>1, <3>4
    <3> HIDE DEF x, e
    <3> QED BY <1>4, <1>11, <1>2, <3>1, <3>3, <3>5, <3>6
  <2>2. CASE ~Exists(e)
    BY <1>5, <1>11, <1>2, <2>2 DEF CommitUpdateEmployment
  <2> QED BY <2>1, <2>2
<1> QED BY <1>3, <1>8, <1>9, <1>10, <1>11

(* A row of a section is saved, or a bank account, which may clear the     *)
(* flag of the others.                                                     *)
LEMMA SaveStep ==
    ASSUME IInv, NEW c \in Calls, CommitSaveRow(c) \/ CommitBankAccount(c)
    PROVE  IInv'
<1> DEFINE s == call[c]
<1>1. /\ s # Done /\ CallState(s) /\ CallState(Done) /\ Knows(c, Done)' /\ Becomes(c, Done)
      /\ UNCHANGED <<employee, history, files, audit>>
  BY Alive DEF CommitSaveRow, CommitBankAccount, Running
<1>2. \A r \in rows : r \in Row /\ Exists(r.of)
         /\ (r.kind = "document" => [of |-> r.of, id |-> r.id] \in files)
  BY DEF IInv, NothingIsLeftBehind, TypeOK, DocumentsHaveFiles
<1>3. ASSUME NEW e, Exists(e), NEW kind \in Deletable, NEW p \in BOOLEAN
      PROVE  /\ Insert(e, kind, c, p) \in Row /\ Insert(e, kind, c, p).of = e
             /\ Insert(e, kind, c, p).id = c /\ Insert(e, kind, c, p).kind = kind
  <2>1. e \in Ids
    BY <1>3, Existing DEF Exists
  <2> QED BY <2>1 DEF Insert, Row
<1>4. ASSUME \A r \in rows' :
                \/ /\ r.id = c /\ r \in Row /\ Exists(r.of) /\ r.kind # "document"
                \/ \E q \in rows : r.id = q.id /\ r.of = q.of /\ r.kind = q.kind /\ r \in Row
      PROVE  IInv'
  <2>1. NothingIsLeftBehind'
    <3>1. \A r \in rows' : /\ r \in Row /\ Exists(r.of)
                           /\ r.kind = "document" => [of |-> r.of, id |-> r.id] \in files
      BY <1>2, <1>4
    <3> QED BY <1>1, <3>1, RowsChange DEF IInv
  <2> QED BY <1>1, <1>4, <2>1, Moves
<1>5. CASE CommitSaveRow(c)
  <2>1. s.kind \in Deletable /\ Exists(s.of) /\ s.kind # "document"
    BY <1>1, <1>5 DEF CallState, CommitSaveRow, Running
  <2> DEFINE x == Insert(s.of, s.kind, c, FALSE)
  <2>2. x \in Row /\ x.of = s.of /\ x.id = c /\ x.kind = s.kind
    BY <1>3, <2>1
  <2>3. rows' \subseteq rows \cup {x}
    BY <1>5 DEF CommitSaveRow
  <2> HIDE DEF x
  <2> QED BY <1>2, <1>4, <2>1, <2>2, <2>3
<1>6. CASE CommitBankAccount(c)
  <2> DEFINE x == Insert(s.of, "bank", c, s.primary)
             Cleared(r) == IF r.of = s.of /\ r.kind = "bank" /\ s.primary
                           THEN [r EXCEPT !.primary = r.id = s.id] ELSE r
  <2>1. ASSUME NEW q \in rows
        PROVE  /\ Cleared(q).id = q.id /\ Cleared(q).of = q.of /\ Cleared(q).kind = q.kind
               /\ Cleared(q) \in Row
    <3>1. q \in Row
      BY <1>2
    <3> QED BY <3>1 DEF Row
  <2>2. rows' = {Cleared(q) : q \in rows} \cup (IF s.id = c THEN {x} ELSE {})
    BY <1>6 DEF CommitBankAccount
  <2>3. s.id = c => x \in Row /\ x.of = s.of /\ Exists(x.of) /\ x.id = c /\ x.kind = "bank"
    <3>1. s.primary \in BOOLEAN /\ s.id = c => Exists(s.of)
      BY <1>1, <1>6 DEF CallState, CommitBankAccount, Running
    <3>2. s.primary \in BOOLEAN /\ "bank" \in Deletable
      BY <1>1, <1>6 DEF CallState, CommitBankAccount, Running, Deletable
    <3> QED BY <1>3, <3>1, <3>2
  <2> HIDE DEF x, Cleared
  <2>4. \A r \in rows' : (r.id = c /\ r \in Row /\ Exists(r.of) /\ r.kind # "document")
                         \/ \E q \in rows : r = Cleared(q)
    BY <2>2, <2>3
  <2> QED BY <1>4, <2>1, <2>4
<1> QED BY <1>5, <1>6

(* A document and its file: stored before the row, removed after it.       *)
LEMMA DocumentStep ==
    ASSUME IInv, NEW c \in Calls,
           \/ StoreFile(c) \/ InsertDocument(c) \/ DeleteDocumentRow(c) \/ DeleteDocumentFile(c)
    PROVE  IInv'
<1> DEFINE k == call[c]
<1>1. k # Done /\ CallState(k) /\ Knows(c, k) /\ CallState(Done) /\ Knows(c, Done)'
  BY Alive DEF StoreFile, InsertDocument, DeleteDocumentRow, DeleteDocumentFile, Running
<1>2. NothingIsLeftBehind /\ files \subseteq File
  BY DEF IInv, NothingIsLeftBehind, TypeOK
<1>3. CASE StoreFile(c)
  <2>1. PICK s : s = [k EXCEPT !.op = "insert document"]
    OBVIOUS
  <2>2. k \in [op : {"upload", "insert document"}, of : Ids]
    BY <1>1, <1>3 DEF CallState, StoreFile, Running
  <2>3. s \in [op : {"upload", "insert document"}, of : Ids] /\ s.op = "insert document" /\ s.of = k.of
    BY <2>1, <2>2
  <2>4. k.op = "upload" /\ k.of \in UsedIds
    BY <1>1, <1>3 DEF Knows, StoreFile, Running
  <2>5. files' = files \cup {[of |-> s.of, id |-> c]} /\ [of |-> s.of, id |-> c] \in File
    BY <1>3, <2>3 DEF StoreFile, File
  <2>6. Becomes(c, s) /\ UNCHANGED <<employee, history, rows, audit>>
    BY <1>3, <2>1 DEF StoreFile
  <2>7. NothingIsLeftBehind'
    BY <1>2, <2>5, <2>6, FilesChange
  <2>8. CallState(s)
    BY <2>3 DEF CallState
  <2>9. Knows(c, s)'
    <3>1. UsedIds \subseteq UsedIds'
      BY <1>1, <2>6 DEF UsedIds, Ended, Becomes, IInv, CallsFit
    <3> QED BY <2>3, <2>4, <2>5, <3>1 DEF Knows
  <2> HIDE DEF k
  <2> QED BY <1>1, <2>5, <2>6, <2>7, <2>8, <2>9, Moves DEF k
<1>4. CASE InsertDocument(c)
  <2> DEFINE x == Insert(k.of, "document", c, FALSE)
  <2>1. /\ rows' = rows \cup {x} /\ Becomes(c, Done) /\ Exists(k.of)
        /\ UNCHANGED <<employee, history, files, audit>>
    BY <1>4 DEF InsertDocument
  <2>2. k.of \in Ids /\ [of |-> k.of, id |-> c] \in files
    BY <1>1, <1>4, <2>1, Existing DEF Knows, InsertDocument, Running, Exists
  <2>3. x \in Row /\ x.of = k.of /\ x.id = c /\ [of |-> x.of, id |-> x.id] \in files
    BY <2>2 DEF Insert, Row, Deletable
  <2> HIDE DEF x
  <2>4. NothingIsLeftBehind'
    BY <1>2, <2>1, <2>3, RowsChange
  <2> QED BY <1>1, <2>1, <2>3, <2>4, Moves
<1>5. CASE DeleteDocumentRow(c)
  <2>1. PICK s : s = [k EXCEPT !.op = "delete file"]
    OBVIOUS
  <2>2. k \in [op : {"delete document", "delete file"}, of : Ids, id : Calls \cup {"seed"}]
    BY <1>1, <1>5 DEF CallState, DeleteDocumentRow, Running
  <2>3. /\ s \in [op : {"delete document", "delete file"}, of : Ids, id : Calls \cup {"seed"}]
        /\ s.op = "delete file" /\ s.of = k.of /\ s.id = k.id
    BY <2>1, <2>2
  <2>4. k.id \in UsedRowIds
    BY <1>1, <2>2 DEF Knows
  <2>5. /\ rows' = {r \in rows : ~(r.kind = "document" /\ r.id = s.id /\ r.of = s.of)}
        /\ Becomes(c, s) /\ UNCHANGED <<employee, history, files, audit>>
    BY <1>5, <2>1, <2>3 DEF DeleteDocumentRow
  <2>6. NothingIsLeftBehind'
    BY <1>2, <2>5, RowsChange
  <2>7. CallState(s)
    BY <2>3 DEF CallState
  <2>8. Knows(c, s)'
    <3>1. UsedRowIds \subseteq UsedRowIds'
      BY <1>1, <2>5 DEF UsedRowIds, Ended, Becomes, IInv, CallsFit
    <3>2. ~\E r \in rows' : DocumentRow(r, s.of, s.id)
      BY <2>5 DEF DocumentRow
    <3> QED BY <2>3, <2>4, <3>1, <3>2 DEF Knows
  <2> HIDE DEF k
  <2> QED BY <1>1, <2>5, <2>6, <2>7, <2>8, Moves DEF k
<1>6. CASE DeleteDocumentFile(c)
  <2>1. /\ files' = files \ {[of |-> k.of, id |-> k.id]} /\ Becomes(c, Done)
        /\ UNCHANGED <<employee, history, rows, audit>>
    BY <1>6 DEF DeleteDocumentFile
  <2>2. k.op = "delete file"
    BY <1>6 DEF DeleteDocumentFile, Running
  <2>3. k.id \in UsedRowIds /\ ~\E r \in rows : DocumentRow(r, k.of, k.id)
    BY <1>1, <2>2 DEF Knows
  <2>4. NothingIsLeftBehind'
    <3>1. \A r \in rows : r.kind = "document" =>
             [of |-> r.of, id |-> r.id] # [of |-> k.of, id |-> k.id]
      BY <2>3 DEF DocumentRow
    <3> QED BY <1>2, <2>1, <3>1, FilesChange
  <2>5. \A f \in files \ files' : f.id \in UsedRowIds
    BY <2>1, <2>3
  <2> QED BY <1>1, <2>1, <2>4, <2>5, Moves
<1> QED BY <1>3, <1>4, <1>5, <1>6

-----------------------------------------------------------------------------
(* Deletions                                                               *)

(* Employees leave with their rows, which had no history left, and nobody  *)
(* keeps one of them as a manager.                                         *)
LEMMA EmployeesLeave ==
    ASSUME NothingIsLeftBehind, NEW S, DOMAIN employee' = DOMAIN employee \ S,
           \A e \in DOMAIN employee' :
              employee'[e] \in Employee /\ employee'[e].manager \in DOMAIN employee' \cup {None},
           rows' \subseteq rows, \A r \in rows' : r.of \notin S,
           history' \in [Ids -> Seq(Statuses)],
           \A e \in Ids : history'[e] \in {history[e], <<>>},
           \A e \in Ids : e \in S => history'[e] = <<>>,
           UNCHANGED files,
           \A a \in audit' : a \in audit \/ a \in [by : {"purge"}, of : SUBSET Ids]
    PROVE  NothingIsLeftBehind'
<1>1. TypeOK'
  <2>1. DOMAIN employee' \subseteq Ids
    BY DEF NothingIsLeftBehind, TypeOK
  <2>2. \A e \in Ids : history'[e] # <<>> => Exists(e)'
    BY DEF NothingIsLeftBehind, TypeOK, Exists
  <2>3. rows' \subseteq Row /\ \A r \in rows' : Exists(r.of)'
    BY DEF NothingIsLeftBehind, TypeOK, Exists
  <2>4. audit' \subseteq [by : {"delete", "purge"}, of : SUBSET Ids]
    BY DEF NothingIsLeftBehind, TypeOK
  <2> QED BY <2>1, <2>2, <2>3, <2>4 DEF NothingIsLeftBehind, TypeOK
<1>2. DocumentsHaveFiles'
  BY DEF NothingIsLeftBehind, DocumentsHaveFiles
<1>3. DeletionAuditIsTrue'
  BY DEF NothingIsLeftBehind, DeletionAuditIsTrue
<1> QED BY <1>1, <1>2, <1>3 DEF NothingIsLeftBehind

(* The permanent deletion: under the lock of the row, then its entry.      *)
LEMMA PermanentDeleteStep ==
    ASSUME IInv, NEW c \in Calls, CommitPermanentlyDelete(c) \/ AuditPermanentDelete(c)
    PROVE  IInv'
<1> DEFINE k == call[c]
<1>1. k # Done /\ CallState(k) /\ Knows(c, k) /\ NothingIsLeftBehind
  BY Alive DEF CommitPermanentlyDelete, AuditPermanentDelete, Running, IInv
<1>2. /\ k \in [op : {"delete", "audit"}, of : SUBSET Ids, number : Numbers]
      /\ k.of \subseteq UsedIds /\ k.of \subseteq Ids
  BY <1>1 DEF CallState, Knows, CommitPermanentlyDelete, AuditPermanentDelete, Running
<1>3. CASE CommitPermanentlyDelete(c)
  <2>1. PICK S : S = k.of
    OBVIOUS
  <2>2. PICK s : s = [k EXCEPT !.op = "audit"]
    OBVIOUS
  <2>3. /\ s \in [op : {"delete", "audit"}, of : SUBSET Ids, number : Numbers]
        /\ s.op = "audit" /\ s.of = S
    BY <1>2, <2>1, <2>2
  <2>4. /\ \A e \in S : Exists(e) /\ history[e] = <<>>
        /\ employee' = Without(S) /\ rows' = {r \in rows : r.of \notin S}
        /\ Becomes(c, s) /\ UNCHANGED <<history, files, audit>>
    BY <1>3, <2>1, <2>2 DEF CommitPermanentlyDelete, MayPermanentlyDelete, HasProtected
  <2>5. DOMAIN employee' = DOMAIN employee \ S
    BY <2>4 DEF Without
  <2>6. ASSUME NEW e \in DOMAIN employee'
        PROVE  employee'[e] \in Employee /\ employee'[e].manager \in DOMAIN employee' \cup {None}
    <3>1. /\ employee[e] \in Employee /\ employee[e].manager \in DOMAIN employee \cup {None}
          /\ employee'[e] = IF employee[e].manager \in S
                            THEN [employee[e] EXCEPT !.manager = None] ELSE employee[e]
      BY <2>4, <2>5, <2>6, Existing DEF Without
    <3>2. /\ [employee[e] EXCEPT !.manager = None] \in Employee
          /\ [employee[e] EXCEPT !.manager = None].manager = None
      BY <3>1 DEF Employee
    <3> QED BY <2>5, <3>1, <3>2
  <2>7. NothingIsLeftBehind'
    <3>1. history \in [Ids -> Seq(Statuses)]
      BY <1>1 DEF NothingIsLeftBehind, TypeOK
    <3> QED BY <1>1, <2>4, <2>5, <2>6, <3>1, EmployeesLeave
  <2>8. CallState(s)
    BY <2>3 DEF CallState
  <2>9. Knows(c, s)'
    <3>1. UsedIds \subseteq UsedIds'
      BY <1>1, <2>4 DEF UsedIds, Ended, Becomes, IInv, CallsFit
    <3> QED BY <1>2, <2>1, <2>3, <2>5, <3>1 DEF Knows
  <2> HIDE DEF k
  <2> QED BY <1>1, <2>4, <2>5, <2>7, <2>8, <2>9, Moves DEF k
<1>4. CASE AuditPermanentDelete(c)
  <2>1. PICK s : s = [k EXCEPT !.op = "storage"]
    OBVIOUS
  <2>2. s.op = "storage" /\ s.of = k.of
    BY <1>2, <2>1
  <2>3. k.op = "audit" /\ k.of \cap DOMAIN employee = {}
    BY <1>1, <1>4 DEF AuditPermanentDelete, Running, Knows
  <2>4. /\ audit' = audit \cup {[by |-> "delete", of |-> s.of]} /\ Becomes(c, s)
        /\ UNCHANGED <<employee, history, rows, files>>
    BY <1>4, <2>1, <2>2 DEF AuditPermanentDelete
  <2>5. NothingIsLeftBehind'
    <3>1. TypeOK'
      BY <1>1, <1>2, <2>2, <2>4 DEF NothingIsLeftBehind, TypeOK, Exists
    <3>2. DocumentsHaveFiles'
      BY <1>1, <2>4 DEF NothingIsLeftBehind, DocumentsHaveFiles
    <3>3. DeletionAuditIsTrue'
      BY <1>1, <2>2, <2>3, <2>4 DEF NothingIsLeftBehind, DeletionAuditIsTrue
    <3> QED BY <3>1, <3>2, <3>3 DEF NothingIsLeftBehind
  <2>6. CallState(s)
    BY <1>2, <2>2 DEF CallState
  <2>7. Knows(c, s)'
    <3>1. UsedIds \subseteq UsedIds'
      BY <1>1, <2>4 DEF UsedIds, Ended, Becomes, IInv, CallsFit
    <3> QED BY <1>2, <2>2, <2>3, <2>4, <3>1 DEF Knows
  <2>8. \A a \in audit' \ audit : a.of \subseteq UsedIds
    BY <1>2, <2>2, <2>4
  <2> HIDE DEF k
  <2> QED BY <1>1, <2>4, <2>5, <2>6, <2>7, <2>8, Moves DEF k
<1> QED BY <1>3, <1>4

(* The folder of employees that are gone is removed.                       *)
LEMMA StorageStep ==
    ASSUME IInv, NEW c \in Calls, DeleteStorage(c)
    PROVE  IInv'
<1> DEFINE k == call[c]
<1>1. /\ k # Done /\ k.op = "storage" /\ Knows(c, k) /\ NothingIsLeftBehind
      /\ CallState(Done) /\ Knows(c, Done)'
  BY Alive DEF DeleteStorage, Running, IInv
<1>2. /\ files' = {f \in files : f.of \notin k.of} /\ Becomes(c, Done)
      /\ UNCHANGED <<employee, history, rows, audit>>
  BY DEF DeleteStorage
<1>3. k.of \cap DOMAIN employee = {}
  BY <1>1 DEF Knows
<1>4. NothingIsLeftBehind'
  <2>1. files \subseteq File /\ \A r \in rows : r.of \in DOMAIN employee
    BY <1>1 DEF NothingIsLeftBehind, TypeOK, Exists
  <2> QED BY <1>1, <1>2, <1>3, <2>1, FilesChange
<1>5. \A f \in files \ files' : ~Exists(f.of)'
  BY <1>2, <1>3 DEF Exists
<1> QED BY <1>1, <1>2, <1>4, <1>5, Moves

(* The purge decides, reads once more whose history may go, and applies    *)
(* what it decided or fails to commit it.                                  *)
LEMMA PurgeStep ==
    ASSUME IInv, NEW c \in Calls,
           DecidePurge(c) \/ ConfirmTestData(c) \/ ApplyPurge(c) \/ PurgeNotCommitted(c)
    PROVE  IInv'
<1> DEFINE k == call[c]
<1>1. /\ k # Done /\ CallState(k) /\ Knows(c, k) /\ NothingIsLeftBehind
      /\ CallState(Done) /\ Knows(c, Done)'
  BY Alive DEF DecidePurge, ConfirmTestData, ApplyPurge, PurgeNotCommitted, Running, IInv
<1>2. PICK S : S = k.of
  OBVIOUS
<1>3. S \subseteq Ids /\ S \subseteq UsedIds
  BY <1>1, <1>2 DEF CallState, Knows, DecidePurge, ConfirmTestData, ApplyPurge,
                    PurgeNotCommitted, Running
<1>4. CASE DecidePurge(c)
  <2> DEFINE s == [op |-> "apply", of |-> S, reports |-> DirectReports(S)]
  <2>1. s.op = "apply" /\ s.of = S
    OBVIOUS
  <2>2. Becomes(c, s) /\ UNCHANGED <<employee, history, rows, files, audit>>
    BY <1>2, <1>4 DEF DecidePurge
  <2> HIDE DEF s
  <2>3. CallState(s) /\ Knows(c, s)
    BY <1>3, <2>1 DEF CallState, Knows
  <2> QED BY <1>1, <2>2, <2>3, OnlyMoves
<1>5. CASE ConfirmTestData(c)
  <2> DEFINE s == [op |-> "purge rows", of |-> S, reports |-> k.reports,
                   confirmed |-> TestDataAmong(S)]
  <2>1. s.op = "purge rows" /\ s.of = S /\ s.confirmed \subseteq s.of
    BY DEF TestDataAmong
  <2>2. Becomes(c, s) /\ UNCHANGED <<employee, history, rows, files, audit>>
    BY <1>2, <1>5 DEF ConfirmTestData
  <2> HIDE DEF s
  <2>3. CallState(s) /\ Knows(c, s)
    BY <1>3, <2>1 DEF CallState, Knows
  <2> QED BY <1>1, <2>2, <2>3, OnlyMoves
<1>6. CASE ApplyPurge(c)
  <2> DEFINE s == [op |-> "storage", of |-> S]
             unlinked(e) == IF e \in k.reports THEN [employee[e] EXCEPT !.manager = None]
                                               ELSE employee[e]
             left == {r \in rows : r.of \in S => Disposition(r.kind) = "protected"}
  <2>1. s.op = "storage" /\ s.of = S
    OBVIOUS
  <2>2. Becomes(c, s) /\ UNCHANGED files
    BY <1>2, <1>6 DEF ApplyPurge
  <2>3. /\ \A e \in S : history'[e] = <<>> /\ ~\E r \in left : r.of = e
        /\ history' = PurgedHistory(k.confirmed) /\ rows' = left
        /\ audit' = audit \cup {[by |-> "purge", of |-> S]}
    BY <1>2, <1>6 DEF ApplyPurge
  <2>4. employee' = [e \in DOMAIN employee \ S |->
                        IF unlinked(e).manager \in S
                        THEN [unlinked(e) EXCEPT !.manager = None] ELSE unlinked(e)]
    BY <1>2, <1>6 DEF ApplyPurge
  <2> HIDE DEF s, unlinked
  <2>5. DOMAIN employee' = DOMAIN employee \ S
    BY <2>4
  <2>6. ASSUME NEW e \in DOMAIN employee'
        PROVE  employee'[e] \in Employee /\ employee'[e].manager \in DOMAIN employee' \cup {None}
    <3>1. employee[e] \in Employee /\ employee[e].manager \in DOMAIN employee \cup {None}
      BY <2>5, <2>6, Existing
    <3>2. \A x \in Employee : /\ [x EXCEPT !.manager = None] \in Employee
                              /\ [x EXCEPT !.manager = None].manager = None
      BY DEF Employee
    <3>3. unlinked(e) \in Employee /\ unlinked(e).manager \in DOMAIN employee \cup {None}
      BY <3>1, <3>2 DEF unlinked
    <3> QED BY <2>4, <2>5, <3>2, <3>3
  <2>7. history \in [Ids -> Seq(Statuses)] /\ history' \in [Ids -> Seq(Statuses)]
        /\ \A e \in Ids : history'[e] \in {history[e], <<>>}
    <3>1. history \in [Ids -> Seq(Statuses)] /\ <<>> \in Seq(Statuses)
      BY <1>1 DEF NothingIsLeftBehind, TypeOK
    <3> QED BY <2>3, <3>1 DEF PurgedHistory
  <2>8. NothingIsLeftBehind'
    <3>1. rows' \subseteq rows /\ \A r \in rows' : r.of \notin S
      BY <2>3
    <3>2. \A a \in audit' : a \in audit \/ a \in [by : {"purge"}, of : SUBSET Ids]
      BY <1>3, <2>3
    <3>3. \A e \in Ids : e \in S => history'[e] = <<>>
      BY <2>3
    <3> QED BY <1>1, <2>2, <2>5, <2>6, <2>7, <3>1, <3>2, <3>3, EmployeesLeave
  <2>9. CallState(s)
    BY <1>3, <2>1 DEF CallState
  <2>10. Knows(c, s)'
    <3>1. UsedIds \subseteq UsedIds'
      BY <1>1, <2>2 DEF UsedIds, Ended, Becomes, IInv, CallsFit
    <3> QED BY <1>3, <2>1, <2>5, <3>1 DEF Knows
  <2>11. (\A a \in audit' \ audit : a.of \subseteq UsedIds) /\ rows' \subseteq rows
    BY <1>3, <2>3
  <2> HIDE DEF k, left
  <2> QED BY <1>1, <2>2, <2>5, <2>8, <2>9, <2>10, <2>11, Moves DEF k
<1>7. CASE PurgeNotCommitted(c)
  <2>1. /\ audit' = audit \cup {[by |-> "purge", of |-> S]} /\ Becomes(c, Done)
        /\ UNCHANGED <<employee, history, rows, files>>
    BY <1>2, <1>7 DEF PurgeNotCommitted
  <2>2. NothingIsLeftBehind'
    <3>1. TypeOK'
      BY <1>1, <1>3, <2>1 DEF NothingIsLeftBehind, TypeOK, Exists
    <3>2. DocumentsHaveFiles'
      BY <1>1, <2>1 DEF NothingIsLeftBehind, DocumentsHaveFiles
    <3>3. DeletionAuditIsTrue'
      BY <1>1, <2>1 DEF NothingIsLeftBehind, DeletionAuditIsTrue
    <3> QED BY <3>1, <3>2, <3>3 DEF NothingIsLeftBehind
  <2>3. \A a \in audit' \ audit : a.of \subseteq UsedIds
    BY <1>3, <2>1
  <2> QED BY <1>1, <2>1, <2>2, <2>3, Moves
<1> QED BY <1>4, <1>6, <1>7, <1>5

-----------------------------------------------------------------------------
(* The inductive step                                                      *)
LEMMA EmployeesStep == IInv /\ [Next]_vars => IInv'
<1> SUFFICES ASSUME IInv, [Next]_vars PROVE IInv'
  OBVIOUS
<1>1. ASSUME NEW c \in Calls, Fail(c) PROVE IInv'
  <2>1. call[c] # Done /\ CallState(Done) /\ Knows(c, Done)
    BY <1>1, Alive DEF Fail
  <2> QED BY <1>1, <2>1, OnlyMoves DEF Fail
<1>2. ASSUME NEW c \in Calls, ReadStatus(c) PROVE IInv'
  <2> DEFINE k == call[c]
  <2>1. /\ k # Done /\ CallState(k) /\ CallState(Done) /\ Knows(c, Done)
        /\ k.op \in {"deactivate", "status"}
    BY <1>2, Alive DEF ReadStatus
  <2>2. PICK s : s = [k EXCEPT !.op = "write status"]
    OBVIOUS
  <2>3. k \in [op : {"deactivate", "status", "write status"}, of : Ids, to : Statuses]
    BY <2>1 DEF CallState
  <2>4. /\ s \in [op : {"deactivate", "status", "write status"}, of : Ids, to : Statuses]
        /\ s.op = "write status"
    BY <2>2, <2>3
  <2>5. CallState(s) /\ Knows(c, s)
    BY <2>4 DEF CallState, Knows
  <2>6. Becomes(c, s) \/ Becomes(c, Done)
    BY <1>2, <2>2 DEF ReadStatus
  <2> QED BY <1>2, <2>1, <2>5, <2>6, OnlyMoves DEF ReadStatus
<1>3. ASSUME NEW c \in Calls, Continue(c) PROVE IInv'
  BY <1>2, <1>3, EmployeeStep, SaveStep, DocumentStep, PermanentDeleteStep, StorageStep, PurgeStep
     DEF Continue
<1>4. CASE UNCHANGED vars
  BY <1>4 DEF vars, IInv, NothingIsLeftBehind, TypeOK, DocumentsHaveFiles, DeletionAuditIsTrue,
              Exists, CallsFit, IdsAreUsed, UsedIds, UsedRowIds, Ended, CallsKnow, Knows
<1> QED BY <1>1, <1>3, <1>4, StartStep DEF Next

LEMMA EmployeesStart == Init => IInv
<1> SUFFICES ASSUME Init PROVE IInv
  OBVIOUS
<1> USE EmployeesAssumption
<1>1. /\ DOMAIN employee = Seeded
      /\ \A e \in Seeded : employee[e] \in Employee /\ employee[e].manager = None
  <2>1. ASSUME NEW e \in Seeded PROVE employee[e] \in Employee /\ employee[e].manager = None
    <3>1. employee[e] = [number |-> InitialNumber[e], status |-> "active", manager |-> None,
                         user |-> None]
      BY DEF Init
    <3> QED BY <3>1 DEF Employee, Statuses
  <2> QED BY <2>1 DEF Init
<1>2. ASSUME NEW r \in rows
      PROVE  r \in Row /\ r.of \in Seeded /\ r.id = "seed" /\ r.of \in Ids
  <2>1. PICK e \in Seeded, k \in {"bank", "document"} : r = Insert(e, k, "seed", k = "bank")
    BY DEF Init
  <2>2. k \in Deletable /\ e \in Ids
    BY DEF Deletable, Ids
  <2> QED BY <2>1, <2>2 DEF Insert, Row
<1>3. /\ files = [of : Seeded, id : {"seed"}] /\ audit = {}
      /\ history = [e \in Ids |-> <<>>] /\ <<>> \in Seq(Statuses)
  BY DEF Init
<1>4. NothingIsLeftBehind
  <2>1. TypeOK
    BY <1>1, <1>2, <1>3 DEF TypeOK, Exists, Ids, File
  <2>2. DocumentsHaveFiles
    BY <1>2, <1>3 DEF DocumentsHaveFiles
  <2>3. DeletionAuditIsTrue
    BY <1>3 DEF DeletionAuditIsTrue
  <2> QED BY <2>1, <2>2, <2>3 DEF NothingIsLeftBehind
<1>5. \A c \in Calls : call[c] = Idle /\ Idle.op = "idle"
  BY DEF Init, Idle
<1>6. CallsFit
  <2>1. DOMAIN call = Calls
    BY DEF Init
  <2> QED BY <1>5, <2>1 DEF CallsFit, CallState
<1>7. IdsAreUsed
  BY <1>1, <1>2, <1>3 DEF IdsAreUsed, UsedIds, UsedRowIds
<1>8. CallsKnow
  BY <1>5 DEF CallsKnow, Knows
<1> QED BY <1>4, <1>6, <1>7, <1>8 DEF IInv

(* The strengthening is an invariant: what a call still relies on when it  *)
(* goes on is true.                                                        *)
THEOREM RecordsInductive == Spec => []IInv
BY EmployeesStart, EmployeesStep, PTL DEF Spec

(* However creations, edits, uploads and the two deletions interleave and  *)
(* fail halfway: no row, history or manager refers to an employee that is  *)
(* gone, every document has its file, and the entry of a permanent deletion *)
(* names employees that are gone for good.                                 *)
THEOREM NothingStaysBehind == Spec => []NothingIsLeftBehind
<1>1. IInv => NothingIsLeftBehind
  BY DEF IInv
<1> QED BY <1>1, RecordsInductive, PTL

(* A call leaves the history alone or appends to that of one employee, but *)
(* for a purge, which takes that of employees who go.                      *)
LEMMA HistoryStep ==
    ASSUME IInv, [Next]_vars, NEW e \in DOMAIN employee \cap DOMAIN employee'
    PROVE  HistoryGrows(e)
<1>1. history \in [Ids -> Seq(Statuses)] /\ e \in Ids
  BY Existing DEF IInv, NothingIsLeftBehind, TypeOK
<1>2. ASSUME NEW o \in DOMAIN employee, NEW to \in Statuses,
             history' = history \/ history' = [history EXCEPT ![o] = Append(@, to)]
      PROVE  HistoryGrows(e)
  BY <1>1, <1>2 DEF HistoryGrows
<1>3. CASE UNCHANGED history
  BY <1>3 DEF HistoryGrows
<1>4. ASSUME NEW c \in Calls, CommitUpdateEmployee(c) PROVE HistoryGrows(e)
  <2>1. PICK k : k = call[c]
    OBVIOUS
  <2>2. k.new.status \in Statuses
    BY <1>4, <2>1, Alive DEF CommitUpdateEmployee, Running, CallState, Employee
  <2>3. CASE Exists(k.of)
    <3>1. \/ history' = history
          \/ history' = [history EXCEPT ![k.of] = Append(@, k.new.status)]
      BY <1>4, <2>1, <2>3 DEF CommitUpdateEmployee
    <3> QED BY <1>2, <2>2, <2>3, <3>1 DEF Exists
  <2>4. CASE ~Exists(k.of)
    BY <1>3, <1>4, <2>1, <2>4 DEF CommitUpdateEmployee
  <2> QED BY <2>3, <2>4
<1>5. ASSUME NEW c \in Calls, WriteStatus(c) PROVE HistoryGrows(e)
  <2>1. PICK k : k = call[c]
    OBVIOUS
  <2>2. k.to \in Statuses
    BY <1>5, <2>1, Alive DEF WriteStatus, Running, CallState
  <2>3. Exists(k.of) /\ history' = [history EXCEPT ![k.of] = Append(@, k.to)]
    BY <1>5, <2>1 DEF WriteStatus
  <2> QED BY <1>2, <2>2, <2>3 DEF Exists
<1>6. ASSUME NEW c \in Calls, CommitUpdateEmployment(c) PROVE HistoryGrows(e)
  <2>1. PICK k : k = call[c]
    OBVIOUS
  <2>2. k.to \in Statuses
    BY <1>6, <2>1, Alive DEF CommitUpdateEmployment, Running, CallState
  <2>3. CASE Exists(k.of)
    <3>1. history' = history \/ history' = [history EXCEPT ![k.of] = Append(@, k.to)]
      BY <1>6, <2>1, <2>3 DEF CommitUpdateEmployment
    <3> QED BY <1>2, <2>2, <2>3, <3>1 DEF Exists
  <2>4. CASE ~Exists(k.of)
    BY <1>3, <1>6, <2>1, <2>4 DEF CommitUpdateEmployment
  <2> QED BY <2>3, <2>4
<1>7. ASSUME NEW c \in Calls, ApplyPurge(c) PROVE HistoryGrows(e)
  <2>1. PICK k : k = call[c]
    OBVIOUS
  <2>2. k.confirmed \subseteq k.of
    BY <1>7, <2>1, Alive DEF ApplyPurge, Running, CallState
  <2>3. history' = PurgedHistory(k.confirmed) /\ e \notin k.of
    BY <1>7, <2>1 DEF ApplyPurge
  <2> QED BY <1>1, <2>2, <2>3 DEF PurgedHistory, HistoryGrows
<1>8. ASSUME NEW c \in Calls, Start(c) \/ Fail(c) PROVE UNCHANGED history
  <2>1. CASE Start(c)
    BY <2>1 DEF Start, CreateEmployee, UpdateEmployee, CreateEmployeeAccount,
         DeactivateEmployee, UpdateEmployeeStatus, UpdateEmployment, SaveAddress, SaveInsurance,
         SaveDependent, SaveEducation, SaveCustomData, SaveRow, SaveBankAccount,
         SetPrimaryBankAccount, DeleteAddress, DeleteDependent, DeleteEducation,
         DeleteCustomData, DeleteBankAccount, DeleteRow, RecordAttendance, UploadDocument,
         DeleteDocument, PermanentlyDelete, AnalyzePurge
  <2>2. CASE Fail(c)
    BY <2>2 DEF Fail
  <2> QED BY <1>8, <2>1, <2>2
<1>9. ASSUME NEW c \in Calls, Continue(c), ~CommitUpdateEmployee(c), ~WriteStatus(c),
             ~CommitUpdateEmployment(c), ~ApplyPurge(c)
      PROVE  UNCHANGED history
  BY <1>9 DEF Continue, CommitCreateEmployee, CommitCreateEmployeeAccount, ReadStatus,
       CommitSaveRow, CommitBankAccount, StoreFile, InsertDocument, DeleteDocumentRow,
       DeleteDocumentFile, CommitPermanentlyDelete, AuditPermanentDelete, DeleteStorage,
       DecidePurge, ConfirmTestData, PurgeNotCommitted
<1> QED BY <1>3, <1>4, <1>5, <1>6, <1>7, <1>8, <1>9 DEF Next, vars

(* Who leaves had no protected row, and a history only if a purge has read *)
(* his number as that of test data.                                        *)
LEMMA LeaversStep ==
    ASSUME IInv, [Next]_vars, NEW e \in DOMAIN employee \ DOMAIN employee'
    PROVE  /\ ~\E r \in RowsOf(e) : r.kind \in Protected
           /\ history[e] # <<>> =>
                 \E c \in Calls : Running(c, "purge rows") /\ e \in call[c].confirmed
<1> DEFINE Leaves ==
       /\ ~\E r \in RowsOf(e) : r.kind \in Protected
       /\ history[e] # <<>> =>
             \E c \in Calls : Running(c, "purge rows") /\ e \in call[c].confirmed
<1>1. \A k \in Protected : Disposition(k) = "protected"
  BY DEF Protected, Disposition, Deletable, Single
<1>2. e \in Ids
  BY Existing
<1>3. ASSUME NEW c \in Calls, CommitPermanentlyDelete(c) PROVE Leaves
  <2>1. e \in call[c].of
    BY <1>3 DEF CommitPermanentlyDelete, Without
  <2>2. ~HasProtected(e)
    BY <1>3, <2>1 DEF CommitPermanentlyDelete, MayPermanentlyDelete
  <2> QED BY <1>1, <2>2 DEF HasProtected
<1>4. ASSUME NEW c \in Calls, ApplyPurge(c) PROVE Leaves
  <2> DEFINE S == call[c].of
             left == {r \in rows : r.of \in S => Disposition(r.kind) = "protected"}
  <2>1. /\ Running(c, "purge rows") /\ DOMAIN employee' = DOMAIN employee \ S
        /\ \A x \in S : history'[x] = <<>> /\ ~\E r \in left : r.of = x
        /\ history' = PurgedHistory(call[c].confirmed)
    BY <1>4 DEF ApplyPurge
  <2>2. e \in S
    BY <2>1
  <2>3. ~\E r \in RowsOf(e) : r.kind \in Protected
    BY <1>1, <2>1, <2>2 DEF RowsOf
  <2>4. history[e] # <<>> => e \in call[c].confirmed
    BY <1>2, <2>1, <2>2 DEF PurgedHistory
  <2> QED BY <2>1, <2>3, <2>4
<1>5. ASSUME NEW c \in Calls, Start(c) \/ Fail(c) PROVE UNCHANGED employee
  <2>1. CASE Start(c)
    BY <2>1 DEF Start, CreateEmployee, UpdateEmployee, CreateEmployeeAccount,
         DeactivateEmployee, UpdateEmployeeStatus, UpdateEmployment, SaveAddress, SaveInsurance,
         SaveDependent, SaveEducation, SaveCustomData, SaveRow, SaveBankAccount,
         SetPrimaryBankAccount, DeleteAddress, DeleteDependent, DeleteEducation,
         DeleteCustomData, DeleteBankAccount, DeleteRow, RecordAttendance, UploadDocument,
         DeleteDocument, PermanentlyDelete, AnalyzePurge
  <2>2. CASE Fail(c)
    BY <2>2 DEF Fail
  <2> QED BY <1>5, <2>1, <2>2
<1>6. ASSUME NEW c \in Calls, Continue(c), ~CommitPermanentlyDelete(c), ~ApplyPurge(c)
      PROVE  DOMAIN employee \subseteq DOMAIN employee'
  BY <1>6 DEF Continue, CommitCreateEmployee, CommitUpdateEmployee, CommitCreateEmployeeAccount,
       ReadStatus, WriteStatus, CommitUpdateEmployment, CommitSaveRow, CommitBankAccount,
       StoreFile, InsertDocument, DeleteDocumentRow, DeleteDocumentFile, AuditPermanentDelete,
       DeleteStorage, DecidePurge, ConfirmTestData, PurgeNotCommitted
<1> HIDE DEF Leaves
<1>7. Leaves
  BY <1>3, <1>4, <1>5, <1>6 DEF Next, vars
<1> QED BY <1>7 DEF Leaves

(* Whom a purge confirms has, at that moment, the number of test data.     *)
LEMMA ConfirmedStep ==
    ASSUME IInv, [Next]_vars, NEW c \in Calls, Running(c, "apply"), call'[c].op = "purge rows"
    PROVE  \A e \in call'[c].confirmed : Exists(e) /\ IsTest(e)
<1>1. DOMAIN call = Calls
  BY DEF IInv, CallsFit
<1>2. ASSUME NEW d \in Calls, NEW s, Becomes(d, s), d # c PROVE FALSE
  <2>1. call'[c] = call[c]
    BY <1>1, <1>2 DEF Becomes
  <2> QED BY <2>1 DEF Running
<1>3. ASSUME NEW d \in Calls, Start(d) \/ Continue(d) \/ Fail(d)
      PROVE  \E s : Becomes(d, s)
  <2>1. CASE Start(d)
    BY <2>1 DEF Start, CreateEmployee, UpdateEmployee, CreateEmployeeAccount,
         DeactivateEmployee, UpdateEmployeeStatus, UpdateEmployment, SaveAddress, SaveInsurance,
         SaveDependent, SaveEducation, SaveCustomData, SaveRow, SaveBankAccount,
         SetPrimaryBankAccount, DeleteAddress, DeleteDependent, DeleteEducation,
         DeleteCustomData, DeleteBankAccount, DeleteRow, RecordAttendance, UploadDocument,
         DeleteDocument, PermanentlyDelete, AnalyzePurge
  <2>2. CASE Continue(d)
    BY <2>2 DEF Continue, CommitCreateEmployee, CommitUpdateEmployee,
         CommitCreateEmployeeAccount, ReadStatus, WriteStatus, CommitUpdateEmployment,
         CommitSaveRow, CommitBankAccount, StoreFile, InsertDocument, DeleteDocumentRow,
         DeleteDocumentFile, CommitPermanentlyDelete, AuditPermanentDelete, DeleteStorage,
         DecidePurge, ConfirmTestData, ApplyPurge, PurgeNotCommitted
  <2>3. CASE Fail(d)
    BY <2>3 DEF Fail
  <2> QED BY <1>3, <2>1, <2>2, <2>3
<1>4. ~Start(c)
  <2>1. Idle.op = "idle"
    BY DEF Idle
  <2> QED BY <2>1 DEF Start, Running
<1>5. ~Fail(c)
  <2>1. Done.op = "done"
    BY DEF Done
  <2> QED BY <1>1, <2>1 DEF Fail, Becomes
<1>6. Continue(c) => ConfirmTestData(c)
  BY DEF Continue, CommitCreateEmployee, CommitUpdateEmployee, CommitCreateEmployeeAccount,
       ReadStatus, WriteStatus, CommitUpdateEmployment, CommitSaveRow, CommitBankAccount,
       StoreFile, InsertDocument, DeleteDocumentRow, DeleteDocumentFile,
       CommitPermanentlyDelete, AuditPermanentDelete, DeleteStorage, DecidePurge,
       ApplyPurge, PurgeNotCommitted, Running
<1>7. ~UNCHANGED vars
  BY DEF vars, Running
<1>8. ConfirmTestData(c)
  BY <1>2, <1>3, <1>4, <1>5, <1>6, <1>7 DEF Next
<1>9. call'[c].confirmed = TestDataAmong(call[c].of)
  BY <1>1, <1>8 DEF ConfirmTestData, Becomes
<1> QED BY <1>9 DEF TestDataAmong

(* Nothing that the law protects goes by an interleaving: who leaves had no *)
(* protected row, the history of one who stays only grows, and that of one *)
(* who leaves was taken by a purge whose transaction had read his number   *)
(* as that of test data, before the deletes.                               *)
THEOREM ProtectedHistoryStays == Spec => ProtectedHistorySurvives
<1> DEFINE Step ==
       /\ \A e \in DOMAIN employee \cap DOMAIN employee' : HistoryGrows(e)
       /\ \A e \in DOMAIN employee \ DOMAIN employee' :
             /\ ~\E r \in RowsOf(e) : r.kind \in Protected
             /\ history[e] # <<>> =>
                   \E c \in Calls : Running(c, "purge rows") /\ e \in call[c].confirmed
       /\ \A c \in Calls : Running(c, "apply") /\ call'[c].op = "purge rows" =>
             \A e \in call'[c].confirmed : Exists(e) /\ IsTest(e)
<1>1. IInv /\ [Next]_vars => [Step]_vars
  BY HistoryStep, LeaversStep, ConfirmedStep
<1> QED BY <1>1, RecordsInductive, PTL DEF Spec, ProtectedHistorySurvives

-----------------------------------------------------------------------------
(* The pages                                                               *)

(* An employee has one primary bank account at most, and no two with one id. *)
OnePrimary ==
    \A q, r \in rows :
        /\ q.kind = "bank" /\ r.kind = "bank" /\ q.of = r.of
        /\ q.id = r.id \/ (q.primary /\ r.primary)
        => q = r

(* Accounts are saved and made primary in two statements of a transaction; *)
(* rows of other kinds never disturb them.                                 *)
LEMMA PrimaryStep == IInv /\ OnePrimary /\ [Next]_vars => OnePrimary'
<1> SUFFICES ASSUME IInv, OnePrimary, [Next]_vars PROVE OnePrimary'
  OBVIOUS
<1>1. ASSUME \A r \in rows' : r \in rows \/ r.kind # "bank" PROVE OnePrimary'
  BY <1>1 DEF OnePrimary
<1>2. ASSUME NEW c \in Calls, CommitBankAccount(c) PROVE OnePrimary'
  <2> DEFINE k == call[c]
             x == Insert(k.of, "bank", c, k.primary)
             Is(r) == r.of = k.of /\ r.kind = "bank" /\ k.primary
             Cleared(r) == IF Is(r) THEN [r EXCEPT !.primary = r.id = k.id] ELSE r
  <2>1. k # Done /\ CallState(k) /\ k.op = "bank"
    BY <1>2, Alive DEF CommitBankAccount, Running
  <2>2. k.primary \in BOOLEAN
    BY <2>1 DEF CallState
  <2>3. \A r \in rows : r.id # c
    BY <2>1, EmployeesAssumption DEF IInv, IdsAreUsed, UsedRowIds, Ended
  <2>4. rows' = {Cleared(q) : q \in rows} \cup (IF k.id = c THEN {x} ELSE {})
    BY <1>2 DEF CommitBankAccount
  <2>5. ASSUME NEW q \in rows
        PROVE  /\ Cleared(q).id = q.id /\ Cleared(q).of = q.of /\ Cleared(q).kind = q.kind
               /\ Is(q) => Cleared(q).primary = (q.id = k.id)
               /\ ~Is(q) => Cleared(q) = q
    <3>1. q \in Row
      BY DEF IInv, NothingIsLeftBehind, TypeOK
    <3> QED BY <3>1 DEF Row
  <2>6. x.id = c /\ x.of = k.of /\ x.kind = "bank" /\ x.primary = k.primary
    BY DEF Insert
  <2> HIDE DEF Cleared, x
  <2>7. ASSUME NEW q \in rows, NEW r \in rows, Cleared(q).kind = "bank", Cleared(r).kind = "bank",
               Cleared(q).of = Cleared(r).of,
               Cleared(q).id = Cleared(r).id \/ (Cleared(q).primary /\ Cleared(r).primary)
        PROVE  Cleared(q) = Cleared(r)
    <3>1. q.kind = "bank" /\ r.kind = "bank" /\ q.of = r.of
      BY <2>5, <2>7
    <3>2. q.id = r.id \/ (q.primary /\ r.primary)
      BY <2>5, <2>7, <3>1
    <3> QED BY <3>1, <3>2 DEF OnePrimary
  <2>8. ASSUME NEW q \in rows, k.id = c, Cleared(q).kind = "bank", Cleared(q).of = x.of
        PROVE  Cleared(q).id # x.id /\ ~(Cleared(q).primary /\ x.primary)
    <3>1. Cleared(q).id = q.id /\ q.id # c /\ q.kind = "bank" /\ q.of = k.of
      BY <2>3, <2>5, <2>6, <2>8
    <3>2. k.primary => Cleared(q).primary = (q.id = k.id)
      BY <2>5, <3>1
    <3>3. ~k.primary => ~x.primary
      BY <2>6
    <3>4. q.id # k.id
      BY <2>8, <3>1
    <3> QED BY <2>6, <3>1, <3>2, <3>3, <3>4
  <2>9. ASSUME NEW q \in rows', NEW r \in rows', q.kind = "bank", r.kind = "bank", q.of = r.of,
               q.id = r.id \/ (q.primary /\ r.primary)
        PROVE  q = r
    <3>1. CASE q = x /\ r = x
      BY <3>1
    <3>2. CASE (\E a \in rows : q = Cleared(a)) /\ (\E b \in rows : r = Cleared(b))
      BY <2>7, <2>9, <3>2
    <3>3. CASE k.id = c /\ q = x /\ \E b \in rows : r = Cleared(b)
      BY <2>8, <2>9, <3>3
    <3>4. CASE k.id = c /\ r = x /\ \E a \in rows : q = Cleared(a)
      BY <2>8, <2>9, <3>4
    <3>5. \A y \in rows' : (\E a \in rows : y = Cleared(a)) \/ (k.id = c /\ y = x)
      BY <2>4
    <3> QED BY <3>1, <3>2, <3>3, <3>4, <3>5
  <2> QED BY <2>9 DEF OnePrimary
<1>3. ASSUME NEW c \in Calls, Start(c) PROVE \A r \in rows' : r \in rows \/ r.kind # "bank"
  <2>1. CASE RecordAttendance(c)
    BY <2>1 DEF RecordAttendance, Insert
  <2>2. CASE \E kind \in Deletable : DeleteRow(c, kind)
    BY <2>2 DEF DeleteRow
  <2>3. CASE rows' = rows
    BY <2>3
  <2>4. \A kind : SaveRow(c, kind) => rows' = rows
    BY DEF SaveRow
  <2>5. CASE \/ SaveAddress(c) \/ SaveInsurance(c) \/ SaveDependent(c) \/ SaveEducation(c)
             \/ SaveCustomData(c) \/ SaveBankAccount(c) \/ SetPrimaryBankAccount(c)
    BY <2>3, <2>4, <2>5 DEF SaveAddress, SaveInsurance, SaveDependent, SaveEducation,
         SaveCustomData, SaveBankAccount, SetPrimaryBankAccount
  <2>6. CASE \/ CreateEmployee(c) \/ UpdateEmployee(c) \/ CreateEmployeeAccount(c)
             \/ DeactivateEmployee(c) \/ UpdateEmployeeStatus(c) \/ UpdateEmployment(c)
    BY <2>3, <2>6 DEF CreateEmployee, UpdateEmployee, CreateEmployeeAccount,
         DeactivateEmployee, UpdateEmployeeStatus, UpdateEmployment
  <2>7. CASE UploadDocument(c) \/ DeleteDocument(c) \/ PermanentlyDelete(c) \/ AnalyzePurge(c)
    BY <2>3, <2>7 DEF UploadDocument, DeleteDocument, PermanentlyDelete, AnalyzePurge
  <2>8. CASE \/ DeleteAddress(c) \/ DeleteDependent(c) \/ DeleteEducation(c)
             \/ DeleteCustomData(c) \/ DeleteBankAccount(c)
    BY <2>2, <2>8 DEF DeleteAddress, DeleteDependent, DeleteEducation, DeleteCustomData,
         DeleteBankAccount, Deletable, Single
  <2> QED BY <1>3, <2>1, <2>5, <2>6, <2>7, <2>8 DEF Start
<1>4. ASSUME NEW c \in Calls, CommitSaveRow(c) PROVE \A r \in rows' : r \in rows \/ r.kind # "bank"
  <2>1. call[c].kind # "bank"
    BY <1>4, Alive DEF CallState, CommitSaveRow, Running
  <2> QED BY <1>4, <2>1 DEF CommitSaveRow, Insert
<1>5. ASSUME NEW c \in Calls, Continue(c) \/ Fail(c), ~CommitBankAccount(c), ~CommitSaveRow(c)
      PROVE  \A r \in rows' : r \in rows \/ r.kind # "bank"
  <2>1. CASE InsertDocument(c)
    <3>1. rows' = rows \cup {Insert(call[c].of, "document", c, FALSE)}
      BY <2>1 DEF InsertDocument
    <3>2. Insert(call[c].of, "document", c, FALSE).kind # "bank"
      BY DEF Insert
    <3> QED BY <3>1, <3>2
  <2>2. CASE rows' \subseteq rows
    BY <2>2
  <2>3. CASE \/ CommitUpdateEmployee(c) \/ CommitCreateEmployeeAccount(c) \/ ReadStatus(c)
             \/ WriteStatus(c) \/ CommitUpdateEmployment(c)
    BY <2>2, <2>3 DEF CommitUpdateEmployee, CommitCreateEmployeeAccount, ReadStatus, WriteStatus,
         CommitUpdateEmployment
  <2>7. CASE CommitCreateEmployee(c)
    <3>1. PICK filled \in SUBSET {Insert(c, "custom", c, FALSE)} : rows' = rows \cup filled
      BY <2>7 DEF CommitCreateEmployee
    <3>2. Insert(c, "custom", c, FALSE).kind # "bank"
      BY DEF Insert
    <3> QED BY <3>1, <3>2
  <2>4. CASE StoreFile(c) \/ DeleteDocumentRow(c) \/ DeleteDocumentFile(c) \/ Fail(c)
    BY <2>2, <2>4 DEF StoreFile, DeleteDocumentRow, DeleteDocumentFile, Fail
  <2>5. CASE CommitPermanentlyDelete(c) \/ AuditPermanentDelete(c) \/ DeleteStorage(c)
    BY <2>2, <2>5 DEF CommitPermanentlyDelete, AuditPermanentDelete, DeleteStorage
  <2>6. CASE DecidePurge(c) \/ ConfirmTestData(c) \/ ApplyPurge(c) \/ PurgeNotCommitted(c)
    BY <2>2, <2>6 DEF DecidePurge, ConfirmTestData, ApplyPurge, PurgeNotCommitted
  <2> QED BY <1>5, <2>1, <2>3, <2>4, <2>5, <2>6, <2>7 DEF Continue
<1> QED BY <1>1, <1>2, <1>3, <1>4, <1>5 DEF Next, vars, OnePrimary

LEMMA PrimaryStart == Init => OnePrimary
<1> SUFFICES ASSUME Init PROVE OnePrimary
  OBVIOUS
<1> DEFINE R(e, k) == Insert(e, k, "seed", k = "bank")
<1>1. rows = {R(e, k) : e \in Seeded, k \in {"bank", "document"}}
  BY DEF Init
<1>2. \A e, k : R(e, k).of = e /\ R(e, k).kind = k
  BY DEF Insert
<1> HIDE DEF R
<1>3. ASSUME NEW q \in rows, NEW r \in rows, q.kind = "bank", r.kind = "bank", q.of = r.of
      PROVE  q = r
  <2>1. PICK a \in Seeded : \E i \in {"bank", "document"} : q = R(a, i)
    BY <1>1
  <2>2. PICK i \in {"bank", "document"} : q = R(a, i)
    BY <2>1
  <2>3. PICK b \in Seeded : \E j \in {"bank", "document"} : r = R(b, j)
    BY <1>1
  <2>4. PICK j \in {"bank", "document"} : r = R(b, j)
    BY <2>3
  <2> QED BY <1>2, <1>3, <2>2, <2>4
<1> QED BY <1>3 DEF OnePrimary

(* What the form of a call in the state s was checked for when it was      *)
(* sent: nobody is his own manager, a deletion names one employee and a    *)
(* purge at least one.                                                     *)
Aimed(s) ==
    /\ s.op = "employment" => s.manager # s.of
    /\ s.op = "delete" => \E e : s.of = {e}
    /\ s.op = "purge" => s.of # {}

CallsAim == \A c \in Calls : Aimed(call[c])

NobodyManagesHimself == \A e \in DOMAIN employee : employee[e].manager # e

LEMMA NewAim ==
    ASSUME IInv, CallsAim, NEW c \in Calls, NEW s, Becomes(c, s), Aimed(s)
    PROVE  CallsAim'
<1> SUFFICES ASSUME NEW d \in Calls PROVE Aimed(call'[d])
  BY DEF CallsAim, Aimed
<1>1. call'[d] = IF d = c THEN s ELSE call[d]
  BY DEF Becomes, IInv, CallsFit
<1> QED BY <1>1 DEF CallsAim

LEMMA AimsStep == IInv /\ CallsAim /\ [Next]_vars => CallsAim'
<1> SUFFICES ASSUME IInv, CallsAim, [Next]_vars PROVE CallsAim'
  OBVIOUS
<1> DEFINE Aims(c) == \E s : Becomes(c, s) /\ Aimed(s)
<1>1. Aimed(Done)
  BY DEF Aimed, Done
<1>2. ASSUME NEW c \in Calls, Start(c) PROVE Aims(c)
  <2>1. CASE \/ CreateEmployee(c) \/ UpdateEmployee(c) \/ CreateEmployeeAccount(c)
             \/ DeactivateEmployee(c) \/ UpdateEmployeeStatus(c)
    <3>1. CASE CreateEmployee(c)
      <4>1. PICK n \in Numbers, u \in Accounts \cup {None} :
               Becomes(c, [op |-> "create", number |-> n, user |-> u])
        BY <3>1 DEF CreateEmployee
      <4> QED BY <4>1 DEF Aimed
    <3>2. CASE UpdateEmployee(c)
      <4>1. \E e, new, old : Becomes(c, [op |-> "update", of |-> e, old |-> old, new |-> new])
        BY <3>2 DEF UpdateEmployee
      <4>2. PICK e, new, old : Becomes(c, [op |-> "update", of |-> e, old |-> old, new |-> new])
        BY <4>1
      <4> QED BY <4>2 DEF Aimed
    <3>3. CASE CreateEmployeeAccount(c)
      <4>1. PICK e : Becomes(c, [op |-> "account", of |-> e])
        BY <3>3 DEF CreateEmployeeAccount
      <4> QED BY <4>1 DEF Aimed
    <3>4. CASE DeactivateEmployee(c) \/ UpdateEmployeeStatus(c)
      <4>1. PICK e \in DOMAIN employee, op \in {"deactivate", "status"}, to \in Statuses :
               Becomes(c, [op |-> op, of |-> e, to |-> to])
        BY <3>4 DEF DeactivateEmployee, UpdateEmployeeStatus, Statuses
      <4> QED BY <4>1 DEF Aimed
    <3> QED BY <2>1, <3>1, <3>2, <3>3, <3>4
  <2>2. CASE UpdateEmployment(c)
    <3>1. PICK e \in DOMAIN employee, m \in DOMAIN employee \cup {None}, to \in Statuses :
             /\ m # e
             /\ Becomes(c, [op |-> "employment", of |-> e, manager |-> m, to |-> to,
                            changed |-> m # employee[e].manager \/ to # employee[e].status])
      BY <2>2 DEF UpdateEmployment
    <3> QED BY <3>1 DEF Aimed
  <2>3. CASE \E kind : SaveRow(c, kind)
    BY <2>3 DEF SaveRow, Aimed
  <2>4. CASE \E kind : DeleteRow(c, kind)
    BY <1>1, <2>4 DEF DeleteRow
  <2>5. CASE SaveBankAccount(c) \/ SetPrimaryBankAccount(c) \/ UploadDocument(c) \/ DeleteDocument(c)
    <3>1. CASE SaveBankAccount(c) \/ SetPrimaryBankAccount(c)
      <4>1. \E e, id, p : Becomes(c, [op |-> "bank", of |-> e, id |-> id, primary |-> p])
        BY <3>1 DEF SaveBankAccount, SetPrimaryBankAccount
      <4>2. PICK e, id, p : Becomes(c, [op |-> "bank", of |-> e, id |-> id, primary |-> p])
        BY <4>1
      <4> QED BY <4>2 DEF Aimed
    <3>2. CASE UploadDocument(c)
      <4>1. PICK e : Becomes(c, [op |-> "upload", of |-> e])
        BY <3>2 DEF UploadDocument
      <4> QED BY <4>1 DEF Aimed
    <3>3. CASE DeleteDocument(c)
      <4>1. \E e, id : Becomes(c, [op |-> "delete document", of |-> e, id |-> id])
        BY <3>3 DEF DeleteDocument
      <4>2. PICK e, id : Becomes(c, [op |-> "delete document", of |-> e, id |-> id])
        BY <4>1
      <4> DEFINE s == [op |-> "delete document", of |-> e, id |-> id]
      <4>3. s.op = "delete document"
        OBVIOUS
      <4> HIDE DEF s
      <4>4. Aimed(s)
        BY <4>3 DEF Aimed
      <4> QED BY <4>2, <4>4 DEF s
    <3> QED BY <2>5, <3>1, <3>2, <3>3
  <2>6. CASE PermanentlyDelete(c)
    <3>1. PICK e \in DOMAIN employee :
             Becomes(c, [op |-> "delete", of |-> {e}, number |-> employee[e].number])
      BY <2>6 DEF PermanentlyDelete
    <3> DEFINE s == [op |-> "delete", of |-> {e}, number |-> employee[e].number]
    <3>2. s.op = "delete" /\ s.of = {e}
      OBVIOUS
    <3> HIDE DEF s
    <3>3. Aimed(s)
      BY <3>2 DEF Aimed
    <3> QED BY <3>1, <3>3 DEF s
  <2>7. CASE AnalyzePurge(c)
    <3>1. PICK S \in SUBSET DOMAIN employee :
             S # {} /\ Becomes(c, [op |-> "purge", of |-> S, token |-> PlanToken(S)])
      BY <2>7 DEF AnalyzePurge
    <3> QED BY <3>1 DEF Aimed
  <2>8. CASE RecordAttendance(c)
    BY <1>1, <2>8 DEF RecordAttendance
  <2> QED BY <1>2, <2>1, <2>2, <2>3, <2>4, <2>5, <2>6, <2>7, <2>8
          DEF Start, SaveAddress, SaveInsurance, SaveDependent, SaveEducation, SaveCustomData,
              DeleteAddress, DeleteDependent, DeleteEducation, DeleteCustomData, DeleteBankAccount
<1>3. ASSUME NEW c \in Calls, Continue(c) \/ Fail(c) PROVE Aims(c)
  <2>1. PICK k : k = call[c]
    OBVIOUS
  <2>2. CallState(k)
    BY <2>1, Alive
  <2>3. CASE \/ CommitCreateEmployee(c) \/ CommitUpdateEmployee(c)
             \/ CommitCreateEmployeeAccount(c) \/ WriteStatus(c) \/ CommitUpdateEmployment(c)
             \/ CommitSaveRow(c) \/ CommitBankAccount(c) \/ InsertDocument(c)
             \/ DeleteDocumentFile(c) \/ DeleteStorage(c) \/ PurgeNotCommitted(c) \/ Fail(c)
    BY <1>1, <2>3 DEF CommitCreateEmployee, CommitUpdateEmployee, CommitCreateEmployeeAccount,
         WriteStatus, CommitUpdateEmployment, CommitSaveRow, CommitBankAccount, InsertDocument,
         DeleteDocumentFile, DeleteStorage, PurgeNotCommitted, Fail
  <2>4. CASE ReadStatus(c)
    <3>1. /\ k \in [op : {"deactivate", "status", "write status"}, of : Ids, to : Statuses]
          /\ Becomes(c, Done) \/ Becomes(c, [k EXCEPT !.op = "write status"])
      BY <2>1, <2>2, <2>4 DEF ReadStatus, CallState
    <3>2. Aimed([k EXCEPT !.op = "write status"])
      BY <3>1 DEF Aimed
    <3> QED BY <1>1, <3>1, <3>2
  <2>5. CASE StoreFile(c)
    <3>1. /\ k \in [op : {"upload", "insert document"}, of : Ids]
          /\ Becomes(c, [k EXCEPT !.op = "insert document"])
      BY <2>1, <2>2, <2>5 DEF StoreFile, Running, CallState
    <3>2. Aimed([k EXCEPT !.op = "insert document"])
      BY <3>1 DEF Aimed
    <3> QED BY <3>1, <3>2
  <2>6. CASE DeleteDocumentRow(c)
    <3>1. /\ k \in [op : {"delete document", "delete file"}, of : Ids, id : Calls \cup {"seed"}]
          /\ Becomes(c, [k EXCEPT !.op = "delete file"])
      BY <2>1, <2>2, <2>6 DEF DeleteDocumentRow, Running, CallState
    <3>2. Aimed([k EXCEPT !.op = "delete file"])
      BY <3>1 DEF Aimed
    <3> QED BY <3>1, <3>2
  <2>7. CASE CommitPermanentlyDelete(c) \/ AuditPermanentDelete(c)
    <3>1. /\ k \in [op : {"delete", "audit"}, of : SUBSET Ids, number : Numbers]
          /\ \/ Becomes(c, [k EXCEPT !.op = "audit"])
             \/ Becomes(c, [k EXCEPT !.op = "storage"])
      BY <2>1, <2>2, <2>7
         DEF CommitPermanentlyDelete, AuditPermanentDelete, Running, CallState
    <3>2. Aimed([k EXCEPT !.op = "audit"]) /\ Aimed([k EXCEPT !.op = "storage"])
      BY <3>1 DEF Aimed
    <3> QED BY <3>1, <3>2
  <2>8. CASE DecidePurge(c) \/ ConfirmTestData(c) \/ ApplyPurge(c)
    <3>1. \A of, reports, confirmed :
           Aimed([op |-> "purge rows", of |-> of, reports |-> reports,
                  confirmed |-> confirmed])
      BY DEF Aimed
    <3>2. CASE ConfirmTestData(c)
      BY <3>1, <3>2 DEF ConfirmTestData
    <3>3. \A of, reports : /\ Aimed([op |-> "apply", of |-> of, reports |-> reports])
                            /\ Aimed([op |-> "storage", of |-> of])
      BY DEF Aimed
    <3>4. CASE DecidePurge(c)
      BY <3>3, <3>4 DEF DecidePurge
    <3>5. CASE ApplyPurge(c)
      BY <3>3, <3>5 DEF ApplyPurge
    <3> QED BY <2>8, <3>2, <3>4, <3>5
  <2> QED BY <1>3, <2>3, <2>4, <2>5, <2>6, <2>7, <2>8 DEF Continue
<1>4. \A c \in Calls : Aims(c) => CallsAim'
  BY NewAim
<1>5. CASE UNCHANGED vars
  BY <1>5 DEF vars, CallsAim, Aimed
<1> QED BY <1>2, <1>3, <1>4, <1>5 DEF Next

LEMMA NobodyManagesHimselfStep ==
    IInv /\ CallsAim /\ NobodyManagesHimself /\ [Next]_vars => NobodyManagesHimself'
<1> SUFFICES ASSUME IInv, CallsAim, NobodyManagesHimself, [Next]_vars PROVE NobodyManagesHimself'
  OBVIOUS
<1>1. ASSUME \A e \in DOMAIN employee' : \/ employee'[e].manager \in {None}
                                          \/ /\ e \in DOMAIN employee
                                             /\ employee'[e].manager = employee[e].manager
      PROVE  NobodyManagesHimself'
  <2>1. DOMAIN employee' \subseteq Ids
    BY EmployeesStep DEF IInv, NothingIsLeftBehind, TypeOK
  <2>2. None \notin Ids
    BY EmployeesAssumption DEF Ids
  <2> QED BY <1>1, <2>1, <2>2 DEF NobodyManagesHimself
<1>2. ASSUME NEW c \in Calls, CommitCreateEmployee(c) PROVE NobodyManagesHimself'
  BY <1>1, <1>2 DEF CommitCreateEmployee
<1>3. ASSUME NEW c \in Calls, CommitUpdateEmployee(c) PROVE NobodyManagesHimself'
  <2>1. PICK k : k = call[c]
    OBVIOUS
  <2>2. k.new \in Employee
    BY <1>3, <2>1, Alive DEF CommitUpdateEmployee, Running, CallState
  <2>3. \A m : [k.new EXCEPT !.manager = m].manager = m
    BY <2>2 DEF Employee
  <2>4. CASE Exists(k.of)
    <3>1. employee' = [employee EXCEPT ![k.of] = [k.new EXCEPT !.manager = employee[k.of].manager]]
      BY <1>3, <2>1, <2>4 DEF CommitUpdateEmployee
    <3> QED BY <1>1, <2>3, <2>4, <3>1 DEF Exists
  <2>5. CASE ~Exists(k.of)
    BY <1>1, <1>3, <2>1, <2>5 DEF CommitUpdateEmployee
  <2> QED BY <2>4, <2>5
<1>4. ASSUME NEW c \in Calls, CommitUpdateEmployment(c) PROVE NobodyManagesHimself'
  <2>1. PICK k : k = call[c]
    OBVIOUS
  <2>2. k.manager # k.of
    BY <1>4, <2>1 DEF CommitUpdateEmployment, Running, CallsAim, Aimed
  <2>3. CASE Exists(k.of)
    <3>1. /\ DOMAIN employee' = DOMAIN employee
          /\ employee'[k.of].manager = k.manager
          /\ \A e \in DOMAIN employee : e # k.of => employee'[e] = employee[e]
      <4>1. employee[k.of] \in Employee
        BY <2>3, Existing DEF Exists
      <4>2. employee' = [employee EXCEPT ![k.of].manager = k.manager, ![k.of].status = k.to]
        BY <1>4, <2>1, <2>3 DEF CommitUpdateEmployment
      <4> QED BY <2>3, <4>1, <4>2 DEF Exists, Employee
    <3> QED BY <2>2, <3>1 DEF NobodyManagesHimself
  <2>4. CASE ~Exists(k.of)
    BY <1>1, <1>4, <2>1, <2>4 DEF CommitUpdateEmployment
  <2> QED BY <2>3, <2>4
<1>5. ASSUME NEW c \in Calls, CommitCreateEmployeeAccount(c) \/ WriteStatus(c)
      PROVE  NobodyManagesHimself'
  <2>1. \A e \in DOMAIN employee : employee[e] \in Employee
    BY Existing
  <2>2. /\ DOMAIN employee' = DOMAIN employee
        /\ \A e \in DOMAIN employee : employee'[e].manager = employee[e].manager
    <3>1. CASE CommitCreateEmployeeAccount(c)
      <4>1. \A e \in DOMAIN employee : [employee[e] EXCEPT !.user = c].manager = employee[e].manager
        BY <2>1 DEF Employee
      <4> QED BY <3>1, <4>1 DEF CommitCreateEmployeeAccount
    <3>2. CASE WriteStatus(c)
      <4>1. PICK k : k = call[c]
        OBVIOUS
      <4>2. Exists(k.of) /\ employee' = [employee EXCEPT ![k.of].status = k.to]
        BY <3>2, <4>1 DEF WriteStatus
      <4> QED BY <2>1, <4>2 DEF Exists, Employee
    <3> QED BY <1>5, <3>1, <3>2
  <2> QED BY <1>1, <2>2
<1>6. ASSUME NEW c \in Calls, CommitPermanentlyDelete(c) \/ ApplyPurge(c)
      PROVE  NobodyManagesHimself'
  <2>1. \A e \in DOMAIN employee :
           employee[e] \in Employee /\ [employee[e] EXCEPT !.manager = None].manager = None
    BY Existing DEF Employee
  <2>2. CASE CommitPermanentlyDelete(c)
    BY <1>1, <2>1, <2>2 DEF CommitPermanentlyDelete, Without
  <2>3. CASE ApplyPurge(c)
    <3> DEFINE unlinked == [e \in DOMAIN employee |->
                              IF e \in call[c].reports
                              THEN [employee[e] EXCEPT !.manager = None] ELSE employee[e]]
    <3>1. employee' = [e \in DOMAIN unlinked \ call[c].of |->
                         IF unlinked[e].manager \in call[c].of
                         THEN [unlinked[e] EXCEPT !.manager = None] ELSE unlinked[e]]
      BY <2>3 DEF ApplyPurge
    <3>2. /\ DOMAIN unlinked = DOMAIN employee
          /\ \A e \in DOMAIN employee : /\ unlinked[e].manager \in {None, employee[e].manager}
                                        /\ [unlinked[e] EXCEPT !.manager = None].manager = None
      BY <2>1 DEF Employee
    <3> HIDE DEF unlinked
    <3> QED BY <1>1, <3>1, <3>2
  <2> QED BY <1>6, <2>2, <2>3
<1>7. CASE UNCHANGED employee
  BY <1>7 DEF NobodyManagesHimself
<1>8. ASSUME NEW c \in Calls, Start(c) PROVE UNCHANGED employee
  BY <1>8 DEF Start, CreateEmployee, UpdateEmployee, CreateEmployeeAccount, DeactivateEmployee,
       UpdateEmployeeStatus, UpdateEmployment, SaveRow, SaveAddress, SaveInsurance, SaveDependent,
       SaveEducation, SaveCustomData, SaveBankAccount, SetPrimaryBankAccount, DeleteRow,
       DeleteAddress, DeleteDependent, DeleteEducation, DeleteCustomData, DeleteBankAccount,
       RecordAttendance, UploadDocument, DeleteDocument, PermanentlyDelete, AnalyzePurge
<1>9. ASSUME NEW c \in Calls, Continue(c) \/ Fail(c),
             ~(CommitCreateEmployee(c) \/ CommitUpdateEmployee(c) \/ CommitUpdateEmployment(c)),
             ~(CommitCreateEmployeeAccount(c) \/ WriteStatus(c)),
             ~(CommitPermanentlyDelete(c) \/ ApplyPurge(c))
      PROVE  UNCHANGED employee
  <2>1. CASE ReadStatus(c) \/ CommitSaveRow(c) \/ CommitBankAccount(c) \/ StoreFile(c)
    BY <2>1 DEF ReadStatus, CommitSaveRow, CommitBankAccount, StoreFile
  <2>2. CASE InsertDocument(c) \/ DeleteDocumentRow(c) \/ DeleteDocumentFile(c) \/ Fail(c)
    BY <2>2 DEF InsertDocument, DeleteDocumentRow, DeleteDocumentFile, Fail
  <2>3. CASE \/ AuditPermanentDelete(c) \/ DeleteStorage(c)
             \/ DecidePurge(c) \/ ConfirmTestData(c) \/ PurgeNotCommitted(c)
    BY <2>3 DEF AuditPermanentDelete, DeleteStorage, DecidePurge, ConfirmTestData,
         PurgeNotCommitted
  <2> QED BY <1>9, <2>1, <2>2, <2>3 DEF Continue
<1> QED BY <1>2, <1>3, <1>4, <1>5, <1>6, <1>7, <1>8, <1>9 DEF Next, vars

LEMMA AimsAlways == Spec => [](IInv /\ OnePrimary /\ CallsAim /\ NobodyManagesHimself)
<1>1. Init => IInv /\ OnePrimary
  BY EmployeesStart, PrimaryStart
<1>2. Init => CallsAim
  BY DEF Init, CallsAim, Aimed, Idle
<1>3. Init => NobodyManagesHimself
  <2>1. \A e \in Seeded : e # None
    BY EmployeesAssumption
  <2> QED BY <2>1 DEF Init, NobodyManagesHimself
<1>4. IInv /\ OnePrimary /\ CallsAim /\ NobodyManagesHimself /\ [Next]_vars
        => (IInv /\ OnePrimary /\ CallsAim /\ NobodyManagesHimself)'
  BY EmployeesStep, PrimaryStep, AimsStep, NobodyManagesHimselfStep
<1> QED BY <1>1, <1>2, <1>3, <1>4, PTL DEF Spec

(* The list opens: each status is a value of the filter.                   *)
LEMMA DirectoryOpens ==
    ASSUME IInv
    PROVE  /\ DOMAIN EmployeesPage(None).actions = UNION {listEmployees(s) : s \in Statuses}
           /\ \A x \in listEmployeesFlat(None) : getEmployeeById(x.of) = {x.row}
           /\ listEmployees(None) = DOMAIN employee
<1>1. \A e \in DOMAIN employee : employee[e] \in Employee
  BY Existing
<1>2. listEmployees(None) = DOMAIN employee
  BY DEF listEmployees, Matches
<1>3. DOMAIN EmployeesPage(None).actions = DOMAIN employee
  BY <1>2 DEF EmployeesPage
<1>4. \A e \in DOMAIN employee : e \in listEmployees(employee[e].status) /\ employee[e].status \in Statuses
  BY <1>1 DEF listEmployees, Matches, Employee
<1>5. \A s : listEmployees(s) \subseteq DOMAIN employee
  BY DEF listEmployees
<1>6. DOMAIN employee = UNION {listEmployees(s) : s \in Statuses}
  BY <1>4, <1>5
<1>7. ASSUME NEW x \in listEmployeesFlat(None) PROVE getEmployeeById(x.of) = {x.row}
  <2>1. PICK e \in DOMAIN employee : x = [of |-> e, row |-> employee[e]]
    BY DEF listEmployeesFlat
  <2> QED BY <2>1 DEF getEmployeeById, Exists
<1> QED BY <1>2, <1>3, <1>6, <1>7

RowsFirst(S, T) == /\ \A x \in T : \E r \in S : x[1] = r
                   /\ \A r \in S : \E x \in T : x[1] = r

LEMMA Firsts ==
    ASSUME NEW S, NEW A, NEW T, T = {<<r, A[r]>> : r \in S}
    PROVE  RowsFirst(S, T)
<1>1. ASSUME NEW x \in T PROVE \E r \in S : x[1] = r
  <2>1. PICK r \in S : x = <<r, A[r]>>
    OBVIOUS
  <2>2. x[1] = r
    BY <2>1
  <2> QED BY <2>2
<1>2. ASSUME NEW r \in S PROVE \E x \in T : x[1] = r
  <2>1. <<r, A[r]>>[1] = r /\ <<r, A[r]>> \in T
    OBVIOUS
  <2> QED BY <2>1
<1> QED BY <1>1, <1>2 DEF RowsFirst

(* A row of an employee is in the section of its kind.                     *)
LEMMA SectionsShowRows ==
    ASSUME IInv, OnePrimary, NEW e \in DOMAIN employee
    PROVE  LET sections == SectionRows(e)
               shown == UNION {sections[k] : k \in DOMAIN sections}
           IN /\ {x[1] : x \in shown} = RowsOf(e)
              /\ Cardinality({x \in sections.bank : "Set primary" \notin x[2]}) <= 1
<1> DEFINE sections == SectionRows(e)
           shown == UNION {sections[k] : k \in DOMAIN sections}
           kept == {x \in sections.bank : "Set primary" \notin x[2]}
           Kinds == {"address", "insurance", "bank", "dependent", "education", "document",
                     "custom", "attendance"}
<1>1. DOMAIN sections = Kinds
  BY DEF SectionRows
<1>2. /\ \A k \in Kinds : \A x \in sections[k] : \E r \in SectionOf(e, k) : x[1] = r
      /\ \A k \in Kinds : \A r \in SectionOf(e, k) : \E x \in sections[k] : x[1] = r
  <2>1. /\ sections["address"] = {<<r, AddressActions(r)>> : r \in SectionOf(e, "address")}
        /\ sections["insurance"] = {<<r, {}>> : r \in SectionOf(e, "insurance")}
        /\ sections["bank"] = {<<r, BankActions(r)>> : r \in SectionOf(e, "bank")}
        /\ sections["dependent"] = {<<r, DependentActions(r)>> : r \in SectionOf(e, "dependent")}
        /\ sections["education"] = {<<r, EducationActions(r)>> : r \in SectionOf(e, "education")}
        /\ sections["document"] = {<<r, DocumentActions(r)>> : r \in SectionOf(e, "document")}
        /\ sections["custom"] = {<<r, {}>> : r \in SectionOf(e, "custom")}
        /\ sections["attendance"] = {<<r, {}>> : r \in SectionOf(e, "attendance")}
    BY DEF SectionRows
  <2> HIDE DEF sections
  <2> DEFINE Shows(k) == /\ \A x \in sections[k] : \E r \in SectionOf(e, k) : x[1] = r
                        /\ \A r \in SectionOf(e, k) : \E x \in sections[k] : x[1] = r
  <2> HIDE DEF Shows
  <2>2. Shows("address")
    <3> DEFINE S == SectionOf(e, "address")
               A == [r \in S |-> AddressActions(r)]
    <3>1. sections["address"] = {<<r, A[r]>> : r \in S}
      BY <2>1
    <3> HIDE DEF S, A
    <3>2. RowsFirst(S, sections["address"])
      BY <3>1, Firsts
    <3> QED BY <3>2 DEF S, Shows, RowsFirst
  <2>3. Shows("insurance")
    <3> DEFINE S == SectionOf(e, "insurance")
               A == [r \in S |-> {}]
    <3>1. sections["insurance"] = {<<r, A[r]>> : r \in S}
      BY <2>1
    <3> HIDE DEF S, A
    <3>2. RowsFirst(S, sections["insurance"])
      BY <3>1, Firsts
    <3> QED BY <3>2 DEF S, Shows, RowsFirst
  <2>4. Shows("bank")
    <3> DEFINE S == SectionOf(e, "bank")
               A == [r \in S |-> BankActions(r)]
    <3>1. sections["bank"] = {<<r, A[r]>> : r \in S}
      BY <2>1
    <3> HIDE DEF S, A
    <3>2. RowsFirst(S, sections["bank"])
      BY <3>1, Firsts
    <3> QED BY <3>2 DEF S, Shows, RowsFirst
  <2>5. Shows("dependent")
    <3> DEFINE S == SectionOf(e, "dependent")
               A == [r \in S |-> DependentActions(r)]
    <3>1. sections["dependent"] = {<<r, A[r]>> : r \in S}
      BY <2>1
    <3> HIDE DEF S, A
    <3>2. RowsFirst(S, sections["dependent"])
      BY <3>1, Firsts
    <3> QED BY <3>2 DEF S, Shows, RowsFirst
  <2>6. Shows("education")
    <3> DEFINE S == SectionOf(e, "education")
               A == [r \in S |-> EducationActions(r)]
    <3>1. sections["education"] = {<<r, A[r]>> : r \in S}
      BY <2>1
    <3> HIDE DEF S, A
    <3>2. RowsFirst(S, sections["education"])
      BY <3>1, Firsts
    <3> QED BY <3>2 DEF S, Shows, RowsFirst
  <2>7. Shows("document")
    <3> DEFINE S == SectionOf(e, "document")
               A == [r \in S |-> DocumentActions(r)]
    <3>1. sections["document"] = {<<r, A[r]>> : r \in S}
      BY <2>1
    <3> HIDE DEF S, A
    <3>2. RowsFirst(S, sections["document"])
      BY <3>1, Firsts
    <3> QED BY <3>2 DEF S, Shows, RowsFirst
  <2>8. Shows("custom")
    <3> DEFINE S == SectionOf(e, "custom")
               A == [r \in S |-> {}]
    <3>1. sections["custom"] = {<<r, A[r]>> : r \in S}
      BY <2>1
    <3> HIDE DEF S, A
    <3>2. RowsFirst(S, sections["custom"])
      BY <3>1, Firsts
    <3> QED BY <3>2 DEF S, Shows, RowsFirst
  <2>9. Shows("attendance")
    <3> DEFINE S == SectionOf(e, "attendance")
               A == [r \in S |-> {}]
    <3>1. sections["attendance"] = {<<r, A[r]>> : r \in S}
      BY <2>1
    <3> HIDE DEF S, A
    <3>2. RowsFirst(S, sections["attendance"])
      BY <3>1, Firsts
    <3> QED BY <3>2 DEF S, Shows, RowsFirst
  <2>10. \A k \in Kinds : Shows(k)
    BY <2>2, <2>3, <2>4, <2>5, <2>6, <2>7, <2>8, <2>9
  <2> QED BY <2>10 DEF Shows
<1>3. \A r \in rows : r.kind \in Kinds
  BY DEF IInv, NothingIsLeftBehind, TypeOK, Row, Protected, Deletable, Single
<1>4. {x[1] : x \in shown} = RowsOf(e)
  <2> HIDE DEF Kinds, sections
  <2>1. \A k : SectionOf(e, k) \subseteq RowsOf(e)
    BY DEF SectionOf
  <2>2. \A r \in RowsOf(e) : r.kind \in Kinds /\ r \in SectionOf(e, r.kind)
    BY <1>3 DEF RowsOf, SectionOf
  <2>3. \A x \in shown : x[1] \in RowsOf(e)
    BY <1>1, <1>2, <2>1
  <2>4. \A r \in RowsOf(e) : \E x \in shown : x[1] = r
    BY <1>1, <1>2, <2>2
  <2> QED BY <2>3, <2>4
<1>5. \A x, y \in kept : x = y
  <2>1. sections.bank = {<<r, BankActions(r)>> : r \in SectionOf(e, "bank")}
    BY DEF SectionRows
  <2> SUFFICES ASSUME NEW x \in kept, NEW y \in kept PROVE x = y
    OBVIOUS
  <2> HIDE DEF sections
  <2>2. PICK q \in SectionOf(e, "bank") : x = <<q, BankActions(q)>>
    BY <2>1
  <2>3. PICK r \in SectionOf(e, "bank") : y = <<r, BankActions(r)>>
    BY <2>1
  <2>4. q.primary /\ r.primary
    BY <2>2, <2>3 DEF BankActions
  <2>5. q \in rows /\ r \in rows /\ q.kind = "bank" /\ r.kind = "bank" /\ q.of = r.of
    BY DEF SectionOf, RowsOf
  <2> QED BY <2>2, <2>3, <2>4, <2>5 DEF OnePrimary
<1>6. Cardinality(kept) <= 1
  <2> HIDE DEF kept
  <2>1. CASE kept = {}
    BY <2>1, FS_EmptySet
  <2>2. CASE kept # {}
    <3>1. PICK x : kept = {x}
      BY <1>5, <2>2
    <3>2. Cardinality({x}) = 1
      BY FS_Singleton
    <3> QED BY <3>1, <3>2
  <2> QED BY <2>1, <2>2
<1> QED BY <1>4, <1>6

LEMMA ListsAreOpen == IInv /\ OnePrimary => ListsOpen
<1> SUFFICES ASSUME IInv, OnePrimary PROVE ListsOpen
  OBVIOUS
<1>1. ASSUME NEW e \in listEmployees(None)
      PROVE  /\ EmployeeDetailPage(e) # {}
             /\ \A page \in EmployeeDetailPage(e) :
                LET shown == UNION {page.sections[k] : k \in DOMAIN page.sections}
                IN /\ {x[1] : x \in shown} = RowsOf(e)
                   /\ page.overview.facts.manager = {} <=> employee[e].manager = None
                   /\ page.overview.toggle = "inactive" <=>
                         "Deactivate" \in EmployeesPage(None).actions[e]
                   /\ Cardinality({x \in page.sections.bank : "Set primary" \notin x[2]}) <= 1
  <2> DEFINE page == [overview |-> Overview(e), sections |-> SectionRows(e), history |-> history[e]]
  <2>1. e \in DOMAIN employee
    BY DirectoryOpens
  <2>2. EmployeeDetailPage(e) = {page}
    BY <2>1 DEF EmployeeDetailPage, getEmployeeById, Exists
  <2>3. page.sections = SectionRows(e) /\ page.overview = Overview(e)
    OBVIOUS
  <2>4. Overview(e).facts.manager = {} <=> employee[e].manager = None
    BY DEF Overview, getEmployeeMasterData
  <2>5. Overview(e).toggle = "inactive" <=> employee[e].status = "active"
    BY DEF Overview, StatusToggle
  <2>6. EmployeesPage(None).actions[e] = RowActions(e)
    BY DEF EmployeesPage
  <2>7. "Deactivate" \in RowActions(e) <=> employee[e].status = "active"
    BY DEF RowActions
  <2> HIDE DEF page
  <2> QED BY <2>1, <2>2, <2>3, <2>4, <2>5, <2>6, <2>7, SectionsShowRows, ZenonT(60)
<1> QED BY <1>1, DirectoryOpens DEF ListsOpen

LEMMA OfferedAreAccepted == IInv => OfferedAccountsAreAccepted
<1> SUFFICES ASSUME IInv PROVE OfferedAccountsAreAccepted
  OBVIOUS
<1>1. None \notin Accounts /\ None \notin DOMAIN employee
  BY EmployeesAssumption DEF IInv, NothingIsLeftBehind, TypeOK, Ids
<1>2. ASSUME NEW e \in DOMAIN employee \cup {None}, NEW u \in Accounts
      PROVE  u \in listLinkableUsers(e) <=> Linkable(u, e)
  BY <1>1 DEF listLinkableUsers, UsersOfOrganization, Linkable
<1>3. ASSUME NEW u \in listLinkableUsers(None) PROVE getEmployeeByUserId(u) = {}
  BY <1>1 DEF listLinkableUsers, UsersOfOrganization, getEmployeeByUserId
<1>4. ASSUME NEW e \in DOMAIN employee, NEW page \in EmployeeDetailPage(e),
             ~page.overview.accountCard
      PROVE  employee[e].user \in page.overview.linkable
                <=> getEmployeeByUserId(employee[e].user) = {e}
  <2>1. page.overview = Overview(e)
    BY DEF EmployeeDetailPage, getEmployeeById
  <2>2. Overview(e).linkable = listLinkableUsers(e)
    BY DEF Overview
  <2>3. Overview(e).accountCard <=> employee[e].user = None
    BY DEF Overview
  <2>4. employee[e].user # None /\ page.overview.linkable = listLinkableUsers(e)
    BY <1>4, <2>1, <2>2, <2>3
  <2> QED BY <2>4 DEF listLinkableUsers, UsersOfOrganization, getEmployeeByUserId
<1> QED BY <1>2, <1>3, <1>4 DEF OfferedAccountsAreAccepted

-----------------------------------------------------------------------------
(* The previews of the deletions                                           *)

LEMMA LabelsAreFinite == IsFiniteSet(Labels)
<1>1. ASSUME NEW a, NEW b PROVE IsFiniteSet({a, b})
  <2>1. {a, b} = {a} \cup {b}
    OBVIOUS
  <2>2. IsFiniteSet({a}) /\ IsFiniteSet({b})
    BY FS_Singleton
  <2>3. IsFiniteSet({a} \cup {b})
    BY <2>2, FS_Union
  <2> QED BY <2>1, <2>3
<1>2. ASSUME NEW a, NEW b, NEW c, NEW d PROVE IsFiniteSet({a, b, c, d})
  <2>1. {a, b, c, d} = {a, b} \cup {c, d}
    OBVIOUS
  <2>2. IsFiniteSet({a, b}) /\ IsFiniteSet({c, d})
    BY <1>1
  <2>3. IsFiniteSet({a, b} \cup {c, d})
    BY <2>2, FS_Union
  <2> QED BY <2>1, <2>3
<1> DEFINE A == {"address", "insurance", "custom", "history"}
           B == {"dependent", "education", "bank", "document"}
<1>3. Labels = (A \cup B) \cup {"attendance"}
  BY DEF Labels, Protected, Deletable, Single
<1>4. IsFiniteSet(A) /\ IsFiniteSet(B)
  BY <1>2
<1> HIDE DEF A, B
<1> QED BY <1>3, <1>4, FS_AddElement, FS_Union

LEMMA RecordsAreFinite ==
    ASSUME IInv
    PROVE  IsFiniteSet(rows) /\ IsFiniteSet(DOMAIN employee)
<1>1. IsFiniteSet(Ids) /\ IsFiniteSet(Calls \cup {"seed"}) /\ IsFiniteSet(BOOLEAN)
  <2>1. BOOLEAN = {TRUE, FALSE} /\ IsFiniteSet({TRUE} \cup {FALSE})
    BY FS_Singleton, FS_Union
  <2> QED BY <2>1, FiniteRecords, FS_AddElement, FS_Union DEF Ids
<1>3. IsFiniteSet(Protected \cup Deletable)
  BY LabelsAreFinite, FS_Subset DEF Labels
<1> DEFINE D == (Ids \X (Protected \cup Deletable)) \X ((Calls \cup {"seed"}) \X BOOLEAN)
           f == [x \in D |-> [of |-> x[1][1], kind |-> x[1][2], id |-> x[2][1], primary |-> x[2][2]]]
<1>4. IsFiniteSet(D)
  BY <1>1, <1>3, FS_Product
<1>5. f \in [D -> Row]
  BY DEF Row
<1>6. ASSUME NEW r \in Row PROVE \E x \in D : f[x] = r
  <2>1. /\ r.of \in Ids /\ r.kind \in Protected \cup Deletable /\ r.id \in Calls \cup {"seed"}
        /\ r.primary \in BOOLEAN
        /\ r = [of |-> r.of, kind |-> r.kind, id |-> r.id, primary |-> r.primary]
    BY DEF Row
  <2> DEFINE x == <<<<r.of, r.kind>>, <<r.id, r.primary>>>>
  <2>2. x \in D /\ x[1][1] = r.of /\ x[1][2] = r.kind /\ x[2][1] = r.id /\ x[2][2] = r.primary
    BY <2>1
  <2> HIDE DEF x
  <2>3. f[x] = r
    BY <2>1, <2>2
  <2> QED BY <2>2, <2>3
<1> HIDE DEF D, f
<1>7. f \in Surjection(D, Row)
  BY <1>5, <1>6 DEF Surjection
<1>8. IsFiniteSet(Row)
  BY <1>4, <1>7, FS_Surjection
<1> QED BY <1>1, <1>8, FS_Subset DEF IInv, NothingIsLeftBehind, TypeOK

(* The listed counts of an employee add up to all that is recorded of him. *)
LEMMA ListingTotal ==
    ASSUME IInv, NEW e \in DOMAIN employee, NEW A, NEW D,
           D = {[label |-> l, count |-> countRows(e, l), disposition |-> A[l]] : l \in Labels}
    PROVE  /\ IsFiniteSet(D) /\ \A d \in D : d.count \in Nat
           /\ TotalOf(D) = Len(history[e]) + Cardinality(RowsOf(e))
           /\ TotalOf(Present(D)) = TotalOf(D)
<1> DEFINE F(l) == [label |-> l, count |-> countRows(e, l), disposition |-> A[l]]
           Kinds == Labels \ {"history"}
<1>1. \A l \in Labels : F(l).label = l /\ F(l).count = countRows(e, l)
  OBVIOUS
<1>2. D = {F(l) : l \in Labels}
  OBVIOUS
<1> HIDE DEF F
<1>3. IsFiniteSet(D)
  <2> DEFINE f == [l \in Labels |-> F(l)]
  <2>1. f \in [Labels -> D] /\ \A d \in D : \E l \in Labels : f[l] = d
    BY <1>2
  <2> HIDE DEF f
  <2>2. f \in Surjection(Labels, D)
    BY <2>1 DEF Surjection
  <2> QED BY <2>2, LabelsAreFinite, FS_Surjection
<1>4. IsFiniteSet(RowsOf(e))
  BY RecordsAreFinite, FS_Subset DEF RowsOf
<1>5. /\ Len(history[e]) \in Nat
      /\ \A l \in Labels : countRows(e, l) \in Nat
  <2>1. history[e] \in Seq(Statuses)
    BY Existing
  <2>2. \A l : SectionOf(e, l) \subseteq RowsOf(e)
    BY DEF SectionOf
  <2>3. \A l : Cardinality(SectionOf(e, l)) \in Nat
    BY <1>4, <2>2, FS_Subset, FS_CardinalityType
  <2> QED BY <2>1, <2>3 DEF countRows
<1>6. \A d \in D : d.count \in Nat
  BY <1>1, <1>2, <1>5
<1>7. /\ "history" \in Labels /\ "history" \notin Protected \cup Deletable
      /\ Kinds = Protected \cup Deletable
  BY DEF Labels, Protected, Deletable, Single
<1> DEFINE w == [d \in D |-> d.count]
           h == F("history")
           T == D \ {h}
           class == [r \in RowsOf(e) |-> F(r.kind)]
<1>8. \A r \in RowsOf(e) : r.kind \in Kinds
  BY <1>7 DEF IInv, NothingIsLeftBehind, TypeOK, Row, RowsOf
<1>9. h \in D /\ h.count = Len(history[e])
  BY <1>1, <1>2, <1>7 DEF countRows
<1> HIDE DEF Kinds, h
<1>10. \A l \in Kinds : l \in Labels /\ l # "history"
  BY DEF Kinds
<1>11. class \in [RowsOf(e) -> T]
  <2> SUFFICES ASSUME NEW r \in RowsOf(e) PROVE F(r.kind) \in T
    OBVIOUS
  <2>1. F(r.kind) \in D /\ F(r.kind).label # "history"
    BY <1>1, <1>2, <1>8, <1>10
  <2>2. h.label = "history"
    BY <1>1, <1>7 DEF h
  <2> QED BY <2>1, <2>2
<1>12. ASSUME NEW t \in T PROVE w[t] = Cardinality({r \in RowsOf(e) : class[r] = t})
  <2>1. PICK l \in Labels : t = F(l)
    BY <1>2
  <2>2. l # "history"
    BY <2>1 DEF h
  <2>3. \A r \in RowsOf(e) : F(r.kind) = t <=> r.kind = l
    BY <1>1, <1>8, <1>10, <2>1
  <2>4. {r \in RowsOf(e) : class[r] = t} = SectionOf(e, l)
    BY <2>3 DEF SectionOf
  <2>5. t.count = Cardinality(SectionOf(e, l))
    BY <1>1, <2>1, <2>2 DEF countRows
  <2> QED BY <2>4, <2>5
<1>13. \A d \in D : w[d] \in Int /\ w[d] = d.count
  BY <1>6
<1>14. TotalOf(D) = SumFunctionOnSet(w, D)
  BY DEF TotalOf
<1>15. TotalOf(Present(D)) = SumFunctionOnSet(w, D)
  <2> DEFINE v == [d \in Present(D) |-> d.count]
  <2>1. /\ Present(D) \subseteq D
        /\ \A d \in Present(D) : v[d] = w[d] /\ w[d] \in Int
        /\ \A d \in D \ Present(D) : w[d] = 0
    BY <1>6 DEF Present
  <2>2. TotalOf(Present(D)) = SumFunctionOnSet(v, Present(D))
    BY DEF TotalOf
  <2>3. IsFiniteSet(Present(D))
    BY <1>3, <2>1, FS_Subset
  <2> HIDE DEF v, w
  <2>4. SumFunctionOnSet(v, Present(D)) = SumFunctionOnSet(w, Present(D))
    BY <2>1, <2>3, SumOfSameValues
  <2>5. SumFunctionOnSet(w, D) = SumFunctionOnSet(w, Present(D))
    BY <1>3, <2>1, SumOfRelevant
  <2> QED BY <2>2, <2>4, <2>5
<1> HIDE DEF w, class
<1>16. SumFunctionOnSet(w, D) = w[h] + SumFunctionOnSet(w, T)
  BY <1>3, <1>9, <1>13, SumAtElement
<1>17. SumFunctionOnSet(w, T) = Cardinality(RowsOf(e))
  <2> HIDE DEF T
  <2>1. IsFiniteSet(T)
    BY <1>3, FS_Subset DEF T
  <2> QED BY <1>4, <1>11, <1>12, <2>1, CountedByClass
<1> QED BY <1>3, <1>6, <1>9, <1>13, <1>14, <1>15, <1>16, <1>17

(* A listing of an employee by a disposition for each label.               *)
LEMMA ListingSplits ==
    ASSUME IInv, NEW e \in DOMAIN employee, NEW A,
           \A l \in Labels : A[l] \in {"protected", "deletable"}, NEW D,
           D = {[label |-> l, count |-> countRows(e, l), disposition |-> A[l]] : l \in Labels}
    PROVE  /\ PresentBy(D, "protected") = {}
                <=> \A l \in Labels : A[l] = "protected" => countRows(e, l) = 0
           /\ PresentBy(D, "protected") = {} => PresentBy(D, "deletable") = Present(D)
           /\ Present(Present(D)) = Present(D)
<1> DEFINE F(l) == [label |-> l, count |-> countRows(e, l), disposition |-> A[l]]
<1>1. \A l \in Labels : /\ F(l).label = l /\ F(l).count = countRows(e, l)
                        /\ F(l).disposition = A[l]
  OBVIOUS
<1>2. D = {F(l) : l \in Labels}
  OBVIOUS
<1> HIDE DEF F
<1>3. \A l \in Labels : F(l) \in D /\ F(l).count \in Nat
  <2>1. \A d \in D : d.count \in Nat
    BY ListingTotal
  <2> QED BY <1>2, <2>1
<1>4. PresentBy(D, "protected") = {}
        <=> \A l \in Labels : A[l] = "protected" => countRows(e, l) = 0
  <2>1. \A d \in D : d.count > 0 <=> d.count # 0
    BY <1>2, <1>3
  <2> QED BY <1>1, <1>2, <1>3, <2>1 DEF PresentBy, Present
<1>5. \A d \in D : d.disposition \in {"protected", "deletable"}
  BY <1>1, <1>2
<1> QED BY <1>4, <1>5 DEF PresentBy, Present

(* Protected are the attendance, which stands for all of its kind, and,    *)
(* where a disposition says so, the employment history.                    *)
LEMMA ProtectedCounts ==
    ASSUME IInv, NEW e \in DOMAIN employee
    PROVE  /\ countRows(e, "history") = 0 <=> history[e] = <<>>
           /\ countRows(e, "attendance") = 0
                <=> ~\E r \in RowsOf(e) : Disposition(r.kind) = "protected"
           /\ \A l \in Labels : Disposition(l) \in {"protected", "deletable"}
           /\ \A l \in Labels : Disposition(l) = "protected" <=> l \in {"history", "attendance"}
           /\ "history" \in Labels /\ "attendance" \in Labels
<1>1. /\ "history" \in Labels /\ "attendance" \in Labels
      /\ \A l \in Labels : Disposition(l) \in {"protected", "deletable"}
      /\ \A l \in Labels : Disposition(l) = "protected" <=> l \in {"history", "attendance"}
  BY DEF Labels, Disposition, Protected, Deletable, Single
<1>2. countRows(e, "history") = 0 <=> history[e] = <<>>
  <2>1. history[e] \in Seq(Statuses)
    BY Existing
  <2> QED BY <2>1 DEF countRows
<1>3. \A r \in RowsOf(e) : Disposition(r.kind) = "protected" <=> r.kind = "attendance"
  BY <1>1 DEF IInv, NothingIsLeftBehind, TypeOK, Row, RowsOf, Labels, Disposition, Protected,
              Deletable, Single
<1>4. Cardinality(SectionOf(e, "attendance")) = 0 <=> SectionOf(e, "attendance") = {}
  <2>1. IsFiniteSet(SectionOf(e, "attendance"))
    BY RecordsAreFinite, FS_Subset DEF SectionOf, RowsOf
  <2> QED BY <2>1, FS_EmptySet
<1> QED BY <1>1, <1>2, <1>3, <1>4 DEF countRows, SectionOf

LEMMA DependenciesOf ==
    ASSUME IInv, NEW e \in DOMAIN employee
    PROVE  LET listed == Dependencies(e)
           IN /\ PresentBy(listed, "protected") = {} <=> ~HasProtected(e)
              /\ PresentBy(listed, "protected") = {} =>
                    /\ TotalOf(listed) = Cardinality(RowsOf(e))
                    /\ TotalOf(PresentBy(listed, "deletable")) = TotalOf(listed)
<1> DEFINE A == [l \in Labels |-> Disposition(l)]
           D == Dependencies(e)
<1>1. D = {[label |-> l, count |-> countRows(e, l), disposition |-> A[l]] : l \in Labels}
  BY DEF Dependencies
<1>2. \A l \in Labels : A[l] \in {"protected", "deletable"} /\ A[l] = Disposition(l)
  BY ProtectedCounts
<1> HIDE DEF A, D
<1>3. /\ PresentBy(D, "protected") = {}
            <=> \A l \in Labels : A[l] = "protected" => countRows(e, l) = 0
      /\ PresentBy(D, "protected") = {} => PresentBy(D, "deletable") = Present(D)
  BY <1>1, <1>2, ListingSplits
<1>4. /\ TotalOf(D) = Len(history[e]) + Cardinality(RowsOf(e))
      /\ TotalOf(Present(D)) = TotalOf(D)
  BY <1>1, ListingTotal
<1>5. PresentBy(D, "protected") = {} <=> ~HasProtected(e)
  BY <1>2, <1>3, ProtectedCounts DEF HasProtected
<1>6. history[e] = <<>> => TotalOf(D) = Cardinality(RowsOf(e))
  <2>1. IsFiniteSet(RowsOf(e))
    BY RecordsAreFinite, FS_Subset DEF RowsOf
  <2>2. Cardinality(RowsOf(e)) \in Nat
    BY <2>1, FS_CardinalityType
  <2> QED BY <1>4, <2>2
<1> QED BY <1>3, <1>4, <1>5, <1>6 DEF HasProtected, D

LEMMA PurgeDependenciesOf ==
    ASSUME IInv, NEW e \in DOMAIN employee
    PROVE  /\ Blocked(e) <=> HasProtectedUnlessTest(e)
           /\ ~Blocked(e) => TotalOf(PresentBy(PurgeDependencies(e), "deletable"))
                               = Len(history[e]) + Cardinality(RowsOf(e))
<1> DEFINE A == [l \in Labels |-> PurgeDisposition(e, l)]
           D == {[label |-> l, count |-> countRows(e, l), disposition |-> A[l]] : l \in Labels}
<1>1. PurgeDependencies(e) = Present(D)
  BY DEF PurgeDependencies, Present
<1>2. \A l \in Labels : A[l] \in {"protected", "deletable"} /\ A[l] = PurgeDisposition(e, l)
  BY ProtectedCounts DEF PurgeDisposition
<1>3. D = {[label |-> l, count |-> countRows(e, l), disposition |-> A[l]] : l \in Labels}
  OBVIOUS
<1> HIDE DEF A, D
<1>4. /\ PresentBy(D, "protected") = {}
            <=> \A l \in Labels : A[l] = "protected" => countRows(e, l) = 0
      /\ PresentBy(D, "protected") = {} => PresentBy(D, "deletable") = Present(D)
      /\ Present(Present(D)) = Present(D)
  BY <1>2, <1>3, ListingSplits
<1>5. /\ TotalOf(D) = Len(history[e]) + Cardinality(RowsOf(e))
      /\ TotalOf(Present(D)) = TotalOf(D)
  BY <1>3, ListingTotal
<1>6. \A x : PresentBy(PurgeDependencies(e), x) = PresentBy(D, x)
  BY <1>1, <1>4 DEF PresentBy
<1>7. A["history"] = "protected" <=> ~IsTest(e)
  BY <1>2, ProtectedCounts DEF PurgeDisposition
<1>8. /\ A["attendance"] = "protected"
      /\ \A l \in Labels : A[l] = "protected" => l \in {"history", "attendance"}
  BY <1>2, ProtectedCounts DEF PurgeDisposition
<1>9. Blocked(e) <=> HasProtectedUnlessTest(e)
  <2>1. Blocked(e) <=> ~\A l \in Labels : A[l] = "protected" => countRows(e, l) = 0
    BY <1>4, <1>6 DEF Blocked
  <2> QED BY <1>7, <1>8, <2>1, ProtectedCounts DEF HasProtectedUnlessTest
<1> QED BY <1>4, <1>5, <1>6, <1>9 DEF Blocked

(* The preview and the dialog of the permanent deletion.                   *)
LEMMA DeletionsAreAnnounced == IInv /\ CallsAim /\ NobodyManagesHimself => DeletionIsAnnounced
<1> SUFFICES ASSUME IInv, CallsAim, NobodyManagesHimself,
                    NEW c \in Calls, Running(c, "delete"),
                    NEW e \in call[c].of \cap DOMAIN employee
             PROVE  LET report == runDependencyCheck(e)
                        unlinked == {o \in DOMAIN Without({e}) : Without({e})[o] # employee[o]}
                    IN /\ MayPermanentlyDelete(call[c].of, call[c].number) <=>
                            /\ canSubmitDelete(employee[e].number, call[c].number, TRUE, report, {})
                            /\ employee[e].user # Actor
                       /\ report.reports = Cardinality(unlinked)
                       /\ report.protected = {} =>
                            /\ report.total = Cardinality(RowsOf(e))
                            /\ DeletionSummary(report).rows = report.total
  BY DEF DeletionIsAnnounced
<1> DEFINE report == runDependencyCheck(e)
           listed == Dependencies(e)
           unlinked == {o \in DOMAIN Without({e}) : Without({e})[o] # employee[o]}
<1>1. call[c].of = {e}
  BY DEF CallsAim, Aimed, Running
<1>2. /\ report.status = "ready" /\ report.protected = PresentBy(listed, "protected")
      /\ report.deletable = PresentBy(listed, "deletable") /\ report.total = TotalOf(listed)
      /\ report.reports = countEmployeeDirectReports(e)
  BY DEF runDependencyCheck, checkEmployeeDeletionDependencies, getEmployeeById, Exists
<1>3. /\ PresentBy(listed, "protected") = {} <=> ~HasProtected(e)
      /\ PresentBy(listed, "protected") = {} =>
            /\ TotalOf(listed) = Cardinality(RowsOf(e))
            /\ TotalOf(PresentBy(listed, "deletable")) = TotalOf(listed)
  BY DependenciesOf
<1>4. unlinked = {o \in DOMAIN employee : employee[o].manager = e}
  <2>1. DOMAIN Without({e}) = DOMAIN employee \ {e}
    BY DEF Without
  <2>2. ASSUME NEW o \in DOMAIN employee \ {e}
        PROVE  Without({e})[o] # employee[o] <=> employee[o].manager = e
    <3>1. Without({e})[o] = IF employee[o].manager \in {e}
                            THEN [employee[o] EXCEPT !.manager = None] ELSE employee[o]
      BY <2>2 DEF Without
    <3>2. employee[o] \in Employee /\ e # None
      BY Existing, EmployeesAssumption DEF Ids
    <3>3. [employee[o] EXCEPT !.manager = None].manager = None
      BY <3>2 DEF Employee
    <3> QED BY <3>1, <3>2, <3>3
  <2> QED BY <2>1, <2>2 DEF NobodyManagesHimself
<1>5. DeletionSummary(report).rows
        = IF report.deletable = {} THEN 0 ELSE TotalOf(report.deletable)
  BY DEF DeletionSummary
<1>6. TotalOf({}) = 0
  BY SumOfNone DEF TotalOf
<1>7. PresentBy({}, "protected") = {}
  BY DEF PresentBy, Present
<1> HIDE DEF report, listed, unlinked
<1>8. MayPermanentlyDelete(call[c].of, call[c].number)
        <=> /\ employee[e].number = call[c].number
            /\ employee[e].user # Actor
            /\ ~HasProtected(e)
  BY <1>1 DEF MayPermanentlyDelete, Exists
<1>9. canSubmitDelete(employee[e].number, call[c].number, TRUE, report, {})
        <=> call[c].number = employee[e].number /\ ~HasProtected(e)
  BY <1>2, <1>3, <1>7 DEF canSubmitDelete, blockedByProtectedRecords
<1>10. report.reports = Cardinality(unlinked)
  BY <1>2, <1>4 DEF countEmployeeDirectReports
<1>11. report.protected = {} =>
          /\ report.total = Cardinality(RowsOf(e))
          /\ DeletionSummary(report).rows = report.total
  BY <1>2, <1>3, <1>5, <1>6
<1> QED BY <1>8, <1>9, <1>10, <1>11 DEF report, unlinked

(* What a purge takes is counted by its employees.                         *)
LEMMA PurgeTotal ==
    ASSUME IInv, NEW S \in SUBSET DOMAIN employee, \A e \in S : ~Blocked(e)
    PROVE  totalDeletablePurgeRecords(S) = SumFunctionOnSet([e \in S |-> Len(history[e])], S)
                                             + Cardinality({r \in rows : r.of \in S})
<1> DEFINE total == [e \in S |-> TotalOf(PresentBy(PurgeDependencies(e), "deletable"))]
           lengths == [e \in S |-> Len(history[e])]
           sizes == [e \in S |-> Cardinality(RowsOf(e))]
           R == {r \in rows : r.of \in S}
           class == [r \in R |-> r.of]
<1>1. IsFiniteSet(S) /\ IsFiniteSet(R)
  BY RecordsAreFinite, FS_Subset
<1>2. ASSUME NEW e \in S
      PROVE lengths[e] \in Int /\ sizes[e] \in Int /\ total[e] = lengths[e] + sizes[e]
  <2>1. history[e] \in Seq(Statuses)
    BY Existing
  <2>2. Cardinality(RowsOf(e)) \in Nat
    BY RecordsAreFinite, FS_Subset, FS_CardinalityType DEF RowsOf
  <2> QED BY <2>1, <2>2, PurgeDependenciesOf
<1>3. ASSUME NEW e \in S PROVE sizes[e] = Cardinality({r \in R : class[r] = e})
  <2>1. {r \in R : class[r] = e} = RowsOf(e)
    BY DEF RowsOf
  <2> QED BY <2>1
<1>4. class \in [R -> S]
  OBVIOUS
<1>5. totalDeletablePurgeRecords(S) = SumFunctionOnSet(total, S)
  BY DEF totalDeletablePurgeRecords
<1> HIDE DEF total, sizes, R, class, lengths
<1>6. SumFunctionOnSet(total, S) = SumFunctionOnSet(lengths, S) + SumFunctionOnSet(sizes, S)
  BY <1>1, <1>2, SumOfSums
<1>7. SumFunctionOnSet(sizes, S) = Cardinality(R)
  BY <1>1, <1>3, <1>4, CountedByClass
<1> QED BY <1>5, <1>6, <1>7 DEF R, lengths

(* The analysis and the panel of the purge.                                *)
LEMMA PurgesAreAnnounced == IInv /\ CallsAim => PurgeIsAnnounced
<1> SUFFICES ASSUME IInv, CallsAim, NEW c \in Calls, Running(c, "purge"), NEW S, S = call[c].of
             PROVE  LET analysis == Analysis(S)
                    IN /\ MayApplyPlan(S, call[c].token)
                            <=> PurgeOffered(analysis, TRUE) /\ analysis.token = call[c].token
                       /\ canPurge(analysis, TRUE) =>
                             /\ activeSelection(S) = S
                             /\ analysis.total
                                  = SumFunctionOnSet([e \in S |-> Len(history[e])], S)
                                      + Cardinality({r \in rows : r.of \in S})
  BY DEF PurgeIsAnnounced
<1> DEFINE analysis == Analysis(S)
<1>1. S # {}
  BY DEF CallsAim, Aimed, Running
<1>2. CASE ~(S \subseteq DOMAIN employee)
  <2>1. analysis.status = "error"
    BY <1>2 DEF Analysis
  <2> HIDE DEF analysis
  <2> QED BY <1>2, <2>1 DEF MayApplyPlan, PurgeOffered, purgeDialogOpen, canPurge, analysis
<1>3. CASE S \subseteq DOMAIN employee
  <2>1. /\ analysis.status = "analyzed" /\ analysis.block = PurgeBlock(S)
        /\ analysis.token = PlanToken(S) /\ analysis.total = totalDeletablePurgeRecords(S)
    BY <1>1, <1>3 DEF Analysis
  <2> HIDE DEF analysis
  <2>2. PurgeBlock(S) = "ALLOWED" <=> /\ \A e \in S : IsTest(e) /\ ~Blocked(e)
                                     /\ \A e \in DirectReports(S) : IsTest(e)
    BY DEF PurgeBlock, productionDirectReports
  <2>3. \A e \in S : Blocked(e) <=> HasProtectedUnlessTest(e)
    BY <1>3, PurgeDependenciesOf
  <2>4. PurgeBlock(S) = "ALLOWED" <=> MayPurge(S)
    BY <2>2, <2>3 DEF MayPurge
  <2>5. PurgeOffered(analysis, TRUE) <=> PurgeBlock(S) = "ALLOWED"
    BY <2>1 DEF PurgeOffered, purgeDialogOpen, canPurge
  <2>6. canPurge(analysis, TRUE) => activeSelection(S) = S
    BY <1>3, <2>1, <2>2 DEF canPurge, activeSelection, listTestDataEmployees
  <2>7. canPurge(analysis, TRUE) =>
           analysis.total = SumFunctionOnSet([e \in S |-> Len(history[e])], S)
                              + Cardinality({r \in rows : r.of \in S})
    <3>1. canPurge(analysis, TRUE) => \A e \in S : ~Blocked(e)
      BY <2>1, <2>2 DEF canPurge
    <3> QED BY <1>3, <2>1, <3>1, PurgeTotal
  <2> QED BY <1>3, <2>1, <2>4, <2>5, <2>6, <2>7 DEF MayApplyPlan, analysis
<1> QED BY <1>2, <1>3

(* The directory, the page of an employee, the forms for accounts and the  *)
(* dialogs of both deletions follow the records: listEmployees,            *)
(* getEmployeeMasterData and listLinkableUsers beside the actions that     *)
(* accept what they offer, and the previews beside what the deletions      *)
(* accept and take.                                                        *)
THEOREM PagesFollowRecords == Spec => []ScreensFollowRecords
<1>1. IInv /\ OnePrimary /\ CallsAim /\ NobodyManagesHimself => ScreensFollowRecords
  BY ListsAreOpen, OfferedAreAccepted, DeletionsAreAnnounced, PurgesAreAnnounced
     DEF ScreensFollowRecords
<1> QED BY <1>1, AimsAlways, PTL

-----------------------------------------------------------------------------
(***************************************************************************)
(* What a call carries.                                                    *)
(***************************************************************************)
EditFits(r) ==
    /\ r.op \in {"createTab", "updateTab", "tabStatus", "createField", "updateField",
                 "fieldStatus", "deleteField", "reorder", "save", "done", "failed"}
    /\ r.op = "createTab" => r.on \in Tabs /\ r.form \in TabForm
    /\ r.op = "updateTab" => r.on \in DOMAIN tab /\ r.form \in TabForm
    /\ r.op = "tabStatus" => r.on \in DOMAIN tab /\ r.active \in BOOLEAN
    /\ r.op = "createField" => r.on \in Fields /\ r.form \in FieldForm
    /\ r.op = "updateField" => r.on \in DOMAIN field /\ r.form \in FieldForm /\ r.status \in FieldStatuses
    /\ r.op = "fieldStatus" => r.on \in DOMAIN field /\ r.status \in FieldStatuses
    /\ r.op = "deleteField" => r.on \in DOMAIN field
    /\ r.op = "reorder" => /\ r \in Reordering /\ Range(r.to) \subseteq DOMAIN field
                           /\ r.next \in 1 .. Len(r.to)
                           /\ Len(r.before) = r.next - 1
    /\ r.op = "save" => /\ DOMAIN r.write \subseteq DOMAIN field /\ DOMAIN r.write \subseteq r.shown
                        /\ \A f \in DOMAIN r.write : r.write[f] \in Value \cup {Nothing}

EditsFit == /\ edit = [c \in Edits |-> edit[c]]
            /\ \A c \in Edits : edit[c] # Nothing => EditFits(edit[c])

\* One call goes on, as r.
EditGoes(c, r) == edit' = [edit EXCEPT ![c] = r]

(* Tables only grow, so what a call carries goes on fitting.               *)
LEMMA EditGoneOn ==
    ASSUME EditsFit, NEW c \in Edits, NEW r, EditGoes(c, r), r # Nothing => EditFits(r)',
           DOMAIN field \subseteq DOMAIN field', DOMAIN tab \subseteq DOMAIN tab'
    PROVE  EditsFit'
<1>1. /\ edit' = [d \in Edits |-> edit'[d]] /\ edit'[c] = r
      /\ \A d \in Edits : d # c => edit'[d] = edit[d]
  BY DEF EditsFit, EditGoes
<1>2. ASSUME NEW x, EditFits(x) PROVE EditFits(x)'
  BY <1>2 DEF EditFits
<1> QED BY <1>1, <1>2 DEF EditsFit

LEMMA TypeFieldStep == FieldTypeOK /\ EditsFit /\ [FieldNext]_fieldVars => FieldTypeOK' /\ EditsFit'
<1> SUFFICES ASSUME FieldTypeOK, EditsFit, [FieldNext]_fieldVars PROVE FieldTypeOK' /\ EditsFit'
  OBVIOUS
<1> USE FieldAssumption
<1>1. ASSUME NEW c \in Edits, NEW r, BeginEdit(c, r), EditFits(r) PROVE FieldTypeOK' /\ EditsFit'
  <2>1. EditFits(r)'
    BY <1>1 DEF BeginEdit, EditFits
  <2> QED BY <1>1, <2>1, EditGoneOn DEF BeginEdit, EditGoes, FieldTypeOK
<1>2. ASSUME NEW c \in Edits, CreateTab(c) \/ UpdateTab(c) \/ SetTabStatus(c)
      PROVE  FieldTypeOK' /\ EditsFit'
  <2>1. CASE CreateTab(c)
    BY <1>1, <2>1 DEF CreateTab, EditFits
  <2>2. CASE UpdateTab(c)
    BY <1>1, <2>2 DEF UpdateTab, EditFits
  <2>3. CASE SetTabStatus(c)
    BY <1>1, <2>3 DEF SetTabStatus, EditFits
  <2> QED BY <1>2, <2>1, <2>2, <2>3
<1>3. ASSUME NEW c \in Edits,
             \/ CreateField(c) \/ UpdateField(c) \/ SetFieldStatus(c) \/ DeleteField(c)
             \/ DuplicateField(c)
      PROVE  FieldTypeOK' /\ EditsFit'
  <2>1. CASE CreateField(c)
    BY <1>1, <2>1 DEF CreateField, EditFits
  <2>2. CASE UpdateField(c)
    BY <1>1, <2>2 DEF UpdateField, EditFits
  <2>3. CASE SetFieldStatus(c)
    BY <1>1, <2>3 DEF SetFieldStatus, EditFits
  <2>4. CASE DeleteField(c)
    BY <1>1, <2>4 DEF DeleteField, EditFits
  <2>5. CASE DuplicateField(c)
    BY <1>1, <2>5 DEF DuplicateField, EditFits, FieldTypeOK, Definition
  <2> QED BY <1>3, <2>1, <2>2, <2>3, <2>4, <2>5
<1>4. ASSUME NEW c \in Edits, ReorderFields(c) PROVE FieldTypeOK' /\ EditsFit'
  <2>1. PICK s \in Orders : /\ s # <<>> /\ Range(s) \subseteq DOMAIN field
                            /\ BeginEdit(c, [op |-> "reorder", to |-> s, next |-> 1, before |-> <<>>])
    BY <1>4 DEF ReorderFields
  <2>2. 1 \in 1 .. Len(s) /\ <<>> \in Seq(Rank) /\ Len(<<>>) = 0
    <3>1. s \in Seq(Fields)
      OBVIOUS
    <3> QED BY <2>1, <3>1
  <2> DEFINE r == [op |-> "reorder", to |-> s, next |-> 1, before |-> <<>>]
  <2>3. r \in Reordering
    BY <2>2 DEF Reordering
  <2>4. r.op = "reorder" /\ r.to = s /\ r.next = 1 /\ r.before = <<>>
    OBVIOUS
  <2> HIDE DEF r
  <2>5. EditFits(r)
    BY <2>1, <2>2, <2>3, <2>4 DEF EditFits
  <2>6. BeginEdit(c, r)
    BY <2>1 DEF r
  <2> QED BY <1>1, <2>5, <2>6
<1>5. ASSUME NEW c \in Edits, UpdateEmployeeCustomData(c) \/ DeleteEmployeeCustomData(c)
      PROVE  FieldTypeOK' /\ EditsFit'
  <2>1. \A R : WritableFields(R) \subseteq DOMAIN field
    BY DEF WritableFields, VisibleFields, ActiveFields
  <2>2. ASSUME NEW f \in DOMAIN field, NEW text \in Texts \cup {Nothing}
        PROVE  Parsed(f, text) \in Value \cup {Nothing}
    BY DEF Parsed, Value, Column
  <2>3. CASE UpdateEmployeeCustomData(c)
    <3>1. PICK R \in SUBSET Roles, shown \in SUBSET DOMAIN field :
             \E form \in [shown -> Texts \cup {Nothing}] :
                BeginEdit(c, [op |-> "save", shown |-> shown,
                          write |-> [f \in Presented(form, R) |-> Parsed(f, Raw(form, f))]])
      BY <2>3 DEF UpdateEmployeeCustomData
    <3>2. PICK form \in [shown -> Texts \cup {Nothing}] :
             BeginEdit(c, [op |-> "save", shown |-> shown,
                       write |-> [f \in Presented(form, R) |-> Parsed(f, Raw(form, f))]])
      BY <3>1
    <3>3. Presented(form, R) \subseteq DOMAIN field /\ Presented(form, R) \subseteq shown
      BY DEF Presented
    <3>4. \A f \in Presented(form, R) : Parsed(f, Raw(form, f)) \in Value \cup {Nothing}
      BY <2>2, <3>3 DEF Raw
    <3> QED BY <1>1, <3>2, <3>3, <3>4 DEF EditFits
  <2>4. CASE DeleteEmployeeCustomData(c)
    BY <1>1, <2>1, <2>2, <2>4 DEF DeleteEmployeeCustomData, EditFits
  <2> QED BY <1>5, <2>3, <2>4
<1>6. ASSUME NEW c \in Edits, NEW result \in {"done", "failed"}, FinishEdit(c, result),
             DOMAIN field \subseteq DOMAIN field', DOMAIN tab \subseteq DOMAIN tab'
      PROVE  EditsFit'
  <2>1. EditFits([op |-> result])'
    BY DEF EditFits
  <2> QED BY <1>6, <2>1, EditGoneOn DEF FinishEdit, EditGoes
<1>7. ASSUME NEW c \in Edits, WriteTab(c) PROVE FieldTypeOK' /\ EditsFit'
  <2>1. PICK r : r = edit[c]
    OBVIOUS
  <2>2. EditFits(r)
    BY <1>7, <2>1 DEF WriteTab, EditsFit
  <2>3. UNCHANGED <<field, value, order>> /\ \E result \in {"done", "failed"} : FinishEdit(c, result)
    BY <1>7 DEF WriteTab
  <2>4. CASE UNCHANGED tab
    BY <1>6, <2>3, <2>4 DEF FieldTypeOK
  <2>5. CASE r.op = "tabStatus" /\ tab' = [tab EXCEPT ![r.on].active = r.active]
    <3>1. DOMAIN tab' = DOMAIN tab /\ \A t \in DOMAIN tab : tab'[t] \in TabForm
      BY <2>2, <2>5 DEF EditFits, FieldTypeOK, TabForm
    <3> QED BY <1>6, <2>3, <3>1 DEF FieldTypeOK
  <2>6. CASE r.op # "tabStatus" /\ tab' = Put(tab, r.on, r.form)
    <3>1. r.on \in Tabs /\ r.form \in TabForm
      BY <1>7, <2>1, <2>2, <2>6 DEF EditFits, WriteTab, FieldTypeOK
    <3>2. /\ DOMAIN tab' = DOMAIN tab \cup {r.on}
          /\ \A t \in DOMAIN tab' : tab'[t] \in TabForm
      BY <2>6, <3>1 DEF FieldTypeOK, Put
    <3> QED BY <1>6, <2>3, <3>1, <3>2 DEF FieldTypeOK
  <2> QED BY <1>7, <2>1, <2>4, <2>5, <2>6 DEF WriteTab
<1>8. ASSUME NEW c \in Edits, InsertField(c) PROVE FieldTypeOK' /\ EditsFit'
  <2>1. PICK r : r = edit[c]
    OBVIOUS
  <2>2. EditFits(r) /\ r.op = "createField"
    BY <1>8, <2>1 DEF InsertField, Editing, EditsFit
  <2>3. UNCHANGED <<tab, value>> /\ \E result \in {"done", "failed"} : FinishEdit(c, result)
    BY <1>8 DEF InsertField
  <2>4. CASE UNCHANGED <<field, order>>
    BY <1>6, <2>3, <2>4 DEF FieldTypeOK
  <2>5. CASE /\ field' = Put(field, r.on, [form |-> r.form, status |-> "active", deleted |-> FALSE])
             /\ order' = Put(order, r.on, [at |-> 0, by |-> Nothing])
    <3>1. /\ [form |-> r.form, status |-> "active", deleted |-> FALSE] \in Definition
          /\ [at |-> 0, by |-> Nothing] \in Rank /\ r.on \in Fields
      BY <2>2 DEF EditFits, Definition, FieldStatuses, Rank
    <3>2. /\ DOMAIN field' = DOMAIN field \cup {r.on} /\ DOMAIN order' = DOMAIN order \cup {r.on}
          /\ \A f \in DOMAIN field' : field'[f] \in Definition
          /\ \A f \in DOMAIN order' : order'[f] \in Rank
      BY <2>5, <3>1 DEF FieldTypeOK, Put
    <3> QED BY <1>6, <2>3, <3>1, <3>2 DEF FieldTypeOK
  <2> QED BY <1>8, <2>1, <2>4, <2>5 DEF InsertField
<1>9. ASSUME NEW c \in Edits, WriteField(c) PROVE FieldTypeOK' /\ EditsFit'
  <2>1. PICK r : r = edit[c]
    OBVIOUS
  <2>2. EditFits(r) /\ r.op \in {"updateField", "fieldStatus", "deleteField"}
    BY <1>9, <2>1 DEF WriteField, EditsFit
  <2>3. /\ UNCHANGED <<tab, value>> /\ FinishEdit(c, "done")
        /\ field' = [field EXCEPT ![r.on] = Updated(field[r.on], r)]
        /\ order' \in {order, [order EXCEPT ![r.on] = [at |-> 0, by |-> Nothing]]}
    BY <1>9, <2>1 DEF WriteField
  <2>4. Updated(field[r.on], r) \in Definition
    <3>1. PICK x : x = field[r.on]
      OBVIOUS
    <3>2. x \in Definition
      BY <2>2, <3>1 DEF EditFits, FieldTypeOK
    <3>3. CASE r.op = "updateField"
      BY <2>2, <3>1, <3>2, <3>3 DEF EditFits, Definition, Updated
    <3>4. CASE r.op = "fieldStatus"
      BY <2>2, <3>1, <3>2, <3>4 DEF EditFits, Definition, Updated
    <3>5. CASE r.op = "deleteField"
      BY <3>1, <3>2, <3>5 DEF Definition, Updated, FieldStatuses
    <3> QED BY <2>2, <3>3, <3>4, <3>5
  <2>5. DOMAIN field' = DOMAIN field /\ \A f \in DOMAIN field : field'[f] \in Definition
    BY <2>3, <2>4 DEF FieldTypeOK
  <2>6. [at |-> 0, by |-> Nothing] \in Rank
    BY DEF Rank
  <2>7. DOMAIN order' = DOMAIN order /\ \A f \in DOMAIN order : order'[f] \in Rank
    BY <2>3, <2>6 DEF FieldTypeOK
  <2> QED BY <1>6, <2>3, <2>5, <2>7 DEF FieldTypeOK
<1>10. ASSUME NEW c \in Edits, WriteValues(c) PROVE FieldTypeOK' /\ EditsFit'
  <2>1. PICK w : w = edit[c].write
    OBVIOUS
  <2>2. DOMAIN w \subseteq DOMAIN field /\ \A f \in DOMAIN w : w[f] \in Value \cup {Nothing}
    BY <1>10, <2>1 DEF WriteValues, Editing, EditsFit, EditFits
  <2> DEFINE kept == {f \in DOMAIN value : f \notin DOMAIN w}
             set == {f \in DOMAIN w : w[f] # Nothing}
  <2>3. value' = [f \in kept \cup set |-> IF f \in set THEN w[f] ELSE value[f]]
    BY <1>10, <2>1 DEF WriteValues
  <2>4. DOMAIN value' \subseteq DOMAIN field /\ \A f \in DOMAIN value' : value'[f] \in Value
    BY <2>2, <2>3 DEF FieldTypeOK
  <2> QED BY <1>6, <1>10, <2>4 DEF WriteValues, FieldTypeOK
<1>11. ASSUME NEW c \in Edits, AbortReordering(c) PROVE FieldTypeOK' /\ EditsFit'
  <2>1. PICK r : r = edit[c]
    OBVIOUS
  <2>2. EditFits(r) /\ r.op = "reorder"
    BY <1>11, <2>1 DEF AbortReordering, Editing, EditsFit
  <2>3. /\ UNCHANGED <<field, tab, value>> /\ FinishEdit(c, "failed")
        /\ order' = [f \in DOMAIN order |->
                       IF \E i \in 1 .. r.next - 1 : r.to[i] = f
                       THEN r.before[CHOOSE i \in 1 .. r.next - 1 : r.to[i] = f]
                       ELSE order[f]]
    BY <1>11, <2>1 DEF AbortReordering
  <2>4. \A i \in 1 .. r.next - 1 : r.before[i] \in Rank
    <3>1. r.before \in Seq(Rank) /\ Len(r.before) = r.next - 1 /\ r.next \in Nat
      BY <2>2 DEF EditFits, Reordering
    <3> QED BY <3>1
  <2>5. DOMAIN order' = DOMAIN order /\ \A f \in DOMAIN order : order'[f] \in Rank
    BY <2>3, <2>4 DEF FieldTypeOK
  <2> QED BY <1>6, <2>3, <2>5 DEF FieldTypeOK
<1>12. ASSUME NEW c \in Edits, PlaceField(c) PROVE FieldTypeOK' /\ EditsFit'
  <2>1. PICK r : r = edit[c]
    OBVIOUS
  <2>2. EditFits(r) /\ r.op = "reorder" /\ edit[c] # Nothing
    BY <1>12, <2>1 DEF PlaceField, Editing, EditsFit
  <2>3. /\ r.to \in Seq(Fields) /\ r.next \in 1 .. Len(r.to) /\ r.to[r.next] \in DOMAIN order
        /\ r.to \in Orders /\ r.next \in Nat /\ r.before \in Seq(Rank)
    <3>1. r.to \in Orders /\ r.next \in Nat /\ r.before \in Seq(Rank)
      BY <2>2, NothingIsNoReordering DEF EditFits, Reordering
    <3> QED BY <2>2, <3>1 DEF EditFits, FieldTypeOK, Range
  <2>4. /\ UNCHANGED <<field, tab, value>>
        /\ order' = [order EXCEPT ![r.to[r.next]] = [at |-> r.next - 1, by |-> c]]
    BY <1>12, <2>1 DEF PlaceField, NextRow
  <2>5. [at |-> r.next - 1, by |-> c] \in Rank
    BY <2>3 DEF Rank
  <2>6. FieldTypeOK'
    BY <2>3, <2>4, <2>5 DEF FieldTypeOK
  <2>7. CASE r.next < Len(r.to)
    <3>1. PICK x : x = order[r.to[r.next]]
      OBVIOUS
    <3>2. x \in Rank
      BY <2>3, <3>1 DEF FieldTypeOK
    <3>3. PICK n \in Nat, b \in Seq(Rank) : n = r.next + 1 /\ b = Append(r.before, x)
      <4>1. r.next + 1 \in Nat /\ Append(r.before, x) \in Seq(Rank)
        BY <2>3, <3>2
      <4> QED BY <4>1
    <3>4. r \in [op : {"reorder"}, to : Orders, next : Nat, before : Seq(Rank)]
      BY <2>2 DEF EditFits, Reordering
    <3> DEFINE s == [r EXCEPT !.next = n, !.before = b]
    <3>5. /\ s \in [op : {"reorder"}, to : Orders, next : Nat, before : Seq(Rank)]
          /\ s.op = "reorder" /\ s.to = r.to /\ s.next = n /\ s.before = b
      BY ONLY <3>4, n \in Nat, b \in Seq(Rank)
    <3>8. EditGoes(c, s)
      BY <1>12, <2>1, <2>7, <3>1, <3>3 DEF PlaceField, NextRow, EditGoes, EditsFit
    <3>6. Len(Append(r.before, x)) = Len(r.before) + 1
      BY <2>3, <3>2
    <3> HIDE DEF s
    <3>7. EditFits(s)'
      BY <2>2, <2>3, <2>4, <2>7, <3>3, <3>5, <3>6 DEF EditFits, Reordering
    <3> QED BY <2>4, <2>6, <3>7, <3>8, EditGoneOn
  <2>8. CASE ~(r.next < Len(r.to))
    <3>1. EditGoes(c, [op |-> "done", to |-> r.to])
      BY <1>12, <2>1, <2>8 DEF PlaceField, EditGoes
    <3>2. EditFits([op |-> "done", to |-> r.to])'
      BY DEF EditFits
    <3> QED BY <2>4, <2>6, <3>1, <3>2, EditGoneOn
  <2> QED BY <2>7, <2>8
<1>13. CASE UNCHANGED fieldVars
  BY <1>13 DEF fieldVars, FieldTypeOK, EditsFit, EditFits
<1> QED BY <1>2, <1>3, <1>4, <1>5, <1>7, <1>8, <1>9, <1>10, <1>11, <1>12, <1>13
        DEF FieldNext, ManageTabs, ManageFields, ManageValues

(***************************************************************************)
(* Reorderings.  A row stands as d wrote it when d wrote it last of those  *)
(* that are done: what a reordering under way has written is put back when *)
(* it fails.                                                               *)
(***************************************************************************)
Reorders(c) == Editing(c, "reorder")
HasEnded(d) == edit[d] # Nothing /\ edit[d].op = "done"

Keeps(c, i, f) == Reorders(c) /\ i \in 1 .. edit[c].next - 1 /\ edit[c].to[i] = f

Stands(f, d) ==
    \/ (\A c \in Edits : f \notin Kept(c)) /\ order[f].by = d
    \/ \E c \in Edits : \E i \in Nat : Keeps(c, i, f) /\ edit[c].before[i].by = d

KeptAreOwn == \A c \in Edits : \A f \in Kept(c) : order[f].by = c

StandingAreDone ==
    \A f \in DOMAIN order, d \in Edits :
        Stands(f, d) => /\ edit[d] \in [op : {"done"}, to : Orders]
                        /\ f \in Range(edit[d].to)

StandUnmixed ==
    \A f, g \in DOMAIN order, c, d \in Edits :
        Stands(f, c) /\ Stands(g, d) /\ Range(edit[c].to) = Range(edit[d].to) => c = d

OrderInv == KeptAreOwn /\ StandingAreDone /\ StandUnmixed

(* The rows a reordering keeps exist.                                      *)
LEMMA KeptExist ==
    ASSUME FieldTypeOK, EditsFit, NEW c \in Edits, Reorders(c)
    PROVE  /\ edit[c] \in Reordering /\ edit[c].op = "reorder" /\ edit[c].to \in Orders
           /\ edit[c].to \in Seq(Fields) /\ IsInjective(edit[c].to)
           /\ edit[c].next \in 1 .. Len(edit[c].to)
           /\ edit[c].before \in Seq(Rank) /\ Len(edit[c].before) = edit[c].next - 1
           /\ \A i \in 1 .. Len(edit[c].to) : edit[c].to[i] \in DOMAIN order
           /\ Kept(c) = {edit[c].to[i] : i \in 1 .. edit[c].next - 1}
<1>1. EditFits(edit[c]) /\ edit[c].op = "reorder"
  BY DEF Reorders, Editing, EditsFit
<1>2. edit[c] \in Reordering /\ edit[c].to \in Orders /\ edit[c].before \in Seq(Rank)
  BY <1>1 DEF EditFits, Reordering
<1> QED BY <1>1, <1>2, FieldAssumption DEF EditFits, FieldTypeOK, Range, Kept, Reorders, Editing

LEMMA KeptInside ==
    ASSUME FieldTypeOK, EditsFit, NEW c \in Edits PROVE Kept(c) \subseteq DOMAIN order
<1>1. CASE Reorders(c)
  BY <1>1, KeptExist
<1>2. CASE ~Reorders(c)
  BY <1>2 DEF Kept, Reorders
<1> QED BY <1>1, <1>2

(* No row is kept twice.                                                   *)
LEMMA KeptApart ==
    ASSUME KeptAreOwn, NEW c \in Edits, NEW d \in Edits, NEW f \in Kept(c), f \in Kept(d)
    PROVE  c = d
BY DEF KeptAreOwn

(* A step that lets the rows stand as they stood keeps the order.          *)
LEMMA StandStill ==
    ASSUME OrderInv, KeptAreOwn',
           \A d \in Edits : edit[d] # Nothing /\ edit[d].op = "done" => edit'[d] = edit[d],
           \A f \in DOMAIN order' : \A d \in Edits :
              Stands(f, d)' => f \in DOMAIN order /\ Stands(f, d)
    PROVE  OrderInv'
<1>1. ASSUME NEW f \in DOMAIN order, NEW d \in Edits, Stands(f, d) PROVE edit'[d] = edit[d]
  <2>1. edit[d] \in [op : {"done"}, to : Orders]
    BY <1>1 DEF OrderInv, StandingAreDone
  <2> QED BY <2>1, NothingIsNoReordering DEF Reordering
<1>2. StandingAreDone'
  BY <1>1 DEF OrderInv, StandingAreDone
<1>3. StandUnmixed'
  BY <1>1 DEF OrderInv, StandUnmixed
<1> QED BY <1>2, <1>3 DEF OrderInv

(* A call that keeps no rows goes on; the rows it writes are kept by nobody. *)
LEMMA OthersReorder ==
    ASSUME FieldTypeOK, EditsFit, OrderInv, NEW c \in Edits, ~HasEnded(c),
           Kept(c) = {}, Kept(c)' = {}, \A d \in Edits : d # c => edit'[d] = edit[d],
           \A f \in DOMAIN order' :
              \/ f \in DOMAIN order /\ order'[f] = order[f]
              \/ order'[f].by = Nothing /\ \A d \in Edits : f \notin Kept(d),
           DOMAIN order \subseteq DOMAIN order'
    PROVE  OrderInv'
<1>1. ASSUME NEW d \in Edits, d # c
      PROVE  Kept(d)' = Kept(d) /\ \A i, f : Keeps(d, i, f)' <=> Keeps(d, i, f)
  <2>1. edit'[d] = edit[d]
    BY <1>1
  <2>2. (Editing(d, "reorder")' <=> Editing(d, "reorder")) /\ (Reorders(d)' <=> Reorders(d))
    BY <2>1 DEF Editing, Reorders
  <2>3. Kept(d)' = Kept(d)
    BY <2>1, <2>2 DEF Kept
  <2>4. \A i, f : Keeps(d, i, f)' <=> Keeps(d, i, f)
    BY <2>1, <2>2 DEF Keeps
  <2> QED BY <2>3, <2>4
<1>2. \A i, f : ~Keeps(c, i, f) /\ ~Keeps(c, i, f)'
  BY DEF Kept, Keeps, Reorders
<1>3. \A d \in Edits : Kept(d)' = Kept(d)
  BY <1>1
<1>4. KeptAreOwn'
  <2> SUFFICES ASSUME NEW d \in Edits, NEW f \in Kept(d) PROVE order'[f].by = d
    BY <1>3 DEF KeptAreOwn
  <2>1. f \in DOMAIN order
    BY KeptInside
  <2> QED BY <2>1 DEF OrderInv, KeptAreOwn
<1>5. ASSUME NEW f \in DOMAIN order', NEW d \in Edits, Stands(f, d)'
      PROVE  f \in DOMAIN order /\ Stands(f, d)
  <2>1. CASE (\A e \in Edits : f \notin Kept(e)) /\ order'[f].by = d
    BY <2>1, FieldAssumption DEF Stands
  <2>2. ASSUME NEW e \in Edits, NEW i \in Nat, Keeps(e, i, f)', edit'[e].before[i].by = d
        PROVE  f \in DOMAIN order /\ Stands(f, d)
    <3>1. e # c /\ Keeps(e, i, f) /\ edit[e].before[i].by = d
      BY <1>1, <1>2, <2>2
    <3>2. f \in Kept(e)
      BY <3>1 DEF Keeps, Kept, Reorders
    <3> QED BY <3>1, <3>2, KeptInside DEF Stands
  <2> QED BY <1>3, <1>5, <2>1, <2>2 DEF Stands
<1>6. \A d \in Edits : HasEnded(d) => edit'[d] = edit[d]
  OBVIOUS
<1> QED BY <1>4, <1>5, <1>6, StandStill DEF HasEnded

(* A reordering fails: the rows it kept stand as they stood.               *)
LEMMA AbortStands ==
    ASSUME FieldTypeOK, EditsFit, OrderInv, NEW c \in Edits, AbortReordering(c)
    PROVE  OrderInv'
<1>1. Reorders(c)
  BY DEF AbortReordering, Reorders
<1>2. PICK r : r = edit[c]
  OBVIOUS
<1>3. /\ r.next \in Nat /\ IsInjective(r.to) /\ r.next \in 1 .. Len(r.to) /\ r.to \in Seq(Fields)
      /\ Kept(c) = {r.to[i] : i \in 1 .. r.next - 1}
      /\ r.op = "reorder" /\ r # Nothing
  BY <1>1, <1>2, KeptExist DEF Reorders, Editing
<1>4. /\ \A d \in Edits : d # c => edit'[d] = edit[d]
      /\ edit'[c] = [op |-> "failed"]
      /\ DOMAIN order' = DOMAIN order
      /\ \A f \in DOMAIN order : f \notin Kept(c) => order'[f] = order[f]
  BY <1>2, <1>3 DEF AbortReordering, FinishEdit, EditsFit
<1>5. ASSUME NEW i \in 1 .. r.next - 1 PROVE order'[r.to[i]] = r.before[i]
  <2>1. \A j \in 1 .. r.next - 1 : r.to[j] = r.to[i] => j = i
    <3>1. \A j \in 1 .. r.next - 1 : j \in DOMAIN r.to
      BY <1>3
    <3> QED BY <1>3, <3>1 DEF IsInjective
  <2>2. (CHOOSE j \in 1 .. r.next - 1 : r.to[j] = r.to[i]) = i
    BY <2>1
  <2>3. r.to[i] \in DOMAIN order
    BY <1>3, KeptInside
  <2> QED BY <1>2, <2>2, <2>3 DEF AbortReordering
<1>6. \A d \in Edits : d # c => Kept(d)' = Kept(d) /\ \A i, f : Keeps(d, i, f)' <=> Keeps(d, i, f)
  BY <1>4 DEF Kept, Keeps, Reorders, Editing
<1>7. Kept(c)' = {} /\ \A i, f : ~Keeps(c, i, f)'
  BY <1>4 DEF Kept, Keeps, Reorders, Editing
<1>8. KeptAreOwn'
  <2> SUFFICES ASSUME NEW d \in Edits, NEW f \in Kept(d)' PROVE order'[f].by = d
    BY DEF KeptAreOwn
  <2>1. d # c /\ f \in Kept(d) /\ f \in DOMAIN order
    BY <1>6, <1>7, KeptInside
  <2>2. f \notin Kept(c)
    BY <2>1, KeptApart DEF OrderInv
  <2> QED BY <1>4, <2>1, <2>2 DEF OrderInv, KeptAreOwn
<1>9. ASSUME NEW f \in DOMAIN order, NEW d \in Edits, Stands(f, d)' PROVE Stands(f, d)
  <2>1. ASSUME \A e \in Edits : f \notin Kept(e)', order'[f].by = d PROVE Stands(f, d)
    <3>1. \A e \in Edits : e # c => f \notin Kept(e)
      BY <1>6, <2>1
    <3>2. CASE f \notin Kept(c)
      BY <1>4, <2>1, <3>1, <3>2 DEF Stands
    <3>3. CASE f \in Kept(c)
      <4>1. PICK i \in 1 .. r.next - 1 : r.to[i] = f
        BY <1>3, <3>3
      <4>2. i \in Nat /\ Keeps(c, i, f) /\ edit[c].before[i].by = d
        BY <1>1, <1>2, <1>3, <1>5, <2>1, <4>1 DEF Keeps
      <4> QED BY <4>2 DEF Stands
    <3> QED BY <3>2, <3>3
  <2>2. ASSUME NEW e \in Edits, NEW i \in Nat, Keeps(e, i, f)', edit'[e].before[i].by = d
        PROVE  Stands(f, d)
    BY <1>4, <1>6, <1>7, <2>2 DEF Stands
  <2> QED BY <1>9, <2>1, <2>2 DEF Stands
<1>10. \A d \in Edits : HasEnded(d) => edit'[d] = edit[d]
  BY <1>2, <1>3, <1>4 DEF HasEnded
<1> QED BY <1>4, <1>8, <1>9, <1>10, StandStill DEF HasEnded

(* A row that a reordering places was kept by nobody.                      *)
LEMMA PlacedRow ==
    ASSUME FieldTypeOK, EditsFit, NEW c \in Edits, PlaceField(c)
    PROVE  /\ Reorders(c) /\ NextRow(c) \in DOMAIN order
           /\ \A d \in Edits : NextRow(c) \notin Kept(d)
           /\ \A d \in Edits : d # c => edit'[d] = edit[d]
           /\ DOMAIN order' = DOMAIN order
           /\ \A f \in DOMAIN order : f # NextRow(c) => order'[f] = order[f]
           /\ order'[NextRow(c)].by = c
           /\ Kept(c) \cup {NextRow(c)} = {edit[c].to[i] : i \in 1 .. edit[c].next}
<1>1. Reorders(c)
  BY DEF PlaceField, Reorders
<1>2. PICK r : r = edit[c]
  OBVIOUS
<1>3. /\ r.next \in 1 .. Len(r.to) /\ IsInjective(r.to) /\ r.to \in Seq(Fields) /\ NextRow(c) = r.to[r.next]
      /\ \A i \in 1 .. Len(r.to) : r.to[i] \in DOMAIN order
      /\ Kept(c) = {r.to[i] : i \in 1 .. r.next - 1}
  BY <1>1, <1>2, KeptExist DEF NextRow
<1>4. NextRow(c) \notin Kept(c)
  <2> SUFFICES ASSUME NEW i \in 1 .. r.next - 1, r.to[i] = r.to[r.next] PROVE FALSE
    BY <1>3
  <2>1. i \in DOMAIN r.to /\ r.next \in DOMAIN r.to /\ i # r.next
    BY <1>3
  <2> QED BY <1>3, <2>1 DEF IsInjective
<1>5. /\ order' = [order EXCEPT ![r.to[r.next]] = [at |-> r.next - 1, by |-> c]]
      /\ \E s : edit' = [edit EXCEPT ![c] = s]
  <2>1. CASE r.next < Len(r.to)
    <3>1. edit' = [edit EXCEPT ![c] = [@ EXCEPT !.next = r.next + 1,
                                        !.before = Append(r.before, order[NextRow(c)])]]
      BY <1>2, <2>1 DEF PlaceField
    <3> QED BY <1>2, <3>1 DEF PlaceField, NextRow
  <2>2. CASE ~(r.next < Len(r.to))
    BY <1>2, <2>2 DEF PlaceField, NextRow
  <2> QED BY <2>1, <2>2
<1>6. Kept(c) \cup {NextRow(c)} = {r.to[i] : i \in 1 .. r.next}
  <2>1. 1 .. r.next = (1 .. r.next - 1) \cup {r.next}
    BY <1>3
  <2> QED BY <1>3, <2>1
<1>7. \A d \in Edits \ {c} : NextRow(c) \notin Kept(d)
  BY DEF PlaceField, Locked
<1>8. \A d \in Edits : d # c => edit'[d] = edit[d]
  BY <1>5 DEF EditsFit
<1> QED BY <1>1, <1>2, <1>3, <1>4, <1>5, <1>6, <1>7, <1>8

(* A reordering places a row that is not its last.                         *)
LEMMA PlaceStands ==
    ASSUME FieldTypeOK, EditsFit, OrderInv, NEW c \in Edits, PlaceField(c),
           edit[c].next < Len(edit[c].to)
    PROVE  OrderInv'
<1>1. PICK r : r = edit[c]
  OBVIOUS
<1>2. PICK x : x = order[NextRow(c)]
  OBVIOUS
<1>3. PICK g : g = NextRow(c)
  OBVIOUS
<1>4. /\ r.next \in Nat /\ r.next \in 1 .. Len(r.to) /\ r.before \in Seq(Rank)
      /\ Len(r.before) = r.next - 1 /\ r.op = "reorder" /\ r # Nothing
      /\ r \in [op : {"reorder"}, to : Orders, next : Nat, before : Seq(Rank)]
      /\ Kept(c) = {r.to[i] : i \in 1 .. r.next - 1} /\ g = r.to[r.next]
      /\ g \in DOMAIN order /\ x \in Rank
  BY <1>1, <1>2, <1>3, PlacedRow, KeptExist DEF Reorders, Editing, FieldTypeOK, NextRow, Reordering
<1>5. PICK n \in Nat, b \in Seq(Rank) : n = r.next + 1 /\ b = Append(r.before, x)
  <2>1. r.next + 1 \in Nat /\ Append(r.before, x) \in Seq(Rank)
    BY <1>4
  <2> QED BY <2>1
<1>6. PICK s : s = [r EXCEPT !.next = n, !.before = b]
  OBVIOUS
<1>7. s.op = "reorder" /\ s.to = r.to /\ s.next = n /\ s.before = b /\ s \in Reordering
  <2>1. /\ s \in [op : {"reorder"}, to : Orders, next : Nat, before : Seq(Rank)]
        /\ s.op = "reorder" /\ s.to = r.to /\ s.next = n /\ s.before = b
    BY ONLY <1>4, <1>6, n \in Nat, b \in Seq(Rank)
  <2> QED BY <2>1 DEF Reordering
<1>8. edit'[c] = s
  BY <1>1, <1>2, <1>3, <1>5, <1>6 DEF PlaceField, EditsFit
<1>9. Editing(c, "reorder")'
  BY <1>7, <1>8, NothingIsNoReordering DEF Editing
<1>10. Kept(c)' = Kept(c) \cup {g}
  <2>1. Kept(c)' = {r.to[i] : i \in 1 .. r.next}
    <3>1. 1 .. n - 1 = 1 .. r.next
      BY <1>4, <1>5
    <3> QED BY <1>7, <1>8, <1>9, <3>1 DEF Kept
  <2> QED BY <1>1, <1>3, <2>1, PlacedRow
<1>11. \A d \in Edits : d # c => Kept(d)' = Kept(d) /\ \A i, f : Keeps(d, i, f)' <=> Keeps(d, i, f)
  <2>1. \A d \in Edits : d # c => edit'[d] = edit[d]
    BY PlacedRow
  <2> QED BY <2>1 DEF Kept, Keeps, Reorders, Editing
<1>12. KeptAreOwn'
  <2> SUFFICES ASSUME NEW d \in Edits, NEW f \in Kept(d)' PROVE order'[f].by = d
    BY DEF KeptAreOwn
  <2>1. CASE f = g
    <3>1. d = c
      BY <1>3, <1>11, <2>1, PlacedRow
    <3> QED BY <1>3, <2>1, <3>1, PlacedRow
  <2>2. CASE f # g
    <3>1. f \in Kept(d) /\ f \in DOMAIN order
      BY <1>10, <1>11, <2>2, KeptInside
    <3> QED BY <1>3, <2>2, <3>1, PlacedRow DEF OrderInv, KeptAreOwn
  <2> QED BY <2>1, <2>2
<1>13. ASSUME NEW f \in DOMAIN order, NEW d \in Edits, Stands(f, d)' PROVE Stands(f, d)
  <2>1. ASSUME \A e \in Edits : f \notin Kept(e)', order'[f].by = d PROVE Stands(f, d)
    <3>1. f # g /\ \A e \in Edits : f \notin Kept(e)
      BY <1>10, <1>11, <2>1
    <3> QED BY <1>3, <2>1, <3>1, PlacedRow DEF Stands
  <2>2. ASSUME NEW e \in Edits, e # c, NEW i \in Nat, Keeps(e, i, f)', edit'[e].before[i].by = d
        PROVE  Stands(f, d)
    BY <1>11, <2>2, PlacedRow DEF Stands
  <2>3. ASSUME NEW i \in Nat, Keeps(c, i, f)', edit'[c].before[i].by = d
        PROVE  Stands(f, d)
    <3>1. i \in 1 .. r.next /\ r.to[i] = f /\ b[i].by = d
      BY <1>4, <1>5, <1>7, <1>8, <2>3 DEF Keeps
    <3>2. CASE i = r.next
      <4>1. b[i] = x
        BY <1>4, <1>5, <3>2
      <4>2. f = g /\ order[f].by = d
        BY <1>2, <1>3, <1>4, <3>1, <3>2, <4>1
      <4>3. \A e \in Edits : f \notin Kept(e)
        BY <1>3, <4>2, PlacedRow
      <4> QED BY <4>2, <4>3 DEF Stands
    <3>3. CASE i # r.next
      <4>1. i \in 1 .. r.next - 1 /\ b[i] = r.before[i]
        BY <1>4, <1>5, <3>1, <3>3
      <4>2. Keeps(c, i, f)
        BY <1>1, <3>1, <4>1, PlacedRow DEF Keeps
      <4> QED BY <1>1, <3>1, <4>1, <4>2 DEF Stands
    <3> QED BY <3>2, <3>3
  <2> QED BY <1>13, <2>1, <2>2, <2>3 DEF Stands
<1>14. \A d \in Edits : HasEnded(d) => edit'[d] = edit[d]
  BY <1>1, <1>4, PlacedRow DEF HasEnded
<1> QED BY <1>12, <1>13, <1>14, PlacedRow, StandStill DEF HasEnded

(* The last row is placed: all rows of the reordering stand as it wrote    *)
(* them, and no row of another that had the same rows does any more.       *)
LEMMA LastPlaceStands ==
    ASSUME FieldTypeOK, EditsFit, OrderInv, NEW c \in Edits, PlaceField(c),
           ~(edit[c].next < Len(edit[c].to))
    PROVE  OrderInv'
<1>1. PICK r : r = edit[c]
  OBVIOUS
<1>2. /\ r.next \in Nat /\ r.next \in 1 .. Len(r.to) /\ r.to \in Seq(Fields) /\ r.to \in Orders
      /\ r.op = "reorder" /\ r # Nothing
  BY <1>1, PlacedRow, KeptExist DEF Reorders, Editing
<1>3. edit'[c] = [op |-> "done", to |-> r.to]
  BY <1>1 DEF PlaceField, EditsFit
<1>4. Range(r.to) = Kept(c) \cup {NextRow(c)}
  <2>1. r.next = Len(r.to)
    BY <1>1, <1>2
  <2>2. Range(r.to) = {r.to[i] : i \in 1 .. r.next}
    BY <1>2, <2>1 DEF Range
  <2> QED BY <1>1, <2>2, PlacedRow
<1>5. Kept(c)' = {} /\ \A i, f : ~Keeps(c, i, f)'
  BY <1>3 DEF Kept, Keeps, Reorders, Editing
<1>6. \A d \in Edits : d # c => Kept(d)' = Kept(d) /\ \A i, f : Keeps(d, i, f)' <=> Keeps(d, i, f)
  <2>1. \A d \in Edits : d # c => edit'[d] = edit[d]
    BY PlacedRow
  <2> QED BY <2>1 DEF Kept, Keeps, Reorders, Editing
<1>7. KeptAreOwn'
  <2> SUFFICES ASSUME NEW d \in Edits, NEW f \in Kept(d)' PROVE order'[f].by = d
    BY DEF KeptAreOwn
  <2>1. d # c /\ f \in Kept(d) /\ f \in DOMAIN order
    BY <1>5, <1>6, KeptInside
  <2> QED BY <2>1, PlacedRow DEF OrderInv, KeptAreOwn
<1>8. ASSUME NEW f \in Range(r.to), NEW d \in Edits, Stands(f, d)' PROVE d = c
  <2>1. order'[f].by = c
    BY <1>4, PlacedRow, KeptInside DEF OrderInv, KeptAreOwn
  <2>2. \A e \in Edits : e # c => f \notin Kept(e)
    BY <1>4, PlacedRow, KeptApart DEF OrderInv
  <2>3. ~\E e \in Edits : \E i \in Nat : Keeps(e, i, f)'
    <3> SUFFICES ASSUME NEW e \in Edits, e # c, NEW i \in Nat, Keeps(e, i, f) PROVE FALSE
      BY <1>5, <1>6
    <3>1. f \in Kept(e)
      BY DEF Keeps, Kept, Reorders
    <3> QED BY <2>2, <3>1
  <2> QED BY <1>8, <2>1, <2>3 DEF Stands
<1>9. ASSUME NEW f \in DOMAIN order, f \notin Range(r.to), NEW d \in Edits, Stands(f, d)'
      PROVE  Stands(f, d)
  <2>1. ASSUME \A e \in Edits : f \notin Kept(e)', order'[f].by = d PROVE Stands(f, d)
    <3>1. \A e \in Edits : f \notin Kept(e)
      BY <1>4, <1>6, <1>9, <2>1
    <3> QED BY <1>4, <1>9, <2>1, <3>1, PlacedRow DEF Stands
  <2>2. ASSUME NEW e \in Edits, NEW i \in Nat, Keeps(e, i, f)', edit'[e].before[i].by = d
        PROVE  Stands(f, d)
    BY <1>5, <1>6, <2>2, PlacedRow DEF Stands
  <2> QED BY <1>9, <2>1, <2>2 DEF Stands
<1>10. ASSUME NEW f \in DOMAIN order, NEW d \in Edits, Stands(f, d), d # c
       PROVE  /\ edit'[d] = edit[d] /\ edit[d] \in [op : {"done"}, to : Orders]
              /\ f \in Range(edit[d].to)
  BY <1>10, PlacedRow DEF OrderInv, StandingAreDone
<1>11. ~\E f \in DOMAIN order : Stands(f, c)
  <2>1. edit[c] \notin [op : {"done"}, to : Orders]
    BY <1>1, <1>2
  <2> QED BY <2>1 DEF OrderInv, StandingAreDone
<1>12. [op |-> "done", to |-> r.to] \in [op : {"done"}, to : Orders]
  BY <1>2
<1>13. ASSUME NEW f \in DOMAIN order, NEW d \in Edits, Stands(f, d)'
       PROVE  \/ d = c /\ f \in Range(r.to)
              \/ d # c /\ f \notin Range(r.to) /\ Stands(f, d)
  BY <1>8, <1>9, <1>11, <1>13
<1>14. StandingAreDone'
  <2> SUFFICES ASSUME NEW f \in DOMAIN order, NEW d \in Edits, Stands(f, d)'
               PROVE  edit'[d] \in [op : {"done"}, to : Orders] /\ f \in Range(edit'[d].to)
    BY PlacedRow DEF StandingAreDone
  <2>1. CASE d = c /\ f \in Range(r.to)
    BY <1>3, <1>12, <2>1
  <2>2. CASE d # c /\ Stands(f, d)
    BY <1>10, <2>2
  <2> QED BY <1>13, <2>1, <2>2
<1>15. StandUnmixed'
  <2> SUFFICES ASSUME NEW f \in DOMAIN order, NEW g \in DOMAIN order, NEW d \in Edits, NEW e \in Edits,
                      Stands(f, d)', Stands(g, e)', Range(edit'[d].to) = Range(edit'[e].to)
               PROVE  d = e
    BY PlacedRow DEF StandUnmixed
  <2>1. Range(edit'[c].to) = Range(r.to)
    BY <1>3
  <2>2. CASE d = c /\ e # c
    BY <1>10, <1>13, <2>1, <2>2
  <2>3. CASE d # c /\ e = c
    BY <1>10, <1>13, <2>1, <2>3
  <2>4. CASE d # c /\ e # c
    BY <1>10, <1>13, <2>4 DEF OrderInv, StandUnmixed
  <2> QED BY <2>2, <2>3, <2>4
<1> QED BY <1>7, <1>14, <1>15 DEF OrderInv

(* Every step lets the rows stand, or ends a reordering.                   *)
LEMMA OrderStep == FieldTypeOK /\ EditsFit /\ OrderInv /\ [FieldNext]_fieldVars => OrderInv'
<1> SUFFICES ASSUME FieldTypeOK, EditsFit, OrderInv, [FieldNext]_fieldVars PROVE OrderInv'
  OBVIOUS
<1>1. ASSUME NEW c \in Edits, NEW r, BeginEdit(c, r), r.op # "reorder" \/ r.next = 1
      PROVE  OrderInv'
  <2>1. Kept(c) = {} /\ ~HasEnded(c)
    BY <1>1 DEF BeginEdit, Unused, Kept, Editing, HasEnded
  <2>2. edit'[c] = r /\ \A d \in Edits : d # c => edit'[d] = edit[d]
    BY <1>1 DEF BeginEdit, EditsFit
  <2>3. Kept(c)' = {}
    BY <1>1, <2>2 DEF Kept, Editing
  <2>4. order' = order
    BY <1>1 DEF BeginEdit
  <2> QED BY <2>1, <2>2, <2>3, <2>4, OthersReorder
<1>2. ASSUME NEW c \in Edits, ManageTabs(c), ~WriteTab(c) PROVE OrderInv'
  <2>1. CASE CreateTab(c)
    BY <1>1, <2>1 DEF CreateTab
  <2>2. CASE UpdateTab(c)
    BY <1>1, <2>2 DEF UpdateTab
  <2>3. CASE SetTabStatus(c)
    BY <1>1, <2>3 DEF SetTabStatus
  <2> QED BY <1>2, <2>1, <2>2, <2>3 DEF ManageTabs
<1>3. ASSUME NEW c \in Edits,
             \/ CreateField(c) \/ UpdateField(c) \/ SetFieldStatus(c) \/ DeleteField(c)
             \/ DuplicateField(c) \/ ReorderFields(c)
      PROVE  OrderInv'
  <2>1. CASE CreateField(c)
    BY <1>1, <2>1 DEF CreateField
  <2>2. CASE UpdateField(c)
    BY <1>1, <2>2 DEF UpdateField
  <2>3. CASE SetFieldStatus(c)
    BY <1>1, <2>3 DEF SetFieldStatus
  <2>4. CASE DeleteField(c)
    BY <1>1, <2>4 DEF DeleteField
  <2>5. CASE DuplicateField(c)
    BY <1>1, <2>5 DEF DuplicateField
  <2>6. CASE ReorderFields(c)
    BY <1>1, <2>6 DEF ReorderFields
  <2> QED BY <1>3, <2>1, <2>2, <2>3, <2>4, <2>5, <2>6
<1>4. ASSUME NEW c \in Edits, UpdateEmployeeCustomData(c) \/ DeleteEmployeeCustomData(c) PROVE OrderInv'
  <2>1. CASE UpdateEmployeeCustomData(c)
    BY <1>1, <2>1 DEF UpdateEmployeeCustomData
  <2>2. CASE DeleteEmployeeCustomData(c)
    BY <1>1, <2>2 DEF DeleteEmployeeCustomData
  <2> QED BY <1>4, <2>1, <2>2
<1>5. ASSUME NEW c \in Edits, NEW result, FinishEdit(c, result), edit[c] # Nothing,
             edit[c].op \notin {"reorder", "done"}
      PROVE  /\ Kept(c) = {} /\ ~HasEnded(c)
             /\ Kept(c)' = {} \/ result = "reorder"
             /\ \A d \in Edits : d # c => edit'[d] = edit[d]
  BY <1>5 DEF FinishEdit, Kept, Editing, HasEnded, EditsFit
<1>6. ASSUME NEW c \in Edits, WriteTab(c) \/ WriteValues(c) PROVE OrderInv'
  <2>1. \E result \in {"done", "failed"} : FinishEdit(c, result)
    BY <1>6 DEF WriteTab, WriteValues
  <2>2. edit[c] # Nothing /\ edit[c].op \notin {"reorder", "done"} /\ order' = order
    BY <1>6 DEF WriteTab, WriteValues, Editing
  <2>3. /\ Kept(c) = {} /\ ~HasEnded(c) /\ Kept(c)' = {}
        /\ \A d \in Edits : d # c => edit'[d] = edit[d]
    BY <1>5, <2>1, <2>2
  <2> QED BY <2>2, <2>3, OthersReorder
<1>7. ASSUME NEW c \in Edits, InsertField(c) \/ WriteField(c) PROVE OrderInv'
  <2>1. \E result \in {"done", "failed"} : FinishEdit(c, result)
    BY <1>7 DEF InsertField, WriteField
  <2>2. edit[c] # Nothing /\ edit[c].op \notin {"reorder", "done"}
    BY <1>7 DEF InsertField, WriteField, Editing
  <2>3. /\ Kept(c) = {} /\ ~HasEnded(c) /\ Kept(c)' = {}
        /\ \A d \in Edits : d # c => edit'[d] = edit[d]
    BY <1>5, <2>1, <2>2
  <2>4. PICK on : on = edit[c].on
    OBVIOUS
  <2>5. /\ DOMAIN order \subseteq DOMAIN order'
        /\ \A f \in DOMAIN order' :
              \/ f \in DOMAIN order /\ order'[f] = order[f]
              \/ order'[f].by = Nothing /\ \A d \in Edits : f \notin Kept(d)
    <3>1. CASE order' = order
      BY <3>1
    <3>2. CASE InsertField(c) /\ order' # order
      <4>1. /\ on \notin DOMAIN order
            /\ order' = Put(order, on, [at |-> 0, by |-> Nothing])
        BY <2>4, <3>2 DEF InsertField, FieldTypeOK
      <4>2. \A d \in Edits : on \notin Kept(d)
        BY <4>1, KeptInside
      <4> QED BY <4>1, <4>2 DEF Put
    <3>3. CASE WriteField(c) /\ order' # order
      <4>1. /\ order' = [order EXCEPT ![on] = [at |-> 0, by |-> Nothing]]
            /\ ~Locked(on, c)
        BY <2>4, <3>3 DEF WriteField
      <4>2. \A d \in Edits : on \notin Kept(d)
        BY <2>3, <4>1 DEF Locked
      <4> QED BY <4>1, <4>2
    <3> QED BY <1>7, <3>1, <3>2, <3>3
  <2> QED BY <2>3, <2>5, OthersReorder
<1>8. ASSUME NEW c \in Edits, PlaceField(c) PROVE OrderInv'
  BY <1>8, PlaceStands, LastPlaceStands
<1>9. ASSUME NEW c \in Edits, AbortReordering(c) PROVE OrderInv'
  BY <1>9, AbortStands
<1>10. CASE UNCHANGED fieldVars
  BY <1>10 DEF fieldVars, OrderInv, KeptAreOwn, StandingAreDone, StandUnmixed, Stands, Keeps, Reorders,
               Editing, Kept
<1>11. CASE FieldNext
  <2>1. PICK c \in Edits : ManageTabs(c) \/ ManageFields(c) \/ ManageValues(c)
    BY <1>11 DEF FieldNext
  <2>2. CASE ManageTabs(c)
    BY <1>2, <1>6, <2>2
  <2>3. CASE ManageFields(c)
    BY <1>3, <1>7, <1>8, <1>9, <2>3 DEF ManageFields
  <2>4. CASE ManageValues(c)
    BY <1>4, <1>6, <2>4 DEF ManageValues
  <2> QED BY <2>1, <2>2, <2>3, <2>4
<1> QED BY <1>10, <1>11

FieldInv == FieldTypeOK /\ EditsFit /\ OrderInv

(* What the invariant of the fields rests on: each call carries what fits  *)
(* the tables, which only grow, and the rows that reorderings wrote stand  *)
(* by whole reorderings.                                                   *)
THEOREM FieldsInductive == FieldSpec => []FieldInv
<1>1. FieldInit => FieldInv
  <2> SUFFICES ASSUME FieldInit PROVE FieldInv
    OBVIOUS
  <2>1. \A c \in Edits : edit[c] = Nothing /\ Kept(c) = {}
    BY DEF FieldInit, Kept, Editing
  <2>2. \A f \in DOMAIN order : order[f] = [at |-> 0, by |-> Nothing]
    BY DEF FieldInit
  <2>3. FieldTypeOK
    BY FieldAssumption DEF FieldInit, FieldTypeOK, Definition, FieldStatuses, Rank
  <2>4. EditsFit
    BY DEF FieldInit, EditsFit
  <2>5. \A f \in DOMAIN order, d \in Edits : ~Stands(f, d)
    BY <2>1, <2>2, FieldAssumption DEF Stands, Keeps, Reorders, Editing
  <2> QED BY <2>1, <2>3, <2>4, <2>5 DEF FieldInv, OrderInv, KeptAreOwn, StandingAreDone, StandUnmixed
<1>2. FieldInv /\ [FieldNext]_fieldVars => FieldInv'
  BY TypeFieldStep, OrderStep DEF FieldInv
<1> QED BY <1>1, <1>2, PTL DEF FieldSpec

(* The reorderings that are done and wrote rows last have other rows.      *)
LEMMA OrdersNeverMix == FieldInv => NoMixedOrder
<1> SUFFICES ASSUME FieldInv, NEW f \in DOMAIN order, NEW g \in DOMAIN order,
                    NEW c, NEW d, c = order[f].by, d = order[g].by, c # Nothing, d # Nothing,
                    edit[c].op = "done", edit[d].op = "done",
                    Range(edit[c].to) = Range(edit[d].to)
             PROVE  c = d
  BY DEF NoMixedOrder
<1>1. c \in Edits /\ d \in Edits
  BY DEF FieldInv, FieldTypeOK, Rank
<1>2. ASSUME NEW h \in DOMAIN order, NEW e \in Edits, order[h].by = e, edit[e].op = "done"
      PROVE  Stands(h, e)
  BY <1>2 DEF FieldInv, OrderInv, KeptAreOwn, Kept, Editing, Stands
<1>3. Stands(f, c) /\ Stands(g, d)
  BY <1>1, <1>2
<1> QED BY <1>1, <1>3 DEF FieldInv, OrderInv, StandUnmixed

(* What the profile shows the filter finds, and no visible field vanishes: *)
(* both hold of every state whose rows have their types.                   *)
LEMMA FieldsAreSeen == FieldTypeOK => FilterFindsShown /\ NoFieldVanishes
<1> SUFFICES ASSUME FieldTypeOK PROVE FilterFindsShown /\ NoFieldVanishes
  OBVIOUS
<1>1. FilterFindsShown
  <2> SUFFICES ASSUME NEW f \in ActiveFields, Shown(f) # Nothing PROVE Finds(Predicate(f, Shown(f)), f)
    BY DEF FilterFindsShown
  <2>1. /\ f \in DOMAIN value /\ value[f].column = Column(field[f].form.type)
        /\ Shown(f) = value[f].text
    BY DEF Shown
  <2>2. value[f] = [column |-> value[f].column, text |-> value[f].text]
    BY <2>1 DEF FieldTypeOK, Value
  <2> QED BY <2>1, <2>2 DEF Finds, Predicate
<1>2. ASSUME NEW R \in SUBSET Roles, NEW f \in VisibleFields(R)
      PROVE  LET places == {t \in VisibleTabs(R) : f \in FieldsOfTab(t, R)} IN
             /\ f \in CustomFieldsTab(R) => places = {}
             /\ f \notin CustomFieldsTab(R) => places = {WorkbookSheet(f, R)}
             /\ WorkbookSheet(f, R) \in Strip(R)
  <2>1. VisibleTabs(R) \subseteq DOMAIN tab
    BY DEF VisibleTabs
  <2> QED BY <2>1 DEF FieldsOfTab, CustomFieldsTab, WorkbookSheet, Strip
<1> QED BY <1>1, <1>2 DEF NoFieldVanishes

(* In every reachable state, however calls overlap: tables, values and     *)
(* positions keep their types, each visible field is in exactly one place  *)
(* of the profile and of the workbook, completed reorderings of the same   *)
(* fields leave the order of one of them, and the filter of the list finds *)
(* what the profile shows (features/employee-fields, employee-tabs).       *)
THEOREM FieldsStayConsistent == FieldSpec => []FieldsConsistent
<1>1. FieldInv => FieldsConsistent
  BY OrdersNeverMix, FieldsAreSeen DEF FieldInv, FieldsConsistent
<1> QED BY <1>1, FieldsInductive, PTL

(* A value is changed only by a call that saves, and only one of the       *)
(* fields its form presented (master-data/actions.ts:                      *)
(* updateEmployeeCustomDataAction, deleteEmployeeCustomDataAction).        *)
THEOREM FormsStayApart == FieldSpec => FormsTouchTheirFields
<1> DEFINE Changed(f) ==
       (f \in DOMAIN value) # (f \in DOMAIN value') \/ (f \in DOMAIN value /\ value'[f] # value[f])
<1>1. FieldInv /\ [FieldNext]_fieldVars =>
        [\A f \in DOMAIN field :
           Changed(f) => \E c \in Edits : Editing(c, "save") /\ edit'[c] # edit[c] /\ f \in edit[c].shown]_fieldVars
  <2> SUFFICES ASSUME FieldInv, FieldNext, NEW f \in DOMAIN field, Changed(f)
               PROVE  \E c \in Edits : Editing(c, "save") /\ edit'[c] # edit[c] /\ f \in edit[c].shown
    OBVIOUS
  <2>1. PICK c \in Edits : ManageTabs(c) \/ ManageFields(c) \/ ManageValues(c)
    BY DEF FieldNext
  <2>2. CASE ~WriteValues(c)
    <3>1. value' = value
      BY <2>1, <2>2 DEF ManageTabs, CreateTab, UpdateTab, SetTabStatus, WriteTab,
           ManageFields, CreateField, UpdateField, SetFieldStatus, DeleteField, DuplicateField,
           InsertField, WriteField, ReorderFields, PlaceField, AbortReordering,
           ManageValues, UpdateEmployeeCustomData, DeleteEmployeeCustomData, BeginEdit
    <3> QED BY <3>1
  <2>3. CASE WriteValues(c)
    <3>1. PICK w : w = edit[c].write
      OBVIOUS
    <3> DEFINE kept == {g \in DOMAIN value : g \notin DOMAIN w}
               set == {g \in DOMAIN w : w[g] # Nothing}
    <3>2. value' = [g \in kept \cup set |-> IF g \in set THEN w[g] ELSE value[g]]
      BY <2>3, <3>1 DEF WriteValues
    <3>3. f \in DOMAIN w
      BY <3>2
    <3>4. Editing(c, "save") /\ DOMAIN w \subseteq edit[c].shown
      BY <2>3, <3>1 DEF WriteValues, Editing, FieldInv, EditsFit, EditFits
    <3>5. edit'[c].op = "done" /\ edit[c].op = "save"
      BY <2>3 DEF WriteValues, FinishEdit, Editing, FieldInv, EditsFit
    <3> QED BY <3>3, <3>4, <3>5
  <2> QED BY <2>2, <2>3
<1> QED BY <1>1, FieldsInductive, PTL DEF FieldSpec, FormsTouchTheirFields
=============================================================================
