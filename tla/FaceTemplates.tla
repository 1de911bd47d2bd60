--------------------------- MODULE FaceTemplates ---------------------------
(***************************************************************************)
(* Face enrollments, their encrypted templates, the verification of a face *)
(* and the rotation of the template key: features/employees/face-*,        *)
(* lib/attendance/face-*, template-cipher, the verification ledger of      *)
(* lib/security and scripts/face-template-rekey.                           *)
(*                                                                         *)
(* A task is a call of a user; it runs in steps separated by awaits: the   *)
(* reads and guards, the engine, the SELECT of its transaction, and the    *)
(* writes.  The writes of one transaction are one step, since a second     *)
(* writer of the same enrollment waits for the first to commit and then    *)
(* applies its own.  The re-keying holds its row locks between two steps.  *)
(*                                                                         *)
(* Data: the key of generation g has version label g, generation 1 is the  *)
(* label a server without configuration assumes; a template is the key     *)
(* that encrypted it, its label, and whether a component of its embedding  *)
(* is exactly zero.  Rows are named by the call that inserted them.        *)
(* Callers of the management actions hold EMPLOYEES_UPDATE.                *)
(***************************************************************************)
EXTENDS Naturals, Sequences, FiniteSets, SequencesExt, Functions

CONSTANTS Personnel, Users,
          OwnEmployee,  \* the employee a user is linked to
          Tasks, Null,
          Rotations,    \* bound: how often the key is rotated
          MaxAttempts,  \* attempts of a verification window
          MaxEntries,   \* windows the ledger keeps
          Charges       \* bound: attempts charged altogether

ASSUME FaceAssumption ==
    /\ OwnEmployee \in [Users -> Personnel]
    /\ Null \notin Personnel \cup Users \cup Tasks
    /\ Rotations \in Nat /\ MaxAttempts \in Nat \ {0} /\ MaxEntries \in Nat \ {0}
    /\ Charges \in Nat

VARIABLES employee,    \* employment status of the employees that exist
          enrollment,  \* employee_face_enrollments
          template,    \* face_enrollment_templates, by enrollment
          ring,        \* generations of the keys the server process holds
          rekey,       \* the running re-keying: the rows it has locked
          checked,     \* the operator has counted no row of the old version
          ledger,      \* attempt windows in the memory of the process, oldest first
          charged,     \* attempts charged so far, only bounded
          task         \* what each task has read and still has to do

faceVars == <<employee, enrollment, template, ring, rekey, checked, ledger, charged, task>>

Generations == 1 .. Rotations + 1
DefaultVersion == 1

Template == [key : Generations, version : Generations, sparse : BOOLEAN]
Enrollment == [of : Personnel, status : {"active", "revoked"}, by : Users]
Ring == [primary : Generations, previous : Generations \cup {0}]
Window == [user : Users, attempts : 1 .. Charges]

Ops == {"enroll", "revoke", "verify"}
Call == [op : Ops, by : Users, of : Personnel, reenroll : BOOLEAN,
         replace : BOOLEAN, phase : {"engine", "select", "write"},
         new : Template \cup {Null}, read : SUBSET Tasks]
    \cup [op : {"verify"}, by : Users, of : Personnel, read : Template]
    \cup [result : {"done", "failed", "lost", "matched", "not_matched", "corrupt"}]

ASSUME NullIsNoCall == Null \notin Call

Free(c) == task[c] = Null
Finish(c, result) == task' = [task EXCEPT ![c] = [result |-> result]]
Busy(c) == task[c] # Null /\ "op" \in DOMAIN task[c]
InWrite(c, op) == Busy(c) /\ task[c].op = op /\ "phase" \in DOMAIN task[c]

Active(e) == {i \in DOMAIN enrollment : enrollment[i].of = e /\ enrollment[i].status = "active"}
HasActive(e) == Active(e) # {}
Employed(e) == e \in DOMAIN employee /\ employee[e] = "active"

(***************************************************************************)
(* The key ring.  A label selects one key; the previous key answers to the *)
(* default label only.                                                     *)
(***************************************************************************)
\* MUTANT of KeyFor: the label is not looked at.
KeyForAny(r, version) == r.primary

KeyFor(r, version) ==
    CASE version = r.primary -> r.primary
      [] version # r.primary /\ r.previous # 0 /\ version = DefaultVersion -> r.previous
      [] OTHER -> 0

Readable(t) == KeyFor(ring, t.version) = t.key

Encrypted(sparse) == [key |-> ring.primary, version |-> ring.primary, sparse |-> sparse]

(***************************************************************************)
(* Enrollment.                                                             *)
(***************************************************************************)
\* MUTANT of EnrollmentGuard: an enrolled face is replaced without being asked.
EnrollmentGuardAnyway(e, reenroll) == Employed(e)

EnrollmentGuard(e, reenroll) == Employed(e) /\ (HasActive(e) => reenroll)

BeginEnroll(c, u, e, reenroll) ==
    /\ Free(c) /\ EnrollmentGuard(e, reenroll)
    /\ task' = [task EXCEPT ![c] =
                  [op |-> "enroll", by |-> u, of |-> e, reenroll |-> reenroll,
                   replace |-> HasActive(e), phase |-> "engine", new |-> Null, read |-> {}]]
    /\ UNCHANGED <<employee, enrollment, template, ring, rekey, checked, ledger, charged>>

EnrollFace(c) ==
    \E u \in Users, e \in Personnel, reenroll \in BOOLEAN : BeginEnroll(c, u, e, reenroll)

SelfEnrollFace(c) ==
    \E u \in Users, reenroll \in BOOLEAN : BeginEnroll(c, u, OwnEmployee[u], reenroll)

\* The engine finds exactly one face, or the call ends; the template is
\* encrypted with the primary key of the process.
CreateTemplate(c) ==
    /\ InWrite(c, "enroll") /\ task[c].phase = "engine"
    /\ \/ \E sparse \in BOOLEAN :
            task' = [task EXCEPT ![c].new = Encrypted(sparse),
                                 ![c].phase = IF task[c].replace THEN "select" ELSE "write"]
       \/ Finish(c, "failed")
    /\ UNCHANGED <<employee, enrollment, template, ring, rekey, checked, ledger, charged>>

\* The transactions of a replacement and of a revocation select the active rows.
SelectActive(c) ==
    /\ InWrite(c, "enroll") \/ InWrite(c, "revoke")
    /\ task[c].phase = "select"
    /\ IF task[c].op = "revoke" /\ ~HasActive(task[c].of)
       THEN Finish(c, "failed")
       ELSE task' = [task EXCEPT ![c].read = Active(task[c].of), ![c].phase = "write"]
    /\ UNCHANGED <<employee, enrollment, template, ring, rekey, checked, ledger, charged>>

Insert(f, x, v) == [y \in DOMAIN f \cup {x} |-> IF y = x THEN v ELSE f[y]]

Revoked(rows, u) ==
    [i \in DOMAIN enrollment |-> IF i \in rows THEN [enrollment[i] EXCEPT !.status = "revoked", !.by = u]
                                 ELSE enrollment[i]]
Without(rows) == Restrict(template, DOMAIN template \ rows)

\* One active enrollment for each employee, by the partial unique index.
SlotTaken(e, rows) == Active(e) \ rows # {}

StoreEnrollment(c) ==
    LET rows == task[c].read \cap DOMAIN enrollment
        e == task[c].of
    IN /\ InWrite(c, "enroll") /\ task[c].phase = "write"
       /\ rows \cap DOMAIN template \cap rekey = {}
       /\ IF e \notin DOMAIN employee \/ SlotTaken(e, rows)
          THEN Finish(c, "failed") /\ UNCHANGED <<enrollment, template>>
          ELSE /\ enrollment' = Insert(Revoked(rows, task[c].by), c,
                                       [of |-> e, status |-> "active", by |-> task[c].by])
               /\ template' = Insert(Without(rows), c, task[c].new)
               /\ Finish(c, "done")
       /\ UNCHANGED <<employee, ring, rekey, checked, ledger, charged>>

(***************************************************************************)
(* Revocation, of departed employees too.                                  *)
(***************************************************************************)
BeginRevoke(c) ==
    /\ Free(c)
    /\ \E u \in Users, e \in DOMAIN employee :
         /\ HasActive(e)
         /\ task' = [task EXCEPT ![c] =
                       [op |-> "revoke", by |-> u, of |-> e, reenroll |-> FALSE,
                        replace |-> FALSE, phase |-> "select", new |-> Null, read |-> {}]]
    /\ UNCHANGED <<employee, enrollment, template, ring, rekey, checked, ledger, charged>>

RevokeEnrollment(c) ==
    LET rows == task[c].read \cap DOMAIN enrollment
    IN /\ InWrite(c, "revoke") /\ task[c].phase = "write"
       /\ rows \cap DOMAIN template \cap rekey = {}
       /\ enrollment' = Revoked(rows, task[c].by)
       /\ template' = Without(rows)
       /\ Finish(c, "done")
       /\ UNCHANGED <<employee, ring, rekey, checked, ledger, charged>>

(***************************************************************************)
(* Verification.  The ledger is read before the comparison and charged     *)
(* after it.                                                               *)
(***************************************************************************)
IsLimited(u) == \E i \in DOMAIN ledger : ledger[i].user = u /\ ledger[i].attempts >= MaxAttempts

Evict(l) == IF Len(l) > MaxEntries THEN SubSeq(l, Len(l) - MaxEntries + 1, Len(l)) ELSE l

RecordAttempt(u) ==
    LET known == {i \in DOMAIN ledger : ledger[i].user = u}
    IN IF known = {} THEN Evict(Append(ledger, [user |-> u, attempts |-> 1]))
       ELSE [i \in DOMAIN ledger |->
               IF i \in known THEN [ledger[i] EXCEPT !.attempts = @ + 1] ELSE ledger[i]]

\* Windows end in the order they began; a later call forgets the ended ones.
WindowEnds ==
    /\ ledger # <<>>
    /\ ledger' = Tail(ledger)
    /\ UNCHANGED <<employee, enrollment, template, ring, rekey, checked, charged, task>>

VerificationTemplate(e) == {template[i] : i \in Active(e) \cap DOMAIN template}

BeginVerify(c) ==
    /\ Free(c) /\ charged < Charges
    /\ \E u \in Users, e \in Personnel :
         /\ ~IsLimited(u) /\ Employed(e)
         /\ \E t \in VerificationTemplate(e) :
              task' = [task EXCEPT ![c] = [op |-> "verify", by |-> u, of |-> e, read |-> t]]
    /\ UNCHANGED <<employee, enrollment, template, ring, rekey, checked, ledger, charged>>

\* The label read with the template selects the key; an engine that finds
\* no single face, or a threshold that is none, fails the comparison.
CompareFace(c) ==
    /\ Busy(c) /\ task[c].op = "verify" /\ charged < Charges
    /\ ledger' = RecordAttempt(task[c].by)
    /\ charged' = charged + 1
    /\ IF Readable(task[c].read)
       THEN \E result \in {"matched", "not_matched", "failed"} : Finish(c, result)
       ELSE Finish(c, "corrupt")
    /\ UNCHANGED <<employee, enrollment, template, ring, rekey, checked>>

(***************************************************************************)
(* What happens to the employee meanwhile (module Employees has the rest). *)
(***************************************************************************)
Deactivate(e) ==
    /\ Employed(e)
    /\ employee' = [employee EXCEPT ![e] = "inactive"]
    /\ UNCHANGED <<enrollment, template, ring, rekey, checked, ledger, charged, task>>

DeleteEmployee(e) ==
    LET rows == {i \in DOMAIN enrollment : enrollment[i].of = e}
    IN /\ e \in DOMAIN employee /\ employee[e] = "inactive" /\ rows \cap rekey = {}
       /\ employee' = Restrict(employee, DOMAIN employee \ {e})
       /\ enrollment' = Restrict(enrollment, DOMAIN enrollment \ rows)
       /\ template' = Without(rows)
       /\ UNCHANGED <<ring, rekey, checked, ledger, charged, task>>

(***************************************************************************)
(* The rotation of the key: open the window, re-key, count, withdraw.  A   *)
(* new configuration takes effect by a restart, which loses the calls and  *)
(* the ledger of the old process; an open transaction rolls back.          *)
(***************************************************************************)
Restart(r) ==
    /\ ring' = r
    /\ ledger' = <<>>
    /\ task' = [c \in Tasks |-> IF Busy(c) THEN [result |-> "lost"] ELSE task[c]]
    /\ UNCHANGED <<employee, enrollment, template, rekey, charged>>

OpenWindow ==
    /\ ring.previous = 0 /\ ring.primary <= Rotations
    /\ Restart([primary |-> ring.primary + 1, previous |-> ring.primary])
    /\ checked' = FALSE

CloseWindow ==
    /\ ring.previous # 0 /\ checked
    /\ Restart([ring EXCEPT !.previous = 0])
    /\ checked' = FALSE

Crash == Restart(ring) /\ UNCHANGED checked

OldRows(version) == {i \in DOMAIN template : template[i].version = version}

\* BEGIN and SELECT FOR UPDATE: rows inserted later are neither seen nor locked.
\* Without rows there is nothing to lock or to rewrite.
BeginRekey ==
    /\ ring.previous # 0 /\ rekey = {} /\ DOMAIN template # {} /\ ~checked
    /\ rekey' = DOMAIN template
    /\ UNCHANGED <<employee, enrollment, template, ring, checked, ledger, charged, task>>

\* A plaintext with a component of zero counts as no embedding.
Refused(i, from) == template[i].key # from \/ template[i].sparse

\* Every row of the old version or none, with its label; COMMIT or ROLLBACK.
EndRekey ==
    LET old == rekey \cap OldRows(ring.previous)
        commits == \A i \in old : ~Refused(i, ring.previous)
    IN /\ rekey # {}
       /\ \/ /\ commits
             /\ template' = [i \in DOMAIN template |->
                   IF i \in old THEN [template[i] EXCEPT !.key = ring.primary, !.version = ring.primary]
                   ELSE template[i]]
          \/ UNCHANGED template  \* --dry-run, or a refused row
       /\ rekey' = {}
       /\ UNCHANGED <<employee, enrollment, ring, checked, ledger, charged, task>>

CountOldRows ==
    /\ ring.previous # 0 /\ rekey = {} /\ ~checked
    /\ checked' = (OldRows(ring.previous) = {})
    /\ UNCHANGED <<employee, enrollment, template, ring, rekey, ledger, charged, task>>

(***************************************************************************)
(* The specification.                                                      *)
(***************************************************************************)
FaceInit ==
    /\ employee = [e \in Personnel |-> "active"]
    /\ enrollment = [i \in {} |-> Null] /\ template = [i \in {} |-> Null]
    /\ ring = [primary |-> 1, previous |-> 0]
    /\ rekey = {} /\ checked = FALSE
    /\ ledger = <<>> /\ charged = 0
    /\ task = [c \in Tasks |-> Null]

FaceNext ==
    \/ \E c \in Tasks :
         \/ EnrollFace(c) \/ SelfEnrollFace(c) \/ CreateTemplate(c)
         \/ SelectActive(c) \/ StoreEnrollment(c)
         \/ BeginRevoke(c) \/ RevokeEnrollment(c)
         \/ BeginVerify(c) \/ CompareFace(c)
    \/ \E e \in Personnel : Deactivate(e) \/ DeleteEmployee(e)
    \/ WindowEnds
    \/ OpenWindow \/ CloseWindow \/ Crash
    \/ BeginRekey \/ EndRekey \/ CountOldRows

FaceSpec == FaceInit /\ [][FaceNext]_faceVars

(***************************************************************************)
(* Properties.                                                             *)
(***************************************************************************)

\* Every variable has its type: a row is of a call, a template of an enrollment.
FaceTypeOK ==
    /\ DOMAIN employee \subseteq Personnel
    /\ \A e \in DOMAIN employee : employee[e] \in {"active", "inactive"}
    /\ DOMAIN enrollment \subseteq Tasks
    /\ \A i \in DOMAIN enrollment : enrollment[i] \in Enrollment
    /\ DOMAIN template \subseteq Tasks
    /\ \A i \in DOMAIN template : template[i] \in Template
    /\ ring \in Ring /\ rekey \subseteq Tasks /\ checked \in BOOLEAN
    /\ charged \in 0 .. Charges
    /\ ledger \in BoundedSeq(Window, MaxEntries)
    /\ \A c \in Tasks : task[c] = Null \/ task[c] \in Call

\* Whatever replacements, revocations, deletions and re-keyings overlap, the
\* secret of an enrollment exists exactly as long as the enrollment is
\* active, and an employee has at most one: "the old biometric secret must
\* not survive a replacement" (face-enrollment.actions.ts).
SecretsFollowEnrollments ==
    /\ DOMAIN template = {i \in DOMAIN enrollment : enrollment[i].status = "active"}
    /\ \A e \in Personnel : Cardinality(Active(e)) <= 1

\* At every point of the first rotation, the server can decrypt each stored
\* template and each one a verification has in its hands, so no verification
\* reports a corrupt template.
TemplatesStayReadable ==
    /\ \A i \in DOMAIN template : Readable(template[i])
    /\ \A c \in Tasks : /\ Busy(c) /\ task[c].op = "verify" => Readable(task[c].read)
                        /\ task[c] # [result |-> "corrupt"]

\* A step that ends an active enrollment of an employee who stays is a
\* revocation or an enrollment whose form asked for the replacement, even
\* when the summary the form was checked against is stale.
OnlyReplacedOnRequest ==
    [][\A i \in DOMAIN enrollment :
         (enrollment[i].status = "active" /\ i \in DOMAIN enrollment'
             /\ enrollment'[i].status = "revoked")
           => \E c \in Tasks : /\ Busy(c) /\ task'[c] = [result |-> "done"]
                               /\ task[c].op = "revoke" \/ task[c].reenroll]_faceVars

\* Every active enrollment has its one secret, no other enrollment has any, and
\* the server can decrypt what is stored, at every point of the first rotation.
TemplatesConsistent ==
    /\ FaceTypeOK
    /\ SecretsFollowEnrollments
    /\ TemplatesStayReadable
=============================================================================

