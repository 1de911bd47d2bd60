----------------------- MODULE PayslipDocumentsProofs -----------------------
(***************************************************************************)
(* Proofs about PayslipDocuments, for every set of payslips, keys and jobs.*)
(***************************************************************************)
EXTENDS PayslipDocuments, FiniteSetTheorems, TLAPS

-----------------------------------------------------------------------------
(* The steps taken over from PayrollWorkflow                               *)

(* The CHOOSE of IssueSlips picks the employee a payslip id was given to.  *)
LEMMA ChosenOwner ==
    ASSUME NEW p \in Periods, NEW row \in [Workflow!Included(p) -> Slips], NEW s \in Slips,
           \E e \in DOMAIN row : row[e] = s
    PROVE  (CHOOSE e \in DOMAIN row : row[e] = s) \in Workflow!Included(p)
OBVIOUS

(* Every row that generation touches is new and becomes a payslip.         *)
LEMMA Issued ==
    ASSUME TypeOK, NEW p \in Periods, NEW row \in [Workflow!Included(p) -> Slips],
           Workflow!GeneratePayslips(p, row), NEW s \in Slips
    PROVE  \/ slip'[s] = slip[s]
           \/ slip[s] = NoSlip /\ slip'[s] \in Workflow!Payslip
<1>1. CASE \E e \in DOMAIN row : row[e] = s
  <2> DEFINE e == CHOOSE e \in DOMAIN row : row[e] = s
  <2>1. e \in Employees
    BY <1>1, ChosenOwner DEF Workflow!Included
  <2>2. slip'[s] = Workflow!NewSlip(p, e, "calculated") /\ slip[s] = NoSlip
    BY <1>1 DEF Workflow!GeneratePayslips, Workflow!IssueSlips, Workflow!CanGenerate
  <2> HIDE DEF e
  <2> QED BY <2>1, <2>2 DEF Workflow!NewSlip, Workflow!Payslip
<1>2. CASE ~ \E e \in DOMAIN row : row[e] = s
  BY <1>2 DEF Workflow!GeneratePayslips, Workflow!IssueSlips, Workflow!CanGenerate
<1> QED BY <1>1, <1>2

(* Payslips that change their status change nothing else.                  *)
LEMMA StatusSet ==
    ASSUME TypeOK, NEW S \in SUBSET Slips, NEW st \in {"published", "revoked"},
           \A s \in S : slip[s] # NoSlip, Workflow!SetStatus(S, st), NEW s \in Slips
    PROVE  \/ slip'[s] = slip[s]
           \/ /\ slip[s] # NoSlip /\ slip'[s] \in Workflow!Payslip
              /\ slip'[s].period = slip[s].period
              /\ slip'[s].employee = slip[s].employee
              /\ slip'[s].kind = slip[s].kind
BY DEF Workflow!SetStatus, TypeOK, Workflow!TypeOK, Workflow!Payslip

(* What a step of the workflow does to a payslip and to the item it shows. *)
SlipKept(s) ==
    \/ slip[s] = NoSlip /\ slip'[s] \in Workflow!Payslip \cup {NoSlip}
    \/ /\ slip[s] # NoSlip /\ slip'[s] \in Workflow!Payslip
       /\ slip'[s].period = slip[s].period
       /\ slip'[s].employee = slip[s].employee
       /\ slip'[s].kind = slip[s].kind
       /\ slip[s].kind = "calculated" => items'[slip[s].period] = items[slip[s].period]

LEMMA WorkflowKeepsSlips ==
    ASSUME TypeOK, WorkflowStep
    PROVE  Workflow!TypeOK' /\ \A s \in Slips : SlipKept(s)
<1> USE NullsAreNoRows
<1>0. /\ Workflow!TypeOK /\ Documented' = Documented
      /\ Documented \subseteq Slips
  BY DEF WorkflowStep, Documented, TypeOK
<1>t. Workflow!TypeOK' <=>
        /\ (period \in [Periods -> Workflow!PeriodStatus \cup {"absent"}])'
        /\ (endDate \in [Periods -> Dates \cup {NoDate}])'
        /\ (run \in [Periods -> Workflow!RunStatus \cup {"none"}])'
        /\ (items \in [Periods -> Workflow!Items])'
        /\ (calculatedFor \in [Periods -> Dates \cup {NoDate}])'
        /\ (slip \in [Slips -> Workflow!Payslip \cup {NoSlip}])'
        /\ (Documented \in SUBSET Slips)'
  BY DEF Workflow!TypeOK
<1>s. ASSUME slip' = slip,
             \A p \in Periods : Workflow!CalculatedSlips(p) # {} => items'[p] = items[p]
      PROVE  \A s \in Slips : SlipKept(s)
  <2> SUFFICES ASSUME NEW s \in Slips, slip[s] # NoSlip PROVE SlipKept(s)
    BY <1>s DEF SlipKept
  <2>1. slip[s] \in Workflow!Payslip /\ slip[s].period \in Periods
    BY <1>0 DEF Workflow!TypeOK, Workflow!Payslip
  <2>2. slip[s].kind = "calculated" => s \in Workflow!CalculatedSlips(slip[s].period)
    BY <2>1 DEF Workflow!CalculatedSlips, Workflow!SlipsOf
  <2> QED BY <2>1, <2>2, <1>s DEF SlipKept
<1>1. ASSUME NEW p \in Periods, NEW d \in Dates,
             Workflow!CreatePeriod(p, d) \/ Workflow!UpdatePeriod(p, d)
      PROVE  Workflow!TypeOK' /\ \A s \in Slips : SlipKept(s)
  BY <1>0, <1>1, <1>s, <1>t
     DEF Workflow!CreatePeriod, Workflow!UpdatePeriod, Workflow!TypeOK, Workflow!PeriodStatus,
         Workflow!CanUpdate
<1>2. ASSUME NEW p \in Periods, NEW snapshot \in Workflow!Items, Workflow!Calculate(p, snapshot)
      PROVE  Workflow!TypeOK' /\ \A s \in Slips : SlipKept(s)
  BY <1>0, <1>2, <1>s, <1>t
     DEF Workflow!Calculate, Workflow!TypeOK, Workflow!PeriodStatus, Workflow!RunStatus,
         Workflow!CalculationSucceeds
<1>3. ASSUME NEW p \in Periods,
             \/ Workflow!Submit(p) \/ Workflow!Approve(p) \/ Workflow!Reject(p)
             \/ Workflow!Lock(p) \/ Workflow!Cancel(p)
      PROVE  Workflow!TypeOK' /\ \A s \in Slips : SlipKept(s)
  <2>1. UNCHANGED <<slip, items, endDate, calculatedFor>>
    BY <1>3 DEF Workflow!Submit, Workflow!Approve, Workflow!Reject, Workflow!Lock,
         Workflow!Cancel, Workflow!payVars, Workflow!slipVars, Workflow!CanSubmit,
                Workflow!CanReview, Workflow!CanLock, Workflow!CanCancel
  <2>2. /\ period' \in [Periods -> Workflow!PeriodStatus \cup {"absent"}]
        /\ run' \in [Periods -> Workflow!RunStatus \cup {"none"}]
    BY <1>0, <1>3 DEF Workflow!Submit, Workflow!Approve, Workflow!Reject, Workflow!Lock,
         Workflow!Cancel, Workflow!TypeOK, Workflow!PeriodStatus, Workflow!RunStatus,
                      Workflow!CanSubmit, Workflow!CanReview, Workflow!CanLock,
                      Workflow!CanCancel
  <2> QED BY <1>0, <1>s, <1>t, <2>1, <2>2 DEF Workflow!TypeOK
<1>4. ASSUME NEW p \in Periods, Workflow!DeleteUnused(p)
      PROVE  Workflow!TypeOK' /\ \A s \in Slips : SlipKept(s)
  <2>1. Workflow!ErasePeriod(p) /\ Workflow!SlipsOf(p) = {}
    BY <1>4 DEF Workflow!DeleteUnused, Workflow!CanDeleteUnused
  <2>2. slip' = slip
    BY <2>1, <1>0 DEF Workflow!ErasePeriod, Workflow!TypeOK
  <2>3. Workflow!NoItems \in Workflow!Items
    BY DEF Workflow!NoItems, Workflow!Items
  <2>4. \A q \in Periods : Workflow!CalculatedSlips(q) # {} => items'[q] = items[q]
    BY <2>1, <1>0 DEF Workflow!ErasePeriod, Workflow!TypeOK, Workflow!CalculatedSlips
  <2>5. /\ period' \in [Periods -> Workflow!PeriodStatus \cup {"absent"}]
        /\ endDate' \in [Periods -> Dates \cup {NoDate}]
        /\ run' \in [Periods -> Workflow!RunStatus \cup {"none"}]
        /\ items' \in [Periods -> Workflow!Items]
        /\ calculatedFor' \in [Periods -> Dates \cup {NoDate}]
    BY <2>1, <2>3, <1>0 DEF Workflow!ErasePeriod, Workflow!TypeOK
  <2> QED BY <1>0, <1>s, <1>t, <2>2, <2>4, <2>5 DEF Workflow!TypeOK
<1>5. ASSUME NEW p \in Periods, NEW row \in [Workflow!Included(p) -> Slips],
             Workflow!GeneratePayslips(p, row)
      PROVE  Workflow!TypeOK' /\ \A s \in Slips : SlipKept(s)
  <2>1. UNCHANGED <<period, run, endDate, items, calculatedFor>>
    BY <1>5 DEF Workflow!GeneratePayslips, Workflow!IssueSlips, Workflow!payVars,
                Workflow!CanGenerate
  <2>2. DOMAIN slip' = Slips /\ slip' = [s \in DOMAIN slip' |-> slip'[s]]
    BY <1>5 DEF Workflow!GeneratePayslips, Workflow!IssueSlips, Workflow!CanGenerate
  <2>3. \A s \in Slips : slip'[s] \in Workflow!Payslip \cup {NoSlip}
    BY <1>5, <1>0, Issued DEF Workflow!TypeOK
  <2>4. \A s \in Slips : SlipKept(s)
    BY <1>5, <1>0, <2>1, Issued DEF Workflow!TypeOK, SlipKept
  <2> QED BY <1>0, <1>t, <2>1, <2>2, <2>3, <2>4 DEF Workflow!TypeOK
<1>6. ASSUME NEW S \in SUBSET Slips, NEW st \in {"published", "revoked"},
             \A s \in S : slip[s] # NoSlip, Workflow!SetStatus(S, st)
      PROVE  Workflow!TypeOK' /\ \A s \in Slips : SlipKept(s)
  <2>1. UNCHANGED <<period, run, endDate, items, calculatedFor>>
    BY <1>6 DEF Workflow!SetStatus, Workflow!payVars
  <2>2. DOMAIN slip' = Slips /\ slip' = [s \in DOMAIN slip' |-> slip'[s]]
    BY <1>6 DEF Workflow!SetStatus
  <2>3. \A s \in Slips : slip'[s] \in Workflow!Payslip \cup {NoSlip}
    BY <1>6, <1>0, StatusSet DEF Workflow!TypeOK
  <2>4. \A s \in Slips : SlipKept(s)
    BY <1>6, <1>0, <2>1, StatusSet DEF Workflow!TypeOK, SlipKept
  <2> QED BY <1>0, <1>t, <2>1, <2>2, <2>3, <2>4 DEF Workflow!TypeOK
<1>7. ASSUME NEW p \in Periods, Workflow!PublishAll(p)
      PROVE  Workflow!TypeOK' /\ \A s \in Slips : SlipKept(s)
  BY <1>6, <1>7
     DEF Workflow!PublishAll, Workflow!PendingSlips, Workflow!CalculatedSlips, Workflow!SlipsOf,
         Workflow!CanPublishAll
<1>8. ASSUME NEW s \in Slips, Workflow!PublishOne(s) \/ Workflow!Revoke(s)
      PROVE  Workflow!TypeOK' /\ \A t \in Slips : SlipKept(t)
  BY <1>6, <1>8 DEF Workflow!PublishOne, Workflow!Revoke, Workflow!CanPublishOne,
                    Workflow!CanRevoke
<1> QED
  BY <1>1, <1>2, <1>3, <1>4, <1>5, <1>7, <1>8 DEF WorkflowStep, Workflow!RunSlipStep

-----------------------------------------------------------------------------
(* Jobs                                                                    *)

(* What a job that is storing has so far: for each of its targets at most  *)
(* one file, each under a key of its own, and all of them in storage.      *)
Orderly(j) ==
    /\ job[j].stage = "idle" => job[j].stored = {}
    /\ job[j].stage = "storing" =>
          /\ \/ job[j].kind # "distribute" /\ job[j].targets \subseteq Slips
             \/ job[j].kind = "distribute" /\ \E e \in Employees : job[j].targets = {e}
          /\ job[j].kind # "generate" => job[j].shows = AnyUpload
          /\ \A f \in job[j].stored : f.of \in job[j].targets
          /\ \A f, g \in job[j].stored : f.of = g.of \/ f.key = g.key => f = g

LEMMA JobTyped ==
    ASSUME TypeOK, NEW j \in Jobs
    PROVE  /\ job[j] \in Job /\ DOMAIN job = Jobs
           /\ job[j].targets \subseteq Slips \cup Employees
           /\ job[j].stored \subseteq StoredFile
           /\ job[j].period \in Periods
           /\ job[j].shows \in [Slips -> Shown]
           /\ job[j].kind \in Kinds
BY DEF TypeOK, Job

LEMMA IdleTyped ==
    Idle \in Job /\ \A stored \in SUBSET StoredFile : Cleanup(stored) \in Job
<1>1. (CHOOSE p \in Periods : TRUE) \in Periods
  BY DocumentConstants
<1>2. AnyUpload \in [Slips -> Shown]
  BY DEF AnyUpload, Shown
<1> QED BY <1>1, <1>2 DEF Idle, Cleanup, Job, Kinds

(* When every target has its file, KeyFor is the key of that file.         *)
LEMMA KeyForTarget ==
    ASSUME TypeOK, NEW j \in Jobs, ReadyToCommit(j), NEW x \in job[j].targets
    PROVE  /\ \E f \in job[j].stored : f.of = x /\ f.key = KeyFor(j, x)
           /\ KeyFor(j, x) \in Held(j)
           /\ KeyFor(j, x) \in Keys
<1>1. \E f \in job[j].stored : f.of = x
  BY DEF ReadyToCommit, Missing
<1>2. /\ (CHOOSE f \in job[j].stored : f.of = x) \in job[j].stored
      /\ (CHOOSE f \in job[j].stored : f.of = x).of = x
  BY <1>1
<1>3. (CHOOSE f \in job[j].stored : f.of = x).key \in Keys
  BY <1>2, JobTyped DEF StoredFile
<1> QED BY <1>2, <1>3 DEF KeyFor, Held

(* A job that begins remembers targets of the right kind.                  *)
Begun(r) ==
    /\ r \in Job /\ r.stage = "storing" /\ r.stored = {}
    /\ \/ r.kind # "distribute" /\ r.targets \subseteq Slips
       \/ r.kind = "distribute" /\ \E e \in Employees : r.targets = {e}
    /\ r.kind # "generate" => r.shows = AnyUpload
    /\ r.kind = "generate" => \A s \in r.targets :
          /\ slip[s] # NoSlip /\ slip[s].kind = "calculated"
          /\ r.shows[s] = ItemOf(s)

LEMMA Begins ==
    ASSUME TypeOK, NEW j \in Jobs, StartStep(j)
    PROVE  /\ job[j].stage = "idle"
           /\ UNCHANGED <<workflowVars, document, files, leaked, unheard>>
           /\ \E r : Begun(r) /\ job' = [job EXCEPT ![j] = r]
<1> DEFINE Goal == /\ job[j].stage = "idle"
                   /\ UNCHANGED <<workflowVars, document, files, leaked, unheard>>
                   /\ \E r : Begun(r) /\ job' = [job EXCEPT ![j] = r]
<1>0. AnyUpload \in [Slips -> Shown]
  BY DEF AnyUpload, Shown
<1>s. ASSUME NEW kind \in Kinds, NEW p \in Periods, NEW targets \in SUBSET (Slips \cup Employees),
             NEW shows \in [Slips -> Shown], Start(j, kind, p, targets, shows),
             \/ kind # "distribute" /\ targets \subseteq Slips
             \/ kind = "distribute" /\ \E e \in Employees : targets = {e},
             kind # "generate" => shows = AnyUpload,
             kind = "generate" => \A s \in targets :
                slip[s] # NoSlip /\ slip[s].kind = "calculated" /\ shows[s] = ItemOf(s)
      PROVE  Goal
  <2> DEFINE r == [stage |-> "storing", kind |-> kind, period |-> p,
                   targets |-> targets, shows |-> shows, stored |-> {}]
  <2>1. r \in Job
    BY DEF Job
  <2>2. Begun(r)
    BY <2>1, <1>s DEF Begun
  <2> QED BY <2>2, <1>s DEF Start
<1>1. ASSUME NEW s \in Slips, slip[s] # NoSlip PROVE slip[s].period \in Periods
  BY <1>1 DEF TypeOK, Workflow!TypeOK, Workflow!Payslip
<1>2. ASSUME NEW s \in Slips, StartUpload(j, s) PROVE Goal
  BY <1>0, <1>1, <1>2, <1>s DEF StartUpload, IsGenerated, Kinds
<1>3. ASSUME NEW s \in Slips, StartReplace(j, s) PROVE Goal
  BY <1>0, <1>1, <1>3, <1>s DEF StartReplace, IsGenerated, Kinds
<1>4. ASSUME NEW p \in Periods, NEW e \in Employees, StartDistribution(j, p, e) PROVE Goal
  BY <1>0, <1>4, <1>s DEF StartDistribution, Kinds
<1>5. ASSUME NEW p \in Periods, StartGeneration(j, p) PROVE Goal
  <2>1. PICK candidates \in SUBSET (Workflow!PendingSlips(p) \ Documented) :
           Start(j, "generate", p, candidates,
                 [s \in Slips |-> IF s \in candidates THEN AmountToPrint(s) ELSE Uploaded])
    BY <1>5 DEF StartGeneration
  <2>2. \A s \in candidates : s \in Slips /\ slip[s] # NoSlip /\ slip[s].kind = "calculated"
    BY <2>1 DEF Workflow!PendingSlips, Workflow!CalculatedSlips, Workflow!SlipsOf
  <2>3. \A s \in candidates : AmountToPrint(s) \in Shown
    BY <2>2 DEF AmountToPrint, ItemOf, Shown, TypeOK, Workflow!TypeOK, Workflow!Payslip,
         Workflow!Items
  <2>4. [s \in Slips |-> IF s \in candidates THEN AmountToPrint(s) ELSE Uploaded]
           \in [Slips -> Shown]
    BY <2>3 DEF Shown
  <2>5. candidates \in SUBSET (Slips \cup Employees) /\ candidates \subseteq Slips
    BY <2>2
  <2>6. "generate" \in Kinds
    BY DEF Kinds
  <2> HIDE DEF Goal
  <2> QED BY <2>1, <2>2, <2>4, <2>5, <2>6, <1>s DEF AmountToPrint
<1> QED BY <1>2, <1>3, <1>4, <1>5 DEF StartStep

-----------------------------------------------------------------------------
(* What a commit writes                                                    *)

(* The payslips of W gain a version each: their first, or one after those  *)
(* they have.  Every file of the job becomes the version of one of them.   *)
Gains(s, k, shows) ==
    \/ document[s] = NoDocument /\ document'[s] = FirstVersion(k, shows)
    \/ /\ document[s] # NoDocument /\ shows = Uploaded
       /\ document'[s] = Rotated(document[s], k)

Wrote(j, W, key, shows) ==
    /\ document' \in [Slips -> Document \cup {NoDocument}]
    /\ slip' \in [Slips -> Workflow!Payslip \cup {NoSlip}]
    /\ UNCHANGED <<period, endDate, run, items, calculatedFor>>
    /\ \A s \in Slips \ W : document'[s] = document[s] /\ slip'[s] = slip[s]
    /\ \A s \in W : shows[s] \in Shown /\ Gains(s, key[s], shows[s])
    /\ \A s \in W : \/ slip'[s] = slip[s] /\ IsGenerated(s)
                    \/ slip[s] = NoSlip /\ slip'[s] \in Workflow!Payslip
    /\ \A s, t \in W : key[s] = key[t] => s = t
    /\ Held(j) = {key[s] : s \in W}
    /\ \A s \in W : \/ shows[s] = Uploaded
                    \/ /\ job[j].kind = "generate" /\ s \in job[j].targets
                       /\ slip'[s] = slip[s] /\ shows[s] = job[j].shows[s]

LEMMA FirstVersionTyped ==
    ASSUME NEW k \in Keys, NEW a \in Shown
    PROVE  FirstVersion(k, a) \in Document /\ FirstVersion(k, a) # NoDocument
<1>1. [key |-> k, shows |-> a] \in Version
  BY DEF Version
<1> DEFINE h == <<[key |-> k, shows |-> a]>>
<1>2. h \in Seq(Version)
  BY <1>1
<1>3. FirstVersion(k, a) = [current |-> k, versions |-> h]
  BY DEF FirstVersion
<1> HIDE DEF h
<1>4. FirstVersion(k, a) \in Document
  BY <1>2, <1>3 DEF Document
<1> QED BY <1>4, NullsAreNoRows

LEMMA VersionsTyped ==
    ASSUME NEW d \in Document, NEW i \in DOMAIN d.versions
    PROVE  d.versions[i].key \in Keys /\ d.versions[i].shows \in Shown
<1>1. d.versions \in Seq(Version)
  BY DEF Document
<1>2. d.versions[i] \in Version
  BY <1>1
<1> QED BY <1>2 DEF Version

LEMMA RotatedTyped ==
    ASSUME NEW d \in Document, NEW k \in Keys
    PROVE  /\ Rotated(d, k) \in Document /\ Rotated(d, k) # NoDocument
           /\ Len(Rotated(d, k).versions) = Len(d.versions) + 1
           /\ Rotated(d, k).current = k
           /\ Rotated(d, k).versions[Len(d.versions) + 1] = [key |-> k, shows |-> Uploaded]
           /\ \A i \in DOMAIN d.versions : Rotated(d, k).versions[i] = d.versions[i]
           /\ DOMAIN Rotated(d, k).versions = DOMAIN d.versions \cup {Len(d.versions) + 1}
<1> DEFINE v == [key |-> k, shows |-> Uploaded]
<1>1. v \in Version /\ d.versions \in Seq(Version)
  BY DEF Version, Shown, Document
<1> HIDE DEF v
<1>2. Append(d.versions, v) \in Seq(Version)
  BY <1>1
<1>3. Rotated(d, k) = [current |-> k, versions |-> Append(d.versions, v)]
  BY DEF Rotated, v
<1>4. Rotated(d, k) \in Document
  BY <1>2, <1>3 DEF Document
<1>5. /\ Len(Append(d.versions, v)) = Len(d.versions) + 1
      /\ Append(d.versions, v)[Len(d.versions) + 1] = v
      /\ \A i \in 1..Len(d.versions) : Append(d.versions, v)[i] = d.versions[i]
      /\ DOMAIN Append(d.versions, v) = 1..(Len(d.versions) + 1)
      /\ DOMAIN d.versions = 1..Len(d.versions) /\ Len(d.versions) \in Nat
  BY <1>1
<1>6. 1..(Len(d.versions) + 1) = 1..Len(d.versions) \cup {Len(d.versions) + 1}
  BY <1>5
<1>7. Rotated(d, k).versions = Append(d.versions, v) /\ Rotated(d, k).current = k
  BY <1>3
<1>8. Rotated(d, k) # NoDocument
  BY <1>4, NullsAreNoRows
<1> QED BY <1>4, <1>5, <1>6, <1>7, <1>8 DEF v

LEMMA DifferentKeys ==
    ASSUME TypeOK, NEW j \in Jobs, ReadyToCommit(j), Orderly(j),
           NEW x \in job[j].targets, NEW y \in job[j].targets, KeyFor(j, x) = KeyFor(j, y)
    PROVE  x = y
<1>1. PICK f \in job[j].stored : f.of = x /\ f.key = KeyFor(j, x)
  BY KeyForTarget
<1>2. PICK g \in job[j].stored : g.of = y /\ g.key = KeyFor(j, y)
  BY KeyForTarget
<1> QED BY <1>1, <1>2 DEF Orderly, ReadyToCommit

(* Every file of a job that is ready is the file of one of its targets.    *)
LEMMA AllFilesUsed ==
    ASSUME TypeOK, NEW j \in Jobs, ReadyToCommit(j), Orderly(j)
    PROVE  Held(j) = {KeyFor(j, x) : x \in job[j].targets}
<1>1. ASSUME NEW f \in job[j].stored PROVE f.of \in job[j].targets /\ f.key = KeyFor(j, f.of)
  <2>1. f.of \in job[j].targets
    BY DEF Orderly, ReadyToCommit
  <2>2. PICK g \in job[j].stored : g.of = f.of /\ g.key = KeyFor(j, f.of)
    BY <2>1, KeyForTarget
  <2> QED BY <2>1, <2>2 DEF Orderly, ReadyToCommit
<1>2. \A x \in job[j].targets : KeyFor(j, x) \in Held(j)
  BY KeyForTarget
<1> QED BY <1>1, <1>2 DEF Held

LEMMA Writes ==
    ASSUME TypeOK, NEW j \in Jobs, ReadyToCommit(j), Orderly(j), Write(j)
    PROVE  \E W \in SUBSET Slips : \E key, shows : Wrote(j, W, key, shows)
<1>1. /\ document \in [Slips -> Document \cup {NoDocument}]
      /\ slip \in [Slips -> Workflow!Payslip \cup {NoSlip}]
      /\ \A s \in Slips : slip[s] = NoSlip => document[s] = NoDocument
  BY DEF TypeOK, Workflow!TypeOK
<1>2. CASE job[j].targets \subseteq Slips /\ (AttachDocuments(j) \/ ReplaceDocument(j))
  <2> DEFINE W == job[j].targets
             key == [s \in W |-> KeyFor(j, s)]
             shows == [s \in W |-> IF document[s] = NoDocument THEN job[j].shows[s] ELSE Uploaded]
  <2>1. UNCHANGED workflowVars
    BY <1>2 DEF AttachDocuments, ReplaceDocument
  <2>2. \A s \in W : IsGenerated(s) /\ key[s] \in Keys
    BY <1>2, KeyForTarget DEF AttachDocuments, ReplaceDocument, CanAttach, CanReplace
  <2>3. ASSUME NEW s \in W PROVE job[j].shows[s] \in Shown
    BY <1>2, JobTyped
  <2>4. /\ \A s \in Slips \ W : document'[s] = document[s]
        /\ \A s \in W : Gains(s, key[s], shows[s])
    BY <1>2 DEF AttachDocuments, ReplaceDocument, CanAttach, CanReplace, Gains
  <2>5. document' \in [Slips -> Document \cup {NoDocument}]
    <3>1. DOMAIN document' = Slips /\ document' = [s \in DOMAIN document' |-> document'[s]]
      BY <1>2 DEF AttachDocuments, ReplaceDocument
    <3>2. ASSUME NEW s \in Slips PROVE document'[s] \in Document \cup {NoDocument}
      <4>1. CASE s \in W
        <5>1. shows[s] \in Shown
          BY <2>3, <4>1 DEF Shown
        <5>2. document[s] # NoDocument => Rotated(document[s], key[s]) \in Document
          BY <1>1, <2>2, <4>1, RotatedTyped, ZenonT(60)
        <5>3. FirstVersion(key[s], shows[s]) \in Document
          BY <2>2, <4>1, <5>1, FirstVersionTyped
        <5> QED BY <2>4, <4>1, <5>2, <5>3 DEF Gains
      <4>2. CASE s \notin W
        BY <4>2, <2>4, <1>1
      <4> QED BY <4>1, <4>2
    <3> QED BY <3>1, <3>2
  <2>6. \A s, t \in W : key[s] = key[t] => s = t
    BY DifferentKeys
  <2>7. Held(j) = {key[s] : s \in W}
    BY AllFilesUsed
  <2>8. ASSUME NEW s \in W, shows[s] # Uploaded
        PROVE  /\ job[j].kind = "generate" /\ shows[s] = job[j].shows[s]
    <3>1. document[s] = NoDocument /\ shows[s] = job[j].shows[s]
      BY <2>8
    <3>2. job[j].kind # "generate" => job[j].shows[s] = Uploaded
      BY <1>2 DEF Orderly, ReadyToCommit, AnyUpload
    <3> QED BY <3>1, <3>2, <2>8
  <2>9. Wrote(j, W, key, shows)
    <3>1. \A s \in W : shows[s] \in Shown
      BY <2>3 DEF Shown
    <3> HIDE DEF key, shows
    <3> QED BY <1>1, <2>1, <2>2, <2>4, <2>5, <2>6, <2>7, <2>8, <3>1 DEF Wrote, workflowVars
  <2> HIDE DEF key, shows, W
  <2>10. W \in SUBSET Slips
    BY <1>2 DEF W
  <2> QED BY <2>9, <2>10
<1>3. CASE DistributePayslip(j)
  <2>1. PICK e \in Employees : job[j].targets = {e}
    BY <1>3 DEF DistributePayslip, Orderly, ReadyToCommit
  <2>2. PICK s \in Slips :
          /\ slip[s] = NoSlip
          /\ slip' = [slip EXCEPT ![s] = Workflow!NewSlip(job[j].period, e, "distribution")]
          /\ document' = [document EXCEPT ![s] = FirstVersion(KeyFor(j, e), Uploaded)]
    BY <1>3, <2>1 DEF DistributePayslip
  <2> DEFINE key == [t \in {s} |-> KeyFor(j, e)]
             shows == [t \in {s} |-> Uploaded]
  <2>3. Workflow!NewSlip(job[j].period, e, "distribution") \in Workflow!Payslip
    BY JobTyped DEF Workflow!NewSlip, Workflow!Payslip
  <2>4. FirstVersion(KeyFor(j, e), Uploaded) \in Document
    BY <2>1, KeyForTarget, FirstVersionTyped DEF Shown
  <2>5. Held(j) = {KeyFor(j, e)}
    BY <2>1, AllFilesUsed
  <2>6. UNCHANGED <<period, endDate, run, items, calculatedFor>>
    BY <1>3 DEF DistributePayslip
  <2>7. document[s] = NoDocument
    BY <1>1, <2>2
  <2>8. /\ document' \in [Slips -> Document \cup {NoDocument}]
        /\ slip' \in [Slips -> Workflow!Payslip \cup {NoSlip}]
        /\ \A t \in Slips \ {s} : document'[t] = document[t] /\ slip'[t] = slip[t]
        /\ document'[s] = FirstVersion(KeyFor(j, e), Uploaded)
        /\ slip'[s] \in Workflow!Payslip
    BY <1>1, <2>2, <2>3, <2>4
  <2>9. Wrote(j, {s}, key, shows)
    BY <2>2, <2>5, <2>6, <2>7, <2>8 DEF Wrote, Gains, Shown
  <2> QED BY <2>9
<1>4. AttachDocuments(j) \/ ReplaceDocument(j) => job[j].targets \subseteq Slips
  BY DEF AttachDocuments, ReplaceDocument, Orderly, ReadyToCommit
<1> QED BY <1>2, <1>3, <1>4 DEF Write

-----------------------------------------------------------------------------
(* Types                                                                   *)

\* A version of the document of s has its file under the key k.
Owns(s, k) ==
    /\ document[s] # NoDocument
    /\ \/ k = document[s].current
       \/ \E i \in DOMAIN document[s].versions : k = document[s].versions[i].key

LEMMA ReferencedKeys ==
    /\ \A s \in Slips : KeysOf(document[s]) = {k \in KeysOf(document[s]) : Owns(s, k)}
    /\ \A s \in Slips : \A k : k \in KeysOf(document[s]) <=> Owns(s, k)
    /\ \A k : k \in Referenced <=> \E s \in Slips : Owns(s, k)
BY DEF KeysOf, Owns, Referenced

(* What a job has stored is stored under keys.                             *)
LEMMA HeldAreKeys == TypeOK => \A j \in Jobs : Held(j) \subseteq Keys
<1> SUFFICES ASSUME TypeOK, NEW j \in Jobs, NEW f \in job[j].stored PROVE f.key \in Keys
  BY DEF Held
<1> QED BY JobTyped DEF StoredFile

(* A step that writes no row keeps the types.                              *)
LEMMA QuietStepKeepsTypes ==
    ASSUME TypeOK, UNCHANGED <<workflowVars, document>>,
           files' \subseteq Keys, leaked' \subseteq Keys, unheard' \subseteq Keys, job' \in [Jobs -> Job]
    PROVE  TypeOK'
<1>1. Workflow!TypeOK'
  BY DEF TypeOK, Workflow!TypeOK, workflowVars, Documented
<1> QED BY <1>1 DEF TypeOK, workflowVars

\* The files of the payslips that a deletion takes.
FilesOf(p) == {f \in StoredFile : f.of \in Workflow!SlipsOf(p) /\ f.key \in KeysOf(document[f.of])}

LEMMA Deletes ==
    ASSUME TypeOK, NEW j \in Jobs, NEW p \in Periods, DeleteLocked(j, p)
    PROVE  /\ Workflow!TypeOK' /\ UNCHANGED <<files, leaked>> /\ unheard' \subseteq unheard
           /\ \A k \in unheard : k \in unheard' \/ \E s \in Workflow!SlipsOf(p) : Owns(s, k)
           /\ job[j].stage = "idle" /\ job' = [job EXCEPT ![j] = Cleanup(FilesOf(p))]
           /\ document' \in [Slips -> Document \cup {NoDocument}]
           /\ \A s \in Slips :
                 \/ /\ s \in Workflow!SlipsOf(p) /\ slip[s].period = p
                    /\ document'[s] = NoDocument /\ slip'[s] = NoSlip
                 \/ /\ s \notin Workflow!SlipsOf(p) /\ document'[s] = document[s]
                    /\ slip'[s] = slip[s] /\ SlipKept(s)
<1>0. /\ document \in [Slips -> Document \cup {NoDocument}] /\ Workflow!TypeOK
  BY DEF TypeOK
<1>1. Workflow!ErasePeriod(p)
  BY DEF DeleteLocked, Workflow!DeleteLocked, Workflow!CanDeleteLocked
<1>2. Workflow!NoItems \in Workflow!Items
  BY DEF Workflow!NoItems, Workflow!Items
<1>3. /\ document' = [s \in Slips |-> IF s \in Workflow!SlipsOf(p) THEN NoDocument ELSE document[s]]
      /\ slip' = [s \in Slips |-> IF s \in Workflow!SlipsOf(p) THEN NoSlip ELSE slip[s]]
      /\ items' = [items EXCEPT ![p] = Workflow!NoItems]
  BY <1>1 DEF DeleteLocked, Workflow!ErasePeriod
<1>4. /\ document' \in [Slips -> Document \cup {NoDocument}]
      /\ slip' \in [Slips -> Workflow!Payslip \cup {NoSlip}]
  BY <1>0, <1>3 DEF Workflow!TypeOK
<1>5. Documented' \subseteq Slips
  BY DEF Documented
<1>6. /\ period' \in [Periods -> Workflow!PeriodStatus \cup {"absent"}]
      /\ endDate' \in [Periods -> Dates \cup {NoDate}]
      /\ run' \in [Periods -> Workflow!RunStatus \cup {"none"}]
      /\ items' \in [Periods -> Workflow!Items]
      /\ calculatedFor' \in [Periods -> Dates \cup {NoDate}]
  BY <1>0, <1>1, <1>2 DEF Workflow!ErasePeriod, Workflow!TypeOK
<1>7. Workflow!TypeOK'
  BY <1>4, <1>5, <1>6 DEF Workflow!TypeOK
<1>8. ASSUME NEW s \in Slips, s \notin Workflow!SlipsOf(p) PROVE SlipKept(s)
  <2>1. slip'[s] = slip[s] /\ slip[s] \in Workflow!Payslip \cup {NoSlip}
    BY <1>0, <1>3, <1>8 DEF Workflow!TypeOK
  <2>2. slip[s] # NoSlip => slip[s].period # p /\ slip[s].period \in Periods
    BY <1>8, <2>1 DEF Workflow!SlipsOf, Workflow!Payslip
  <2>3. slip[s] # NoSlip => items'[slip[s].period] = items[slip[s].period]
    BY <1>0, <1>3, <2>2 DEF Workflow!TypeOK
  <2> QED BY <2>1, <2>3 DEF SlipKept
<1>9. \A s \in Workflow!SlipsOf(p) : slip[s].period = p
  BY DEF Workflow!SlipsOf
<1>10. /\ UNCHANGED <<files, leaked>>
       /\ job[j].stage = "idle" /\ job' = [job EXCEPT ![j] = Cleanup(FilesOf(p))]
  BY DEF DeleteLocked, FilesOf
<1>11. unheard' = unheard \ UNION {KeysOf(document[s]) : s \in Workflow!SlipsOf(p)}
  BY DEF DeleteLocked
<1>12. \A s \in Workflow!SlipsOf(p) : s \in Slips
  BY DEF Workflow!SlipsOf
<1>13. /\ unheard' \subseteq unheard
       /\ \A k \in unheard : k \in unheard' \/ \E s \in Workflow!SlipsOf(p) : Owns(s, k)
  BY <1>11, <1>12, ReferencedKeys
<1> QED BY <1>3, <1>4, <1>7, <1>8, <1>9, <1>10, <1>13

LEMMA TypeStep ==
    ASSUME TypeOK, \A j \in Jobs : Orderly(j), [Next]_vars
    PROVE  TypeOK'
<1>0. /\ files \subseteq Keys /\ leaked \subseteq Keys /\ unheard \subseteq Keys /\ job \in [Jobs -> Job]
      /\ document \in [Slips -> Document \cup {NoDocument}]
      /\ \A s \in Slips : slip[s] = NoSlip => document[s] = NoDocument
  BY DEF TypeOK
<1>1. CASE WorkflowStep
  <2>1. Workflow!TypeOK' /\ \A s \in Slips : SlipKept(s)
    BY <1>1, WorkflowKeepsSlips
  <2>2. \A s \in Slips : slip'[s] = NoSlip => slip[s] = NoSlip
    BY <2>1, NullsAreNoRows DEF SlipKept
  <2> QED BY <1>0, <1>1, <2>1, <2>2 DEF WorkflowStep, TypeOK
<1>2. ASSUME NEW j \in Jobs, StartStep(j) PROVE TypeOK'
  <2>1. PICK r : Begun(r) /\ job' = [job EXCEPT ![j] = r]
    BY <1>2, Begins
  <2>2. r \in Job
    BY <2>1 DEF Begun
  <2>3. UNCHANGED <<workflowVars, document, files, leaked, unheard>>
    BY <1>2, Begins
  <2> QED BY <1>0, <2>1, <2>2, <2>3, QuietStepKeepsTypes
<1>3. ASSUME NEW j \in Jobs, NEW x \in Missing(j), NEW k \in Fresh, StoreFile(j, x, k)
      PROVE  TypeOK'
  <2>1. job[j] \in Job /\ k \in Keys /\ x \in Slips \cup Employees
    BY JobTyped DEF Fresh, Missing
  <2>2. [of |-> x, key |-> k] \in StoredFile
    BY <2>1 DEF StoredFile
  <2>3. job' \in [Jobs -> Job]
    BY <1>0, <1>3, <2>1, <2>2 DEF StoreFile, Job
  <2> QED BY <1>0, <1>3, <2>1, <2>3, QuietStepKeepsTypes DEF StoreFile
<1>4. ASSUME NEW j \in Jobs, StoreFails(j) \/ RollBack(j) PROVE TypeOK'
  <2>1. Cleanup(job[j].stored) \in Job
    BY JobTyped, IdleTyped
  <2>2. /\ UNCHANGED <<workflowVars, document, files, leaked, unheard>>
        /\ job' = [job EXCEPT ![j] = Cleanup(job[j].stored)]
    BY <1>4 DEF StoreFails, RollBack, ToCleanup
  <2> QED BY <1>0, <2>1, <2>2, QuietStepKeepsTypes
<1>5. ASSUME NEW j \in Jobs, NEW heard \in Answers, Commit(j, heard) PROVE TypeOK'
  <2>1. PICK W \in SUBSET Slips : \E key, shows : Wrote(j, W, key, shows)
    BY <1>5, Writes DEF Commit
  <2>2. PICK key, shows : Wrote(j, W, key, shows)
    BY <2>1
  <2>3. job' = [job EXCEPT ![j] = Idle] \/ job' = [job EXCEPT ![j] = Cleanup(job[j].stored)]
    BY <1>5 DEF Commit, ToCleanup
  <2>4. job' \in [Jobs -> Job]
    BY <1>0, <2>3, JobTyped, IdleTyped
  <2>5. Workflow!TypeOK'
    <3>1. Documented' \subseteq Slips
      BY DEF Documented
    <3> QED BY <2>2, <3>1 DEF Wrote, TypeOK, Workflow!TypeOK
  <2>6. ASSUME NEW s \in Slips, slip'[s] = NoSlip PROVE document'[s] = NoDocument
    BY <1>0, <2>2, <2>6, NullsAreNoRows DEF Wrote, IsGenerated
  <2>7. files' = files /\ leaked' = leaked /\ unheard' \subseteq Keys
    BY <1>0, <1>5, HeldAreKeys DEF Commit
  <2> QED BY <1>0, <2>2, <2>4, <2>5, <2>6, <2>7 DEF TypeOK, Wrote
<1>6. ASSUME NEW j \in Jobs, NEW f \in job[j].stored, NEW ok \in BOOLEAN, RemoveFile(j, f, ok)
      PROVE  TypeOK'
  <2>1. job[j] \in Job /\ f.key \in Keys
    BY JobTyped DEF StoredFile
  <2>2. job' \in [Jobs -> Job]
    BY <1>0, <1>6, <2>1 DEF RemoveFile, Job
  <2> QED BY <1>0, <1>6, <2>1, <2>2, QuietStepKeepsTypes DEF RemoveFile
<1>7. ASSUME NEW j \in Jobs, EndCleanup(j) \/ Crash(j) PROVE TypeOK'
  <2>1. job' = [job EXCEPT ![j] = Idle] /\ UNCHANGED <<workflowVars, document, files, unheard>>
    BY <1>7 DEF EndCleanup, Crash
  <2>2. leaked' \subseteq Keys
    BY <1>0, <1>7 DEF EndCleanup, Crash
  <2> QED BY <1>0, <2>1, <2>2, IdleTyped, QuietStepKeepsTypes
<1>8. ASSUME NEW j \in Jobs, NEW p \in Periods, DeleteLocked(j, p) PROVE TypeOK'
  <2>1. FilesOf(p) \in SUBSET StoredFile
    BY DEF FilesOf
  <2>2. /\ Workflow!TypeOK' /\ UNCHANGED <<files, leaked>> /\ unheard' \subseteq unheard
        /\ job' = [job EXCEPT ![j] = Cleanup(FilesOf(p))]
        /\ document' \in [Slips -> Document \cup {NoDocument}]
    BY <1>8, Deletes
  <2>3. ASSUME NEW s \in Slips, slip'[s] = NoSlip PROVE document'[s] = NoDocument
    BY <1>0, <1>8, <2>3, Deletes
  <2>4. job' \in [Jobs -> Job]
    BY <1>0, <2>1, <2>2, IdleTyped
  <2> QED BY <1>0, <2>2, <2>3, <2>4 DEF TypeOK
<1>9. CASE UNCHANGED vars
  BY <1>0, <1>9, QuietStepKeepsTypes DEF vars
<1> QED
  BY <1>1, <1>2, <1>3, <1>4, <1>5, <1>6, <1>7, <1>8, <1>9 DEF Next, JobStep

-----------------------------------------------------------------------------
(* Who holds which file                                                    *)

OthersStand(j) == \A i \in Jobs \ {j} : job'[i] = job[i]

(* Every step, as far as files and documents are concerned: nothing, or    *)
(* one job begins, stores a file, gives up, commits, removes a file, ends  *)
(* or dies, or takes over the files of deleted payslips.                   *)
Nothing == UNCHANGED <<document, files, leaked, unheard, job>>
Begin(j) ==
    /\ job[j].stage = "idle" /\ Begun(job'[j]) /\ Held(j)' = {}
    /\ UNCHANGED <<workflowVars, document, files, leaked, unheard>>
Store(j, x, k) ==
    /\ job[j].stage = "storing" /\ x \in Missing(j) /\ k \in Fresh
    /\ job'[j] = [job[j] EXCEPT !.stored = @ \cup {[of |-> x, key |-> k]}]
    /\ Held(j)' = Held(j) \cup {k}
    /\ files' = files \cup {k} /\ unheard' = unheard \ {k}
    /\ UNCHANGED <<workflowVars, document, leaked>>
GiveUp(j) ==
    /\ job[j].stage = "storing"
    /\ job'[j] = Cleanup(job[j].stored) /\ Held(j)' = Held(j)
    /\ UNCHANGED <<workflowVars, document, files, leaked, unheard>>
Committed(j) ==
    /\ ReadyToCommit(j) /\ UNCHANGED <<files, leaked>>
    /\ \E W \in SUBSET Slips : \E key, shows : Wrote(j, W, key, shows)
    /\ \/ job'[j] = Idle /\ Held(j)' = {} /\ unheard' = unheard
       \/ /\ job'[j] = Cleanup(job[j].stored) /\ Held(j)' = Held(j)
          /\ unheard' = unheard \cup Held(j)
Remove(j, k) ==
    /\ job[j].stage = "cleanup" /\ job'[j].stage = "cleanup"
    /\ k \in Held(j) /\ Held(j)' \subseteq Held(j) /\ Held(j) \subseteq Held(j)' \cup {k}
    /\ \/ files' = files \ {k} /\ leaked' = leaked \ {k}
       \/ files' = files /\ leaked' = leaked \cup (({k} \cap files) \ Referenced)
    /\ UNCHANGED <<workflowVars, document, unheard>>
End(j) ==
    /\ job'[j] = Idle /\ Held(j)' = {}
    /\ leaked' = leaked \cup ((Held(j) \cap files) \ Referenced)
    /\ UNCHANGED <<workflowVars, document, files, unheard>>
Delete(j, p) ==
    /\ job[j].stage = "idle" /\ DeleteLocked(j, p)
    /\ job'[j].stage = "cleanup" /\ Held(j)' = {f.key : f \in FilesOf(p)}
    /\ job'[j] = Cleanup(FilesOf(p))
    /\ UNCHANGED <<files, leaked>>
    /\ \A k \in unheard : k \in unheard' \/ \E s \in Workflow!SlipsOf(p) : Owns(s, k)

Moves(j) ==
    \/ Begin(j) \/ GiveUp(j) \/ Committed(j) \/ End(j)
    \/ \E x \in Slips \cup Employees, k \in Keys : Store(j, x, k)
    \/ \E k \in Keys : Remove(j, k)
    \/ \E p \in Periods : Delete(j, p)

LEMMA IdleHolds == \A j \in Jobs : job'[j] = Idle => Held(j)' = {}
<1> TAKE j \in Jobs
<1> HAVE job'[j] = Idle
<1>1. job'[j].stored = {}
  BY DEF Idle
<1> QED BY <1>1 DEF Held

LEMMA JobChanges ==
    ASSUME TypeOK, NEW j \in Jobs, NEW r, job' = [job EXCEPT ![j] = r]
    PROVE  job'[j] = r /\ OthersStand(j) /\ Held(j)' = {f.key : f \in r.stored}
BY JobTyped DEF OthersStand, Held

LEMMA CleanupHas == ASSUME NEW stored PROVE Cleanup(stored).stored = stored /\ Cleanup(stored).stage = "cleanup"
BY DEF Cleanup, Idle

LEMMA Steps ==
    ASSUME TypeOK, \A j \in Jobs : Orderly(j), [Next]_vars
    PROVE  Nothing \/ \E j \in Jobs : OthersStand(j) /\ Moves(j)
<1>1. CASE WorkflowStep
  BY <1>1 DEF WorkflowStep, Nothing
<1>2. ASSUME NEW j \in Jobs, StartStep(j) PROVE OthersStand(j) /\ Begin(j)
  <2>1. PICK r : Begun(r) /\ job' = [job EXCEPT ![j] = r]
    BY <1>2, Begins
  <2>2. r.stored = {}
    BY <2>1 DEF Begun
  <2>3. /\ job[j].stage = "idle" /\ job'[j] = r /\ OthersStand(j)
        /\ UNCHANGED <<workflowVars, document, files, leaked, unheard>>
    BY <1>2, <2>1, Begins, JobChanges
  <2>4. Held(j)' = {}
    BY <2>2, <2>3 DEF Held
  <2> QED BY <2>1, <2>3, <2>4 DEF Begin
<1>3. ASSUME NEW j \in Jobs, NEW x \in Missing(j), NEW k \in Fresh, StoreFile(j, x, k)
      PROVE  OthersStand(j) /\ Store(j, x, k)
  <2> DEFINE r == [job[j] EXCEPT !.stored = @ \cup {[of |-> x, key |-> k]}]
  <2>1. job' = [job EXCEPT ![j] = r]
    BY <1>3 DEF StoreFile
  <2>2. r.stored = job[j].stored \cup {[of |-> x, key |-> k]}
    BY JobTyped DEF Job
  <2>3. job'[j] = r /\ OthersStand(j)
    BY <2>1, JobTyped DEF OthersStand
  <2>4. Held(j)' = Held(j) \cup {k}
    <3>1. job'[j].stored = job[j].stored \cup {[of |-> x, key |-> k]}
      BY <2>2, <2>3
    <3>2. ASSUME NEW q PROVE q \in Held(j)' <=> q \in Held(j) \/ q = k
      <4> DEFINE new == [of |-> x, key |-> k]
      <4>1. new.key = k /\ job'[j].stored = job[j].stored \cup {new}
        BY <3>1
      <4> HIDE DEF new
      <4> QED BY <4>1 DEF Held
    <3> QED BY <3>2
  <2> QED BY <1>3, <2>3, <2>4 DEF Store, StoreFile
<1>4. ASSUME NEW j \in Jobs, StoreFails(j) \/ RollBack(j) PROVE OthersStand(j) /\ GiveUp(j)
  <2>1. job' = [job EXCEPT ![j] = Cleanup(job[j].stored)]
    BY <1>4 DEF StoreFails, RollBack, ToCleanup
  <2>2. Held(j)' = Held(j)
    BY <2>1, JobChanges, CleanupHas DEF Held
  <2> QED BY <1>4, <2>1, <2>2, JobChanges DEF GiveUp, StoreFails, RollBack, ReadyToCommit
<1>5. ASSUME NEW j \in Jobs, NEW heard \in Answers, Commit(j, heard)
      PROVE  OthersStand(j) /\ Committed(j)
  <2>1. \E W \in SUBSET Slips : \E key, shows : Wrote(j, W, key, shows)
    BY <1>5, Writes DEF Commit
  <2>2. heard \in BOOLEAN
    BY DocumentConstants
  <2>3. CASE heard
    <3>1. job' = [job EXCEPT ![j] = Idle] /\ unheard' = unheard
      BY <1>5, <2>2, <2>3 DEF Commit
    <3>2. job'[j] = Idle
      BY <3>1, JobChanges
    <3>3. Held(j)' = {}
      BY <3>2, IdleHolds
    <3> QED BY <1>5, <2>1, <3>1, <3>2, <3>3, JobChanges DEF Committed, Commit
  <2>4. CASE ~heard
    <3>1. job' = [job EXCEPT ![j] = Cleanup(job[j].stored)] /\ unheard' = unheard \cup Held(j)
      BY <1>5, <2>2, <2>4 DEF Commit, ToCleanup
    <3>2. Held(j)' = Held(j)
      BY <3>1, JobChanges, CleanupHas DEF Held
    <3> QED BY <1>5, <2>1, <3>1, <3>2, JobChanges DEF Committed, Commit
  <2> QED BY <2>3, <2>4
<1>6. ASSUME NEW j \in Jobs, NEW f \in job[j].stored, NEW ok \in BOOLEAN, RemoveFile(j, f, ok)
      PROVE  OthersStand(j) /\ \E k \in Keys : Remove(j, k)
  <2> DEFINE r == [job[j] EXCEPT !.stored = @ \ {f}]
  <2>1. job' = [job EXCEPT ![j] = r]
    BY <1>6 DEF RemoveFile
  <2>2. r.stored = job[j].stored \ {f} /\ r.stage = job[j].stage
    BY JobTyped DEF Job
  <2>3. job'[j] = r /\ OthersStand(j)
    BY <2>1, JobTyped DEF OthersStand
  <2>4. Held(j)' \subseteq Held(j) /\ Held(j) \subseteq Held(j)' \cup {f.key} /\ f.key \in Held(j)
    BY <2>2, <2>3 DEF Held
  <2>5. f.key \in Keys
    BY JobTyped DEF StoredFile
  <2>6. Remove(j, f.key)
    BY <1>6, <2>2, <2>3, <2>4 DEF Remove, RemoveFile
  <2> QED BY <2>3, <2>5, <2>6
<1>7. ASSUME NEW j \in Jobs, EndCleanup(j) \/ Crash(j) PROVE OthersStand(j) /\ End(j)
  <2>1. job' = [job EXCEPT ![j] = Idle]
    BY <1>7 DEF EndCleanup, Crash
  <2>2. EndCleanup(j) => Held(j) = {}
    BY DEF EndCleanup, Held
  <2>3. job'[j] = Idle
    BY <2>1, JobChanges
  <2>4. Held(j)' = {}
    BY <2>3, IdleHolds
  <2> QED BY <1>7, <2>1, <2>2, <2>3, <2>4, JobChanges DEF End, EndCleanup, Crash
<1>8. ASSUME NEW j \in Jobs, NEW p \in Periods, DeleteLocked(j, p)
      PROVE  OthersStand(j) /\ Delete(j, p)
  <2>1. job' = [job EXCEPT ![j] = Cleanup(FilesOf(p))] /\ job[j].stage = "idle"
        /\ UNCHANGED <<files, leaked>>
        /\ \A k \in unheard : k \in unheard' \/ \E s \in Workflow!SlipsOf(p) : Owns(s, k)
    BY <1>8, Deletes
  <2>2. job'[j].stored = FilesOf(p)
    <3>1. job'[j] = Cleanup(FilesOf(p))
      BY <2>1, JobChanges
    <3>2. Cleanup(FilesOf(p)).stored = FilesOf(p)
      BY DEF Cleanup, Idle
    <3> QED BY <3>1, <3>2
  <2>3. Held(j)' = {f.key : f \in FilesOf(p)}
    BY <2>2 DEF Held
  <2> QED BY <1>8, <2>1, <2>3, JobChanges, CleanupHas, ZenonT(60) DEF Delete
<1>9. CASE UNCHANGED vars
  BY <1>9 DEF vars, Nothing
<1>10. ASSUME NEW j \in Jobs, JobStep(j) PROVE OthersStand(j) /\ Moves(j)
  <2>1. CASE \E heard \in Answers : Commit(j, heard)
    BY <2>1, <1>5 DEF Moves
  <2>2. CASE \E x \in Missing(j), k \in Fresh : StoreFile(j, x, k)
    <3>1. Missing(j) \subseteq Slips \cup Employees /\ Fresh \subseteq Keys
      BY JobTyped DEF Missing, Fresh
    <3> QED BY <2>2, <3>1, <1>3 DEF Moves
  <2>3. CASE StoreFails(j) \/ RollBack(j)
    BY <2>3, <1>4 DEF Moves
  <2>4. CASE \E f \in job[j].stored, ok \in BOOLEAN : RemoveFile(j, f, ok)
    BY <2>4, <1>6 DEF Moves
  <2>5. CASE EndCleanup(j)
    BY <2>5, <1>7 DEF Moves
  <2> QED BY <1>10, <2>1, <2>2, <2>3, <2>4, <2>5 DEF JobStep
<1> QED
  BY <1>1, <1>2, <1>7, <1>8, <1>9, <1>10 DEF Next, Moves

LEMMA OrderlyStep ==
    ASSUME TypeOK, \A j \in Jobs : Orderly(j), [Next]_vars, NEW i \in Jobs
    PROVE  Orderly(i)'
<1>1. CASE job'[i] = job[i]
  BY <1>1 DEF Orderly
<1>2. CASE \E j \in Jobs : OthersStand(j) /\ Moves(j)
  <2>1. PICK j \in Jobs : OthersStand(j) /\ Moves(j)
    BY <1>2
  <2>2. CASE i # j
    BY <2>1, <2>2, <1>1 DEF OthersStand
  <2>3. CASE i = j /\ Begin(j)
    BY <2>3 DEF Begin, Begun, Orderly
  <2>4. ASSUME i = j, NEW x \in Slips \cup Employees, NEW k \in Keys, Store(j, x, k)
        PROVE  Orderly(i)'
    <3> DEFINE new == [of |-> x, key |-> k]
    <3>1. /\ job'[j].stored = job[j].stored \cup {new} /\ job'[j].stage = "storing"
          /\ job'[j].targets = job[j].targets /\ job'[j].kind = job[j].kind
          /\ job'[j].shows = job[j].shows
      BY <2>4, JobTyped DEF Store, Job
    <3>2. \A f \in job[j].stored : f.of # x /\ f.key # k
      BY <2>4 DEF Store, Missing, Fresh, Held
    <3>3. new.of = x /\ new.key = k /\ x \in job[j].targets
      BY <2>4 DEF Store, Missing
    <3>4. job[j].stage = "storing" /\ Orderly(j)
      BY <2>4 DEF Store
    <3> HIDE DEF new
    <3> QED BY <2>4, <3>1, <3>2, <3>3, <3>4 DEF Orderly
  <2>5. CASE i = j /\ job'[j] = Idle
    <3>1. job'[j].stored = {} /\ job'[j].stage = "idle"
      BY <2>5 DEF Idle
    <3> QED BY <2>5, <3>1 DEF Orderly
  <2>6. CASE i = j /\ job'[j].stage = "cleanup"
    BY <2>6 DEF Orderly
  <2>7. GiveUp(j) \/ Committed(j) => job'[j] = Idle \/ job'[j].stage = "cleanup"
    BY CleanupHas DEF GiveUp, Committed
  <2> QED BY <2>1, <2>2, <2>3, <2>4, <2>5, <2>6, <2>7 DEF Moves, End, Remove, Delete
<1> QED BY <1>1, <1>2, Steps DEF Nothing

(* Files of jobs that are storing are their own: they are in storage, no   *)
(* document has them and no other job.  Documents share no files.          *)
Apart ==
    /\ \A j \in Jobs : job[j].stage = "storing" =>
          \A k \in Held(j) : k \in files /\ \A s \in Slips : ~Owns(s, k)
    /\ \A i, j \in Jobs : i # j /\ job[i].stage = "storing" => Held(i) \cap Held(j) = {}
    /\ \A s, t \in Slips : \A k \in Keys : Owns(s, k) /\ Owns(t, k) => s = t

\* The last version is the current one, and each version has its own file.
Keyed(s) == {k \in Keys : Owns(s, k)}
Lined(s) ==
    document[s] # NoDocument =>
        /\ document[s].versions # <<>>
        /\ document[s].current = document[s].versions[Len(document[s].versions)].key
        /\ IsFiniteSet(Keyed(s)) /\ Cardinality(Keyed(s)) = Len(document[s].versions)

(* A payslip that gains a version gains its key and loses none.            *)
LEMMA GainsKey ==
    ASSUME TypeOK, NEW s \in Slips, NEW k \in Keys, NEW a \in Shown, Gains(s, k, a), Lined(s)
    PROVE  /\ document'[s] # NoDocument
           /\ \A q : Owns(s, q)' <=> Owns(s, q) \/ q = k
           /\ ~Owns(s, k) => Lined(s)'
<1>1. CASE document[s] = NoDocument /\ document'[s] = FirstVersion(k, a)
  <2>1. document'[s] # NoDocument
    BY <1>1, FirstVersionTyped
  <2>2. /\ document'[s].current = k /\ Len(document'[s].versions) = 1
        /\ DOMAIN document'[s].versions = {1} /\ document'[s].versions[1].key = k
        /\ document'[s].versions # <<>>
    BY <1>1 DEF FirstVersion
  <2>3. \A q : Owns(s, q)' <=> Owns(s, q) \/ q = k
    BY <1>1, <2>1, <2>2 DEF Owns
  <2>4. Keyed(s)' = {k}
    BY <1>1, <2>3 DEF Keyed, Owns
  <2>5. IsFiniteSet({k}) /\ Cardinality({k}) = 1
    BY FS_Singleton
  <2> QED BY <2>1, <2>2, <2>3, <2>4, <2>5 DEF Lined
<1>2. CASE document[s] # NoDocument /\ document'[s] = Rotated(document[s], k)
  <2> DEFINE d == document[s]
  <2>1. d \in Document
    BY <1>2 DEF TypeOK
  <2>2. /\ document'[s] # NoDocument /\ document'[s].current = k
        /\ Len(document'[s].versions) = Len(d.versions) + 1
        /\ document'[s].versions[Len(d.versions) + 1].key = k
        /\ \A i \in DOMAIN d.versions : document'[s].versions[i] = d.versions[i]
        /\ DOMAIN document'[s].versions = DOMAIN d.versions \cup {Len(d.versions) + 1}
    <3> DEFINE R == Rotated(d, k)
    <3>1. /\ R # NoDocument /\ R.current = k /\ Len(R.versions) = Len(d.versions) + 1
          /\ R.versions[Len(d.versions) + 1] = [key |-> k, shows |-> Uploaded]
          /\ \A i \in DOMAIN d.versions : R.versions[i] = d.versions[i]
          /\ DOMAIN R.versions = DOMAIN d.versions \cup {Len(d.versions) + 1}
      BY <2>1, RotatedTyped
    <3>2. document'[s] = R
      BY <1>2
    <3> HIDE DEF R, d
    <3> QED BY <3>1, <3>2
  <2>3. /\ d.versions \in Seq(Version) /\ Len(d.versions) \in Nat
        /\ DOMAIN d.versions = 1..Len(d.versions) /\ d.versions # <<>>
        /\ d.current = d.versions[Len(d.versions)].key
    BY <1>2, <2>1 DEF Document, Lined
  <2>4. Len(d.versions) \in DOMAIN d.versions
    BY <2>3
  <2>5. ASSUME NEW q PROVE Owns(s, q)' <=> Owns(s, q) \/ q = k
    <3>1. Owns(s, q) <=> \E i \in DOMAIN d.versions : q = d.versions[i].key
      BY <1>2, <2>3, <2>4 DEF Owns
    <3>2. Owns(s, q)' <=> q = k \/ \E i \in DOMAIN document'[s].versions :
                                      q = document'[s].versions[i].key
      BY <2>2 DEF Owns
    <3> QED BY <3>1, <3>2, <2>2
  <2>6. ASSUME ~Owns(s, k) PROVE Lined(s)'
    <3>1. Keyed(s)' = Keyed(s) \cup {k} /\ k \notin Keyed(s)
      BY <2>5, <2>6 DEF Keyed
    <3>2. IsFiniteSet(Keyed(s)) /\ Cardinality(Keyed(s)) = Len(d.versions)
      BY <1>2 DEF Lined
    <3>3. IsFiniteSet(Keyed(s) \cup {k}) /\ Cardinality(Keyed(s) \cup {k}) = Len(d.versions) + 1
      BY <3>1, <3>2, FS_AddElement
    <3>4. document'[s].versions # <<>>
      BY <2>2, <2>3
    <3> HIDE DEF d
    <3> QED BY <2>2, <3>1, <3>3, <3>4 DEF Lined
  <2> QED BY <2>2, <2>5, <2>6
<1> QED BY <1>1, <1>2 DEF Gains

LEMMA SameDocument ==
    ASSUME NEW s \in Slips, document'[s] = document[s]
    PROVE  /\ \A q : Owns(s, q)' <=> Owns(s, q)
           /\ Lined(s) => Lined(s)'
<1>1. \A q : Owns(s, q)' <=> Owns(s, q)
  BY DEF Owns
<1>2. Keyed(s)' = Keyed(s)
  BY <1>1 DEF Keyed
<1> QED BY <1>1, <1>2 DEF Lined

(* What becomes of keys and histories in a commit.                         *)
LEMMA CommitKeys ==
    ASSUME TypeOK, Apart, \A s \in Slips : Lined(s), NEW j \in Jobs, ReadyToCommit(j),
           NEW W \in SUBSET Slips, NEW key, NEW shows, Wrote(j, W, key, shows)
    PROVE  /\ \A s \in Slips : \A q : Owns(s, q)' <=> Owns(s, q) \/ (s \in W /\ q = key[s])
           /\ \A s \in W : key[s] \in Held(j) /\ key[s] \in Keys /\ ~Owns(s, key[s])
           /\ \A s \in Slips : Lined(s)'
<1>1. \A s \in W : key[s] \in Held(j)
  BY DEF Wrote
<1>2. \A s \in W : key[s] \in Keys
  BY <1>1, HeldAreKeys
<1>3. \A s \in W : ~Owns(s, key[s])
  BY <1>1 DEF Apart, ReadyToCommit
<1>4. ASSUME NEW s \in Slips
      PROVE  Lined(s)' /\ \A q : Owns(s, q)' <=> Owns(s, q) \/ (s \in W /\ q = key[s])
  <2>1. CASE s \in W
    <3>1. shows[s] \in Shown /\ Gains(s, key[s], shows[s])
      BY <2>1 DEF Wrote
    <3> QED BY <1>2, <1>3, <2>1, <3>1, GainsKey
  <2>2. CASE s \notin W
    <3>1. document'[s] = document[s]
      BY <2>2 DEF Wrote
    <3> QED BY <2>2, <3>1, SameDocument
  <2> QED BY <2>1, <2>2
<1> QED BY <1>1, <1>2, <1>3, <1>4

(* A deletion loses keys and gains none; what it loses its job takes over. *)
LEMMA DeletedKeys ==
    ASSUME TypeOK, NEW j \in Jobs, NEW p \in Periods, Delete(j, p)
    PROVE  /\ \A s \in Slips : \A q : Owns(s, q)' => Owns(s, q)
           /\ \A k \in Held(j)' : \E s \in Workflow!SlipsOf(p) : s \in Slips /\ Owns(s, k)
           /\ \A s \in Slips : \A k : Owns(s, k) /\ ~Owns(s, k)' /\ k \in Keys => k \in Held(j)'
           /\ \A s \in Workflow!SlipsOf(p) : \A q : ~Owns(s, q)'
           /\ \A s \in Slips : Lined(s) => Lined(s)'
<1>1. \A s \in Slips :
         \/ s \in Workflow!SlipsOf(p) /\ document'[s] = NoDocument
         \/ s \notin Workflow!SlipsOf(p) /\ document'[s] = document[s]
  BY Deletes DEF Delete
<1>2. ASSUME NEW s \in Slips
      PROVE  /\ \A q : Owns(s, q)' => Owns(s, q)
             /\ Lined(s) => Lined(s)'
             /\ \A k \in Keys : Owns(s, k) /\ ~Owns(s, k)' => k \in Held(j)'
             /\ s \in Workflow!SlipsOf(p) => \A q : ~Owns(s, q)'
  <2>1. CASE s \in Workflow!SlipsOf(p) /\ document'[s] = NoDocument
    <3>1. \A q : ~Owns(s, q)'
      BY <2>1 DEF Owns
    <3>2. Lined(s)'
      BY <2>1 DEF Lined
    <3>3. ASSUME NEW k \in Keys, Owns(s, k) PROVE k \in Held(j)'
      <4> DEFINE f == [of |-> s, key |-> k]
      <4>1. f \in StoredFile /\ f.of = s /\ f.key = k
        BY DEF StoredFile
      <4>2. k \in KeysOf(document[s])
        BY <3>3, ReferencedKeys
      <4>3. f \in FilesOf(p)
        BY <2>1, <4>1, <4>2 DEF FilesOf
      <4> HIDE DEF f
      <4> QED BY <4>1, <4>3 DEF Delete
    <3> QED BY <3>1, <3>2, <3>3
  <2>2. CASE s \notin Workflow!SlipsOf(p) /\ document'[s] = document[s]
    BY <2>2, SameDocument
  <2> QED BY <1>1, <2>1, <2>2
<1>3. ASSUME NEW k \in Held(j)'
      PROVE  \E s \in Workflow!SlipsOf(p) : s \in Slips /\ Owns(s, k)
  <2>1. PICK f \in FilesOf(p) : f.key = k
    BY <1>3 DEF Delete
  <2>2. f.of \in Workflow!SlipsOf(p) /\ k \in KeysOf(document[f.of])
    BY <2>1 DEF FilesOf
  <2>3. f.of \in Slips
    BY <2>2 DEF Workflow!SlipsOf
  <2> QED BY <2>2, <2>3, ReferencedKeys
<1> QED BY <1>2, <1>3 DEF Workflow!SlipsOf

LEMMA StandingHeld ==
    ASSUME NEW j \in Jobs, OthersStand(j), NEW i \in Jobs, i # j
    PROVE  Held(i)' = Held(i) /\ job'[i] = job[i]
<1>1. job'[i] = job[i]
  BY DEF OthersStand
<1> QED BY <1>1 DEF Held

LEMMA ApartStep ==
    ASSUME TypeOK, \A j \in Jobs : Orderly(j), Apart, \A s \in Slips : Lined(s), [Next]_vars
    PROVE  Apart' /\ \A s \in Slips : Lined(s)'
<1>1. CASE Nothing
  <2>1. \A j \in Jobs : Held(j)' = Held(j)
    BY <1>1 DEF Nothing, Held
  <2>2. \A s \in Slips : document'[s] = document[s]
    BY <1>1 DEF Nothing
  <2>3. \A s \in Slips : (\A q : Owns(s, q)' <=> Owns(s, q)) /\ Lined(s)'
    BY <2>2, SameDocument
  <2> QED BY <1>1, <2>1, <2>3 DEF Apart, Nothing
<1>2. ASSUME NEW j \in Jobs, OthersStand(j), Moves(j)
      PROVE  Apart' /\ \A s \in Slips : Lined(s)'
  <2>0. \A i \in Jobs : i # j => Held(i)' = Held(i) /\ job'[i].stage = job[i].stage
    BY <1>2, StandingHeld
  <2>q. ASSUME UNCHANGED document
        PROVE  \A s \in Slips : (\A q : Owns(s, q)' <=> Owns(s, q)) /\ Lined(s)'
    BY <2>q, SameDocument
  <2>1. CASE Begin(j)
    BY <2>0, <2>1, <2>q DEF Apart, Begin
  <2>2. ASSUME NEW x \in Slips \cup Employees, NEW k \in Keys, Store(j, x, k)
        PROVE  Apart' /\ \A s \in Slips : Lined(s)'
    <3>1. UNCHANGED document /\ k \in files' /\ files \subseteq files'
      BY <2>2 DEF Store
    <3>2. \A s \in Slips : ~Owns(s, k)
      BY <2>2, ReferencedKeys DEF Store, Fresh
    <3>3. \A i \in Jobs : k \notin Held(i)
      BY <2>2 DEF Store, Fresh
    <3> QED BY <2>0, <2>2, <2>q, <3>1, <3>2, <3>3 DEF Apart, Store
  <2>3. CASE GiveUp(j)
    <3>1. job'[j].stage = "cleanup"
      BY <2>3, CleanupHas DEF GiveUp
    <3> QED BY <2>0, <2>3, <2>q, <3>1 DEF Apart, GiveUp
  <2>4. CASE Committed(j)
    <3>1. PICK W \in SUBSET Slips : \E key, shows : Wrote(j, W, key, shows)
      BY <2>4 DEF Committed
    <3>2. PICK key, shows : Wrote(j, W, key, shows)
      BY <3>1
    <3>3. /\ \A s \in Slips : \A q : Owns(s, q)' <=> Owns(s, q) \/ (s \in W /\ q = key[s])
          /\ \A s \in W : key[s] \in Held(j)
          /\ \A s \in Slips : Lined(s)'
      BY <2>4, <3>2, CommitKeys DEF Committed
    <3>4. job[j].stage = "storing" /\ job'[j].stage # "storing" /\ Held(j)' \subseteq Held(j)
      <4>1. Cleanup(job[j].stored).stage = "cleanup" /\ Idle.stage = "idle"
        BY DEF Cleanup, Idle
      <4> QED BY <2>4, <4>1 DEF Committed, ReadyToCommit
    <3>5. files' = files
      BY <2>4 DEF Committed
    <3>6. \A s, t \in W : key[s] = key[t] => s = t
      BY <3>2 DEF Wrote
    <3> QED BY <2>0, <3>3, <3>4, <3>5, <3>6 DEF Apart
  <2>5. ASSUME NEW k \in Keys, Remove(j, k) PROVE Apart' /\ \A s \in Slips : Lined(s)'
    <3>1. \A q \in files : q = k \/ q \in files'
      BY <2>5 DEF Remove
    <3> QED BY <2>0, <2>5, <2>q, <3>1 DEF Apart, Remove
  <2>6. CASE End(j)
    <3>1. job'[j].stage = "idle"
      BY <2>6 DEF End, Idle
    <3> QED BY <2>0, <2>6, <2>q, <3>1 DEF Apart, End
  <2>7. ASSUME NEW p \in Periods, Delete(j, p) PROVE Apart' /\ \A s \in Slips : Lined(s)'
    BY <2>0, <2>7, DeletedKeys DEF Apart, Delete
  <2> QED BY <1>2, <2>1, <2>2, <2>3, <2>4, <2>5, <2>6, <2>7 DEF Moves
<1> QED BY <1>1, <1>2, Steps

-----------------------------------------------------------------------------
(* Files                                                                   *)

(* What a job holds no document refers to, because it has not committed,   *)
(* was rolled back, or its payslips are gone; unless its commit went       *)
(* unheard.                                                                *)
Disowned == \A j \in Jobs : \A k \in Held(j) : \A s \in Slips : Owns(s, k) => k \in unheard
Backed == \A s \in Slips : \A k : Owns(s, k) => k \in files \cup unheard

LEMMA BackedStep ==
    ASSUME TypeOK, \A j \in Jobs : Orderly(j), Apart,
           \A s \in Slips : Lined(s), Disowned, Backed, [Next]_vars
    PROVE  Disowned' /\ Backed'
<1>1. CASE Nothing
  <2>1. \A j \in Jobs : Held(j)' = Held(j)
    BY <1>1 DEF Nothing, Held
  <2>2. \A s \in Slips : document'[s] = document[s]
    BY <1>1 DEF Nothing
  <2>3. \A s \in Slips : \A q : Owns(s, q)' <=> Owns(s, q)
    BY <2>2, SameDocument
  <2> QED BY <1>1, <2>1, <2>3 DEF Disowned, Backed, Nothing
<1>2. ASSUME NEW j \in Jobs, OthersStand(j), Moves(j)
      PROVE  Disowned' /\ Backed'
  <2>0. \A i \in Jobs : i # j => Held(i)' = Held(i)
    BY <1>2, StandingHeld
  <2>q. ASSUME UNCHANGED document
        PROVE  \A s \in Slips : \A q : Owns(s, q)' <=> Owns(s, q)
    BY <2>q, SameDocument
  <2>1. CASE Begin(j)
    BY <2>0, <2>1, <2>q DEF Disowned, Backed, Begin
  <2>2. ASSUME NEW x \in Slips \cup Employees, NEW k \in Keys, Store(j, x, k)
        PROVE  Disowned' /\ Backed'
    <3>1. \A s \in Slips : ~Owns(s, k)
      BY <2>2, ReferencedKeys DEF Store, Fresh
    <3> QED BY <2>0, <2>2, <2>q, <3>1 DEF Disowned, Backed, Store
  <2>3. CASE GiveUp(j)
    BY <2>0, <2>3, <2>q DEF Disowned, Backed, GiveUp
  <2>4. CASE Committed(j)
    <3>1. PICK W \in SUBSET Slips : \E key, shows : Wrote(j, W, key, shows)
      BY <2>4 DEF Committed
    <3>2. PICK key, shows : Wrote(j, W, key, shows)
      BY <3>1
    <3>3. /\ \A s \in Slips : \A q : Owns(s, q)' <=> Owns(s, q) \/ (s \in W /\ q = key[s])
          /\ \A s \in W : key[s] \in Held(j)
      BY <2>4, <3>2, CommitKeys DEF Committed
    <3>4. job[j].stage = "storing" /\ files' = files
      BY <2>4 DEF Committed, ReadyToCommit
    <3>5. \/ Held(j)' = {} /\ unheard' = unheard
          \/ Held(j)' = Held(j) /\ unheard' = unheard \cup Held(j)
      BY <2>4 DEF Committed
    <3>6. \A i \in Jobs : i # j => Held(i) \cap Held(j) = {}
      BY <3>4 DEF Apart
    <3>7. \A k \in Held(j) : k \in files
      BY <3>4 DEF Apart
    <3> QED BY <2>0, <3>3, <3>4, <3>5, <3>6, <3>7 DEF Disowned, Backed
  <2>5. ASSUME NEW k \in Keys, Remove(j, k) PROVE Disowned' /\ Backed'
    <3>1. \A q \in files : q = k \/ q \in files'
      BY <2>5 DEF Remove
    <3>2. \A s \in Slips : Owns(s, k) => k \in unheard
      BY <2>5 DEF Remove, Disowned
    <3> QED BY <2>0, <2>5, <2>q, <3>1, <3>2 DEF Disowned, Backed, Remove
  <2>6. CASE End(j)
    BY <2>0, <2>6, <2>q DEF Disowned, Backed, End
  <2>7. ASSUME NEW p \in Periods, Delete(j, p) PROVE Disowned' /\ Backed'
    <3>1. \A k \in Held(j)' : \A s \in Slips : ~Owns(s, k)'
      <4> SUFFICES ASSUME NEW k \in Held(j)', NEW s \in Slips, Owns(s, k)' PROVE FALSE
        OBVIOUS
      <4>1. PICK t \in Workflow!SlipsOf(p) : t \in Slips /\ Owns(t, k)
        BY <2>7, DeletedKeys
      <4>2. k \in Keys /\ Owns(s, k)
        BY <2>7, DeletedKeys DEF Delete, FilesOf, StoredFile
      <4>3. s = t
        BY <4>1, <4>2 DEF Apart
      <4> QED BY <2>7, <4>1, <4>3, DeletedKeys
    <3>2. ASSUME NEW s \in Slips, NEW k, Owns(s, k)', k \in unheard PROVE k \in unheard'
      <4> SUFFICES ASSUME NEW t \in Workflow!SlipsOf(p), t \in Slips, Owns(t, k) PROVE FALSE
        BY <2>7, <3>2 DEF Delete, Workflow!SlipsOf
      <4>1. Owns(s, k) /\ k \in Keys
        BY <2>7, <3>2, DeletedKeys DEF TypeOK
      <4>2. s = t
        BY <4>1 DEF Apart
      <4> QED BY <2>7, <3>2, <4>2, DeletedKeys
    <3>3. \A s \in Slips : \A k : Owns(s, k)' => Owns(s, k)
      BY <2>7, DeletedKeys
    <3>4. files' = files
      BY <2>7 DEF Delete
    <3> QED BY <2>0, <3>1, <3>2, <3>3, <3>4 DEF Disowned, Backed
  <2> QED BY <1>2, <2>1, <2>2, <2>3, <2>4, <2>5, <2>6, <2>7 DEF Moves
<1> QED BY <1>1, <1>2, Steps

\* Every file belongs to a document or a job, or is known to have leaked.
Accounted ==
    \A k \in files : k \in leaked \/ (\E s \in Slips : Owns(s, k)) \/ \E j \in Jobs : k \in Held(j)

LEMMA AccountedStep ==
    ASSUME TypeOK, \A j \in Jobs : Orderly(j), Apart, \A s \in Slips : Lined(s),
           Accounted, [Next]_vars
    PROVE  Accounted'
<1>1. CASE Nothing
  <2>1. \A j \in Jobs : Held(j)' = Held(j)
    BY <1>1 DEF Nothing, Held
  <2>2. \A s \in Slips : document'[s] = document[s]
    BY <1>1 DEF Nothing
  <2>3. \A s \in Slips : \A q : Owns(s, q)' <=> Owns(s, q)
    BY <2>2, SameDocument
  <2> QED BY <1>1, <2>1, <2>3 DEF Accounted, Nothing
<1>2. ASSUME NEW j \in Jobs, OthersStand(j), Moves(j) PROVE Accounted'
  <2>0. \A i \in Jobs : i # j => Held(i)' = Held(i)
    BY <1>2, StandingHeld
  <2>q. ASSUME UNCHANGED document
        PROVE  \A s \in Slips : \A q : Owns(s, q)' <=> Owns(s, q)
    BY <2>q, SameDocument
  <2>i. ASSUME job[j].stage = "idle" PROVE Held(j) = {}
    BY <2>i DEF Orderly, Held
  <2>1. CASE Begin(j)
    BY <2>0, <2>1, <2>q, <2>i DEF Accounted, Begin
  <2>2. ASSUME NEW x \in Slips \cup Employees, NEW k \in Keys, Store(j, x, k) PROVE Accounted'
    BY <2>0, <2>2, <2>q DEF Accounted, Store
  <2>3. CASE GiveUp(j)
    BY <2>0, <2>3, <2>q DEF Accounted, GiveUp
  <2>4. CASE Committed(j)
    <3>1. PICK W \in SUBSET Slips : \E key, shows : Wrote(j, W, key, shows)
      BY <2>4 DEF Committed
    <3>2. PICK key, shows : Wrote(j, W, key, shows)
      BY <3>1
    <3>3. \A s \in Slips : \A q : Owns(s, q)' <=> Owns(s, q) \/ (s \in W /\ q = key[s])
      BY <2>4, <3>2, CommitKeys DEF Committed
    <3>4. \A k \in Held(j) : \E s \in W : k = key[s]
      BY <3>2 DEF Wrote
    <3>5. files' = files /\ leaked' = leaked
      BY <2>4 DEF Committed
    <3> QED BY <2>0, <3>3, <3>4, <3>5 DEF Accounted
  <2>5. ASSUME NEW k \in Keys, Remove(j, k) PROVE Accounted'
    <3>1. /\ \A i \in Jobs : \A q \in Held(i) : q = k \/ q \in Held(i)'
          /\ \A s \in Slips : \A q : Owns(s, q) => Owns(s, q)'
      BY <2>0, <2>5, <2>q DEF Remove
    <3>2. \A q \in files' : q = k \/ q \in leaked' \/ q \notin leaked
      BY <2>5 DEF Remove
    <3>3. k \in files' => k \in leaked' \/ k \in Referenced
      BY <2>5 DEF Remove
    <3>4. k \in Referenced => \E s \in Slips : Owns(s, k)'
      BY <2>5, <2>q, ReferencedKeys DEF Remove
    <3>5. files' \subseteq files
      BY <2>5 DEF Remove
    <3> QED BY <3>1, <3>2, <3>3, <3>4, <3>5 DEF Accounted
  <2>6. CASE End(j)
    BY <2>0, <2>6, <2>q, ReferencedKeys DEF Accounted, End
  <2>7. ASSUME NEW p \in Periods, Delete(j, p) PROVE Accounted'
    <3>1. Held(j) = {} /\ files' = files /\ leaked' = leaked /\ files \subseteq Keys
      BY <2>7, <2>i DEF Delete, TypeOK
    <3> QED BY <2>0, <2>7, <3>1, DeletedKeys DEF Accounted
  <2> QED BY <1>2, <2>1, <2>2, <2>3, <2>4, <2>5, <2>6, <2>7 DEF Moves
<1> QED BY <1>1, <1>2, Steps

-----------------------------------------------------------------------------
(* What the documents show                                                 *)

(* A payslip keeps its employee and its item as long as it exists, and the *)
(* id of one that has gone is not used for another while a job knows it.   *)
LEMMA SlipFates ==
    ASSUME TypeOK, \A j \in Jobs : Orderly(j), [Next]_vars
    PROVE  /\ \A s \in Slips : slip'[s] # NoSlip => SlipKept(s)
           /\ \A j \in Jobs : \A s \in job[j].targets \cap Slips :
                 slip[s] = NoSlip => slip'[s] = NoSlip
<1>0. slip \in [Slips -> Workflow!Payslip \cup {NoSlip}]
  BY DEF TypeOK, Workflow!TypeOK
<1>1. ASSUME UNCHANGED workflowVars
      PROVE  slip' = slip /\ \A s \in Slips : SlipKept(s)
  BY <1>0, <1>1 DEF workflowVars, SlipKept
<1>2. ASSUME NEW j \in Jobs, NEW heard \in Answers, Commit(j, heard)
      PROVE  \A s \in Slips : SlipKept(s)
  <2>1. PICK W \in SUBSET Slips : \E key, shows : Wrote(j, W, key, shows)
    BY <1>2, Writes DEF Commit
  <2>2. PICK key, shows : Wrote(j, W, key, shows)
    BY <2>1
  <2> QED BY <1>0, <2>2 DEF Wrote, SlipKept
<1>3. ASSUME NEW j \in Jobs, StartStep(j) \/ JobStep(j) \/ Crash(j)
      PROVE  \A s \in Slips : SlipKept(s)
  <2>1. UNCHANGED workflowVars \/ \E heard \in Answers : Commit(j, heard)
    BY <1>3, Begins DEF JobStep, StoreFile, StoreFails, RollBack, RemoveFile, EndCleanup, Crash
  <2> QED BY <1>1, <1>2, <2>1
<1>4. ASSUME NEW j \in Jobs, NEW p \in Periods, DeleteLocked(j, p)
      PROVE  \A s \in Slips : slip'[s] = NoSlip \/ (slip'[s] = slip[s] /\ SlipKept(s))
  BY <1>4, Deletes
<1>5. CASE IdsAreFresh /\ \A s \in Slips : SlipKept(s)
  BY <1>5 DEF IdsAreFresh
<1>6. CASE UNCHANGED vars
  BY <1>1, <1>6 DEF vars
<1>7. CASE \E j \in Jobs, p \in Periods : DeleteLocked(j, p)
  BY <1>4, <1>7
<1> QED BY <1>3, <1>5, <1>6, <1>7, WorkflowKeepsSlips DEF Next

(* Every version shows what was uploaded, or the item of its calculated    *)
(* payslip; a job that generates is about to show the same.                *)
Shows(s, a) == slip[s] # NoSlip /\ slip[s].kind = "calculated" /\ a = ItemOf(s)
Says(s, a) ==
    /\ document[s] # NoDocument
    /\ \E i \in DOMAIN document[s].versions : a = document[s].versions[i].shows
WillSay(j, s, a) ==
    /\ job[j].stage = "storing" /\ job[j].kind = "generate"
    /\ s \in job[j].targets /\ a = job[j].shows[s]
Printed ==
    /\ \A s \in Slips : \A a \in Shown : Says(s, a) => a = Uploaded \/ Shows(s, a)
    /\ \A j \in Jobs : \A s \in Slips : \A a \in Shown :
          WillSay(j, s, a) => slip[s] = NoSlip \/ Shows(s, a)

LEMMA ItemStays ==
    ASSUME NEW s \in Slips, NEW a, SlipKept(s), Shows(s, a)
    PROVE  Shows(s, a)'
<1>1. slip'[s] # NoSlip
  BY NullsAreNoRows DEF SlipKept, Shows
<1>2. /\ slip'[s].period = slip[s].period /\ slip'[s].employee = slip[s].employee
      /\ slip'[s].kind = "calculated" /\ items'[slip[s].period] = items[slip[s].period]
  BY DEF SlipKept, Shows
<1> QED BY <1>1, <1>2 DEF Shows, ItemOf

(* What a document says after a step: what it said, or what a commit wrote. *)
LEMMA SaysStep ==
    ASSUME TypeOK, \A j \in Jobs : Orderly(j), [Next]_vars, NEW s \in Slips, NEW a, Says(s, a)'
    PROVE  \/ Says(s, a)
           \/ a = Uploaded
           \/ slip'[s] = slip[s] /\ slip[s] # NoSlip /\ \E j \in Jobs : WillSay(j, s, a)
<1>1. CASE document'[s] = document[s]
  BY <1>1 DEF Says
<1>2. CASE Nothing
  BY <1>1, <1>2 DEF Nothing
<1>3. ASSUME NEW j \in Jobs, Committed(j), document'[s] # document[s]
      PROVE  \/ Says(s, a)
             \/ a = Uploaded
             \/ slip'[s] = slip[s] /\ slip[s] # NoSlip /\ \E i \in Jobs : WillSay(i, s, a)
  <2>1. PICK W \in SUBSET Slips : \E key, shows : Wrote(j, W, key, shows)
    BY <1>3 DEF Committed
  <2>2. PICK key, shows : Wrote(j, W, key, shows)
    BY <2>1
  <2>3. s \in W
    BY <1>3, <2>2 DEF Wrote
  <2>4. CASE document[s] = NoDocument /\ document'[s] = FirstVersion(key[s], shows[s])
    <3>1. a = shows[s]
      BY <2>4 DEF Says, FirstVersion
    <3>2. shows[s] = Uploaded \/
          (job[j].kind = "generate" /\ s \in job[j].targets /\ slip'[s] = slip[s]
             /\ shows[s] = job[j].shows[s])
      BY <2>2, <2>3 DEF Wrote
    <3>3. slip'[s] = slip[s] => slip[s] # NoSlip
      BY <2>2, <2>3, NullsAreNoRows DEF Wrote, IsGenerated
    <3> QED BY <1>3, <3>1, <3>2, <3>3 DEF WillSay, Committed, ReadyToCommit
  <2>5. CASE document[s] # NoDocument /\ document'[s] = Rotated(document[s], key[s])
    <3> DEFINE d == document[s]
               R == Rotated(d, key[s])
    <3>1. d \in Document /\ key[s] \in Keys
      <4>1. key[s] \in Held(j)
        BY <2>2, <2>3 DEF Wrote
      <4> QED BY <2>5, <4>1, HeldAreKeys DEF TypeOK
    <3>2. /\ R.versions[Len(d.versions) + 1] = [key |-> key[s], shows |-> Uploaded]
          /\ \A i \in DOMAIN d.versions : R.versions[i] = d.versions[i]
          /\ DOMAIN R.versions = DOMAIN d.versions \cup {Len(d.versions) + 1}
      BY <3>1, RotatedTyped
    <3>3. document'[s] = R
      BY <2>5
    <3> HIDE DEF R
    <3>4. PICK i \in DOMAIN R.versions : a = R.versions[i].shows
      BY <3>3 DEF Says
    <3> QED BY <2>5, <3>2, <3>4 DEF Says
  <2> QED BY <2>2, <2>3, <2>4, <2>5 DEF Wrote, Gains
<1>4. ASSUME NEW j \in Jobs, NEW p \in Periods, Delete(j, p)
      PROVE  document'[s] = NoDocument \/ document'[s] = document[s]
  BY <1>4, Deletes DEF Delete
<1>5. ASSUME NEW j \in Jobs, Moves(j), ~Committed(j), ~(\E p \in Periods : Delete(j, p))
      PROVE  document'[s] = document[s]
  BY <1>5 DEF Moves, Begin, GiveUp, End, Store, Remove
<1>6. document'[s] # NoDocument
  BY DEF Says
<1> QED BY <1>1, <1>2, <1>3, <1>4, <1>5, <1>6, Steps

(* A job that generates says what it said before, or what it has just read. *)
LEMMA WillSayStep ==
    ASSUME TypeOK, \A j \in Jobs : Orderly(j), [Next]_vars, NEW i \in Jobs, NEW s \in Slips,
           NEW a, WillSay(i, s, a)'
    PROVE  \/ WillSay(i, s, a)
           \/ Shows(s, a)'
<1>1. CASE job'[i] = job[i]
  BY <1>1 DEF WillSay
<1>2. CASE Nothing
  BY <1>1, <1>2 DEF Nothing
<1>3. CASE Begin(i)
  <2>1. slip' = slip /\ items' = items
    BY <1>3 DEF Begin, workflowVars
  <2>2. slip[s] # NoSlip /\ slip[s].kind = "calculated" /\ a = ItemOf(s)
    BY <1>3 DEF Begin, Begun, WillSay
  <2> QED BY <2>1, <2>2 DEF Shows, ItemOf
<1>4. ASSUME NEW x \in Slips \cup Employees, NEW k \in Keys, Store(i, x, k)
      PROVE  WillSay(i, s, a)
  <2>1. /\ job'[i].targets = job[i].targets /\ job'[i].kind = job[i].kind
        /\ job'[i].shows = job[i].shows /\ job[i].stage = "storing"
    BY <1>4, JobTyped DEF Store, Job
  <2> QED BY <2>1 DEF WillSay
<1>5. CASE job'[i] = Idle \/ job'[i].stage = "cleanup"
  <2>1. Idle.stage = "idle"
    BY DEF Idle
  <2> QED BY <1>5, <2>1 DEF WillSay
<1>6. GiveUp(i) \/ Committed(i) => job'[i] = Idle \/ job'[i].stage = "cleanup"
  BY CleanupHas DEF GiveUp, Committed
<1>7. ASSUME NEW j \in Jobs, OthersStand(j), j # i
      PROVE  job'[i] = job[i]
  BY <1>7 DEF OthersStand
<1> QED
  BY <1>1, <1>2, <1>3, <1>4, <1>5, <1>6, <1>7, Steps DEF Moves, End, Remove, Delete

LEMMA PrintedStep ==
    ASSUME TypeOK, \A j \in Jobs : Orderly(j), Printed, [Next]_vars
    PROVE  Printed'
<1>0. /\ \A s \in Slips : document[s] # NoDocument => slip[s] # NoSlip
      /\ \A s \in Slips : document'[s] # NoDocument => slip'[s] # NoSlip
  BY TypeStep DEF TypeOK
<1>1. ASSUME NEW s \in Slips, NEW a \in Shown, Says(s, a)', a # Uploaded
      PROVE  Shows(s, a)'
  <2>1. slip'[s] # NoSlip
    BY <1>0, <1>1 DEF Says
  <2>2. SlipKept(s)
    BY <2>1, SlipFates
  <2>3. Shows(s, a)
    BY <1>1, SaysStep DEF Printed
  <2> QED BY <2>2, <2>3, ItemStays
<1>2. ASSUME NEW j \in Jobs, NEW s \in Slips, NEW a \in Shown, WillSay(j, s, a)', slip'[s] # NoSlip
      PROVE  Shows(s, a)'
  <2>1. CASE WillSay(j, s, a)
    <3>1. slip[s] # NoSlip
      BY <1>2, <2>1, SlipFates DEF WillSay
    <3>2. SlipKept(s) /\ Shows(s, a)
      BY <1>2, <2>1, <3>1, SlipFates DEF Printed
    <3> QED BY <3>2, ItemStays
  <2> QED BY <1>2, <2>1, WillSayStep
<1> QED BY <1>1, <1>2 DEF Printed

-----------------------------------------------------------------------------
(* The theorems                                                            *)

IInv ==
    /\ TypeOK
    /\ \A j \in Jobs : Orderly(j)
    /\ Apart
    /\ \A s \in Slips : Lined(s)
    /\ Printed
    /\ Accounted

LEMMA InitialState ==
    Init => IInv /\ Disowned /\ Backed
<1> SUFFICES ASSUME Init PROVE IInv /\ Disowned /\ Backed
  OBVIOUS
<1>1. /\ \A s \in Slips : document[s] = NoDocument
      /\ \A j \in Jobs : job[j] = Idle
      /\ files = {} /\ leaked = {} /\ unheard = {}
  BY DEF Init
<1>2. Idle.stage = "idle" /\ Idle.stored = {}
  BY DEF Idle
<1>3. \A j \in Jobs : Held(j) = {} /\ job[j].stage = "idle" /\ job[j].stored = {}
  BY <1>1, <1>2 DEF Held
<1>4. \A s \in Slips : \A k : ~Owns(s, k)
  BY <1>1 DEF Owns
<1>5. Workflow!TypeOK
  <2>1. Documented \subseteq Slips
    BY DEF Documented
  <2>2. Workflow!NoItems \in Workflow!Items
    BY DEF Workflow!NoItems, Workflow!Items
  <2> QED BY <2>1, <2>2 DEF Init, Workflow!Init, Workflow!TypeOK
<1>6. TypeOK
  BY <1>1, <1>5, IdleTyped DEF Init, TypeOK
<1>7. (\A j \in Jobs : Orderly(j)) /\ Apart /\ Accounted /\ Disowned /\ Backed
  BY <1>1, <1>3, <1>4 DEF Orderly, Apart, Accounted, Disowned, Backed
<1>8. (\A s \in Slips : Lined(s)) /\ Printed
  BY <1>1, <1>3 DEF Lined, Printed, Says, WillSay
<1> QED BY <1>6, <1>7, <1>8 DEF IInv

LEMMA StepKeepsIInv == IInv /\ [Next]_vars => IInv'
<1> SUFFICES ASSUME IInv, [Next]_vars PROVE IInv'
  OBVIOUS
<1>1. TypeOK' /\ Apart' /\ Printed' /\ Accounted'
  BY TypeStep, ApartStep, PrintedStep, AccountedStep DEF IInv
<1>2. \A j \in Jobs : Orderly(j)'
  BY OrderlyStep DEF IInv
<1>3. \A s \in Slips : Lined(s)'
  BY ApartStep DEF IInv
<1> QED BY <1>1, <1>2, <1>3 DEF IInv

(* The inductive invariant: what jobs hold is theirs alone until it is     *)
(* committed, and what they are about to print is what the item says.      *)
THEOREM Inductive == Spec => []IInv
<1>1. Init => IInv
  BY InitialState
<1> QED BY <1>1, StepKeepsIInv, PTL DEF Spec

(* Uploads, replacements, generation and deletion in any number at once    *)
(* keep the current document the last of its versions, share no file, and  *)
(* leave a generated PDF showing its item, even if acknowledgements get    *)
(* lost.                                                                   *)
THEOREM DocumentsStayConsistent == Spec => []DocumentsConsistent
<1>1. IInv => DocumentsConsistent
  <2> SUFFICES ASSUME IInv PROVE DocumentsConsistent
    OBVIOUS
  <2>1. CurrentIsLastVersion
    <3> SUFFICES ASSUME NEW s \in Documented
                 PROVE  /\ document[s].versions # <<>>
                        /\ document[s].current = document[s].versions[Len(document[s].versions)].key
                        /\ Cardinality(KeysOf(document[s])) = Len(document[s].versions)
                        /\ \A t \in Documented \ {s} : KeysOf(document[s]) \cap KeysOf(document[t]) = {}
      BY DEF CurrentIsLastVersion
    <3>1. s \in Slips /\ document[s] \in Document /\ Lined(s) /\ document[s] # NoDocument
      BY DEF IInv, TypeOK, Documented
    <3>2. ASSUME NEW t \in Slips, document[t] \in Document
          PROVE  KeysOf(document[t]) \subseteq Keys
      <4>1. document[t].current \in Keys /\ document[t].versions \in Seq(Version)
        BY <3>2 DEF Document
      <4>2. \A i \in DOMAIN document[t].versions : document[t].versions[i].key \in Keys
        BY <3>2, VersionsTyped
      <4> QED BY <4>1, <4>2 DEF KeysOf
    <3>3. KeysOf(document[s]) = Keyed(s)
      BY <3>1, <3>2, ReferencedKeys DEF Keyed
    <3>4. ASSUME NEW t \in Documented \ {s}, NEW k \in KeysOf(document[s]), k \in KeysOf(document[t])
          PROVE  FALSE
      <4>1. t \in Slips /\ Owns(s, k) /\ Owns(t, k) /\ k \in Keys
        BY <3>1, <3>2, <3>4, ReferencedKeys DEF Documented
      <4> QED BY <3>1, <3>4, <4>1 DEF IInv, Apart
    <3> QED BY <3>1, <3>3, <3>4 DEF Lined
  <2>2. GeneratedPdfShowsItem
    <3> SUFFICES ASSUME NEW s \in Documented, NEW i \in DOMAIN document[s].versions
                 PROVE  document[s].versions[i].shows \in {Uploaded, ItemOf(s)}
      BY DEF GeneratedPdfShowsItem
    <3>1. s \in Slips /\ document[s] \in Document /\ document[s] # NoDocument
      BY DEF IInv, TypeOK, Documented
    <3>2. document[s].versions[i].shows \in Shown
      BY <3>1, VersionsTyped
    <3> QED BY <3>1, <3>2 DEF IInv, Printed, Says, Shows
  <2> QED BY <2>1, <2>2 DEF DocumentsConsistent, IInv
<1> QED BY <1>1, Inductive, PTL

(* Whatever crashes or fails, a file without a row is one that a crash or  *)
(* a failed removal left behind.                                           *)
THEOREM LeaksAreKnown == Spec => []NoSilentLeak
<1>1. IInv => NoSilentLeak
  BY ReferencedKeys DEF IInv, Accounted, NoSilentLeak
<1> QED BY <1>1, Inductive, PTL

(* Whatever crashes or fails, a row lacks its file only when the server    *)
(* never heard of the commit of that row, and a file without a row is one  *)
(* that a crash or a failed removal left behind.                           *)
THEOREM FilesFollow == Spec => []FilesFollowDocuments
<1>1. IInv /\ Disowned /\ Backed /\ [Next]_vars => (Disowned /\ Backed)'
  BY BackedStep DEF IInv
<1>2. Init => Disowned /\ Backed
  BY InitialState
<1>3. Backed => FilesBackDocuments
  BY ReferencedKeys DEF Backed, FilesBackDocuments
<1>4. FilesBackDocuments /\ NoSilentLeak => FilesFollowDocuments
  BY DEF FilesFollowDocuments
<1> QED BY <1>1, <1>2, <1>3, <1>4, Inductive, LeaksAreKnown, PTL DEF Spec

(* No step changes the document of a published or revoked payslip, and a   *)
(* replacement keeps every version there was.                              *)
THEOREM HistoriesOnlyGrow == Spec => HistoryIsAppendOnly
<1> DEFINE Grows == \A s \in Documented : document'[s] # NoDocument =>
                       /\ slip[s].status # "generated" => document'[s] = document[s]
                       /\ Len(document[s].versions) <= Len(document'[s].versions)
                       /\ \A i \in DOMAIN document[s].versions :
                             document'[s].versions[i] = document[s].versions[i]
<1>1. IInv /\ [Next]_vars => Grows
  <2> SUFFICES ASSUME IInv, [Next]_vars, NEW s \in Documented, document'[s] # NoDocument
               PROVE  /\ slip[s].status # "generated" => document'[s] = document[s]
                      /\ Len(document[s].versions) <= Len(document'[s].versions)
                      /\ \A i \in DOMAIN document[s].versions :
                            document'[s].versions[i] = document[s].versions[i]
    OBVIOUS
  <2>1. /\ s \in Slips /\ document[s] \in Document /\ document[s] # NoDocument
        /\ slip[s] # NoSlip /\ TypeOK /\ \A j \in Jobs : Orderly(j)
    BY DEF IInv, TypeOK, Documented
  <2>2. Len(document[s].versions) \in Nat
    BY <2>1 DEF Document
  <2>3. CASE document'[s] = document[s]
    BY <2>2, <2>3
  <2>4. ASSUME NEW j \in Jobs, Committed(j), document'[s] # document[s]
        PROVE  /\ slip[s].status = "generated"
               /\ Len(document[s].versions) <= Len(document'[s].versions)
               /\ \A i \in DOMAIN document[s].versions :
                     document'[s].versions[i] = document[s].versions[i]
    <3>1. PICK W \in SUBSET Slips : \E key, shows : Wrote(j, W, key, shows)
      BY <2>4 DEF Committed
    <3>2. PICK key, shows : Wrote(j, W, key, shows)
      BY <3>1
    <3>3. s \in W
      BY <2>1, <2>4, <3>2 DEF Wrote
    <3>4. IsGenerated(s) /\ document'[s] = Rotated(document[s], key[s])
      BY <2>1, <3>2, <3>3 DEF Wrote, Gains
    <3>5. key[s] \in Keys
      <4>1. key[s] \in Held(j)
        BY <3>2, <3>3 DEF Wrote
      <4> QED BY <2>1, <4>1, HeldAreKeys
    <3> DEFINE d == document[s]
               R == Rotated(d, key[s])
    <3>6. /\ Len(R.versions) = Len(d.versions) + 1
          /\ \A i \in DOMAIN d.versions : R.versions[i] = d.versions[i]
      BY <2>1, <3>5, RotatedTyped
    <3>7. document'[s] = R
      BY <3>4
    <3> HIDE DEF R
    <3> QED BY <2>2, <3>4, <3>6, <3>7 DEF IsGenerated
  <2>5. ASSUME NEW j \in Jobs, Moves(j), ~Committed(j)
        PROVE  document'[s] = document[s]
    <3>1. \A p \in Periods : Delete(j, p) => document'[s] = NoDocument \/ document'[s] = document[s]
      BY <2>1, Deletes DEF Delete
    <3> QED BY <2>5, <3>1 DEF Moves, Begin, GiveUp, End, Store, Remove
  <2>6. Nothing => document'[s] = document[s]
    BY DEF Nothing
  <2> QED BY <2>1, <2>3, <2>4, <2>5, <2>6, Steps
<1> QED BY <1>1, Inductive, PTL DEF Spec, HistoryIsAppendOnly

-----------------------------------------------------------------------------
(* The refinement                                                          *)

LEMMA AttachIsAttach ==
    ASSUME TypeOK, NEW j \in Jobs, ReadyToCommit(j), Orderly(j), AttachDocuments(j)
    PROVE  [Workflow!Next]_(Workflow!vars)
<1> DEFINE S == job[j].targets \cap Slips
<1>1. UNCHANGED <<period, endDate, run, items, calculatedFor, slip>>
  BY DEF AttachDocuments, workflowVars
<1>2. \A s \in S : slip[s] # NoSlip /\ slip[s].status = "generated" /\ s \notin Documented
  BY DEF AttachDocuments, CanAttach, IsGenerated, Documented
<1>3. ASSUME NEW s \in Slips
      PROVE  document'[s] # NoDocument <=> document[s] # NoDocument \/ s \in S
  <2>1. CASE s \in job[j].targets
    <3>1. KeyFor(j, s) \in Keys /\ job[j].shows[s] \in Shown
      BY <2>1, KeyForTarget, JobTyped
    <3>2. FirstVersion(KeyFor(j, s), job[j].shows[s]) # NoDocument
      BY <3>1, FirstVersionTyped
    <3> QED BY <2>1, <3>2 DEF AttachDocuments
  <2>2. CASE s \notin job[j].targets
    BY <2>2 DEF AttachDocuments
  <2> QED BY <2>1, <2>2
<1>4. Documented' = Documented \cup S
  BY <1>3 DEF Documented
<1>5. S \in SUBSET Slips
  OBVIOUS
<1> HIDE DEF S
<1>6. CASE S = {}
  BY <1>1, <1>4, <1>6 DEF Workflow!vars
<1>7. CASE S # {}
  <2>1. Workflow!Attach(S)
    BY <1>1, <1>2, <1>4, <1>7 DEF Workflow!Attach, Workflow!payVars
  <2> QED BY <1>5, <2>1 DEF Workflow!Next
<1> QED BY <1>6, <1>7

LEMMA ReplaceIsSilent ==
    ASSUME TypeOK, NEW j \in Jobs, ReadyToCommit(j), Orderly(j), ReplaceDocument(j)
    PROVE  UNCHANGED Workflow!vars
<1>1. ASSUME NEW s \in Slips
      PROVE  document'[s] # NoDocument <=> document[s] # NoDocument
  <2>1. CASE s \in job[j].targets
    <3>1. KeyFor(j, s) \in Keys /\ document[s] # NoDocument
      BY <2>1, KeyForTarget DEF ReplaceDocument, CanReplace
    <3>2. document[s] \in Document
      BY <3>1 DEF TypeOK
    <3>3. Rotated(document[s], KeyFor(j, s)) # NoDocument
      BY <3>1, <3>2, RotatedTyped
    <3> QED BY <2>1, <3>1, <3>3 DEF ReplaceDocument
  <2>2. CASE s \notin job[j].targets
    BY <2>2 DEF ReplaceDocument
  <2> QED BY <2>1, <2>2
<1>2. Documented' = Documented
  BY <1>1 DEF Documented
<1> QED BY <1>2 DEF ReplaceDocument, workflowVars, Workflow!vars

LEMMA DistributeIsDistribute ==
    ASSUME TypeOK, NEW j \in Jobs, ReadyToCommit(j), Orderly(j), DistributePayslip(j)
    PROVE  Workflow!Next
<1> DEFINE p == job[j].period
<1>1. PICK e \in Employees : job[j].targets = {e}
  BY DEF DistributePayslip, Orderly, ReadyToCommit
<1>2. PICK s \in Slips :
        /\ slip[s] = NoSlip
        /\ slip' = [slip EXCEPT ![s] = Workflow!NewSlip(p, e, "distribution")]
        /\ document' = [document EXCEPT ![s] = FirstVersion(KeyFor(j, e), Uploaded)]
  BY <1>1 DEF DistributePayslip
<1>3. FirstVersion(KeyFor(j, e), Uploaded) # NoDocument
  BY <1>1, KeyForTarget, FirstVersionTyped DEF Shown
<1>4. document \in [Slips -> Document \cup {NoDocument}]
  BY DEF TypeOK
<1>5. Documented' = Documented \cup {s}
  BY <1>2, <1>3, <1>4 DEF Documented
<1>6. p \in Periods
  BY JobTyped
<1>7. /\ period[p] \notin {"absent", "cancelled", "locked"} /\ ~Workflow!HasPayslip(p, e)
      /\ UNCHANGED <<period, run, endDate, items, calculatedFor>>
  BY <1>1 DEF DistributePayslip, CanDistribute, Open
<1> HIDE DEF p
<1>8. Workflow!Distribute(p, e, s)
  BY <1>2, <1>5, <1>7 DEF Workflow!Distribute, Workflow!payVars, Workflow!CanDistribute
<1> QED BY <1>6, <1>8 DEF Workflow!Next

(* Seen from outside, where files, versions and jobs are hidden, each step *)
(* of the documents module is one step of PayrollWorkflow or none: the     *)
(* commit of an upload or a generation is Attach, that of a distribution   *)
(* Distribute.                                                             *)
THEOREM DocumentsImplementWorkflow == Spec => ImplementsWorkflow
<1>1. Init => Workflow!Init
  <2> SUFFICES ASSUME Init PROVE Workflow!Init
    OBVIOUS
  <2> QED BY DEF Init
<1>2. IInv /\ [Next]_vars => [Workflow!Next]_(Workflow!vars)
  <2> SUFFICES ASSUME IInv, [Next]_vars PROVE [Workflow!Next]_(Workflow!vars)
    OBVIOUS
  <2>0. TypeOK /\ \A j \in Jobs : Orderly(j)
    BY DEF IInv
  <2>1. CASE WorkflowStep
    BY <2>1 DEF WorkflowStep, Workflow!Next, Workflow!PeriodStep
  <2>2. CASE UNCHANGED <<workflowVars, document>>
    BY <2>2 DEF workflowVars, Workflow!vars, Documented
  <2>3. ASSUME NEW j \in Jobs, NEW heard \in Answers, Commit(j, heard)
        PROVE  [Workflow!Next]_(Workflow!vars)
    BY <2>0, <2>3, AttachIsAttach, ReplaceIsSilent, DistributeIsDistribute DEF Commit, Write
  <2>4. ASSUME NEW j \in Jobs, NEW p \in Periods, DeleteLocked(j, p)
        PROVE  [Workflow!Next]_(Workflow!vars)
    BY <2>4 DEF DeleteLocked, Workflow!Next, Workflow!PeriodStep
  <2>5. ASSUME NEW j \in Jobs, StartStep(j) \/ JobStep(j) \/ Crash(j)
        PROVE  \/ UNCHANGED <<workflowVars, document>>
               \/ \E heard \in Answers : Commit(j, heard)
    BY <2>0, <2>5, Begins
       DEF JobStep, StoreFile, StoreFails, RollBack, RemoveFile, EndCleanup, Crash
  <2> QED BY <2>1, <2>2, <2>3, <2>4, <2>5 DEF Next, vars
<1> QED BY <1>1, <1>2, Inductive, PTL DEF Spec, ImplementsWorkflow, Workflow!Spec
=============================================================================
