-------------------------- MODULE PayslipDocuments --------------------------
(***************************************************************************)
(* The PDF of a payslip: a payslip_documents row, its append-only version  *)
(* history, and the encrypted files in private storage                     *)
(* (features/payroll/payslip-document.actions.ts, generatePayslipPdfsAction *)
(* and deletePayrollPeriodAction in features/payroll/actions.ts).          *)
(*                                                                         *)
(* A job is one execution of such an action.  It checks without locks,     *)
(* writes its files, and only then opens the transaction that locks the    *)
(* rows, checks again and inserts; when that fails it removes its files.   *)
(* Everything else that happens to a period is a step of PayrollWorkflow.  *)
(***************************************************************************)
EXTENDS Integers, Sequences, FiniteSets

CONSTANTS
    Periods, Employees, Slips, Dates, Amounts, NotIncluded, NoSlip, NoDate,
    Keys,         \* storage keys; each upload gets a new one
    Jobs,
    NoDocument, Uploaded,
    MaxVersions,  \* bound on the versions of one document
    MaxUnheard,   \* bound on the files of unheard commits at one time
    Answers       \* what the server hears of a commit: TRUE, or FALSE for a lost connection

ASSUME DocumentConstants ==
    /\ Uploaded \notin Amounts
    /\ Answers \subseteq BOOLEAN
    /\ MaxVersions \in Nat \ {0} /\ MaxUnheard \in Nat
    /\ Periods # {}

VARIABLES period, endDate, run, items, calculatedFor, slip,  \* of PayrollWorkflow
    document,  \* payslip_documents with their payslip_document_versions
    files,     \* the keys under which storage holds a file
    leaked,    \* files nobody refers to after a crash or a failed removal
    unheard,   \* history: files of commits of which the server never heard
    job

workflowVars == <<period, endDate, run, items, calculatedFor, slip>>
vars == <<workflowVars, document, files, leaked, unheard, job>>

Documented == {s \in Slips : document[s] # NoDocument}

Workflow == INSTANCE PayrollWorkflow WITH documented <- Documented

\* A version has a key and shows an item's amount, or what somebody uploaded.
Shown == Amounts \cup {Uploaded, NotIncluded}
Version == [key: Keys, shows: Shown]
Document == [current: Keys, versions: Seq(Version)]

ASSUME NullsAreNoRows == NoDocument \notin Document /\ NoSlip \notin Workflow!Payslip

Kinds == {"upload", "generate", "replace", "distribute"}
StoredFile == [of: Slips \cup Employees, key: Keys]
Job == [stage: {"idle", "storing", "cleanup"}, kind: Kinds, period: Periods,
        targets: SUBSET (Slips \cup Employees), shows: [Slips -> Shown],
        stored: SUBSET StoredFile]
AnyUpload == [s \in Slips |-> Uploaded]
Idle == [stage |-> "idle", kind |-> "upload", period |-> CHOOSE p \in Periods : TRUE,
         targets |-> {}, shows |-> AnyUpload, stored |-> {}]

TypeOK ==
    /\ Workflow!TypeOK
    /\ document \in [Slips -> Document \cup {NoDocument}]
    /\ \A s \in Slips : slip[s] = NoSlip => document[s] = NoDocument
    /\ files \subseteq Keys /\ leaked \subseteq Keys /\ unheard \subseteq Keys
    /\ job \in [Jobs -> Job]

Init ==
    /\ document = [s \in Slips |-> NoDocument]
    /\ files = {} /\ leaked = {} /\ unheard = {}
    /\ job = [j \in Jobs |-> Idle]
    /\ Workflow!Init

KeysOf(d) == IF d = NoDocument THEN {}
             ELSE {d.current} \cup {d.versions[i].key : i \in DOMAIN d.versions}
Referenced == UNION {KeysOf(document[s]) : s \in Slips}
Held(j) == {f.key : f \in job[j].stored}
Fresh == Keys \ (files \cup Referenced \cup UNION {Held(j) : j \in Jobs})

-----------------------------------------------------------------------------
(* Checks before anything is written, without a lock                       *)

Start(j, kind, p, targets, shows) ==
    /\ job[j].stage = "idle"
    /\ job' = [job EXCEPT ![j] = [stage |-> "storing", kind |-> kind, period |-> p,
                                  targets |-> targets, shows |-> shows, stored |-> {}]]
    /\ UNCHANGED <<workflowVars, document, files, leaked, unheard>>

IsGenerated(s) == slip[s] # NoSlip /\ slip[s].status = "generated"
Open(p) == period[p] \notin {"absent", "cancelled", "locked"}

StartUpload(j, s) ==
    /\ IsGenerated(s)
    /\ slip[s].kind = "calculated"
    /\ Workflow!RunIsFinal(slip[s].period)
    /\ document[s] = NoDocument
    /\ Start(j, "upload", slip[s].period, {s}, AnyUpload)

ItemOf(s) == items[slip[s].period][slip[s].employee]

\* MUTANT of AmountToPrint: what the live configuration would pay is printed.
AmountToPrintLive(s) == CHOOSE a \in Amounts : TRUE

\* Printed from the item snapshot, never from the live configuration.
AmountToPrint(s) == ItemOf(s)

(* Phase 1 of generatePayslipPdfsAction reads what the PDFs will show; the  *)
(* lock of the period ends with this transaction.  Payslips whose employee  *)
(* lacks a number or birth date are skipped.                               *)
StartGeneration(j, p) ==
    /\ Workflow!RunIsFinal(p)
    /\ \E candidates \in SUBSET (Workflow!PendingSlips(p) \ Documented) :
          /\ candidates # {}
          /\ Start(j, "generate", p, candidates,
                   [s \in Slips |-> IF s \in candidates THEN AmountToPrint(s) ELSE Uploaded])

StartReplace(j, s) ==
    /\ IsGenerated(s)
    /\ document[s] # NoDocument
    /\ IF slip[s].kind = "calculated" THEN Workflow!RunIsFinal(slip[s].period)
       ELSE Open(slip[s].period)
    /\ Start(j, "replace", slip[s].period, {s}, AnyUpload)

\* The single upload checks the period and duplicates first, the bulk upload does not.
StartDistribution(j, p, e) ==
    /\ period[p] # "absent"
    /\ Start(j, "distribute", p, {e}, AnyUpload)

-----------------------------------------------------------------------------
(* Files                                                                   *)

Missing(j) == job[j].targets \ {f.of : f \in job[j].stored}

StoreFile(j, x, k) ==
    /\ job[j].stage = "storing"
    /\ x \in Missing(j) /\ k \in Fresh
    /\ files' = files \cup {k}
    /\ job' = [job EXCEPT ![j].stored = @ \cup {[of |-> x, key |-> k]}]
    /\ unheard' = unheard \ {k}
    /\ UNCHANGED <<workflowVars, document, leaked>>

\* All that is left to know is which files to remove.
Cleanup(stored) == [Idle EXCEPT !.stage = "cleanup", !.stored = stored]
ToCleanup(j) == job' = [job EXCEPT ![j] = Cleanup(job[j].stored)]

\* Rendering, encryption or writing fails: what is stored so far is removed.
StoreFails(j) ==
    /\ job[j].stage = "storing"
    /\ Missing(j) # {}
    /\ ToCleanup(j)
    /\ UNCHANGED <<workflowVars, document, files, leaked, unheard>>

\* Removal is best effort: its failure is logged and the file stays.
RemoveFile(j, f, ok) ==
    /\ job[j].stage = "cleanup"
    /\ f \in job[j].stored
    /\ job' = [job EXCEPT ![j].stored = @ \ {f}]
    /\ files' = IF ok THEN files \ {f.key} ELSE files
    /\ leaked' = IF ok THEN leaked \ {f.key} ELSE leaked \cup (({f.key} \cap files) \ Referenced)
    /\ UNCHANGED <<workflowVars, document, unheard>>

EndCleanup(j) ==
    /\ job[j].stage = "cleanup" /\ job[j].stored = {}
    /\ job' = [job EXCEPT ![j] = Idle]
    /\ UNCHANGED <<workflowVars, document, files, leaked, unheard>>

Crash(j) ==
    /\ job[j].stage # "idle"
    /\ job' = [job EXCEPT ![j] = Idle]
    /\ leaked' = leaked \cup ((Held(j) \cap files) \ Referenced)
    /\ UNCHANGED <<workflowVars, document, files, unheard>>

-----------------------------------------------------------------------------
(* The transaction at the end of a job                                     *)

KeyFor(j, x) == (CHOOSE f \in job[j].stored : f.of = x).key

FirstVersion(k, shows) == [current |-> k, versions |-> <<[key |-> k, shows |-> shows]>>]

\* MUTANT of Rotated: the last version is overwritten.
OverwriteVersion(d, k) ==
    [current |-> k, versions |-> <<[key |-> k, shows |-> Uploaded]>>]

\* nextPayslipDocumentVersion and the new pointer; nothing older is deleted.
Rotated(d, k) ==
    [current |-> k, versions |-> Append(d.versions, [key |-> k, shows |-> Uploaded])]

\* Each payslip is locked, must still be generated and still without a document.
CanAttach(j) == \A s \in job[j].targets : IsGenerated(s) /\ document[s] = NoDocument

AttachDocuments(j) ==
    /\ job[j].kind \in {"upload", "generate"}
    /\ CanAttach(j)
    /\ document' = [s \in Slips |->
          IF s \notin job[j].targets THEN document[s]
          ELSE FirstVersion(KeyFor(j, s), job[j].shows[s])]
    /\ UNCHANGED workflowVars

\* The document and the payslip are locked; the status of the period is not read again.
CanReplace(j) == \A s \in job[j].targets : IsGenerated(s) /\ document[s] # NoDocument

ReplaceDocument(j) ==
    /\ job[j].kind = "replace"
    /\ CanReplace(j)
    /\ document' = [s \in Slips |->
          IF s \in job[j].targets THEN Rotated(document[s], KeyFor(j, s)) ELSE document[s]]
    /\ UNCHANGED workflowVars

\* MUTANT of CanDistribute: payslips of the employee are not looked for.
CanDistributeIfOpen(j) == Open(job[j].period)

\* The period is locked, must still be open and the employee without a payslip.
CanDistribute(j) ==
    /\ Open(job[j].period)
    /\ \A e \in job[j].targets : ~Workflow!HasPayslip(job[j].period, e)

DistributePayslip(j) ==
    /\ job[j].kind = "distribute"
    /\ CanDistribute(j)
    /\ \E e \in job[j].targets, s \in Slips :
          /\ slip[s] = NoSlip
          /\ slip' = [slip EXCEPT ![s] = Workflow!NewSlip(job[j].period, e, "distribution")]
          /\ document' = [document EXCEPT ![s] = FirstVersion(KeyFor(j, e), Uploaded)]
    /\ UNCHANGED <<period, endDate, run, items, calculatedFor>>

Write(j) == AttachDocuments(j) \/ ReplaceDocument(j) \/ DistributePayslip(j)

ReadyToCommit(j) == job[j].stage = "storing" /\ Missing(j) = {}

\* MUTANT of Commit: the files are cleaned up after a success too.
CommitThenCleanUp(j, heard) ==
    /\ ReadyToCommit(j)
    /\ Write(j)
    /\ ToCleanup(j)
    /\ UNCHANGED <<files, leaked, unheard>>

(* The catch block around the transaction cannot tell a commit whose answer *)
(* was lost from a rollback: it removes the files in both cases.            *)
Commit(j, heard) ==
    /\ ReadyToCommit(j)
    /\ Write(j)
    /\ IF heard THEN job' = [job EXCEPT ![j] = Idle] /\ UNCHANGED unheard
       ELSE ToCleanup(j) /\ unheard' = unheard \cup Held(j)
    /\ UNCHANGED <<files, leaked>>

\* A check under the lock fails, or the database does: nothing is written.
RollBack(j) ==
    /\ ReadyToCommit(j)
    /\ ToCleanup(j)
    /\ UNCHANGED <<workflowVars, document, files, leaked, unheard>>

-----------------------------------------------------------------------------
(* deletePayrollPeriodAction on a locked period: the rows go in one        *)
(* transaction, the files afterwards.                                      *)
DeleteLocked(j, p) ==
    /\ job[j].stage = "idle"
    /\ period[p] = "locked"
    /\ LET gone == Workflow!SlipsOf(p)
       IN  /\ document' = [s \in Slips |-> IF s \in gone THEN NoDocument ELSE document[s]]
           /\ job' = [job EXCEPT ![j] =
                 Cleanup({f \in StoredFile : f.of \in gone /\ f.key \in KeysOf(document[f.of])})]
           /\ unheard' = unheard \ UNION {KeysOf(document[s]) : s \in gone}
    /\ Workflow!DeleteLocked(p)
    /\ UNCHANGED <<files, leaked>>

WorkflowStep ==
    /\ UNCHANGED <<document, files, leaked, unheard, job>>
    /\ \/ \E p \in Periods :
             \/ \E d \in Dates : Workflow!CreatePeriod(p, d) \/ Workflow!UpdatePeriod(p, d)
             \/ \E snapshot \in Workflow!Items : Workflow!Calculate(p, snapshot)
             \/ Workflow!Submit(p) \/ Workflow!Approve(p) \/ Workflow!Reject(p)
             \/ Workflow!Lock(p) \/ Workflow!Cancel(p) \/ Workflow!DeleteUnused(p)
             \/ Workflow!RunSlipStep(p)
       \/ \E s \in Slips : Workflow!PublishOne(s) \/ Workflow!Revoke(s)

StartStep(j) ==
    \/ \E s \in Slips :
          \/ StartUpload(j, s)
          \/ document[s] # NoDocument /\ Len(document[s].versions) < MaxVersions
             /\ StartReplace(j, s)
    \/ \E p \in Periods :
          StartGeneration(j, p) \/ \E e \in Employees : StartDistribution(j, p, e)

JobStep(j) ==
    \/ \E x \in Missing(j), k \in Fresh : StoreFile(j, x, k)
    \/ StoreFails(j) \/ RollBack(j)
    \/ \E heard \in Answers :
          /\ heard \/ Cardinality(unheard \cup Held(j)) <= MaxUnheard
          /\ Commit(j, heard)
    \/ \E f \in job[j].stored, ok \in BOOLEAN : RemoveFile(j, f, ok)
    \/ EndCleanup(j)

(* Ids are random UUIDs: a job that remembers a deleted payslip or period  *)
(* never meets another row under the same id.                              *)
IdsAreFresh ==
    \A j \in Jobs :
        /\ \A s \in job[j].targets \cap Slips : slip[s] = NoSlip => slip'[s] = NoSlip
        /\ job[j].stage = "storing" /\ period[job[j].period] = "absent"
              => period'[job[j].period] = "absent"

Next ==
    \/ WorkflowStep /\ IdsAreFresh
    \/ \E j \in Jobs :
          \/ (StartStep(j) \/ JobStep(j) \/ Crash(j)) /\ IdsAreFresh
          \/ \E p \in Periods : DeleteLocked(j, p)

Spec == Init /\ [][Next]_vars

-----------------------------------------------------------------------------
(* What the module promises                                                *)

(* Whatever runs at the same time and whatever fails, each row of          *)
(* payslip_documents and payslip_document_versions has its file, unless    *)
(* the server never heard that the row was committed: the catch block then *)
(* removes the file of a row that stays (uploadPayslipPdfAction).          *)
FilesBackDocuments == Referenced \subseteq files \cup unheard

(* Only crashes and failed removals leave files behind: every other file   *)
(* is referred to by a row or is still in the hands of a job.              *)
NoSilentLeak == files \subseteq Referenced \cup leaked \cup UNION {Held(j) : j \in Jobs}

(* The current document is the last version of the history, and no two     *)
(* versions, of whichever payslips, share a file.                          *)
CurrentIsLastVersion ==
    \A s \in Documented :
        LET d == document[s]
        IN  /\ d.versions # <<>>
            /\ d.current = d.versions[Len(d.versions)].key
            /\ Cardinality(KeysOf(d)) = Len(d.versions)
            /\ \A t \in Documented \ {s} : KeysOf(d) \cap KeysOf(document[t]) = {}

(* A generated PDF, rendered outside any transaction from what was read    *)
(* before, still shows the amounts of its payroll item.                    *)
GeneratedPdfShowsItem ==
    \A s \in Documented : \A i \in DOMAIN document[s].versions :
        document[s].versions[i].shows \in {Uploaded, ItemOf(s)}

(* "Published and revoked payslips are immutable" and "replacement never    *)
(* deletes history" (replacePayslipPdfAction): after publication nothing    *)
(* changes, before it versions are only appended.                          *)
HistoryIsAppendOnly ==
    [][\A s \in Documented : document'[s] # NoDocument =>
          /\ slip[s].status # "generated" => document'[s] = document[s]
          /\ Len(document[s].versions) <= Len(document'[s].versions)
          /\ \A i \in DOMAIN document[s].versions :
                document'[s].versions[i] = document[s].versions[i]]_vars

(* Locks, files and failures hide behind atomic steps: seen from outside,  *)
(* the jobs are the atomic steps of PayrollWorkflow.                       *)
ImplementsWorkflow == Workflow!Spec

\* Rows and files agree, though no transaction spans database and storage
\* (features/payroll/payslip-document.actions.ts).
FilesFollowDocuments ==
    /\ FilesBackDocuments
    /\ NoSilentLeak

\* The document of a payslip is the last of its versions and shows the pay of
\* its item, whatever was replaced or recalculated meanwhile.
DocumentsConsistent ==
    /\ TypeOK
    /\ CurrentIsLastVersion
    /\ GeneratedPdfShowsItem
=============================================================================

