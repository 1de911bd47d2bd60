--------------------------- MODULE Announcements ---------------------------
(***************************************************************************)
(* Announcements, their audience, attachments and read receipts:           *)
(* features/announcements, lib/announcements and the download route.       *)
(*                                                                         *)
(* No action of this feature opens a transaction: a call reads the rows    *)
(* and decides, and then every statement and every file operation is a     *)
(* step of its own.  A call may die before any of them, and a file may be  *)
(* written half or resist its removal, of which the code hears nothing.    *)
(*                                                                         *)
(* Data: an announcement is its status, target, visibility window and      *)
(* count of reads; a receipt is a row of announcement_recipients, TRUE     *)
(* once read_at is set; a file and the row of an attachment are named by   *)
(* the call that stored them and a number.  Titles, contents, priorities,  *)
(* pins and file types are left out.                                       *)
(***************************************************************************)
EXTENDS Naturals, FiniteSets, Functions

CONSTANTS Employees, Calls, None,
          Earlier,   \* the announcement that may exist already
          Callers,   \* permission sets of the users who call
          Times,     \* bound: moments the clock takes
          Limit,     \* bound: announcements that exist when one is created
          Windows,   \* bound: the visibility windows chosen
          Uploads,   \* bound: files of one upload
          Sizes,     \* bound: the numbers of files chosen for an upload
          Backlog,   \* bound: files and uploads under way when an edit brings files
          Leavers    \* bound: employees deleted

Permissions == {"view", "create", "update", "delete", "publish"}

ASSUME AnnouncementAssumption ==
    /\ Callers \subseteq SUBSET Permissions
    /\ Earlier \notin Calls /\ None \notin Calls \cup {Earlier} \cup Employees
    /\ {Times, Limit, Uploads, Backlog, Leavers} \subseteq Nat /\ Sizes \subseteq 0 .. Uploads
    /\ IsFiniteSet(Employees) /\ IsFiniteSet(Calls)
    /\ Windows \subseteq [from : Nat \cup {None}, until : Nat \cup {None}]
    /\ \A w \in Windows : w.from # None /\ w.until # None => w.from <= w.until

VARIABLES now,
          employed,   \* employees that exist
          row,        \* announcements
          receipt,    \* announcement_recipients: receipt[a][e]
          attachment, \* announcement_attachments, by storage key
          file,       \* keys of the files on disk
          erased,     \* history: how many read receipts were deleted since
          lost,       \* history: how many reads a call died before counting
          stray,      \* history: keys of files that a failed removal, a half
                      \* written file or a call that died has left
          call        \* what each call has read and still has to do

history == <<erased, lost, stray>>
vars == <<now, employed, row, receipt, attachment, file, history, call>>
store == <<now, employed, row, receipt, attachment, file, history>>

Moments == 0 .. Times
Announcements == Calls \cup {Earlier}
Keys == Announcements \X Calls \X (1 .. Uploads)   \* directory, call, number
Always == [from |-> None, until |-> None]
Row == [status : {"draft", "published", "unpublished"}, all : BOOLEAN,
        window : Windows, readCount : 0 .. Cardinality(Calls)]

Phases == {"insert", "set", "clear", "recipients", "file", "attach", "rows",
            "row", "storage", "detach", "unlink", "receipt", "mark", "count"}
Ops == {"create", "update", "retarget", "publish", "unpublish", "delete", "remove", "read"}
Ended == [ended |-> TRUE]   \* what a call answers is left out
Call == [op : Ops, on : Announcements, phase : Phases, all : BOOLEAN, to : SUBSET Employees,
         window : Windows \cup {Always}, uploads : 0 .. Uploads, next : 1 .. Uploads + 1,
         key : Keys \cup {None}, by : Employees \cup {None}]
    \cup {Ended}

ASSUME NoneIsNoCall == None \notin Call

Idle(c) == call[c] = None
At(c, phase) == call[c] # None /\ "phase" \in DOMAIN call[c] /\ call[c].phase = phase
Goto(c, phase) == call' = [call EXCEPT ![c].phase = phase]
Finish(c) == call' = [call EXCEPT ![c] = Ended]

Request(op, a, phase) ==
    [op |-> op, on |-> a, phase |-> phase, all |-> TRUE, to |-> {}, window |-> Always,
     uploads |-> 0, next |-> 1, key |-> None, by |-> None]
Begin(c, r) == Idle(c) /\ call' = [call EXCEPT ![c] = r] /\ UNCHANGED store

Exists(a) == a \in DOMAIN row
Published(a) == Exists(a) /\ row[a].status = "published"

(***************************************************************************)
(* The policy: who may do what to an announcement, and who may see it.     *)
(***************************************************************************)
MayCreate(p) == "create" \in p
MayUpdate(p, status) == "update" \in p /\ (status = "published" => "publish" \in p)
MayRearrange(p, status) == "update" \in p /\ status # "published"
MayPublish(p) == "publish" \in p
MayUnpublish(p, status) == "publish" \in p /\ status = "published"
MayDelete(p, status, hasReads) ==
    ~hasReads /\ "delete" \in p /\ (status = "published" => "publish" \in p)

Received(a, e) == a \in DOMAIN receipt /\ e \in DOMAIN receipt[a]
Addressed(a, e) == ~row[a].all => Received(a, e)

Open(w, t) == (w.from # None => w.from <= t) /\ (w.until # None => t < w.until)
Visible(a, e) == Published(a) /\ Open(row[a].window, now) /\ Addressed(a, e)

\* MUTANT of Listed: the feed still shows an announcement as it expires.
ListedWhenExpiring(w, t) == (w.from # None => w.from < t) /\ (w.until # None => w.until >= t)

Listed(w, t) == (w.from # None => w.from < t) /\ (w.until # None => w.until > t)
Feed(e) == {a \in DOMAIN row : Published(a) /\ Listed(row[a].window, now) /\ Addressed(a, e)}
IsRead(a, e) == Received(a, e) /\ receipt[a][e]
UnreadCount(e) == Cardinality({a \in Feed(e) : ~IsRead(a, e)})

DetailOpens(a, p) == Exists(a) /\ ("view" \in p \/ Published(a))
MayDownload(a, e, p) == Exists(a) /\ ("view" \in p \/ Visible(a, e))
Downloads(k, e, p) ==
    k \in attachment /\ MayDownload(k[1], e, p) /\ k \in file

(***************************************************************************)
(* Writing: each action is one statement of the call c.                    *)
(***************************************************************************)
\* The employees exist when they are looked up.
ChosenFrom(all, to) == IF all THEN to = {} ELSE to # {} /\ to \subseteq employed

CreateAnnouncement(c) ==
    \E p \in Callers, all \in BOOLEAN, to \in SUBSET Employees, w \in Windows, n \in Sizes :
        /\ MayCreate(p) /\ ChosenFrom(all, to) /\ Cardinality(DOMAIN row) < Limit
        /\ Begin(c, [Request("create", c, "insert") EXCEPT
                       !.all = all, !.to = to, !.window = w, !.uploads = n])

\* The next file, if one is left.
Upload(c, r) ==
    call' = [call EXCEPT ![c] = IF r.next <= r.uploads THEN [r EXCEPT !.phase = "file"] ELSE Ended]
Address(c) == IF call[c].to # {} THEN Goto(c, "recipients") ELSE Upload(c, call[c])

InsertDraft(c) ==
    /\ At(c, "insert")
    /\ row' = [a \in DOMAIN row \cup {c} |->
                 IF a = c THEN [status |-> "draft", all |-> call[c].all,
                                window |-> call[c].window, readCount |-> 0]
                 ELSE row[a]]
    /\ Address(c)
    /\ UNCHANGED <<now, employed, receipt, attachment, file, history>>

Receipts(a) == IF a \in DOMAIN receipt THEN receipt[a] ELSE [e \in {} |-> FALSE]
SetReceipts(a, f) == receipt' = [b \in DOMAIN receipt \cup {a} |-> IF b = a THEN f ELSE receipt[b]]
With(f, e, v) == [x \in DOMAIN f \cup {e} |-> IF x = e THEN v ELSE f[x]]

(***************************************************************************)
(* persistAttachments: the file first, then its row.  A failure removes    *)
(* the files stored so far, in a creation the whole directory; the rows    *)
(* inserted so far stay, and a removal that fails is not noticed.          *)
(***************************************************************************)
NextKey(c) == <<call[c].on, c, call[c].next>>

\* What the catch blocks try to remove, when partial was being written.
ToRemove(c, partial) ==
    IF call[c].op = "create" THEN {k \in file \cup partial : k[1] = c} ELSE {k \in file : k[2] = c}

\* MUTANT of FilesAfterFailure: the files stored so far are forgotten.
FilesKept(c, partial, failing) == file \cup partial

FilesAfterFailure(c, partial, failing) ==
    ((file \cup partial) \ ToRemove(c, partial)) \cup failing

FailUpload(c, partial) ==
    \E failing \in SUBSET ToRemove(c, partial) :
        /\ file' = FilesAfterFailure(c, partial, failing)
        /\ stray' = (stray \ ToRemove(c, partial)) \cup failing \cup (partial \ ToRemove(c, partial))
        /\ Finish(c)

\* One INSERT for all the chosen: it fails on a foreign key or the unique index.
InsertRecipients(c) ==
    LET r == call[c]
        ok == Exists(r.on) /\ r.to \subseteq employed /\ r.to \cap DOMAIN Receipts(r.on) = {}
    IN  /\ At(c, "recipients")
        /\ \/ /\ ok
              /\ SetReceipts(r.on, [e \in DOMAIN Receipts(r.on) \cup r.to |->
                                      e \in DOMAIN Receipts(r.on) /\ Receipts(r.on)[e]])
              /\ Upload(c, [r EXCEPT !.to = {}])
              /\ UNCHANGED <<file, stray>>
           \/ ~ok /\ FailUpload(c, {}) /\ UNCHANGED receipt
        /\ UNCHANGED <<now, employed, row, attachment, erased, lost>>

StoreFile(c) ==
    /\ At(c, "file")
    /\ \/ file' = file \cup {NextKey(c)} /\ Goto(c, "attach") /\ UNCHANGED stray
       \/ \E partial \in SUBSET {NextKey(c)} : FailUpload(c, partial)
    /\ UNCHANGED <<now, employed, row, receipt, attachment, erased, lost>>

\* The row may have been stored although the INSERT reports a failure.
InsertAttachment(c) ==
    LET r == call[c] IN
    /\ At(c, "attach")
    /\ \/ Exists(r.on) /\ attachment' = attachment \cup {NextKey(c)}
       \/ UNCHANGED attachment
    /\ \/ /\ Exists(r.on) /\ NextKey(c) \in attachment'
          /\ Upload(c, [r EXCEPT !.next = r.next + 1])
          /\ UNCHANGED <<file, stray>>
       \/ FailUpload(c, {})
    /\ UNCHANGED <<now, employed, row, receipt, erased, lost>>

Storing == {c \in Calls : call[c] # None /\ "uploads" \in DOMAIN call[c] /\ call[c].uploads > 0}
Room == Cardinality(file) + Cardinality(Storing) <= Backlog

UpdateAnnouncement(c) ==
    \E a \in DOMAIN row, p \in Callers, w \in Windows, n \in Sizes :
        /\ MayUpdate(p, row[a].status)
        /\ n > 0 => MayRearrange(p, row[a].status) /\ Room
        /\ Begin(c, [Request("update", a, "set") EXCEPT !.window = w, !.uploads = n])

UpdateTarget(c) ==
    \E a \in DOMAIN row, p \in Callers, all \in BOOLEAN, to \in SUBSET Employees :
        /\ MayRearrange(p, row[a].status) /\ ChosenFrom(all, to)
        /\ Begin(c, [Request("retarget", a, "set") EXCEPT !.all = all, !.to = to])

PublishAnnouncement(c) ==
    \E a \in DOMAIN row, p \in Callers : MayPublish(p) /\ Begin(c, Request("publish", a, "set"))

UnpublishAnnouncement(c) ==
    \E a \in DOMAIN row, p \in Callers :
        MayUnpublish(p, row[a].status) /\ Begin(c, Request("unpublish", a, "set"))

\* What the UPDATE of the call makes of the row it finds.
Updated(x, r) ==
    CASE r.op = "update"    -> [x EXCEPT !.window = r.window]
      [] r.op = "retarget"  -> [x EXCEPT !.all = r.all]
      [] r.op = "publish"   -> [x EXCEPT !.status = "published"]
      [] r.op = "unpublish" -> [x EXCEPT !.status = "unpublished"]

UpdateRow(c) ==
    LET r == call[c] IN
    /\ At(c, "set")
    /\ row' = IF Exists(r.on) THEN [row EXCEPT ![r.on] = Updated(@, r)] ELSE row
    /\ IF r.op = "retarget" THEN Goto(c, "clear") ELSE Upload(c, r)
    /\ UNCHANGED <<now, employed, receipt, attachment, file, history>>

ReadReceipts(f) == Cardinality({e \in DOMAIN f : f[e]})

DropReceipts(a) ==
    /\ receipt' = Restrict(receipt, DOMAIN receipt \ {a})
    /\ erased' = [erased EXCEPT ![a] = @ + ReadReceipts(Receipts(a))]

ClearRecipients(c) ==
    /\ At(c, "clear") /\ DropReceipts(call[c].on)
    /\ IF call[c].op = "delete" THEN Goto(c, "row") ELSE Address(c)
    /\ UNCHANGED <<now, employed, row, attachment, file, lost, stray>>

(***************************************************************************)
(* Deletion: the rows of the attachments, the recipients, the announcement *)
(* with the rows inserted meanwhile, and the directory.                    *)
(***************************************************************************)
DeleteAnnouncement(c) ==
    \E a \in DOMAIN row, p \in Callers :
        /\ MayDelete(p, row[a].status, row[a].readCount > 0)
        /\ Begin(c, Request("delete", a, "rows"))

WithoutAttachments(a) == {k \in attachment : k[1] # a}

DeleteAttachmentRows(c) ==
    /\ At(c, "rows")
    /\ attachment' = WithoutAttachments(call[c].on)
    /\ Goto(c, "clear")
    /\ UNCHANGED <<now, employed, row, receipt, file, history>>

DeleteRow(c) ==
    LET a == call[c].on IN
    /\ At(c, "row")
    /\ row' = Restrict(row, DOMAIN row \ {a}) /\ DropReceipts(a)
    /\ attachment' = WithoutAttachments(a)
    /\ Goto(c, "storage")
    /\ UNCHANGED <<now, employed, file, lost, stray>>

\* A removal reports success whatever it could remove.
Removal(c, keys) ==
    \E failing \in SUBSET (keys \cap file) :
        /\ file' = (file \ keys) \cup failing
        /\ stray' = (stray \ keys) \cup failing
        /\ Finish(c)

DeleteStorage(c) ==
    /\ At(c, "storage")
    /\ Removal(c, {k \in file : k[1] = call[c].on})
    /\ UNCHANGED <<now, employed, row, receipt, attachment, erased, lost>>

RemoveAttachment(c) ==
    \E k \in attachment, p \in Callers :
        /\ MayRearrange(p, row[k[1]].status)
        /\ Begin(c, [Request("remove", k[1], "detach") EXCEPT !.key = k])

DetachRow(c) ==
    /\ At(c, "detach")
    /\ attachment' = attachment \ {call[c].key}
    /\ Goto(c, "unlink")
    /\ UNCHANGED <<now, employed, row, receipt, file, history>>

UnlinkFile(c) ==
    /\ At(c, "unlink")
    /\ Removal(c, {call[c].key})
    /\ UNCHANGED <<now, employed, row, receipt, attachment, erased, lost>>

(***************************************************************************)
(* Reading: the receipt is inserted, or else marked when it is unread, and *)
(* either success is counted by a statement of its own.                    *)
(***************************************************************************)
MarkRead(c) ==
    \E a \in DOMAIN row, e \in employed :
        Visible(a, e) /\ Begin(c, [Request("read", a, "receipt") EXCEPT !.by = e])

InsertReceipt(c) ==
    LET a == call[c].on  e == call[c].by IN
    /\ At(c, "receipt")
    /\ \/ /\ Received(a, e) /\ Goto(c, "mark") /\ UNCHANGED receipt
       \/ /\ ~Received(a, e) /\ Exists(a) /\ e \in employed
          /\ SetReceipts(a, With(Receipts(a), e, TRUE)) /\ Goto(c, "count")
       \/ /\ ~Received(a, e) /\ ~(Exists(a) /\ e \in employed)
          /\ Finish(c) /\ UNCHANGED receipt
    /\ UNCHANGED <<now, employed, row, attachment, file, history>>

Markable(a, e) == Received(a, e) /\ ~receipt[a][e]

MarkReceipt(c) ==
    LET a == call[c].on  e == call[c].by IN
    /\ At(c, "mark")
    /\ IF Markable(a, e)
       THEN SetReceipts(a, With(receipt[a], e, TRUE)) /\ Goto(c, "count")
       ELSE Finish(c) /\ UNCHANGED receipt
    /\ UNCHANGED <<now, employed, row, attachment, file, history>>

CountRead(c) ==
    LET a == call[c].on IN
    /\ At(c, "count")
    /\ row' = IF Exists(a) THEN [row EXCEPT ![a].readCount = @ + 1] ELSE row
    /\ Finish(c)
    /\ UNCHANGED <<now, employed, receipt, attachment, file, history>>

(***************************************************************************)
(* The permanent deletion of an employee cascades to the receipts.         *)
(***************************************************************************)
DeleteEmployee(e) ==
    /\ e \in employed /\ Cardinality(Employees \ employed) < Leavers
    /\ employed' = employed \ {e}
    /\ receipt' = [a \in DOMAIN receipt |-> Restrict(receipt[a], DOMAIN receipt[a] \ {e})]
    /\ erased' = [a \in Announcements |-> erased[a] + (IF IsRead(a, e) THEN 1 ELSE 0)]
    /\ UNCHANGED <<now, row, attachment, file, lost, stray, call>>

Tick == /\ now < Times /\ now' = now + 1
        /\ UNCHANGED <<employed, row, receipt, attachment, file, history, call>>

(***************************************************************************)
(* A statement throws where nothing catches it, or the server stops: what  *)
(* the call still had to count or to remove stays as it is.                *)
(***************************************************************************)
\* The file has no row yet and the call will insert it or remove the file, or
\* the call has taken the row and will remove the file.
Settling(k, c) ==
    \/ At(c, "attach") /\ k = NextKey(c)
    \/ At(c, "unlink") /\ k = call[c].key
    \/ \E phase \in {"clear", "row", "storage"} :
          At(c, phase) /\ call[c].op = "delete" /\ call[c].on = k[1]

Die(c) ==
    /\ call[c] # None /\ "phase" \in DOMAIN call[c]
    /\ \E partial \in SUBSET (IF At(c, "file") THEN {NextKey(c)} ELSE {}) :
          /\ file' = file \cup partial
          /\ stray' = stray \cup partial \cup {k \in file : Settling(k, c)}
    /\ lost' = IF At(c, "count") THEN [lost EXCEPT ![call[c].on] = @ + 1] ELSE lost
    /\ Finish(c)
    /\ UNCHANGED <<now, employed, row, receipt, attachment, erased>>

Manage(c) ==
    \/ CreateAnnouncement(c) \/ InsertDraft(c) \/ InsertRecipients(c)
    \/ StoreFile(c) \/ InsertAttachment(c)
    \/ UpdateAnnouncement(c) \/ UpdateTarget(c) \/ PublishAnnouncement(c)
    \/ UnpublishAnnouncement(c) \/ UpdateRow(c) \/ ClearRecipients(c)
    \/ DeleteAnnouncement(c) \/ DeleteAttachmentRows(c) \/ DeleteRow(c) \/ DeleteStorage(c)
    \/ RemoveAttachment(c) \/ DetachRow(c) \/ UnlinkFile(c)

Read(c) == MarkRead(c) \/ InsertReceipt(c) \/ MarkReceipt(c) \/ CountRead(c)

\* One announcement may exist already, unread and without attachments.
Init ==
    /\ now = 0 /\ employed = Employees
    /\ \/ row = [a \in {} |-> None] /\ receipt = [a \in {} |-> None]
       \/ \E s \in {"draft", "published"}, w \in Windows, to \in SUBSET Employees :
            /\ row = [a \in {Earlier} |->
                        [status |-> s, all |-> to = {}, window |-> w, readCount |-> 0]]
            /\ receipt = [a \in {Earlier} |-> [e \in to |-> FALSE]]
    /\ attachment = {} /\ file = {}
    /\ erased = [a \in Announcements |-> 0] /\ lost = [a \in Announcements |-> 0]
    /\ stray = {}
    /\ call = [c \in Calls |-> None]

Next == Tick \/ (\E e \in Employees : DeleteEmployee(e)) \/ (\E c \in Calls : Manage(c) \/ Read(c) \/ Die(c))

Spec == Init /\ [][Next]_vars

(***************************************************************************)
(* Properties.                                                             *)
(***************************************************************************)
\* The variables keep their types; the keys of attachments and receipts
\* refer to announcements that exist, as their foreign keys demand.
TypeOK ==
    /\ now \in Moments /\ employed \subseteq Employees
    /\ DOMAIN row \subseteq Announcements /\ \A a \in DOMAIN row : row[a] \in Row
    /\ \A a \in DOMAIN receipt :
         /\ DOMAIN receipt[a] \subseteq employed /\ receipt[a] \in [DOMAIN receipt[a] -> BOOLEAN]
         /\ DOMAIN receipt[a] # {} => Exists(a)
    /\ attachment \subseteq Keys /\ file \subseteq Keys /\ \A k \in attachment : Exists(k[1])
    /\ erased \in [Announcements -> Nat] /\ lost \in [Announcements -> Nat] /\ stray \subseteq Keys
    /\ \A c \in Calls : call[c] \in Call \cup {None}

Counting(a) == {c \in Calls : At(c, "count") /\ call[c].on = a}

\* markAnnouncementReadAction "bumps read_count exactly once": a read receipt,
\* those deleted since included, was counted once, or will be by the call that
\* set it, or never because that call died in between; none is counted twice,
\* however the opens of one employee, a new audience and a deletion interleave.
ReadsAreCounted ==
    \A a \in DOMAIN row :
        row[a].readCount + Cardinality(Counting(a)) + lost[a]
            = ReadReceipts(Receipts(a)) + erased[a]

\* However uploads and deletions interleave, a file of the attachment storage
\* has its row, or a call at work that will give it one or remove it, unless a
\* removal failed, a write broke off or a call died.
NoOrphanFiles ==
    \A k \in file : k \in attachment \cup stray \/ \E c \in Calls : Settling(k, c)

\* What the feed and the notifications list for an employee can be opened, marked
\* read and its attachments downloaded under the policy, which states the window
\* and the audience a second time.
FeedIsOpenable ==
    \A e \in employed : \A a \in Feed(e) :
        Visible(a, e) /\ DetailOpens(a, {}) /\ MayDownload(a, e, {})

\* Receipts belong to an announcement and an employee that exist, its count
\* agrees with them, and its storage keeps no file without a row that the code
\* could have removed.  (Not that every attachment has its file: the catch of a
\* failed upload removes files whose rows stay.)
AnnouncementsConsistent ==
    /\ TypeOK
    /\ ReadsAreCounted
    /\ NoOrphanFiles
=============================================================================

