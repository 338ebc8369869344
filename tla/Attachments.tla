------------------------------ MODULE Attachments ------------------------------
(***************************************************************************)
(* Record attachments (packages/server/src/attachments.ts): the catalog in *)
(* the data database (FW_Attachment, FW_Blob), the files under the storage *)
(* root, the upload, note and delete routes, the deletion of a record's    *)
(* attachments, and the recovery scan that a start runs next to them.      *)
(*                                                                         *)
(* The server is one thread: what happens between two awaits is one step.  *)
(* An upload makes its own blob and storage key, so the upload itself      *)
(* names both.  Only the retries of an image upload share an attachment.   *)
(***************************************************************************)
EXTENDS Naturals, FiniteSets

CONSTANTS
    Records,             \* record ids, never used twice (AUTOINCREMENT)
    Uploads,             \* file uploads, each tried once
    Images,              \* the uploads made for a Function with image input
    AttachmentOf,        \* the attachment id an upload inserts
    ParentOf,            \* the record an upload is for
    Notes,               \* attachment ids of notes and links
    DirOf,               \* the directory of an upload's storage key
    MaxFaults, MaxRestarts

Ids == {AttachmentOf[u] : u \in Uploads} \union Notes
NoBlob == "none"

ASSUME UploadsAssumption ==
    /\ Images \subseteq Uploads /\ NoBlob \notin Uploads
    /\ ParentOf \in [Uploads -> Records]
    /\ \A u \in Uploads : AttachmentOf[u] \notin Notes
    /\ \A u, v \in Uploads :
          AttachmentOf[u] = AttachmentOf[v] => u = v \/ {u, v} \subseteq Images
ASSUME BoundsAssumption == MaxFaults \in Nat /\ MaxRestarts \in Nat
ASSUME DirsAssumption == DOMAIN DirOf = Uploads

VARIABLES
    records,      \* the records that exist
    known,        \* those whose table is in the registry
    writable,     \* the table's app holds a valid license
    attachments,  \* FW_Attachment: id, parent, blob
    blobs,        \* FW_Blob
    files,        \* content files under the storage root
    temps,        \* ".upload" files under the storage root
    pc,           \* where each upload is
    acked,        \* uploads answered 201
    unlinking,    \* files the delete route is about to unlink
    removal,      \* the rows a record's deletion has read and not handled yet
    scan,         \* where the recovery scan is
    refs,         \* its copy of FW_Attachment
    tracked,      \* its copy of FW_Blob
    unread,       \* directories it has not listed
    entries,      \* listed files it has not looked at
    sweeping,     \* the file of a dangling row it is about to unlink
    dismissed,    \* history: attachments deleted by a client or with their parent
    disowned,     \* history: attachments of records that exist, which a scan dropped
                  \* because their table was not in the registry
    orphaned,     \* history: blob rows a deletion left without their attachment
    stray,        \* history: attachments whose record's deletion could not see them
    overtaken,    \* history: uploads in flight while the scan listed, or hit by a fault
    faults, restarts

catalog == <<attachments, blobs>>
storage == <<files, temps>>
sweep   == <<scan, refs, tracked, unread, entries, sweeping>>
world   == <<records, known, writable>>
history == <<dismissed, disowned, orphaned, stray, overtaken>>
bounds  == <<faults, restarts>>
others  == <<world, unlinking, removal, sweep, bounds>>    \* of an upload's step
outside == <<world, pc, acked, unlinking, removal>>        \* of a scan's step
vars == <<world, catalog, storage, pc, acked, unlinking, removal, sweep, history, bounds>>

-----------------------------------------------------------------------------
InFlight == {"asked", "opening", "streaming", "streamed", "renaming", "renamed",
             "merging", "failing"}
Flying == {u \in Uploads : pc[u] \in InFlight}
FlyingTo(r) == {u \in Flying : ParentOf[u] = r}

ReadParent(r) == r \in records \intersect known
AssertParent(r) == writable /\ ReadParent(r)
ChildrenOf(r) == {a \in attachments : a.parent = r}
RowsOf(id) == {a \in attachments : a.id = id}

BlobsOf(rows) == {a.blob : a \in rows} \ {NoBlob}
NoRemoval == [left |-> {}, now |-> {}]
Unhandled == UNION {removal[r].left : r \in Records}
Rows == [id : Ids, parent : Records, blob : Uploads \union {NoBlob}]

(* Every variable has its kind; the cursors stay within what they copy.    *)
TypeOK ==
    /\ records \subseteq Records /\ known \subseteq Records /\ writable \in BOOLEAN
    /\ attachments \subseteq Rows
    /\ blobs \subseteq Uploads /\ files \subseteq Uploads /\ temps \subseteq Uploads
    /\ pc \in [Uploads -> InFlight \union {"idle", "done", "failed"}]
    /\ acked \subseteq Uploads /\ unlinking \subseteq Uploads
    /\ removal \in [Records -> [left : SUBSET Uploads, now : SUBSET Uploads]]
    /\ scan \in {"starting", "refs", "listing", "stat", "done", "aborted"}
    /\ refs \subseteq Rows /\ tracked \subseteq Uploads
    /\ unread \subseteq {DirOf[u] : u \in Uploads}
    /\ entries \subseteq Uploads \X {"file", "upload"} /\ sweeping \subseteq Uploads
    /\ dismissed \subseteq Ids /\ disowned \subseteq Ids /\ stray \subseteq Ids
    /\ orphaned \subseteq Uploads /\ overtaken \subseteq Uploads
    /\ faults \in 0..MaxFaults /\ restarts \in 0..MaxRestarts

Init ==
    /\ records = Records /\ known = Records /\ writable = TRUE
    /\ attachments = {} /\ blobs = {} /\ files = {} /\ temps = {}
    /\ pc = [u \in Uploads |-> "idle"] /\ acked = {}
    /\ unlinking = {} /\ removal = [r \in Records |-> NoRemoval]
    /\ scan = "starting" /\ refs = {} /\ tracked = {} /\ unread = {} /\ entries = {}
    /\ sweeping = {} /\ dismissed = {} /\ disowned = {} /\ orphaned = {} /\ stray = {}
    /\ overtaken = {} /\ faults = 0 /\ restarts = 0

Goto(u, next) == pc' = [pc EXCEPT ![u] = next]
Faulty == IF faults < MaxFaults THEN BOOLEAN ELSE {FALSE}
Charge(fault) == faults' = IF fault THEN faults + 1 ELSE faults

-----------------------------------------------------------------------------
(* POST /api/attachments/:table/:id/file.                                  *)

(* The parent is checked, then the multipart header is awaited.            *)
BeginUpload(u) ==
    /\ pc[u] = "idle" /\ AssertParent(ParentOf[u])
    /\ Goto(u, "asked")
    /\ overtaken' = IF scan = "listing" THEN overtaken \union {u} ELSE overtaken
    /\ UNCHANGED <<others, catalog, storage, acked, dismissed, disowned, orphaned, stray>>

(* A retried image upload finds the attachment it made before.             *)
Answer(u, found) ==
    IF \A a \in found : a.parent = ParentOf[u]
    THEN Goto(u, "done") /\ acked' = acked \union {u}
    ELSE Goto(u, "failed") /\ UNCHANGED acked
OpenUpload(u) ==
    /\ pc[u] = "asked"
    /\ LET found == RowsOf(AttachmentOf[u])
       IN IF u \notin Images THEN Goto(u, "opening") /\ UNCHANGED acked
          ELSE IF ~AssertParent(ParentOf[u]) THEN Goto(u, "failed") /\ UNCHANGED acked
          ELSE IF found # {} THEN Answer(u, found)
          ELSE Goto(u, "opening") /\ UNCHANGED acked
    /\ UNCHANGED <<others, catalog, storage, history>>

(* The directory is there; the stream opens its ".upload" file.            *)
OpenStream(u) ==
    /\ pc[u] = "opening" /\ temps' = temps \union {u} /\ Goto(u, "streaming")
    /\ UNCHANGED <<others, catalog, files, acked, history>>

(* The stream ends, or breaks: too large, cut off, a full disk; an image   *)
(* whose signature cannot be read or does not fit breaks off here too.     *)
EndStream(u) ==
    /\ pc[u] = "streaming"
    /\ Goto(u, IF u \in Images THEN "streamed" ELSE "renaming")
    /\ UNCHANGED <<others, catalog, storage, acked, history>>
BreakStream(u) ==
    /\ pc[u] \in {"streaming", "streamed"} /\ Goto(u, "failing")
    /\ UNCHANGED <<others, catalog, storage, acked, history>>

(* An image upload checks again, after the awaits, for a parent and for    *)
(* an attachment of the same upload id.                                    *)
Recheck(u) ==
    /\ pc[u] = "streamed" /\ u \in temps
    /\ LET found == RowsOf(AttachmentOf[u])
       IN Goto(u, IF \/ ~AssertParent(ParentOf[u])
                     \/ \E a \in found : a.parent # ParentOf[u] THEN "failing"
                  ELSE IF found # {} THEN "merging" ELSE "renaming")
    /\ UNCHANGED <<others, catalog, storage, acked, history>>

(* The second copy is unlinked before the first one is answered.           *)
Merge(u) ==
    /\ pc[u] = "merging"
    /\ temps' = temps \ {u}
    /\ IF u \in temps THEN Goto(u, "done") /\ acked' = acked \union {u}
       ELSE Goto(u, "failing") /\ UNCHANGED acked
    /\ UNCHANGED <<others, catalog, files, history>>

RenameUpload(u) ==
    /\ pc[u] = "renaming"
    /\ IF u \in temps
       THEN temps' = temps \ {u} /\ files' = files \union {u} /\ Goto(u, "renamed")
       ELSE Goto(u, "failing") /\ UNCHANGED storage
    /\ UNCHANGED <<others, catalog, acked, history>>

(* Mutant: no transaction, the blob row stays when the second insert fails.*)
CommitUploadHalf(u) ==
    /\ pc[u] = "renamed" /\ blobs' = blobs \union {u}
    /\ IF RowsOf(AttachmentOf[u]) = {} /\ writable
       THEN /\ attachments' = attachments \union
                   {[id |-> AttachmentOf[u], parent |-> ParentOf[u], blob |-> u]}
            /\ acked' = acked \union {u} /\ Goto(u, "done")
       ELSE Goto(u, "failing") /\ UNCHANGED <<attachments, acked>>
    /\ UNCHANGED <<others, storage, history>>

(* One transaction: both rows, the unique index on the attachment id, and  *)
(* the license checked once more before COMMIT.                            *)
CommitUpload(u) ==
    /\ pc[u] = "renamed"
    /\ IF RowsOf(AttachmentOf[u]) = {} /\ writable
       THEN /\ blobs' = blobs \union {u}
            /\ attachments' = attachments \union
                   {[id |-> AttachmentOf[u], parent |-> ParentOf[u], blob |-> u]}
            /\ acked' = acked \union {u} /\ Goto(u, "done")
       ELSE Goto(u, "failing") /\ UNCHANGED <<catalog, acked>>
    /\ UNCHANGED <<others, storage, history>>

(* Mutant: only the ".upload" file is unlinked.                            *)
CleanUploadTemp(u) ==
    /\ pc[u] = "failing"
    /\ temps' = temps \ {u} /\ Goto(u, "failed")
    /\ UNCHANGED <<others, catalog, files, acked, history>>

(* The catch block unlinks whichever of the two files there is.            *)
CleanUpload(u) ==
    /\ pc[u] = "failing"
    /\ temps' = temps \ {u} /\ files' = files \ {u} /\ Goto(u, "failed")
    /\ UNCHANGED <<others, catalog, acked, history>>

(* POST .../note and .../url insert their row at once.                     *)
AddNote(n, r) ==
    /\ AssertParent(r) /\ RowsOf(n) = {} /\ n \notin dismissed
    /\ attachments' = attachments \union {[id |-> n, parent |-> r, blob |-> NoBlob]}
    /\ UNCHANGED <<others, blobs, storage, pc, acked, history>>

-----------------------------------------------------------------------------
(* Deletion.                                                               *)

(* DELETE ... WHERE blobId=? AND NOT EXISTS (an attachment with that blob). *)
DropBlob(u, rows) == blobs' = IF u \in BlobsOf(rows) THEN blobs ELSE blobs \ {u}

(* DELETE /api/attachments/:attachmentId; the file goes after the commit.  *)
DeleteAttachment(a) ==
    /\ a \in attachments /\ AssertParent(a.parent)
    /\ attachments' = attachments \ {a}
    /\ DropBlob(a.blob, attachments')
    /\ unlinking' = unlinking \union (BlobsOf({a}) \intersect blobs)
    /\ dismissed' = dismissed \union {a.id}
    /\ UNCHANGED <<world, storage, pc, acked, removal, sweep, disowned, orphaned, stray, overtaken, bounds>>

(* unlink(...).catch(() => undefined): it may fail, and nobody hears of it.*)
Unlink(u) ==
    /\ u \in unlinking /\ unlinking' = unlinking \ {u}
    /\ \E fault \in Faulty :
          /\ files' = IF fault THEN files ELSE files \ {u}
          /\ Charge(fault)
    /\ UNCHANGED <<world, catalog, temps, pc, acked, removal, sweep, history, restarts>>

(* DELETE /api/data/:table/:id: the record, then deleteRecordAttachments().*)
DeleteRecord(r) ==
    /\ AssertParent(r)
    /\ LET rows == ChildrenOf(r)
       IN /\ records' = records \ {r}
          /\ attachments' = attachments \ rows
          /\ removal' = [removal EXCEPT ![r].left = BlobsOf(rows)]
          /\ dismissed' = dismissed \union {a.id : a \in rows}
          /\ stray' = stray \union {AttachmentOf[u] : u \in FlyingTo(r)}
    /\ UNCHANGED <<known, writable, blobs, storage, pc, acked, unlinking, sweep, disowned, orphaned, overtaken, bounds>>

(* Its loop drops a blob row and then awaits the file's unlinking.         *)
NextRemoval(r, u) ==
    /\ u \in removal[r].left /\ removal[r].now = {}
    /\ DropBlob(u, attachments)
    /\ removal' = [removal EXCEPT ![r] = [left |-> @.left \ {u}, now |-> {u}]]
    /\ UNCHANGED <<world, attachments, storage, pc, acked, unlinking, sweep, history, bounds>>
UnlinkRemoved(r) ==
    /\ removal[r].now # {}
    /\ removal' = [removal EXCEPT ![r].now = {}]
    /\ \E fault \in Faulty :
          /\ files' = IF fault THEN files ELSE files \ removal[r].now
          /\ Charge(fault)
    /\ UNCHANGED <<world, catalog, temps, pc, acked, unlinking, sweep, history, restarts>>

(* A record that goes any other way (a cascade, a script, an import, a     *)
(* deletion the process dies in, server.ts:965-966) leaves its attachments *)
(* to the next scan.                                                       *)
CascadeDelete(r) ==
    /\ r \in records /\ writable
    /\ records' = records \ {r}
    /\ dismissed' = dismissed \union {a.id : a \in ChildrenOf(r)}
    /\ stray' = stray \union {a.id : a \in ChildrenOf(r)} \union {AttachmentOf[u] : u \in FlyingTo(r)}
    /\ UNCHANGED <<known, writable, catalog, storage, pc, acked, unlinking, removal, sweep, disowned, orphaned, overtaken, bounds>>

-----------------------------------------------------------------------------
(* recoverAttachmentOrphans().                                             *)

Dangling(a) == a.parent \notin records \intersect known

StartScan ==
    /\ scan = "starting" /\ scan' = "refs" /\ refs' = attachments
    /\ UNCHANGED <<outside, catalog, storage, tracked, unread, entries, sweeping, history, bounds>>

(* The row goes, whether its record is gone or only its table unknown.     *)
Drop(a) ==
    /\ attachments' = attachments \ RowsOf(a.id)
    /\ IF a.parent \in records
       THEN disowned' = disowned \union {a.id} /\ UNCHANGED dismissed
       ELSE dismissed' = dismissed \union {a.id} /\ UNCHANGED disowned

(* The loop passes over rows with a parent until it meets a dangling one;  *)
(* that one's row and blob go, and the file's unlinking is awaited.  The   *)
(* copy may be stale: the id may be, by now, that of a retry's new row,    *)
(* which goes and leaves its own blob row behind.                          *)
DropDangling(a) ==
    /\ scan = "refs" /\ sweeping = {} /\ a \in refs /\ Dangling(a)
    /\ \E passed \in SUBSET {b \in refs : ~Dangling(b)} : refs' = refs \ (passed \union {a})
    /\ Drop(a)
    /\ DropBlob(a.blob, attachments')
    /\ sweeping' = BlobsOf({a}) \intersect blobs
    /\ orphaned' = orphaned \union (BlobsOf(RowsOf(a.id)) \ {a.blob})
    /\ UNCHANGED <<outside, storage, scan, tracked, unread, entries, stray, overtaken, bounds>>
UnlinkDangling ==
    /\ scan = "refs" /\ sweeping # {} /\ sweeping' = {}
    /\ \E fault \in Faulty :
          /\ files' = IF fault THEN files ELSE files \ sweeping
          /\ Charge(fault)
    /\ UNCHANGED <<outside, catalog, temps, scan, refs, tracked, unread, entries, history, restarts>>

(* No dangling row is left: FW_Blob is copied and the listing begins.      *)
StartListing ==
    /\ scan = "refs" /\ sweeping = {} /\ \A a \in refs : ~Dangling(a)
    /\ scan' = "listing" /\ refs' = {} /\ tracked' = blobs
    /\ unread' = {DirOf[u] : u \in Uploads}
    /\ overtaken' = overtaken \union Flying
    /\ UNCHANGED <<outside, catalog, storage, entries, sweeping, dismissed, disowned, orphaned, stray, bounds>>

(* Mutant: the directory stays in the list.                                *)
ReadDirectoryAgain(d) ==
    /\ scan = "listing" /\ entries = {} /\ d \in unread
    /\ entries' = {<<u, "file">> : u \in {v \in files : DirOf[v] = d}}
                    \union {<<u, "upload">> : u \in {v \in temps : DirOf[v] = d}}
    /\ UNCHANGED <<outside, catalog, storage, scan, refs, tracked, unread, sweeping, history, bounds>>

ReadDirectory(d) ==
    /\ scan = "listing" /\ entries = {} /\ d \in unread
    /\ unread' = unread \ {d}
    /\ entries' = {<<u, "file">> : u \in {v \in files : DirOf[v] = d}}
                    \union {<<u, "upload">> : u \in {v \in temps : DirOf[v] = d}}
    /\ UNCHANGED <<outside, catalog, storage, scan, refs, tracked, sweeping, history, bounds>>

(* Mutant: every listed content file is taken for untracked.               *)
UntrackedAll(e) == e[2] = "file"

(* An ".upload" file is unlinked, and a file the copy of FW_Blob lacks; one*)
(* that is no longer there makes unlink() throw and ends the scan.         *)
Untracked(e) == e[2] = "file" /\ e[1] \notin tracked
SweepEntry(e) ==
    /\ scan = "listing" /\ e \in entries
    /\ IF e[2] = "upload"
       THEN /\ temps' = temps \ {e[1]} /\ UNCHANGED files
            /\ scan' = IF e[1] \in temps THEN scan ELSE "aborted"
       ELSE IF Untracked(e)
       THEN /\ files' = files \ {e[1]} /\ UNCHANGED temps
            /\ scan' = IF e[1] \in files THEN scan ELSE "aborted"
       ELSE UNCHANGED <<scan, storage>>
    /\ entries' = IF scan' = "aborted" THEN {} ELSE entries \ {e}
    /\ UNCHANGED <<outside, catalog, refs, tracked, unread, sweeping, history, bounds>>
EndListing ==
    /\ scan = "listing" /\ entries = {} /\ unread = {} /\ scan' = "stat"
    /\ UNCHANGED <<outside, catalog, storage, refs, tracked, unread, entries, sweeping, history, bounds>>

(* Any error of stat() counts as missing content.                          *)
StatBlob(u) ==
    /\ scan = "stat" /\ u \in tracked /\ tracked' = tracked \ {u}
    /\ \E fault \in Faulty :
          /\ IF u \in files /\ ~fault THEN UNCHANGED catalog
             ELSE /\ attachments' = {a \in attachments : a.blob # u}
                  /\ blobs' = blobs \ {u}
          /\ overtaken' = IF fault THEN overtaken \union {u} ELSE overtaken
          /\ Charge(fault)
    /\ UNCHANGED <<outside, storage, scan, refs, unread, entries, sweeping, dismissed, disowned, orphaned, stray, restarts>>
EndScan ==
    /\ scan = "stat" /\ tracked = {} /\ scan' = "done"
    /\ UNCHANGED <<outside, catalog, storage, refs, tracked, unread, entries, sweeping, history, bounds>>

-----------------------------------------------------------------------------
(* The world around it.                                                    *)

(* A license of the app that owns the table expires.                       *)
Expire ==
    /\ writable /\ writable' = FALSE
    /\ UNCHANGED <<records, known, catalog, storage, pc, acked, unlinking, removal, sweep, history, bounds>>

(* The process dies and starts again: the databases and the files stay; a  *)
(* table whose metadata is rejected at the start is not in the registry.   *)
Reboot ==
    /\ restarts < MaxRestarts /\ restarts' = restarts + 1
    /\ known' \in {Records} \union {Records \ {r} : r \in Records}
    /\ pc' = [u \in Uploads |-> IF u \in Flying THEN "failed" ELSE pc[u]]
    /\ unlinking' = {} /\ removal' = [r \in Records |-> NoRemoval]
    /\ scan' = "starting" /\ refs' = {} /\ tracked' = {} /\ unread' = {} /\ entries' = {}
    /\ sweeping' = {}
    /\ UNCHANGED <<records, writable, blobs, storage, acked, stray>>
Restart ==
    /\ Reboot /\ orphaned' = orphaned \union Unhandled
    /\ UNCHANGED <<attachments, dismissed, disowned, overtaken, faults>>

(* The scan deletes the attachment and its blob row in two statements: the *)
(* process dies between them, or the second throws and ends the scan.      *)
Tear(left, spent) ==
    \/ /\ Reboot /\ faults' = faults + spent
       /\ orphaned' = orphaned \union left \union Unhandled
    \/ /\ scan' = "aborted" /\ faults + spent < MaxFaults /\ faults' = faults + spent + 1
       /\ orphaned' = orphaned \union left
       /\ UNCHANGED <<outside, blobs, storage, refs, tracked, unread, entries, sweeping, stray, restarts>>
TearDangling(a) ==
    /\ scan = "refs" /\ sweeping = {} /\ a \in refs /\ Dangling(a) /\ a.blob # NoBlob
    /\ Drop(a) /\ Tear(BlobsOf({a} \union RowsOf(a.id)) \intersect blobs, 0)
    /\ UNCHANGED overtaken
TearMissing(u) ==
    /\ scan = "stat" /\ u \in tracked
    /\ \E fault \in Faulty :
          /\ u \notin files \/ fault
          /\ attachments' = {a \in attachments : a.blob # u}
          /\ Tear({u} \intersect blobs, IF fault THEN 1 ELSE 0)
          /\ overtaken' = IF fault THEN overtaken \union {u} ELSE overtaken
    /\ UNCHANGED <<dismissed, disowned>>

UploadStep(u) ==
    \/ BeginUpload(u)
    \/ OpenUpload(u)
    \/ OpenStream(u)
    \/ EndStream(u)
    \/ BreakStream(u)
    \/ Recheck(u)
    \/ Merge(u)
    \/ RenameUpload(u)
    \/ CommitUpload(u)
    \/ CleanUpload(u)
RecordStep(r) ==
    \/ DeleteRecord(r)
    \/ CascadeDelete(r)
    \/ UnlinkRemoved(r)
    \/ \E u \in Uploads : NextRemoval(r, u)
    \/ \E n \in Notes : AddNote(n, r)
ScanStep ==
    \/ StartScan
    \/ \E a \in refs : DropDangling(a)
    \/ UnlinkDangling
    \/ StartListing
    \/ \E d \in unread : ReadDirectory(d)
    \/ \E e \in entries : SweepEntry(e)
    \/ EndListing
    \/ \E u \in tracked : StatBlob(u)
    \/ EndScan
Next ==
    \/ \E u \in Uploads : UploadStep(u)
    \/ \E r \in Records : RecordStep(r)
    \/ \E a \in attachments : DeleteAttachment(a)
    \/ \E u \in unlinking : Unlink(u)
    \/ ScanStep
    \/ \E a \in refs : TearDangling(a)
    \/ \E u \in tracked : TearMissing(u)
    \/ Expire
    \/ Restart

Spec == Init /\ [][Next]_vars /\ WF_vars(ScanStep)

-----------------------------------------------------------------------------
(* What the attachments promise.                                           *)

(* The two catalog tables agree: an attachment id has one row, a row with  *)
(* content has its blob row, and a blob row without an attachment is one a *)
(* record's deletion has not come to, or one that a deletion was kept from *)
(* taking along: a record's by a restart (attachments.ts:336-339), the     *)
(* scan's by a restart or an error between its two statements (310-311,    *)
(* 326-327) or by a retry that had replaced the row (310).                 *)
CatalogAgrees ==
    /\ \A a, b \in attachments : a.id = b.id => a = b
    /\ BlobsOf(attachments) \subseteq blobs
    /\ blobs \subseteq BlobsOf(attachments) \union Unhandled \union orphaned

(* Deleting a record over its route takes every attachment it has; rows of *)
(* a record that is gone stem from cascades and from uploads under way.    *)
DeletionTakesAttachments ==
    \A a \in attachments : a.parent \notin records => a.id \in stray

(* The catalog is sound between any two awaits of uploads, deletions and   *)
(* the scan, and after a restart.                                          *)
CatalogIsSound == TypeOK /\ CatalogAgrees /\ DeletionTakesAttachments

(* What was answered 201 is there to download: its row, and the content    *)
(* under the row's storage key, until a client deletes the attachment or   *)
(* its record.  The exceptions are an upload that overlapped the scan's    *)
(* listing or met a failing stat(), and one whose record's table a scan    *)
(* did not find in the registry: its row is dropped although the record    *)
(* exists (attachments.ts:307), and does not come back with the table.     *)
Downloadable(u) ==
    \E a \in RowsOf(AttachmentOf[u]) : a.parent = ParentOf[u] /\ a.blob \in files
Excused(u) ==
    \/ AttachmentOf[u] \in dismissed \union disowned
    \/ \E v \in overtaken : AttachmentOf[v] = AttachmentOf[u]
AcknowledgedIsKept == \A u \in acked : Downloadable(u) \/ Excused(u)

(* After a scan that ran to its end, with nothing on the way and no failed *)
(* unlink, the storage root holds catalogued content only, whatever        *)
(* earlier runs of the server left behind.                                 *)
Quiet == Flying = {} /\ unlinking = {} /\ \A r \in Records : removal[r] = NoRemoval
LeftoversAreSwept == scan = "done" /\ Quiet /\ faults = 0 => temps = {} /\ files \subseteq blobs

(* The scan, once started, comes to an end.                                *)
ScanEnds == <>[](scan \in {"done", "aborted"})

(* The scan is there to "remove interrupted uploads": it takes no file of  *)
(* an upload that is still running or has been answered.                   *)
SweepsOnlyInterrupted ==
    [][entries' # entries =>
          \A u \in (files \ files') \union (temps \ temps') : u \notin Flying \union blobs]_vars
=============================================================================
