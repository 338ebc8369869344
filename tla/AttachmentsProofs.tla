--------------------------- MODULE AttachmentsProofs ---------------------------
(***************************************************************************)
(* The safety of attachments for any records, uploads, retries and notes,  *)
(* and for any number of faults and restarts.                              *)
(***************************************************************************)
EXTENDS Attachments, TLAPS

Removing == UNION {removal[r].left \union removal[r].now : r \in Records}
HasRow(u) == \E a \in attachments : a.id = AttachmentOf[u] /\ a.parent = ParentOf[u]

(* An upload has its ".upload" file while it streams, its content file once*)
(* it is renamed, unless the listing took it; and it is known to have lost *)
(* a record that is gone.                                                  *)
UploadInv ==
    \A u \in Uploads :
        /\ pc[u] \in {"idle", "asked", "opening", "renamed"} => u \notin temps
        /\ u \in files => pc[u] \in {"renamed", "failing", "done", "failed"}
        /\ pc[u] = "renamed" => u \in files \/ u \in overtaken
        /\ u \in Flying /\ ParentOf[u] \notin records => AttachmentOf[u] \in stray

(* A row is that of the upload whose blob it has, which is done; the scan's*)
(* copy never had other rows.                                              *)
RowInv ==
    \A a \in attachments \union refs :
        IF a.blob = NoBlob THEN a.id \in Notes
        ELSE pc[a.blob] = "done" /\ a.id = AttachmentOf[a.blob] /\ a.parent = ParentOf[a.blob]

(* What is about to be unlinked has no row any more, and never will.       *)
GoneInv ==
    /\ \A u \in unlinking \union sweeping \union Removing : pc[u] = "done" /\ u \notin BlobsOf(attachments)
    /\ \A r \in records : removal[r].left = {} /\ removal[r].now = {}

(* A row's content is there, and so is the row of an answered upload.      *)
KeptInv ==
    /\ \A a \in attachments : a.blob # NoBlob => a.blob \in files \/ Excused(a.blob)
    /\ \A u \in Uploads : u \in acked \/ pc[u] = "merging" => HasRow(u) \/ Excused(u)

(* The scan's copy of FW_Blob lacks only what overlapped its listing.      *)
ScanInv == scan = "listing" => Flying \subseteq overtaken /\ blobs \subseteq tracked \union overtaken

(* A file nobody accounts for is one the scan still has to come by.        *)
Ahead(u, kind) ==
    \/ scan \in {"starting", "refs", "aborted"}
    \/ scan = "listing" /\ (DirOf[u] \in unread \/ <<u, kind>> \in entries)
SweptInv ==
    /\ \A u \in temps : u \in Flying \/ Ahead(u, "upload")
    /\ \A u \in files : \/ u \in blobs \union Flying \union unlinking \union Removing
                        \/ faults # 0
                        \/ Ahead(u, "file") /\ (scan = "listing" => u \notin tracked)

IInv == /\ TypeOK /\ UploadInv /\ RowInv /\ CatalogAgrees /\ DeletionTakesAttachments
        /\ GoneInv /\ KeptInv /\ ScanInv /\ SweptInv
-----------------------------------------------------------------------------
LEMMA InvImplies == IInv => CatalogIsSound /\ AcknowledgedIsKept /\ LeftoversAreSwept
  <1> SUFFICES ASSUME IInv PROVE CatalogIsSound /\ AcknowledgedIsKept /\ LeftoversAreSwept
    OBVIOUS
  <1>1. CatalogIsSound
    BY DEF IInv, CatalogIsSound
  <1>2. AcknowledgedIsKept
    <2>1. SUFFICES ASSUME NEW u \in acked, ~Excused(u) PROVE Downloadable(u)
      BY DEF AcknowledgedIsKept
    <2>2. PICK a \in attachments : a.id = AttachmentOf[u] /\ a.parent = ParentOf[u]
      BY <2>1 DEF IInv, TypeOK, KeptInv, HasRow
    <2>3. a.blob # NoBlob /\ AttachmentOf[a.blob] = AttachmentOf[u]
      BY <2>2, UploadsAssumption DEF IInv, TypeOK, RowInv
    <2>4. a.blob \in files
      BY <2>1, <2>3 DEF IInv, KeptInv, Excused
    <2>5. QED
      BY <2>2, <2>4 DEF Downloadable, RowsOf
  <1>3. LeftoversAreSwept
    <2>1. SUFFICES ASSUME scan = "done", Quiet, faults = 0 PROVE temps = {} /\ files \subseteq blobs
      BY DEF LeftoversAreSwept
    <2>2. Removing = {}
      BY <2>1 DEF Removing, Quiet, NoRemoval
    <2>3. QED
      BY <2>1, <2>2 DEF IInv, SweptInv, Ahead, Quiet
  <1>4. QED
    BY <1>1, <1>2, <1>3

LEMMA InitialInv == Init => IInv
  <1> SUFFICES ASSUME Init PROVE IInv
    OBVIOUS
  <1> USE DEF Init
  <1>1. TypeOK
    <2>1. writable \in BOOLEAN
      BY Zenon
    <2>2. 0 \in 0..MaxFaults /\ 0 \in 0..MaxRestarts
      BY BoundsAssumption
    <2>3. QED
      BY <2>1, <2>2 DEF TypeOK, NoRemoval, InFlight
  <1>2. Removing = {} /\ Flying = {}
    BY DEF Removing, NoRemoval, Flying, InFlight
  <1>3. UploadInv /\ RowInv /\ GoneInv /\ KeptInv /\ ScanInv /\ SweptInv
    BY <1>2 DEF UploadInv, RowInv, GoneInv, KeptInv, ScanInv, SweptInv, NoRemoval
  <1>4. CatalogAgrees /\ DeletionTakesAttachments
    BY DEF CatalogAgrees, DeletionTakesAttachments, BlobsOf, Unhandled
  <1>5. QED
    BY <1>1, <1>3, <1>4 DEF IInv
-----------------------------------------------------------------------------
(* The upload routes.                                                      *)

(* A step of an upload that takes nothing but its own files and adds no row*)
OwnStep(u, next) ==
    /\ next \in (InFlight \union {"done", "failed"}) \ {"asked", "renamed"}
    /\ Goto(u, next) /\ UNCHANGED <<others, catalog, history>>
    /\ temps' \subseteq Uploads /\ temps' \ {u} = temps \ {u} /\ (files' = files \/ files' = files \ {u})
    /\ next \notin InFlight => u \notin temps' /\ u \notin files'
    /\ next = "opening" => u \notin temps'
    /\ u \in files' => next = "failing"
    /\ next = "merging" => HasRow(u) \/ Excused(u)
    /\ acked' = acked \/ (acked' = acked \union {u} /\ (HasRow(u) \/ Excused(u)))

LEMMA UploadFrame ==
    ASSUME IInv, NEW u \in Flying, NEW next, OwnStep(u, next)
    PROVE  IInv'
  <1> USE DEF OwnStep, IInv, others, world, catalog, history, sweep, bounds
  <1>0. u \in Uploads /\ pc[u] \in InFlight /\ pc[u] # "done"
    BY DEF Flying, InFlight
  <1>1. /\ pc' \in [Uploads -> InFlight \union {"idle", "done", "failed"}] /\ pc'[u] = next
        /\ \A v \in Uploads \ {u} : pc'[v] = pc[v]
    BY <1>0 DEF TypeOK, Goto
  <1>2. TypeOK'
    BY <1>0, <1>1 DEF TypeOK
  <1>3. Flying' \subseteq Flying /\ Flying \ {u} \subseteq Flying' /\ (next \in InFlight => Flying' = Flying)
    BY <1>0, <1>1 DEF Flying
  <1>4. UploadInv'
    <2>1. \A v \in Uploads \ {u} : (v \in temps' <=> v \in temps) /\ (v \in files' <=> v \in files)
      OBVIOUS
    <2>2. \A v \in Flying' : v \in Flying
      BY <1>3
    <2>3. QED
      BY <1>0, <1>1, <2>1, <2>2 DEF UploadInv, InFlight
  <1>5. RowInv'
    <2>1. \A a \in attachments \union refs : a.blob # NoBlob => a.blob \in Uploads
      BY DEF TypeOK, Rows
    <2>2. QED
      BY <1>0, <1>1, <2>1 DEF RowInv
  <1>6. CatalogAgrees' /\ DeletionTakesAttachments'
    BY DEF CatalogAgrees, DeletionTakesAttachments, BlobsOf, Unhandled
  <1>7. Removing' = Removing /\ BlobsOf(attachments)' = BlobsOf(attachments)
    BY DEF Removing, BlobsOf
  <1>8. Removing \subseteq Uploads
    BY DEF Removing, TypeOK
  <1>9. GoneInv'
    BY <1>0, <1>1, <1>7, <1>8 DEF GoneInv, TypeOK
  <1>10. KeptInv'
    <2>1. \A v \in Uploads \union {NoBlob} : Excused(v)' = Excused(v) /\ HasRow(v)' = HasRow(v)
      BY DEF Excused, HasRow
    <2>2. \A a \in attachments : a.blob # NoBlob => a.blob \in Uploads \ {u}
      BY <1>0 DEF RowInv, TypeOK, Rows
    <2>3. \A a \in attachments : a.blob # NoBlob => a.blob \in files' \/ Excused(a.blob)
      BY <2>2 DEF KeptInv
    <2>4. \A v \in Uploads : v \in acked' \/ pc'[v] = "merging" => HasRow(v) \/ Excused(v)
      BY <1>1 DEF KeptInv
    <2>5. QED
      BY <2>1, <2>2, <2>3, <2>4 DEF KeptInv
  <1>11. ScanInv'
    BY <1>3 DEF ScanInv
  <1>12. SweptInv'
    <2>1. \A v \in Uploads : (Ahead(v, "upload")' <=> Ahead(v, "upload")) /\ (Ahead(v, "file")' <=> Ahead(v, "file"))
      BY DEF Ahead
    <2>2. QED
      BY <1>3, <1>7, <2>1 DEF SweptInv, TypeOK
  <1>13. QED
    BY <1>2, <1>4, <1>5, <1>6, <1>9, <1>10, <1>11, <1>12

LEMMA StreamSteps ==
    ASSUME IInv, NEW u \in Uploads,
           OpenUpload(u) \/ OpenStream(u) \/ EndStream(u) \/ BreakStream(u) \/ Recheck(u) \/ Merge(u) \/ CleanUpload(u)
    PROVE  IInv'
  <1> USE DEF InFlight, Goto, storage, others, world, catalog, history, sweep, bounds
  <1>1. u \in Flying /\ temps \subseteq Uploads /\ (pc[u] # "failing" => u \notin files)
    BY DEF OpenUpload, OpenStream, EndStream, BreakStream, Recheck, Merge, CleanUpload, Flying, IInv, UploadInv,
           TypeOK
  <1>2. CASE OpenUpload(u)
    <2>1. u \notin temps
      BY <1>2 DEF OpenUpload, IInv, UploadInv
    <2>2. PICK next \in {"done", "failed", "opening"} :
              /\ Goto(u, next)
              /\ acked' = acked \/ (acked' = acked \union {u} /\ HasRow(u))
      BY <1>2 DEF OpenUpload, Answer, HasRow, RowsOf
    <2>3. OwnStep(u, next)
      BY <1>1, <1>2, <2>1, <2>2 DEF OpenUpload, OwnStep
    <2>4. QED
      BY <1>1, <2>3, UploadFrame
  <1>3. CASE OpenStream(u)
    <2>1. OwnStep(u, "streaming")
      BY <1>1, <1>3 DEF OpenStream, OwnStep
    <2>2. QED
      BY <1>1, <2>1, UploadFrame
  <1>4. CASE EndStream(u)
    <2>1. OwnStep(u, IF u \in Images THEN "streamed" ELSE "renaming")
      BY <1>1, <1>4 DEF EndStream, OwnStep
    <2>2. QED
      BY <1>1, <2>1, UploadFrame
  <1>5. CASE BreakStream(u)
    <2>1. OwnStep(u, "failing")
      BY <1>1, <1>5 DEF BreakStream, OwnStep
    <2>2. QED
      BY <1>1, <2>1, UploadFrame
  <1>6. CASE Recheck(u)
    <2>1. PICK next \in {"failing", "merging", "renaming"} : Goto(u, next) /\ (next = "merging" => HasRow(u))
      BY <1>6 DEF Recheck, HasRow, RowsOf
    <2>2. OwnStep(u, next)
      BY <1>1, <1>6, <2>1 DEF Recheck, OwnStep
    <2>3. QED
      BY <1>1, <2>2, UploadFrame
  <1>7. CASE Merge(u)
    <2>1. HasRow(u) \/ Excused(u)
      BY <1>7 DEF Merge, IInv, KeptInv
    <2>2. PICK next \in {"done", "failing"} :
              Goto(u, next) /\ (acked' = acked \/ acked' = acked \union {u})
      BY <1>7 DEF Merge
    <2>3. OwnStep(u, next)
      BY <1>1, <1>7, <2>1, <2>2 DEF Merge, OwnStep
    <2>4. QED
      BY <1>1, <2>3, UploadFrame
  <1>8. CASE CleanUpload(u)
    <2>1. OwnStep(u, "failed")
      BY <1>1, <1>8 DEF CleanUpload, OwnStep
    <2>2. QED
      BY <1>1, <2>1, UploadFrame
  <1>9. QED
    BY <1>2, <1>3, <1>4, <1>5, <1>6, <1>7, <1>8

LEMMA BeginUploadStep == ASSUME IInv, NEW u \in Uploads, BeginUpload(u) PROVE IInv'
  <1> USE DEF BeginUpload, IInv, others, world, catalog, storage, sweep, bounds
  <1>1. /\ pc' \in [Uploads -> InFlight \union {"idle", "done", "failed"}] /\ pc'[u] = "asked"
        /\ \A v \in Uploads \ {u} : pc'[v] = pc[v]
        /\ Flying' = Flying \union {u}
    BY DEF TypeOK, Goto, Flying, InFlight
  <1>2. TypeOK'
    BY <1>1 DEF TypeOK
  <1>3. overtaken \subseteq overtaken' /\ (scan = "listing" => u \in overtaken')
    OBVIOUS
  <1>4. UploadInv'
    BY <1>1, <1>3 DEF UploadInv, AssertParent, ReadParent
  <1>5. RowInv' /\ CatalogAgrees' /\ DeletionTakesAttachments'
    <2>1. \A a \in attachments \union refs : a.blob # NoBlob => a.blob \in Uploads
      BY DEF TypeOK, Rows
    <2>2. RowInv'
      BY <1>1, <2>1 DEF RowInv
    <2>3. QED
      BY <1>3, <2>2 DEF CatalogAgrees, DeletionTakesAttachments, BlobsOf, Unhandled
  <1>6. Removing' = Removing /\ BlobsOf(attachments)' = BlobsOf(attachments) /\ Removing \subseteq Uploads
    BY DEF Removing, BlobsOf, TypeOK
  <1>7. GoneInv'
    BY <1>1, <1>6 DEF GoneInv, TypeOK
  <1>8. KeptInv'
    <2>1. \A v : (Excused(v) => Excused(v)') /\ (HasRow(v) => HasRow(v)')
      BY <1>3 DEF Excused, HasRow
    <2>2. QED
      BY <1>1, <2>1 DEF KeptInv
  <1>9. ScanInv'
    BY <1>1, <1>3 DEF ScanInv
  <1>10. SweptInv'
    BY <1>1, <1>6 DEF SweptInv, Ahead
  <1>11. QED
    BY <1>2, <1>4, <1>5, <1>7, <1>8, <1>9, <1>10

LEMMA RenameStep == ASSUME IInv, NEW u \in Uploads, RenameUpload(u) PROVE IInv'
  <1> USE DEF RenameUpload, others, world, catalog, storage, sweep, bounds, history
  <1>1. u \in Flying
    BY DEF Flying, InFlight
  <1>2. CASE u \notin temps
    <2>1. u \notin files /\ temps \subseteq Uploads
      BY DEF IInv, UploadInv, TypeOK
    <2>2. OwnStep(u, "failing")
      BY <1>2, <2>1 DEF OwnStep, InFlight
    <2>3. QED
      BY <1>1, <2>2, UploadFrame
  <1>3. CASE u \in temps
    <2> USE DEF IInv
    <2>1. /\ pc' \in [Uploads -> InFlight \union {"idle", "done", "failed"}] /\ pc'[u] = "renamed"
          /\ \A v \in Uploads \ {u} : pc'[v] = pc[v]
          /\ Flying' = Flying
      BY <1>3 DEF TypeOK, Goto, Flying, InFlight
    <2>2. temps' = temps \ {u} /\ files' = files \union {u}
      BY <1>3
    <2>3. TypeOK'
      BY <2>1, <2>2 DEF TypeOK
    <2>4. UploadInv'
      BY <2>1, <2>2 DEF UploadInv
    <2>5. RowInv' /\ CatalogAgrees' /\ DeletionTakesAttachments'
      <3>1. \A a \in attachments \union refs : a.blob # NoBlob => a.blob \in Uploads
        BY DEF TypeOK, Rows
      <3>2. RowInv'
        BY <2>1, <3>1 DEF RowInv
      <3>3. QED
        BY <3>2 DEF CatalogAgrees, DeletionTakesAttachments, BlobsOf, Unhandled
    <2>6. Removing' = Removing /\ BlobsOf(attachments)' = BlobsOf(attachments) /\ Removing \subseteq Uploads
      BY DEF Removing, BlobsOf, TypeOK
    <2>7. GoneInv'
      BY <2>1, <2>6 DEF GoneInv, TypeOK
    <2>8. KeptInv'
      <3>1. \A v : (Excused(v) => Excused(v)') /\ (HasRow(v) => HasRow(v)')
        BY DEF Excused, HasRow
      <3>2. QED
        BY <2>1, <2>2, <3>1 DEF KeptInv
    <2>9. ScanInv'
      BY <2>1 DEF ScanInv
    <2>10. SweptInv'
      BY <1>1, <2>1, <2>2, <2>6 DEF SweptInv, Ahead
    <2>11. QED
      BY <2>3, <2>4, <2>5, <2>7, <2>8, <2>9, <2>10
  <1>4. QED
    BY <1>2, <1>3

LEMMA CommitStep == ASSUME IInv, NEW u \in Uploads, CommitUpload(u) PROVE IInv'
  <1> USE DEF CommitUpload, others, world, storage, sweep, bounds, history
  <1>1. u \in Flying /\ pc[u] = "renamed"
    BY DEF Flying, InFlight
  <1>2. CASE ~(RowsOf(AttachmentOf[u]) = {} /\ writable)
    <2>1. temps \subseteq Uploads
      BY DEF IInv, TypeOK
    <2>2. OwnStep(u, "failing")
      BY <1>2, <2>1 DEF OwnStep, InFlight
    <2>3. QED
      BY <1>1, <2>2, UploadFrame
  <1>3. CASE RowsOf(AttachmentOf[u]) = {} /\ writable
    <2> USE DEF IInv
    <2> DEFINE row == [id |-> AttachmentOf[u], parent |-> ParentOf[u], blob |-> u]
    <2>1. /\ pc' \in [Uploads -> InFlight \union {"idle", "done", "failed"}] /\ pc'[u] = "done"
          /\ \A v \in Uploads \ {u} : pc'[v] = pc[v]
          /\ Flying' = Flying \ {u}
      BY <1>3 DEF TypeOK, Goto, Flying, InFlight
    <2>2. blobs' = blobs \union {u} /\ attachments' = attachments \union {row} /\ acked' = acked \union {u}
      BY <1>3
    <2>3. /\ row \in Rows /\ u # NoBlob
          /\ row.id = AttachmentOf[u] /\ row.parent = ParentOf[u] /\ row.blob = u
      BY UploadsAssumption DEF Rows, Ids
    <2> HIDE DEF row
    <2>4. TypeOK'
      BY <2>1, <2>2, <2>3 DEF TypeOK
    <2>5. UploadInv'
      BY <2>1 DEF UploadInv, InFlight
    <2>6. \A a \in attachments \union refs : a.blob # NoBlob => a.blob \in Uploads \ {u}
      BY <1>1 DEF TypeOK, Rows, RowInv
    <2>7. RowInv'
      BY <2>1, <2>2, <2>3, <2>6 DEF RowInv
    <2>8. BlobsOf(attachments)' = BlobsOf(attachments) \union {u}
      BY <2>2, <2>3 DEF BlobsOf
    <2>9. CatalogAgrees'
      <3>1. \A a, b \in attachments' : a.id = b.id => a = b
        BY <1>3, <2>2, <2>3 DEF CatalogAgrees, RowsOf
      <3>2. BlobsOf(attachments') = BlobsOf(attachments) \union {u}
        BY <2>8
      <3>3. Unhandled' = Unhandled /\ orphaned' = orphaned
        BY DEF Unhandled
      <3>4. BlobsOf(attachments') \subseteq blobs'
        BY <2>2, <3>2 DEF CatalogAgrees
      <3>5. blobs' \subseteq BlobsOf(attachments') \union Unhandled \union orphaned
        BY <2>2, <3>2 DEF CatalogAgrees
      <3>6. QED
        BY <3>1, <3>3, <3>4, <3>5 DEF CatalogAgrees
    <2>10. DeletionTakesAttachments'
      BY <1>1, <2>2, <2>3 DEF DeletionTakesAttachments, UploadInv
    <2>11. Removing' = Removing /\ Removing \subseteq Uploads
      BY DEF Removing, TypeOK
    <2>12. GoneInv'
      BY <1>1, <2>1, <2>8, <2>11 DEF GoneInv, TypeOK
    <2>13. KeptInv'
      <3>1. \A v : (Excused(v) => Excused(v)') /\ (HasRow(v) => HasRow(v)')
        BY <2>2 DEF Excused, HasRow
      <3>2. u \in files \/ Excused(u)
        BY <1>1 DEF UploadInv, Excused
      <3>3. HasRow(u)'
        BY <2>2, <2>3 DEF HasRow
      <3>4. QED
        BY <2>1, <2>2, <2>3, <3>1, <3>2, <3>3 DEF KeptInv
    <2>14. ScanInv'
      BY <1>1, <2>1, <2>2 DEF ScanInv
    <2>15. SweptInv'
      <3>1. u \notin temps
        BY <1>1 DEF UploadInv
      <3>2. QED
        BY <1>1, <2>1, <2>2, <2>11, <3>1 DEF SweptInv, Ahead
    <2>16. QED
      BY <2>4, <2>5, <2>7, <2>9, <2>10, <2>12, <2>13, <2>14, <2>15
  <1>4. QED
    BY <1>2, <1>3
-----------------------------------------------------------------------------
(* Notes, deletions and the unlinking that follows them.                   *)

LEMMA AddNoteStep == ASSUME IInv, NEW n \in Notes, NEW r \in Records, AddNote(n, r) PROVE IInv'
  <1> USE DEF AddNote, IInv, others, world, storage, sweep, bounds, history
  <1> DEFINE row == [id |-> n, parent |-> r, blob |-> NoBlob]
  <1>1. attachments' = attachments \union {row}
    OBVIOUS
  <1>2. row \in Rows /\ row.id = n /\ row.parent = r /\ row.blob = NoBlob
    BY DEF Rows, Ids
  <1> HIDE DEF row
  <1>3. BlobsOf(attachments') = BlobsOf(attachments)
    BY <1>1, <1>2 DEF BlobsOf
  <1>4. Removing' = Removing /\ Flying' = Flying
    BY DEF Removing, Flying
  <1>5. TypeOK'
    BY <1>1, <1>2 DEF TypeOK
  <1>6. UploadInv' /\ ScanInv' /\ SweptInv'
    BY <1>4 DEF UploadInv, ScanInv, SweptInv, Ahead
  <1>7. RowInv'
    BY <1>1, <1>2 DEF RowInv
  <1>8. CatalogAgrees'
    <2>1. \A a, b \in attachments' : a.id = b.id => a = b
      BY <1>1, <1>2 DEF CatalogAgrees, RowsOf
    <2>2. UNCHANGED <<blobs, orphaned>> /\ Unhandled' = Unhandled
      BY DEF Unhandled
    <2>3. QED
      BY <1>3, <2>1, <2>2 DEF CatalogAgrees
  <1>9. DeletionTakesAttachments'
    BY <1>1, <1>2 DEF DeletionTakesAttachments, AssertParent, ReadParent
  <1>10. GoneInv'
    BY <1>3, <1>4 DEF GoneInv
  <1>11. KeptInv'
    <2>1. \A v : (Excused(v) => Excused(v)') /\ (HasRow(v) => HasRow(v)')
      BY <1>1 DEF Excused, HasRow
    <2>2. QED
      BY <1>1, <1>2, <2>1 DEF KeptInv
  <1>12. QED
    BY <1>5, <1>6, <1>7, <1>8, <1>9, <1>10, <1>11

(* Rows that go away, with their ids dismissed or disowned or their blobs  *)
(* overtaken, cannot break what is said of each row.                       *)
LEMMA FewerRowsLater ==
    ASSUME IInv, attachments' \subseteq attachments, files' = files, acked' = acked,
           \A u \in Uploads : /\ pc[u] = "done" => pc'[u] = "done"
                              /\ pc'[u] = "merging" => pc[u] = "merging",
           refs' \subseteq attachments \union refs,
           dismissed \union disowned \subseteq dismissed' \union disowned', overtaken \subseteq overtaken',
           \A a \in attachments \ attachments' :
               \/ a.id \in dismissed' \union disowned'
               \/ a.blob # NoBlob /\ (a.blob \in overtaken' \/ a.blob \notin files)
    PROVE  RowInv' /\ KeptInv'
  <1> USE DEF IInv
  <1>1. RowInv'
    <2>1. SUFFICES ASSUME NEW a \in attachments' \union refs'
                   PROVE  IF a.blob = NoBlob THEN a.id \in Notes
                          ELSE /\ pc'[a.blob] = "done" /\ a.id = AttachmentOf[a.blob]
                               /\ a.parent = ParentOf[a.blob]
      BY DEF RowInv
    <2>2. a \in attachments \union refs /\ (a.blob # NoBlob => a.blob \in Uploads)
      BY <2>1 DEF TypeOK, Rows
    <2>3. IF a.blob = NoBlob THEN a.id \in Notes
          ELSE pc[a.blob] = "done" /\ a.id = AttachmentOf[a.blob] /\ a.parent = ParentOf[a.blob]
      BY <2>2 DEF RowInv
    <2>4. CASE a.blob # NoBlob
      <3>1. a.blob \in Uploads /\ pc[a.blob] = "done"
        BY <2>2, <2>3, <2>4
      <3>2. pc'[a.blob] = "done"
        BY <3>1, Zenon
      <3>3. QED
        BY <2>3, <2>4, <3>2
    <2>5. QED
      BY <2>3, <2>4
  <1>2. KeptInv'
    <2>1. \A v : Excused(v) => Excused(v)'
      BY DEF Excused
    <2>2. ASSUME NEW u \in Uploads, HasRow(u), ~HasRow(u)' PROVE Excused(u)'
      <3>1. PICK a \in attachments : a.id = AttachmentOf[u] /\ a.parent = ParentOf[u]
        BY <2>2 DEF HasRow
      <3>2. a \notin attachments'
        BY <2>2, <3>1 DEF HasRow
      <3>3. a.blob # NoBlob => AttachmentOf[a.blob] = AttachmentOf[u]
        BY <3>1 DEF RowInv
      <3>4. \/ a.id \in dismissed' \union disowned'
            \/ a.blob # NoBlob /\ (a.blob \in overtaken' \/ Excused(a.blob))
        BY <3>1, <3>2 DEF KeptInv
      <3>5. QED
        BY <3>1, <3>3, <3>4 DEF Excused
    <2>3. \A a \in attachments' : a.blob # NoBlob => a.blob \in files' \/ Excused(a.blob)'
      BY <2>1 DEF KeptInv
    <2>4. \A u \in Uploads : u \in acked' \/ pc'[u] = "merging" => HasRow(u) \/ Excused(u)
      BY Zenon DEF KeptInv
    <2>5. ASSUME NEW u \in Uploads, u \in acked' \/ pc'[u] = "merging"
          PROVE  HasRow(u)' \/ Excused(u)'
      <3>1. u \in acked' \/ pc'[u] = "merging"
        BY <2>5
      <3>2. HasRow(u) \/ Excused(u)
        BY <2>4, <3>1, Zenon
      <3>3. QED
        BY <2>1, <2>2, <3>2
    <2>6. QED
      BY <2>3, <2>5 DEF KeptInv
  <1>3. QED
    BY <1>1, <1>2

LEMMA FewerRows ==
    ASSUME IInv, attachments' \subseteq attachments, pc' = pc, files' = files, acked' = acked,
           refs' \subseteq attachments \union refs,
           dismissed \union disowned \subseteq dismissed' \union disowned', overtaken \subseteq overtaken',
           \A a \in attachments \ attachments' :
               \/ a.id \in dismissed' \union disowned'
               \/ a.blob # NoBlob /\ (a.blob \in overtaken' \/ a.blob \notin files)
    PROVE  RowInv' /\ KeptInv'
  BY FewerRowsLater

LEMMA DeleteStep == ASSUME IInv, NEW a \in attachments, DeleteAttachment(a) PROVE IInv'
  <1> USE DEF DeleteAttachment, IInv, world, storage, sweep, bounds
  <1>1. a \in Rows /\ (a.blob # NoBlob => a.blob \in Uploads /\ pc[a.blob] = "done")
    BY DEF TypeOK, Rows, RowInv
  <1>2. BlobsOf({a}) = {a.blob} \ {NoBlob} /\ BlobsOf(attachments') \subseteq BlobsOf(attachments)
    BY DEF BlobsOf
  <1>3. a.blob \notin BlobsOf(attachments')
    <2>1. \A b \in attachments : a.blob # NoBlob /\ b.blob = a.blob => b = a
      BY DEF RowInv, CatalogAgrees
    <2>2. QED
      BY <2>1 DEF BlobsOf
  <1>4. blobs' = blobs \ {a.blob} /\ BlobsOf(attachments) \ {a.blob} \subseteq BlobsOf(attachments')
    BY <1>3 DEF DropBlob, BlobsOf
  <1>5. unlinking' = unlinking \union (({a.blob} \ {NoBlob}) \intersect blobs)
    BY <1>2
  <1>6. TypeOK'
    BY <1>1, <1>4, <1>5 DEF TypeOK, Rows
  <1>7. Removing' = Removing /\ Flying' = Flying
    BY DEF Removing, Flying
  <1>8. UploadInv' /\ ScanInv' /\ DeletionTakesAttachments'
    BY <1>4, <1>7 DEF UploadInv, ScanInv, DeletionTakesAttachments
  <1>9. CatalogAgrees'
    <2>1. Unhandled' = Unhandled /\ orphaned' = orphaned
      BY DEF Unhandled
    <2>2. BlobsOf(attachments') \subseteq blobs'
      BY <1>2, <1>3, <1>4 DEF CatalogAgrees
    <2>3. QED
      BY <1>4, <2>1, <2>2 DEF CatalogAgrees
  <1>10. GoneInv'
    BY <1>1, <1>2, <1>3, <1>5, <1>7 DEF GoneInv
  <1>11. RowInv' /\ KeptInv'
    BY FewerRows
  <1>12. SweptInv'
    <2>1. NoBlob \notin files
      BY UploadsAssumption DEF TypeOK
    <2>2. QED
      BY <1>4, <1>5, <1>7, <2>1 DEF SweptInv, Ahead
  <1>13. QED
    BY <1>6, <1>8, <1>9, <1>10, <1>11, <1>12

(* Unlinking files whose rows are gone.                                    *)
UnlinkSome(S) ==
    /\ S \subseteq unlinking \union sweeping \union Removing
    /\ UNCHANGED <<world, catalog, temps, pc, acked, scan, refs, tracked, unread, entries, history, restarts>>
    /\ \/ files' = files \ S /\ faults' = faults
       \/ files' = files /\ faults' = faults + 1 /\ faults < MaxFaults
    /\ unlinking' \subseteq unlinking /\ sweeping' \subseteq sweeping
    /\ removal' \in [Records -> [left : SUBSET Uploads, now : SUBSET Uploads]]
    /\ \A r \in Records : removal'[r].left = removal[r].left /\ removal'[r].now \subseteq removal[r].now
    /\ (unlinking \union Removing) \ S \subseteq unlinking' \union Removing'

LEMMA UnlinkFrame == ASSUME IInv, NEW S, UnlinkSome(S) PROVE IInv'
  <1> USE DEF UnlinkSome, IInv, world, catalog, history
  <1>1. Flying' = Flying /\ BlobsOf(attachments)' = BlobsOf(attachments)
    BY DEF Flying, BlobsOf
  <1>2. Removing' \subseteq Removing
    BY DEF Removing
  <1>3. TypeOK'
    <2>1. faults' \in 0..MaxFaults
      BY BoundsAssumption DEF TypeOK
    <2>2. files' \subseteq files
      OBVIOUS
    <2>3. QED
      BY <2>1, <2>2 DEF TypeOK
  <1>4. \A u \in S : pc[u] = "done" /\ u \notin BlobsOf(attachments)
    BY DEF GoneInv
  <1>5. UploadInv'
    BY <1>1, <1>4 DEF UploadInv
  <1>6. RowInv' /\ ScanInv' /\ DeletionTakesAttachments'
    BY <1>1 DEF RowInv, ScanInv, DeletionTakesAttachments
  <1>7. CatalogAgrees'
    <2>1. Unhandled' = Unhandled
      BY DEF Unhandled
    <2>2. QED
      BY <1>1, <2>1 DEF CatalogAgrees
  <1>8. GoneInv'
    <2>1. records \subseteq Records
      BY DEF TypeOK
    <2>2. QED
      BY <1>1, <1>2, <2>1 DEF GoneInv
  <1>9. KeptInv'
    <2>1. \A v : (Excused(v) => Excused(v)') /\ (HasRow(v) => HasRow(v)')
      BY DEF Excused, HasRow
    <2>2. \A a \in attachments : a.blob # NoBlob => a.blob \notin S
      BY <1>4 DEF BlobsOf
    <2>3. QED
      BY <2>1, <2>2 DEF KeptInv
  <1>10. SweptInv'
    <2>1. faults' = faults \/ faults' # 0
      BY DEF TypeOK
    <2>2. QED
      BY <1>1, <2>1 DEF SweptInv, Ahead
  <1>11. QED
    BY <1>3, <1>5, <1>6, <1>7, <1>8, <1>9, <1>10

LEMMA UnlinkSteps ==
    ASSUME IInv, \/ \E u \in unlinking : Unlink(u)
                 \/ \E r \in Records : UnlinkRemoved(r)
                 \/ UnlinkDangling
    PROVE  IInv'
  <1> USE DEF Faulty, Charge, IInv, outside, world, catalog, sweep, history, bounds
  <1>1. CASE \E u \in unlinking : Unlink(u)
    <2>1. PICK u \in unlinking : Unlink(u)
      BY <1>1
    <2>2. Removing' = Removing
      BY <2>1 DEF Unlink, Removing
    <2>3. UnlinkSome({u})
      BY <2>1, <2>2 DEF Unlink, UnlinkSome, TypeOK
    <2>4. QED
      BY <2>3, UnlinkFrame
  <1>2. CASE \E r \in Records : UnlinkRemoved(r)
    <2>1. PICK r \in Records : UnlinkRemoved(r)
      BY <1>2
    <2>2. /\ removal[r] \in [left : SUBSET Uploads, now : SUBSET Uploads]
          /\ removal \in [Records -> [left : SUBSET Uploads, now : SUBSET Uploads]]
      BY DEF TypeOK
    <2>3. /\ [removal[r] EXCEPT !.now = {}] \in [left : SUBSET Uploads, now : SUBSET Uploads]
          /\ [removal[r] EXCEPT !.now = {}].left = removal[r].left
          /\ [removal[r] EXCEPT !.now = {}].now = {}
      BY <2>2
    <2>4. /\ removal' \in [Records -> [left : SUBSET Uploads, now : SUBSET Uploads]]
          /\ removal'[r].left = removal[r].left /\ removal'[r].now = {}
          /\ \A q \in Records \ {r} : removal'[q] = removal[q]
      BY <2>1, <2>2, <2>3 DEF UnlinkRemoved
    <2>5. removal[r].now \subseteq Removing /\ Removing \ removal[r].now \subseteq Removing'
      BY <2>4 DEF Removing
    <2>6. UnlinkSome(removal[r].now)
      BY <2>1, <2>4, <2>5 DEF UnlinkRemoved, UnlinkSome
    <2>7. QED
      BY <2>6, UnlinkFrame
  <1>3. CASE UnlinkDangling
    <2>1. Removing' = Removing
      BY <1>3 DEF UnlinkDangling, Removing
    <2>2. UnlinkSome(sweeping)
      BY <1>3, <2>1 DEF UnlinkDangling, UnlinkSome, TypeOK
    <2>3. QED
      BY <2>2, UnlinkFrame
  <1>4. QED
    BY <1>1, <1>2, <1>3

LEMMA DeleteRecordStep == ASSUME IInv, NEW r \in Records, DeleteRecord(r) PROVE IInv'
  <1> USE DEF DeleteRecord, IInv, storage, sweep, bounds
  <1> DEFINE gone == BlobsOf(ChildrenOf(r))
  <1>1. r \in records /\ removal[r].left = {} /\ removal[r].now = {}
    BY DEF AssertParent, ReadParent, GoneInv
  <1>2. gone \subseteq Uploads /\ gone \subseteq BlobsOf(attachments) /\ \A u \in gone : pc[u] = "done"
    BY DEF BlobsOf, ChildrenOf, TypeOK, Rows, RowInv
  <1>3. /\ BlobsOf(attachments') \subseteq BlobsOf(attachments) \ gone
        /\ BlobsOf(attachments) \ gone \subseteq BlobsOf(attachments')
    <2>1. \A a, b \in attachments : a.blob # NoBlob /\ b.blob = a.blob => b = a
      BY DEF RowInv, CatalogAgrees
    <2>2. QED
      BY <2>1 DEF BlobsOf, ChildrenOf
  <1>4. /\ removal' \in [Records -> [left : SUBSET Uploads, now : SUBSET Uploads]]
        /\ removal'[r].left = gone /\ removal'[r].now = {}
        /\ \A q \in Records \ {r} : removal'[q] = removal[q]
    <2>1. /\ removal[r] \in [left : SUBSET Uploads, now : SUBSET Uploads]
          /\ removal \in [Records -> [left : SUBSET Uploads, now : SUBSET Uploads]]
      BY DEF TypeOK
    <2>2. /\ [removal[r] EXCEPT !.left = gone] \in [left : SUBSET Uploads, now : SUBSET Uploads]
          /\ [removal[r] EXCEPT !.left = gone].left = gone /\ [removal[r] EXCEPT !.left = gone].now = {}
      BY <1>1, <1>2, <2>1
    <2>3. QED
      BY <2>1, <2>2
  <1>5. Removing' = Removing \union gone /\ Unhandled' = Unhandled \union gone /\ Flying' = Flying
    BY <1>1, <1>4 DEF Removing, Unhandled, Flying
  <1> HIDE DEF gone
  <1>6. TypeOK'
    BY <1>4 DEF TypeOK, ChildrenOf, Rows, FlyingTo, Ids, Flying
  <1>7. UploadInv' /\ DeletionTakesAttachments'
    BY <1>5 DEF UploadInv, DeletionTakesAttachments, ChildrenOf, FlyingTo
  <1>8. CatalogAgrees'
    BY <1>3, <1>5 DEF CatalogAgrees
  <1>9. GoneInv'
    <2>1. records \subseteq Records
      BY DEF TypeOK
    <2>2. QED
      BY <1>2, <1>3, <1>4, <1>5, <2>1 DEF GoneInv
  <1>10. RowInv' /\ KeptInv'
    BY FewerRows DEF ChildrenOf
  <1>11. ScanInv' /\ SweptInv'
    BY <1>5 DEF ScanInv, SweptInv, Ahead
  <1>12. QED
    BY <1>6, <1>7, <1>8, <1>9, <1>10, <1>11

LEMMA NextRemovalStep ==
    ASSUME IInv, NEW r \in Records, NEW u \in Uploads, NextRemoval(r, u) PROVE IInv'
  <1> USE DEF NextRemoval, IInv, world, storage, sweep, history, bounds
  <1>1. r \notin records /\ u \in Removing
    BY DEF GoneInv, Removing
  <1>2. blobs' = blobs \ {u} /\ u \notin BlobsOf(attachments)
    BY <1>1 DEF GoneInv, DropBlob
  <1>3. /\ removal' \in [Records -> [left : SUBSET Uploads, now : SUBSET Uploads]]
        /\ removal'[r].left = removal[r].left \ {u} /\ removal'[r].now = {u}
        /\ \A q \in Records \ {r} : removal'[q] = removal[q]
    <2>1. /\ removal[r].left \in SUBSET Uploads
          /\ removal \in [Records -> [left : SUBSET Uploads, now : SUBSET Uploads]]
      BY DEF TypeOK
    <2>2. removal'[r] = [left |-> removal[r].left \ {u}, now |-> {u}]
      BY <2>1
    <2>3. removal'[r] \in [left : SUBSET Uploads, now : SUBSET Uploads]
      BY <2>1, <2>2
    <2>4. QED
      BY <2>1, <2>2, <2>3
  <1>4. Removing' = Removing /\ Unhandled \ {u} \subseteq Unhandled' /\ Flying' = Flying
    BY <1>3 DEF Removing, Unhandled, Flying
  <1>5. TypeOK'
    BY <1>2, <1>3 DEF TypeOK
  <1>6. UploadInv' /\ ScanInv' /\ DeletionTakesAttachments'
    BY <1>2, <1>4 DEF UploadInv, ScanInv, DeletionTakesAttachments
  <1>7. BlobsOf(attachments') = BlobsOf(attachments)
    OBVIOUS
  <1>8. CatalogAgrees'
    BY <1>2, <1>4, <1>7 DEF CatalogAgrees
  <1>9. GoneInv'
    <2>1. records \subseteq Records
      BY DEF TypeOK
    <2>2. QED
      BY <1>1, <1>3, <1>4, <1>7, <2>1 DEF GoneInv
  <1>10. RowInv' /\ KeptInv'
    BY FewerRows
  <1>11. SweptInv'
    BY <1>1, <1>2, <1>4 DEF SweptInv, Ahead
  <1>12. QED
    BY <1>5, <1>6, <1>8, <1>9, <1>10, <1>11

LEMMA CascadeStep == ASSUME IInv, NEW r \in Records, CascadeDelete(r) PROVE IInv'
  <1> USE DEF CascadeDelete, IInv, catalog, storage, sweep, bounds
  <1>1. Removing' = Removing /\ Unhandled' = Unhandled /\ Flying' = Flying
        /\ BlobsOf(attachments)' = BlobsOf(attachments)
    BY DEF Removing, Unhandled, Flying, BlobsOf
  <1>2. TypeOK'
    BY DEF TypeOK, ChildrenOf, Rows, FlyingTo, Ids, Flying
  <1>3. UploadInv' /\ DeletionTakesAttachments'
    BY <1>1 DEF UploadInv, DeletionTakesAttachments, ChildrenOf, FlyingTo
  <1>4. CatalogAgrees' /\ GoneInv' /\ ScanInv' /\ SweptInv'
    BY <1>1 DEF CatalogAgrees, GoneInv, ScanInv, SweptInv, Ahead
  <1>5. RowInv' /\ KeptInv'
    BY FewerRows
  <1>6. QED
    BY <1>2, <1>3, <1>4, <1>5
-----------------------------------------------------------------------------
(* The recovery scan.                                                      *)

(* A step that only moves the scan's own cursors.                          *)
LEMMA ScanFrame ==
    ASSUME IInv, UNCHANGED <<outside, catalog, storage, sweeping, dismissed, disowned, orphaned, stray, bounds>>,
           refs' \subseteq attachments \union refs, overtaken \subseteq overtaken',
           TypeOK', ScanInv', SweptInv'
    PROVE  IInv'
  <1> USE DEF IInv, outside, world, catalog, storage, bounds
  <1>1. Removing' = Removing /\ Unhandled' = Unhandled /\ Flying' = Flying
        /\ BlobsOf(attachments)' = BlobsOf(attachments)
    BY DEF Removing, Unhandled, Flying, BlobsOf
  <1>2. UploadInv' /\ DeletionTakesAttachments' /\ CatalogAgrees' /\ GoneInv'
    BY <1>1 DEF UploadInv, DeletionTakesAttachments, CatalogAgrees, GoneInv
  <1>3. RowInv' /\ KeptInv'
    BY FewerRows
  <1>4. QED
    BY <1>2, <1>3

LEMMA CursorSteps ==
    ASSUME IInv, \/ StartScan \/ StartListing \/ EndListing \/ EndScan
                 \/ \E d \in unread : ReadDirectory(d)
    PROVE  IInv'
  <1> USE DEF outside, world, catalog, storage, history, bounds
  <1>1. Removing' = Removing /\ Flying' = Flying
    BY DEF Removing, Flying, StartScan, StartListing, EndListing, EndScan, ReadDirectory
  <1>2. CASE StartScan
    <2>1. TypeOK' /\ ScanInv' /\ SweptInv'
      BY <1>1, <1>2 DEF StartScan, IInv, TypeOK, ScanInv, SweptInv, Ahead
    <2>2. QED
      BY <1>2, <2>1, ScanFrame DEF StartScan
  <1>3. CASE StartListing
    <2>1. TypeOK'
      BY <1>3 DEF StartListing, IInv, TypeOK, Flying
    <2>2. ScanInv'
      BY <1>1, <1>3 DEF StartListing, ScanInv
    <2>3. SweptInv'
      BY <1>1, <1>3 DEF StartListing, IInv, TypeOK, SweptInv, Ahead
    <2>4. QED
      BY <1>3, <2>1, <2>2, <2>3, ScanFrame DEF StartListing
  <1>4. CASE \E d \in unread : ReadDirectory(d)
    <2>1. PICK d \in unread : ReadDirectory(d)
      BY <1>4
    <2>2. TypeOK'
      BY <2>1 DEF ReadDirectory, IInv, TypeOK
    <2>3. ScanInv'
      BY <1>1, <2>1 DEF ReadDirectory, IInv, ScanInv
    <2>4. SweptInv'
      BY <1>1, <2>1 DEF ReadDirectory, IInv, TypeOK, SweptInv, Ahead
    <2>5. QED
      BY <2>1, <2>2, <2>3, <2>4, ScanFrame DEF ReadDirectory
  <1>5. CASE EndListing
    <2>1. TypeOK' /\ ScanInv' /\ SweptInv'
      BY <1>1, <1>5 DEF EndListing, IInv, TypeOK, ScanInv, SweptInv, Ahead
    <2>2. QED
      BY <1>5, <2>1, ScanFrame DEF EndListing
  <1>6. CASE EndScan
    <2>1. TypeOK' /\ ScanInv' /\ SweptInv'
      BY <1>1, <1>6 DEF EndScan, IInv, TypeOK, ScanInv, SweptInv, Ahead
    <2>2. QED
      BY <1>6, <2>1, ScanFrame DEF EndScan
  <1>7. QED
    BY <1>2, <1>3, <1>4, <1>5, <1>6

(* The scan drops rows by a copy that may be stale.                        *)
LEMMA DropDanglingStep == ASSUME IInv, NEW a \in refs, DropDangling(a) PROVE IInv'
  <1> USE DEF DropDangling, Drop, IInv, outside, world, storage, bounds
  <1>1. a \in Rows /\ (a.blob # NoBlob => a.blob \in Uploads /\ pc[a.blob] = "done" /\ a.id = AttachmentOf[a.blob])
    BY DEF TypeOK, Rows, RowInv
  <1>2. BlobsOf({a}) = {a.blob} \ {NoBlob} /\ BlobsOf(attachments') \subseteq BlobsOf(attachments)
    BY DEF BlobsOf
  <1>3. a.blob \notin BlobsOf(attachments')
    <2>1. \A b \in attachments : a.blob # NoBlob /\ b.blob = a.blob => b.id = a.id
      BY <1>1 DEF RowInv
    <2>2. QED
      BY <2>1 DEF BlobsOf, RowsOf
  <1>4. blobs' = blobs \ {a.blob}
    BY <1>3 DEF DropBlob
  <1>5. Removing' = Removing /\ Unhandled' = Unhandled /\ Flying' = Flying
    BY DEF Removing, Unhandled, Flying
  <1>6. sweeping' = ({a.blob} \ {NoBlob}) \intersect blobs
    BY <1>2
  <1>7. BlobsOf(RowsOf(a.id)) \subseteq Uploads
    BY DEF BlobsOf, RowsOf, TypeOK, Rows
  <1>8. /\ refs' \subseteq refs /\ overtaken' = overtaken
        /\ dismissed' \subseteq dismissed \union {a.id} /\ disowned' \subseteq disowned \union {a.id}
        /\ dismissed' \union disowned' = dismissed \union disowned \union {a.id}
    OBVIOUS
  <1>9. TypeOK'
    BY <1>1, <1>4, <1>6, <1>7, <1>8 DEF TypeOK, Rows
  <1>10. UploadInv' /\ DeletionTakesAttachments' /\ ScanInv'
    BY <1>5, <1>8 DEF UploadInv, DeletionTakesAttachments, ScanInv
  <1>11. CatalogAgrees'
    <2>1. \A x \in BlobsOf(attachments) : x \in BlobsOf(attachments') \/ x \in BlobsOf(RowsOf(a.id))
      BY DEF BlobsOf, RowsOf
    <2>2. BlobsOf(attachments') \subseteq blobs'
      BY <1>2, <1>3, <1>4 DEF CatalogAgrees
    <2>3. blobs' \subseteq BlobsOf(attachments') \union Unhandled' \union orphaned'
      BY <1>4, <1>5, <2>1 DEF CatalogAgrees
    <2>4. QED
      BY <2>2, <2>3 DEF CatalogAgrees
  <1>12. GoneInv'
    BY <1>1, <1>2, <1>3, <1>5, <1>6 DEF GoneInv
  <1>13. RowInv' /\ KeptInv'
    BY <1>8, FewerRows DEF RowsOf
  <1>14. SweptInv'
    BY <1>5 DEF SweptInv, Ahead
  <1>15. QED
    BY <1>9, <1>10, <1>11, <1>12, <1>13, <1>14

(* What the listing unlinks has no row, or was overtaken.                  *)
LEMMA SweepEntryStep == ASSUME IInv, NEW e \in entries, SweepEntry(e) PROVE IInv'
  <1> USE DEF SweepEntry, IInv, outside, world, catalog, storage, history, bounds
  <1>1. e = <<e[1], e[2]>> /\ e[1] \in Uploads /\ e[2] \in {"file", "upload"}
    BY DEF TypeOK
  <1>2. /\ temps' \subseteq temps /\ files' \subseteq files /\ entries' \subseteq entries
        /\ scan' \in {"listing", "aborted"}
    OBVIOUS
  <1>3. \A u \in files \ files' : u \notin tracked
    BY DEF Untracked
  <1>4. Removing' = Removing /\ Unhandled' = Unhandled /\ Flying' = Flying
        /\ BlobsOf(attachments)' = BlobsOf(attachments)
    BY DEF Removing, Unhandled, Flying, BlobsOf
  <1>5. TypeOK'
    BY <1>2 DEF TypeOK
  <1>6. UploadInv'
    <2>1. \A u \in Uploads : pc[u] = "renamed" => u \in overtaken
      BY DEF ScanInv, Flying, InFlight
    <2>2. QED
      BY <1>2, <1>4, <2>1 DEF UploadInv
  <1>7. RowInv' /\ CatalogAgrees' /\ DeletionTakesAttachments' /\ GoneInv' /\ ScanInv'
    BY <1>2, <1>4 DEF RowInv, CatalogAgrees, DeletionTakesAttachments, GoneInv, ScanInv
  <1>8. KeptInv'
    <2>1. \A v : (Excused(v) => Excused(v)') /\ (HasRow(v) => HasRow(v)')
      BY DEF Excused, HasRow
    <2>2. \A a \in attachments : a.blob # NoBlob => a.blob \in blobs
      BY DEF CatalogAgrees, BlobsOf
    <2>3. \A a \in attachments : a.blob # NoBlob /\ a.blob \in files \ files' => Excused(a.blob)
      BY <1>3, <2>2 DEF ScanInv, Excused
    <2>4. QED
      BY <2>1, <2>3 DEF KeptInv
  <1>9. SweptInv'
    <2>1. CASE scan' = "aborted"
      BY <1>2, <2>1 DEF SweptInv, Ahead
    <2>2. CASE scan' = "listing"
      <3>1. entries' = entries \ {e}
        BY <2>2
      <3>2. \A u \in temps' : Ahead(u, "upload") => Ahead(u, "upload")'
        BY <1>1, <2>2, <3>1 DEF Ahead
      <3>3. \A u \in files' : Ahead(u, "file") /\ u \notin tracked => Ahead(u, "file")'
        BY <1>1, <2>2, <3>1 DEF Ahead, Untracked
      <3>4. QED
        BY <1>2, <1>4, <2>2, <3>2, <3>3 DEF SweptInv
    <2>3. QED
      BY <1>2, <2>1, <2>2
  <1>10. QED
    BY <1>5, <1>6, <1>7, <1>8, <1>9

LEMMA StatStep == ASSUME IInv, NEW u \in tracked, StatBlob(u) PROVE IInv'
  <1> USE DEF StatBlob, IInv, outside, world, catalog, storage, bounds, Charge, Faulty
  <1>1. PICK fault \in Faulty :
           /\ IF u \in files /\ ~fault THEN UNCHANGED catalog
              ELSE /\ attachments' = {a \in attachments : a.blob # u}
                   /\ blobs' = blobs \ {u}
           /\ overtaken' = IF fault THEN overtaken \union {u} ELSE overtaken
           /\ Charge(fault)
    OBVIOUS
  <1>2. u \in Uploads /\ u # NoBlob
    BY UploadsAssumption DEF TypeOK
  <1>3. Removing' = Removing /\ Unhandled' = Unhandled /\ Flying' = Flying
    BY DEF Removing, Unhandled, Flying
  <1>4. attachments' \subseteq attachments /\ blobs' \subseteq blobs /\ overtaken \subseteq overtaken'
    BY <1>1
  <1>5. faults' \in 0..MaxFaults /\ (fault => faults' # 0) /\ (faults # 0 => faults' # 0)
    <2>1. faults' = faults \/ (faults' = faults + 1 /\ faults < MaxFaults)
      BY <1>1
    <2>2. fault => faults' = faults + 1
      BY <1>1
    <2>3. faults \in 0..MaxFaults
      BY DEF TypeOK
    <2>4. QED
      BY <2>1, <2>2, <2>3, BoundsAssumption
  <1>6. TypeOK'
    BY <1>1, <1>2, <1>4, <1>5 DEF TypeOK
  <1>7. UploadInv' /\ DeletionTakesAttachments' /\ ScanInv'
    BY <1>3, <1>4 DEF UploadInv, DeletionTakesAttachments, ScanInv
  <1>8. BlobsOf(attachments') \subseteq BlobsOf(attachments)
    BY <1>4 DEF BlobsOf
  <1>9. CatalogAgrees'
    <2>1. CASE u \in files /\ ~fault
      BY <1>1, <1>3, <2>1 DEF CatalogAgrees, BlobsOf
    <2>2. CASE ~(u \in files /\ ~fault)
      <3>1. attachments' = {a \in attachments : a.blob # u} /\ blobs' = blobs \ {u}
        BY <1>1, <2>2
      <3>2. BlobsOf(attachments') = BlobsOf(attachments) \ {u}
        BY <3>1 DEF BlobsOf
      <3>3. QED
        BY <1>3, <1>4, <3>1, <3>2 DEF CatalogAgrees
    <2>3. QED
      BY <2>1, <2>2
  <1>10. GoneInv'
    BY <1>3, <1>8 DEF GoneInv
  <1>11. RowInv' /\ KeptInv'
    BY <1>1, <1>2, <1>4, FewerRows
  <1>12. SweptInv'
    BY <1>1, <1>3, <1>5 DEF SweptInv, Ahead
  <1>13. QED
    BY <1>6, <1>7, <1>9, <1>10, <1>11, <1>12
-----------------------------------------------------------------------------
(* The world around it.                                                    *)

LEMMA ExpireStep == ASSUME IInv, Expire PROVE IInv'
  <1> USE DEF Expire, IInv, catalog, storage, sweep, history, bounds
  <1>1. Removing' = Removing /\ Unhandled' = Unhandled /\ Flying' = Flying
        /\ BlobsOf(attachments)' = BlobsOf(attachments)
    BY DEF Removing, Unhandled, Flying, BlobsOf
  <1>2. TypeOK'
    <2>1. writable' \in BOOLEAN
      BY Zenon
    <2>2. QED
      BY <2>1 DEF TypeOK
  <1>3. UploadInv' /\ DeletionTakesAttachments' /\ CatalogAgrees' /\ GoneInv' /\ ScanInv' /\ SweptInv'
    BY <1>1 DEF UploadInv, DeletionTakesAttachments, CatalogAgrees, GoneInv, ScanInv, SweptInv, Ahead
  <1>4. RowInv' /\ KeptInv'
    BY FewerRows
  <1>5. QED
    BY <1>2, <1>3, <1>4

(* What a step may take from the catalog that stops the server, or the     *)
(* scan, between two statements: rows are missing, their blob rows not.    *)
Torn ==
    /\ attachments' \subseteq attachments /\ blobs' = blobs
    /\ BlobsOf(attachments) \ BlobsOf(attachments') \subseteq orphaned'
    /\ orphaned \subseteq orphaned' /\ orphaned' \subseteq Uploads
    /\ dismissed' \subseteq Ids /\ disowned' \subseteq Ids
    /\ dismissed \union disowned \subseteq dismissed' \union disowned'
    /\ overtaken \subseteq overtaken' /\ overtaken' \subseteq Uploads
    /\ faults' \in 0..MaxFaults /\ (faults # 0 => faults' # 0)
    /\ \A a \in attachments \ attachments' :
          \/ a.id \in dismissed' \union disowned'
          \/ a.blob # NoBlob /\ (a.blob \in overtaken' \/ a.blob \notin files)

LEMMA RebootStep == ASSUME IInv, Torn, Reboot, Unhandled \subseteq orphaned' PROVE IInv'
  <1> USE DEF Reboot, Torn, IInv, storage
  <1>1. /\ pc' \in [Uploads -> InFlight \union {"idle", "done", "failed"}]
        /\ \A u \in Uploads : /\ pc[u] \in {"idle", "done", "failed"} => pc'[u] = pc[u]
                              /\ pc[u] \in InFlight => pc'[u] = "failed"
                              /\ pc'[u] \notin InFlight
    BY DEF TypeOK, Flying, InFlight
  <1>2. Removing' = {} /\ Unhandled' = {} /\ Flying' = {}
        /\ BlobsOf(attachments') \subseteq BlobsOf(attachments)
    BY <1>1 DEF Removing, Unhandled, Flying, BlobsOf, NoRemoval
  <1>3. TypeOK'
    <2>1. restarts' \in 0..MaxRestarts
      BY BoundsAssumption DEF TypeOK
    <2>2. known' \subseteq Records
      OBVIOUS
    <2>3. removal' \in [Records -> [left : SUBSET Uploads, now : SUBSET Uploads]]
      BY DEF NoRemoval
    <2>4. QED
      BY <1>1, <2>1, <2>2, <2>3 DEF TypeOK
  <1>4. UploadInv'
    BY <1>1, <1>2 DEF UploadInv, InFlight, TypeOK
  <1>5. CatalogAgrees' /\ DeletionTakesAttachments'
    BY <1>2 DEF CatalogAgrees, DeletionTakesAttachments
  <1>6. GoneInv'
    BY <1>2 DEF GoneInv, TypeOK, NoRemoval
  <1>7. RowInv' /\ KeptInv'
    <2>1. \A u \in Uploads : /\ pc[u] = "done" => pc'[u] = "done"
                             /\ pc'[u] = "merging" => pc[u] = "merging"
      BY <1>1 DEF InFlight
    <2>2. refs' \subseteq attachments \union refs
      OBVIOUS
    <2>3. QED
      BY <2>1, <2>2, FewerRowsLater
  <1>8. ScanInv' /\ SweptInv'
    BY DEF ScanInv, SweptInv, Ahead
  <1>9. QED
    BY <1>3, <1>4, <1>5, <1>6, <1>7, <1>8

LEMMA RestartStep == ASSUME IInv, Restart PROVE IInv'
  <1>1. Unhandled \subseteq Uploads
    BY DEF Unhandled, IInv, TypeOK
  <1>2. Torn /\ Reboot /\ Unhandled \subseteq orphaned'
    BY <1>1 DEF Restart, Reboot, Torn, IInv, TypeOK
  <1>3. QED
    BY <1>2, RebootStep

LEMMA AbortStep ==
    ASSUME IInv, Torn, scan' = "aborted",
           UNCHANGED <<outside, storage, refs, tracked, unread, entries, sweeping, stray, restarts>>
    PROVE  IInv'
  <1> USE DEF Torn, IInv, outside, world, storage
  <1>1. Removing' = Removing /\ Unhandled' = Unhandled /\ Flying' = Flying
        /\ BlobsOf(attachments') \subseteq BlobsOf(attachments)
    BY DEF Removing, Unhandled, Flying, BlobsOf
  <1>2. TypeOK'
    BY DEF TypeOK
  <1>3. UploadInv' /\ DeletionTakesAttachments' /\ CatalogAgrees'
    BY <1>1 DEF UploadInv, DeletionTakesAttachments, CatalogAgrees
  <1>4. GoneInv' /\ ScanInv' /\ SweptInv'
    BY <1>1 DEF GoneInv, ScanInv, SweptInv, Ahead
  <1>5. RowInv' /\ KeptInv'
    BY FewerRows
  <1>6. QED
    BY <1>2, <1>3, <1>4, <1>5

(* The scan's two statements: the blob row alone is left, and counted.     *)
LEMMA TearStep ==
    ASSUME IInv, NEW left \in SUBSET Uploads, NEW spent \in {0, 1}, faults + spent <= MaxFaults,
           Tear(left, spent), attachments' \subseteq attachments,
           BlobsOf(attachments) \ BlobsOf(attachments') \subseteq left,
           dismissed' \subseteq Ids, disowned' \subseteq Ids,
           dismissed \union disowned \subseteq dismissed' \union disowned',
           overtaken \subseteq overtaken', overtaken' \subseteq Uploads,
           \A a \in attachments \ attachments' :
               \/ a.id \in dismissed' \union disowned'
               \/ a.blob # NoBlob /\ (a.blob \in overtaken' \/ a.blob \notin files)
    PROVE  IInv'
  <1>1. /\ Unhandled \subseteq Uploads /\ orphaned \subseteq Uploads
        /\ faults \in 0..MaxFaults /\ MaxFaults \in Nat
    BY BoundsAssumption DEF Unhandled, IInv, TypeOK
  <1>2. CASE Reboot /\ faults' = faults + spent /\ orphaned' = orphaned \union left \union Unhandled
    <2>1. Torn
      BY <1>1, <1>2 DEF Torn, Reboot
    <2>2. QED
      BY <1>2, <2>1, RebootStep
  <1>3. CASE /\ scan' = "aborted" /\ faults + spent < MaxFaults /\ faults' = faults + spent + 1
             /\ orphaned' = orphaned \union left
             /\ UNCHANGED <<outside, blobs, storage, refs, tracked, unread, entries, sweeping, stray, restarts>>
    <2>1. Torn
      BY <1>1, <1>3 DEF Torn
    <2>2. QED
      BY <1>3, <2>1, AbortStep
  <1>4. QED
    BY <1>2, <1>3 DEF Tear

LEMMA TearDanglingStep == ASSUME IInv, NEW a \in refs, TearDangling(a) PROVE IInv'
  <1>1. a \in Rows /\ attachments \subseteq Rows /\ dismissed \subseteq Ids /\ disowned \subseteq Ids
        /\ overtaken \subseteq Uploads /\ blobs \subseteq Uploads
    BY DEF IInv, TypeOK
  <1>2. /\ attachments' = attachments \ RowsOf(a.id) /\ overtaken' = overtaken
        /\ dismissed' \subseteq dismissed \union {a.id} /\ disowned' \subseteq disowned \union {a.id}
        /\ dismissed' \union disowned' = dismissed \union disowned \union {a.id}
    BY DEF TearDangling, Drop
  <1> DEFINE left == BlobsOf({a} \union RowsOf(a.id)) \intersect blobs
  <1>3. left \subseteq Uploads /\ Tear(left, 0)
    BY <1>1 DEF TearDangling
  <1>4. BlobsOf(attachments) \ BlobsOf(attachments') \subseteq left
    <2>1. BlobsOf(attachments) \subseteq blobs
      BY DEF IInv, CatalogAgrees
    <2>2. BlobsOf(attachments) \ BlobsOf(attachments') \subseteq BlobsOf(RowsOf(a.id))
      BY <1>2 DEF BlobsOf
    <2>3. BlobsOf(RowsOf(a.id)) \subseteq BlobsOf({a} \union RowsOf(a.id))
      BY DEF BlobsOf
    <2>4. QED
      BY <2>1, <2>2, <2>3
  <1>5. \A b \in attachments \ attachments' : b.id \in dismissed' \union disowned'
    BY <1>2 DEF RowsOf
  <1>6. faults + 0 <= MaxFaults
    BY BoundsAssumption DEF IInv, TypeOK
  <1> HIDE DEF left
  <1>7. a.id \in Ids
    BY <1>1 DEF Rows
  <1>8. QED
    BY <1>1, <1>2, <1>3, <1>4, <1>5, <1>6, <1>7, TearStep

LEMMA TearMissingStep == ASSUME IInv, NEW u \in tracked, TearMissing(u) PROVE IInv'
  <1>1. PICK fault \in Faulty :
          /\ u \notin files \/ fault
          /\ attachments' = {a \in attachments : a.blob # u}
          /\ Tear({u} \intersect blobs, IF fault THEN 1 ELSE 0)
          /\ overtaken' = IF fault THEN overtaken \union {u} ELSE overtaken
    BY DEF TearMissing
  <1>2. /\ u \in Uploads /\ u # NoBlob /\ overtaken \subseteq Uploads
        /\ dismissed \subseteq Ids /\ disowned \subseteq Ids
        /\ faults \in 0..MaxFaults /\ MaxFaults \in Nat
    BY UploadsAssumption, BoundsAssumption DEF IInv, TypeOK
  <1>3. dismissed' = dismissed /\ disowned' = disowned
    BY DEF TearMissing
  <1>4. attachments' \subseteq attachments /\ overtaken \subseteq overtaken' /\ overtaken' \subseteq Uploads
    BY <1>1, <1>2
  <1>5. BlobsOf(attachments) \ BlobsOf(attachments') \subseteq {u} \intersect blobs
    <2>1. BlobsOf(attachments) \subseteq blobs
      BY DEF IInv, CatalogAgrees
    <2>2. BlobsOf(attachments) \ {u} \subseteq BlobsOf(attachments')
      BY <1>1 DEF BlobsOf
    <2>3. QED
      BY <2>1, <2>2
  <1>6. \A a \in attachments \ attachments' :
          a.blob # NoBlob /\ (a.blob \in overtaken' \/ a.blob \notin files)
    BY <1>1, <1>2
  <1> DEFINE spent == IF fault THEN 1 ELSE 0
  <1>7. spent \in {0, 1} /\ faults + spent <= MaxFaults
    <2>1. CASE faults < MaxFaults
      BY <1>2, <2>1
    <2>2. CASE ~(faults < MaxFaults)
      <3>1. fault = FALSE
        BY <1>1, <2>2 DEF Faulty
      <3>2. QED
        BY <1>2, <3>1
    <2>3. QED
      BY <2>1, <2>2
  <1>8. Tear({u} \intersect blobs, spent) /\ {u} \intersect blobs \in SUBSET Uploads
    BY <1>1, <1>2
  <1> HIDE DEF spent
  <1>9. QED
    BY <1>2, <1>3, <1>4, <1>5, <1>6, <1>7, <1>8, TearStep

LEMMA InvStep == IInv /\ [Next]_vars => IInv'
  <1> SUFFICES ASSUME IInv, [Next]_vars PROVE IInv'
    OBVIOUS
  <1>1. CASE \E u \in Uploads : UploadStep(u)
    BY <1>1, BeginUploadStep, StreamSteps, RenameStep, CommitStep DEF UploadStep
  <1>2. CASE \E r \in Records : RecordStep(r)
    BY <1>2, DeleteRecordStep, CascadeStep, UnlinkSteps, NextRemovalStep, AddNoteStep DEF RecordStep
  <1>3. CASE \E a \in attachments : DeleteAttachment(a)
    BY <1>3, DeleteStep
  <1>4. CASE \E u \in unlinking : Unlink(u)
    BY <1>4, UnlinkSteps
  <1>5. CASE ScanStep
    BY <1>5, CursorSteps, DropDanglingStep, UnlinkSteps, SweepEntryStep, StatStep DEF ScanStep
  <1>6. CASE \/ Expire \/ Restart
             \/ \E a \in refs : TearDangling(a)
             \/ \E u \in tracked : TearMissing(u)
    BY <1>6, ExpireStep, RestartStep, TearDanglingStep, TearMissingStep
  <1>7. CASE UNCHANGED vars
    <2>1. UNCHANGED <<records, known, writable, attachments, blobs, files, temps, pc, acked, unlinking, removal,
                      scan, refs, tracked, unread, entries, sweeping, dismissed, disowned, orphaned, stray, overtaken, faults, restarts>>
      BY <1>7 DEF vars, world, catalog, storage, sweep, history, bounds
    <2>2. Removing' = Removing /\ Unhandled' = Unhandled /\ Flying' = Flying
          /\ BlobsOf(attachments)' = BlobsOf(attachments)
      BY <2>1 DEF Removing, Unhandled, Flying, BlobsOf
    <2>3. TypeOK' /\ UploadInv' /\ DeletionTakesAttachments' /\ CatalogAgrees' /\ GoneInv' /\ ScanInv' /\ SweptInv'
      BY <2>1, <2>2
      DEF IInv, TypeOK, UploadInv, DeletionTakesAttachments, CatalogAgrees, GoneInv, ScanInv, SweptInv, Ahead
    <2>4. RowInv' /\ KeptInv'
      BY <2>1, FewerRows
    <2>5. QED
      BY <2>3, <2>4 DEF IInv
  <1>8. QED
    BY <1>1, <1>2, <1>3, <1>4, <1>5, <1>6, <1>7 DEF Next

(* What attachments rest on: rows belong to uploads that are done, what is *)
(* about to be unlinked has lost its row for good, and a stray file is one *)
(* the scan still has to come by (attachments.ts).                         *)
THEOREM AttachmentsInvariance == Spec => []IInv
  <1>1. QED
    BY InitialInv, InvStep, PTL DEF Spec

(* FW_Attachment and FW_Blob agree between any two awaits, but for the     *)
(* blob rows that an interrupted deletion leaves, each accounted for, and a*)
(* record deleted over its route leaves no attachment                      *)
(* (deleteRecordAttachments).                                              *)
THEOREM SoundCatalog == Spec => []CatalogIsSound
  <1>1. QED
    BY AttachmentsInvariance, InvImplies, PTL

(* What an upload was answered for can be downloaded, however uploads,     *)
(* retries, deletions, the scan and restarts interleave, unless a client   *)
(* deleted it, it overlapped the listing or met a failing stat(), or a scan*)
(* dropped it because its record's table was not in the registry.          *)
THEOREM Acknowledged == Spec => []AcknowledgedIsKept
  <1>1. QED
    BY AttachmentsInvariance, InvImplies, PTL

(* A completed scan leaves catalogued content only                         *)
(* (recoverAttachmentOrphans).                                             *)
THEOREM SweptStorage == Spec => []LeftoversAreSwept
  <1>1. QED
    BY AttachmentsInvariance, InvImplies, PTL
=============================================================================
