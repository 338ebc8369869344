-------------------------------- MODULE Archive --------------------------------
(***************************************************************************)
(* The document archive (packages/server/src/archive.ts): batches started  *)
(* by hand or by the scheduler copy old documents, with their lines and    *)
(* files, out of the data database and delete them there; a restore brings *)
(* one back through importEntityDocument().                                *)
(*                                                                         *)
(* A document is a business key, a row id, and the parts saved to it.  The *)
(* keys are ordered by business date.  What happens between two awaits is  *)
(* one step.                                                               *)
(***************************************************************************)
EXTENDS Naturals, FiniteSets

CONSTANTS
    Keys,                  \* business keys of one entity, the oldest least
    Fields, Lines, Files,  \* what users save: header fields, lines, files
    Outside,               \* fields the entity does not list, rows of other child tables
    Refusing,              \* what an import does not write (readOnly, allowEditOnCreate)
    DocOf,                 \* the document a part belongs to
    ParentOf,              \* the line a file is attached to, or Header
    Header,
    Shas, ShaOf,           \* the content of a file
    Batches, Scheduler,    \* requests for a batch, and the timer, which repeats
    Restores,              \* requests for a restore
    InitialParts,          \* parts that are there at first
    Limit,                 \* the policy's batchSize
    Policies,              \* the policies an administrator saves
    MaxIds, MaxChanges, MaxFaults  \* changes from outside; throws and crashes

Parts == Fields \union Lines \union Files
None == 0

ASSUME KeysAssumption == Keys \subseteq Nat \ {None} /\ IsFiniteSet(Keys)
ASSUME PartsAssumption ==
    /\ Fields \intersect Lines = {} /\ Files \intersect (Fields \union Lines) = {}
    /\ DocOf \in [Parts -> Keys] /\ InitialParts \subseteq Parts
    /\ \A f \in InitialParts \intersect Files : ParentOf[f] \in InitialParts \union {Header}
    /\ Header \notin Fields \union Lines /\ ParentOf \in [Files -> Lines \union {Header}]
    /\ \A f \in Files : ParentOf[f] # Header => DocOf[ParentOf[f]] = DocOf[f]
    /\ ShaOf \in [Files -> Shas]
    /\ Outside \subseteq Fields \union Lines /\ Refusing \subseteq Fields \union Lines
ASSUME PoliciesAssumption ==
    /\ Policies \subseteq [enabled : BOOLEAN, files : BOOLEAN]
    /\ [enabled |-> TRUE, files |-> TRUE] \in Policies
ASSUME BoundsAssumption ==
    /\ Limit \in Nat \ {0} /\ MaxIds \in Nat \ {0} /\ MaxFaults \in Nat
    /\ MaxChanges \in Nat /\ Scheduler \in Batches

VARIABLES
    present, id, saved,  \* the live documents: which, under which id, with what
    content,             \* live files on disk, by file and id
    dangling,            \* FW_Attachment rows whose parent is gone
    writable,            \* the owning app holds a valid license
    policy,              \* FW_ArchivePolicy; no row counts as disabled
    catalog,             \* archived documents with their payload
    archived,            \* the archive's copy of a content
    batch, restore,      \* where each batch and each restore is
    late,                \* history: parts saved after a batch had read past them
    gone,                \* history: parts a batch has deleted
    cut,                 \* history: contents whose copying broke off, or read amid it
    faults, changes

documents == <<present, id, saved>>
live      == <<documents, content, dangling>>
world     == <<writable, policy>>
store     == <<catalog, archived>>
history   == <<late, gone, cut>>
bounds    == <<faults, changes>>
vars == <<live, world, store, batch, restore, history, bounds>>

-----------------------------------------------------------------------------
Headers == [key : Keys \union {None}, id : 0..MaxIds, fields : SUBSET Fields]
NoHeader == [key |-> None, id |-> 0, fields |-> {}]
Between(at, files, queue) ==
    [at |-> at, files |-> files, queue |-> queue, doc |-> NoHeader, taken |-> {}, unread |-> {},
     tocopy |-> {}, file |-> {}, unlinking |-> {}]
Idle == Between("idle", FALSE, {})
Over(b) == Between(IF b = Scheduler THEN "idle" ELSE "done", FALSE, {})
Row == [by : Batches, key : Keys, id : 0..MaxIds, parts : SUBSET Parts]
NoRestore == [at |-> "idle", row |-> {}, id |-> 0, left |-> {}]

Init ==
    /\ present = Keys /\ id = [k \in Keys |-> 1]
    /\ saved = [k \in Keys |-> {p \in InitialParts : DocOf[p] = k}]
    /\ content = (InitialParts \intersect Files) \X {1} /\ dangling = {}
    /\ writable = TRUE /\ policy = [enabled |-> TRUE, files |-> TRUE]
    /\ catalog = {} /\ archived = [h \in Shas |-> "none"]
    /\ batch = [b \in Batches |-> Idle] /\ restore = [r \in Restores |-> NoRestore]
    /\ late = {} /\ gone = {} /\ cut = {} /\ faults = 0 /\ changes = 0

Faulty == IF faults < MaxFaults THEN BOOLEAN ELSE {FALSE}
Charge(fault) == faults' = IF fault THEN faults + 1 ELSE faults
Stored(k) == \E row \in catalog : row.key = k

(* Mutant: a document is known by its business key.                        *)
LiveByKey(h) == h.key \in present

(* A header read earlier still stands for a row, with all that goes when it *)
(* is deleted, and with the lines and files the entity lists of it.        *)
Live(h) == h.key \in present /\ id[h.key] = h.id
PartsOf(h) == IF Live(h) THEN saved[h.key] ELSE {}
LinesOf(h) == (PartsOf(h) \intersect Lines) \ Outside
FilesOf(h, parents) == {f \in PartsOf(h) \intersect Files : ParentOf[f] \in parents}

(* The batch has read past where this part is.                             *)
ReadPast(b, p) ==
    LET h == batch[b].doc
        Is(g) == g.key = DocOf[p] /\ g.id = id[DocOf[p]]
    IN IF p \in Fields THEN \E g \in batch[b].queue \union {h} : Is(g)
       ELSE Is(h) /\ ~(p \in Files /\ ParentOf[p] \in batch[b].unread)

-----------------------------------------------------------------------------
(* archiveBatch().                                                         *)

(* SELECT ... ORDER BY the business date LIMIT the batch size.             *)
Candidates ==
    {[key |-> k, id |-> id[k], fields |-> (saved[k] \intersect Fields) \ Outside] :
        k \in {k \in present : Cardinality({j \in present : j < k}) < Limit}}

(* POST .../run, or the timer, which finds the policy due day after day.   *)
StartBatch(b) ==
    /\ batch[b].at = "idle" /\ policy.enabled /\ writable
    /\ batch' = [batch EXCEPT ![b] = Between("next", policy.files, Candidates)]
    /\ UNCHANGED <<live, world, store, restore, history, bounds>>

(* Any throw is noted, and the loop goes on with the next document.        *)
Dropped(c) == Between("next", c.files, c.queue)
Skip(b) == batch' = [batch EXCEPT ![b] = Dropped(batch[b])]

Refused(b, h) ==
    \/ ~writable
    \/ Stored(h.key)
    \/ ~batch[b].files /\ FilesOf(h, LinesOf(h) \union {Header}) # {}

(* Mutant: the first refused document ends the batch.                      *)
OpenBeforeRefused(b) ==
    {h \in batch[b].queue : \A g \in batch[b].queue : g.key <= h.key => ~Refused(b, g)}

Open(b) == {h \in batch[b].queue : ~Refused(b, h)}

(* The loop passes over refused documents and reads the next one's lines   *)
(* and the header's files.                                                 *)
Taking(c, h) ==
    LET top == FilesOf(h, {Header})
    IN [at |-> "packing", files |-> c.files, queue |-> {g \in c.queue : g.key > h.key}, doc |-> h,
        taken |-> h.fields \union LinesOf(h) \union top,
        unread |-> IF c.files THEN LinesOf(h) ELSE {}, tocopy |-> top, file |-> {}, unlinking |-> {}]
TakeDocument(b) ==
    /\ batch[b].at = "next"
    /\ \/ Open(b) = {} /\ batch' = [batch EXCEPT ![b] = Over(b)]
       \/ \E h \in Open(b) : /\ \A g \in Open(b) : h.key <= g.key
                           /\ batch' = [batch EXCEPT ![b] = Taking(batch[b], h)]
    /\ UNCHANGED <<live, world, store, restore, history, bounds>>

(* attachmentPayload() goes on with the files of one line.                 *)
WithFiles(c, l) ==
    LET found == FilesOf(c.doc, {l})
    IN [c EXCEPT !.unread = c.unread \ {l}, !.tocopy = found, !.taken = c.taken \union found]
ReadLine(b, l) ==
    /\ batch[b].at = "packing" /\ batch[b].tocopy = {} /\ l \in batch[b].unread
    /\ batch' = [batch EXCEPT ![b] = WithFiles(batch[b], l)]
    /\ UNCHANGED <<live, world, store, restore, history, bounds>>

(* existsSync(target): what is there is taken for a copy of the content.   *)
Opening(c, f) == [c EXCEPT !.at = "opening", !.file = {f}]
Copied(c, f) == [c EXCEPT !.at = "packing", !.file = {}, !.tocopy = c.tocopy \ {f}]
CheckTarget(b, f) ==
    /\ batch[b].at = "packing" /\ f \in batch[b].tocopy
    /\ batch' = [batch EXCEPT ![b] = IF archived[ShaOf[f]] = "none" THEN Opening(batch[b], f)
                                     ELSE Copied(batch[b], f)]
    /\ UNCHANGED <<live, world, store, restore, history, bounds>>

(* copyFile() opens the source, then truncates the target.                 *)
OpenCopy(b) ==
    /\ batch[b].at = "opening"
    /\ \E f \in batch[b].file :
          IF <<f, batch[b].doc.id>> \in content
          THEN /\ archived' = [archived EXCEPT ![ShaOf[f]] = "torn"]
               /\ batch' = [batch EXCEPT ![b].at = "copying"]
          ELSE Skip(b) /\ UNCHANGED archived
    /\ UNCHANGED <<live, world, catalog, restore, history, bounds>>

Copying(sha) == {b \in Batches : batch[b].at = "copying" /\ sha \in {ShaOf[f] : f \in batch[b].file}}

(* It ends, or fails and removes the target.  A target that was removed, or*)
(* that another copy still writes to, is not made whole by this one.       *)
EndCopy(b) ==
    /\ batch[b].at = "copying"
    /\ \E f \in batch[b].file, fault \in Faulty :
          LET sha == ShaOf[f]
              outcome == IF fault \/ archived[sha] = "none" THEN "none"
                         ELSE IF Copying(sha) = {b} THEN "whole" ELSE "torn"
          IN /\ archived' = [archived EXCEPT ![sha] = outcome]
             /\ cut' = IF fault THEN cut \union {sha} ELSE cut
             /\ IF fault THEN Skip(b)
                ELSE batch' = [batch EXCEPT ![b] = Copied(batch[b], f)]
             /\ Charge(fault)
    /\ UNCHANGED <<live, world, catalog, restore, late, gone, changes>>

Packed(b) == batch[b].at = "packing" /\ batch[b].tocopy = {} /\ batch[b].unread = {}

(* Writing or renaming the payload fails.                                  *)
FailPayload(b) ==
    /\ Packed(b) /\ TRUE \in Faulty /\ Charge(TRUE) /\ Skip(b)
    /\ UNCHANGED <<live, world, store, restore, history, changes>>

(* The payload renamed into place, its catalog row is inserted.  It holds   *)
(* what the entity lists, and nothing from outside.                        *)
InsertRow(b) ==
    catalog' = catalog \union {[by |-> b, key |-> batch[b].doc.key, id |-> batch[b].doc.id,
                                parts |-> batch[b].taken]}

(* The rows whose attachments go: the header and the lines read earlier.   *)
Parents(b) == (batch[b].taken \intersect Lines) \union {Header}

(* Mutant: the license is not asked for again.                             *)
NeverDenied == FALSE

Denied == ~writable

(* The document goes in one transaction, as it is now: its whole rows and,  *)
(* by cascade, those of every child table, listed in the entity or not.    *)
(* The attachments of rows that are not listed stay behind.                *)
Unlinking(c, known) ==
    [Dropped(c) EXCEPT !.at = "unlinking", !.unlinking = known \X {c.doc.id}]
Delete(b) ==
    LET h == batch[b].doc
        known == FilesOf(h, Parents(b))
    IN /\ gone' = gone \union (PartsOf(h) \X {h.id})
       /\ dangling' = dangling \union ((PartsOf(h) \intersect Files) \ known) \X {h.id}
       /\ present' = IF Live(h) THEN present \ {h.key} ELSE present
       /\ saved' = [k \in Keys |-> IF k = h.key /\ Live(h) THEN {} ELSE saved[k]]
       /\ IF known = {} THEN Skip(b)
          ELSE batch' = [batch EXCEPT ![b] = Unlinking(batch[b], known)]

(* Nothing comes between the row and the deletion.  The transaction rolls  *)
(* back if the license is gone, or if a hook or a record that refers to one*)
(* of the rows refuses; the catalog row stays.                             *)
ArchiveDocument(b) ==
    /\ Packed(b) /\ InsertRow(b)
    /\ \E refused \in Faulty :
          /\ IF Denied \/ refused THEN Skip(b) /\ UNCHANGED <<present, saved, dangling, gone>>
             ELSE Delete(b)
          /\ Charge(refused)
    /\ UNCHANGED <<id, content, world, archived, restore, late, cut, changes>>

(* The live files follow one by one; a failure goes unheard.               *)
UnlinkLive(b) ==
    /\ batch[b].at = "unlinking"
    /\ \E x \in batch[b].unlinking, fault \in Faulty :
          /\ IF batch[b].unlinking = {x} THEN Skip(b)
             ELSE batch' = [batch EXCEPT ![b].unlinking = @ \ {x}]
          /\ content' = IF fault THEN content ELSE content \ {x}
          /\ Charge(fault)
    /\ UNCHANGED <<documents, dangling, world, store, restore, history, changes>>

-----------------------------------------------------------------------------
(* POST .../restore.                                                       *)

BeginRestore(r, row) ==
    /\ restore[r].at = "idle" /\ row \in catalog
    /\ restore' = [restore EXCEPT ![r] = [NoRestore EXCEPT !.at = "reading", !.row = {row}]]
    /\ UNCHANGED <<live, world, store, batch, history, bounds>>

End(r) == restore' = [restore EXCEPT ![r] = [NoRestore EXCEPT !.at = "done"]]

(* Mutant: only the header gets into the map of old ids to new ones.       *)
MappedToHeader(row) == {f \in row.parts \intersect Files : ParentOf[f] = Header}

(* What an import writes of a payload, and the files whose old parent has a *)
(* new one.  A line whose key it refuses is not found again.               *)
Written(row) == row.parts \ (Files \union Refusing)
Mapped(row) == {f \in row.parts \intersect Files : ParentOf[f] \in Written(row) \union {Header}}

Free(k) == k \notin present

(* The payload read, a document under this business key is let alone; else *)
(* importEntityDocument() writes header and lines in one transaction,      *)
(* unless the license is gone or a rule refuses.                           *)
ImportDocument(r) ==
    /\ restore[r].at = "reading"
    /\ \/ End(r) /\ UNCHANGED documents
       \/ \E row \in restore[r].row :
             /\ Free(row.key) /\ writable
             /\ present' = present \union {row.key}
             /\ id' = [id EXCEPT ![row.key] = IF row.key \in present THEN @ ELSE @ + 1]
             /\ id'[row.key] <= MaxIds
             /\ saved' = [saved EXCEPT ![row.key] = @ \union Written(row)]
             /\ restore' = [restore EXCEPT ![r] = [@ EXCEPT !.at = "attaching",
                               !.id = id'[row.key], !.left = Mapped(row)]]
    /\ UNCHANGED <<content, dangling, world, store, batch, history, bounds>>

(* Each file is copied back and gets its rows; nothing asks again for the  *)
(* document, the license or the checksum.  A failing copy ends the restore.*)
AttachFile(r) ==
    /\ restore[r].at = "attaching"
    /\ \E row \in restore[r].row, f \in restore[r].left, fault \in Faulty :
          LET k == row.key
              mine == k \in present /\ id[k] = restore[r].id
              whole == archived[ShaOf[f]] = "whole"
          IN /\ IF fault \/ archived[ShaOf[f]] = "none"
                THEN End(r) /\ UNCHANGED <<saved, content, dangling>>
                ELSE /\ restore' = [restore EXCEPT ![r].left = @ \ {f}]
                     /\ content' = IF whole THEN content \union {<<f, restore[r].id>>} ELSE content
                     /\ saved' = IF mine THEN [saved EXCEPT ![k] = @ \union {f}] ELSE saved
                     /\ dangling' = IF mine THEN dangling
                                    ELSE dangling \union {<<f, restore[r].id>>}
             /\ cut' = IF archived[ShaOf[f]] = "torn" THEN cut \union {ShaOf[f]} ELSE cut
             /\ Charge(fault)
    /\ UNCHANGED <<present, id, world, store, batch, late, gone, changes>>

(* restoredAt is set and the restore answered.                             *)
FinishRestore(r) ==
    /\ restore[r].at = "attaching" /\ restore[r].left = {} /\ End(r)
    /\ UNCHANGED <<live, world, store, batch, history, bounds>>

-----------------------------------------------------------------------------
(* The world around it.                                                    *)

(* A user saves a part of a document, over the record and upload routes.   *)
SavePart(p) ==
    LET k == DocOf[p]
    IN /\ k \in present /\ writable /\ p \notin saved[k]
       /\ changes < MaxChanges /\ changes' = changes + 1
       /\ p \in Files => ParentOf[p] \in saved[k] \union {Header}
       /\ saved' = [saved EXCEPT ![k] = @ \union {p}]
       /\ content' = IF p \in Files THEN content \union {<<p, id[k]>>} ELSE content
       /\ late' = IF \E b \in Batches : ReadPast(b, p) THEN late \union {<<p, id[k]>>} ELSE late
       /\ UNCHANGED <<present, id, dangling, world, store, batch, restore, gone, cut, faults>>

(* A user deletes a document with all it has, or enters its key again.     *)
DeleteDocument(k) ==
    /\ k \in present /\ writable
    /\ changes < MaxChanges /\ changes' = changes + 1
    /\ present' = present \ {k} /\ saved' = [saved EXCEPT ![k] = {}]
    /\ content' = {x \in content : x[1] \notin saved[k] \/ x[2] # id[k]}
    /\ UNCHANGED <<id, dangling, world, store, batch, restore, history, faults>>
CreateDocument(k) ==
    /\ k \notin present /\ writable /\ id[k] < MaxIds
    /\ changes < MaxChanges /\ changes' = changes + 1
    /\ present' = present \union {k} /\ id' = [id EXCEPT ![k] = @ + 1]
    /\ UNCHANGED <<saved, content, dangling, world, store, batch, restore, history, faults>>

(* PUT and DELETE .../policies/:entity.  A batch keeps the policy it read. *)
SavePolicy ==
    /\ changes < MaxChanges /\ changes' = changes + 1
    /\ policy' \in Policies \ {policy}
    /\ UNCHANGED <<live, writable, store, batch, restore, history, faults>>

Expire ==
    /\ writable /\ writable' = FALSE
    /\ changes < MaxChanges /\ changes' = changes + 1
    /\ UNCHANGED <<live, policy, store, batch, restore, history, faults>>

(* The process dies and starts again.  A copy it was writing stays as it is,*)
(* and a catalog row it has just inserted.                                 *)
Die ==
    /\ faults < MaxFaults /\ faults' = faults + 1
    /\ batch' = [b \in Batches |-> IF batch[b].at = "idle" THEN Idle ELSE Over(b)]
    /\ restore' = [r \in Restores |-> IF restore[r].at = "idle" THEN NoRestore
                                      ELSE [NoRestore EXCEPT !.at = "done"]]
    /\ cut' = cut \union {sha \in Shas : Copying(sha) # {}}
    /\ UNCHANGED <<live, world, archived, late, gone, changes>>
Restart == Die /\ UNCHANGED catalog
RestartCatalogued(b) == Packed(b) /\ InsertRow(b) /\ Die

BatchStep(b) ==
    \/ TakeDocument(b)
    \/ \E l \in Lines : ReadLine(b, l)
    \/ \E f \in Files : CheckTarget(b, f)
    \/ OpenCopy(b)
    \/ EndCopy(b)
    \/ FailPayload(b)
    \/ ArchiveDocument(b)
    \/ UnlinkLive(b)
RestoreStep(r) ==
    \/ \E row \in catalog : BeginRestore(r, row)
    \/ ImportDocument(r)
    \/ AttachFile(r)
    \/ FinishRestore(r)
Next ==
    \/ \E b \in Batches : StartBatch(b) \/ BatchStep(b) \/ RestartCatalogued(b)
    \/ \E r \in Restores : RestoreStep(r)
    \/ \E p \in Parts : SavePart(p)
    \/ \E k \in Keys : DeleteDocument(k) \/ CreateDocument(k)
    \/ SavePolicy
    \/ Expire
    \/ Restart

Spec == Init /\ [][Next]_vars
FairSpec ==
    /\ Spec
    /\ \A b \in Batches : WF_vars(BatchStep(b))
    /\ WF_vars(StartBatch(Scheduler))

-----------------------------------------------------------------------------
(* What the archive promises.                                              *)

(* Every variable has its kind; a batch holds no more documents than the   *)
(* policy's batch size, and nothing of a document it is done with.         *)
TypeOK ==
    /\ present \subseteq Keys /\ id \in [Keys -> 1..MaxIds]
    /\ saved \in [Keys -> SUBSET Parts]
    /\ content \subseteq Files \X (1..MaxIds) /\ dangling \subseteq Files \X (1..MaxIds)
    /\ writable \in BOOLEAN /\ policy \in Policies
    /\ catalog \subseteq Row /\ archived \in [Shas -> {"none", "torn", "whole"}]
    /\ \A b \in Batches :
          /\ DOMAIN batch[b] = DOMAIN Idle
          /\ batch[b].at \in {"idle", "next", "packing", "opening", "copying", "unlinking",
                              "done"}
          /\ batch[b].at \notin {"packing", "opening", "copying"} =>
                batch[b].doc = NoHeader /\ batch[b].taken = {} /\ batch[b].tocopy = {}
          /\ batch[b].queue \subseteq Headers /\ Cardinality(batch[b].queue) <= Limit
          /\ batch[b].doc \in Headers /\ batch[b].taken \subseteq Parts
          /\ batch[b].unread \subseteq Lines
          /\ batch[b].tocopy \union batch[b].file \subseteq Files
          /\ batch[b].unlinking \subseteq Files \X (1..MaxIds)
    /\ \A r \in Restores :
          /\ restore[r].row \subseteq catalog /\ restore[r].left \subseteq Files
          /\ restore[r].at \in {"idle", "reading", "attaching", "done"} /\ restore[r].id \in 0..MaxIds
    /\ late \subseteq Parts \X (1..MaxIds) /\ gone \subseteq Parts \X (1..MaxIds)
    /\ cut \subseteq Shas
    /\ faults \in 0..MaxFaults /\ changes \in 0..MaxChanges

(* What a batch deletes of an entity is in the archive: every part in the  *)
(* payload of a catalogued document of the same row id, every file's content*)
(* whole or just being copied.  Excepted are what the entity does not list,*)
(* fields and rows of other child tables with their files, which go without*)
(* being archived; parts saved after the batch had read past them; and     *)
(* content whose copying broke off or was read amid it.                    *)
Listed(p) == p \notin Outside /\ (p \in Files => ParentOf[p] \notin Outside)
InPayload(p, i) == \E row \in catalog : row.key = DocOf[p] /\ row.id = i /\ p \in row.parts
Kept(sha) == archived[sha] = "whole" \/ Copying(sha) # {} \/ sha \in cut
NothingIsLost ==
    \A x \in gone \ late : Listed(x[1]) =>
        InPayload(x[1], x[2]) /\ (x[1] \in Files => Kept(ShaOf[x[1]]))

(* A batch takes a document's attachments with it; only files of a line    *)
(* added behind its back, or of a row the entity does not list, are left   *)
(* without a parent.                                                       *)
ArchiveTakesAttachments ==
    [][gone' # gone => \A x \in dangling' \ dangling :
          <<ParentOf[x[1]], x[2]>> \in late \/ ParentOf[x[1]] \in Outside]_vars

(* No batch deletes once the app is read-only, however long ago it asked.  *)
DeletionIsLicensed == [][gone' # gone => writable]_vars

(* A restore changes no document that is live, but the one it has inserted.*)
RestoreNeverOverwrites ==
    [][restore' # restore =>
          \A k \in present : saved'[k] # saved[k] =>
             \E r \in Restores : restore[r].at = "attaching" /\ restore[r].id = id[k]
                                 /\ \E row \in restore[r].row : row.key = k]_vars

(* An answered restore has brought back the payload, with the content of   *)
(* its files, unless a user has deleted the document meanwhile, or the     *)
(* archive's own copy was not whole.  Excepted are the fields that an import*)
(* refuses to write, and the files of a line whose key is one of them: they*)
(* stay in the archive.                                                    *)
Restorable(p) == p \notin Refusing /\ (p \in Files => ParentOf[p] \notin Refusing)
Restored(r, row) ==
    \A p \in row.parts : Restorable(p) =>
        /\ p \in saved[row.key]
        /\ p \in Files => <<p, restore[r].id>> \in content \/ ShaOf[p] \in cut
RestoreIsComplete ==
    \A r \in Restores : restore[r].at = "attaching" /\ restore[r].left = {} =>
        \A row \in restore[r].row :
            row.key \in present /\ id[row.key] = restore[r].id => Restored(r, row)

(* A document that can be archived is archived in the end: it is not stuck *)
(* itself, and fewer than Limit older documents are.                       *)
Stuck(k) ==
    \/ Stored(k)
    \/ \E f \in saved[k] \intersect Files :
          ~policy.files \/ (<<f, id[k]>> \notin content /\ archived[ShaOf[f]] = "none")
Archivable(k) ==
    /\ k \in present /\ writable /\ policy.enabled /\ ~Stuck(k)
    /\ Cardinality({j \in present : j < k /\ Stuck(j)}) < Limit
EligibleIsArchived == \A k \in Keys : []<>~Archivable(k)

(* "Catalog and immutable payload are durable before live deletion begins."*)
DurableBeforeDeletion ==
    [][gone' # gone => \A row \in catalog' \ catalog :
          \A f \in row.parts \intersect Files : archived[ShaOf[f]] = "whole"]_vars

(* The archive's state is sound, and an answered restore complete.         *)
ArchiveIsSound == TypeOK /\ RestoreIsComplete

(* What a batch deletes it takes along, and has the license for; what is   *)
(* live a restore leaves alone.                                            *)
ChangesAreCareful == ArchiveTakesAttachments /\ DeletionIsLicensed /\ RestoreNeverOverwrites
=============================================================================
