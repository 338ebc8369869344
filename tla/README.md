# Formal models of emu-framework

TLA+ modules, TLC configurations and TLAPS proofs kept beside the framework's
source. Paths are relative to the repository (`src/`).

## 1. The system

emu-framework is a metadata-driven business application server. A Node process
(Fastify, better-sqlite3, one thread) serves business records whose tables,
forms, scripts and roles are *artifacts* an administrator edits in a browser.
A second container, the updater, replaces or restores the first one.

| Part | Source | State | Operations |
|---|---|---|---|
| Metadata runtime | `packages/core/src/kernel.ts`, `db/schemaSync.ts` | the registry, the handlers of scripts, `executableSignature`, `successfulWebSignature`, the physical tables | apply a candidate set of artifacts, isolate bad ones, synchronise tables, migrate encrypted fields, run scripts, roll back |
| Designer routes | `packages/server/src/designer.ts`, `core/src/metadata/changeSet.ts` | `FW_WebArtifact`, waiting previews, `FW_ChangeSetAudit` | create, save, delete an artifact or a model, validate and apply a change set, reload, purge an orphaned table |
| Metadata registry | `metadata/registry.ts`, `schema.ts`, `localization.ts`, `reportLayout.ts` | maps of artifacts by kind | register, extend, validate |
| Metadata packages | `server/src/metadataPackage.ts` | none of their own: an import becomes a preview | export, preview an import |
| Record layer | `core/src/data/*` | business tables; the transaction level, deferred write guards | insert, update, delete with cascades, `tts` with savepoints, events and hooks |
| Record drafts | `server/src/recordDrafts.ts` | `FW_RecordDraft` | create, save once |
| Attachments | `server/src/attachments.ts` | `FW_Attachment`, `FW_Blob`, files | upload, note, link, delete, recovery scan |
| Archive | `server/src/archive.ts` | catalog database, payload files, content copies | archive a batch by hand or by schedule, restore |
| Data entities, import, export | `server/src/dataEntities.ts`, `importExport.ts` | `FW_DataJob`, staged files | stage, commit one document per transaction |
| Accounts and sessions | `server/src/auth.ts`, `userSecurity.ts`, setup in `server.ts` | `FW_User`, `FW_UserRole`, `FW_Session`, setup code | log in and out, change users, first-run setup |
| AI tokens and proposals | `server/src/aiApi.ts` | `FW_AiToken`, `FW_AiProposal` | propose, approve, reject |
| Licensing, policy, encryption | `core/src/licensing.ts`, `security/*` | licenses with a rising sequence, roles, keys | install, block apps, decide access, encrypt |
| System maintenance | `server/src/systemMaintenance.ts` | backups, job state files | back up, validate, launch a job, report it |
| Updater | `server/src/updater.ts`, `updaterState.ts` | job state files, containers, recovery directories | update, restore, compensate, recover |
| App data | `server/src/appDataManagement.ts` | previews of packages of rows | export, preview, replace, delete an app's rows |
| Start-up | `server/src/server.ts`, `seeder.ts` | marks of migrations | seed, take over old artifacts and accounts, rename, normalise |
| Designer pages | `packages/client/src/views/designer`, `stores/designer.ts` | the browser's copy of the artifacts, the page's draft, baselines of inherited layers | load, edit, save with follow-up saves, delete |
| Other routes | integrations, fonts, navigation, views, reports | single rows | reads and single writes |
| Other client pages, scripts | `packages/client`, `scripts` | views of the above | none of their own |

**Interactions.** The designer routes change the designer database and call the
kernel, which changes memory and the data database: one request, three stores.
The registry decides which tables attachments, data routes and archives may
touch. Deleting a record over its route deletes attachments afterwards; other
deletions do not. The archive copies and deletes records, catalog rows and
files. The server launches a job over one HTTP call and afterwards shares only a
state file with the updater, which stops and replaces the server.

**What is hard.** Within the server, a piece of code between two awaits is
atomic, so the hazards sit at awaits (uploads, scans, archive batches), between
two databases, between a database and the file system, in caches of "what was
applied last", and in a process that dies. In the updater every call to Docker
or to the file system may throw, and the process itself is restarted by Docker.
`PROJECT.json` lists the hazards at their lines.

**What makes each part correct.**
*Runtime*: the registry is closed under references, its tables exist, its
handlers are the live scripts', encrypted fields are encrypted at rest, and
memory agrees with what is stored. *Designer*: a confirmed change set is applied
once, to what is stored. *Attachments*: catalog and files agree, an answered
upload is kept, leftovers go. *Archive*: nothing is deleted that was not
archived. *Records*: a transaction is all or nothing, guards hold at commit.
*Packages and proposals*: what is confirmed is what was shown, once, and in
scope. *Registry*: it validates, the highest layer is in effect, encrypted
fields are shown nowhere, and a rejection has a reason. *Accounts*: an enabled
administrator remains, sessions end with their password. *Start-up*: however
often it dies, migrations arrive at one result. *Designer pages*: going on
working undoes nobody's work, and what was saved builds what was shown.
*Updater*: no data is lost, the reported outcome is true and final, every job
ends.

## 2. Modules

| Module | Models | Uses |
|---|---|---|
| `MaintenanceJob` | what a maintenance job promises (abstract) | |
| `Updater` | one update or restore job, step by step | `MaintenanceJob` as refinement |
| `UpdaterProofs` | the theorems about `Updater` | `Updater`, TLAPS |
| `Maintenance` | the server's and the updater's front doors, several jobs at once | |
| `MaintenanceProofs` | the theorems about `Maintenance` and `Startup` | both, TLAPS |
| `Designer` | runtime and designer routes together | |
| `Proposals` | AI tokens and proposals over the same workspace | `Designer` |
| `Packages` | export and import of metadata packages over it | `Proposals` |
| `DesignerProofs` | the theorems about `Designer`, `Proposals` and `Packages` | `Packages`, TLAPS |
| `Metadata` | artifacts as values and their normalisation | |
| `Registry` | registration, extension and validation as pure operators | `Metadata` |
| `WebLayer` | what the kernel builds from stored artifacts, and the designer's edits | `Registry` |
| `Startup` | what a start does to stored artifacts, statement by statement | |
| `Accounts`, `AccountsProofs` | users, roles, sessions, setup, and their migrations | |
| `Records`, `RecordsProofs` | transactions, cascades, guards, drafts, imports, licences, policy | |
| `AppData` | replacing and deleting the rows of an app beside them | `Records` |
| `Attachments`, `AttachmentsProofs` | catalog, files, routes and the recovery scan | |
| `Archive`, `ArchiveProofs` | batches, the catalog, the live deletion, restores | |
| `Editor`, `EditorProofs` | the designer pages of a browser beside other designers | |
| `ExtensionEditor` | the editors of menu and form extensions | |

A module named `...Proofs` holds the theorems about the one it is named after
and extends it and `TLAPS` (`RecordsProofs` extends `AppData`, and with it
`Records`; `MaintenanceProofs` also extends `Startup`, whose starts follow the
restarts and restores of `Maintenance`). Each module that is run has an `MC` module with its instance (`MCDesigner` for
`Packages`, `MCRecords` for `AppData`, `MCWebLayer` for `WebLayer`, and so on).

Definitions carry the source's names where they have one (`applyWebArtifacts`,
`validateReferences`). Operators whose comment begins with *Mutant* are plausible
mistakes that stand next to the operator they would replace; nothing uses them
in the specification, and each shows that a property notices the mistake.

### Updater

`pc` names the call about to be awaited in `update()`, `restore()`,
`rollbackUpdate()`, `rollbackRestore()`, `recoverUpdate()` and
`recoverRestore()`; each action is one step with its `patchState()`. A directory
or database is an entry with a content known by its origin (`orig`, `new`,
`staged`, or `gap` while it is being replaced); copying goes entry by entry.
Containers are an image name, a running flag, and the renamed spare.
`StepThrows` sends any step to the catch block; `Crash` and `Restart` lose the
local variables and run the recovery; `NewImageWrites` is the new release
migrating its files. `LaunchFails` is the server marking a job failed.

Faults come in kinds: `call` (a step throws before its effect), `cleanup`
(removing a recovery directory throws half-way), `lookup` (a container lookup
errs and is taken for absence) and `recover` (an error the updater only logs:
`startContainer()` or `waitHealthy()` throws while an interrupted job is resumed,
`updater.ts:379-380` and `403-404`, or the write that records a failure does). After
the last kind nothing works on the job any more although its file says that it
is running: `pc` is *unrecovered*, and only the updater's next restart takes it
up (`420`, `424`). The removal of the stage directory is folded into
`DiscardSnap`. A write of the state file that throws while a job goes
forward is a `call` like any other. Not modelled: lost Docker replies to calls
that took effect. Two jobs at once are
`Maintenance`'s subject.

### Maintenance

A request handler of `systemMaintenance.ts` is cut at its awaits: it checks the
state file, prepares (downloads, unpacks, validates, stages), writes the file,
launches over HTTP and patches the file when the launch errs or times out. The
updater reads the call, looks at its busy flag before the body has arrived, and
carries a job out in the phases check, stop, work, start, verify and undo,
comparing the file's job id before each patch. A restart of the application
forgets its handlers, one of the updater runs the recovery over both state
files. `contested` records that one job's file was overwritten by another's.

Whatever throws in a rollback leaves the application as it is
(`updater.ts:259-265`, `335-340`): `RequireRecovery` ends the job with a file
that says so, which no later restart looks at, and `Abandon` ends one whose file
cannot be written either. A recovery may end each of the two jobs it
finds in one of three ways (`Outcomes`), the third being that it throws and only
the log says so. `stoppedBy` is the job on whose account the application is
down, and `unrecovered` the jobs given up without a word in their file. One
database and one directory stand for the five components of a backup; the
recovery is one step; the local image of the test mode is left out.

### Designer, Proposals, Packages

An artifact is a name with a version; a version *needs* and *gives* symbols (an
app, a model, a field). `Accepted` is what `applyWebArtifacts()` takes into the
registry: apps without missing or circular dependencies, then the rest at once
if that validates, else one by one; one-by-one acceptance is the least set
closed under acceptance. `applyWebArtifacts` is a whole operator: early return
on the signature, registry swap, table synchronisation, encryption migration,
handlers, signatures. Routes that store first and apply then, and those that
apply first, keep their order. The atomic apply of a change set is a sequence of
steps (`applied`, `persisted`, `dataCommitted`) because a crash or an error
between the two commits is visible; `saved` is what the catch block and the two
databases go back to. `troubled` records that an apply has reported errors or a
write has failed since the start.

`Proposals` adds tokens with a scope, proposals validated against a revision,
and an approval that applies, stores and marks in three steps that no
transaction holds together: the write that marks may throw or not happen at all,
and `unmarked` counts those storings (the proposal is then still pending, and may
be rejected although it is stored). Rejecting asks for no app's permission, as in
the code. The token's reading routes change nothing; the audit log is left out.
`Packages` adds the export of an app or of selected models, the merge of its
manifest, the operations an import stands for, and the preview they end in,
which the designer confirms like any other. A package's form, checksum and
consistency are taken for granted (a file that fails them leaves no trace); a
name has the same kind, app and model in every workspace, so that ownership
conflicts cannot arise.

Not modelled: licensing guards, changes of kind and moves between apps,
file-based apps (see `WebLayer`), half-registered scripts, actor, confirmation
and high-risk checks, and a DELETE naming the wrong kind.

### Metadata, Registry, WebLayer

`Designer` takes a registry for a closed set; here its content is built as
`registry.ts` builds it. `Metadata` has a constructor per artifact kind and the
legacy normalisations; labels, sizes and styles are left out but for one label
per field, which stands for whatever an extension may override. `Registry` is a
value with the artifacts by kind, the layers of a name and the extensions; each
`...Valid` operator is one part of `validate()`. A call that throws gives
`Broken`. `WebLayer` is `applyWebArtifacts()` over it: manifests, dependency
cycles, the order of apps, the build at once and the isolation in passes, the
order of scripts, and what is reported. Edits are saves, deletions, an app's
deletion and restarts; `okSig` and `execSig` are the two signatures. The prefix
rule for names is left out, stored artifacts carry no layer of their own, and
item ids are unique within a menu.

### Startup

A start of the server as a sequence of `Stages`: framework artifacts are seeded
and obsolete ones removed, an older release's table of artifacts is taken over
and dropped, manifests learn the models their artifacts name, extensions get
their canonical names with everything that refers to them, columns are filled in
from the JSON. A statement commits by itself unless the code opens a
transaction; `StartAgain` may come between any two. `RestoreBackup` brings back
either database or both, whose marks say which migrations have run; `mixed`
records that the two no longer fit. `Gathered`, `Modelled` and `Whole` are what a
start that nothing disturbs makes of the older release, stage by stage.

Between starts designers save and delete, within the routes' limits: the
framework's artifacts are read-only, an artifact keeps its kind and its app and
stands in a model its app declares, manifests may be saved anew, and an app is
deleted with its artifacts. `removed` and `edited` remember what was deleted and
whose manifest was saved. Single statements within a stage come in any order;
names freed by a renaming are not given again. The migrations of users and roles
are in `Accounts`.

### Accounts

Migrations of users, roles and app access, one statement per step; first-run
setup with its code, its limit of failures and its expiry; login; sessions; the
administrator's routes, each a single action since the handlers are synchronous.
A session remembers the password it was opened under, which is what its
revocation is about. `revoked` is what was taken away, `Rights` what there is.
Numeric roles and the older role table do not occur together; a user's locale is
left out.

### Records and AppData

A request is a sequence of transactions, a transaction a sequence of operations
on `ops`, and a cascade a stack of `frames`, one per call of
`deleteWithinTransaction()`; each operation and each child is a step, since time
passes and any handler may throw. `levels` are the states a savepoint or the
transaction goes back to, `guards` the deferred checks that `Commit` runs. The
operations are the routes': insert, patch, delete, draft, upsert import (all or
nothing, or row by row), and a data entity job of one transaction per document.
Values are numbers, null, NaN, the texts of numbers (`Digits`), a text that is
no number, and the mask shown for secrets. An entity document is looked up by its
cells as they were read (`Sought`, `dataEntities.ts:79-80`, `89`, `99`) and
stored as `coerce()` makes them (`ImportValue`, `63-69`); where the two differ, a
number under a text key, no row is ever found. Other spellings that `coerce()`
takes for a value, `true` as a text or `0x10`, are the same case and have
no values of their own. Permissions come from privileges through duties and roles, licences
have a term, a grace period and a sequence.

`AppData` adds an administrator's preview, replacement and deletion of an app's
rows. An export only reads, but table by table with other requests in between;
the packages of the instance are therefore constants that may be of different
moments. Refusals for form, version, schema or checksum leave no trace; the
audit log is left out.

### Attachments

What lies between two awaits of an upload is one action: `BeginUpload` (the
parent is checked), `OpenUpload` (header read, retry detected), `OpenStream`,
`EndStream` or `BreakStream`, `Recheck` (image uploads only), `Merge`,
`RenameUpload`, `CommitUpload`, and `CleanUpload` for the catch block. The blob
id, the storage key and the upload coincide. `DeleteRecord` and `NextRemoval`
are a record's deletion and the loop of `deleteRecordAttachments()`; its first
pass is a step of its own, which also stands for a crash between its statements.
`CascadeDelete` is every deletion that does not go over the route. The scan is
`StartScan` to `EndScan`, with its copies of the catalog (`refs`, `tracked`)
taken where the code takes them; a directory listing is one step, each entry one
step, and an `unlink` of a file that is gone ends the scan. The scan deletes an
attachment and its blob row in two statements, which nothing but a crash or an
error of the second can part: `TearDangling` and `TearMissing` are these steps
cut in two. `Restart` may come up without a table in the registry; its rows then
dangle although their records exist, and are dropped (`disowned`). Reading routes
change nothing and are left out.

### Archive

A document is a business key, a row id (a restored or re-entered document gets a
new one), and the parts saved to it: header fields, lines, files. An entity does
not list all of a document. `Outside` are fields it leaves out and rows of other
child tables: they are deleted with the document (`archive.ts:97-98` and the
cascades of `context.ts:189-206`) and are in no payload (`archive.ts:79`, `83`).
`Refusing` are parts that `writable()` does not import (`dataEntities.ts:74`,
`readOnly` and `allowEditOnCreate`): they are archived, and a restore leaves them
in the archive, with the files of a line whose key is one of them. A line is one
part; a field of it that differs from the rest in this is one more. The instance
has a read-only number, and a row outside the entity with a file. `StartBatch`
reads the candidate headers at once (`Candidates`); `TakeDocument` is one round
of the loop of `archiveBatch()` up to its first await; `ReadLine`,
`CheckTarget`, `OpenCopy` and `EndCopy` are `attachmentPayload()`, whose target
is *torn* while `copyFile()` writes it; `ArchiveDocument` is what follows the
payload's `rename()` without an await, the catalog row and the live transaction,
and `RestartCatalogued` a crash between the two. `UnlinkLive` unlinks one live
file. A restore is `BeginRestore`, `ImportDocument`
(`importEntityDocument()` and the map of old ids to new ones), `AttachFile` per
file, `FinishRestore`. Where a step of the code ends without an await the model
sometimes ends one too, if no other step can tell.

Requests (a batch by hand, a restore) are made once each; the scheduled batch
repeats. The calendar (`schedule`, `weekday`, `lastRunAt`) is reduced to its
effect, that the timer finds the policy due again and again; job rows and
`restoredAt`, which nothing reads back, are left out. Business keys are taken to
be unique among live documents, and line keys to tell the lines of a document
apart: `importEntityDocument()` merges lines with equal line keys, and the
registry does not ask for a unique index on either. The business key itself is
taken to be imported: with a read-only key a restore would insert a document
without one and fail at the next lookup. Uploads and deletions by
users are single steps here; `Attachments` has their details, and the recovery
scan that deals with the rows called `dangling`.

### Editor and ExtensionEditor

In `Editor` an artifact's content is the set of edits it holds: the list that
follow-up saves extend, and everything else. A browser has a store, loads in
flight, a page with the draft it edits and the content it was opened from, and a
`flow` of saves: the artifact itself, a reload, then the form, menu or extension
that makes a new table usable, each built from the store. `OthersSave` is another
designer. Edits are made at the moment they are saved; nobody leaves the page
during a save; the new main menu of an app and a menu extension are one artifact.

In `ExtensionEditor` a page shows `Base`, the layers below, with the extension
applied, and writes differences. `shown`, `within` and `fields` are the lists
and items on the page; `own`, `nested`, `saved` and `overrides` are the
artifact; `buildMenuExtensionTree` and `buildFormExtensionLines` are what a fresh
page makes of it. An item of a menu extension's own is one object to page and
artifact until the editor visits the JSON tab (`SwitchTabs`): the artifact is
parsed anew and the tree is not built again (`DesignerEditPage.vue:172-176`),
so these items are `detached` and what is edited, moved or added there
is only on the page; `astray` are the items that happened to. Drawing a form's
line writes an empty list of actions into it (`Drawn`, 343, 1062), and the
checkbox Visible writes `hidden` (1022); both are compared with the layers below
like any edit. The layers' answer may be waiting, arrived or failed. Left out
are edits of the JSON text itself, answers that arrive while the JSON tab is open
or for another target, moves within lists below an item of the extension's own,
and `elementOverrides`.

## 3. Runs

| Run | Bounds | Distinct states | Shows |
|---|---|---|---|
| `updater` | 2 entries, 2 throwing steps (of a job, of a recovery, or of a write that records a failure), 2 crashes | 6,586 | all safety properties, `JobEnds` and the refinement `KeepsPromise` |
| `updater_cleanup` | 1 fault, 1 crash | | a failed removal after success rolls the success back (`updater.ts:315`) |
| `maintenance` | 2 administrators, 3 requests, 1 upload, 1 restart, rollbacks and recoveries that fail | 2.1 million | files tell the truth, and a job that left the application down says so or is found by the next recovery, but for contested jobs |
| `designer` | 5 names, 1 preview, 1 token, 1 proposal, 2 packages, 4 requests, 1 fault, 1 restart | 630,000 | registry, handlers, tables, encryption and storage stay consistent; what is confirmed is what was shown |
| `weblayer` | every artifact kind, 2 apps, a file app, 3 edits | 11,070 | the registry validates, hides encrypted fields, rejects with reason, reports what it drops |
| `startup` | 2 older releases, 3 changes, 5 restarts | 207,000 | migrations arrive at one result and resurrect nothing |
| `accounts` | 2 users, 3 passwords, 5 requests, 2 restarts | 2.4 million | an administrator remains, sessions are current, nothing resurrects |
| `records` | 3 requests, 1 draft token, 2 packages, 1 throw, 1 tick of time, 1 crash; one job whose documents have their keys as stored, as texts of numbers and as numbers for texts | 215,000 | references, permissions, licences, drafts, imports; every request ends |
| `attachments` | 2 tries of one image, 1 note, 1 record, 1 fault, 1 restart | 566,000 | catalog, files and answers agree around the scan; the scan ends |
| `archive` | 2 documents, 2 batches, 1 restore, 1 change from outside, 1 throw or crash | 576,000 | what an entity lists is archived before it is deleted, restores bring back what an import writes, the batch makes progress |
| `editor` | 1 browser and others, 2 saves, 2 loads | 2.1 million | acknowledged edits survive, pages drop nothing they saw, menus resolve |
| `extension_editor` | 3 inherited and 3 new items, 4 edits, visits to the JSON tab | 2.1 million | what was saved builds what was shown |

**Bounds.** Two entries suffice for a half-done copy; two faults or crashes
reach a failure inside a compensation of a failure. Three maintenance requests
are two that race and a third that finds what they left; the backups uploaded are
all that hold the database and the files they declare, torn or of any schema,
which is enough for the races, while `ParsesAreComplete` is proved of every
archive. Four designer requests
reach "break, reject, repair, reuse"; the workspace has a table in three
versions, a dependent app, a form that needs a field and a script that may
throw, so every route and both acceptance paths fire; two packages are a whole
app and a deployment of one of its models. In `weblayer` a store in which every
kind is present is edited three times, which breaks and repairs any reference. Two
older releases are one with artifacts in the legacy table and one with manifests
without models and two extensions of one table. Five account requests are setup, login, a second user and two changes;
two restarts let a start die and the next one follow. Three record requests are
"create, change, delete", along a cycle of cascades and a shared child. Two
uploads under one id in two directories reach a retry overtaking its first try,
a stale copy of the catalog and a listing that misses a file; one record is
enough since uploads of different records share nothing but the scan. In
`archive` two documents share one content, so that batches meet at its copy, and
a batch holds the second document's header while it works on the first; the
change from outside and the fault come anywhere. A second change (3.9 million
states, safety only) shows nothing else. In `startup` five restarts let starts die
in several stages one after another, and three changes are one that deletes, one
that saves again and one of a manifest. One browser and one other designer
suffice for the editor, since a browser knows of the others only through the
server. Requests, edits and saves end with their bound, so deadlock is not
checked: a server without requests waits, and a designer who has nothing to do
waits too.

**What `designer` leaves out.** Its faults are failing migrations and failing
designer writes. A failing designer *commit* after the data commit cannot be
taken back by the code and would leave the new rows under the old metadata; the
run therefore does not include it, and the crash between the two commits, which
is included, is repaired by the next start. `FreshUnlessTroubled` excepts the
time after an apply that reported errors, which includes an approval answered
with 422 whose registry is swapped all the same (`aiApi.ts:156`); the page says
a proposal is "revalidated and applied atomically" (`AiProposalsPage.vue:36`).
`DecidedOnce` excepts the storings of a proposal whose mark was lost to a failed
write or a crash (`aiApi.ts:157-158`): such a proposal may be rejected, or
approved again, although it is stored.

**What the other runs except.** `JobEnds`: a job that the updater gave up with an
error it only logged (`updater.ts:420`, `424`); it stays running, and keeps the
server from accepting another, until the updater is restarted.
`DownIsRecoverable`: jobs whose file was overwritten
under them, since two handlers may both find no running job before either writes
its own (`systemMaintenance.ts:340`). It does not say that the application comes
up again: after a failed rollback it stays down, with a file that calls for
an administrator, and after an error that was only logged the file still says that
the job is running. `ImportsAreFaithful`: keys for which an entity document has a
cell that is stored as something else than it is looked up by; importing such a
document twice doubles it. `AcknowledgedIsKept`: uploads that
overlapped the scan's listing and content whose `stat()` failed with an error
other than absence. Excepted too are uploads to records that
exist while their table is missing from the registry of a start: the scan deletes
their rows (`attachments.ts:307`), in spite of "live catalog entries are never
removed merely because a directory scan could not complete" (299-301), which the
code keeps to the letter only. `CatalogIsSound`: blob rows that a crash or an error
inside a deletion leaves behind, the record's or the scan's; the scan takes
them for tracked and never removes them.
`NothingIsLost`: fields and child rows that the entity does not list, which are
deleted without being archived; parts saved after a batch had read past them, because
`archiveBatch()` deletes the document as it is after its awaits and archives it
as it was before, and content whose copying once broke off. `ArchiveIsSound`:
content that was not whole in the archive when it was restored, and fields that
an import does not write. `ChangesAreCareful`: attachments of rows that the
entity does not list stay behind without a parent.
`EligibleIsArchived`: documents whose live deletion was refused, or that were
restored, are never archived again, and as many of them as the batch size stop
the archive for every newer one. `NothingDangles`: a preview confirmed after
another app's rows have changed. `CrashesLeaveNoTrace`, `ModelsAreHarvested`:
databases of different moments, and what section 4 says of them. `AcknowledgedEditsSurvive`: edits overwritten by
a designer who had not seen them, by a page that creates, or outside the lists
that follow-up saves extend. `ExtensionIsSound`: lines added before the layers
have arrived, the item after a removed one below an item of the extension's
own, what is added below such an item after the JSON tab, and overrides that
repeat an absent `actions` or `hidden` of the layers below. `RebuildShowsEdits`:
items of a menu extension's own that were edited, moved or added to after the
JSON tab. The exceptions are behaviours of the code, not of the models.

**Statements that do not hold.** `updater_cleanup` is a run of the project. The
following configurations are kept beside it, or differ from it as stated; TLC finds each of them violated in
seconds.

| Configuration | Statement | What happens |
|---|---|---|
| `UpdaterRecover.cfg` | `InterruptedJobMarked`: "marks the interrupted job as failed" (`release-notes/1.0.1.md:19`) | the recovery waits for the application before it patches the job; when it throws, the job stays running (`updater.ts:420`) |
| `UpdaterCleanup.cfg` with `FaultKinds <- LookupFaults` | `FailedMeansUndone`: "Restores the previous container" (`release-notes/1.0.2.md:14`) | a lookup that errs is taken for absence, and the rollback starts the new image (`updater.ts:140`) |
| `DesignerReload.cfg` | `ReloadRefreshes`: "Re-apply current web artifacts so registry is fresh" (`designer.ts:895`) | after a rejected save the candidate equals the last good one and is skipped (`kernel.ts:313`) |
| `DesignerPurge.cfg` | `PurgeSparesStored`: "still active metadata and cannot be purged" (`designer.ts:645`) | the purge asks the live registry, which a rejected save has left without the table |
| `WebLayerCycle.cfg` | `ValidArePreserved`: "preserve valid artifacts" (`kernel.ts:465`) | two valid tables that refer to each other are both isolated beside a bad one |
| `WebLayerLayers.cfg` | `HigherLayersOverride`: "Higher layers override lower layers" (`types.ts:65`) | an override of a customer's app loses to one of an app that registers later (`kernel.ts:433`) |
| `RecordsText.cfg` | `MandatoryIsSet`: "is mandatory" (`context.ts:113`) | an import makes NaN of a text, which passes and is stored as null (`importExport.ts:134`) |
| `RecordsStale.cfg` | `ReplacedIsValidated`: "failed foreign-key integrity validation" (`appDataManagement.ts:232`) | no column declares a foreign key, so a stale preview brings dangling references in |
| `AttachmentsSweep.cfg` | `SweepsOnlyInterrupted`: "Remove interrupted uploads" (`attachments.ts:299`) | the scan takes a running upload's file (`attachments.ts:320`) |
| `ArchiveTorn.cfg` | `DurableBeforeDeletion`: "durable before live deletion begins" (`archive.ts:88`) | a torn copy is taken for the content (`archive.ts:57`) |
| `EditorOverwrite.cfg` | `NoSilentOverwrite`: "instead of silently overwriting on save" (`DesignerEditPage.vue:188`) | the page looks in the store it loaded, and saves over an extension stored since |
| `ExtensionEditor.cfg` with `OnlyDeltasAreSaved` | "Only the current Layer delta is saved" (`DesignerEditPage.vue:844`) | drawing an inherited line writes `actions: []` into it, which is saved as an override (343) |

**Fairness.** `FairSpec` of `Updater` has weak fairness on the updater's next
step, in two parts. `ProgramRuns`, for the steps of its own, is justified by the
code: it is one asynchronous program in a container that Docker restarts
(`docker-compose.yml:26`, `:47`, `restart: unless-stopped`). `DockerAnswers`, for
the calls to Docker, is an assumption about Docker: `docker()` sets no time limit
(`updater.ts:93-114`), so a call that is never answered holds the job up for
ever. Faults and crashes are not fair. In `Attachments`
the scan's steps are weakly fair, since the event loop runs every continuation;
uploads are not, because a client may stop sending. In `Archive` the steps of
batches are weakly fair for the same reason, and so is the start of the
scheduled one, a timer that fires every hour. In `Records` the steps of a
request under way are weakly fair, since they are synchronous code;
that requests arrive, throws, ticks and crashes are not. Nothing else is.

## 4. Proofs

The theorems hold for every value of the constants that meets the modules'
assumptions. Each proof has one form: an inductive invariant (`IInv`;
`UpgradeInv` for `Startup`), a lemma per action that it is kept, an invariance
theorem, and from it the properties the runs check. `IInv` was checked by TLC,
as an invariant of the component's run, before it was proved.

| Module | Invariance | Properties proved of it |
|---|---|---|
| `UpdaterProofs` | `Invariance`, `TypeCorrect` | `JobIsSound`, `OriginalsRecoverable`, `FailedMeansUndone`, `NeverServesMixedData`, `FilesTouchedOnlyWhenStopped`, and `KeepsPromise`, the refinement of `MaintenanceJob` |
| `DesignerProofs` | `WorkspaceInvariance` | `RuntimeIsSound`, `FreshUnlessTroubled`, `DecidedOnce`, `ConfirmedIsWhole` |
| `AccountsProofs` | `AccountsInvariance` | `AccountsAreSound`, `AdminRemains`, `NothingResurrects` |
| `MaintenanceProofs` | `MaintenanceInvariance` | `DownIsRecoverable`, `JobsAreSound` |
| `MaintenanceProofs`, of `Startup` | `UpgradeInvariant` | `CrashesLeaveNoTrace`, `ServedIsSound` |
| `AttachmentsProofs` | `AttachmentsInvariance` | `CatalogIsSound`, `AcknowledgedIsKept`, `LeftoversAreSwept` |
| `ArchiveProofs` | `ArchiveInvariance` | `NothingIsLost`, `ArchiveIsSound`, `ChangesAreCareful` |
| `EditorProofs` | `EditorInvariance` | `StoreIsSound`, `AcknowledgedEditsSurvive`, `NothingSeenIsDropped` |
| `RecordsProofs` | `RecordsInvariance` | `RecordsAreSound`, `WritesAreGuarded`, `NothingDangles`, `ImportsAreFaithful` |

**The arguments.** None of the properties is inductive alone; what `IInv` adds
is the argument.

* *Updater*. `IInv` says, for each step `pc`, where the originals are, which image
  owns the live container and the spare, and what the job reports (`StepInv`);
  that a reported outcome matches files and containers once the updater is idle
  (`JournalInv`); and that an unlaunched job has touched nothing (`LaunchInv`).
  That a rollback can restore depends on the snapshot having been complete when
  the job entered the switching phase, which only `pc` knows. The refinement
  follows from what each step does to the reported outcome (`QuietStep`).
* *Designer, Proposals, Packages*. The registry of a candidate is closed under
  references although one-by-one acceptance is a least set: what lacks a symbol
  could be taken out of the set, which would not be least
  (`AcceptedOneByOneIsClosed`). `SavedInv` says that what the catch block and the
  two databases go back to is whole too, and is what the change set was
  validated against; `FreshInv` that, while nothing has been reported, the live
  registry is that of what is stored or about to be; `ProposalInv` is
  the ledger of storings and marks, and `LostInv`, proved beside it, charges each
  lost mark to a fault or a restart; `ManifestInv` makes an import's merge of manifests total.
* *Accounts*. An administrator remains because the check and the write are one
  step and the migrations only add rights until `revoked` is non-empty; then
  nothing of an older release is left to migrate (`RevokedInv`), which needs the
  order in which the stages empty the old tables (`LegacyInv`). `OwnersInv` says
  that nobody can be given a name that a session is still open for.
* *Maintenance*. Unless a state file was overwritten, an open job's file is its
  own and says running (`OpenInv`), and the application is down on account of one
  job whose file is still its own, because no handler is left that could write it
  (`DownInv`); that job is at work, or asked for an administrator, or was given up
  while its file says running (`Accounted`), so that the next recovery finds it.
* *Startup*. Until a designer changes anything, the older release's artifacts are
  in one of four phases (`Underway`): being gathered from seeds and the older
  table, gathered, with their models, or finished. A start that dies repeats
  statements of a phase that is over, and for each phase this changes nothing
  more: what has been gathered is a part of `Gathered`, whichever rows are still
  missing (`Gathering`, `GatheredValue`); models harvested twice are those
  harvested once (`ModelledAgain`), which matters because the mark is in the
  other database; extensions are renamed in the transaction that sets their mark
  (`CanonicalOf`). For what designers do afterwards, no stage puts back what was
  deleted, since before anything could be deleted the marks were set and the
  older table was gone (`Gone`); what is shipped is still there as it was seeded
  (`SeededStays`), so that the next start does not write over a designer's work;
  and no route takes an artifact out of its app's models, but by another manifest
  (`ChangeInModels`).
* *Attachments*. Between any two awaits a row's blob is that of a finished upload
  (`RowInv`), what is about to be unlinked has no row and never will (`GoneInv`),
  and what the scan's copy of the catalog lacks overlapped its listing
  (`ScanInv`); a file nobody accounts for is one the scan still comes by
  (`SweptInv`). A step cut in two leaves fewer rows and the same blob rows, which
  are then accounted for (`Torn`).
* *Archive*. What is saved to a live document and listed in its entity was taken,
  came later, or is a file of a line still to be read (`TakenInv`); a copy that is not whole is being
  written or broke off (`ShaInv`); rows whose files are unlinked are gone for
  good (`UnlinkInv`), since an id is not given again.
* *Editor*. An edit has a home, the artifact it was saved to; what has none is in
  an unsaved page of its author (`Private`). A browser knows its own designer's
  edits from every answer that was not overtaken by a later save (`Aware`), and a
  page keeps what it was taken up with (`Keeping`). The lists that menus and
  forms are merged from are drawn from edits of their own (`PartsInv`), and the
  menu item appears in one only once the form was stored.
* *Records*. A commit compares the open transaction with what it began from, a
  row-by-row import each row with its savepoint. `IInv` therefore says of the
  store, against the committed base, what a single operation does (`Reached`): every table that changed has its guard
  among those that will run, every change was permitted when it was made, no id
  is given twice. It says so of each savepoint too, so that
  going back to one is no exception. A cascade's frame has its table guarded and
  its deletion permitted, and holds children of its next reference only;
  `DraftFits` ties a draft to the records born of it. A preview holds rows that
  fit their tables. That a deletion leaves no reference behind is an invariant of the
  cascade (`TiedInv`): a call has no child left along the references it is done
  with, except rows that a call further up is deleting; what a row referred to in
  the base is there, or the row is itself being deleted; and only the innermost
  call nulls children, which are still as it read them, so that writing them back
  undoes nothing. When the last call returns, nothing is being deleted, and the
  exceptions are gone. For a replaced app, `SeenInv` says that what a preview
  read of the other apps is whole together with the rows it brings. An import's
  tally is compared with the store twice (`ImportInv`): what is reported with the
  committed base, what is pending with the open transaction, since a row that
  fails takes its counts with it. Keys stay unique where looking up and storing
  agree on the cell (`SureKeys`, `Fair`). What a user may do depends on no variable but the licences,
  which `LicencesRenew` and `RecordsAreLicensed` treat apart.

**What is assumed.** The assumptions of the modules say what kind of thing a
constant is. Those that say more are facts about the code or about its data:
`PackageAssumption` and `ManifestsAssumption` that a package is that of one app
and carries its manifest (`metadataPackage.ts:58`); `OriginsAssumption` that the
tables of an older release hold rows of their columns and no session outliving
its user or password; `PartsAssumption` that a file's line is there when a file
is; `TablesAssumption` that a secret is a text without a default
(`registry.ts:578-579`) and that a reference
has a table to refer to (`registry.ts:572`); `RequestsAssumption` that a document to be imported
holds no mask, which an export never writes (`dataEntities.ts:20`): a file in
which somebody typed it would be stored as it is; `ImportsAssumption` that an
import answers for the keys its rows are looked up by, and of a document's header
only for one that may be entered when it is created. The registry does not ask
that of a business key (`registry.ts:840`); a key that is read-only is left out
of the new row (`dataEntities.ts:74`), which the next import then does not find.
`ArtifactsAssumption` says that a manifest stands under its app's name, that the
seeder ships no manifests and no extensions, and all in the framework's app and
in a model (`seeder.ts:20`), and that it deletes nothing it ships (`seeder.ts:61`);
`OlderReleaseAssumption` that an older release's names stay distinct when they
are replaced (`server.ts:164`), that what became obsolete are forms and a report
of the framework, whose manifest is registered and not stored, and that an
artifact of the app `web` without a model has a manifest beside it. TLC evaluates
both on the instance of `startup`.

Three modules have theorems with a hypothesis:

* `Benign`, in `UpdaterProofs` except for `TypeCorrect`: lookups do not lie and
  cleanups do not throw. `updater_cleanup`, and `FailedMeansUndone`
  with `LookupFaults` (section 3), are counterexamples without it. Calls that
  throw, and errors that are only logged, it allows.
* `CommitsTogether`, in `DesignerProofs`: the designer database commits once the
  data database has. The code cannot take the first commit back when the second
  fails (section 3); a crash between the two is not excluded.
* `ReferencesLive`, in `RecordsProofs` for `ReferencesHold`: no operation makes a
  row refer to one that its own transaction has deleted. The routes' transactions
  are one operation, or an entity document's, which deletes nothing; only a
  script could delete a row and then file another one under it, and the code
  would not notice: `validateWrite()` does not look a reference up
  (`context.ts:109`). The instance of `records` meets the hypothesis.

**What the proofs found.** `ApplyBuild` of `Editor` acknowledged the last edit
made, which is the reviewed one as long as there is one browser, and another
browser's otherwise; it now acknowledges what its draft holds. The initial parts
of `Archive` and the users of `Editor` needed assumptions that the instances met
silently. So did the requests, licences and tables of `Records`; there, a line of
an entity document could name its parent itself and be filed under it, where
`dataEntities.ts:97` lets the parent's id win, as it now does. That an import doubles no key turned out
to depend on how the key may be edited (above). `CrashesLeaveNoTrace` of `Startup`
had to admit that forms may be missing: an obsolete form under its oldest name
(`SystemUserForm`) becomes `FW_UserForm` after the seeder has looked for it, is
served once, and is gone with the next start (`seeder.ts:61`, `server.ts:358-359`).
`ModelsAreHarvested` does not reach the app `web`: artifacts without an app are put
into its model `ClientCustom` whatever its manifest declares (`server.ts:257-268`).
Nor does it hold for an app whose manifest designers save anew, without the
models it had learnt. And where the two databases do not fit, a deleted manifest
of `web` is made again.

**Only model-checked.** Liveness (`JobEnds`, `ScanEnds`, `EligibleIsArchived`,
`EveryRequestEnds`) is beyond the prover. So is what a recursive definition
computes for every input: `Registry` and `WebLayer` register, extend and
validate by recursion over lists of artifacts, and `ExtensionEditor` builds
trees, so their properties are statements by induction over data.

## 5. Plan

1. *Done*: all modules above, with the proofs of section 4.
2. Function chains over `Records` (`kernel.ts:613`): a chain that calls its next
   link exactly once, in a transaction or not.
3. Restores that race the recovery scan: `Archive` composed with `Attachments`.

### Not modelled

Integration services, fonts, navigation preferences, views, framework texts and
localisation are single reads and writes of rows, in which no order of steps can
go wrong. Reports render documents. Client pages other than the designer's show
what the server answers, which checks every request again. The command-line
scripts and the workspace loader read files and belong to the build. The cipher,
signatures of licences, hashing, and the parsing of spreadsheets and packages
are taken to do what they say. Chains of Functions and the attachments' check of
a Function's images change nothing by themselves and are planned (3).
