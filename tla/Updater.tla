------------------------------- MODULE Updater -------------------------------
(***************************************************************************)
(* The Docker updater (packages/server/src/updater.ts): one maintenance    *)
(* job - a framework update or a backup restore - carried out step by step *)
(* against the application container and the persistent files, journalled  *)
(* in a state file, with compensation when a step throws and recovery when *)
(* the updater process itself restarts between two steps.                  *)
(*                                                                         *)
(* Every awaited call of update(), restore(), rollbackUpdate(),            *)
(* rollbackRestore() and the recover functions is a step named by pc.  A   *)
(* directory or database file is one entry of Entries whose content is     *)
(* known only by its origin; copying the entries is one step per entry and *)
(* an overwritten entry is first removed ("gap").                          *)
(***************************************************************************)
EXTENDS Naturals

CONSTANTS
    Entries,     \* persistent files and directories the job covers
    FaultKinds,  \* which faults the environment injects
    MaxFaults,   \* bound on injected faults
    MaxCrashes   \* bound on restarts of the updater process

ASSUME ConstantsAssumption ==
    /\ Entries # {}
    /\ FaultKinds \subseteq {"call", "cleanup", "lookup", "recover"}
    /\ MaxFaults \in Nat
    /\ MaxCrashes \in Nat

VARIABLES
    kind,      \* "update" or "restore"
    pc,        \* the step the updater process is about to take
    launched,  \* the server's one launch call has been answered
    stopped,   \* local of update()/restore(): stopApp() has returned
    sawSpare,  \* local of rollbackUpdate(): the rollback container was found
    todo,      \* entries the running copy loop has not finished
    job,       \* the job's state file
    app,       \* image of the container named appContainer, "none" if absent
    running,   \* that container is running
    spare,     \* image of the renamed rollback container, "none" if absent
    data,      \* content of the live persistent entries
    snap,      \* content of the entries of the recovery directory
    manifest,  \* the recovery directory holds manifest.json
    faults, crashes

local      == <<stopped, sawSpare, todo>>
containers == <<app, running, spare>>
recovery   == <<snap, manifest>>
budget     == <<faults, crashes>>
vars == <<kind, pc, launched, local, job, containers, data, recovery, budget>>

Active   == {"pending", "running", "restarting"}
Statuses == Active \union {"succeeded", "failed"}
Phases   == {"preparing", "stopping", "snapshotting", "switching", "restoring", "verifying",
             "completed", "rolling_back", "rolled_back", "recovery_required"}
Rollbacks == {"not_required", "running", "succeeded", "failed"}
Contents  == {"orig", "new", "staged", "gap"}

TaskSteps     == {"check", "stopping", "stop", "snapshotting", "copy", "switching", "rename",
                  "create", "restoring", "replace", "verifying", "start", "health", "succeed"}
RollbackSteps == {"rbClear", "rbRestore", "rbRename", "rbStart", "rbHealth", "rbDone"}
Steps == TaskSteps \union RollbackSteps
           \union {"idle", "unrecovered", "down", "boot", "prepare", "discardOld", "discardSnap",
                   "failEarly", "rbPatch", "rbFail", "resStart", "resHealth", "resDone"}

(* The updater listens for requests: it has finished, or an error that is  *)
(* only logged made it leave the job as it was ("unrecovered").            *)
Listening == {"idle", "unrecovered"}

All(content) == [e \in Entries |-> content]

(* patchState() on the way from one step to the next: nothing else changes.*)
Journal(step, next, status, phase, rollback, required) ==
    /\ pc = step /\ pc' = next
    /\ job' = [status |-> status, phase |-> phase, rollback |-> rollback, required |-> required]
    /\ UNCHANGED <<kind, launched, local, containers, data, recovery, budget>>
(* A step that decides where to go and changes nothing but that.           *)
Move(step, next) ==
    /\ pc = step /\ pc' = next
    /\ UNCHANGED <<kind, launched, local, job, containers, data, recovery, budget>>

(* Whether a call of this kind throws or lies, and its charge on the bound. *)
Faulty(fault) == IF fault \in FaultKinds /\ faults < MaxFaults THEN BOOLEAN ELSE {FALSE}
Charge(faulty) == faults' = IF faulty THEN faults + 1 ELSE faults

Init ==
    /\ kind \in {"update", "restore"}
    /\ pc = "idle" /\ launched = FALSE
    /\ stopped = FALSE /\ sawSpare = FALSE /\ todo = {}
    /\ job = [status |-> "pending", phase |-> "preparing",
              rollback |-> "not_required", required |-> FALSE]
    /\ app = "old" /\ running = TRUE /\ spare = "none"
    /\ data = All("orig") /\ snap = All("missing") /\ manifest = FALSE
    /\ faults = 0 /\ crashes = 0

-----------------------------------------------------------------------------
(* The launch call of the server and the start of the task. *)

Accept ==
    /\ pc \in Listening /\ ~launched
    /\ launched' = TRUE /\ pc' = "prepare"
    /\ UNCHANGED <<kind, local, job, containers, data, recovery, budget>>

LaunchFails ==
    /\ ~launched /\ running
    /\ launched' = TRUE
    /\ job' = [status |-> "failed", phase |-> "preparing",
               rollback |-> "not_required", required |-> FALSE]
    /\ UNCHANGED <<kind, pc, local, containers, data, recovery, budget>>

Prepare == Journal("prepare", "check", "running",
                   IF kind = "update" THEN "preparing" ELSE "stopping", "not_required", FALSE)

(* Image pull, image inspection and the mount check: nothing changes.      *)
Check == Move("check", IF app = "none" THEN "failEarly"
                       ELSE IF kind = "update" THEN "stopping" ELSE "stop")

(* The phases journalled between the steps.                                *)
Enter(step, next, status, phase) == Journal(step, next, status, phase, job.rollback, job.required)

EnterPhase ==
    \/ Enter("stopping", "stop", job.status, "stopping")
    \/ Enter("switching", "rename", "restarting", "switching")
    \/ Enter("restoring", "replace", job.status, "restoring")
    \/ kind = "update" /\ Enter("verifying", "health", job.status, "verifying")
    \/ kind = "restore" /\ Enter("verifying", "start", "restarting", "verifying")

(* stopApp(): a stop is posted and verified only for a container that the  *)
(* lookup reports as running; containerInfo() answers null when there is   *)
(* no container and also when the Docker call itself fails.                *)
StopApp(lookupFails) == running' = (lookupFails /\ running)

Stop ==
    /\ pc = "stop"
    /\ \E lookupFails \in Faulty("lookup") : StopApp(lookupFails) /\ Charge(lookupFails)
    /\ stopped' = TRUE /\ pc' = "snapshotting"
    /\ UNCHANGED <<kind, launched, sawSpare, todo, job, app, spare, data, recovery, crashes>>

(* snapshot(): journal the phase and clear the recovery directory ...      *)
BeginSnapshot ==
    /\ pc = "snapshotting"
    /\ job' = [status |-> job.status, phase |-> "snapshotting",
               rollback |-> job.rollback, required |-> job.required]
    /\ snap' = All("missing") /\ manifest' = FALSE
    /\ todo' = Entries /\ pc' = "copy"
    /\ UNCHANGED <<kind, launched, stopped, sawSpare, containers, data, budget>>

(* ... copy the entries one by one, and write the manifest last.           *)
CopyEntry ==
    /\ pc = "copy"
    /\ \E e \in todo : snap' = [snap EXCEPT ![e] = data[e]] /\ todo' = todo \ {e}
    /\ UNCHANGED <<kind, pc, launched, stopped, sawSpare, job, containers, data, manifest, budget>>

(* Mutant: the manifest is written before the last entry is copied.        *)
WriteManifestEarly ==
    /\ pc = "copy" /\ manifest' = TRUE
    /\ IF kind = "update" THEN pc' = "switching" /\ todo' = {}
                          ELSE pc' = "restoring" /\ todo' = Entries
    /\ UNCHANGED <<kind, launched, stopped, sawSpare, job, containers, data, snap, budget>>

WriteManifest ==
    /\ pc = "copy" /\ todo = {}
    /\ manifest' = TRUE
    /\ IF kind = "update" THEN pc' = "switching" /\ todo' = {}
                          ELSE pc' = "restoring" /\ todo' = Entries
    /\ UNCHANGED <<kind, launched, stopped, sawSpare, job, containers, data, snap, budget>>

-----------------------------------------------------------------------------
(* The switch to the new image, or the replacement of the restored files.  *)

Rename ==
    /\ pc = "rename"
    /\ spare' = app /\ app' = "none" /\ running' = FALSE
    /\ pc' = "create"
    /\ UNCHANGED <<kind, launched, local, job, data, recovery, budget>>

Create ==
    /\ pc = "create"
    /\ app' = "new" /\ running' = FALSE
    /\ pc' = "start"
    /\ UNCHANGED <<kind, launched, local, job, spare, data, recovery, budget>>

(* An entry is removed, then written again from its source.                *)
Overwrite(e, source) ==
    IF data[e] = "gap"
    THEN data' = [data EXCEPT ![e] = source] /\ todo' = todo \ {e}
    ELSE data' = [data EXCEPT ![e] = "gap"] /\ todo' = todo

ReplaceEntry ==
    /\ pc = "replace"
    /\ IF todo = {} THEN pc' = "verifying" /\ UNCHANGED <<data, todo>>
       ELSE pc' = pc /\ \E e \in todo : Overwrite(e, "staged")
    /\ UNCHANGED <<kind, launched, stopped, sawSpare, job, containers, recovery, budget>>

Start ==
    /\ pc = "start"
    /\ running' = TRUE
    /\ pc' = IF kind = "update" THEN "verifying" ELSE "health"
    /\ UNCHANGED <<kind, launched, local, job, app, spare, data, recovery, budget>>

(* waitHealthy(): healthy, or unhealthy, exited or timed out.              *)
Healthy == running /\ Move("health", "succeed")

(* Mutant: running out of health checks counts as healthy.                 *)
UnhealthyIgnored ==
    /\ pc = "health" /\ pc' = "succeed"
    /\ running' \in BOOLEAN /\ (running' => running)
    /\ UNCHANGED <<kind, launched, local, job, app, spare, data, recovery, budget>>

Unhealthy ==
    /\ pc = "health" /\ pc' = "rbPatch"
    /\ running' \in BOOLEAN /\ (running' => running)
    /\ UNCHANGED <<kind, launched, local, job, app, spare, data, recovery, budget>>

Succeed == Journal("succeed", IF kind = "update" THEN "discardOld" ELSE "discardSnap",
                   "succeeded", "completed", "not_required", FALSE)

(* A rollback container that cannot be deleted is only logged.             *)
DiscardOld ==
    /\ pc = "discardOld"
    /\ spare' \in {"none", spare}
    /\ pc' = "discardSnap"
    /\ UNCHANGED <<kind, launched, local, job, app, running, data, recovery, budget>>

(* rm() of the recovery directory.  It stands inside the try of the task   *)
(* and of the rollback, and may throw after removing part of the directory.*)
DiscardSnap ==
    /\ pc = "discardSnap"
    /\ \E throws \in Faulty("cleanup") :
         /\ IF throws
            THEN /\ \E left \in SUBSET Entries :
                      snap' = [e \in Entries |-> IF e \in left THEN snap[e] ELSE "missing"]
                 /\ manifest' \in BOOLEAN /\ (manifest' => manifest)
                 /\ pc' = IF job.phase = "completed" THEN "rbPatch" ELSE "rbFail"
            ELSE snap' = All("missing") /\ manifest' = FALSE /\ pc' = "idle"
         /\ Charge(throws)
    /\ UNCHANGED <<kind, launched, local, job, containers, data, crashes>>

(* The catch of update() and restore() before the application was stopped. *)
FailEarly == Journal("failEarly", "idle", "failed", "completed", "not_required", FALSE)

-----------------------------------------------------------------------------
(* rollbackUpdate() and rollbackRestore().                                 *)

RbPatch == Journal("rbPatch", "rbClear", "running", "rolling_back", "running", job.required)

(* Mutants: the snapshot is not restored; the current container is deleted *)
(* with nothing to replace it; a restore is rolled back under a live app.  *)
RbClearNoRestore ==
    /\ pc = "rbClear" /\ pc' = "rbRestore" /\ todo' = {}
    /\ sawSpare' = (spare # "none") /\ running' = FALSE
    /\ app' = IF kind = "update" /\ spare # "none" THEN "none" ELSE app
    /\ UNCHANGED <<kind, launched, stopped, job, spare, data, recovery, budget>>

RbClearAlways ==
    /\ pc = "rbClear" /\ pc' = "rbRestore" /\ todo' = IF manifest THEN Entries ELSE {}
    /\ sawSpare' = (spare # "none") /\ running' = FALSE
    /\ app' = IF kind = "update" THEN "none" ELSE app
    /\ UNCHANGED <<kind, launched, stopped, job, spare, data, recovery, budget>>

RbClearNoStop ==
    /\ pc = "rbClear" /\ pc' = "rbRestore" /\ todo' = IF manifest THEN Entries ELSE {}
    /\ sawSpare' = (spare # "none")
    /\ IF kind = "update" /\ spare # "none" THEN app' = "none" /\ running' = FALSE
                                            ELSE UNCHANGED <<app, running>>
    /\ UNCHANGED <<kind, launched, stopped, job, spare, data, recovery, budget>>

(* The failed container is deleted when the previous one waits under its   *)
(* rollback name, else it is only stopped.                                 *)
RbClear ==
    /\ pc = "rbClear"
    /\ \E lookupFails \in Faulty("lookup") :
         LET old == spare # "none" /\ ~lookupFails IN
         /\ IF kind = "update" /\ old
            THEN app' = "none" /\ running' = FALSE
            ELSE app' = app /\ \E stopFails \in {FALSE, lookupFails} : StopApp(stopFails)
         /\ sawSpare' = old
         /\ Charge(lookupFails)
    /\ pc' = "rbRestore" /\ todo' = IF manifest THEN Entries ELSE {}
    /\ UNCHANGED <<kind, launched, stopped, job, spare, data, recovery, crashes>>

(* restoreSnapshot(): an entry the snapshot lost makes the copy throw      *)
(* after the live entry was removed.  Without a manifest rollbackUpdate()  *)
(* skips the restore, and rollbackRestore() fails on reading it.           *)
RestoreEntry ==
    /\ pc = "rbRestore" /\ todo # {}
    /\ \E e \in todo :
         IF data[e] = "gap" /\ snap[e] = "missing"
         THEN pc' = "rbFail" /\ UNCHANGED <<data, todo>>
         ELSE Overwrite(e, snap[e]) /\ pc' = pc
    /\ UNCHANGED <<kind, launched, stopped, sawSpare, job, containers, recovery, budget>>

RestoreDone ==
    /\ todo = {}
    /\ Move("rbRestore", IF kind = "restore" /\ ~manifest THEN "rbFail"
                         ELSE IF kind = "update" /\ sawSpare THEN "rbRename" ELSE "rbStart")

RbRename ==
    /\ pc = "rbRename"
    /\ app' = spare /\ spare' = "none" /\ running' = FALSE
    /\ pc' = "rbStart"
    /\ UNCHANGED <<kind, launched, local, job, data, recovery, budget>>

(* startContainer(): throws when the container does not exist.             *)
RbStart ==
    /\ pc = "rbStart"
    /\ pc' = IF app = "none" THEN "rbFail" ELSE "rbHealth"
    /\ running' = (running \/ app # "none")
    /\ UNCHANGED <<kind, launched, local, job, app, spare, data, recovery, budget>>

RbHealth == Move("rbHealth", "rbDone")
RbDone   == Journal("rbDone", "discardSnap", "failed", "rolled_back", "succeeded", FALSE)
RbFail   == Journal("rbFail", "idle", "failed", "recovery_required", "failed", TRUE)

-----------------------------------------------------------------------------
(* Restart of the updater: recoverInterruptedJobs(), before it listens.    *)

updateChangedState(phase, hasSnapshot, hasRollbackContainer) ==
    \/ hasSnapshot \/ hasRollbackContainer
    \/ phase \notin {"preparing", "stopping"}

(* Mutant: an interrupted restore resumes whatever the snapshot says.      *)
interruptedRestoreAlwaysResumes(phase, hasSnapshot) ==
    IF phase \in {"stopping", "snapshotting", "restoring", "verifying"} THEN "resStart"
    ELSE "rbFail"

interruptedRestoreAction(phase, hasSnapshot) ==
    IF hasSnapshot THEN "rbPatch"
    ELSE IF phase \in {"stopping", "snapshotting"} THEN "resStart"
    ELSE "rbFail"

(* Mutant: a pending job is not recovered.                                 *)
BootSkipsPending ==
    Move("boot", IF job.status \notin Active \ {"pending"} THEN "idle"
                 ELSE IF kind = "restore" THEN interruptedRestoreAction(job.phase, manifest)
                 ELSE IF updateChangedState(job.phase, manifest, spare # "none") THEN "rbPatch"
                 ELSE "resStart")

Boot ==
    Move("boot", IF job.status \notin Active THEN "idle"
                 ELSE IF kind = "restore" THEN interruptedRestoreAction(job.phase, manifest)
                 ELSE IF updateChangedState(job.phase, manifest, spare # "none") THEN "rbPatch"
                 ELSE "resStart")

(* A container that cannot be started or is not healthy makes the recover  *)
(* function throw: the error is logged and the state file left as it was.  *)
ResumeStart ==
    /\ pc = "resStart"
    /\ \E throws \in Faulty("recover") :
         /\ pc' = IF throws \/ app = "none" THEN "unrecovered" ELSE "resHealth"
         /\ running' = (running \/ (~throws /\ app # "none"))
         /\ Charge(throws)
    /\ UNCHANGED <<kind, launched, local, job, app, spare, data, recovery, crashes>>

ResumeHealthy ==
    /\ pc = "resHealth"
    /\ \E throws \in Faulty("recover") :
         pc' = (IF throws THEN "unrecovered" ELSE "resDone") /\ Charge(throws)
    /\ UNCHANGED <<kind, launched, local, job, containers, data, recovery, crashes>>

ResumeDone == Journal("resDone", "idle", "failed", "completed", "not_required", FALSE)

-----------------------------------------------------------------------------
(* The environment: crashes of the updater, calls that throw without       *)
(* effect, and the new image at work.                                      *)

Crash ==
    /\ pc # "down" /\ crashes < MaxCrashes
    /\ pc' = "down" /\ crashes' = crashes + 1
    /\ stopped' = FALSE /\ sawSpare' = FALSE /\ todo' = {}
    /\ UNCHANGED <<kind, launched, job, containers, data, recovery, faults>>

Restart == Move("down", "boot")

(* The handler a throwing step lands in.                                   *)
Catch ==
    IF pc = "prepare" \/ pc \in RollbackSteps THEN "rbFail"
    ELSE IF stopped THEN "rbPatch" ELSE "failEarly"

StepThrows ==
    /\ "call" \in FaultKinds /\ faults < MaxFaults
    /\ pc \in TaskSteps \union RollbackSteps \union {"prepare"}
    /\ pc' = Catch /\ faults' = faults + 1
    /\ UNCHANGED <<kind, launched, local, job, containers, data, recovery, crashes>>

(* patchState() itself throws: in a task runBackground() catches and tries *)
(* once more to record the failure, then only logs; the recovery only logs.*)
JournalThrows ==
    /\ "recover" \in FaultKinds /\ faults < MaxFaults
    /\ \/ pc = "failEarly" /\ pc' = "rbFail"
       \/ pc = "rbPatch" /\ pc' = IF stopped THEN "rbFail" ELSE "unrecovered"
       \/ pc = "rbFail" /\ pc' \in IF stopped THEN {"rbFail", "unrecovered"} ELSE {"unrecovered"}
       \/ pc = "resDone" /\ pc' = "unrecovered"
    /\ faults' = faults + 1
    /\ UNCHANGED <<kind, launched, local, job, containers, data, recovery, crashes>>

(* The new release migrates and writes the files it is started on.         *)
NewImageWrites ==
    /\ running /\ app = "new"
    /\ \E e \in Entries : data' = [data EXCEPT ![e] = "new"]
    /\ data' # data
    /\ UNCHANGED <<kind, pc, launched, local, job, containers, recovery, budget>>

Forward == \/ Accept \/ Prepare \/ Check \/ EnterPhase \/ Stop
           \/ BeginSnapshot \/ CopyEntry \/ WriteManifest
           \/ Rename \/ Create \/ ReplaceEntry \/ Start \/ Healthy \/ Unhealthy
           \/ Succeed \/ DiscardOld \/ DiscardSnap \/ FailEarly
Rollback == \/ RbPatch \/ RbClear \/ RestoreEntry \/ RestoreDone \/ RbRename
            \/ RbStart \/ RbHealth \/ RbDone \/ RbFail
Recover == Restart \/ Boot \/ ResumeStart \/ ResumeHealthy \/ ResumeDone
Environment == \/ LaunchFails \/ Crash \/ StepThrows \/ JournalThrows \/ NewImageWrites

Next == Forward \/ Rollback \/ Recover \/ Environment

Spec == Init /\ [][Next]_vars

(* The updater is one asynchronous program whose container restarts        *)
(* unless-stopped: it keeps taking its next step, whatever that is ...     *)
AsksDocker == {"check", "stop", "rename", "create", "start", "health", "discardOld", "rbClear",
               "rbRename", "rbStart", "rbHealth", "boot", "resStart", "resHealth"}
ProgramRuns   == WF_vars(pc \notin AsksDocker /\ (Forward \/ Rollback \/ Recover))
(* ... and, which the code does not ensure since docker() sets no time     *)
(* limit, Docker answers each call, be it with an error.                   *)
DockerAnswers == WF_vars(pc \in AsksDocker /\ (Forward \/ Rollback \/ Recover))

FairSpec == Spec /\ ProgramRuns /\ DockerAnswers

-----------------------------------------------------------------------------
TypeOK ==
    /\ kind \in {"update", "restore"}
    /\ pc \in Steps
    /\ launched \in BOOLEAN /\ stopped \in BOOLEAN /\ sawSpare \in BOOLEAN
    /\ todo \subseteq Entries
    /\ job \in [status : Statuses, phase : Phases, rollback : Rollbacks, required : BOOLEAN]
    /\ app \in {"none", "old", "new"} /\ running \in BOOLEAN /\ spare \in {"none", "old", "new"}
    /\ data \in [Entries -> Contents]
    /\ snap \in [Entries -> Contents \union {"missing"}]
    /\ manifest \in BOOLEAN
    /\ faults \in Nat /\ crashes \in Nat

(* Until a job has succeeded, the persistent files as they were before it  *)
(* can be had back: they are live and whole, or a snapshot with its        *)
(* manifest holds every one of them.  release-notes/1.0.2.md:15 promises   *)
(* that recovery artifacts outlive a rollback that cannot finish.          *)
OriginalsRecoverable ==
    \/ job.status = "succeeded"
    \/ data = All("orig")
    \/ manifest /\ snap = All("orig")

(* A job reported failed with no recovery required has left no trace: the  *)
(* original files are live under the original image (rolled_back, or       *)
(* failed before anything changed).                                        *)
FailedMeansUndone ==
    job.status = "failed" /\ ~job.required => data = All("orig") /\ app = "old"

(* A job reported succeeded is in force: the new image runs, or every      *)
(* selected component is the backup's.                                     *)
SucceededMeansDone ==
    job.status = "succeeded" =>
        IF kind = "update" THEN app = "new" ELSE app = "old" /\ data = All("staged")

(* Until success the previous image still has a container to go back to.   *)
PreviousImageKept ==
    job.status # "succeeded" => app = "old" \/ spare = "old"

(* The previous image never serves a half-copied or migrated store: while  *)
(* it runs, its files are all original or all restored.                    *)
NeverServesMixedData ==
    running /\ app = "old" => data \in {All("orig"), All("staged")}

(* The updater copies from and writes to the live files only while the     *)
(* application is stopped (stopApp's "persistent files were not changed"). *)
FilesTouchedOnlyWhenStopped ==
    [][ (\/ \E e \in Entries : snap'[e] \notin {"missing", snap[e]}
         \/ data' # data /\ ~NewImageWrites) => ~running ]_vars

(* Every accepted or interrupted job ends, so that it does not block the   *)
(* next one for ever - unless an error the updater only logs (a container  *)
(* that cannot be started again, a state file that cannot be written) made *)
(* it leave the job unrecovered: then nothing but its next restart resumes.*)
JobEnds == (job.status \in Active) ~> (job.status \notin Active \/ pc = "unrecovered")

(* When nothing is left for the updater to do, the application runs, or    *)
(* the job says that manual recovery is required.                          *)
NeverLeftDown ==
    pc \in Listening /\ launched /\ job.status \notin Active => running \/ job.required

(* Once the updater has started up again, no interrupted job is still      *)
(* reported in progress (release-notes/1.0.1.md:19: it is marked failed).  *)
InterruptedJobMarked ==
    pc \in Listening /\ crashes > 0 /\ launched => job.status \notin Active

(* Refinement: the journalled outcome and the service users see follow the *)
(* all-or-nothing promise of MaintenanceJob.                               *)
Service == IF ~running THEN "down"
           ELSE IF app = "new" \/ data = All("staged") THEN "after" ELSE "before"
Outcome == IF job.status \in Active THEN "open"
           ELSE IF job.status = "succeeded" THEN "done"
           ELSE IF job.required THEN "manual" ELSE "undone"
Promise == INSTANCE MaintenanceJob WITH outcome <- Outcome, service <- Service

(* The updater implements that promise: a job commits only while its result*)
(* is being served, reports failure without recovery_required only while   *)
(* the previous state is being served, and never goes back on a success.   *)
KeepsPromise == Promise!Spec

(* The updater's job is sound: its journal is well typed, its success is   *)
(* in force, until then there is an image to go back to, and the end of a  *)
(* job does not leave the application down without a word.                 *)
JobIsSound == TypeOK /\ SucceededMeansDone /\ PreviousImageKept /\ NeverLeftDown
=============================================================================
