------------------------------ MODULE Maintenance ------------------------------
(***************************************************************************)
(* The maintenance routes of the application (systemMaintenance.ts) and    *)
(* the updater's front door (updater.ts): several administrators start     *)
(* updates and restores at once.  A request handler checks the job's state *)
(* file, prepares, writes the file and launches the job over HTTP; the     *)
(* updater reads the call, turns busy and runs the job against the same    *)
(* file, checking before every write that the file is still its own.  What *)
(* a job does to containers and data, step by step, is Updater's subject.  *)
(***************************************************************************)
EXTENDS Naturals, FiniteSets

CONSTANTS
    Actors,      \* framework administrators
    Backups,     \* the archives that are uploaded
    MaxRequests, \* bound on maintenance requests; requests number their jobs
    MaxPreviews, \* bound on uploaded backups
    MaxCrashes   \* bound on restarts of the application and of the updater

ASSUME ConstantsAssumption == MaxRequests \in Nat /\ MaxPreviews \in Nat /\ MaxCrashes \in Nat

VARIABLES
    file,     \* the state file of each kind of job
    req,      \* the request handlers of the application
    preview,  \* restorePreviews
    call,     \* the launch call of each request, on its way or at the updater
    busy,     \* the updater's flag
    task,     \* the background job of each request
    stoppedBy, \* 0 while the application container runs, else the job that stopped it last
    crashes,
    contested,   \* history: a job's file was overwritten before the job had ended
    unrecovered  \* history: jobs the updater gave up with only its log to say so

vars == <<file, req, preview, call, busy, task, stoppedBy, crashes, contested, unrecovered>>
updater == <<busy, task, unrecovered>>

Kinds    == {"update", "restore"}
Requests == 1..MaxRequests
Uploads  == 1..MaxPreviews
Active   == {"pending", "running", "restarting"}
(* A failed job whose phase is recovery_required has a status of its own.  *)
Statuses == Active \union {"none", "succeeded", "failed", "recovery_required"}
None     == [id |-> 0, status |-> "none"]
Job(r, status) == [id |-> r, status |-> status]
-----------------------------------------------------------------------------
(* Backup archives: one database and one directory component stand for the *)
(* two and three the code knows.  An entry of the zip is "listed" by the   *)
(* manifest with its checksum, "torn" when its bytes differ from it, or    *)
(* "stray" when the manifest does not list it; the manifest can also list  *)
(* a file that is "lost".                                                  *)
Components == {"data", "files"}
Archives == [schema : {2, 4, 5}, declared : SUBSET (Components \union {"unknown"}),
             newer : BOOLEAN, entry : [Components -> {"none", "listed", "torn", "stray", "lost"}]]

(* Before schema 3 a manifest declares nothing and stands for a full backup.*)
Restored(a) == IF a.schema < 3 THEN {"data"} ELSE a.declared \intersect Components

validateArchive(a) ==
    /\ a.schema \in 1..4 /\ ~a.newer
    /\ Restored(a) # {}
    /\ "data" \in Restored(a) => a.entry["data"] # "none"
    /\ \A c \in Components : a.entry[c] \in {"none", "listed"}
    /\ \A c \in Components : a.entry[c] = "listed" => c \in Restored(a)

ASSUME BackupsAssumption == Backups \subseteq Archives

(* What a preview keeps of an archive that validates.                      *)
Parsed == {[components |-> Restored(a), staged |-> {c \in Components : a.entry[c] = "listed"}] :
               a \in {x \in Backups : validateArchive(x)}}
NoParse == [components |-> {}, staged |-> {}]
-----------------------------------------------------------------------------
(* The application's request handlers *)

Init ==
    /\ file = [k \in Kinds |-> None]
    /\ req = [r \in Requests |-> [step |-> "free", kind |-> "update", parsed |-> NoParse, from |-> 0]]
    /\ preview = [p \in Uploads |-> [state |-> "free", actor |-> "", parsed |-> NoParse]]
    /\ call = [r \in Requests |-> "none"]
    /\ busy = FALSE /\ task = [r \in Requests |-> "none"]
    /\ stoppedBy = 0 /\ crashes = 0
    /\ contested = FALSE /\ unrecovered = {}

Kind(r)    == req[r].kind
Mine(r)    == file[Kind(r)].id = r
Live(r)    == task[r] \notin {"none", "over"}
Up         == stoppedBy = 0
Running(k) == file[k].status \in Active
Goto(r, step) == req' = [req EXCEPT ![r].step = step]
(* Requests are numbered in the order they come in.                        *)
Fresh(r)   == req[r].step = "free" /\ \A q \in 1..(r - 1) : req[q].step # "free"

UploadBackup(p, actor, parsed) ==
    /\ Up /\ preview[p].state = "free" /\ \A q \in 1..(p - 1) : preview[q].state # "free"
    /\ preview' = [preview EXCEPT ![p] = [state |-> "ready", actor |-> actor, parsed |-> parsed]]
    /\ UNCHANGED <<file, req, call, updater, stoppedBy, crashes, contested>>

Expire(p) ==
    /\ preview[p].state = "ready"
    /\ preview' = [preview EXCEPT ![p].state = "gone"]
    /\ UNCHANGED <<file, req, call, updater, stoppedBy, crashes, contested>>

(* The check of the state file; the release lookup and the backup follow.  *)
AskUpdate(r) ==
    /\ Up /\ Fresh(r) /\ ~Running("update")
    /\ Goto(r, "preparing")
    /\ UNCHANGED <<file, preview, call, updater, stoppedBy, crashes, contested>>

AskRestore(r, p, actor) ==
    /\ Up /\ Fresh(r)
    /\ preview[p].state = "ready" /\ preview[p].actor = actor
    /\ ~Running("restore")
    /\ req' = [req EXCEPT ![r] = [step |-> "preparing", kind |-> "restore",
                                  parsed |-> preview[p].parsed, from |-> p]]
    /\ UNCHANGED <<file, preview, call, updater, stoppedBy, crashes, contested>>

(* No newer release, a backup that does not validate, a full disk.         *)
GiveUp(r) ==
    /\ req[r].step = "preparing"
    /\ Goto(r, "answered")
    /\ UNCHANGED <<file, preview, call, updater, stoppedBy, crashes, contested>>

(* A job is disturbed when its file is written while it is under way.      *)
Disturbs(r) == \/ file[Kind(r)].id # r /\ Running(Kind(r))
               \/ \E q \in Requests : /\ q # r /\ Kind(q) = Kind(r)
                                      /\ Live(q) \/ call[q] \in {"sent", "reading"}

Store(r) ==
    /\ req[r].step = "preparing"
    /\ file' = [file EXCEPT ![Kind(r)] = Job(r, "pending")]
    /\ preview' = IF Kind(r) = "restore" THEN [preview EXCEPT ![req[r].from].state = "gone"] ELSE preview
    /\ Goto(r, "launching")
    /\ call' = [call EXCEPT ![r] = "sent"]
    /\ contested' = (contested \/ Disturbs(r))
    /\ UNCHANGED <<updater, stoppedBy, crashes>>

Launched(r) ==
    /\ req[r].step = "launching" /\ call[r] = "accepted"
    /\ Goto(r, "answered")
    /\ UNCHANGED <<file, preview, call, updater, stoppedBy, crashes, contested>>

(* The updater refused, or no answer came in ten seconds: whatever became  *)
(* of the call, the job is written off.                                    *)
LaunchFails(r) ==
    /\ req[r].step = "launching"
    /\ file' = [file EXCEPT ![Kind(r)] = Job(r, "failed")]
    /\ Goto(r, "answered")
    /\ contested' = (contested \/ Disturbs(r) \/ call[r] # "rejected")
    /\ UNCHANGED <<preview, call, updater, stoppedBy, crashes>>
-----------------------------------------------------------------------------
(* The updater's front door *)

(* The flag is read before the body of the call is awaited ...             *)
Read(r) ==
    /\ call[r] = "sent"
    /\ call' = [call EXCEPT ![r] = IF busy THEN "rejected" ELSE "reading"]
    /\ UNCHANGED <<file, req, preview, updater, stoppedBy, crashes, contested>>

(* ... and raised after it, without a second look.                         *)
Accept(r) ==
    /\ call[r] = "reading"
    /\ call' = [call EXCEPT ![r] = "accepted"]
    /\ busy' = TRUE /\ task' = [task EXCEPT ![r] = "prepare"]
    /\ UNCHANGED <<file, req, preview, stoppedBy, crashes, contested, unrecovered>>
-----------------------------------------------------------------------------
(* The background job *)

(* Mutant: the state file is patched without comparing the job's number.   *)
WriteAny(r, step, next, status) ==
    /\ task[r] = step
    /\ task' = [task EXCEPT ![r] = next] /\ busy' = (busy /\ next # "over")
    /\ file' = [file EXCEPT ![Kind(r)].status = status]
    /\ UNCHANGED <<call, crashes, contested, unrecovered>>

(* patchState() between two steps; runBackground() lowers the flag.        *)
Write(r, step, next, status) ==
    /\ task[r] = step /\ Mine(r)
    /\ task' = [task EXCEPT ![r] = next] /\ busy' = (busy /\ next # "over")
    /\ file' = [file EXCEPT ![Kind(r)].status = status]
    /\ UNCHANGED <<call, crashes, contested, unrecovered>>
Patch(r, step, next, status) == Write(r, step, next, status) /\ UNCHANGED <<req, preview>>

Begin(r) == Patch(r, "prepare", "check", "running") /\ UNCHANGED stoppedBy

(* An update journals that it stops the application, a restore does not;   *)
(* until the application has stopped a failure needs no rollback.          *)
Check(r) ==
    \/ (\E step \in {"check", "stop"} : Patch(r, step, "over", "failed")) /\ UNCHANGED stoppedBy
    \/ Kind(r) = "update" /\ Patch(r, "check", "stop", file["update"].status) /\ UNCHANGED stoppedBy
    \/ /\ Kind(r) = "restore" /\ task[r] = "check" /\ task' = [task EXCEPT ![r] = "stop"]
       /\ UNCHANGED <<file, req, preview, call, busy, stoppedBy, crashes, contested, unrecovered>>

(* Every handler dies with the application, and the previews with them.    *)
DropHandlers ==
    /\ req' = [r \in Requests |-> IF req[r].step \in {"preparing", "launching"}
                                  THEN [req[r] EXCEPT !.step = "answered"] ELSE req[r]]
    /\ preview' = [p \in Uploads |-> IF preview[p].state = "ready"
                                     THEN [preview[p] EXCEPT !.state = "gone"] ELSE preview[p]]

Stop(r) ==
    /\ task[r] = "stop" /\ task' = [task EXCEPT ![r] = "work"]
    /\ stoppedBy' = r /\ DropHandlers
    /\ UNCHANGED <<file, call, busy, crashes, contested, unrecovered>>

Work(r)    == Patch(r, "work", "start", "restarting") /\ UNCHANGED stoppedBy
StartApp(r) ==
    /\ task[r] = "start" /\ task' = [task EXCEPT ![r] = "verify"]
    /\ stoppedBy' = 0
    /\ UNCHANGED <<file, req, preview, call, busy, crashes, contested, unrecovered>>
Succeed(r) == Patch(r, "verify", "over", "succeeded") /\ UNCHANGED stoppedBy

(* The rollback begins by stopping the application again ...               *)
Fail(r) ==
    \E step \in {"work", "start", "verify"} :
        Write(r, step, "undo", "running") /\ stoppedBy' = r /\ DropHandlers

(* ... and ends once it is healthy.                                        *)
RolledBack(r) == Patch(r, "undo", "over", "failed") /\ stoppedBy' = 0

(* The catch of rollbackUpdate(), rollbackRestore() and runBackground():   *)
(* whatever threw - a rollback at any of its steps, a write of the journal *)
(* - the application is left as it is.                                     *)
RequireRecovery(r) ==
    \E step \in {"prepare", "check", "stop", "work", "start", "verify", "undo"} :
        /\ Patch(r, step, "over", "recovery_required")
        /\ stoppedBy' \in IF step = "undo" THEN {0, stoppedBy} ELSE {stoppedBy}

(* patchState() throws, and throws again in every handler of that error:   *)
(* the file is no longer the job's own, or cannot be written.              *)
Abandon(r) ==
    /\ task[r] \in {"prepare", "check", "stop", "work", "start", "verify", "undo"}
    /\ task' = [task EXCEPT ![r] = "over"] /\ busy' = FALSE
    /\ stoppedBy' \in IF task[r] = "undo" THEN {0, stoppedBy} ELSE {stoppedBy}
    /\ unrecovered' = IF Mine(r) THEN unrecovered \union {r} ELSE unrecovered
    /\ UNCHANGED <<file, req, preview, call, crashes, contested>>
-----------------------------------------------------------------------------
(* Restarts *)

AppCrash ==
    /\ Up /\ crashes < MaxCrashes
    /\ crashes' = crashes + 1 /\ DropHandlers
    /\ UNCHANGED <<file, call, updater, stoppedBy, contested>>

(* recoverInterruptedJobs() recovers the update, then the restore that its *)
(* file reports as under way; the last of them decides over the application*)
LastOf(kinds) == IF "restore" \in kinds THEN "restore" ELSE "update"

(* outcome: the job was resumed or rolled back and the application is      *)
(* healthy ("failed"), the rollback failed, or the recovery threw, which   *)
(* is only logged and leaves the file as it was ("thrown").                *)
Outcomes(kinds) == [kinds -> {"failed", "recovery_required", "thrown"}]

Recovered(kinds) ==
    \E outcome \in Outcomes(kinds) :
        /\ file' = [k \in Kinds |-> IF k \in kinds /\ outcome[k] # "thrown"
                                    THEN [file[k] EXCEPT !.status = outcome[k]] ELSE file[k]]
        /\ unrecovered' = {file[k].id : k \in {x \in kinds : outcome[x] = "thrown"}}
        /\ stoppedBy' \in IF kinds = {} THEN {stoppedBy}
                          ELSE IF outcome[LastOf(kinds)] = "failed" THEN {0}
                          ELSE {0, file[LastOf(kinds)].id}
        /\ \/ kinds # {} /\ DropHandlers
           \/ (kinds = {} \/ stoppedBy' = 0) /\ UNCHANGED <<req, preview>>

UpdaterDies ==
    /\ crashes < MaxCrashes /\ crashes' = crashes + 1
    /\ task' = [r \in Requests |-> IF Live(r) THEN "over" ELSE task[r]] /\ busy' = FALSE
    /\ call' = [r \in Requests |-> IF call[r] \in {"sent", "reading"} THEN "rejected" ELSE call[r]]
    /\ UNCHANGED contested

(* Mutant: recovery looks at the update's state file only.                 *)
UpdaterRestartForUpdates ==
    UpdaterDies /\ Recovered({k \in {"update"} : Running(k)})

(* The updater listens again after recoverInterruptedJobs().               *)
UpdaterRestart ==
    UpdaterDies /\ Recovered({k \in Kinds : Running(k)})

Application ==
    \/ \E p \in Uploads : Expire(p) \/ \E actor \in Actors, parsed \in Parsed : UploadBackup(p, actor, parsed)
    \/ \E r \in Requests :
          \/ AskUpdate(r) \/ GiveUp(r) \/ Store(r) \/ Launched(r) \/ LaunchFails(r)
          \/ \E p \in Uploads, actor \in Actors : AskRestore(r, p, actor)
Background ==
    \E r \in Requests : \/ Read(r) \/ Accept(r) \/ Begin(r) \/ Check(r) \/ Stop(r) \/ Work(r)
                        \/ StartApp(r) \/ Succeed(r) \/ Fail(r) \/ RolledBack(r) \/ RequireRecovery(r)
                        \/ Abandon(r)
Next == Application \/ Background \/ AppCrash \/ UpdaterRestart
Spec == Init /\ [][Next]_vars
-----------------------------------------------------------------------------
Steps == {"none", "prepare", "check", "stop", "work", "start", "verify", "undo", "over"}
TypeOK ==
    /\ file \in [Kinds -> [id : {0} \union Requests, status : Statuses]]
    /\ \A r \in Requests : /\ req[r].step \in {"free", "preparing", "launching", "answered"}
                           /\ req[r].kind \in Kinds /\ req[r].from \in {0} \union Uploads
                           /\ req[r].parsed \in [components : SUBSET Components, staged : SUBSET Components]
    /\ \A p \in Uploads : preview[p].state \in {"free", "ready", "gone"}
    /\ call \in [Requests -> {"none", "sent", "reading", "accepted", "rejected"}]
    /\ task \in [Requests -> Steps]
    /\ busy \in BOOLEAN /\ contested \in BOOLEAN /\ crashes \in 0..MaxCrashes
    /\ stoppedBy \in {0} \union Requests /\ unrecovered \subseteq Requests

(* Unless a job's file was overwritten under it, the application is only   *)
(* ever down on account of the job that stopped it last, whose file is     *)
(* still its own: the job is at work between stopping and starting; or its *)
(* file tells the administrator that manual recovery is required; or the   *)
(* updater gave it up with an error it only logged, and its file still says*)
(* so much that the next restart of the updater finds it.                  *)
DownIsRecoverable ==
    ~Up /\ ~contested =>
        /\ Mine(stoppedBy)
        /\ \/ task[stoppedBy] \in {"work", "start", "undo"} /\ Running(Kind(stoppedBy))
           \/ file[Kind(stoppedBy)].status = "recovery_required"
           \/ stoppedBy \in unrecovered /\ Running(Kind(stoppedBy))

(* A job reported as failed has ended: unless it was contested, neither    *)
(* its launch is under way nor is the updater still carrying it out.       *)
FailedHasEnded ==
    \A k \in Kinds : file[k].status \in {"failed", "recovery_required"} /\ ~contested =>
        /\ ~Live(file[k].id) /\ call[file[k].id] \notin {"sent", "reading"}

(* Whatever overwrote whatever, a job reported as succeeded was carried    *)
(* out by the updater to its end.                                          *)
SuccessIsEarned == \A k \in Kinds : file[k].status = "succeeded" => task[file[k].id] = "over"

(* A restore that has stopped the application finds every database it will *)
(* replace in its stage, and nothing there that it would not put back.     *)
StageIsComplete ==
    \A r \in Requests : Live(r) /\ Kind(r) = "restore" =>
        /\ "data" \in req[r].parsed.components => "data" \in req[r].parsed.staged
        /\ req[r].parsed.staged \subseteq req[r].parsed.components

(* Jobs are sound: what their files say of them is true, and what a restore*)
(* will put in place is there.                                             *)
JobsAreSound == TypeOK /\ FailedHasEnded /\ SuccessIsEarned /\ StageIsComplete
=============================================================================
