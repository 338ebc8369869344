---------------------------- MODULE UpdaterProofs ----------------------------
(***************************************************************************)
(* Safety of the updater for every set of entries and every bound on       *)
(* faults and crashes, as long as Docker answers lookups truthfully and    *)
(* the removal of a finished job's recovery directory does not throw.      *)
(***************************************************************************)
EXTENDS Updater, TLAPS

(* The faults the theorems cover.                                          *)
Benign == FaultKinds \subseteq {"call", "recover"}

Whole    == data = All("orig") /\ app = "old"
Pristine == Whole /\ running /\ spare = "none" /\ ~manifest

(* Where the process stands while the job file still says failed, or       *)
(* already says succeeded.                                                 *)
AfterFailure == {"idle", "unrecovered", "down", "boot", "prepare", "resStart", "resHealth", "resDone",
                 "rbFail", "discardSnap"}
AfterSuccess == {"discardOld", "discardSnap", "idle", "down", "boot"}

(* What each journalled outcome and the containers say of the files.       *)
JournalInv ==
    /\ manifest => snap = All("orig")
    /\ job.status = "succeeded" \/ data = All("orig") \/ manifest
    /\ app = "new" => kind = "update" /\ (manifest \/ job.status = "succeeded")
    /\ kind = "restore" => app = "old" /\ spare = "none"
    /\ spare # "new"
    /\ job.status # "succeeded" => app = "old" \/ spare = "old"
    /\ job.status = "succeeded" =>
         /\ pc \in AfterSuccess /\ running
         /\ IF kind = "update" THEN app = "new" ELSE data = All("staged")
    /\ job.status = "failed" => pc \in AfterFailure
    /\ job.status = "failed" /\ ~job.required => Whole /\ running
    /\ running /\ app = "old" => data \in {All("orig"), All("staged")}
    /\ job.required => /\ job.status = "failed"
                       /\ pc \in {"idle", "unrecovered", "down", "boot", "prepare", "rbFail"}

(* Before the launch is answered nothing has been touched.                 *)
LaunchInv ==
    ~launched =>
        /\ Pristine
        /\ pc \in {"idle", "unrecovered", "down", "boot", "resStart", "resHealth", "resDone",
                   "rbFail"}
        /\ job.status # "succeeded"
        /\ job.status \in Active => job.phase = "preparing"

(* What each step of the process may rely on.                              *)
StepInv ==
    /\ pc \in {"prepare", "check", "stopping", "stop"} => Pristine /\ job.status # "succeeded"
    /\ pc \in {"check", "stopping", "stop"} => job.status # "failed"
    /\ pc \in TaskSteps \ {"check", "stopping", "stop"} => stopped
    /\ pc \in {"snapshotting", "copy"} => Whole /\ spare = "none" /\ ~manifest
    /\ pc \in {"snapshotting", "copy", "switching", "rename", "create", "restoring",
               "replace", "rbRestore", "rbRename"} => ~running
    /\ pc = "copy" => \A e \in Entries \ todo : snap[e] = "orig"
    /\ pc \in {"switching", "rename"} => kind = "update" /\ Whole /\ spare = "none"
    /\ pc \in {"restoring", "replace"} => kind = "restore"
    /\ pc \in {"switching", "rename", "create", "restoring", "replace", "verifying", "start",
               "health", "succeed"} => manifest
    /\ pc = "restoring" => todo = Entries
    /\ pc = "replace" => \A e \in Entries \ todo : data[e] = "staged"
    /\ pc = "create" => kind = "update" /\ app = "none" /\ spare = "old"
    /\ pc \in {"verifying", "start", "health", "succeed"} =>
         IF kind = "update" THEN app = "new" /\ spare = "old" ELSE data = All("staged")
    /\ pc \in {"health", "succeed"} => running
    /\ pc = "verifying" /\ kind = "update" => running
    /\ pc \in {"discardOld", "discardSnap"} =>
         job.status = "succeeded" \/ (job.status = "failed" /\ ~job.required)
    /\ pc \in RollbackSteps \union {"rbPatch", "rbFail"} => job.status # "succeeded"
    /\ pc \in {"rbRestore", "rbRename"} =>
         /\ sawSpare <=> spare = "old"
         /\ spare = "old" => app = "none"
    /\ pc = "rbRestore" => (manifest => \A e \in Entries \ todo : data[e] = "orig")
    /\ pc = "rbRestore" => (~manifest => todo = {})
    /\ pc = "rbRename" => kind = "update" /\ spare = "old" /\ data = All("orig")
    /\ pc \in {"rbStart", "rbHealth", "rbDone", "failEarly", "resStart", "resHealth", "resDone"}
         => Whole
    /\ pc \in {"failEarly", "rbHealth", "rbDone", "resHealth", "resDone"} => running

IInv == TypeOK /\ JournalInv /\ LaunchInv /\ StepInv
-----------------------------------------------------------------------------
(* A fact the SMT backend misses about Boolean variables set to FALSE.     *)
LEMMA FalseIsBoolean == \A x : x = FALSE => x \in BOOLEAN
  BY Zenon

(* Under benign faults no lookup lies and no cleanup throws ...            *)
LEMMA NoLies == ASSUME Benign
                PROVE  Faulty("lookup") = {FALSE} /\ Faulty("cleanup") = {FALSE}
  BY DEF Benign, Faulty

(* ... so stopApp() stops the application, the recovery directory goes     *)
(* away whole, and a rollback sees whether it has a container to return to.*)
LEMMA StopStops == ASSUME Benign, Stop PROVE running' = FALSE /\ faults' = faults
  <1>1. StopApp(FALSE) /\ Charge(FALSE)
    BY NoLies, Zenon DEF Stop
  <1>2. QED
    BY <1>1 DEF StopApp, Charge

LEMMA DiscardDiscards ==
    ASSUME Benign, DiscardSnap
    PROVE  /\ snap' = All("missing") /\ manifest' = FALSE
           /\ pc' = "idle" /\ Charge(FALSE)
  BY NoLies, Zenon DEF DiscardSnap

LEMMA ClearSees ==
    ASSUME Benign, RbClear
    PROVE  /\ StopApp(FALSE) \/ running' = FALSE
           /\ Charge(FALSE)
           /\ sawSpare' = (spare # "none")
           /\ IF kind = "update" /\ spare # "none" THEN app' = "none" ELSE app' = app
  <1>1. PICK lies \in Faulty("lookup") :
            /\ IF kind = "update" /\ spare # "none" /\ ~lies
               THEN app' = "none" /\ running' = FALSE
               ELSE app' = app /\ \E fails \in {FALSE, lies} : StopApp(fails)
            /\ sawSpare' = (spare # "none" /\ ~lies)
            /\ Charge(lies)
    BY DEF RbClear
  <1>2. lies = FALSE
    BY NoLies, Zenon
  <1>3. (spare # "none" /\ ~lies) = (spare # "none")
    BY <1>2, Zenon
  <1>4. QED
    BY <1>1, <1>2, <1>3, Zenon

(* The types are kept whatever faults occur: every action of the updater   *)
(* and of its environment, one by one.                                     *)
LEMMA TypeStep == ASSUME TypeOK, [Next]_vars PROVE TypeOK'
  <1> USE ConstantsAssumption, FalseIsBoolean
      DEF TypeOK, Steps, TaskSteps, RollbackSteps, Statuses, Active, Phases, Rollbacks,
          Contents, All, vars, local, containers, recovery, budget
  <1>1. CASE Accept
    BY <1>1 DEF Accept, Listening
  <1>2. CASE Prepare
    BY <1>2 DEF Prepare, Journal
  <1>3. CASE Check
    BY <1>3 DEF Check, Move
  <1>4. CASE EnterPhase
    BY <1>4 DEF EnterPhase, Enter, Journal
  <1>5. CASE Stop
    BY <1>5 DEF Stop, StopApp, Faulty, Charge
  <1>6. CASE BeginSnapshot
    BY <1>6 DEF BeginSnapshot
  <1>7. CASE CopyEntry
    BY <1>7 DEF CopyEntry
  <1>8. CASE WriteManifest
    BY <1>8 DEF WriteManifest
  <1>9. CASE Rename
    BY <1>9 DEF Rename
  <1>10. CASE Create
    BY <1>10 DEF Create
  <1>11. CASE ReplaceEntry
    BY <1>11 DEF ReplaceEntry, Overwrite
  <1>12. CASE Start
    BY <1>12 DEF Start
  <1>13. CASE Healthy
    BY <1>13 DEF Healthy, Move
  <1>14. CASE Unhealthy
    BY <1>14 DEF Unhealthy
  <1>15. CASE Succeed
    BY <1>15 DEF Succeed, Journal
  <1>16. CASE DiscardOld
    BY <1>16 DEF DiscardOld
  <1>17. CASE DiscardSnap
    BY <1>17 DEF DiscardSnap, Faulty, Charge
  <1>18. CASE FailEarly
    BY <1>18 DEF FailEarly, Journal
  <1>19. CASE RbPatch
    BY <1>19 DEF RbPatch, Journal
  <1>20. CASE RbClear
    <2>1. PICK lies \in Faulty("lookup") :
            /\ IF kind = "update" /\ spare # "none" /\ ~lies
               THEN app' = "none" /\ running' = FALSE
               ELSE app' = app /\ \E fails \in {FALSE, lies} : StopApp(fails)
            /\ sawSpare' = (spare # "none" /\ ~lies)
            /\ Charge(lies)
      BY <1>20 DEF RbClear
    <2>2. lies \in BOOLEAN
      BY DEF Faulty
    <2>3. running' \in BOOLEAN /\ app' \in {app, "none"}
      BY <2>1, <2>2 DEF StopApp
    <2>4. faults' \in Nat
      BY <2>1 DEF Charge
    <2>5. sawSpare' \in BOOLEAN
      BY <2>1
    <2>6. QED
      BY <1>20, <2>3, <2>4, <2>5 DEF RbClear
  <1>21. CASE RestoreEntry
    BY <1>21 DEF RestoreEntry, Overwrite
  <1>22. CASE RestoreDone
    BY <1>22 DEF RestoreDone, Move
  <1>23. CASE RbRename
    BY <1>23 DEF RbRename
  <1>24. CASE RbStart
    BY <1>24 DEF RbStart
  <1>25. CASE RbHealth
    BY <1>25 DEF RbHealth, Move
  <1>26. CASE RbDone
    BY <1>26 DEF RbDone, Journal
  <1>27. CASE RbFail
    BY <1>27 DEF RbFail, Journal
  <1>28. CASE Restart
    BY <1>28 DEF Restart, Move
  <1>29. CASE Boot
    BY <1>29 DEF Boot, Move, updateChangedState, interruptedRestoreAction
  <1>30. CASE ResumeStart
    BY <1>30 DEF ResumeStart, Faulty, Charge
  <1>31. CASE ResumeHealthy
    BY <1>31 DEF ResumeHealthy, Faulty, Charge
  <1>32. CASE ResumeDone
    BY <1>32 DEF ResumeDone, Journal
  <1>33. CASE LaunchFails
    BY <1>33 DEF LaunchFails
  <1>34. CASE Crash
    BY <1>34 DEF Crash
  <1>35. CASE StepThrows
    BY <1>35 DEF StepThrows, Catch
  <1>36. CASE NewImageWrites
    BY <1>36 DEF NewImageWrites
  <1>37. CASE JournalThrows
    BY <1>37 DEF JournalThrows
  <1>38. CASE UNCHANGED vars
    BY <1>38
  <1>39. QED
    BY <1>1, <1>2, <1>3, <1>4, <1>5, <1>6, <1>7, <1>8, <1>9, <1>10, <1>11, <1>12, <1>13,
       <1>14, <1>15, <1>16, <1>17, <1>18, <1>19, <1>20, <1>21, <1>22, <1>23, <1>24,
       <1>25, <1>26, <1>27, <1>28, <1>29, <1>30, <1>31, <1>32, <1>33, <1>34, <1>35,
       <1>36, <1>37, <1>38 DEF Next, Forward, Rollback, Recover, Environment

(* Type correctness of the updater, for every value of the constants.      *)
THEOREM TypeCorrect == Spec => []TypeOK
  <1>1. Init => TypeOK
    BY ConstantsAssumption, FalseIsBoolean
       DEF Init, TypeOK, Steps, Statuses, Active, Phases, Rollbacks, Contents, All
  <1>2. TypeOK /\ [Next]_vars => TypeOK'
    BY TypeStep
  <1>3. QED
    BY <1>1, <1>2, PTL DEF Spec

-----------------------------------------------------------------------------
(* The inductive step: what each action relies on, it leaves for the next. *)
LEMMA InvStep == ASSUME Benign, IInv, TypeOK', [Next]_vars
                 PROVE  JournalInv' /\ LaunchInv' /\ StepInv'
  <1> USE ConstantsAssumption, FalseIsBoolean
      DEF IInv, JournalInv, LaunchInv, StepInv, TypeOK, Whole, Pristine, Steps, TaskSteps,
          RollbackSteps, Statuses, Active, Phases, Rollbacks, Contents, All, vars, local,
          containers, recovery, budget, AfterFailure, AfterSuccess
  <1>1. CASE Accept
    BY <1>1 DEF Accept, Listening
  <1>2. CASE Prepare
    BY <1>2 DEF Prepare, Journal
  <1>3. CASE Check
    BY <1>3 DEF Check, Move
  <1>4. CASE EnterPhase
    <2>1. CASE Enter("stopping", "stop", job.status, "stopping")
      BY <2>1 DEF Enter, Journal
    <2>2. CASE Enter("switching", "rename", "restarting", "switching")
      BY <2>2 DEF Enter, Journal
    <2>3. CASE Enter("restoring", "replace", job.status, "restoring")
      BY <2>3 DEF Enter, Journal
    <2>4. CASE kind = "update" /\ Enter("verifying", "health", job.status, "verifying")
      BY <2>4 DEF Enter, Journal
    <2>5. CASE kind = "restore" /\ Enter("verifying", "start", "restarting", "verifying")
      BY <2>5 DEF Enter, Journal
    <2>6. QED
      BY <1>4, <2>1, <2>2, <2>3, <2>4, <2>5 DEF EnterPhase
  <1>5. CASE Stop
    BY <1>5, StopStops DEF Stop
  <1>6. CASE BeginSnapshot
    BY <1>6 DEF BeginSnapshot
  <1>7. CASE CopyEntry
    BY <1>7 DEF CopyEntry
  <1>8. CASE WriteManifest
    BY <1>8 DEF WriteManifest
  <1>9. CASE Rename
    BY <1>9 DEF Rename
  <1>10. CASE Create
    BY <1>10 DEF Create
  <1>11. CASE ReplaceEntry
    BY <1>11 DEF ReplaceEntry, Overwrite
  <1>12. CASE Start
    BY <1>12 DEF Start
  <1>13. CASE Healthy
    BY <1>13 DEF Healthy, Move
  <1>14. CASE Unhealthy
    BY <1>14 DEF Unhealthy
  <1>15. CASE Succeed
    BY <1>15 DEF Succeed, Journal
  <1>16. CASE DiscardOld
    BY <1>16 DEF DiscardOld
  <1>17. CASE DiscardSnap
    BY <1>17, DiscardDiscards DEF DiscardSnap, StopApp, Charge
  <1>18. CASE FailEarly
    BY <1>18 DEF FailEarly, Journal
  <1>19. CASE RbPatch
    BY <1>19 DEF RbPatch, Journal
  <1>20. CASE RbClear
    BY <1>20, ClearSees DEF RbClear, StopApp, Charge
  <1>21. CASE RestoreEntry
    BY <1>21 DEF RestoreEntry, Overwrite
  <1>22. CASE RestoreDone
    BY <1>22 DEF RestoreDone, Move
  <1>23. CASE RbRename
    BY <1>23 DEF RbRename
  <1>24. CASE RbStart
    BY <1>24 DEF RbStart
  <1>25. CASE RbHealth
    BY <1>25 DEF RbHealth, Move
  <1>26. CASE RbDone
    BY <1>26 DEF RbDone, Journal
  <1>27. CASE RbFail
    BY <1>27 DEF RbFail, Journal
  <1>28. CASE Restart
    BY <1>28 DEF Restart, Move
  <1>29. CASE Boot
    BY <1>29 DEF Boot, Move, updateChangedState, interruptedRestoreAction
  <1>30. CASE ResumeStart
    BY <1>30 DEF ResumeStart, Faulty, Charge
  <1>31. CASE ResumeHealthy
    BY <1>31 DEF ResumeHealthy, Faulty, Charge
  <1>32. CASE ResumeDone
    BY <1>32 DEF ResumeDone, Journal
  <1>33. CASE LaunchFails
    BY <1>33 DEF LaunchFails
  <1>34. CASE Crash
    BY <1>34 DEF Crash
  <1>35. CASE StepThrows
    BY <1>35 DEF StepThrows, Catch
  <1>36. CASE NewImageWrites
    BY <1>36 DEF NewImageWrites
  <1>37. CASE JournalThrows
    BY <1>37 DEF JournalThrows
  <1>38. CASE UNCHANGED vars
    BY <1>38
  <1>39. QED
    BY <1>1, <1>2, <1>3, <1>4, <1>5, <1>6, <1>7, <1>8, <1>9, <1>10, <1>11, <1>12, <1>13,
       <1>14, <1>15, <1>16, <1>17, <1>18, <1>19, <1>20, <1>21, <1>22, <1>23, <1>24,
       <1>25, <1>26, <1>27, <1>28, <1>29, <1>30, <1>31, <1>32, <1>33, <1>34, <1>35,
       <1>36, <1>37, <1>38 DEF Next, Forward, Rollback, Recover, Environment

(* The invariant the safety theorems rest on holds of every behaviour.     *)
THEOREM Invariance == ASSUME Benign PROVE Spec => []IInv
  <1>1. Init => IInv
    BY ConstantsAssumption, FalseIsBoolean
       DEF Init, IInv, JournalInv, LaunchInv, StepInv, TypeOK, Whole, Pristine, Steps, Statuses,
           Active, Phases, Rollbacks, Contents, All, TaskSteps, RollbackSteps, AfterFailure,
           AfterSuccess
  <1>2. IInv /\ [Next]_vars => IInv'
    BY TypeStep, InvStep DEF IInv
  <1>3. QED
    BY <1>1, <1>2, PTL DEF Spec

(* Whatever step throws and wherever the updater restarts, the files as    *)
(* they were before the job are live or held by a complete snapshot until  *)
(* the job has succeeded.                                                  *)
THEOREM OriginalsAreRecoverable == ASSUME Benign PROVE Spec => []OriginalsRecoverable
  <1>1. IInv => OriginalsRecoverable
    BY DEF IInv, JournalInv, OriginalsRecoverable
  <1>2. QED
    BY <1>1, Invariance, PTL

(* The journalled outcome is the truth about the files and containers.     *)
THEOREM OutcomeIsTrue == ASSUME Benign
                         PROVE  Spec => [](FailedMeansUndone /\ SucceededMeansDone)
  <1>1. IInv => FailedMeansUndone /\ SucceededMeansDone
    BY DEF IInv, TypeOK, JournalInv, Whole, FailedMeansUndone, SucceededMeansDone
  <1>2. QED
    BY <1>1, Invariance, PTL

(* A previous image to return to is kept until success, it never serves a  *)
(* half-copied store, and a finished job leaves the application running    *)
(* unless it asks for manual recovery.                                     *)
THEOREM ServiceIsSafe ==
    ASSUME Benign
    PROVE  Spec => [](PreviousImageKept /\ NeverServesMixedData /\ NeverLeftDown)
  <1>1. IInv => PreviousImageKept /\ NeverServesMixedData /\ NeverLeftDown
    BY DEF IInv, TypeOK, JournalInv, Statuses, PreviousImageKept, NeverServesMixedData,
           NeverLeftDown, Listening, Active
  <1>2. QED
    BY <1>1, Invariance, PTL

(* The job is sound: what its journal says is typed and true, there is an   *)
(* image to go back to, and the application is not left down unreported.   *)
THEOREM JobSoundness == ASSUME Benign PROVE Spec => []JobIsSound
  <1>1. IInv => JobIsSound
    BY DEF IInv, TypeOK, JournalInv, Whole, Statuses, JobIsSound, SucceededMeansDone,
           PreviousImageKept, NeverLeftDown, Listening, Active
  <1>2. QED
    BY <1>1, Invariance, PTL

(* The updater touches the live files only while the application is down.  *)
THEOREM FilesAreTouchedOnlyWhenStopped ==
    ASSUME Benign PROVE Spec => FilesTouchedOnlyWhenStopped
  <1>1. IInv /\ TypeOK' /\ [Next]_vars =>
          [ (\/ \E e \in Entries : snap'[e] \notin {"missing", snap[e]}
             \/ data' # data /\ ~NewImageWrites) => ~running ]_vars
    <2> SUFFICES ASSUME IInv, Next, running, ~NewImageWrites
                 PROVE  /\ data' = data
                        /\ \A e \in Entries : snap'[e] \in {"missing", snap[e]}
      BY DEF NewImageWrites, recovery
    <2> USE DEF IInv, StepInv, TypeOK, local, containers, recovery, budget
    <2>1. CASE CopyEntry \/ ReplaceEntry \/ RestoreEntry
      BY <2>1 DEF CopyEntry, ReplaceEntry, RestoreEntry
    <2>2. CASE BeginSnapshot
      BY <2>2 DEF BeginSnapshot, All
    <2>3. CASE DiscardSnap
      BY <2>3, DiscardDiscards DEF DiscardSnap, All
    <2>4. CASE UNCHANGED <<data, snap>>
      BY <2>4
    <2>5. Next => \/ CopyEntry \/ ReplaceEntry \/ RestoreEntry \/ BeginSnapshot \/ DiscardSnap
                  \/ NewImageWrites \/ UNCHANGED <<data, snap>>
      BY DEF Next, Forward, Rollback, Recover, Environment, Accept, Prepare, Check, EnterPhase,
             Enter, Journal, Move, Stop, WriteManifest, Rename, Create, Start, Healthy, Unhealthy,
             Succeed, DiscardOld, FailEarly, RbPatch, RbClear, RestoreDone, RbRename, RbStart,
             RbHealth, RbDone, RbFail, Restart, Boot, ResumeStart, ResumeHealthy, ResumeDone,
             LaunchFails, Crash, StepThrows, JournalThrows
    <2>6. QED
      BY <2>1, <2>2, <2>3, <2>4, <2>5
  <1>2. QED
    BY <1>1, Invariance, TypeCorrect, PTL DEF Spec, FilesTouchedOnlyWhenStopped

-----------------------------------------------------------------------------
(* What users are served, in terms of the invariant.                       *)
LEMMA ServiceBefore == ASSUME Whole, running PROVE Service = "before"
  <1>1. PICK e \in Entries : TRUE
    BY ConstantsAssumption
  <1>2. data[e] = "orig" /\ All("staged")[e] = "staged"
    BY <1>1 DEF Whole, All
  <1>3. data # All("staged")
    BY <1>2
  <1>4. QED
    BY <1>3 DEF Whole, Service

LEMMA ServiceAfter ==
    ASSUME running, IF kind = "update" THEN app = "new" ELSE data = All("staged")
    PROVE  Service = "after"
  BY DEF Service

(* A step that leaves the job file alone works on an open job, or serves   *)
(* the same thing as before the step.                                      *)
LEMMA QuietStep == ASSUME IInv, IInv', [Next]_vars, job' = job
                   PROVE  Promise!Work \/ UNCHANGED <<Outcome, Service>>
  <1>1. Outcome' = Outcome
    BY DEF Outcome
  <1>2. CASE job.status \in Active
    <2>1. Outcome = "open"
      BY <1>2 DEF Outcome
    <2>2. Service' \in {"before", "down", "after"}
      BY DEF Service
    <2>3. QED
      BY <1>1, <2>1, <2>2 DEF Promise!Work
  <1>3. CASE job.status = "succeeded"
    <2>1. Service = "after"
      BY <1>3, ServiceAfter DEF IInv, JournalInv
    <2>2. Service' = "after"
      BY <1>3 DEF IInv, JournalInv, Service, TypeOK
    <2>3. QED
      BY <1>1, <2>1, <2>2
  <1>4. CASE job.status = "failed" /\ ~job.required
    <2>1. Service = "before"
      BY <1>4, ServiceBefore DEF IInv, JournalInv
    <2>2. Whole' /\ running'
      BY <1>4 DEF IInv, JournalInv
    <2>3. Service' = "before"
      <3>1. PICK e \in Entries : TRUE
        BY ConstantsAssumption
      <3>2. data'[e] = "orig" /\ All("staged")[e] = "staged"
        BY <3>1, <2>2 DEF Whole, All
      <3>3. data' # All("staged")
        BY <3>2
      <3>4. QED
        BY <2>2, <3>3 DEF Whole, Service, All
    <2>4. QED
      BY <1>1, <2>1, <2>3
  <1>5. CASE job.required
    <2>1. pc \in {"idle", "unrecovered", "down", "boot", "prepare", "rbFail"}
      BY <1>5 DEF IInv, JournalInv
    <2>2. UNCHANGED <<app, running, data>> \/ NewImageWrites
      BY <2>1 DEF IInv, TypeOK, vars, local, containers, recovery, budget, Next, Forward, Rollback,
         Recover, Environment, Accept, Prepare, Check, EnterPhase, Enter, Journal, Move, Stop,
         BeginSnapshot, CopyEntry, WriteManifest, Rename, Create, ReplaceEntry, Start, Healthy,
         Unhealthy, Succeed, DiscardOld, DiscardSnap, FailEarly, RbPatch, RbClear, RestoreEntry,
         RestoreDone, RbRename, RbStart, RbHealth, RbDone, RbFail, Restart, Boot, ResumeStart,
         ResumeHealthy, ResumeDone, LaunchFails, Crash, StepThrows, JournalThrows
    <2>3. Service' = Service
      BY <2>2 DEF Service, NewImageWrites, containers, All
    <2>4. QED
      BY <1>1, <2>3
  <1>6. QED
    BY <1>2, <1>3, <1>4, <1>5 DEF IInv, TypeOK, Statuses

(* The updater implements the all-or-nothing promise of MaintenanceJob.    *)
THEOREM Implementation == ASSUME Benign PROVE Spec => KeepsPromise
  <1>1. Init => Promise!Init
    <2> SUFFICES ASSUME Init PROVE Promise!Init
      OBVIOUS
    <2>1. Outcome = "open"
      BY DEF Init, Outcome, Active
    <2>2. Service = "before"
      BY ServiceBefore DEF Init, Whole
    <2>3. QED
      BY <2>1, <2>2 DEF Promise!Init
  <1>2. IInv /\ IInv' /\ [Next]_vars => [Promise!Next]_<<Outcome, Service>>
    <2> SUFFICES ASSUME IInv, IInv', [Next]_vars
                 PROVE  Promise!Next \/ UNCHANGED <<Outcome, Service>>
      OBVIOUS
    <2> USE DEF IInv, Promise!Next
    <2>1. CASE job' = job
      BY <2>1, QuietStep
    <2>2. CASE \/ EnterPhase \/ BeginSnapshot \/ RbPatch
      <3>1. job.status \in Active /\ job'.status \in Active
        BY <2>2 DEF EnterPhase, Enter, Journal, BeginSnapshot, RbPatch, JournalInv, StepInv, TypeOK,
           Statuses, Active, AfterSuccess, AfterFailure
      <3>2. Service' \in {"before", "down", "after"}
        BY DEF Service
      <3>3. QED
        BY <3>1, <3>2 DEF Promise!Work, Outcome
    <2>3. CASE Succeed
      <3>1. Outcome = "open" /\ Outcome' = "done" /\ Service' = Service
        BY <2>3 DEF Succeed, Journal, Outcome, Service, Active, JournalInv, TypeOK, Statuses,
           AfterSuccess, AfterFailure, containers, All
      <3>2. Service = "after"
        BY <2>3, ServiceAfter DEF Succeed, Journal, StepInv
      <3>3. QED
        BY <3>1, <3>2 DEF Promise!Commit
    <2>4. CASE FailEarly \/ RbDone \/ ResumeDone \/ LaunchFails
      <3>1. Outcome # "done" /\ Outcome' = "undone" /\ Service' = Service
        BY <2>4 DEF FailEarly, RbDone, ResumeDone, LaunchFails, Journal, Outcome, Service, Active,
           JournalInv, LaunchInv, AfterSuccess, containers, All
      <3>2. Whole /\ running
        BY <2>4 DEF FailEarly, RbDone, ResumeDone, LaunchFails, Journal, StepInv, LaunchInv, Pristine
      <3>3. QED
        BY <3>1, <3>2, ServiceBefore DEF Promise!Undo
    <2>5. CASE RbFail
      <3>1. Outcome # "done" /\ Outcome' = "manual" /\ Service' = Service
        BY <2>5 DEF RbFail, Journal, Outcome, Service, Active, StepInv, RollbackSteps, containers, All
      <3>2. QED
        BY <3>1 DEF Promise!GiveUp
    <2>6. CASE Prepare
      <3>1. Outcome # "done" /\ Outcome' = "open" /\ Service' = Service
        BY <2>6 DEF Prepare, Journal, Outcome, Service, Active, StepInv, containers, All
      <3>2. Service = "before"
        BY <2>6, ServiceBefore DEF Prepare, Journal, StepInv, Pristine
      <3>3. QED
        BY <3>1, <3>2 DEF Promise!Reopen
    <2>7. [Next]_vars => \/ job' = job \/ EnterPhase \/ BeginSnapshot \/ RbPatch \/ Succeed
                         \/ FailEarly \/ RbDone \/ ResumeDone \/ LaunchFails \/ RbFail \/ Prepare
      BY DEF vars, Next, Forward, Rollback, Recover, Environment, Accept, Check, Move, Stop,
         CopyEntry, WriteManifest, Rename, Create, ReplaceEntry, Start, Healthy, Unhealthy,
         DiscardOld, DiscardSnap, RbClear, RestoreEntry, RestoreDone, RbRename, RbStart, RbHealth,
         Restart, Boot, ResumeStart, ResumeHealthy, Crash, StepThrows, JournalThrows,
         NewImageWrites
    <2>8. QED
      BY <2>1, <2>2, <2>3, <2>4, <2>5, <2>6, <2>7
  <1>3. QED
    BY <1>1, <1>2, Invariance, PTL DEF Spec, KeepsPromise, Promise!Spec
=============================================================================
