--------------------------- MODULE MaintenanceProofs ---------------------------
(***************************************************************************)
(* The safety of maintenance jobs for any administrators and any number of *)
(* requests, uploaded backups and crashes; and of the starts that follow a *)
(* restart or a restore, for any artifacts of the older release and any    *)
(* number of crashes and changes.                                          *)
(***************************************************************************)
EXTENDS Maintenance, Startup, TLAPS

Parses == Parsed \union {NoParse}
Handler == [step : {"free", "preparing", "launching", "answered"}, kind : Kinds, parsed : Parses,
            from : {0} \union Uploads]
Preview == [state : {"free", "ready", "gone"}, actor : Actors \union {""}, parsed : Parses]

(* A launched job whose outcome is open: on its way, or being carried out. *)
Open(r) == Live(r) \/ call[r] \in {"sent", "reading"}

KindInv ==
    /\ req \in [Requests -> Handler] /\ preview \in [Uploads -> Preview]
    /\ file \in [Kinds -> [id : {0} \union Requests, status : Statuses]]
    /\ call \in [Requests -> {"none", "sent", "reading", "accepted", "rejected"}]
    /\ task \in [Requests -> Steps]
    /\ busy \in BOOLEAN /\ contested \in BOOLEAN /\ crashes \in 0..MaxCrashes
    /\ stoppedBy \in {0} \union Requests /\ unrecovered \subseteq Requests

(* A call follows its handler, and a task its call.                        *)
CallInv ==
    \A r \in Requests :
        /\ call[r] # "none" => req[r].step \in {"launching", "answered"}
        /\ req[r].step = "launching" => call[r] # "none"
        /\ task[r] # "none" <=> call[r] = "accepted"

(* A state file names a job of its kind that was launched.                 *)
FileInv ==
    \A k \in Kinds :
        /\ file[k].id \in Requests => Kind(file[k].id) = k /\ call[file[k].id] # "none"
        /\ file[k].id = 0 => file[k].status = "none"

(* Unless a file was overwritten, an open job's file is its own and says   *)
(* that it is under way, ...                                               *)
OpenInv == ~contested => \A r \in Requests : Open(r) => Mine(r) /\ Running(Kind(r))

(* ... and the application is down on account of a job that is at work, or *)
(* has ended with a word to the administrator or to the next recovery; no  *)
(* handler is left to touch that job's file.                               *)
Down == {"work", "start", "undo"}
Accounted(r) == \/ task[r] \in Down /\ Running(Kind(r))
                \/ file[Kind(r)].status = "recovery_required"
                \/ r \in unrecovered /\ Running(Kind(r))
DownInv ==
    ~Up => /\ \A r \in Requests : req[r].step \notin {"preparing", "launching"}
           /\ Open(stoppedBy) => task[stoppedBy] \in Down
           /\ ~contested => Mine(stoppedBy) /\ Accounted(stoppedBy)

IInv == KindInv /\ CallInv /\ FileInv /\ OpenInv /\ DownInv /\ SuccessIsEarned
-----------------------------------------------------------------------------
(* What a preview keeps of a valid archive is complete.                    *)
LEMMA ParsesAreComplete ==
    ASSUME NEW x \in Parses
    PROVE  /\ x \in [components : SUBSET Components, staged : SUBSET Components]
           /\ "data" \in x.components => "data" \in x.staged
           /\ x.staged \subseteq x.components
  <1>1. CASE x = NoParse
    BY <1>1 DEF NoParse
  <1>2. CASE x \in Parsed
    <2>1. PICK a \in Backups : /\ validateArchive(a)
                               /\ x = [components |-> Restored(a),
                                       staged |-> {c \in Components : a.entry[c] = "listed"}]
      BY <1>2 DEF Parsed
    <2>2. Restored(a) \subseteq Components
      BY DEF Restored, Components
    <2>3. \A c \in Components : a.entry[c] = "listed" => c \in Restored(a)
      BY <2>1 DEF validateArchive
    <2>4. "data" \in Restored(a) => "data" \in Components /\ a.entry["data"] = "listed"
      BY <2>1, <2>2 DEF validateArchive
    <2>5. QED
      BY <2>1, <2>2, <2>3, <2>4
  <1>3. QED
    BY <1>1, <1>2 DEF Parses

LEMMA InvImplies == IInv => DownIsRecoverable /\ JobsAreSound
  <1> SUFFICES ASSUME IInv PROVE DownIsRecoverable /\ JobsAreSound
    OBVIOUS
  <1>1. TypeOK
    BY ParsesAreComplete DEF IInv, KindInv, TypeOK, Handler, Preview
  <1>2. DownIsRecoverable
    BY DEF DownIsRecoverable, IInv, DownInv, Accounted, Down
  <1>3. FailedHasEnded
    <2>1. SUFFICES ASSUME NEW k \in Kinds, file[k].status \in {"failed", "recovery_required"}, ~contested
                   PROVE  ~Open(file[k].id)
      BY DEF FailedHasEnded, Open
    <2>2. file[k].id \in Requests /\ Kind(file[k].id) = k
      BY <2>1 DEF IInv, KindInv, FileInv
    <2>3. QED
      BY <2>1, <2>2 DEF IInv, OpenInv, Running, Active
  <1>4. StageIsComplete
    BY ParsesAreComplete DEF StageIsComplete, IInv, KindInv, Handler
  <1>5. QED
    BY <1>1, <1>2, <1>3, <1>4 DEF JobsAreSound, IInv

LEMMA InitialInv == Init => IInv
  <1> SUFFICES ASSUME Init PROVE IInv
    OBVIOUS
  <1>1. KindInv
    <2>1. NoParse \in Parses /\ 0 \in 0..MaxCrashes
      BY ConstantsAssumption DEF Parses
    <2>2. req \in [Requests -> Handler] /\ preview \in [Uploads -> Preview]
      BY <2>1 DEF Init, Handler, Preview, Kinds
    <2>3. busy \in BOOLEAN /\ contested \in BOOLEAN
      BY Zenon DEF Init
    <2>4. /\ file \in [Kinds -> [id : {0} \union Requests, status : Statuses]]
          /\ call \in [Requests -> {"none", "sent", "reading", "accepted", "rejected"}]
          /\ task \in [Requests -> Steps]
      BY DEF Init, None, Steps, Statuses
    <2>5. QED
      BY <2>1, <2>2, <2>3, <2>4 DEF Init, KindInv
  <1>2. /\ \A r \in Requests : call[r] = "none" /\ task[r] = "none" /\ req[r].step = "free"
        /\ \A k \in Kinds : file[k].id = 0 /\ file[k].status = "none"
    BY DEF Init, None
  <1>3. 0 \notin Requests
    BY DEF Requests
  <1>4. QED
    BY <1>1, <1>2, <1>3
    DEF Init, IInv, CallInv, FileInv, OpenInv, Open, Live, DownInv, Up, SuccessIsEarned
-----------------------------------------------------------------------------
(* The application.                                                        *)

(* Handlers and previews come and go without the updater noticing.         *)
LEMMA HandlersStep ==
    ASSUME IInv, req' \in [Requests -> Handler], preview' \in [Uploads -> Preview],
           UNCHANGED <<file, call, updater, stoppedBy, contested>>, crashes' \in 0..MaxCrashes,
           \A r \in Requests :
              /\ req'[r].step \in {"preparing", "launching"} => Up \/ req'[r].step = req[r].step
              /\ call[r] # "none" => req'[r].kind = req[r].kind /\ req'[r].step \in {"launching", "answered"}
              /\ req'[r].step = "launching" => call[r] # "none"
    PROVE  IInv'
  <1> USE DEF IInv, updater
  <1>1. KindInv' /\ SuccessIsEarned'
    BY DEF KindInv, SuccessIsEarned
  <1>2. CallInv'
    BY DEF CallInv
  <1>3. FileInv'
    BY DEF FileInv, Kind
  <1>4. OpenInv'
    <2>1. SUFFICES ASSUME ~contested, NEW r \in Requests, Open(r) PROVE (Mine(r) /\ Running(Kind(r)))'
      BY DEF OpenInv, Open, Live
    <2>2. call[r] # "none"
      BY <2>1 DEF Open, Live, CallInv
    <2>3. req'[r].kind = req[r].kind
      BY <2>2
    <2>4. QED
      BY <2>1, <2>3 DEF OpenInv, Mine, Kind, Running
  <1>5. DownInv'
    <2>1. SUFFICES ASSUME ~Up PROVE DownInv'
      BY DEF DownInv, Up
    <2>2. \A r \in Requests : req'[r].step \notin {"preparing", "launching"}
      BY <2>1 DEF DownInv
    <2>3. Open(stoppedBy)' <=> Open(stoppedBy)
      BY DEF Open, Live
    <2>4. ~contested => Kind(stoppedBy)' = Kind(stoppedBy)
      <3>1. SUFFICES ASSUME ~contested PROVE Kind(stoppedBy)' = Kind(stoppedBy)
        OBVIOUS
      <3>2. stoppedBy \in Requests /\ Mine(stoppedBy) /\ Kind(stoppedBy) \in Kinds
        BY <2>1, <3>1 DEF DownInv, Up, KindInv, Kind, Handler
      <3>3. call[stoppedBy] # "none"
        BY <3>2 DEF FileInv, Mine
      <3>4. QED
        BY <3>2, <3>3 DEF Kind
    <2>5. QED
      BY <2>1, <2>2, <2>3, <2>4 DEF DownInv, Accounted, Mine, Running
  <1>6. QED
    BY <1>1, <1>2, <1>3, <1>4, <1>5

LEMMA UploadSteps ==
    ASSUME IInv, NEW p \in Uploads,
           Expire(p) \/ \E actor \in Actors, parsed \in Parsed : UploadBackup(p, actor, parsed)
    PROVE  IInv'
  <1>1. preview' \in [Uploads -> Preview]
    <2>2. preview \in [Uploads -> Preview] /\ preview[p] \in Preview
      BY DEF IInv, KindInv
    <2>3. [preview[p] EXCEPT !.state = "gone"] \in Preview
      BY <2>2 DEF Preview
    <2>4. \A actor \in Actors, parsed \in Parsed :
             [state |-> "ready", actor |-> actor, parsed |-> parsed] \in Preview
      BY DEF Preview, Parses
    <2>5. QED
      BY <2>2, <2>3, <2>4 DEF UploadBackup, Expire
  <1>2. QED
    BY <1>1, HandlersStep DEF UploadBackup, Expire, IInv, KindInv, CallInv

LEMMA AskSteps ==
    ASSUME IInv, NEW r \in Requests,
           \/ AskUpdate(r) \/ GiveUp(r) \/ Launched(r)
           \/ \E p \in Uploads, actor \in Actors : AskRestore(r, p, actor)
    PROVE  IInv'
  <1>1. /\ req' \in [Requests -> Handler]
        /\ \A q \in Requests \ {r} : req'[q] = req[q]
        /\ call[r] # "none" => req'[r].kind = req[r].kind /\ req'[r].step = "answered"
        /\ req'[r].step # "launching"
        /\ req'[r].step = "preparing" => Up
    <2>1. CASE AskUpdate(r) \/ GiveUp(r)
      <3>1. PICK step \in {"preparing", "answered"} :
                /\ req' = [req EXCEPT ![r].step = step]
                /\ step = "preparing" => Up
        BY <2>1 DEF AskUpdate, GiveUp, Goto
      <3>2. req \in [Requests -> Handler] /\ req[r] \in Handler
        BY DEF IInv, KindInv
      <3>3. [req[r] EXCEPT !.step = step] \in Handler /\ [req[r] EXCEPT !.step = step].step = step
        BY <3>2 DEF Handler
      <3>4. req' \in [Requests -> Handler] /\ req'[r].step = step /\ \A q \in Requests \ {r} : req'[q] = req[q]
        BY <3>1, <3>2, <3>3
      <3>5. call[r] = "none"
        BY <2>1 DEF AskUpdate, GiveUp, Fresh, IInv, CallInv
      <3>6. QED
        BY <3>1, <3>4, <3>5
    <2>2. CASE Launched(r)
      <3>1. req \in [Requests -> Handler] /\ req[r] \in Handler
        BY DEF IInv, KindInv
      <3>2. req' = [req EXCEPT ![r].step = "answered"]
        BY <2>2 DEF Launched, Goto
      <3>3. [req[r] EXCEPT !.step = "answered"] \in Handler
        BY <3>1 DEF Handler
      <3>4. /\ req' \in [Requests -> Handler] /\ req'[r] = [req[r] EXCEPT !.step = "answered"]
            /\ \A q \in Requests \ {r} : req'[q] = req[q]
        BY <3>1, <3>2, <3>3
      <3>5. req'[r].step = "answered" /\ req'[r].kind = req[r].kind
        BY <3>1, <3>4 DEF Handler
      <3>6. QED
        BY <3>4, <3>5
    <2>3. CASE \E p \in Uploads, actor \in Actors : AskRestore(r, p, actor)
      <3>1. PICK p \in Uploads, actor \in Actors : AskRestore(r, p, actor)
        BY <2>3
      <3>2. [step |-> "preparing", kind |-> "restore", parsed |-> preview[p].parsed, from |-> p] \in Handler
        BY DEF Handler, IInv, KindInv, Preview, Kinds
      <3>3. call[r] = "none"
        BY <3>1 DEF AskRestore, Fresh, IInv, CallInv
      <3>4. QED
        BY <3>1, <3>2, <3>3 DEF AskRestore, IInv, KindInv
    <2>4. QED
      BY <2>1, <2>2, <2>3
  <1>2. UNCHANGED <<file, preview, call, updater, stoppedBy, crashes, contested>>
    BY DEF AskUpdate, GiveUp, Launched, AskRestore
  <1>3. QED
    BY <1>1, <1>2, HandlersStep DEF IInv, KindInv, CallInv

(* Nothing is left of the handlers and previews of a stopped application.  *)
LEMMA DropTypes ==
    ASSUME IInv, DropHandlers
    PROVE  /\ req' \in [Requests -> Handler] /\ preview' \in [Uploads -> Preview]
           /\ \A r \in Requests : /\ req'[r].kind = req[r].kind
                                  /\ req'[r].step \notin {"preparing", "launching"}
                                  /\ req[r].step \in {"launching", "answered"} => req'[r].step = "answered"
  <1>1. ASSUME NEW r \in Requests
        PROVE  /\ req'[r] \in Handler /\ req'[r].kind = req[r].kind
               /\ req'[r].step \notin {"preparing", "launching"}
               /\ req[r].step \in {"launching", "answered"} => req'[r].step = "answered"
    <2>1. /\ req[r] \in Handler
          /\ req'[r] = IF req[r].step \in {"preparing", "launching"} THEN [req[r] EXCEPT !.step = "answered"]
                       ELSE req[r]
      BY DEF DropHandlers, IInv, KindInv
    <2>2. QED
      BY <2>1 DEF Handler
  <1>2. \A p \in Uploads : preview[p] \in Preview
    BY DEF IInv, KindInv
  <1>3. preview' \in [Uploads -> Preview]
    <2>1. \A x \in Preview : [x EXCEPT !.state = "gone"] \in Preview
      BY DEF Preview
    <2>2. QED
      BY <1>2, <2>1 DEF DropHandlers
  <1>4. req' \in [Requests -> Handler]
    BY <1>1 DEF DropHandlers
  <1>5. QED
    BY <1>1, <1>3, <1>4

LEMMA AppCrashStep == ASSUME IInv, AppCrash PROVE IInv'
  <1>1. crashes' \in 0..MaxCrashes
    BY ConstantsAssumption DEF AppCrash, IInv, KindInv
  <1>2. QED
    BY <1>1, DropTypes, HandlersStep DEF AppCrash, IInv, CallInv
-----------------------------------------------------------------------------
(* The jobs.                                                               *)

(* The file of a job is written by its own task only, ...                  *)
Written(r, status, next) ==
    /\ Mine(r) /\ file' = [file EXCEPT ![Kind(r)].status = status]
    /\ status \in Statuses
    /\ status = "succeeded" => next = "over" \/ file[Kind(r)].status = "succeeded"
    /\ ~contested /\ next # "over" => status \in Active

(* ... it leaves the application running, or stopped by the task itself,   *)
(* or as it was, ...                                                       *)
Footing(r, next) ==
    \/ stoppedBy' = 0
    \/ /\ stoppedBy' = r /\ next \in Down
       /\ \A q \in Requests : req'[q].step \notin {"preparing", "launching"}
    \/ /\ stoppedBy' = stoppedBy
       /\ stoppedBy = r => \/ next \in Down
                           \/ /\ next = "over"
                              /\ \/ Mine(r) => file'[Kind(r)].status = "recovery_required"
                                 \/ file' = file /\ (Mine(r) => r \in unrecovered')

(* ... and that is what a task's step needs to keep the invariant.         *)
LEMMA TaskStep ==
    ASSUME IInv, NEW r \in Requests, Live(r), NEW next \in Steps \ {"none"},
           task' = [task EXCEPT ![r] = next], busy' \in BOOLEAN,
           UNCHANGED <<call, contested, crashes>>,
           unrecovered \subseteq unrecovered', unrecovered' \subseteq Requests,
           req' \in [Requests -> Handler], preview' \in [Uploads -> Preview],
           \A q \in Requests : /\ req'[q].kind = req[q].kind
                               /\ req'[q].step \in {"preparing", "launching"} => req'[q].step = req[q].step
                               /\ req[q].step \in {"launching", "answered"} => req'[q].step \in {"launching", "answered"},
           file' = file \/ \E status : Written(r, status, next),
           Footing(r, next)
    PROVE  IInv'
  <1>1. task'[r] = next /\ \A q \in Requests \ {r} : task'[q] = task[q]
    BY DEF IInv, KindInv
  <1>2. task' \in [Requests -> Steps]
    BY DEF IInv, KindInv
  <1>3. /\ file' \in [Kinds -> [id : {0} \union Requests, status : Statuses]]
        /\ \A k \in Kinds : file'[k].id = file[k].id /\ (k # Kind(r) => file'[k] = file[k])
    <2>1. CASE file' = file
      BY <2>1 DEF IInv, KindInv
    <2>2. CASE \E status : Written(r, status, next)
      <3>1. PICK status : Written(r, status, next)
        BY <2>2
      <3>2. Kind(r) \in Kinds
        BY DEF Kind, IInv, KindInv, Handler
      <3>3. file[Kind(r)] \in [id : {0} \union Requests, status : Statuses]
        BY <3>2 DEF IInv, KindInv
      <3>4. /\ [file[Kind(r)] EXCEPT !.status = status]
                 \in [id : {0} \union Requests, status : Statuses]
            /\ [file[Kind(r)] EXCEPT !.status = status].id = file[Kind(r)].id
        BY <3>1, <3>3 DEF Written
      <3>5. QED
        BY <3>1, <3>2, <3>4 DEF Written, IInv, KindInv
    <2>3. QED
      BY <2>1, <2>2
  <1>4. KindInv'
    BY <1>2, <1>3 DEF IInv, KindInv, Footing
  <1>5. \A q \in Requests : Kind(q)' = Kind(q) /\ Kind(q) \in Kinds
    BY DEF Kind, IInv, KindInv, Handler
  <1>6. CallInv'
    BY <1>1 DEF IInv, CallInv, Live
  <1>7. Mine(r) => file[Kind(r)].id # 0
    BY DEF Mine, Requests
  <1>8. FileInv'
    <2>1. \A k \in Kinds : file[k].id = 0 => file'[k] = file[k]
      BY <1>3, <1>7 DEF Written
    <2>2. QED
      BY <1>3, <1>5, <2>1 DEF IInv, FileInv, Kind
  <1>9. OpenInv'
    <2>1. SUFFICES ASSUME ~contested, NEW q \in Requests, Open(q)'
                   PROVE  file'[Kind(q)].id = q /\ file'[Kind(q)].status \in Active
      BY <1>5 DEF OpenInv, Mine, Running, Kind
    <2>2. Mine(r) /\ Running(Kind(r))
      BY <2>1 DEF IInv, OpenInv, Open
    <2>3. CASE q = r
      <3>1. next # "over"
        BY <1>1, <2>1, <2>3 DEF Open, Live, IInv, CallInv
      <3>2. file'[Kind(r)].status \in Active
        <4>1. CASE file' = file
          BY <2>2, <4>1 DEF Running
        <4>2. CASE \E status : Written(r, status, next)
          <5>1. PICK status : Written(r, status, next)
            BY <4>2
          <5>2. file[Kind(r)] \in [id : {0} \union Requests, status : Statuses]
            BY <1>5 DEF IInv, KindInv
          <5>3. file'[Kind(r)].status = status
            BY <1>5, <5>1, <5>2 DEF Written, IInv, KindInv
          <5>4. QED
            BY <2>1, <3>1, <5>1, <5>3 DEF Written
        <4>3. QED
          BY <4>1, <4>2
      <3>3. QED
        BY <1>3, <1>5, <2>2, <2>3, <3>2 DEF Mine
    <2>4. CASE q # r
      <3>1. Open(q)
        BY <1>1, <2>1, <2>4 DEF Open, Live
      <3>2. Mine(q) /\ Running(Kind(q))
        BY <2>1, <3>1 DEF IInv, OpenInv
      <3>3. Kind(q) # Kind(r)
        BY <2>2, <2>4, <3>2 DEF Mine
      <3>4. QED
        BY <1>3, <1>5, <3>2, <3>3 DEF Mine, Running
    <2>5. QED
      BY <2>3, <2>4
  <1>10. SuccessIsEarned'
    <2>1. SUFFICES ASSUME NEW k \in Kinds, file'[k].status = "succeeded" PROVE task'[file[k].id] = "over"
      BY <1>3 DEF SuccessIsEarned
    <2>2. CASE file[k].status = "succeeded"
      <3>1. task[file[k].id] = "over" /\ file[k].id \in Requests
        BY <2>2 DEF IInv, SuccessIsEarned, FileInv, KindInv
      <3>2. file[k].id # r
        BY <3>1 DEF Live
      <3>3. QED
        BY <1>1, <3>1, <3>2
    <2>3. CASE file[k].status # "succeeded"
      <3>1. file' # file /\ k = Kind(r)
        BY <1>3, <2>1, <2>3
      <3>2. PICK status : Written(r, status, next)
        BY <3>1
      <3>3. file[k] \in [id : {0} \union Requests, status : Statuses]
        BY DEF IInv, KindInv
      <3>4. file'[k].status = status /\ file[k].id = r
        BY <1>5, <3>1, <3>2, <3>3 DEF Written, Mine, IInv, KindInv
      <3>5. QED
        BY <1>1, <2>1, <2>3, <3>1, <3>2, <3>4 DEF Written
    <2>4. QED
      BY <2>2, <2>3
  <1>11. DownInv'
    <2>1. CASE stoppedBy' = 0
      BY <2>1 DEF DownInv, Up
    <2>2. CASE stoppedBy' = r /\ next \in Down
      <3>1. \A q \in Requests : req'[q].step \notin {"preparing", "launching"}
        <4>1. CASE stoppedBy = r
          <5>1. ~Up
            BY <4>1 DEF Up, Requests
          <5>2. QED
            BY <5>1 DEF IInv, DownInv
        <4>2. CASE stoppedBy # r
          BY <2>2, <4>2 DEF Footing, Requests
        <4>3. QED
          BY <4>1, <4>2
      <3>2. Open(r)'
        BY <1>1, <2>2 DEF Open, Live, Down
      <3>3. ~contested => Mine(r)' /\ Running(Kind(r))'
        BY <1>9, <3>2 DEF OpenInv
      <3>4. QED
        BY <1>1, <2>2, <3>1, <3>3 DEF DownInv, Accounted
    <2>3. CASE stoppedBy' = stoppedBy /\ stoppedBy = r /\ next \notin Down
      <3>1. ~Up /\ next = "over"
        BY <2>3 DEF Up, Requests, Footing
      <3>2. /\ \A q \in Requests : req'[q].step \notin {"preparing", "launching"}
            /\ ~contested => Mine(r) /\ Running(Kind(r))
        BY <3>1 DEF IInv, DownInv, OpenInv, Open
      <3>3. ~Open(r)'
        BY <1>1, <3>1 DEF Open, Live, IInv, CallInv
      <3>4. ~contested => Mine(r)' /\ Accounted(r)'
        <4>1. SUFFICES ASSUME ~contested PROVE Mine(r)' /\ Accounted(r)'
          OBVIOUS
        <4>2. Mine(r) /\ Running(Kind(r)) /\ Kind(r)' = Kind(r) /\ Kind(r) \in Kinds
          BY <1>5, <3>2, <4>1
        <4>3. Mine(r)'
          BY <1>3, <4>2 DEF Mine
        <4>4. \/ file'[Kind(r)].status = "recovery_required"
              \/ file' = file /\ r \in unrecovered'
          BY <2>3, <4>2 DEF Footing, Requests
        <4>5. QED
          BY <4>2, <4>3, <4>4 DEF Accounted, Running
      <3>5. QED
        BY <2>3, <3>2, <3>3, <3>4 DEF DownInv
    <2>4. CASE stoppedBy' = stoppedBy /\ stoppedBy # r /\ stoppedBy # 0
      <3>1. /\ stoppedBy \in Requests /\ ~Up
            /\ \A q \in Requests : req'[q].step \notin {"preparing", "launching"}
        BY <2>4 DEF IInv, KindInv, Up, DownInv
      <3>2. Open(stoppedBy)' => task'[stoppedBy] \in Down
        BY <1>1, <2>4, <3>1 DEF IInv, DownInv, Open, Live
      <3>3. ~contested => Mine(stoppedBy)' /\ Accounted(stoppedBy)'
        <4>1. SUFFICES ASSUME ~contested PROVE Mine(stoppedBy)' /\ Accounted(stoppedBy)'
          OBVIOUS
        <4>2. Mine(stoppedBy) /\ Accounted(stoppedBy) /\ Mine(r)
          BY <3>1, <4>1 DEF IInv, DownInv, OpenInv, Open
        <4>3. Kind(stoppedBy) # Kind(r) /\ Kind(stoppedBy)' = Kind(stoppedBy)
          BY <1>5, <2>4, <3>1, <4>2 DEF Mine
        <4>4. file'[Kind(stoppedBy)] = file[Kind(stoppedBy)]
          BY <1>3, <1>5, <3>1, <4>3
        <4>5. task'[stoppedBy] = task[stoppedBy]
          BY <1>1, <2>4, <3>1
        <4>6. QED
          BY <2>4, <4>2, <4>3, <4>4, <4>5 DEF Accounted, Mine, Running
      <3>4. QED
        BY <2>4, <3>1, <3>2, <3>3 DEF DownInv
    <2>5. QED
      BY <2>1, <2>2, <2>3, <2>4 DEF Footing
  <1>12. QED
    BY <1>4, <1>6, <1>8, <1>9, <1>10, <1>11 DEF IInv

(* A step that leaves the handlers alone needs nothing said of them.       *)
LEMMA SameHandlers ==
    ASSUME IInv, UNCHANGED <<req, preview>>
    PROVE  /\ req' \in [Requests -> Handler] /\ preview' \in [Uploads -> Preview]
           /\ \A q \in Requests : req'[q] = req[q]
  BY DEF IInv, KindInv

LEMMA BusyKinds ==
    ASSUME IInv, NEW next
    PROVE  (busy /\ next # "over") \in BOOLEAN /\ TRUE \in BOOLEAN /\ FALSE \in BOOLEAN
           /\ busy \in BOOLEAN
  <1>1. busy \in BOOLEAN
    BY DEF IInv, KindInv
  <1>2. TRUE \in BOOLEAN /\ FALSE \in BOOLEAN
    BY Zenon
  <1>3. (busy /\ next # "over") \in BOOLEAN
    BY Zenon
  <1>4. QED
    BY <1>1, <1>2, <1>3

(* What a write of the file's own task amounts to.                         *)
LEMMA Writes ==
    ASSUME IInv, NEW r \in Requests, NEW step \in Steps \ {"none", "over"}, NEW next \in Steps \ {"none"},
           NEW status \in Statuses, Write(r, step, next, status),
           status = "succeeded" => next = "over" \/ file[Kind(r)].status = "succeeded",
           ~contested /\ next # "over" => status \in Active
    PROVE  /\ Live(r) /\ Mine(r) /\ busy' \in BOOLEAN /\ task[r] = step
           /\ task' = [task EXCEPT ![r] = next]
           /\ UNCHANGED <<call, contested, crashes, unrecovered>>
           /\ unrecovered \subseteq Requests
           /\ Written(r, status, next)
           /\ file'[Kind(r)].status = status
  <1> USE DEF Write
  <1>1. Live(r)
    BY DEF Live
  <1>2. busy' \in BOOLEAN
    BY BusyKinds
  <1>3. Written(r, status, next)
    BY DEF Written
  <1>4. file'[Kind(r)].status = status
    <2>1. Kind(r) \in Kinds
      BY DEF Kind, IInv, KindInv, Handler
    <2>2. file[Kind(r)] \in [id : {0} \union Requests, status : Statuses]
      BY <2>1 DEF IInv, KindInv
    <2>3. QED
      BY <2>1, <2>2 DEF IInv, KindInv
  <1>5. unrecovered \subseteq Requests
    BY DEF IInv, KindInv
  <1>6. QED
    BY <1>1, <1>2, <1>3, <1>4, <1>5

LEMMA PatchStep ==
    ASSUME IInv, NEW r \in Requests, NEW step \in Steps \ {"none", "over"}, NEW next \in Steps \ {"none"},
           NEW status \in Statuses, Patch(r, step, next, status),
           status = "succeeded" => next = "over" \/ file[Kind(r)].status = "succeeded",
           ~contested /\ next # "over" => status \in Active,
           \/ stoppedBy' = 0
           \/ stoppedBy' = stoppedBy /\ (step \in Down => \/ next \in Down
                                                          \/ next = "over" /\ status = "recovery_required")
    PROVE  IInv'
  <1> USE DEF Patch
  <1>1. /\ Live(r) /\ Mine(r) /\ busy' \in BOOLEAN /\ task[r] = step
        /\ task' = [task EXCEPT ![r] = next]
        /\ UNCHANGED <<call, contested, crashes, unrecovered>>
        /\ unrecovered \subseteq Requests
        /\ Written(r, status, next)
        /\ file'[Kind(r)].status = status
    BY Writes
  <1>2. Footing(r, next)
    <2>1. CASE stoppedBy' = 0
      BY <2>1 DEF Footing
    <2>2. CASE stoppedBy' = stoppedBy /\ stoppedBy # r
      BY <2>2 DEF Footing
    <2>3. CASE stoppedBy' # 0 /\ stoppedBy' = stoppedBy /\ stoppedBy = r
      <3>1. task[r] \in Down
        BY <1>1, <2>3 DEF IInv, DownInv, Up, Open
      <3>2. QED
        BY <1>1, <2>3, <3>1 DEF Footing
    <2>4. QED
      BY <2>1, <2>2, <2>3
  <1>3. QED
    BY <1>1, <1>2, SameHandlers, TaskStep

LEMMA PatchSteps ==
    ASSUME IInv, NEW r \in Requests,
           Begin(r) \/ Work(r) \/ Succeed(r) \/ RolledBack(r) \/ RequireRecovery(r)
    PROVE  IInv'
  <1> USE DEF Steps, Statuses, Active, Down
  <1>1. CASE Begin(r)
    BY <1>1, PatchStep DEF Begin
  <1>2. CASE Work(r)
    BY <1>2, PatchStep DEF Work
  <1>3. CASE Succeed(r)
    BY <1>3, PatchStep DEF Succeed
  <1>4. CASE RolledBack(r)
    BY <1>4, PatchStep DEF RolledBack
  <1>5. CASE RequireRecovery(r)
    <2>1. PICK step \in {"prepare", "check", "stop", "work", "start", "verify", "undo"} :
              /\ Patch(r, step, "over", "recovery_required")
              /\ stoppedBy' \in IF step = "undo" THEN {0, stoppedBy} ELSE {stoppedBy}
      BY <1>5 DEF RequireRecovery
    <2>2. stoppedBy' = 0 \/ stoppedBy' = stoppedBy
      BY <2>1
    <2>3. QED
      BY <2>1, <2>2, PatchStep
  <1>6. QED
    BY <1>1, <1>2, <1>3, <1>4, <1>5

LEMMA FailStep == ASSUME IInv, NEW r \in Requests, Fail(r) PROVE IInv'
  <1>1. PICK step \in {"work", "start", "verify"} :
            Write(r, step, "undo", "running") /\ stoppedBy' = r /\ DropHandlers
    BY DEF Fail
  <1>2. /\ Live(r) /\ busy' \in BOOLEAN
        /\ task' = [task EXCEPT ![r] = "undo"]
        /\ UNCHANGED <<call, contested, crashes, unrecovered>>
        /\ unrecovered \subseteq Requests
        /\ Written(r, "running", "undo")
    BY <1>1, Writes DEF Steps, Statuses, Active
  <1>3. /\ req' \in [Requests -> Handler] /\ preview' \in [Uploads -> Preview]
        /\ \A q \in Requests : /\ req'[q].kind = req[q].kind
                               /\ req'[q].step \notin {"preparing", "launching"}
                               /\ req[q].step \in {"launching", "answered"} => req'[q].step = "answered"
    BY <1>1, DropTypes
  <1>4. Footing(r, "undo")
    BY <1>1, <1>3 DEF Footing, Down
  <1>5. QED
    BY <1>2, <1>3, <1>4, TaskStep DEF Steps

LEMMA CheckStep == ASSUME IInv, NEW r \in Requests, Check(r) PROVE IInv'
  <1> USE DEF Steps, Active, Statuses, Down
  <1>1. CASE \E step \in {"check", "stop"} : Patch(r, step, "over", "failed") /\ UNCHANGED stoppedBy
    BY <1>1, PatchStep
  <1>2. CASE Kind(r) = "update" /\ Patch(r, "check", "stop", file["update"].status) /\ UNCHANGED stoppedBy
    <2>1. file["update"].status \in Statuses
      BY DEF IInv, KindInv, Kinds
    <2>2. ~contested => file["update"].status \in Active
      BY <1>2 DEF Patch, Write, IInv, OpenInv, Open, Live, Running
    <2>3. QED
      BY <1>2, <2>1, <2>2, PatchStep
  <1>3. CASE /\ Kind(r) = "restore" /\ task[r] = "check" /\ task' = [task EXCEPT ![r] = "stop"]
             /\ UNCHANGED <<file, req, preview, call, busy, stoppedBy, crashes, contested, unrecovered>>
    <2>1. Live(r) /\ busy' \in BOOLEAN /\ unrecovered' = unrecovered /\ unrecovered \subseteq Requests
      BY <1>3, BusyKinds DEF Live, IInv, KindInv
    <2>2. Footing(r, "stop")
      <3>1. stoppedBy # r
        <4>1. SUFFICES ASSUME stoppedBy = r PROVE FALSE
          OBVIOUS
        <4>2. ~Up /\ Open(r)
          BY <2>1, <4>1 DEF Up, Requests, Open
        <4>3. QED
          BY <1>3, <4>1, <4>2 DEF IInv, DownInv
      <3>2. QED
        BY <1>3, <3>1 DEF Footing
    <2>3. QED
      BY <1>3, <2>1, <2>2, SameHandlers, TaskStep
  <1>4. QED
    BY <1>1, <1>2, <1>3 DEF Check

LEMMA StopStep == ASSUME IInv, NEW r \in Requests, Stop(r) PROVE IInv'
  <1> USE DEF Stop
  <1>1. Live(r) /\ busy' \in BOOLEAN /\ unrecovered' = unrecovered /\ unrecovered \subseteq Requests
    BY BusyKinds DEF Live, IInv, KindInv
  <1>2. /\ req' \in [Requests -> Handler] /\ preview' \in [Uploads -> Preview]
        /\ \A q \in Requests : /\ req'[q].kind = req[q].kind
                               /\ req'[q].step \notin {"preparing", "launching"}
                               /\ req[q].step \in {"launching", "answered"} => req'[q].step = "answered"
    BY DropTypes
  <1>3. Footing(r, "work")
    BY <1>2 DEF Footing, Down
  <1>4. QED
    BY <1>1, <1>2, <1>3, TaskStep DEF Steps

LEMMA StartAppStep == ASSUME IInv, NEW r \in Requests, StartApp(r) PROVE IInv'
  <1> USE DEF StartApp
  <1>1. Live(r) /\ busy' \in BOOLEAN /\ unrecovered \subseteq Requests
    BY BusyKinds DEF Live, IInv, KindInv
  <1>2. Footing(r, "verify")
    BY DEF Footing
  <1>3. QED
    BY <1>1, <1>2, SameHandlers, TaskStep DEF Steps

LEMMA AbandonStep == ASSUME IInv, NEW r \in Requests, Abandon(r) PROVE IInv'
  <1> USE DEF Abandon
  <1>1. Live(r) /\ busy' \in BOOLEAN
    BY BusyKinds DEF Live
  <1>2. /\ unrecovered \subseteq unrecovered' /\ unrecovered' \subseteq Requests
        /\ Mine(r) => r \in unrecovered'
    BY DEF IInv, KindInv
  <1>3. stoppedBy' = 0 \/ stoppedBy' = stoppedBy
    OBVIOUS
  <1>4. Footing(r, "over")
    BY <1>2, <1>3 DEF Footing
  <1>5. QED
    BY <1>1, <1>2, <1>4, SameHandlers, TaskStep DEF Steps
-----------------------------------------------------------------------------
(* The calls between them.                                                 *)

LEMMA ReadStep == ASSUME IInv, NEW r \in Requests, Read(r) PROVE IInv'
  <1> USE DEF Read, IInv, updater
  <1>1. /\ call' \in [Requests -> {"none", "sent", "reading", "accepted", "rejected"}]
        /\ call'[r] \in {"reading", "rejected"} /\ \A q \in Requests \ {r} : call'[q] = call[q]
    BY DEF KindInv
  <1>2. KindInv' /\ CallInv' /\ FileInv'
    BY <1>1 DEF KindInv, CallInv, FileInv, Kind
  <1>3. OpenInv'
    <2>1. \A q \in Requests : Open(q)' => Open(q)
      BY <1>1 DEF Open, Live
    <2>2. QED
      BY <2>1 DEF OpenInv, Mine, Running, Kind
  <1>4. DownInv'
    BY <1>1 DEF DownInv, Up, Accounted, Open, Live, Mine, Running, Kind
  <1>5. QED
    BY <1>2, <1>3, <1>4 DEF SuccessIsEarned

LEMMA AcceptStep == ASSUME IInv, NEW r \in Requests, Accept(r) PROVE IInv'
  <1> USE DEF Accept, IInv
  <1>1. /\ call' \in [Requests -> {"none", "sent", "reading", "accepted", "rejected"}]
        /\ call'[r] = "accepted" /\ \A q \in Requests \ {r} : call'[q] = call[q]
        /\ task' \in [Requests -> Steps]
        /\ task'[r] = "prepare" /\ \A q \in Requests \ {r} : task'[q] = task[q]
    BY DEF KindInv, Steps
  <1>2. task[r] = "none"
    BY DEF CallInv
  <1>3. KindInv'
    BY <1>1, BusyKinds DEF KindInv
  <1>4. CallInv' /\ FileInv'
    BY <1>1 DEF CallInv, FileInv, Kind
  <1>5. OpenInv'
    <2>1. \A q \in Requests : Open(q)' => Open(q)
      BY <1>1 DEF Open, Live
    <2>2. QED
      BY <2>1 DEF OpenInv, Mine, Running, Kind
  <1>6. DownInv'
    <2>1. SUFFICES ASSUME ~Up PROVE DownInv'
      BY DEF DownInv, Up
    <2>2. stoppedBy \in Requests /\ stoppedBy # r
      BY <1>2, <2>1 DEF DownInv, KindInv, Up, Open, Down
    <2>3. task'[stoppedBy] = task[stoppedBy] /\ call'[stoppedBy] = call[stoppedBy]
      BY <1>1, <2>2
    <2>4. QED
      BY <2>1, <2>3 DEF DownInv, Up, Accounted, Open, Live, Mine, Running, Kind
  <1>7. SuccessIsEarned'
    BY <1>1, <1>2 DEF SuccessIsEarned, KindInv, FileInv
  <1>8. QED
    BY <1>3, <1>4, <1>5, <1>6, <1>7

(* What Store and LaunchFails share: the file becomes the job's own.       *)
LEMMA OwnFile ==
    ASSUME IInv, NEW r \in Requests, NEW status \in {"pending", "failed"},
           file' = [file EXCEPT ![Kind(r)] = Job(r, status)]
    PROVE  /\ Kind(r) \in Kinds
           /\ file' \in [Kinds -> [id : {0} \union Requests, status : Statuses]]
           /\ file'[Kind(r)].id = r /\ file'[Kind(r)].status = status
           /\ \A k \in Kinds \ {Kind(r)} : file'[k] = file[k]
  <1>1. Kind(r) \in Kinds
    BY DEF Kind, IInv, KindInv, Handler
  <1>2. /\ Job(r, status) \in [id : {0} \union Requests, status : Statuses]
        /\ Job(r, status).id = r /\ Job(r, status).status = status
    BY DEF Job, Active, Statuses
  <1>3. QED
    BY <1>1, <1>2 DEF IInv, KindInv

LEMMA StoreStep == ASSUME IInv, NEW r \in Requests, Store(r) PROVE IInv'
  <1> USE DEF IInv, updater
  <1>1. call[r] = "none" /\ task[r] = "none"
    BY DEF Store, CallInv
  <1>2. /\ req' \in [Requests -> Handler] /\ req'[r].step = "launching"
        /\ \A q \in Requests : req'[q].kind = req[q].kind
        /\ \A q \in Requests \ {r} : req'[q] = req[q]
    <2>1. /\ req \in [Requests -> Handler] /\ req[r] \in Handler
          /\ req' = [req EXCEPT ![r].step = "launching"]
      BY DEF Store, Goto, KindInv
    <2>2. /\ [req[r] EXCEPT !.step = "launching"] \in Handler
          /\ [req[r] EXCEPT !.step = "launching"].step = "launching"
          /\ [req[r] EXCEPT !.step = "launching"].kind = req[r].kind
      BY <2>1 DEF Handler
    <2>3. QED
      BY <2>1, <2>2
  <1>3. preview' \in [Uploads -> Preview]
    <2>1. \A x \in Preview : [x EXCEPT !.state = "gone"] \in Preview
      BY DEF Preview
    <2>2. QED
      BY <2>1 DEF Store, KindInv
  <1>4. /\ call' \in [Requests -> {"none", "sent", "reading", "accepted", "rejected"}]
        /\ call'[r] = "sent" /\ \A q \in Requests \ {r} : call'[q] = call[q]
    BY DEF Store, KindInv
  <1>5. contested' \in BOOLEAN
    <2>1. (contested \/ Disturbs(r)) \in BOOLEAN
      BY Zenon
    <2>2. QED
      BY <2>1 DEF Store
  <1>6. file' = [file EXCEPT ![Kind(r)] = Job(r, "pending")]
    BY DEF Store
  <1>7. /\ Kind(r) \in Kinds
        /\ file' \in [Kinds -> [id : {0} \union Requests, status : Statuses]]
        /\ file'[Kind(r)].id = r /\ file'[Kind(r)].status = "pending"
        /\ \A k \in Kinds \ {Kind(r)} : file'[k] = file[k]
    BY <1>6, OwnFile
  <1>8. KindInv'
    BY <1>2, <1>3, <1>4, <1>5, <1>7 DEF Store, KindInv
  <1>9. CallInv'
    BY <1>1, <1>2, <1>4 DEF Store, CallInv
  <1>10. FileInv'
    BY <1>2, <1>4, <1>7 DEF FileInv, Kind, Requests
  <1>11. OpenInv'
    <2>1. SUFFICES ASSUME ~contested, ~Disturbs(r), NEW q \in Requests, Open(q)'
                   PROVE  file'[Kind(q)].id = q /\ file'[Kind(q)].status \in Active
      BY <1>2 DEF OpenInv, Mine, Running, Kind, Store
    <2>2. CASE q = r
      BY <1>7, <2>2 DEF Active
    <2>3. CASE q # r
      <3>1. Open(q)
        BY <1>4, <2>1, <2>3 DEF Open, Live, Store
      <3>2. Kind(q) # Kind(r) /\ Kind(q) \in Kinds
        BY <2>1, <2>3, <3>1 DEF Disturbs, Open, Kind, KindInv, Handler
      <3>3. QED
        BY <1>7, <2>1, <3>1, <3>2 DEF OpenInv, Mine, Running
    <2>4. QED
      BY <2>2, <2>3
  <1>12. DownInv' /\ SuccessIsEarned'
    <2>1. stoppedBy' = 0
      BY DEF Store, DownInv, Up
    <2>2. QED
      BY <1>7, <2>1 DEF DownInv, Up, SuccessIsEarned, Store
  <1>13. QED
    BY <1>8, <1>9, <1>10, <1>11, <1>12

LEMMA LaunchFailsStep == ASSUME IInv, NEW r \in Requests, LaunchFails(r) PROVE IInv'
  <1> USE DEF IInv, updater
  <1>1. call[r] # "none"
    BY DEF LaunchFails, CallInv
  <1>2. /\ req' \in [Requests -> Handler] /\ req'[r].step = "answered"
        /\ \A q \in Requests : req'[q].kind = req[q].kind
        /\ \A q \in Requests \ {r} : req'[q] = req[q]
    <2>1. /\ req \in [Requests -> Handler] /\ req[r] \in Handler
          /\ req' = [req EXCEPT ![r].step = "answered"]
      BY DEF LaunchFails, Goto, KindInv
    <2>2. /\ [req[r] EXCEPT !.step = "answered"] \in Handler
          /\ [req[r] EXCEPT !.step = "answered"].step = "answered"
          /\ [req[r] EXCEPT !.step = "answered"].kind = req[r].kind
      BY <2>1 DEF Handler
    <2>3. QED
      BY <2>1, <2>2
  <1>3. contested' \in BOOLEAN
    <2>1. (contested \/ Disturbs(r) \/ call[r] # "rejected") \in BOOLEAN
      BY Zenon
    <2>2. QED
      BY <2>1 DEF LaunchFails
  <1>4. file' = [file EXCEPT ![Kind(r)] = Job(r, "failed")]
    BY DEF LaunchFails
  <1>5. /\ Kind(r) \in Kinds
        /\ file' \in [Kinds -> [id : {0} \union Requests, status : Statuses]]
        /\ file'[Kind(r)].id = r /\ file'[Kind(r)].status = "failed"
        /\ \A k \in Kinds \ {Kind(r)} : file'[k] = file[k]
    BY <1>4, OwnFile
  <1>6. KindInv'
    BY <1>2, <1>3, <1>5 DEF LaunchFails, KindInv
  <1>7. CallInv'
    BY <1>1, <1>2 DEF LaunchFails, CallInv
  <1>8. FileInv'
    BY <1>1, <1>2, <1>5 DEF LaunchFails, FileInv, Kind, Requests
  <1>9. OpenInv'
    <2>1. SUFFICES ASSUME ~contested, ~Disturbs(r), call[r] = "rejected", NEW q \in Requests, Open(q)
                   PROVE  file'[Kind(q)].id = q /\ file'[Kind(q)].status \in Active
      BY <1>2 DEF OpenInv, Mine, Running, Kind, Open, Live, LaunchFails
    <2>2. q # r
      BY <2>1 DEF Open, Live, CallInv
    <2>3. Kind(q) # Kind(r) /\ Kind(q) \in Kinds
      BY <2>1, <2>2 DEF Disturbs, Open, Kind, KindInv, Handler
    <2>4. QED
      BY <1>5, <2>1, <2>3 DEF OpenInv, Mine, Running
  <1>10. DownInv' /\ SuccessIsEarned'
    <2>1. stoppedBy' = 0
      BY DEF LaunchFails, DownInv, Up
    <2>2. QED
      BY <1>5, <2>1 DEF DownInv, Up, SuccessIsEarned, LaunchFails
  <1>11. QED
    BY <1>6, <1>7, <1>8, <1>9, <1>10

(* After a restart of the updater nothing is open any more.                *)
LEMMA UpdaterRestartStep == ASSUME IInv, UpdaterRestart PROVE IInv'
  <1> DEFINE kinds == {k \in Kinds : Running(k)}
             last  == LastOf(kinds)
  <1> USE DEF UpdaterRestart, UpdaterDies, IInv
  <1>1. /\ task' \in [Requests -> Steps]
        /\ \A r \in Requests : /\ ~Live(r)'
                               /\ task[r] = "over" => task'[r] = "over"
                               /\ task[r] = "none" <=> task'[r] = "none"
    BY DEF KindInv, Live, Steps
  <1>2. /\ call' \in [Requests -> {"none", "sent", "reading", "accepted", "rejected"}]
        /\ \A r \in Requests : /\ call'[r] \notin {"sent", "reading"}
                               /\ call[r] = "none" <=> call'[r] = "none"
                               /\ call[r] = "accepted" <=> call'[r] = "accepted"
    BY DEF KindInv
  <1>3. PICK outcome \in Outcomes(kinds) :
          /\ file' = [k \in Kinds |-> IF k \in kinds /\ outcome[k] # "thrown"
                                      THEN [file[k] EXCEPT !.status = outcome[k]] ELSE file[k]]
          /\ unrecovered' = {file[k].id : k \in {x \in kinds : outcome[x] = "thrown"}}
          /\ stoppedBy' \in IF kinds = {} THEN {stoppedBy}
                            ELSE IF outcome[last] = "failed" THEN {0} ELSE {0, file[last].id}
          /\ \/ kinds # {} /\ DropHandlers
             \/ (kinds = {} \/ stoppedBy' = 0) /\ UNCHANGED <<req, preview>>
    BY DEF Recovered
  <1>4. \A k \in kinds : /\ outcome[k] \in {"failed", "recovery_required", "thrown"}
                         /\ file[k].id \in Requests /\ Kind(file[k].id) = k
    BY <1>3 DEF Outcomes, KindInv, FileInv, Running, Active
  <1>5. kinds # {} => last \in kinds
    BY DEF LastOf, Kinds
  <1>6. \A k \in Kinds :
          /\ file'[k] \in [id : {0} \union Requests, status : Statuses]
          /\ file'[k].id = file[k].id
          /\ file'[k] = file[k] \/ file'[k].status \in {"failed", "recovery_required"}
          /\ k \notin kinds => file'[k] = file[k]
          /\ k \in kinds /\ outcome[k] = "recovery_required" => file'[k].status = "recovery_required"
          /\ k \in kinds /\ outcome[k] = "thrown" => file'[k] = file[k] /\ file[k].id \in unrecovered'
    <2>1. ASSUME NEW k \in Kinds
          PROVE  /\ file'[k] \in [id : {0} \union Requests, status : Statuses]
                 /\ file'[k].id = file[k].id
                 /\ file'[k] = file[k] \/ file'[k].status \in {"failed", "recovery_required"}
                 /\ k \notin kinds => file'[k] = file[k]
                 /\ k \in kinds /\ outcome[k] = "recovery_required" => file'[k].status = "recovery_required"
                 /\ k \in kinds /\ outcome[k] = "thrown" => file'[k] = file[k]
      <3>1. /\ file[k] \in [id : {0} \union Requests, status : Statuses]
            /\ file'[k] = IF k \in kinds /\ outcome[k] # "thrown"
                          THEN [file[k] EXCEPT !.status = outcome[k]] ELSE file[k]
        BY <1>3 DEF KindInv
      <3>2. QED
        BY <1>4, <3>1 DEF Statuses
    <2>2. QED
      BY <1>3, <2>1
  <1>7. /\ req' \in [Requests -> Handler] /\ preview' \in [Uploads -> Preview]
        /\ \A r \in Requests : /\ req'[r].kind = req[r].kind
                               /\ req'[r].step = "launching" => req[r].step = "launching"
                               /\ req[r].step \in {"launching", "answered"} => req'[r].step \in {"launching", "answered"}
    BY <1>3, DropTypes, SameHandlers
  <1>8. KindInv'
    <2>1. crashes' \in 0..MaxCrashes
      BY ConstantsAssumption DEF KindInv
    <2>2. busy' \in BOOLEAN
      BY BusyKinds
    <2>3. stoppedBy' \in {0} \union Requests
      BY <1>3, <1>4, <1>5 DEF KindInv
    <2>4. unrecovered' \subseteq Requests
      BY <1>3, <1>4
    <2>5. file' \in [Kinds -> [id : {0} \union Requests, status : Statuses]]
      BY <1>3, <1>6
    <2>6. QED
      BY <1>1, <1>2, <1>7, <2>1, <2>2, <2>3, <2>4, <2>5 DEF KindInv
  <1>9. CallInv'
    BY <1>1, <1>2, <1>7 DEF CallInv
  <1>10. FileInv'
    <2>1. \A k \in Kinds : file[k].id = 0 => file'[k] = file[k]
      <3>1. 0 \notin Requests
        BY DEF Requests
      <3>2. QED
        BY <1>4, <1>6, <3>1
    <2>2. \A k \in Kinds : file[k].id \in {0} \union Requests
      BY DEF KindInv
    <2>3. QED
      BY <1>2, <1>6, <1>7, <2>1, <2>2 DEF FileInv, Kind
  <1>11. OpenInv'
    BY <1>1, <1>2 DEF OpenInv, Open
  <1>12. DownInv'
    <2>1. SUFFICES ASSUME stoppedBy' # 0 PROVE DownInv'
      BY DEF DownInv, Up
    <2>2. stoppedBy' \in Requests /\ ~Open(stoppedBy)'
      BY <1>1, <1>2, <1>8, <2>1 DEF KindInv, Open
    <2>3. CASE kinds = {}
      <3>1. /\ stoppedBy' = stoppedBy /\ req' = req /\ \A k \in Kinds : file'[k] = file[k]
        BY <1>3, <1>6, <2>3
      <3>2. ~Up /\ \A k \in Kinds : ~Running(k)
        BY <2>1, <2>3, <3>1 DEF Up
      <3>3. Kind(stoppedBy) \in Kinds /\ Kind(stoppedBy)' = Kind(stoppedBy)
        BY <2>2, <3>1 DEF Kind, KindInv, Handler
      <3>4. ~contested => Mine(stoppedBy)' /\ Accounted(stoppedBy)'
        BY <3>1, <3>2, <3>3 DEF DownInv, Accounted, Mine
      <3>5. QED
        BY <2>2, <3>1, <3>2, <3>4 DEF DownInv
    <2>4. CASE kinds # {}
      <3>1. stoppedBy' = file[last].id /\ outcome[last] # "failed" /\ DropHandlers /\ last \in kinds
        BY <1>3, <1>5, <2>1, <2>4
      <3>2. \A r \in Requests : req'[r].step \notin {"preparing", "launching"}
        BY <3>1, DropTypes
      <3>3. Kind(stoppedBy)' = last /\ last \in Kinds
        BY <1>4, <1>7, <2>2, <3>1 DEF Kind
      <3>4. Mine(stoppedBy)'
        BY <1>6, <3>1, <3>3 DEF Mine, Kind
      <3>5. CASE outcome[last] = "recovery_required"
        BY <1>6, <2>2, <3>1, <3>2, <3>3, <3>4, <3>5 DEF DownInv, Accounted
      <3>6. CASE outcome[last] = "thrown"
        <4>1. file'[last] = file[last] /\ file[last].id \in unrecovered' /\ Running(last)
          BY <1>6, <3>1, <3>3, <3>6
        <4>2. QED
          BY <2>2, <3>1, <3>2, <3>3, <3>4, <4>1 DEF DownInv, Accounted, Running
      <3>7. QED
        BY <1>4, <3>1, <3>5, <3>6
    <2>5. QED
      BY <2>3, <2>4
  <1>13. SuccessIsEarned'
    BY <1>1, <1>6 DEF SuccessIsEarned, KindInv, FileInv
  <1>14. QED
    BY <1>8, <1>9, <1>10, <1>11, <1>12, <1>13
-----------------------------------------------------------------------------
LEMMA InvStep == IInv /\ [Next]_vars => IInv'
  <1> SUFFICES ASSUME IInv, [Next]_vars PROVE IInv'
    OBVIOUS
  <1>1. CASE Application
    BY <1>1, UploadSteps, AskSteps, StoreStep, LaunchFailsStep DEF Application
  <1>2. CASE Background
    BY <1>2, ReadStep, AcceptStep, PatchSteps, FailStep, CheckStep, StopStep, StartAppStep, AbandonStep
    DEF Background
  <1>3. CASE AppCrash
    BY <1>3, AppCrashStep
  <1>4. CASE UpdaterRestart
    BY <1>4, UpdaterRestartStep
  <1>5. CASE UNCHANGED vars
    BY <1>5 DEF vars, IInv, KindInv, CallInv, FileInv, OpenInv, Open, Live, Mine, Running, Kind,
                DownInv, Up, Accounted, SuccessIsEarned
  <1>6. QED
    BY <1>1, <1>2, <1>3, <1>4, <1>5 DEF Next

(* What maintenance rests on: every launched job whose outcome is open owns*)
(* its state file as long as no file was overwritten (launchJob, patchState*)
(* and recoverInterruptedJobs).                                            *)
THEOREM MaintenanceInvariance == Spec => []IInv
  <1>1. QED
    BY InitialInv, InvStep, PTL DEF Spec

(* Unless a file was overwritten, the application is down only on account  *)
(* of a job that is at work, asks for manual recovery, or waits for the    *)
(* updater's next recovery (rollbackUpdate, recoverInterruptedJobs).       *)
THEOREM Recoverability == Spec => []DownIsRecoverable
  <1>1. QED
    BY MaintenanceInvariance, InvImplies, PTL

(* What a state file says of a job is true, and a restore that has stopped *)
(* the application finds what it will put in place (validateArchive).      *)
THEOREM SoundJobs == Spec => []JobsAreSound
  <1>1. QED
    BY MaintenanceInvariance, InvImplies, PTL
-----------------------------------------------------------------------------
(* Starts: rows, and what placing, renaming and gathering make of them.    *)

LEMMA OverValue ==
  ASSUME NEW f, NEW g
  PROVE  /\ DOMAIN Over(f, g) = DOMAIN f \union DOMAIN g
         /\ \A n \in DOMAIN f : Over(f, g)[n] = f[n]
         /\ \A n \in DOMAIN g \ DOMAIN f : Over(f, g)[n] = g[n]
BY DEF Over

LEMMA DroppedValue ==
  ASSUME NEW f, NEW S
  PROVE  /\ DOMAIN Dropped(f, S) = DOMAIN f \ S
         /\ \A n \in DOMAIN f \ S : Dropped(f, S)[n] = f[n]
BY DEF Dropped, Restrict

LEMMA OldValue ==
  ASSUME NEW f
  PROVE  /\ DOMAIN Old(f) = DOMAIN f
         /\ \A n \in DOMAIN f : Old(f)[n] = Row(f[n], artifactColumns(f[n]))
BY DEF Old

LEMMA RowValue ==
  ASSUME NEW a, NEW c PROVE Row(a, c).json = a /\ Row(a, c).columns = c
BY DEF Row

(* A row is one of an artifact with an app and a model beside it.          *)
LEMMA RowIsRow ==
  ASSUME NEW a, IsArtifact(a)
  PROVE  IsRow(Row(a, artifactColumns(a))) /\ IsRow(Row(a, NoColumns))
BY DEF Row, IsRow, artifactColumns, NoColumns

LEMMA FirstIn ==
  ASSUME NEW S, S # {} PROVE First(S) \in S
BY DEF First

(* An artifact that is no app and names its app and its model stays as it  *)
(* is; a manifest learns models, anything else where it belongs.           *)
LEMMA PlacedShape ==
  ASSUME NEW rows, NEW a, IsArtifact(a)
  PROVE  LET p == Placed(rows, a)
             H == Harvested(rows, a.app)
         IN  /\ IsArtifact(p) /\ p.kind = a.kind /\ p.target = a.target
             /\ a.kind = "app" =>
                  p.app = a.app /\ p.model = a.model /\ p.models = IF a.models = {} THEN H ELSE a.models
             /\ a.kind # "app" => p.models = a.models
             /\ Stray(a) => p.app = "web" /\ p.model = IF a.model = NoName THEN "ClientCustom" ELSE a.model
             /\ a.kind # "app" /\ a.app # NoName =>
                  p.app = a.app /\ p.model = IF a.model = NoName /\ Single(H) THEN First(H) ELSE a.model
<1>1. CASE a.kind = "app" /\ a.models = {}
  <2>1. Placed(rows, a) = [a EXCEPT !.models = Harvested(rows, a.app)]
    BY <1>1 DEF Placed, Stray
  <2> QED BY <1>1, <2>1 DEF IsArtifact, Stray
<1>2. CASE Stray(a)
  <2>1. Placed(rows, a) = [a EXCEPT !.app = "web", !.model = IF @ = NoName THEN "ClientCustom" ELSE @]
    BY <1>2 DEF Placed, Stray
  <2> QED BY <1>2, <2>1 DEF IsArtifact, Stray
<1>3. CASE a.kind # "app" /\ ~Stray(a) /\ a.model = NoName /\ Single(Harvested(rows, a.app))
  <2>1. Placed(rows, a) = [a EXCEPT !.model = First(Harvested(rows, a.app))]
    BY <1>3 DEF Placed
  <2> QED BY <1>3, <2>1 DEF IsArtifact, Stray
<1>4. CASE /\ ~(a.kind = "app" /\ a.models = {}) /\ ~Stray(a)
           /\ ~(a.kind # "app" /\ ~Stray(a) /\ a.model = NoName /\ Single(Harvested(rows, a.app)))
  <2>1. Placed(rows, a) = a
    BY <1>4 DEF Placed
  <2> QED BY <1>4, <2>1 DEF Stray
<1> QED BY <1>1, <1>2, <1>3, <1>4

(* Placing depends on the models harvested only.                           *)
LEMMA PlacedSame ==
  ASSUME NEW rows, NEW others, NEW a, Harvested(rows, a.app) = Harvested(others, a.app)
  PROVE  Placed(rows, a) = Placed(others, a)
BY DEF Placed

LEMMA WithModelsValue ==
  ASSUME NEW rows
  PROVE  /\ DOMAIN WithModels(rows) = DOMAIN rows \union NewApps(rows)
         /\ \A n \in DOMAIN rows :
               WithModels(rows)[n] = Row(Placed(rows, rows[n].json), rows[n].columns)
         /\ \A n \in NewApps(rows) \ DOMAIN rows : n = "web" /\ WithModels(rows)[n] = WebManifest
<1>1. \A n \in NewApps(rows) : n = "web"
  BY DEF NewApps
<1> QED BY <1>1 DEF WithModels, Over

-----------------------------------------------------------------------------
Before == Seeded(Old(Stored))

LEMMA BeforeShape ==
  /\ DOMAIN Before = DOMAIN Shipped \union (DOMAIN Stored \ Obsolete)
  /\ \A n \in DOMAIN Shipped : Before[n] = Old(Shipped)[n]
  /\ \A n \in (DOMAIN Stored \ Obsolete) \ DOMAIN Shipped : Before[n] = Old(Stored)[n]
<1> DEFINE f == Old(Shipped)
           g == Dropped(Old(Stored), Obsolete)
<1>1. Before = Over(f, g) /\ DOMAIN f = DOMAIN Shipped
  BY OldValue DEF Before, Seeded
<1>2. /\ DOMAIN g = DOMAIN Stored \ Obsolete
      /\ \A n \in DOMAIN g : g[n] = Old(Stored)[n]
  BY OldValue, DroppedValue
<1> HIDE DEF f, g
<1>3. /\ DOMAIN Before = DOMAIN f \union DOMAIN g
      /\ \A n \in DOMAIN f : Before[n] = f[n]
      /\ \A n \in DOMAIN g \ DOMAIN f : Before[n] = g[n]
  BY <1>1 DEF Over
<1> QED BY <1>1, <1>2, <1>3 DEF f

(* What is gathered is what is shipped, else what was stored, else what    *)
(* the older table had under a name that is replaced by this one.          *)
LEMMA GatheredValue ==
  /\ DOMAIN Gathered = DOMAIN Before \union {Replaced(n) : n \in Wanted(Legacy, Before)}
  /\ \A n \in DOMAIN Before : Gathered[n] = Before[n]
  /\ \A n \in Wanted(Legacy, Before) : Gathered[Replaced(n)] = Converted(Legacy[n])
<1> DEFINE names == {Replaced(n) : n \in Wanted(Legacy, Before)}
           old(m) == CHOOSE n \in DOMAIN Legacy : Replaced(n) = m
           taken == [m \in names |-> Converted(Legacy[old(m)])]
<1>1. Gathered = Over(Before, taken)
  BY DEF Gathered, TakenOver, Before
<1>2. DOMAIN Gathered = DOMAIN Before \union names /\ \A n \in DOMAIN Before : Gathered[n] = Before[n]
  BY <1>1, OverValue
<1>3. ASSUME NEW n \in Wanted(Legacy, Before)
      PROVE  Gathered[Replaced(n)] = Converted(Legacy[n])
  <2>1. n \in DOMAIN Legacy /\ Replaced(n) \in names \ DOMAIN Before
    BY DEF Wanted
  <2>2. old(Replaced(n)) \in DOMAIN Legacy /\ Replaced(old(Replaced(n))) = Replaced(n)
    BY <2>1
  <2>3. \A m, l \in DOMAIN Legacy : Replaced(m) = Replaced(l) => m = l
    BY OlderReleaseAssumption
  <2>4. old(Replaced(n)) = n
    <3> HIDE DEF old
    <3> QED BY <2>1, <2>2, <2>3
  <2>5. Gathered[Replaced(n)] = taken[Replaced(n)]
    <3> HIDE DEF taken
    <3>1. Gathered = [l \in DOMAIN Before \union DOMAIN taken |->
                        IF l \in DOMAIN Before THEN Before[l] ELSE taken[l]]
      BY <1>1 DEF Over
    <3>2. DOMAIN taken = names
      BY DEF taken
    <3> QED BY <3>1, <3>2, <2>1
  <2>6. taken[Replaced(n)] = Converted(Legacy[old(Replaced(n))])
    BY <2>1
  <2> QED BY <2>4, <2>5, <2>6
<1> QED BY <1>2, <1>3

(* What is shipped names its app and its model, and is no app.             *)
LEMMA GatheredShape ==
  /\ \A n \in DOMAIN Gathered :
        /\ IsRow(Gathered[n])
        /\ NoName \notin Gathered[n].json.models
        /\ Gathered[n].json.kind = "app" => Gathered[n].json.app = n /\ n # NoName
  /\ \A n \in DOMAIN Shipped :
        /\ n \in DOMAIN Gathered /\ n \notin Obsolete
        /\ Gathered[n] = Old(Shipped)[n] /\ Gathered[n].json = Shipped[n]
        /\ Gathered[n].columns = artifactColumns(Shipped[n])
<1> USE ArtifactsAssumption DEF Valid
<1>1. ASSUME NEW n \in DOMAIN Shipped
      PROVE  /\ n \in DOMAIN Gathered /\ n \notin Obsolete
             /\ Gathered[n] = Old(Shipped)[n] /\ Gathered[n].json = Shipped[n]
             /\ Gathered[n].columns = artifactColumns(Shipped[n])
  <2>1. n \in DOMAIN Gathered /\ n \notin Obsolete /\ Gathered[n] = Old(Shipped)[n]
    BY GatheredValue, BeforeShape
  <2> QED BY <2>1, OldValue, RowValue
<1>2. ASSUME NEW n \in DOMAIN Gathered
      PROVE  /\ IsRow(Gathered[n])
             /\ NoName \notin Gathered[n].json.models
             /\ Gathered[n].json.kind = "app" => Gathered[n].json.app = n /\ n # NoName
  <2>1. CASE n \in DOMAIN Shipped
    <3>1. Gathered[n] = Row(Shipped[n], artifactColumns(Shipped[n])) /\ Gathered[n].json = Shipped[n]
      BY <2>1, <1>1, OldValue
    <3> QED BY <3>1, <2>1, RowIsRow
  <2>2. CASE n \in (DOMAIN Stored \ Obsolete) \ DOMAIN Shipped
    <3>1. Gathered[n] = Row(Stored[n], artifactColumns(Stored[n]))
      BY <2>2, GatheredValue, BeforeShape, OldValue
    <3> QED BY <3>1, <2>2, RowIsRow, RowValue
  <2>3. CASE n \notin DOMAIN Before
    <3>1. PICK m \in Wanted(Legacy, Before) : n = Replaced(m)
      BY <2>3, GatheredValue
    <3>2. m \in DOMAIN Legacy
      BY DEF Wanted
    <3> DEFINE a == convertLegacyArtifact(Legacy[m])
    <3>3. Gathered[n] = Row(a, NoColumns)
      BY <3>1, GatheredValue DEF Converted
    <3>4. /\ IsArtifact(a) /\ NoName \notin a.models /\ (a.kind = "app" => a.app = n /\ n # NoName)
      BY <3>1, <3>2, OlderReleaseAssumption DEF convertLegacyArtifact, IsArtifact
    <3> HIDE DEF a
    <3> QED BY <3>3, <3>4, RowIsRow, RowValue
  <2> QED BY <2>1, <2>2, <2>3, BeforeShape
<1> QED BY <1>1, <1>2
-----------------------------------------------------------------------------
(* All that can be missing of what was gathered are artifacts of apps that *)
(* are not stored.                                                         *)
LEMMA HarvestedNearly ==
  ASSUME NEW rows, Nearly(rows, Gathered), NEW app
  PROVE  /\ IsApp(rows, app) = IsApp(Gathered, app)
         /\ Harvested(rows, app) = Harvested(Gathered, app)
<1> USE DEF Nearly
<1>1. IsApp(rows, app) = IsApp(Gathered, app)
  BY OlderReleaseAssumption DEF IsApp
<1>2. CASE IsApp(Gathered, app)
  <2>1. ChildrenOf(rows, app) = ChildrenOf(Gathered, app)
    BY <1>2, OlderReleaseAssumption DEF ChildrenOf
  <2>2. \A n \in ChildrenOf(rows, app) : rows[n] = Gathered[n]
    BY DEF ChildrenOf
  <2>3. rows[app] = Gathered[app]
    BY <1>1, <1>2 DEF IsApp
  <2>4. Named(rows, app) = Named(Gathered, app)
    BY <2>1, <2>2, <2>3 DEF Named
  <2> QED BY <1>1, <2>4 DEF Harvested
<1>3. CASE ~IsApp(Gathered, app)
  BY <1>1, <1>3 DEF Harvested
<1> QED BY <1>1, <1>2, <1>3

LEMMA ModelledOf ==
  ASSUME NEW rows, Nearly(rows, Gathered)
  PROVE  Nearly(WithModels(rows), Modelled)
<1> USE DEF Nearly
<1>1. NewApps(rows) = NewApps(Gathered)
  BY OlderReleaseAssumption DEF NewApps, Stray
<1>2. \A n \in DOMAIN rows : Placed(rows, rows[n].json) = Placed(Gathered, Gathered[n].json)
  BY HarvestedNearly, PlacedSame
<1>3. ASSUME NEW n \in DOMAIN WithModels(rows)
      PROVE  n \in DOMAIN Modelled /\ WithModels(rows)[n] = Modelled[n]
  <2>1. CASE n \in DOMAIN rows
    <3>1. WithModels(rows)[n] = Row(Placed(rows, rows[n].json), rows[n].columns)
      BY <2>1, WithModelsValue
    <3>2. n \in DOMAIN Gathered /\ rows[n] = Gathered[n]
      BY <2>1
    <3>3. /\ n \in DOMAIN Modelled
          /\ Modelled[n] = Row(Placed(Gathered, Gathered[n].json), Gathered[n].columns)
      BY <3>2, WithModelsValue DEF Modelled
    <3>4. Placed(rows, rows[n].json) = Placed(Gathered, Gathered[n].json)
      BY <1>2, <2>1
    <3> QED BY <3>1, <3>2, <3>3, <3>4
  <2>2. CASE n \notin DOMAIN rows
    <3>0. n \in NewApps(rows)
      BY <2>2, WithModelsValue
    <3>1. n \in NewApps(rows) /\ n = "web"
      BY <3>0 DEF NewApps
    <3>2. n \notin DOMAIN Gathered
      BY <2>2, <3>1, ArtifactsAssumption
    <3> QED BY <1>1, <2>2, <3>1, <3>2, WithModelsValue DEF Modelled
  <2> QED BY <2>1, <2>2
<1>4. DOMAIN Modelled \ DOMAIN WithModels(rows) \subseteq Obsolete
  BY <1>1, WithModelsValue DEF Modelled
<1> QED BY <1>3, <1>4

-----------------------------------------------------------------------------
(* Placing all twice is placing them once.                                 *)
LEMMA ModelledShape ==
  ASSUME NEW n \in DOMAIN Modelled
  PROVE  LET b == Modelled[n].json
             a == Gathered[n].json
         IN  /\ IsRow(Modelled[n])
             /\ b.kind = "app" => b.app = n
             /\ ~Stray(b)
             /\ n \notin DOMAIN Gathered => n = "web" /\ b.kind = "app" /\ b.models = {"ClientCustom"}
             /\ n \in DOMAIN Gathered =>
                  /\ Modelled[n] = Row(Placed(Gathered, a), Gathered[n].columns)
                  /\ b = Placed(Gathered, a)
                  /\ IsArtifact(a)
<1>1. CASE n \in DOMAIN Gathered
  <2> DEFINE a == Gathered[n].json
             p == Placed(Gathered, a)
  <2>1. Modelled[n] = Row(p, Gathered[n].columns)
    BY <1>1, WithModelsValue DEF Modelled
  <2>2. IsRow(Gathered[n]) /\ (a.kind = "app" => a.app = n)
    BY <1>1, GatheredShape
  <2>3. IsArtifact(a) /\ Gathered[n].columns = [app |-> Gathered[n].columns.app, model |-> Gathered[n].columns.model]
    <3> HIDE DEF a
    <3>1. \A r : IsRow(r) => IsArtifact(r.json) /\ r.columns = [app |-> r.columns.app, model |-> r.columns.model]
      BY RowValue DEF IsRow
    <3> QED BY <2>2, <3>1 DEF a
  <2>4. IsArtifact(p) /\ (p.kind = "app" => p.app = n) /\ ~Stray(p)
    <3>1. /\ IsArtifact(p) /\ p.kind = a.kind
          /\ a.kind = "app" => p.app = a.app
          /\ Stray(a) => p.app = "web"
          /\ a.kind # "app" /\ a.app # NoName => p.app = a.app
      <4> HIDE DEF a
      <4> QED BY <2>3, PlacedShape
    <3> HIDE DEF a, p
    <3> QED BY <2>2, <3>1 DEF Stray, NoName
  <2> HIDE DEF a, p
  <2>5. Modelled[n].json = p /\ Modelled[n].columns = Gathered[n].columns
    BY <2>1, RowValue
  <2>6. IsRow(Modelled[n])
    BY <2>1, <2>3, <2>4, <2>5 DEF IsRow
  <2> QED BY <1>1, <2>1, <2>3, <2>4, <2>5, <2>6 DEF a, p
<1>2. CASE n \notin DOMAIN Gathered
  <2>1. n = "web" /\ Modelled[n] = WebManifest
    BY <1>2, WithModelsValue DEF Modelled
  <2>2. /\ IsRow(WebManifest) /\ WebManifest.json.kind = "app" /\ WebManifest.json.app = "web"
        /\ WebManifest.json.models = {"ClientCustom"}
    BY DEF WebManifest, Row, IsRow, IsArtifact, Artifact, NoColumns, NoName, ArtifactKinds
  <2> QED BY <1>2, <2>1, <2>2 DEF Stray
<1> QED BY <1>1, <1>2

(* The same children name the same models, and an app whose artifacts do   *)
(* not settle for one model keeps the models it has.                       *)
LEMMA NamedAgain ==
  ASSUME NEW rows, Nearly(rows, Modelled), NEW app, IsApp(Gathered, app)
  PROVE  /\ IsApp(rows, app)
         /\ Named(Gathered, app) \subseteq Named(rows, app)
         /\ app # "web" /\ ~Single(Harvested(Gathered, app)) =>
               Named(rows, app) = Harvested(Gathered, app)
<1> DEFINE H == Harvested(Gathered, app)
           then(m) == Gathered[m].json
           now(m) == Modelled[m].json
           Models(f, S) == {f[m].json.model : m \in S} \ {NoName}
<1>1. /\ app \in DOMAIN Gathered /\ then(app).kind = "app" /\ then(app).app = app /\ app # NoName
      /\ app \notin Obsolete
  BY GatheredShape, OlderReleaseAssumption DEF IsApp
<1>2. \A m \in DOMAIN Gathered :
        /\ now(m).kind = then(m).kind
        /\ then(m).kind = "app" =>
             now(m).models = IF then(m).models = {} THEN Harvested(Gathered, then(m).app) ELSE then(m).models
        /\ Stray(then(m)) => now(m).app = "web"
        /\ then(m).kind # "app" /\ then(m).app # NoName =>
             /\ now(m).app = then(m).app
             /\ now(m).model = IF then(m).model = NoName /\ Single(Harvested(Gathered, then(m).app))
                               THEN First(Harvested(Gathered, then(m).app)) ELSE then(m).model
  <2> SUFFICES ASSUME NEW m \in DOMAIN Gathered
               PROVE  LET a == then(m)
                          p == Placed(Gathered, a)
                      IN  /\ p.kind = a.kind
                          /\ a.kind = "app" =>
                               p.models = IF a.models = {} THEN Harvested(Gathered, a.app) ELSE a.models
                          /\ Stray(a) => p.app = "web"
                          /\ a.kind # "app" /\ a.app # NoName =>
                               /\ p.app = a.app
                               /\ p.model = IF a.model = NoName /\ Single(Harvested(Gathered, a.app))
                                            THEN First(Harvested(Gathered, a.app)) ELSE a.model
    <3>1. ASSUME NEW m \in DOMAIN Gathered PROVE now(m) = Placed(Gathered, then(m))
      <4>1. Modelled[m] = Row(Placed(Gathered, then(m)), Gathered[m].columns)
        BY WithModelsValue DEF Modelled
      <4> QED BY <4>1, RowValue
    <3> HIDE DEF then, now
    <3> QED BY <3>1
  <2>1. IsArtifact(then(m))
    BY GatheredShape DEF IsRow
  <2> HIDE DEF then
  <2> QED BY <2>1, PlacedShape
<1>3. /\ DOMAIN Gathered \subseteq DOMAIN Modelled
      /\ \A m \in DOMAIN rows : m \in DOMAIN Modelled /\ rows[m] = Modelled[m]
      /\ DOMAIN Modelled \ DOMAIN rows \subseteq Obsolete
  BY WithModelsValue DEF Modelled, Nearly
<1>4. IsApp(rows, app) /\ rows[app].json = now(app)
  BY <1>1, <1>2, <1>3 DEF IsApp
<1>5. \A m \in ChildrenOf(Gathered, app) :
        m \in DOMAIN Gathered /\ then(m).kind # "app" /\ then(m).app = app /\ m \notin Obsolete
  BY OlderReleaseAssumption DEF ChildrenOf
<1> HIDE DEF then, now
<1>6. \A m \in ChildrenOf(Gathered, app) :
        /\ m \in ChildrenOf(rows, app)
        /\ rows[m].json = now(m)
        /\ then(m).model # NoName => now(m).model = then(m).model
        /\ ~Single(H) => now(m).model = then(m).model
  <2> SUFFICES ASSUME NEW m \in ChildrenOf(Gathered, app)
               PROVE  /\ m \in ChildrenOf(rows, app)
                      /\ rows[m].json = now(m)
                      /\ then(m).model # NoName => now(m).model = then(m).model
                      /\ ~Single(H) => now(m).model = then(m).model
    OBVIOUS
  <2>1. m \in DOMAIN Gathered /\ then(m).kind # "app" /\ then(m).app = app /\ m \notin Obsolete
    BY <1>5
  <2>2. m \in DOMAIN rows /\ rows[m] = Modelled[m]
    BY <1>3, <2>1
  <2>3. rows[m].json = now(m)
    BY <2>2 DEF now
  <2>4. now(m).kind # "app" /\ now(m).app = app
    BY <1>1, <1>2, <2>1
  <2> QED BY <1>1, <1>2, <2>1, <2>2, <2>3, <2>4 DEF ChildrenOf
<1>7. now(app).models = IF then(app).models = {} THEN H ELSE then(app).models
  BY <1>1, <1>2
<1>8. /\ Named(rows, app) = now(app).models \union Models(rows, ChildrenOf(rows, app))
      /\ Named(Gathered, app) = then(app).models \union Models(Gathered, ChildrenOf(Gathered, app))
  BY <1>4 DEF Named, then
<1>9. Models(Gathered, ChildrenOf(Gathered, app)) \subseteq Models(rows, ChildrenOf(rows, app))
  BY <1>6 DEF then
<1>10. H = IF Named(Gathered, app) # {} THEN Named(Gathered, app) ELSE LegacyDefaults(app)
  BY DEF Harvested
<1>11. Named(Gathered, app) \subseteq Named(rows, app)
  <2> HIDE DEF Models, H
  <2> QED BY <1>7, <1>8, <1>9, <1>10
<1>12. ASSUME app # "web", ~Single(H)
       PROVE  Named(rows, app) = H
  <2>1. ASSUME NEW m \in ChildrenOf(rows, app) PROVE m \in ChildrenOf(Gathered, app)
    <3>1. m \in DOMAIN Modelled /\ now(m).kind # "app" /\ now(m).app = app
      BY <1>3 DEF ChildrenOf, now
    <3>2. m \in DOMAIN Gathered
      BY <3>1, ModelledShape DEF now
    <3>3. then(m).kind # "app" /\ then(m).app = app
      BY <1>2, <1>12, <3>1, <3>2 DEF Stray
    <3> QED BY <3>2, <3>3 DEF ChildrenOf, then
  <2>2. Models(rows, ChildrenOf(rows, app)) = Models(Gathered, ChildrenOf(Gathered, app))
    BY <1>6, <1>12, <2>1 DEF then
  <2> HIDE DEF Models, H
  <2> QED BY <1>7, <1>8, <1>10, <2>2
<1> QED BY <1>4, <1>11, <1>12

LEMMA ModelledAgain ==
  ASSUME NEW rows, Nearly(rows, Modelled)
  PROVE  Nearly(WithModels(rows), Modelled)
<1>1. /\ \A n \in DOMAIN rows : n \in DOMAIN Modelled /\ rows[n] = Modelled[n]
      /\ DOMAIN Modelled \ DOMAIN rows \subseteq Obsolete
  BY DEF Nearly
<1>2. NewApps(rows) = {}
  BY <1>1, ModelledShape DEF NewApps
<1>3. ASSUME NEW n \in DOMAIN rows
      PROVE  Placed(rows, Modelled[n].json) = Modelled[n].json
  <2> DEFINE a == Gathered[n].json
             b == Modelled[n].json
             H == Harvested(Gathered, a.app)
  <2>1. /\ IsArtifact(b) /\ ~Stray(b) /\ (b.kind = "app" => b.app = n)
        /\ n \notin DOMAIN Gathered => n = "web" /\ b.kind = "app" /\ b.models = {"ClientCustom"}
        /\ n \in DOMAIN Gathered => b = Placed(Gathered, a) /\ IsArtifact(a)
    BY <1>1, ModelledShape DEF IsRow
  <2>2. n \in DOMAIN Gathered =>
          /\ b.kind = a.kind
          /\ a.kind = "app" => b.models = IF a.models = {} THEN H ELSE a.models
          /\ Stray(a) => b.model = IF a.model = NoName THEN "ClientCustom" ELSE a.model
          /\ a.kind # "app" /\ a.app # NoName =>
               b.app = a.app /\ b.model = IF a.model = NoName /\ Single(H) THEN First(H) ELSE a.model
    <3> HIDE DEF a, b
    <3> QED BY <2>1, PlacedShape
  <2>3. n \in DOMAIN Gathered => NoName \notin H
    BY GatheredShape DEF Harvested, Named, LegacyDefaults, NoName, IsApp
  <2>4. /\ n \in DOMAIN Gathered /\ a.kind = "app" => a.app = n
        /\ n \in DOMAIN Gathered /\ a.kind # "app" /\ a.app = "web" /\ a.model = NoName => IsApp(Gathered, "web")
    BY GatheredShape, OlderReleaseAssumption
  <2>5. CASE b.kind = "app" /\ b.models = {}
    <3>1. n \in DOMAIN Gathered /\ a.kind = "app" /\ H = {} /\ a.app = n
      <4> HIDE DEF a, b, H
      <4> QED BY <2>1, <2>2, <2>4, <2>5
    <3>2. IsApp(Gathered, n) /\ Harvested(Gathered, n) = {}
      BY <3>1 DEF IsApp
    <3>3. n # "web" /\ LegacyDefaults(n) = {}
      BY <3>2 DEF Harvested, LegacyDefaults
    <3>4. IsApp(rows, n) /\ Named(rows, n) = {}
      BY <3>2, <3>3, NamedAgain DEF Single
    <3>5. Harvested(rows, b.app) = {}
      BY <2>1, <2>5, <3>3, <3>4 DEF Harvested
    <3> HIDE DEF b
    <3>6. Placed(rows, b) = [b EXCEPT !.models = Harvested(rows, b.app)]
      BY <2>5 DEF Placed, Stray
    <3>7. [b EXCEPT !.models = {}] = b
      BY <2>1, <2>5 DEF IsArtifact
    <3> QED BY <3>5, <3>6, <3>7 DEF b
  <2>6. ASSUME b.kind # "app", b.model = NoName, Single(Harvested(rows, b.app))
        PROVE  FALSE
    <3>1. /\ n \in DOMAIN Gathered /\ a.kind # "app" /\ a.app # NoName /\ b.app = a.app
          /\ a.model = NoName /\ ~Single(H)
      <4> HIDE DEF a, b, H
      <4>1. Single(H) => First(H) \in H
        BY FirstIn DEF Single
      <4> QED BY <2>1, <2>2, <2>3, <2>6, <4>1 DEF Stray, NoName
    <3>2. IsApp(rows, a.app)
      BY <2>6, <3>1 DEF Harvested, Single
    <3>3. IsApp(Gathered, a.app)
      <4>1. IsApp(Modelled, a.app)
        BY <1>1, <3>2 DEF IsApp
      <4>2. CASE a.app \in DOMAIN Gathered
        <5>0. a.app \in DOMAIN Modelled
          BY <4>1 DEF IsApp
        <5>1. Modelled[a.app].json = Placed(Gathered, Gathered[a.app].json) /\ IsArtifact(Gathered[a.app].json)
          BY <4>2, <5>0, ModelledShape
        <5>2. Modelled[a.app].json.kind = Gathered[a.app].json.kind
          <6> DEFINE g == Gathered[a.app].json
          <6> HIDE DEF g
          <6>1. Modelled[a.app].json = Placed(Gathered, g) /\ IsArtifact(g)
            BY <5>1 DEF g
          <6> QED BY <6>1, PlacedShape DEF g
        <5> QED BY <4>1, <4>2, <5>2 DEF IsApp
      <4>3. CASE a.app \notin DOMAIN Gathered
        <5>1. a.app = "web"
          BY <4>1, <4>3, ModelledShape DEF IsApp
        <5> QED BY <2>4, <3>1, <5>1
      <4> QED BY <4>2, <4>3
    <3> HIDE DEF a, b
    <3>4. Harvested(rows, a.app) = IF Named(rows, a.app) # {} THEN Named(rows, a.app) ELSE LegacyDefaults(a.app)
      BY <3>2 DEF Harvested
    <3>5. H = IF Named(Gathered, a.app) # {} THEN Named(Gathered, a.app) ELSE LegacyDefaults(a.app)
      BY <3>3 DEF Harvested
    <3>6. /\ Named(Gathered, a.app) \subseteq Named(rows, a.app)
          /\ a.app # "web" => Named(rows, a.app) = H
      BY <3>1, <3>3, NamedAgain
    <3>7. CASE a.app = "web"
      <4>1. Single(LegacyDefaults(a.app))
        BY <3>7 DEF LegacyDefaults, Single
      <4> HIDE DEF H
      <4> QED BY <2>6, <3>1, <3>4, <3>5, <3>6, <4>1 DEF Single
    <3>8. CASE a.app # "web"
      <4> HIDE DEF H
      <4> QED BY <2>6, <3>1, <3>4, <3>5, <3>6, <3>8
    <3> QED BY <3>7, <3>8
  <2> HIDE DEF b
  <2>7. CASE ~(b.kind = "app" /\ b.models = {})
    <3>1. /\ ~(b.kind = "app" /\ b.models = {}) /\ ~Stray(b)
          /\ ~(b.kind # "app" /\ ~Stray(b) /\ b.model = NoName /\ Single(Harvested(rows, b.app)))
      BY <2>1, <2>6, <2>7
    <3>2. Placed(rows, b) = b
      BY <3>1 DEF Placed
    <3> QED BY <3>2 DEF b
  <2> QED BY <2>5, <2>7
<1>4. ASSUME NEW n \in DOMAIN rows
      PROVE  WithModels(rows)[n] = Modelled[n]
  <2>1. WithModels(rows)[n] = Row(Modelled[n].json, Modelled[n].columns)
    <3>1. WithModels(rows)[n] = Row(Placed(rows, rows[n].json), rows[n].columns)
      BY WithModelsValue
    <3> QED BY <1>1, <1>3, <3>1
  <2>2. IsRow(Modelled[n])
    BY <1>1, ModelledShape
  <2>3. Modelled[n] = Row(Modelled[n].json, Modelled[n].columns)
    BY <2>2, RowValue DEF IsRow
  <2> QED BY <2>1, <2>3
<1>5. DOMAIN WithModels(rows) = DOMAIN rows
  BY <1>2, WithModelsValue
<1> QED BY <1>1, <1>4, <1>5 DEF Nearly

-----------------------------------------------------------------------------
(* Artifacts of an app that had declared no models are in one it declares  *)
(* now.                                                                    *)
LEMMA ModelledInModels == AllInModels(Modelled, Undeclared)
<1> SUFFICES ASSUME NEW n \in DOMAIN Modelled,
                    Modelled[n].json.kind # "app", Modelled[n].json.app \in Undeclared
             PROVE  InModel(Modelled, Modelled[n].json)
  BY DEF AllInModels
<1> DEFINE b == Modelled[n].json
           a == Gathered[n].json
           app == b.app
           m == Modelled[app].json
           g == Gathered[app].json
           H == Harvested(Gathered, app)
<1>1. /\ app \in DOMAIN Gathered /\ app # "web" /\ IsApp(Gathered, app) /\ g.models = {}
  BY DEF Undeclared
<1>2. /\ n \in DOMAIN Gathered /\ b = Placed(Gathered, a) /\ IsArtifact(a)
  BY ModelledShape
<1>3. /\ app \in DOMAIN Modelled /\ m = Placed(Gathered, g) /\ IsArtifact(g)
  <2>1. app \in DOMAIN Modelled
    BY <1>1, WithModelsValue DEF Modelled
  <2> QED BY <1>1, <2>1, ModelledShape
<1>4. g.kind = "app" /\ g.app = app
  BY <1>1, GatheredShape DEF IsApp
<1>5. m.kind = "app" /\ m.models = H
  <2>1. m.kind = "app" /\ m.models = IF g.models = {} THEN Harvested(Gathered, g.app) ELSE g.models
    <3> HIDE DEF g, m
    <3> QED BY <1>3, <1>4, PlacedShape
  <2> HIDE DEF g
  <2> QED BY <1>1, <1>4, <2>1
<1>6. a.kind # "app" /\ a.app = app /\ b.model = IF a.model = NoName /\ Single(H) THEN First(H) ELSE a.model
  <2>1. /\ b.kind = a.kind
        /\ Stray(a) => b.app = "web"
        /\ a.kind # "app" /\ a.app # NoName =>
             /\ b.app = a.app
             /\ b.model = IF a.model = NoName /\ Single(Harvested(Gathered, a.app))
                          THEN First(Harvested(Gathered, a.app)) ELSE a.model
    <3> HIDE DEF a, b
    <3> QED BY <1>2, PlacedShape
  <2> QED BY <1>1, <2>1 DEF Stray
<1>7. CASE a.model # NoName
  <2>1. n \in ChildrenOf(Gathered, app)
    BY <1>2, <1>6 DEF ChildrenOf
  <2>2. a.model \in Named(Gathered, app)
    BY <1>7, <2>1 DEF Named
  <2>3. b.model \in H
    BY <1>1, <1>6, <1>7, <2>2 DEF Harvested
  <2> QED BY <1>3, <1>5, <2>3 DEF InModel, IsApp
<1>8. CASE a.model = NoName /\ Single(H)
  <2>1. b.model \in H
    <3> HIDE DEF H
    <3> QED BY <1>6, <1>8, FirstIn DEF Single
  <2> QED BY <1>3, <1>5, <2>1 DEF InModel, IsApp
<1>9. CASE a.model = NoName /\ ~Single(H)
  BY <1>3, <1>5, <1>6, <1>9 DEF InModel, IsApp
<1> QED BY <1>7, <1>8, <1>9

(* Whether an artifact is in a model depends on its app's manifest only.   *)
LEMMA InModelSame ==
  ASSUME NEW rows, NEW others, NEW a, InModel(rows, a),
         IsApp(rows, a.app) => a.app \in DOMAIN others /\ others[a.app].json = rows[a.app].json
  PROVE  InModel(others, a)
BY DEF InModel, IsApp

(* No manifest is obsolete.                                                *)
LEMMA ManifestsStay ==
  ASSUME NEW app \in Undeclared
  PROVE  app \notin Obsolete /\ app \notin DOMAIN Shipped /\ app # "web"
<1>1. app \in DOMAIN Gathered /\ Gathered[app].json.kind = "app" /\ app # "web"
  BY DEF Undeclared, IsApp
<1>2. app \notin DOMAIN Shipped
  BY <1>1, GatheredShape, ArtifactsAssumption
<1> QED BY <1>1, <1>2, OlderReleaseAssumption

LEMMA NearlyInModels ==
  ASSUME NEW rows, Nearly(rows, Modelled), NEW apps, apps \subseteq Undeclared
  PROVE  AllInModels(rows, apps)
<1> SUFFICES ASSUME NEW n \in DOMAIN rows,
                    rows[n].json.kind # "app", rows[n].json.app \in apps
             PROVE  InModel(rows, rows[n].json)
  BY DEF AllInModels
<1>1. n \in DOMAIN Modelled /\ rows[n] = Modelled[n]
  BY DEF Nearly
<1>2. InModel(Modelled, rows[n].json)
  BY <1>1, ModelledInModels DEF AllInModels
<1>3. rows[n].json.app \in DOMAIN Modelled => rows[n].json.app \in DOMAIN rows
  BY ManifestsStay DEF Nearly
<1> QED BY <1>2, <1>3, InModelSame DEF Nearly, IsApp
-----------------------------------------------------------------------------
(* A renaming moves extensions to names that were free.                    *)
LEMMA CanonicalValue ==
  ASSUME NEW rows
  PROVE  /\ \A n \in DOMAIN Canonical(rows) :
               \/ n \in DOMAIN rows /\ Canonical(rows)[n] = rows[n]
               \/ /\ n \in NewNames(rows) /\ n \notin DOMAIN rows
                  /\ \E m \in Renames(rows) :
                        n = canonicalExtensionName(rows[m].json) /\ Canonical(rows)[n] = rows[m]
         /\ \A n \in DOMAIN rows :
               rows[n].json.kind # "extension" => n \in DOMAIN Canonical(rows) /\ Canonical(rows)[n] = rows[n]
<1> DEFINE moved == {First(Rivals(rows, c)) : c \in NewNames(rows)}
           f == Dropped(rows, moved)
           g == [c \in NewNames(rows) |-> rows[First(Rivals(rows, c))]]
<1>1. Canonical(rows) = Over(f, g)
  BY DEF Canonical
<1>2. \A c \in NewNames(rows) :
        /\ First(Rivals(rows, c)) \in Renames(rows)
        /\ canonicalExtensionName(rows[First(Rivals(rows, c))].json) = c
        /\ c \notin DOMAIN rows
  <2> SUFFICES ASSUME NEW c \in NewNames(rows)
               PROVE  /\ First(Rivals(rows, c)) \in Renames(rows)
                      /\ canonicalExtensionName(rows[First(Rivals(rows, c))].json) = c
                      /\ c \notin DOMAIN rows
    OBVIOUS
  <2>1. PICK n \in Renames(rows) : c = canonicalExtensionName(rows[n].json)
    BY DEF NewNames
  <2>2. n \in Rivals(rows, c)
    BY <2>1 DEF Rivals
  <2>3. First(Rivals(rows, c)) \in Rivals(rows, c)
    BY <2>2, FirstIn
  <2>4. c \notin DOMAIN rows
    BY <2>1 DEF Renames
  <2> QED BY <2>3, <2>4 DEF Rivals
<1>3. DOMAIN f = DOMAIN rows \ moved /\ \A n \in DOMAIN f : f[n] = rows[n]
  <2> HIDE DEF moved
  <2> QED BY DEF Dropped, Restrict
<1>4. DOMAIN g = NewNames(rows) /\ \A c \in DOMAIN g : g[c] = rows[First(Rivals(rows, c))]
  OBVIOUS
<1>5. \A n \in moved : n \in DOMAIN rows /\ rows[n].json.kind = "extension"
  BY <1>2 DEF Renames
<1> HIDE DEF f, g, moved
<1>6. /\ DOMAIN Canonical(rows) = DOMAIN f \union DOMAIN g
      /\ \A n \in DOMAIN f : Canonical(rows)[n] = f[n]
      /\ \A n \in DOMAIN g \ DOMAIN f : Canonical(rows)[n] = g[n]
  BY <1>1 DEF Over
<1>7. ASSUME NEW n \in DOMAIN Canonical(rows)
      PROVE  \/ n \in DOMAIN rows /\ Canonical(rows)[n] = rows[n]
             \/ /\ n \in NewNames(rows) /\ n \notin DOMAIN rows
                /\ \E m \in Renames(rows) :
                      n = canonicalExtensionName(rows[m].json) /\ Canonical(rows)[n] = rows[m]
  <2>1. CASE n \in DOMAIN f
    BY <1>3, <1>6, <2>1
  <2>2. CASE n \notin DOMAIN f
    <3>1. n \in NewNames(rows) /\ Canonical(rows)[n] = rows[First(Rivals(rows, n))]
      BY <1>4, <1>6, <2>2
    <3> QED BY <1>2, <3>1
  <2> QED BY <2>1, <2>2
<1>8. ASSUME NEW n \in DOMAIN rows, rows[n].json.kind # "extension"
      PROVE  n \in DOMAIN Canonical(rows) /\ Canonical(rows)[n] = rows[n]
  BY <1>3, <1>5, <1>6, <1>8
<1> QED BY <1>7, <1>8

LEMMA CanonicalInModels ==
  ASSUME NEW rows, NEW apps, AllInModels(rows, apps)
  PROVE  AllInModels(Canonical(rows), apps)
<1> SUFFICES ASSUME NEW n \in DOMAIN Canonical(rows), NEW a, a = Canonical(rows)[n].json,
                    a.kind # "app", a.app \in apps
             PROVE  InModel(Canonical(rows), a)
  BY DEF AllInModels
<1>1. InModel(rows, a)
  <2>1. CASE n \in DOMAIN rows /\ Canonical(rows)[n] = rows[n]
    BY <2>1 DEF AllInModels
  <2>2. CASE \E m \in Renames(rows) : Canonical(rows)[n] = rows[m]
    BY <2>2 DEF AllInModels, Renames
  <2> QED BY <2>1, <2>2, CanonicalValue
<1>2. IsApp(rows, a.app) => a.app \in DOMAIN Canonical(rows) /\ Canonical(rows)[a.app] = rows[a.app]
  BY CanonicalValue DEF IsApp
<1> QED BY <1>1, <1>2, InModelSame

(* The same extensions are renamed when all that is missing is obsolete.   *)
LEMMA CanonicalOf ==
  ASSUME NEW rows, Nearly(rows, Modelled)
  PROVE  Nearly(Canonical(rows), Canonical(Modelled))
<1>1. /\ \A n \in DOMAIN rows : n \in DOMAIN Modelled /\ rows[n] = Modelled[n]
      /\ \A n \in DOMAIN Modelled \ DOMAIN rows : n \in Obsolete
  BY DEF Nearly
<1>2. \A n \in DOMAIN Modelled : n \in Obsolete => Modelled[n].json.kind # "extension"
  <2> SUFFICES ASSUME NEW n \in DOMAIN Modelled, n \in Obsolete
               PROVE  Modelled[n].json.kind # "extension"
    OBVIOUS
  <2>1. CASE n \in DOMAIN Gathered
    <3>1. Modelled[n].json = Placed(Gathered, Gathered[n].json) /\ IsArtifact(Gathered[n].json)
      BY <2>1, ModelledShape
    <3>2. Modelled[n].json.kind = Gathered[n].json.kind
      BY <3>1, PlacedShape
    <3> QED BY <2>1, <3>2, OlderReleaseAssumption
  <2>2. CASE n \notin DOMAIN Gathered
    BY <2>2, ModelledShape
  <2> QED BY <2>1, <2>2
<1>3. \A n \in DOMAIN Modelled :
        Modelled[n].json.kind = "extension" /\ Modelled[n].json.model # NoName =>
            canonicalExtensionName(Modelled[n].json) \notin Obsolete
  BY OlderReleaseAssumption
<1>4. Renames(rows) = Renames(Modelled)
  BY <1>1, <1>2, <1>3 DEF Renames
<1>5. \A n \in Renames(rows) : n \in DOMAIN rows /\ rows[n] = Modelled[n]
  BY <1>1 DEF Renames
<1>6. NewNames(rows) = NewNames(Modelled)
  BY <1>4, <1>5 DEF NewNames
<1>7. \A c : Rivals(rows, c) = Rivals(Modelled, c)
  BY <1>4, <1>5 DEF Rivals
<1> DEFINE R == NewNames(rows)
           moved == {First(Rivals(rows, c)) : c \in R}
           f == Dropped(rows, moved)
           h == Dropped(Modelled, moved)
           g == [c \in R |-> rows[First(Rivals(rows, c))]]
<1>8. Canonical(rows) = Over(f, g)
  BY DEF Canonical
<1>9. Canonical(Modelled) = Over(h, g)
  <2>1. \A c \in R : First(Rivals(rows, c)) \in Renames(rows)
    <3> SUFFICES ASSUME NEW c \in R PROVE First(Rivals(rows, c)) \in Renames(rows)
      OBVIOUS
    <3>1. Rivals(rows, c) # {}
      BY DEF NewNames, Rivals
    <3> QED BY <3>1, FirstIn DEF Rivals
  <2>2. moved = {First(Rivals(Modelled, c)) : c \in NewNames(Modelled)}
    BY <1>6, <1>7
  <2>3. g = [c \in NewNames(Modelled) |-> Modelled[First(Rivals(Modelled, c))]]
    BY <1>5, <1>6, <1>7, <2>1
  <2> HIDE DEF moved, g
  <2> QED BY <2>2, <2>3 DEF Canonical
<1>10. /\ DOMAIN f = DOMAIN rows \ moved /\ \A n \in DOMAIN f : f[n] = rows[n]
       /\ DOMAIN h = DOMAIN Modelled \ moved /\ \A n \in DOMAIN h : h[n] = Modelled[n]
  <2> HIDE DEF moved
  <2>1. DOMAIN f = DOMAIN rows \ moved /\ \A n \in DOMAIN f : f[n] = rows[n]
    BY DEF Dropped, Restrict
  <2>2. DOMAIN h = DOMAIN Modelled \ moved /\ \A n \in DOMAIN h : h[n] = Modelled[n]
    BY DEF Dropped, Restrict
  <2> QED BY <2>1, <2>2
<1>11. DOMAIN g \intersect DOMAIN Modelled = {}
  BY <1>6 DEF NewNames, Renames
<1> HIDE DEF f, g, h, moved, R
<1> QED BY <1>1, <1>8, <1>9, <1>10, <1>11 DEF Nearly, Over

LEMMA BackfilledOf ==
  ASSUME NEW rows, Nearly(rows, Canonical(Modelled)) \/ Nearly(rows, Whole)
  PROVE  Nearly(Backfilled(rows), Whole)
<1>1. /\ DOMAIN Whole = DOMAIN Canonical(Modelled)
      /\ \A n \in DOMAIN Whole :
            Whole[n] = Row(Canonical(Modelled)[n].json, artifactColumns(Canonical(Modelled)[n].json))
  BY DEF Whole, Backfilled
<1>2. /\ DOMAIN Backfilled(rows) = DOMAIN rows
      /\ \A n \in DOMAIN rows : Backfilled(rows)[n] = Row(rows[n].json, artifactColumns(rows[n].json))
  BY DEF Backfilled
<1>3. \A n \in DOMAIN Whole : Whole[n].json = Canonical(Modelled)[n].json
  BY <1>1, RowValue
<1> QED BY <1>1, <1>2, <1>3 DEF Nearly

(* What is shipped is in its model already.                                *)
LEMMA PlacedShipped ==
  ASSUME NEW rows, NEW n \in DOMAIN Shipped
  PROVE  Placed(rows, Shipped[n]) = Shipped[n]
<1> DEFINE a == Shipped[n]
<1>1. a.kind # "app" /\ a.app # NoName /\ a.model # NoName
  BY ArtifactsAssumption DEF NoName
<1> HIDE DEF a
<1>2. /\ ~(a.kind = "app" /\ a.models = {}) /\ ~Stray(a)
      /\ ~(a.kind # "app" /\ ~Stray(a) /\ a.model = NoName /\ Single(Harvested(rows, a.app)))
  BY <1>1 DEF Stray
<1>3. Placed(rows, a) = a
  BY <1>2 DEF Placed
<1> QED BY <1>3 DEF a

(* What is shipped is the same at every stage.                             *)
LEMMA ShippedStays ==
  ASSUME NEW n \in DOMAIN Shipped
  PROVE  /\ n \in DOMAIN Modelled /\ Modelled[n] = Old(Shipped)[n]
         /\ n \in DOMAIN Canonical(Modelled) /\ Canonical(Modelled)[n] = Old(Shipped)[n]
         /\ n \in DOMAIN Whole /\ Whole[n] = Old(Shipped)[n]
<1> DEFINE a == Shipped[n]
<1>1. /\ a.kind # "app" /\ a.kind # "extension" /\ a.app # NoName /\ a.model # NoName
  BY ArtifactsAssumption DEF NoName
<1>2. /\ n \in DOMAIN Gathered /\ Gathered[n].json = a /\ Gathered[n].columns = artifactColumns(a)
  BY GatheredShape
<1>3. Placed(Gathered, a) = a
  BY PlacedShipped
<1>4. Old(Shipped)[n] = Row(a, artifactColumns(a))
  BY OldValue
<1> HIDE DEF a
<1>5. n \in DOMAIN Modelled /\ Modelled[n] = Row(a, artifactColumns(a))
  BY <1>2, <1>3, WithModelsValue DEF Modelled
<1>6. n \in DOMAIN Canonical(Modelled) /\ Canonical(Modelled)[n] = Row(a, artifactColumns(a))
  <2>1. Modelled[n].json.kind # "extension"
    BY <1>1, <1>5, RowValue
  <2> QED BY <1>5, <2>1, CanonicalValue
<1>7. n \in DOMAIN Whole /\ Whole[n] = Row(a, artifactColumns(a))
  BY <1>6, RowValue DEF Whole, Backfilled
<1> QED BY <1>4, <1>5, <1>6, <1>7

-----------------------------------------------------------------------------
(* What each stage of a start has behind it.                               *)
Staged ==
    /\ changes \in Nat
    /\ pc \in {"manifests", "mark", "rename", "columns", "serving"} => legacy = << >>
    /\ pc \in {"rename", "columns", "serving"} => explicit
    /\ pc \in {"columns", "serving"} => layered

(* Nothing is deleted before a start got through, and never what the       *)
(* framework ships; what it ships stays once it is seeded.  Only the older *)
(* table and the two migrations make other artifacts.                      *)
Gone ==
    /\ removed # {} => legacy = << >> /\ layered /\ (mixed \/ explicit)
    /\ removed \intersect DOMAIN stored \subseteq IF mixed THEN {"web"} ELSE {}
    /\ removed \intersect DOMAIN Shipped = {}
ShippedStored == \A n \in DOMAIN Shipped : n \in DOMAIN stored /\ stored[n] = Old(Shipped)[n]
SeededStays == pc # "seed" => ShippedStored

(* Where the older release's artifacts are on their way: some are gathered,*)
(* all are, all have their models, or a start has finished.                *)
Gathering ==
    /\ pc \in {"seed", "take over", "drop"} /\ legacy = Legacy /\ ~explicit /\ ~layered
    /\ \A n \in DOMAIN stored :
          \/ n \in DOMAIN Gathered /\ stored[n] = Gathered[n]
          \/ pc = "seed" /\ n \in DOMAIN Stored /\ stored[n] = Old(Stored)[n]
    /\ DOMAIN Stored \ Obsolete \subseteq DOMAIN stored
    /\ pc # "seed" => DOMAIN Before \subseteq DOMAIN stored
    /\ pc = "drop" => Wanted(Legacy, stored) = {}
GatheredAll ==
    /\ pc \in {"seed", "take over", "drop", "manifests"} /\ legacy = << >> /\ ~explicit /\ ~layered
    /\ Nearly(stored, Gathered)
ModelledAll ==
    /\ pc \in {"seed", "take over", "drop", "manifests", "mark", "rename"} /\ legacy = << >> /\ ~layered
    /\ Nearly(stored, Modelled)
Finished ==
    /\ legacy = << >> /\ explicit /\ layered
    /\ AllInModels(stored, Undeclared \ edited)
    /\ changes = 0 =>
          \/ pc # "serving" /\ Nearly(stored, Canonical(Modelled))
          \/ Nearly(stored, Whole)
Underway == ~mixed => Gathering \/ GatheredAll \/ ModelledAll \/ Finished

UpgradeInv == StoredTypeOK /\ Staged /\ Gone /\ SeededStays /\ ColumnsAgree /\ Underway

(* One row is written, or some are deleted; the others stay.               *)
Puts(n, r) ==
    /\ DOMAIN stored' = DOMAIN stored \union {n} /\ stored'[n] = r
    /\ \A m \in DOMAIN stored \ {n} : stored'[m] = stored[m]
Drops(S) ==
    /\ DOMAIN stored' = DOMAIN stored \ S
    /\ \A m \in DOMAIN stored \ S : stored'[m] = stored[m]

LEMMA PutStep ==
  ASSUME NEW n, NEW r, stored' = Put(n, r) PROVE Puts(n, r)
BY DEF Put, Puts

LEMMA DropStep ==
  ASSUME NEW S, stored' = Dropped(stored, S) PROVE Drops(S)
BY DEF Dropped, Restrict, Drops

LEMMA ArtifactRows ==
  /\ \A n \in DOMAIN Stored : IsRow(Old(Stored)[n])
  /\ \A n \in DOMAIN Shipped : IsRow(Old(Shipped)[n])
  /\ \A n \in DOMAIN Legacy : IsRow(Converted(Legacy[n]))
  /\ \A n \in DOMAIN Created : \A a \in Created[n] : IsRow(Row(a, artifactColumns(a)))
<1> USE ArtifactsAssumption DEF Valid
<1>1. \A n \in DOMAIN Stored : IsRow(Old(Stored)[n])
  BY OldValue, RowIsRow
<1>2. \A n \in DOMAIN Shipped : IsRow(Old(Shipped)[n])
  BY OldValue, RowIsRow
<1>3. ASSUME NEW n \in DOMAIN Legacy PROVE IsRow(Converted(Legacy[n]))
  <2> DEFINE a == convertLegacyArtifact(Legacy[n])
  <2>1. IsArtifact(a)
    BY DEF convertLegacyArtifact, IsArtifact
  <2> HIDE DEF a
  <2>2. IsRow(Row(a, NoColumns))
    BY <2>1, RowIsRow
  <2> QED BY <2>2 DEF Converted, a
<1>4. \A n \in DOMAIN Created : \A a \in Created[n] : IsRow(Row(a, artifactColumns(a)))
  BY RowIsRow
<1> QED BY <1>1, <1>2, <1>3, <1>4

LEMMA RowParts ==
  ASSUME NEW r, IsRow(r)
  PROVE  /\ IsArtifact(r.json) /\ r = Row(r.json, r.columns)
         /\ r.columns = [app |-> r.columns.app, model |-> r.columns.model]
<1>1. IsArtifact(r.json) /\ r = Row(r.json, [app |-> r.columns.app, model |-> r.columns.model])
  BY DEF IsRow
<1>2. r.columns = [app |-> r.columns.app, model |-> r.columns.model]
  BY <1>1, RowValue
<1> QED BY <1>1, <1>2

LEMMA WithModelsRows ==
  ASSUME NEW rows, \A n \in DOMAIN rows : IsRow(rows[n])
  PROVE  \A n \in DOMAIN WithModels(rows) : IsRow(WithModels(rows)[n])
<1> SUFFICES ASSUME NEW n \in DOMAIN WithModels(rows)
             PROVE  IsRow(WithModels(rows)[n])
  OBVIOUS
<1>1. CASE n \in DOMAIN rows
  <2> DEFINE p == Placed(rows, rows[n].json)
             c == rows[n].columns
  <2>1. WithModels(rows)[n] = Row(p, c)
    BY <1>1, WithModelsValue
  <2>2. IsArtifact(rows[n].json) /\ c = [app |-> c.app, model |-> c.model]
    BY <1>1, RowParts
  <2>3. IsArtifact(p)
    BY <2>2, PlacedShape
  <2> HIDE DEF p, c
  <2>4. IsRow(Row(p, c))
    BY <2>2, <2>3, RowValue DEF IsRow
  <2> QED BY <2>1, <2>4
<1>2. CASE n \notin DOMAIN rows
  <2>1. WithModels(rows)[n] = WebManifest
    BY <1>2, WithModelsValue
  <2>2. IsRow(WebManifest)
    BY DEF WebManifest, Row, IsRow, IsArtifact, Artifact, NoColumns, NoName, ArtifactKinds
  <2> QED BY <2>1, <2>2
<1> QED BY <1>1, <1>2

LEMMA CanonicalRows ==
  ASSUME NEW rows, \A n \in DOMAIN rows : IsRow(rows[n])
  PROVE  \A n \in DOMAIN Canonical(rows) : IsRow(Canonical(rows)[n])
BY CanonicalValue DEF Renames

LEMMA BackfilledRows ==
  ASSUME NEW rows, \A n \in DOMAIN rows : IsRow(rows[n])
  PROVE  \A n \in DOMAIN Backfilled(rows) :
            IsRow(Backfilled(rows)[n]) /\ Backfilled(rows)[n].columns = artifactColumns(Backfilled(rows)[n].json)
<1>1. \A n \in DOMAIN rows : Backfilled(rows)[n] = Row(rows[n].json, artifactColumns(rows[n].json))
  BY DEF Backfilled
<1>2. DOMAIN Backfilled(rows) = DOMAIN rows
  BY DEF Backfilled
<1>3. ASSUME NEW n \in DOMAIN rows
      PROVE  IsRow(Backfilled(rows)[n]) /\ Backfilled(rows)[n].columns = artifactColumns(Backfilled(rows)[n].json)
  <2>1. IsArtifact(rows[n].json)
    BY RowParts
  <2> QED BY <1>1, <2>1, RowIsRow, RowValue
<1> QED BY <1>2, <1>3

-----------------------------------------------------------------------------
(* The three ways of seeding.                                              *)
LEMMA SeedCases ==
  ASSUME Seed
  PROVE  /\ pc = "seed" /\ UNCHANGED <<legacy, layered, explicit, changes, restarts, removed, edited, mixed>>
         /\ \/ /\ pc' = "seed"
               /\ \E n \in Obsolete \intersect DOMAIN stored : Drops({n})
            \/ /\ pc' = "seed"
               /\ \E n \in DOMAIN Shipped : Puts(n, Old(Shipped)[n])
            \/ /\ pc' = "take over" /\ stored' = stored
               /\ Obsolete \intersect DOMAIN stored = {}
               /\ \A n \in DOMAIN Shipped : n \in DOMAIN stored /\ stored[n] = Old(Shipped)[n]
BY PutStep, DropStep DEF Seed, At, GoTo, Outdated, history

LEMMA TakeOverCases ==
  ASSUME TakeOver, StoredTypeOK
  PROVE  /\ pc = "take over" /\ UNCHANGED <<legacy, layered, explicit, changes, restarts, removed, edited, mixed>>
         /\ \/ /\ pc' = "take over" /\ legacy = Legacy /\ legacy # << >>
               /\ \E n \in Wanted(Legacy, stored) : Puts(Replaced(n), Converted(Legacy[n]))
            \/ pc' = "drop" /\ stored' = stored /\ Wanted(legacy, stored) = {}
<1>1. legacy = << >> => Wanted(legacy, stored) = {}
  BY DEF Wanted
<1> QED BY <1>1, PutStep DEF TakeOver, At, GoTo, history, StoredTypeOK

LEMMA MigrateCases ==
  ASSUME MigrateManifests
  PROVE  /\ pc = "manifests" /\ UNCHANGED <<legacy, layered, explicit, changes, restarts, removed, edited, mixed>>
         /\ \/ explicit /\ pc' = "rename" /\ stored' = stored
            \/ ~explicit /\ pc' = "mark" /\ stored' = WithModels(stored)
BY DEF MigrateManifests, At, GoTo, history

LEMMA RenameCases ==
  ASSUME Rename
  PROVE  /\ pc = "rename" /\ pc' = "columns" /\ layered' = TRUE
         /\ UNCHANGED <<legacy, explicit, changes, restarts, removed, edited, mixed>>
         /\ stored' = IF layered THEN stored ELSE Canonical(stored)
BY DEF Rename, At, GoTo, history

LEMMA ChangeCases ==
  ASSUME Change
  PROVE  /\ pc = "serving" /\ pc' = pc /\ changes' = changes + 1
         /\ UNCHANGED <<legacy, layered, explicit, restarts, mixed>>
         /\ \/ \E n \in DOMAIN Created : \E a \in Created[n] :
                  /\ Save(n, a)
                  /\ Puts(n, Row(a, artifactColumns(a)))
                  /\ removed' = removed \ {n}
            \/ \E n \in DOMAIN stored :
                  /\ n # "system" /\ stored[n].json.app # "system"
                  /\ Drops(Deleted(n)) /\ removed' = removed \union Deleted(n) /\ edited' = edited
BY PutStep, DropStep DEF Change, Save, Delete

LEMMA RestoreCases ==
  ASSUME RestoreBackup
  PROVE  /\ pc = "serving" /\ pc' = "seed" /\ changes' = changes
         /\ explicit' \in {explicit, FALSE}
         /\ \/ stored' = Old(Stored) /\ legacy' = Legacy /\ layered' = FALSE /\ removed' = {}
            \/ UNCHANGED <<stored, legacy, layered, removed>> /\ mixed' = TRUE
         /\ ~mixed' => explicit' = FALSE
         /\ mixed' \in BOOLEAN
<1>1. PICK components \in SUBSET {"designer", "data"} \ {{}} :
        /\ IF "designer" \in components
           THEN stored' = Old(Stored) /\ legacy' = Legacy /\ layered' = FALSE /\ removed' = {}
           ELSE UNCHANGED <<designer, removed>>
        /\ explicit' = (explicit /\ "data" \notin components)
        /\ mixed' = (components # {"designer", "data"})
  BY DEF RestoreBackup
<1>2. pc = "serving" /\ pc' = "seed" /\ changes' = changes
  BY DEF RestoreBackup
<1>3. CASE "designer" \in components
  BY <1>1, <1>2, <1>3 DEF designer
<1>4. CASE "designer" \notin components
  BY <1>1, <1>2, <1>4 DEF designer
<1> QED BY <1>3, <1>4

(* Rows stay rows, and what a stage has behind it was done.                *)
LEMMA UpgradeTypes ==
  ASSUME StoredTypeOK, Staged, UpgradeNext
  PROVE  StoredTypeOK' /\ Staged'
<1> DEFINE Rows == \A n \in DOMAIN stored : IsRow(stored[n])
           Rest == /\ pc \in Stages \union {"serving"}
                   /\ legacy \in {Legacy, << >>} /\ (pc = "serving" => legacy = << >>)
                   /\ explicit \in BOOLEAN /\ layered \in BOOLEAN /\ mixed \in BOOLEAN
<1>1. (StoredTypeOK <=> Rows /\ Rest) /\ (StoredTypeOK' <=> Rows' /\ Rest')
  BY DEF StoredTypeOK
<1>2. CASE Seed
  <2>1. Rest' /\ Staged'
    BY <1>2, SeedCases DEF StoredTypeOK, Staged, Stages
  <2>2. Rows'
    <3>1. CASE \E n \in Obsolete \intersect DOMAIN stored : Drops({n})
      BY <1>1, <3>1 DEF Drops
    <3>2. CASE \E n \in DOMAIN Shipped : Puts(n, Old(Shipped)[n])
      BY <1>1, <3>2, ArtifactRows DEF Puts
    <3> QED BY <1>1, <1>2, <3>1, <3>2, SeedCases
  <2> QED BY <1>1, <2>1, <2>2
<1>3. CASE TakeOver
  <2>1. Rest' /\ Staged'
    BY <1>3, TakeOverCases DEF StoredTypeOK, Staged, Stages
  <2>2. Rows'
    <3>1. CASE \E n \in Wanted(Legacy, stored) : Puts(Replaced(n), Converted(Legacy[n]))
      BY <1>1, <3>1, ArtifactRows DEF Wanted, Puts
    <3> QED BY <1>1, <1>3, <3>1, TakeOverCases
  <2> QED BY <1>1, <2>1, <2>2
<1>4. CASE DropLegacy
  BY <1>4 DEF DropLegacy, At, GoTo, StoredTypeOK, Staged, Stages, history
<1>5. CASE MigrateManifests
  <2>1. Rest' /\ Staged'
    BY <1>5, MigrateCases DEF StoredTypeOK, Staged, Stages
  <2>2. Rows'
    BY <1>1, <1>5, MigrateCases, WithModelsRows
  <2> QED BY <1>1, <2>1, <2>2
<1>6. CASE MarkMigration
  BY <1>6 DEF MarkMigration, At, GoTo, StoredTypeOK, Staged, Stages, history, designer
<1>7. CASE Rename
  <2>1. Rest' /\ Staged'
    BY <1>7, RenameCases DEF StoredTypeOK, Staged, Stages
  <2>2. Rows'
    BY <1>1, <1>7, RenameCases, CanonicalRows
  <2> QED BY <1>1, <2>1, <2>2
<1>8. CASE Boot
  <2>1. Rest' /\ Staged'
    BY <1>8 DEF Boot, At, GoTo, StoredTypeOK, Staged, Stages, history
  <2>2. Rows'
    <3>1. stored' = Backfilled(stored)
      BY <1>8 DEF Boot
    <3> QED BY <1>1, <3>1, BackfilledRows
  <2> QED BY <1>1, <2>1, <2>2
<1>9. CASE Change
  <2>1. Rest' /\ Staged'
    BY <1>9, ChangeCases DEF StoredTypeOK, Staged, Stages
  <2>2. Rows'
    <3>1. CASE \E n \in DOMAIN Created : \E a \in Created[n] : Puts(n, Row(a, artifactColumns(a)))
      BY <1>1, <3>1, ArtifactRows DEF Puts
    <3>2. CASE \E n \in DOMAIN stored : Drops(Deleted(n))
      BY <1>1, <3>2 DEF Drops
    <3> QED BY <1>9, <3>1, <3>2, ChangeCases
  <2> QED BY <1>1, <2>1, <2>2
<1>10. CASE StartAgain
  BY <1>10 DEF StartAgain, StoredTypeOK, Staged, Stages, history, designer
<1>11. CASE RestoreBackup
  <2>1. Rest' /\ Staged'
    BY <1>11, RestoreCases DEF StoredTypeOK, Staged, Stages
  <2>2. Rows'
    BY <1>1, <1>11, RestoreCases, ArtifactRows, OldValue
  <2> QED BY <1>1, <2>1, <2>2
<1> QED BY <1>2, <1>3, <1>4, <1>5, <1>6, <1>7, <1>8, <1>9, <1>10, <1>11 DEF UpgradeNext

(* What was deleted comes back from the framework's own artifacts only,    *)
(* and the manifest for artifacts without an app, when databases are mixed.*)
LEMMA GoneStays ==
  ASSUME StoredTypeOK, Staged, Gone, SeededStays, UpgradeNext
  PROVE  Gone'
<1>1. CASE Seed
  <2>0. UNCHANGED <<legacy, layered, explicit, removed, mixed>>
    BY <1>1, SeedCases
  <2>1. CASE \E n \in Obsolete \intersect DOMAIN stored : Drops({n})
    BY <2>0, <2>1 DEF Gone, Drops
  <2>2. CASE \E n \in DOMAIN Shipped : Puts(n, Old(Shipped)[n])
    BY <2>0, <2>2 DEF Gone, Puts
  <2>3. CASE stored' = stored
    BY <2>0, <2>3 DEF Gone
  <2> QED BY <1>1, <2>1, <2>2, <2>3, SeedCases
<1>2. CASE TakeOver
  <2>0. UNCHANGED <<legacy, layered, explicit, removed, mixed>>
    BY <1>2, TakeOverCases
  <2>1. CASE removed = {}
    BY <2>0, <2>1 DEF Gone
  <2>2. CASE removed # {}
    <3>1. stored' = stored
      BY <1>2, <2>2, TakeOverCases DEF Gone
    <3> QED BY <2>0, <3>1 DEF Gone
  <2> QED BY <2>1, <2>2
<1>3. CASE DropLegacy
  BY <1>3 DEF DropLegacy, At, history, Gone
<1>4. CASE MigrateManifests
  <2>1. CASE explicit
    BY <1>4, <2>1, MigrateCases DEF Gone
  <2>2. CASE ~explicit /\ removed # {}
    <3>1. mixed /\ stored' = WithModels(stored) /\ NewApps(stored) \subseteq {"web"}
      BY <1>4, <2>2, MigrateCases DEF Gone, NewApps
    <3>2. DOMAIN stored' = DOMAIN stored \union NewApps(stored)
      BY <3>1, WithModelsValue
    <3> QED BY <1>4, <2>2, <3>1, <3>2, MigrateCases DEF Gone
  <2>3. CASE removed = {}
    BY <1>4, <2>3, MigrateCases DEF Gone
  <2> QED BY <2>1, <2>2, <2>3
<1>5. CASE MarkMigration
  BY <1>5 DEF MarkMigration, At, history, designer, Gone
<1>6. CASE Rename
  BY <1>6, RenameCases DEF Gone
<1>7. CASE Boot
  <2>1. DOMAIN stored' = DOMAIN stored
    BY <1>7 DEF Boot, Backfilled
  <2> QED BY <1>7, <2>1 DEF Boot, At, history, Gone
<1>8. CASE Change
  <2>1. legacy = << >> /\ layered /\ explicit
    BY <1>8, ChangeCases DEF Staged
  <2>2. UNCHANGED <<legacy, layered, explicit, mixed>>
    BY <1>8, ChangeCases
  <2>3. ASSUME NEW n, NEW r, Puts(n, r), removed' = removed \ {n}
        PROVE  Gone'
    BY <2>1, <2>2, <2>3 DEF Gone, Puts
  <2>4. ASSUME NEW n \in DOMAIN stored, n # "system", stored[n].json.app # "system",
               Drops(Deleted(n)), removed' = removed \union Deleted(n)
        PROVE  Gone'
    <3>1. \A m \in DOMAIN Shipped : m \in DOMAIN stored /\ stored[m].json.app = "system"
      BY <1>8, ChangeCases, OldValue, RowValue, ArtifactsAssumption DEF SeededStays, ShippedStored
    <3>2. Deleted(n) \intersect DOMAIN Shipped = {}
      BY <2>4, <3>1 DEF Deleted, ChildrenOf
    <3> HIDE DEF Deleted
    <3> QED BY <2>1, <2>2, <2>4, <3>2 DEF Gone, Drops
  <2> QED BY <1>8, <2>3, <2>4, ChangeCases
<1>9. CASE StartAgain
  BY <1>9 DEF StartAgain, history, designer, Gone
<1>10. CASE RestoreBackup
  BY <1>10, RestoreCases DEF Gone
<1> QED BY <1>1, <1>2, <1>3, <1>4, <1>5, <1>6, <1>7, <1>8, <1>9, <1>10 DEF UpgradeNext

(* From seeding to seeding nothing takes away what the framework ships.    *)
LEMMA ShippedIsKept ==
  ASSUME StoredTypeOK, SeededStays, UpgradeNext
  PROVE  SeededStays'
<1> SUFFICES ASSUME pc' # "seed" PROVE ShippedStored'
  BY DEF SeededStays
<1>1. CASE Seed
  BY <1>1, SeedCases DEF ShippedStored
<1>2. ASSUME pc # "seed" PROVE ShippedStored
  BY <1>2 DEF SeededStays
<1>3. CASE TakeOver
  <2>1. ASSUME NEW n \in Wanted(Legacy, stored), NEW r, Puts(Replaced(n), r)
        PROVE  ShippedStored'
    BY <1>2, <1>3, <2>1, TakeOverCases DEF ShippedStored, Puts, Wanted
  <2> QED BY <1>2, <1>3, <2>1, TakeOverCases DEF ShippedStored
<1>4. CASE DropLegacy
  BY <1>2, <1>4 DEF DropLegacy, At, ShippedStored
<1>5. CASE MigrateManifests
  <2>1. CASE stored' = stored
    BY <1>2, <1>5, <2>1, MigrateCases DEF ShippedStored
  <2>2. CASE stored' = WithModels(stored)
    <3> SUFFICES ASSUME NEW n \in DOMAIN Shipped
                 PROVE  n \in DOMAIN WithModels(stored) /\ WithModels(stored)[n] = Old(Shipped)[n]
      BY <2>2 DEF ShippedStored
    <3>1. n \in DOMAIN stored /\ stored[n] = Old(Shipped)[n]
      BY <1>2, <1>5, MigrateCases DEF ShippedStored
    <3>2. Old(Shipped)[n].json = Shipped[n] /\ Old(Shipped)[n] = Row(Shipped[n], Old(Shipped)[n].columns)
      BY OldValue, RowValue
    <3>3. Placed(stored, Shipped[n]) = Shipped[n]
      BY PlacedShipped
    <3>4. n \in DOMAIN WithModels(stored)
      BY <3>1, WithModelsValue
    <3>5. WithModels(stored)[n] = Row(Placed(stored, stored[n].json), stored[n].columns)
      BY <3>1, WithModelsValue
    <3> QED BY <3>1, <3>2, <3>3, <3>4, <3>5
  <2> QED BY <1>5, <2>1, <2>2, MigrateCases
<1>6. CASE MarkMigration
  BY <1>2, <1>6 DEF MarkMigration, At, designer, ShippedStored
<1>7. CASE Rename
  <2>1. CASE stored' = stored
    BY <1>2, <1>7, <2>1, RenameCases DEF ShippedStored
  <2>2. CASE stored' = Canonical(stored)
    <3> SUFFICES ASSUME NEW n \in DOMAIN Shipped
                 PROVE  n \in DOMAIN Canonical(stored) /\ Canonical(stored)[n] = Old(Shipped)[n]
      BY <2>2 DEF ShippedStored
    <3>1. n \in DOMAIN stored /\ stored[n] = Old(Shipped)[n]
      BY <1>2, <1>7, RenameCases DEF ShippedStored
    <3>2. stored[n].json.kind # "extension"
      BY <3>1, OldValue, RowValue, ArtifactsAssumption
    <3> QED BY <3>1, <3>2, CanonicalValue
  <2> QED BY <1>7, <2>1, <2>2, RenameCases
<1>8. CASE Boot
  <2> SUFFICES ASSUME NEW n \in DOMAIN Shipped
               PROVE  n \in DOMAIN Backfilled(stored) /\ Backfilled(stored)[n] = Old(Shipped)[n]
    BY <1>8 DEF Boot, ShippedStored
  <2>1. n \in DOMAIN stored /\ stored[n] = Old(Shipped)[n]
    BY <1>2, <1>8 DEF Boot, At, ShippedStored
  <2>2. stored[n].json = Shipped[n] /\ Old(Shipped)[n] = Row(Shipped[n], artifactColumns(Shipped[n]))
    BY <2>1, OldValue, RowValue
  <2> QED BY <2>1, <2>2 DEF Backfilled
<1>9. CASE Change
  <2>0. \A m \in DOMAIN Shipped :
          m \in DOMAIN stored /\ stored[m] = Old(Shipped)[m] /\ stored[m].json.app = "system"
    BY <1>2, <1>9, ChangeCases, OldValue, RowValue, ArtifactsAssumption DEF ShippedStored
  <2>1. ASSUME NEW n, NEW a, Save(n, a), Puts(n, Row(a, artifactColumns(a)))
        PROVE  ShippedStored'
    <3>1. n \notin DOMAIN Shipped
      BY <2>0, <2>1 DEF Save
    <3> QED BY <2>0, <2>1, <3>1 DEF ShippedStored, Puts
  <2>2. ASSUME NEW n \in DOMAIN stored, n # "system", stored[n].json.app # "system", Drops(Deleted(n))
        PROVE  ShippedStored'
    <3>1. Deleted(n) \intersect DOMAIN Shipped = {}
      BY <2>0, <2>2 DEF Deleted, ChildrenOf
    <3> HIDE DEF Deleted
    <3> QED BY <2>0, <2>2, <3>1 DEF ShippedStored, Drops
  <2> QED BY <1>9, <2>1, <2>2, ChangeCases
<1>10. CASE StartAgain \/ RestoreBackup
  BY <1>10, RestoreCases DEF StartAgain
<1> QED BY <1>1, <1>3, <1>4, <1>5, <1>6, <1>7, <1>8, <1>9, <1>10 DEF UpgradeNext

(* The columns are filled in before anybody is served.                     *)
LEMMA ColumnsStay ==
  ASSUME StoredTypeOK, ColumnsAgree, UpgradeNext
  PROVE  ColumnsAgree'
<1>1. CASE Boot
  <2>1. stored' = Backfilled(stored)
    BY <1>1 DEF Boot
  <2> QED BY <2>1, BackfilledRows DEF StoredTypeOK, ColumnsAgree
<1>2. CASE Change
  <2>1. CASE \E n \in DOMAIN Created : \E a \in Created[n] : Puts(n, Row(a, artifactColumns(a)))
    BY <1>2, <2>1, ChangeCases, RowValue DEF ColumnsAgree, Puts
  <2>2. CASE \E n \in DOMAIN stored : Drops(Deleted(n))
    BY <1>2, <2>2, ChangeCases DEF ColumnsAgree, Drops
  <2> QED BY <1>2, <2>1, <2>2, ChangeCases
<1>3. CASE ~Boot /\ ~Change
  <2>1. pc' # "serving"
    BY <1>3, SeedCases, TakeOverCases, MigrateCases, RenameCases, RestoreCases
    DEF UpgradeNext, DropLegacy, MarkMigration, StartAgain, GoTo
  <2> QED BY <2>1 DEF ColumnsAgree
<1> QED BY <1>1, <1>2, <1>3

-----------------------------------------------------------------------------
(* Seeding leaves what is nearly complete nearly complete.                 *)
LEMMA SeedNearly ==
  ASSUME Seed, NEW all, Nearly(stored, all),
         \A n \in DOMAIN Shipped : n \in DOMAIN all /\ all[n] = Old(Shipped)[n]
  PROVE  Nearly(stored, all)'
<1>1. CASE \E n \in Obsolete \intersect DOMAIN stored : Drops({n})
  BY <1>1 DEF Nearly, Drops
<1>2. CASE \E n \in DOMAIN Shipped : Puts(n, Old(Shipped)[n])
  BY <1>2 DEF Nearly, Puts
<1>3. CASE stored' = stored
  BY <1>3 DEF Nearly
<1> QED BY <1>1, <1>2, <1>3, SeedCases

(* No stage of a start takes an artifact out of its model.                 *)
LEMMA SeedInModels ==
  ASSUME Seed, NEW apps, apps \subseteq Undeclared, AllInModels(stored, apps)
  PROVE  AllInModels(stored', apps)
<1>1. CASE \E n \in Obsolete \intersect DOMAIN stored : Drops({n})
  <2>1. PICK n \in Obsolete \intersect DOMAIN stored : Drops({n})
    BY <1>1
  <2> SUFFICES ASSUME NEW m \in DOMAIN stored', NEW a, a = stored'[m].json,
                      a.kind # "app", a.app \in apps
               PROVE  InModel(stored', a)
    BY DEF AllInModels
  <2>2. InModel(stored, a)
    BY <2>1 DEF AllInModels, Drops
  <2>3. IsApp(stored, a.app) => a.app \in DOMAIN stored' /\ stored'[a.app].json = stored[a.app].json
    BY <2>1, ManifestsStay DEF IsApp, Drops
  <2> QED BY <2>2, <2>3, InModelSame
<1>2. CASE \E n \in DOMAIN Shipped : Puts(n, Old(Shipped)[n])
  <2>1. PICK n \in DOMAIN Shipped : Puts(n, Old(Shipped)[n])
    BY <1>2
  <2> SUFFICES ASSUME NEW m \in DOMAIN stored', NEW a, a = stored'[m].json,
                      a.kind # "app", a.app \in apps
               PROVE  InModel(stored', a)
    BY DEF AllInModels
  <2>2. m # n
    BY <2>1, OldValue, RowValue DEF Puts, Undeclared
  <2>3. InModel(stored, a)
    BY <2>1, <2>2 DEF AllInModels, Puts
  <2>4. IsApp(stored, a.app) => a.app \in DOMAIN stored' /\ stored'[a.app].json = stored[a.app].json
    BY <2>1, ManifestsStay DEF IsApp, Puts
  <2> QED BY <2>3, <2>4, InModelSame
<1>3. CASE stored' = stored
  BY <1>3
<1> QED BY <1>1, <1>2, <1>3, SeedCases

LEMMA BootInModels ==
  ASSUME NEW rows, NEW apps, AllInModels(rows, apps)
  PROVE  AllInModels(Backfilled(rows), apps)
<1>1. DOMAIN Backfilled(rows) = DOMAIN rows /\ \A n \in DOMAIN rows : Backfilled(rows)[n].json = rows[n].json
  BY RowValue DEF Backfilled
<1> SUFFICES ASSUME NEW n \in DOMAIN rows, rows[n].json.kind # "app", rows[n].json.app \in apps
             PROVE  InModel(Backfilled(rows), rows[n].json)
  BY <1>1 DEF AllInModels
<1>2. InModel(rows, rows[n].json)
  BY DEF AllInModels
<1> QED BY <1>1, <1>2, InModelSame DEF IsApp

(* Designers save into models that are declared, and delete an app with    *)
(* its artifacts.                                                          *)
LEMMA ChangeInModels ==
  ASSUME Change, AllInModels(stored, Undeclared \ edited)
  PROVE  AllInModels(stored', Undeclared \ edited')
<1>1. ASSUME NEW n \in DOMAIN Created, NEW b \in Created[n], Save(n, b), Puts(n, Row(b, artifactColumns(b)))
      PROVE  AllInModels(stored', Undeclared \ edited')
  <2> SUFFICES ASSUME NEW m \in DOMAIN stored', NEW a, a = stored'[m].json,
                      a.kind # "app", a.app \in Undeclared \ edited'
               PROVE  InModel(stored', a)
    BY DEF AllInModels
  <2>1. InModel(stored, a)
    <3>1. CASE m = n
      <4>1. a = b
        BY <1>1, <3>1, RowValue DEF Puts
      <4> QED BY <1>1, <4>1 DEF Save, ValidPlacement, InModel
    <3>2. CASE m # n
      BY <1>1, <3>2 DEF Puts, AllInModels, Save
    <3> QED BY <3>1, <3>2
  <2>2. a.app = n => ~IsApp(stored, n)
    BY <1>1 DEF Save, IsApp
  <2>3. IsApp(stored, a.app) => a.app \in DOMAIN stored' /\ stored'[a.app].json = stored[a.app].json
    BY <1>1, <2>2 DEF Puts, IsApp
  <2> QED BY <2>1, <2>3, InModelSame
<1>2. ASSUME NEW n \in DOMAIN stored, Drops(Deleted(n)), edited' = edited
      PROVE  AllInModels(stored', Undeclared \ edited')
  <2> SUFFICES ASSUME NEW m \in DOMAIN stored', NEW a, a = stored'[m].json,
                      a.kind # "app", a.app \in Undeclared \ edited'
               PROVE  InModel(stored', a)
    BY DEF AllInModels
  <2>1. m \in DOMAIN stored \ Deleted(n) /\ a = stored[m].json
    BY <1>2 DEF Drops
  <2>2. InModel(stored, a)
    BY <1>2, <2>1 DEF AllInModels
  <2>3. IsApp(stored, a.app) => a.app \notin Deleted(n)
    BY <2>1 DEF Deleted, ChildrenOf, IsApp
  <2>4. IsApp(stored, a.app) => a.app \in DOMAIN stored' /\ stored'[a.app].json = stored[a.app].json
    BY <1>2, <2>3 DEF Drops, IsApp
  <2> QED BY <2>2, <2>4, InModelSame
<1> QED BY <1>1, <1>2, ChangeCases

(* While the older release is gathered, every row is the old one or the    *)
(* one an undisturbed start makes.                                         *)
LEMMA GatheringGoesOn ==
  ASSUME Gathering, StoredTypeOK, Seed \/ TakeOver
  PROVE  Gathering'
<1>1. CASE Seed
  <2>0. /\ pc = "seed" /\ UNCHANGED <<legacy, layered, explicit>>
        /\ legacy = Legacy /\ ~explicit /\ ~layered /\ DOMAIN Stored \ Obsolete \subseteq DOMAIN stored
        /\ \A n \in DOMAIN stored :
              \/ n \in DOMAIN Gathered /\ stored[n] = Gathered[n]
              \/ n \in DOMAIN Stored /\ stored[n] = Old(Stored)[n]
    BY <1>1, SeedCases DEF Gathering
  <2>1. CASE pc' = "seed" /\ \E n \in Obsolete \intersect DOMAIN stored : Drops({n})
    <3>1. PICK n \in Obsolete \intersect DOMAIN stored : Drops({n})
      BY <2>1
    <3>2. DOMAIN Stored \ Obsolete \subseteq DOMAIN stored'
      BY <2>0, <3>1 DEF Drops
    <3>3. \A m \in DOMAIN stored' :
            \/ m \in DOMAIN Gathered /\ stored'[m] = Gathered[m]
            \/ m \in DOMAIN Stored /\ stored'[m] = Old(Stored)[m]
      BY <2>0, <3>1 DEF Drops
    <3> QED BY <2>0, <2>1, <3>2, <3>3 DEF Gathering
  <2>2. CASE pc' = "seed" /\ \E n \in DOMAIN Shipped : Puts(n, Old(Shipped)[n])
    <3>1. PICK n \in DOMAIN Shipped : Puts(n, Old(Shipped)[n])
      BY <2>2
    <3>2. DOMAIN Stored \ Obsolete \subseteq DOMAIN stored'
      BY <2>0, <3>1 DEF Puts
    <3>3. \A m \in DOMAIN stored' :
            \/ m \in DOMAIN Gathered /\ stored'[m] = Gathered[m]
            \/ m \in DOMAIN Stored /\ stored'[m] = Old(Stored)[m]
      BY <2>0, <3>1, GatheredShape DEF Puts
    <3> QED BY <2>0, <2>2, <3>2, <3>3 DEF Gathering
  <2>3. CASE /\ pc' = "take over" /\ stored' = stored
             /\ Obsolete \intersect DOMAIN stored = {}
             /\ \A n \in DOMAIN Shipped : n \in DOMAIN stored /\ stored[n] = Old(Shipped)[n]
    <3>1. DOMAIN Before \subseteq DOMAIN stored
      BY <2>0, <2>3, BeforeShape
    <3>2. ASSUME NEW n \in DOMAIN stored
          PROVE  n \in DOMAIN Gathered /\ stored[n] = Gathered[n]
      <4>1. CASE n \in DOMAIN Shipped
        BY <2>3, <4>1, GatheredShape
      <4>2. CASE n \notin DOMAIN Shipped /\ n \in DOMAIN Stored /\ stored[n] = Old(Stored)[n]
        <5>1. n \in (DOMAIN Stored \ Obsolete) \ DOMAIN Shipped
          BY <2>3, <4>2
        <5>2. n \in DOMAIN Before /\ Before[n] = Old(Stored)[n]
          BY <5>1, BeforeShape
        <5> QED BY <4>2, <5>2, GatheredValue
      <4> QED BY <2>0, <4>1, <4>2
    <3> QED BY <2>0, <2>3, <3>1, <3>2 DEF Gathering
  <2> QED BY <1>1, <2>1, <2>2, <2>3, SeedCases
<1>2. CASE TakeOver
  <2>0. /\ pc = "take over" /\ UNCHANGED <<legacy, layered, explicit>>
        /\ legacy = Legacy /\ ~explicit /\ ~layered /\ DOMAIN Stored \ Obsolete \subseteq DOMAIN stored
        /\ DOMAIN Before \subseteq DOMAIN stored
        /\ \A n \in DOMAIN stored : n \in DOMAIN Gathered /\ stored[n] = Gathered[n]
    BY <1>2, TakeOverCases DEF Gathering
  <2>1. CASE pc' = "take over" /\ \E n \in Wanted(Legacy, stored) : Puts(Replaced(n), Converted(Legacy[n]))
    <3>1. PICK n \in Wanted(Legacy, stored) : Puts(Replaced(n), Converted(Legacy[n]))
      BY <2>1
    <3>2. n \in Wanted(Legacy, Before)
      BY <2>0 DEF Wanted
    <3>3. Replaced(n) \in DOMAIN Gathered /\ Gathered[Replaced(n)] = Converted(Legacy[n])
      BY <3>2, GatheredValue
    <3>4. \A m \in DOMAIN stored' : m \in DOMAIN Gathered /\ stored'[m] = Gathered[m]
      BY <2>0, <3>1, <3>3 DEF Puts
    <3>5. DOMAIN stored \subseteq DOMAIN stored'
      BY <3>1 DEF Puts
    <3> QED BY <2>0, <2>1, <3>4, <3>5 DEF Gathering
  <2>2. CASE pc' = "drop" /\ stored' = stored /\ Wanted(legacy, stored) = {}
    BY <2>0, <2>2 DEF Gathering
  <2> QED BY <1>2, <2>1, <2>2, TakeOverCases
<1> QED BY <1>1, <1>2

(* When the older table is dropped, nothing of it is missing.              *)
LEMMA GatheringEnds ==
  ASSUME Gathering, pc = "drop" PROVE Nearly(stored, Gathered)
<1>1. /\ \A n \in DOMAIN stored : n \in DOMAIN Gathered /\ stored[n] = Gathered[n]
      /\ DOMAIN Before \subseteq DOMAIN stored /\ Wanted(Legacy, stored) = {}
  BY DEF Gathering
<1>2. \A n \in Wanted(Legacy, Before) : Replaced(n) \in DOMAIN stored
  BY <1>1 DEF Wanted
<1>3. DOMAIN Gathered \subseteq DOMAIN stored
  BY <1>1, <1>2, GatheredValue
<1> QED BY <1>1, <1>3 DEF Nearly

LEMMA UnderwayGoesOn ==
  ASSUME StoredTypeOK, Staged, Underway, UpgradeNext
  PROVE  Underway'
<1> SUFFICES ASSUME ~mixed' PROVE (Gathering \/ GatheredAll \/ ModelledAll \/ Finished)'
  BY DEF Underway
<1>1. CASE RestoreBackup
  <2>1. /\ pc' = "seed" /\ stored' = Old(Stored) /\ legacy' = Legacy /\ ~layered' /\ ~explicit'
    BY <1>1, RestoreCases
  <2>2. DOMAIN stored' = DOMAIN Stored
    BY <2>1, OldValue
  <2> QED BY <2>1, <2>2 DEF Gathering
<1> SUFFICES ASSUME ~RestoreBackup PROVE (Gathering \/ GatheredAll \/ ModelledAll \/ Finished)'
  BY <1>1
<1>2. Gathering \/ GatheredAll \/ ModelledAll \/ Finished
  <2>1. mixed' = mixed
    BY SeedCases, TakeOverCases, MigrateCases, RenameCases, ChangeCases
    DEF UpgradeNext, DropLegacy, MarkMigration, Boot, StartAgain, At, history
  <2> QED BY <2>1 DEF Underway
<1>3. CASE Seed
  <2>0. pc = "seed" /\ pc' \in {"seed", "take over"} /\ UNCHANGED <<legacy, layered, explicit, changes, edited>>
    BY <1>3, SeedCases
  <2>1. CASE Gathering
    BY <1>3, <2>1, GatheringGoesOn
  <2>2. CASE GatheredAll
    <3>1. Nearly(stored, Gathered)'
      BY <1>3, <2>2, SeedNearly, GatheredShape DEF GatheredAll
    <3> QED BY <2>0, <2>2, <3>1 DEF GatheredAll
  <2>3. CASE ModelledAll
    <3>1. Nearly(stored, Modelled)'
      BY <1>3, <2>3, SeedNearly, ShippedStays DEF ModelledAll
    <3> QED BY <2>0, <2>3, <3>1 DEF ModelledAll
  <2>4. CASE Finished
    <3>0. AllInModels(stored, Undeclared \ edited) /\ Undeclared \ edited \subseteq Undeclared
      BY <2>4 DEF Finished
    <3>1. AllInModels(stored', Undeclared \ edited')
      BY <1>3, <2>0, <3>0, SeedInModels
    <3>2. Nearly(stored, Canonical(Modelled)) => Nearly(stored, Canonical(Modelled))'
      BY <1>3, SeedNearly, ShippedStays
    <3>3. Nearly(stored, Whole) => Nearly(stored, Whole)'
      BY <1>3, SeedNearly, ShippedStays
    <3> QED BY <2>0, <2>4, <3>1, <3>2, <3>3 DEF Finished
  <2> QED BY <1>2, <2>1, <2>2, <2>3, <2>4
<1>4. CASE TakeOver
  <2>1. CASE Gathering
    BY <1>4, <2>1, GatheringGoesOn
  <2>2. CASE GatheredAll \/ ModelledAll \/ Finished
    <3>1. legacy = << >>
      BY <2>2 DEF GatheredAll, ModelledAll, Finished
    <3>2. pc' = "drop" /\ UNCHANGED <<stored, legacy, layered, explicit, changes, edited>>
      BY <1>4, <3>1, TakeOverCases
    <3> QED BY <2>2, <3>2 DEF GatheredAll, ModelledAll, Finished
  <2> QED BY <1>2, <2>1, <2>2
<1>5. CASE DropLegacy
  <2>0. /\ pc = "drop" /\ pc' = "manifests" /\ legacy' = << >>
        /\ UNCHANGED <<stored, layered, explicit, changes, edited>>
    BY <1>5 DEF DropLegacy, At, GoTo, history
  <2>1. CASE Gathering
    <3>1. Nearly(stored, Gathered)
      BY <2>0, <2>1, GatheringEnds
    <3> QED BY <2>0, <2>1, <3>1 DEF Gathering, GatheredAll
  <2>2. CASE GatheredAll \/ ModelledAll \/ Finished
    BY <2>0, <2>2 DEF GatheredAll, ModelledAll, Finished
  <2> QED BY <1>2, <2>1, <2>2
<1>6. CASE MigrateManifests
  <2>0. /\ pc = "manifests" /\ UNCHANGED <<legacy, layered, explicit, changes, edited>>
        /\ \/ explicit /\ pc' = "rename" /\ stored' = stored
           \/ ~explicit /\ pc' = "mark" /\ stored' = WithModels(stored)
    BY <1>6, MigrateCases
  <2>1. CASE GatheredAll
    <3>1. pc' = "mark" /\ stored' = WithModels(stored)
      BY <2>0, <2>1 DEF GatheredAll
    <3>2. Nearly(stored, Modelled)'
      BY <2>1, <3>1, ModelledOf DEF GatheredAll
    <3> QED BY <2>0, <2>1, <3>1, <3>2 DEF GatheredAll, ModelledAll
  <2>2. CASE ModelledAll
    <3>1. Nearly(stored, Modelled)'
      BY <2>0, <2>2, ModelledAgain DEF ModelledAll
    <3> QED BY <2>0, <2>2, <3>1 DEF ModelledAll
  <2>3. CASE Finished
    BY <2>0, <2>3 DEF Finished
  <2> QED BY <1>2, <2>0, <2>1, <2>2, <2>3 DEF Gathering
<1>7. CASE MarkMigration
  BY <1>2, <1>7 DEF MarkMigration, At, GoTo, designer, history, Gathering, GatheredAll, ModelledAll, Finished
<1>8. CASE Rename
  <2>0. /\ pc = "rename" /\ pc' = "columns" /\ layered' /\ UNCHANGED <<legacy, explicit, changes, edited>>
        /\ stored' = IF layered THEN stored ELSE Canonical(stored)
    BY <1>8, RenameCases
  <2>1. CASE ModelledAll
    <3>1. stored' = Canonical(stored) /\ Nearly(stored, Modelled) /\ explicit
      BY <2>0, <2>1 DEF ModelledAll, Staged
    <3>2. AllInModels(stored', Undeclared \ edited')
      BY <3>1, NearlyInModels, CanonicalInModels
    <3>3. Nearly(stored, Canonical(Modelled))'
      BY <3>1, CanonicalOf
    <3> QED BY <2>0, <2>1, <3>1, <3>2, <3>3 DEF ModelledAll, Finished
  <2>2. CASE Finished
    <3>1. stored' = stored
      BY <2>0, <2>2 DEF Finished
    <3> QED BY <2>0, <2>2, <3>1 DEF Finished
  <2> QED BY <1>2, <2>0, <2>1, <2>2 DEF Gathering, GatheredAll
<1>9. CASE Boot
  <2>0. /\ pc = "columns" /\ stored' = Backfilled(stored) /\ UNCHANGED <<legacy, layered, explicit, changes, edited>>
    BY <1>9 DEF Boot, At, history
  <2>1. Finished
    BY <1>2, <2>0 DEF Gathering, GatheredAll, ModelledAll
  <2>2. AllInModels(stored', Undeclared \ edited')
    BY <2>0, <2>1, BootInModels DEF Finished
  <2>3. changes = 0 => Nearly(stored, Whole)'
    BY <2>0, <2>1, BackfilledOf DEF Finished
  <2> QED BY <2>0, <2>1, <2>2, <2>3 DEF Finished
<1>10. CASE Change
  <2>1. Finished
    BY <1>2, <1>10, ChangeCases DEF Gathering, GatheredAll, ModelledAll
  <2>2. AllInModels(stored', Undeclared \ edited')
    BY <1>10, <2>1, ChangeInModels DEF Finished
  <2>3. UNCHANGED <<legacy, layered, explicit>> /\ changes' # 0
    BY <1>10, ChangeCases DEF Staged
  <2> QED BY <2>1, <2>2, <2>3 DEF Finished
<1>11. CASE StartAgain
  <2>0. pc' = "seed" /\ UNCHANGED <<stored, legacy, layered, explicit, changes, edited>>
    BY <1>11 DEF StartAgain, designer, history
  <2>1. CASE Gathering
    BY <2>0, <2>1 DEF Gathering
  <2>2. CASE GatheredAll \/ ModelledAll \/ Finished
    BY <2>0, <2>2 DEF GatheredAll, ModelledAll, Finished
  <2> QED BY <1>2, <2>1, <2>2
<1> QED BY <1>3, <1>4, <1>5, <1>6, <1>7, <1>8, <1>9, <1>10, <1>11 DEF UpgradeNext

(* The stages of a start, in whatever order crashes, backups and deletions *)
(* interrupt it, keep what they have made of the older release.            *)
THEOREM UpgradeInvariant == UpgradeSpec => []UpgradeInv
<1>1. UpgradeInit => UpgradeInv
  <2> SUFFICES ASSUME UpgradeInit PROVE UpgradeInv
    OBVIOUS
  <2>1. StoredTypeOK /\ Staged /\ Gone /\ SeededStays /\ ColumnsAgree
    BY ArtifactRows, OldValue DEF UpgradeInit, StoredTypeOK, Staged, Gone, SeededStays, ColumnsAgree, Stages
  <2>2. Gathering
    BY OldValue DEF UpgradeInit, Gathering
  <2> QED BY <2>1, <2>2 DEF UpgradeInv, Underway
<1>2. UpgradeInv /\ [UpgradeNext]_upgradeVars => UpgradeInv'
  <2>1. CASE UNCHANGED upgradeVars
    BY <2>1 DEF UpgradeInv, upgradeVars, designer, history, StoredTypeOK, Staged, Gone, SeededStays,
                ShippedStored, ColumnsAgree, Underway, Gathering, GatheredAll, ModelledAll, Finished
  <2>2. CASE UpgradeNext
    BY <2>2, UpgradeTypes, GoneStays, ShippedIsKept, ColumnsStay, UnderwayGoesOn DEF UpgradeInv
  <2> QED BY <2>1, <2>2
<1> QED BY <1>1, <1>2, PTL DEF UpgradeSpec

(* Whatever crashes interrupt the starts, what is served first is what an  *)
(* undisturbed start makes of the older release (server.ts:150-218).       *)
THEOREM UpgradesLeaveNoTrace == UpgradeSpec => []CrashesLeaveNoTrace
<1>1. UpgradeInv => CrashesLeaveNoTrace
  BY DEF UpgradeInv, Underway, Gathering, GatheredAll, ModelledAll, Finished, CrashesLeaveNoTrace
<1> QED BY <1>1, UpgradeInvariant, PTL

(* What a server serves is well formed, contains nothing that was deleted, *)
(* names models its apps declare, and is listed as it is.                  *)
THEOREM ServedStaysSound == UpgradeSpec => []ServedIsSound
<1>1. UpgradeInv => ServedIsSound
  <2> SUFFICES ASSUME UpgradeInv PROVE ServedIsSound
    OBVIOUS
  <2>1. StoredTypeOK /\ ColumnsAgree
    BY DEF UpgradeInv
  <2>2. NothingDeletedReturns
    BY DEF UpgradeInv, Gone, NothingDeletedReturns
  <2>3. ModelsAreHarvested
    BY DEF UpgradeInv, Underway, Gathering, GatheredAll, ModelledAll, Finished, ModelsAreHarvested
  <2> QED BY <2>1, <2>2, <2>3 DEF ServedIsSound
<1> QED BY <1>1, UpgradeInvariant, PTL
=============================================================================
