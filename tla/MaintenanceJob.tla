---------------------------- MODULE MaintenanceJob ----------------------------
(***************************************************************************)
(* What a maintenance job promises the administrator: it takes effect as a *)
(* whole or not at all, says which, and says so when it can do neither.    *)
(* Updater implements it.                                                  *)
(***************************************************************************)
VARIABLES
    outcome,  \* what the job reports: "open", "done", "undone" or "manual"
    service   \* what users are served: "before", "down" or "after" the job

Init == outcome = "open" /\ service = "before"

(* While the job is open the service may come and go in either version.    *)
Work == outcome = "open" /\ service' \in {"before", "down", "after"} /\ UNCHANGED outcome

Commit == outcome = "open" /\ service = "after" /\ outcome' = "done" /\ UNCHANGED service

(* An undone job serves what was served before it.                         *)
Undo == outcome # "done" /\ service = "before" /\ outcome' = "undone" /\ UNCHANGED service

GiveUp == outcome # "done" /\ outcome' = "manual" /\ UNCHANGED service

(* A launch that was under way when an interrupted job was written off     *)
(* carries the job out after all.                                          *)
Reopen == outcome # "done" /\ service = "before" /\ outcome' = "open" /\ UNCHANGED service

Next == Work \/ Commit \/ Undo \/ GiveUp \/ Reopen

Spec == Init /\ [][Next]_<<outcome, service>>
=============================================================================
