------------------------------ MODULE MCUpdater ------------------------------
(* Model checking of Updater: the faults each run injects. *)
EXTENDS Updater

CallAndRecoverFaults == {"call", "recover"}
CleanupFaults == {"cleanup"}
RecoverFaults == {"recover"}
LookupFaults  == {"lookup"}
=============================================================================
