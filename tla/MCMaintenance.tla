---------------------------- MODULE MCMaintenance ----------------------------
(* Model checking of Maintenance: two administrators are interchangeable.    *)
(* The backups are those of the database that hold what they declare, of any *)
(* version, whole or torn; among them some that do not validate.             *)
EXTENDS Maintenance, TLC
CONSTANTS a1, a2
TwoActors == {a1, a2}
MCBackups ==
    {a \in Archives : "data" \in Restored(a) /\ ("files" \in a.declared <=> a.entry["files"] # "none")}
Interchangeable == Permutations(TwoActors)
=============================================================================
