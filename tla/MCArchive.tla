------------------------------- MODULE MCArchive -------------------------------
(***************************************************************************)
(* An older document with a line, a file on the line, a header field and a *)
(* read-only number; with a row of a table that the entity does not list,  *)
(* and a file there.  A newer one with a file of the same content.         *)
(***************************************************************************)
EXTENDS Archive

MCDocOf == [p \in Parts |-> IF p = "other" THEN 2 ELSE 1]
MCParentOf == [f \in Files |-> CASE f = "scan" -> "line" [] f = "paper" -> "child" [] OTHER -> Header]
MCShaOf == [f \in Files |-> "sha"]
MCPolicies == {[enabled |-> TRUE, files |-> TRUE], [enabled |-> TRUE, files |-> FALSE]}
=============================================================================
