---------------------------- MODULE MCAttachments ----------------------------
(***************************************************************************)
(* Two image uploads with one upload id (a retry) and a plain upload, to   *)
(* two records.                                                            *)
(***************************************************************************)
EXTENDS Attachments

CONSTANTS image1, image2, plain, r1, r2
MCAttachmentOf == [u \in Uploads |-> IF u = plain THEN "p" ELSE "i"]
MCParentOf == [u \in Uploads |-> IF u = plain THEN r2 ELSE r1]
OneParent == [u \in Uploads |-> r1]
MCDirOf == [u \in Uploads |-> IF u = image2 THEN "e" ELSE "d"]
=============================================================================
