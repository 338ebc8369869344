------------------------------- MODULE MCEditor -------------------------------
(* Model checking of Editor: one browser, and others saving beside it.       *)
EXTENDS Editor
OneUser == {"designer"}
=============================================================================
