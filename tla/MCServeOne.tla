----------------------------- MODULE MCServeOne -----------------------------
(* Small instances of ServeOne for TLC. *)
EXTENDS ServeOne
=============================================================================
