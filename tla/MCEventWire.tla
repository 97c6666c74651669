---------------------------- MODULE MCEventWire ----------------------------
(* Small instances of EventWire for TLC. *)
EXTENDS EventWire

\* One webhook in the clear and one over TLS.
EitherUrl == [secure : BOOLEAN, authority : {"a"}, path : {"/hook"}]
OneToken == {"t"}
=============================================================================
