------------------------------ MODULE MCCustody ------------------------------
(* Small instances of Custody for TLC. *)
EXTENDS Custody
=============================================================================
