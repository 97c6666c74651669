---------------------------- MODULE MCLocations ----------------------------
(* Small instances of Locations for TLC. *)
EXTENDS Locations

Machine == {"a"}
WellKnown == {80, 443}
=============================================================================
