------------------------------- MODULE MCZone -------------------------------
(* Values for Zone that a configuration file cannot express. *)
EXTENDS Zone

(* Below the lowest level, so that the effective volume is clamped. *)
MCOffsets == {-60}
=============================================================================
