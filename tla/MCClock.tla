------------------------------ MODULE MCClock -------------------------------
(* Values for Clock that a configuration file cannot express. *)
EXTENDS Clock

MCOffsets == {-5, 4}
=============================================================================
