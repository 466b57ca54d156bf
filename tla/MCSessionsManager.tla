--------------------------- MODULE MCSessionsManager ---------------------------
(***************************************************************************)
(* Instances of SessionsManager for TLC.  The durations are those of the     *)
(* code, in seconds.  Two slots for a machine are enough to see a second      *)
(* start task or session beside the first.                                   *)
(***************************************************************************)
EXTENDS SessionsManager

TwoSlots == 1 .. 2
=============================================================================
