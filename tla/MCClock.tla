------------------------------- MODULE MCClock -------------------------------
(* Model of Clock for TLC.                                                   *)
EXTENDS Clock
=============================================================================
