----------------------------- MODULE MCDripValve -----------------------------
(* Model of DripValve for TLC: two drips, drip 1 with its own order of the   *)
(* last two writes and drip 2 standing for drips 2 and 3.                    *)
EXTENDS DripValve
=============================================================================
