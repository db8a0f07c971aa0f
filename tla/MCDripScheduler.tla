--------------------------- MODULE MCDripScheduler ---------------------------
(* Model of DripScheduler for TLC: days of a few hours of two or three       *)
(* minutes, which have minutes before and after the hour and windows within  *)
(* a day and across midnight, and weeks of two days, which have days on and  *)
(* days off.                                                                 *)
EXTENDS DripScheduler

MCAlternate == {{0}}
MCEveryDay == {{0, 1}}
MCSomeDays == {{}, {0}}
=============================================================================
