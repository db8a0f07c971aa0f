------------------------------ MODULE TimeString ------------------------------
(***************************************************************************)
(* Start times between the strings of MQTT messages ("9:30PM") and minutes *)
(* from midnight: the parser of Control_Drip_Start_Time and the formatter  *)
(* Convert_Time_To_String.  A string is the record of what it says.        *)
(***************************************************************************)
EXTENDS Integers

Time12 == [hour : 1 .. 12, min : 0 .. 59, pm : BOOLEAN]

\* Mutant: minutes from noon.
ParseFromNoon(t) == 60 * t.hour - (IF t.pm THEN 0 ELSE 12 * 60) + t.min

\* Mutant: the afternoon is not told apart from the morning.
ParseNoPM(t) == 60 * t.hour + t.min

\* The start time Control_Drip_Start_Time stores.
ParseTime(t) == 60 * t.hour + (IF t.pm THEN 12 * 60 ELSE 0) + t.min

\* Mutant: the hour of noon is in the afternoon.
ConvertFrom12(rawTime) ==
  LET hour == (rawTime \div 60) % 256
  IN [hour |-> IF hour > 12 THEN hour - 12 ELSE hour,
      min  |-> (rawTime - 60 * hour) % 256,
      pm   |-> hour >= 12]

\* The hour and the minute are kept in a uint8_t.
Convert_Time_To_String(rawTime) ==
  LET hour == (rawTime \div 60) % 256
  IN [hour |-> IF hour > 12 THEN hour - 12 ELSE hour,
      min  |-> (rawTime - 60 * hour) % 256,
      pm   |-> hour > 12]

\* The minutes from midnight a clock with AM and PM means.
MinutesFromMidnight(t) ==
  60 * (t.hour % 12) + (IF t.pm THEN 12 * 60 ELSE 0) + t.min

=============================================================================
