SPECIFICATION Spec
CONSTANTS
  DRIP_SYS = 2
  Start = {0, 7}
  Duration = {2, 4}
  Days <- MCAlternate
  WeekDays = 2
  MinPerHour = 3
  HoursPerDay = 3
  Jump = {1, 2}
  Astray = {7}
  CapWet = 7
  Restarts = TRUE
INVARIANTS
  TypeOK
  NoOverWatering
PROPERTIES
  NotCutShort
  StartsNearWindow
