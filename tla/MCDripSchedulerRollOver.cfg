SPECIFICATION Spec
CONSTANTS
  DRIP_SYS = 2
  Start = {0, 6}
  Duration = {2, 4}
  Days <- MCEveryDay
  WeekDays = 2
  MinPerHour = 2
  HoursPerDay = 4
  Jump = {0, 1}
  Astray = {0}
  CapWet = 6
  Restarts = FALSE
INVARIANTS
  NoOverWateringNextToOthers
