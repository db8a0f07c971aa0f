SPECIFICATION FairSpec
CONSTANTS
  DRIP_SYS = 2
  Start = {3, 6}
  Duration = {0, 3}
  Days <- MCSomeDays
  WeekDays = 1
  MinPerHour = 2
  HoursPerDay = 3
  Jump = {0, 1}
  Astray = {0}
  CapWet = 0
  Restarts = TRUE
PROPERTIES
  EventuallyClosed
