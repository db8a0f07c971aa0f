SPECIFICATION FairSpec
CONSTANTS
  Week = 2
  Second = 1000
  Wrap = 13824000
  Interval = 3600000
  RetryCount = 2
  RetryWait = 1382400
  PassTime = {1382400, 2764800}
  Gap = {0, 900}
  PowerOn = {80179200}
  CapAge = 6912000
INVARIANTS
  TypeOK
  ValidMeansSet
  ResyncOnTime
  MinuteHandLags
  HourLagsAtMostOne
  DayLagsAtMostOne
PROPERTY EveryPassEnds
