SPECIFICATION FairSpec
CONSTANTS
  Measurement <- MCMeasurement
  HISTORY_DEPTH = 3
INVARIANTS
  TypeOK
  NoLostAddress
  HistoryOffByAtMostOne
  TempTopicFollows
PROPERTIES
  OnlyGenuineReadings
  AddressStartsLoop
  OnlySensorStopsLoop
