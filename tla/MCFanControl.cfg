SPECIFICATION FairSpec
CONSTANTS
  FAN_OFF_TEMP_HYST = 2
  Payload <- MCPayload
  Weather <- MCWeather
INVARIANTS
  TypeOK
  LoneSwitchTakesEffect
  CommandedStateIsTrue
  NoChatter
PROPERTY TripPointDecides
