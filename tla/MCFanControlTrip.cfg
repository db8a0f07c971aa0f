SPECIFICATION FairSpec
CONSTANTS
  FAN_OFF_TEMP_HYST = 2
  Payload <- MCPayload
  Weather <- MCWeather
PROPERTY FansFollowTemperature
