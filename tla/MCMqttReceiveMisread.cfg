SPECIFICATION Spec
CONSTANTS
  Drip = {1}
  StartTime <- MCStartTime
  DigitCount = {1, 2, 3}
  Last = 43
INVARIANT MessagesObeyed
