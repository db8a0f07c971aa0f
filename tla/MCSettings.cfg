SPECIFICATION Spec
CONSTANTS
  Settable <- MCSettable
  UserVal = {5, 6}
  MaxFaults = 1
INVARIANTS
  TypeOK
  SettingSurvives
  BootRestores
  BootCompletesFlash
