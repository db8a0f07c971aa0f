SPECIFICATION Spec
CONSTANTS
  Settable <- MCSettable
  UserVal = {5, 6}
  MaxFaults = 0
INVARIANT BootAgrees
