SPECIFICATION FairSpec
CONSTANT DRIP_SYS = 2
INVARIANTS
  TypeOK
  CoilOnlyWhilePulsing
  UndisturbedPulseWins
  LoneCallTakesEffect
PROPERTIES
  EveryPulseEnds
  ImplementsAtomicDrip
