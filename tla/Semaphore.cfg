\* The HAL images really stop: see SemaphoreStops.cfg.
SPECIFICATION FairSpec
CHECK_DEADLOCK FALSE
CONSTANTS
  Chars = 2
  MaxRun = 5
INVARIANTS
  TypeOK
  TakesTurns
PROPERTIES
  BothPrint
