SPECIFICATION Spec
CHECK_DEADLOCK FALSE
CONSTANTS
  Chars = 2
  MaxRun = 5
INVARIANTS
  LinesApart
