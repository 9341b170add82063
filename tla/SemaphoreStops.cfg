SPECIFICATION FairSpec
CHECK_DEADLOCK FALSE
CONSTANTS
  Chars = 2
  MaxRun = 5
PROPERTIES
  M4PrintsOn
