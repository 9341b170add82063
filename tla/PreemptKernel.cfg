SPECIFICATION FairSpec
CONSTANTS
  NumTasks = 3
  Steps = 4
  Halves = 3
  Prompt = TRUE
INVARIANTS
  TypeOK
PROPERTIES
  ImplementsSlices
  EveryTaskRuns
