SPECIFICATION Spec
CONSTANTS
  NumTasks = 2
  Steps = 2
  Halves = 3
  Prompt = TRUE
INVARIANTS
  SwitchIsLast
