SPECIFICATION Spec
CONSTANT
  Limit = 4
INVARIANTS
  OwnNumbers
