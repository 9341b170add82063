SPECIFICATION Spec
CONSTANTS
  Job = {cm4, cm0}
  Source = {uart}
  Marker = ipcc
INVARIANTS
  NoHalfTree
