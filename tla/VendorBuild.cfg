SPECIFICATION FairSpec
CONSTANTS
  Job = {cm4, cm0}
  Source = {uart}
  Marker = ipcc
INVARIANTS
  LockedSeeTree
  LibraryIsCurrent
PROPERTIES
  JobsEnd
