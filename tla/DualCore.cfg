SPECIFICATION DualSpec
CONSTANT
  Count = 16
INVARIANTS
  DualTypeOK
  NoneMerged
  OneSurvives
  TogglesCount
PROPERTIES
  MessagesShown
  ImplementsQueue
  ApartBothBlink
  HeldPressToggles
  RestsPrinted
