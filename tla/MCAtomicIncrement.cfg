SPECIFICATION FairSpec
CONSTANTS
  N = 2
  Word = 5
  PollTurns = 1
  Garbage <- MCGarbage
INVARIANTS
  TypeOK
  ModeAgreement
  Exclusion
  NoneLost
  NeverTooMany
  RacyFloor
  DoneFlagTells
  LineIsFinal
PROPERTIES
  RoundsInOrder
  EveryRoundIsPrinted
  RoundsGoOn
  ModeTakesEffect
  ImplementsRounds
