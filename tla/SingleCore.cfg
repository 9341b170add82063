SPECIFICATION SingleSpec
CONSTANTS
  NumTasks = 3
  Limit = 4
  Word = 16
  Slow = 5
  Fast = 3
  Stall = 2
  Pins = 2
  Leds = 3
  Largest = 127
  Room = 3
INVARIANTS
  SingleTypeOK
  OwnFrames
  KeepsPeriod
  NumberShown
PROPERTIES
  ImplementsTurns
  TurnsGoOn
  PingPong
  EventsToggle
  LevelsReported
