SPECIFICATION Spec
CONSTANTS
  Scenarios <- MCScenarios
  Word = 65536
  StopEvery = 130
  BreakEvery = 210
  Patience = 110
  PostCycles = 200
  MaxMoveCycles = 2000
CHECK_DEADLOCK FALSE
INVARIANTS
  TypeOK
  MovesEndWell
  FiguresHold
  SupervisionIsRight
PROPERTIES
  EstimateIsTrue
