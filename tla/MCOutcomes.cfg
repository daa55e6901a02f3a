SPECIFICATION Spec
CONSTANTS
  Duty <- SeekDuty
  TimeMod = 3
  StartupGrace = 1
  StallTimeout = 2
  StallPwm = 3
  RecoveryCounts = 1
  DwellCycles = 1
  Tolerance = 0
  MinTarget = 0
  MaxTarget = 1
  SlowGap = 2
  SampleGapMax = 1
  HomingPwm <- HomingDuty
  HomingTimeout = 2
  Commands <- CountCommands
  CommandsPerCycle = 2
  EnvPins = {}
  HealthCanFail = FALSE
  CountMin = 0
  CountMax = 1
  TickBound = 1
  MaxOps = 1
INVARIANTS
  OneOutcomeEach
