SPECIFICATION Spec
CONSTANTS
  Duty <- SeekDuty
  TimeMod = 8
  StartupGrace = 1
  StallTimeout = 6
  StallPwm = 3
  RecoveryCounts = 1
  DwellCycles = 1
  Tolerance = 0
  MinTarget = 0
  MaxTarget = 1
  SlowGap = 2
  SampleGapMax = 2
  HomingPwm <- HomingDuty
  HomingTimeout = 5
  Commands <- HomeOnly
  CommandsPerCycle = 2
  EnvPins = {}
  HealthCanFail = FALSE
  CountMin = 0
  CountMax = 1
  TickBound = 2
  MaxOps = 1
PROPERTIES
  SeekGetsItsTime
