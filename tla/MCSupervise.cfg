SPECIFICATION Spec
CONSTANTS
  Duty <- MoveDuty
  TimeMod = 3
  StartupGrace = 1
  StallTimeout = 2
  StallPwm = 9
  RecoveryCounts = 1
  DwellCycles = 1
  Tolerance = 0
  MinTarget = 0
  MaxTarget = 1
  SlowGap = 1
  SampleGapMax = 1
  HomingPwm <- HomingDuty
  HomingTimeout = 2
  Commands <- GuardCommands
  CommandsPerCycle = 1
  EnvPins = {"positive"}
  HealthCanFail = TRUE
  CountMin = 0
  CountMax = 1
  TickBound = 2
  MaxOps = 1
INVARIANTS
  LatchIsReported
PROPERTIES
  ImplementsLatch
