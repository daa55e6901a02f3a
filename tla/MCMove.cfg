SPECIFICATION Spec
CONSTANTS
  Duty <- MoveDuty
  TimeMod = 3
  StartupGrace = 1
  StallTimeout = 1
  StallPwm = 3
  RecoveryCounts = 1
  DwellCycles = 1
  Tolerance = 0
  MinTarget = 0
  MaxTarget = 1
  SlowGap = 2
  SampleGapMax = 1
  HomingPwm <- HomingDuty
  HomingTimeout = 2
  Commands <- MoveCommands
  CommandsPerCycle = 2
  EnvPins = {"estop"}
  HealthCanFail = FALSE
  CountMin = 0
  CountMax = 1
  TickBound = 1
  MaxOps = 1
INVARIANTS
  LatchHoldsGate
  HazardKeepsLatch
  DriveHasOwner
PROPERTIES
  LatchLeftByReset
  CompletionIsHonest
