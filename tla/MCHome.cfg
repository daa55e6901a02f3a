SPECIFICATION Spec
CONSTANTS
  Duty <- MoveDuty
  TimeMod = 3
  StartupGrace = 1
  StallTimeout = 2
  StallPwm = 3
  RecoveryCounts = 1
  DwellCycles = 1
  Tolerance = 0
  MinTarget = 0
  MaxTarget = 1
  SlowGap = 1
  SampleGapMax = 1
  HomingPwm <- HomingDuty
  HomingTimeout = 2
  Commands <- SeekCommands
  CommandsPerCycle = 1
  EnvPins = {"negative"}
  HealthCanFail = FALSE
  CountMin = 0
  CountMax = 1
  TickBound = 1
  MaxOps = 2
INVARIANTS
  TypeOK
  NoDriveIntoContact
  AllowanceEarned
PROPERTIES
  DriveStartsInUpdate
  ReferenceNeedsContact
