SPECIFICATION LiveSpec
CONSTANTS
  MotionPeriod = 1
  SafetyPeriod = 2
  TelemetryPeriod = 2
  CommsPeriod = 2
  MaxAge = 4
  WatchdogTimeout = 6
  StepTimeout = 1
  Polls = 4
  SlowTicks = 1
CHECK_DEADLOCK FALSE
INVARIANTS
  TypeOK
  StepsAreWhole
  HealthIsExact
  AllParkInTime
PROPERTIES
  HangIsReset
