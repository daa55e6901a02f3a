SPECIFICATION LiveSpec
CONSTANTS
  RxCapacity = 2
  BusCapacity = 2
  Batch = 1
  CommandsPerCycle = 1
  BurstMax = 2
  MaxFrames = 5
  NoticeMax = 1
INVARIANTS
  TypeOK
  NoSleepOnInput
  CountersAgree
  WaitBounded
PROPERTIES
  ReportsAreTrue
  ImplementsPipe
  FramesEnd
