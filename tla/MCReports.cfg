SPECIFICATION Spec
CONSTANTS
  Capacity = 2
  MaxRecords = 5
CHECK_DEADLOCK FALSE
INVARIANTS
  TypeOK
  NothingIsLost
  GroupsAreCoherent
PROPERTIES
  NameFollowsText
  SendsFinish
