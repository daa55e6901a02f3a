SPECIFICATION Spec
CONSTANTS
  Text <- OneByte
  LineCapacity = 2
  RxCapacity = 2
  MaxBytes = 6
INVARIANTS
  ErrorsCostOneLine
CHECK_DEADLOCK FALSE
