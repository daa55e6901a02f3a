SPECIFICATION MCSpec
CONSTANTS
  Text <- OneByte
  LineCapacity = 2
  RxCapacity = 2
  MaxBytes = 6
  Alphabet <- LineAlphabet
  CommandCapacity = 6
  IntMax = 15
  MaxWrite = 3
  MaxLine = 6
INVARIANTS
  LinesArrive
  ParserIsExact
  PrintsAreRead
CHECK_DEADLOCK FALSE
