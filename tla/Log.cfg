CONSTANTS
  Limit = 3
  FifoSize = 16
  LogEvery = 2
SPECIFICATION Spec
INVARIANT NoByteLost
PROPERTIES PanicUninterrupted LinesEnd
CHECK_DEADLOCK FALSE
