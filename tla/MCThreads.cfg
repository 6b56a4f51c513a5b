SPECIFICATION ThreadsSpec
CONSTANTS
  Thread = {t1, t2}
  Parts = 3
  NULL = NULL
  Caller = {c1, c2}
  Duration = 2
  MaxClock = 4
  MaxCalls = 2
  Messages <- MCMessages
  Files <- MCFiles
  Lines = {0, 7, 10, 99}
  StringMax = 12
  MessageMax = 4
  LineMax = 2
  UINT64_MAX = 99
INVARIANTS ThreadsAreServed ErrorStringIsCurrent FirstCallIsSpecial ThrottleKeepsInterval
PROPERTIES EveryLogReturns
CHECK_DEADLOCK FALSE
