\* The default logger, by its two names: the empty one and none.
CONSTANTS
  Name <- TwoNames
  Separator = "."
  NULL = NULL
  Levels = {0, 10, 30}
  Severities = {20}
  MaxLost = 0
SPECIFICATION Spec
INVARIANTS DefaultLevelIsOne
CHECK_DEADLOCK FALSE
