\* Loggers in a hierarchy: what is set where, and what is effective.
CONSTANTS
  Name <- Hierarchy
  Separator = "."
  NULL = NULL
  Levels <- LevelsOrError
  Severities = {10}
  MaxLost = 1
SPECIFICATION FairSpec
INVARIANTS StateIsConsistent EffectiveLevelIsNearest HandledIsEnabled
PROPERTIES SettingIsLocal SearchEnds
CHECK_DEADLOCK FALSE
