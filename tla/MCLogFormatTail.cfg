SPECIFICATION FormatSpec
CONSTANTS
  Formats <- MCFormats
  Tokens <- MCTokens
  MaxShort = 4
  MaxLen = 9
  MaxHandlers = 3
  MaxInits = 2
INVARIANT FormatIsTheOneSet
CHECK_DEADLOCK FALSE
