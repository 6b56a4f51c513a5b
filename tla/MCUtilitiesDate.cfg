\* Are the digits behind the date the milliseconds?
SPECIFICATION UtilitiesSpec
CONSTANTS
  Width = 8
  Formats <- MCFormats
  Tokens <- MCTokens
  MaxShort = 4
  MaxLen = 9
  MaxHandlers = 3
  MaxInits = 2
  Inputs <- MCInputs
  MaxSplit = 6
  DELIMITER = "/"
  ABSENT = ABSENT
  UNWRITTEN = UNWRITTEN
  Subjects <- MCSubjects
  MaxSubject = 5
  Patterns <- MCPatterns
  Replacements <- MCReplacements
  CacheInc = 1
  CacheIncFactor = 3
  CacheIncMax = 2
  TimePoints <- MCTimePoints
  Around = 2
  BufferSizes = {0, 1, 5, 8, 9, 32}
  SecondDigits = 3
  NanoDigits = 4
  Entry = {"root", "a", "s", "d", "da", "de", "dea"}
  Root = "root"
  Parent <- MCParent
  DepthOf <- MCDepthOf
  Kind <- MCKind
  SizeOf <- MCSizeOf
  MaxDepths = {0, 1, 2}
  MaxRemoved = 3
  Lib = {l1, l2}
  Path = {"libA", "libB"}
  Symbols = {"sym1", "sym2"}
  SymbolsOf <- MCSymbolsOf
  MaxCloseFailures = 2
  NOLIB = NOLIB
INVARIANTS MillisecondsAreWritten
CHECK_DEADLOCK FALSE
