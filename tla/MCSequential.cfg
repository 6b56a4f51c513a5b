\* Arrays that start small, or on the stack, and grow a few times; and the utilities.
CONSTANTS
  Value = {v1, v2, v3}
  NULL = NULL
  GARBAGE = GARBAGE
  InitialCapacity = {0, 1, 3}
  Index = {0, 1, 2, 3, 4}
  MaxCapacity = 4
  Strings <- MCStrings
  Capacities = {0, 1, 2, 3}
  NUL = NUL
  UNSET = UNSET
  NOSTRING = NOSTRING
  MaxBuffer = 8
  LineFormats <- MCLineFormats
  Expansion <- MCExpansion
  MESSAGE = "message"
  NONE = NONE
  StackSize = 2
  COLOR <- MCColor
  NORMAL <- MCNormal
  ByteCapacities = {0, 1, 2, 3}
  MaxBytes = 3
  Array = {a1, a2}
  String = {1, 2}
  Sizes = {0, 1, 2}
  Width = 8
  Formats <- MCFormats
  Tokens <- MCTokens
  MaxShort = 4
  MaxLen = 9
  MaxHandlers = 3
  MaxInits = 2
  Inputs <- MCInputs
  MaxSplit = 6
  DELIMITER = "/"
  ABSENT = ABSENT
  UNWRITTEN = UNWRITTEN
  Subjects <- MCSubjects
  MaxSubject = 5
  Patterns <- MCPatterns
  Replacements <- MCReplacements
  CacheInc = 1
  CacheIncFactor = 3
  CacheIncMax = 2
  TimePoints <- MCTimePoints
  Around = 2
  BufferSizes = {0, 1, 5, 8, 9, 32}
  SecondDigits = 3
  NanoDigits = 4
  Entry = {"root", "a", "s", "d", "da", "de", "dea"}
  Root = "root"
  Parent <- MCParent
  DepthOf <- MCDepthOf
  Kind <- MCKind
  SizeOf <- MCSizeOf
  MaxDepths = {0, 1, 2}
  MaxRemoved = 3
  Lib = {l1, l2}
  Path = {"libA", "libB"}
  Symbols = {"sym1", "sym2"}
  SymbolsOf <- MCSymbolsOf
  MaxCloseFailures = 2
  NOLIB = NOLIB
SPECIFICATION SequentialSpec
INVARIANTS ItemsAreWritten MemoryIsAccounted StringIsKept  CmpIsAnOrder LineIsWhole
  RoundsUp FormatIsRead TokensAreTheRuns EveryMatchIsReplaced TimeCanBeReadBack SizeIsOfTheTree LibrariesAreSound
PROPERTIES ImplementsList
CHECK_DEADLOCK FALSE
