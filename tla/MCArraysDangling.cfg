\* Does the buffer of a char array always point to allocated memory?
CONSTANTS
  Value = {v1, v2, v3}
  NULL = NULL
  GARBAGE = GARBAGE
  InitialCapacity = {0, 1, 3}
  Index = {0, 1, 2, 3, 4}
  MaxCapacity = 4
  Strings <- MCStrings
  Capacities = {0, 1, 2, 3}
  NUL = NUL
  UNSET = UNSET
  NOSTRING = NOSTRING
  MaxBuffer = 8
  LineFormats <- MCLineFormats
  Expansion <- MCExpansion
  MESSAGE = "message"
  NONE = NONE
  StackSize = 2
  COLOR <- MCColor
  NORMAL <- MCNormal
  ByteCapacities = {0, 1, 2, 3}
  MaxBytes = 3
  Array = {a1, a2}
  String = {1, 2}
  Sizes = {0, 1, 2}
INVARIANTS BufferIsAllocated
SPECIFICATION ArraysSpec
CHECK_DEADLOCK FALSE
