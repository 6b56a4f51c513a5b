\* Two maps that grow, shrink and are copied to each other and to themselves.
CONSTANTS
  Map = {m1, m2}
  Key <- TwoKeys
  Value = {v1, v2}
  NULL = NULL
  Lookups <- WholeKeys
  Reservations = {0, 2}
  MaxCapacity = 2
  MaxLeak = 0
SPECIFICATION FairSpec
INVARIANTS MapsAreSound MemoryIsAccounted
PROPERTIES FailureIsContained CopyIsComplete CopyTerminates
