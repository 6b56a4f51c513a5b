SPECIFICATION FairSpec
CONSTANTS
  k1 = k1
  k2 = k2
  k3 = k3
  k4 = k4
  Key = {k1, k2, k3, k4}
  Value = {v1, v2}
  NULL = NULL
  Hash <- MCHash
  BitAnd <- MCBitAnd
  InitialCapacity = {1, 3}
  MaxCapacity = 8
INVARIANTS MapIsSound EveryEntryIsFound MemoryIsAccounted
PROPERTIES ImplementsStore SetTerminates
