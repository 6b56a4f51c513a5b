\* A map with a hole is reserved less than its capacity.
CONSTANTS
  Map = {m1}
  Key <- TwoKeys
  Value = {v1}
  NULL = NULL
  Lookups <- NoLookups
  Reservations = {0, 2}
  MaxCapacity = 2
  MaxLeak = 0
SPECIFICATION Spec
PROPERTY ReserveKeepsPairs
