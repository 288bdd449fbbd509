SPECIFICATION Spec
CONSTANTS
  Caller = {c1, c2}
  Fingerprint = {"f1", "f2"}
  Request <- MCRequest
  NoRequest = NoRequest
  MaxUnits = 3
  UnitCap = 2
  MaxOpen = 2
  Ttl = 1
  ValidFrom = 0
  ValidUntil = 2
  Shift <- MCShift
  MaxTime = 2
  MaxRows = 2
SYMMETRY Callers
INVARIANTS
  UnitsAreAuthorized
  PostsAreCovered
  ConsumedInTime
PROPERTIES
  SettledStays
  AccountSpec
CHECK_DEADLOCK FALSE
