SPECIFICATION Spec
CONSTANTS
  Job = {j1, j2}
  Key = {k1}
  a1 = a1
  a2 = a2
  v1 = v1
  Activity = {a1, a2}
  Reservation = {v1}
  None = None
  Replacement <- MCReplacement
  MaxLives = 3
SYMMETRY Symmetric
INVARIANTS
  PostIsRemembered
  AckedIdsAreKept
