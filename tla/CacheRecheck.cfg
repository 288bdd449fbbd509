SPECIFICATION Spec
CONSTANTS
  Pipeline = {p1, p2}
  Fingerprint = {f1}
  Geometry = {g1, g2}
  Payload = {v1, v2}
  Poison = Poison
  Units = 2
  MaxReservations = 3
  MaxSubmits = 2
  MaxBusts = 1
  None = None
SYMMETRY Interchangeable
INVARIANTS
  UnitsKept
  ConsumedAfterCached
  PaidReleaseIsAnswered
  AnswersAgree
