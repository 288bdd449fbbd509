SPECIFICATION Spec
CONSTANTS
  Worker = {w1, w2}
  Fingerprint = {f1, f2}
  ActivityId = {a1, a2}
  NoId = NoId
  MaxPosts = 2
SYMMETRY Symmetry
INVARIANTS
  NoSubmitIsOfferedAgain
  IdsMapOneToOne
PROPERTIES
  VerdictsAndIdsAreKept
