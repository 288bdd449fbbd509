SPECIFICATION Spec
CONSTANTS
  Worker = {w1, w2}
  Fingerprint = {f1}
  ActivityId = {a1}
  NoId = NoId
  MaxPosts = 2
SYMMETRY Symmetry
INVARIANT AtMostOneSubmit
