SPECIFICATION FairSpec
CONSTANTS
  Caller = {c1, c2, c3}
  Fingerprint = {f1}
  Units = 2
  MaxAttempts = 2
  None = None
INVARIANTS
  AnswersAgree
PROPERTIES
  CallsEnd
  JoinedSpec
