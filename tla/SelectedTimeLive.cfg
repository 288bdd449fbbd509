SPECIFICATION FairSpec
CONSTANTS
  Thread = {t1, t2}
  NoThread = NoThread
  Key = {"phoenix", "tucson"}
  Target <- MCTarget
  Offset = 1
  DayLength = 1
  Ttl = 1
  DailyLimit = 1
  MaxTime = 1
  MaxLives = 2
INVARIANTS
  OneRunnerPerKey
  AllowancePerDay
  ServedIsNotRebought
  AnswersAreOfTheirKey
PROPERTIES
  RequestsEnd
  FlightsEnd
