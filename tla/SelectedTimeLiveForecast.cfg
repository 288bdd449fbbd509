SPECIFICATION Spec
CONSTANTS
  Thread = {t1}
  NoThread = NoThread
  Key = {"phoenix"}
  Target <- MCTarget
  Offset = 2
  DayLength = 2
  Ttl = 1
  DailyLimit = 1
  MaxTime = 3
  MaxLives = 2
SYMMETRY Threads
INVARIANT ForecastsExpire
