CONSTANTS
  NoPass = NoPass
  NoRun = NoRun
  s1 = s1
  h1 = h1
  w1 = w1
  w2 = w2
  DayLength = 3
  DailyLimit = 1
  Seats = {s1}
  Passes = {}
  Holder <- HolderOf
  Workers = {w1, w2}
  Tokens = {1, 2}
  PayPeriod = 3
  MaxRows = 4
  MaxInFlight = 1
  LastStart = 7
  LastInstant = 7
SPECIFICATION Spec
INVARIANT PaidOnce
CHECK_DEADLOCK FALSE
