CONSTANTS
  NoPass = NoPass
  NoRun = NoRun
  s1 = s1
  h1 = h1
  w1 = w1
  w2 = w2
  DayLength = 3
  DailyLimit = 2
  Seats = {s1}
  Passes = {h1}
  Holder <- HolderOf
  Workers = {w1, w2}
  Tokens = {1}
  PayPeriod = 3
  MaxRows = 3
  MaxInFlight = 1
  LastStart = 4
  LastInstant = 7
SPECIFICATION Spec
SYMMETRY WorkerSymmetry
INVARIANT InstantsPaidOnce EvidenceStaysProvable PaydaysInTurn RulingHonoured
CHECK_DEADLOCK FALSE
