CONSTANTS
  s1 = s1
  s2 = s2
  p1 = p1
  p2 = p2
  p3 = p3
  bath = bath
  NoPass = NoPass
  DayLength = 2
  DailyLimit = 0
  Seats = {s1, s2}
  Passes = {p1, p2, p3}
  InitialGrants <- MCInitialGrants
  Holder <- MCHolder
  Acquisition <- MCAcquisition
  Destinations = {bath}
  Consuming = {bath}
  MaxQueue <- MCMaxQueue
  MaxQueueLimit = 1
  Mechanisms = {"self"}
  MaxRequests = 2
  MaxUses = 2
  MaxRows <- MCMaxRows
  MaxInFlight = 2
  LastInstant = 3
SPECIFICATION Spec
INVARIANT EndsOnce ReservedPassStays QueueRespected DayEndsThePass
PROPERTY LifecycleForward
CHECK_DEADLOCK FALSE
