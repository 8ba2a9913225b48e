SPECIFICATION FairSpec
CONSTANTS
  Procs = {p1, p2, p3}
  Seats <- MCSeats
  LastSeat = 2
  Writers <- OrderedWriters
  Null = null
INVARIANTS
  NoCircularWait
PROPERTIES
  WritersFinish
