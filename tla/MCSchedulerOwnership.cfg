SPECIFICATION FairSpec
CONSTANTS
  Procs = {p1, p2, p3}
  MaxFaults = 4
  Null = null
INVARIANTS
  JobsNeverOverlap
PROPERTIES
  SchedulerComesBack
