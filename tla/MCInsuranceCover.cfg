SPECIFICATION FairSpec
CONSTANTS
  fine = fine  fee = fee  d1 = d1  d2 = d2
  Terms <- TwoVersions
  InitialFunds = 2
  Grouped = TRUE
  Never = 99
  MaxTime = 4
  MaxPurchases = 2
  MaxFailures = 1
  Losses = {}
  Price <- One
  Refund <- Two
  Decisions = {d1}
  WeekLength = 7
  LossDays = {0}
  MaxClaims = 0
INVARIANTS OneCoverInForce ContinuesWhereItEnds NoDebtPastTheEnd
PROPERTIES StoppedStaysStopped CoverageEnds
CHECK_DEADLOCK FALSE
