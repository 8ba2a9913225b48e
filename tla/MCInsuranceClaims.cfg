SPECIFICATION Spec
CONSTANTS
  fine = fine  fee = fee  d1 = d1  d2 = d2
  Terms <- OneVersion
  InitialFunds = 3
  Grouped = TRUE
  Never = 99
  MaxTime = 2
  MaxPurchases = 1
  MaxFailures = 0
  Losses = {fine, fee}
  Price <- One
  Refund <- Two
  Decisions = {d1, d2}
  WeekLength = 7
  LossDays = {1}
  MaxClaims = 2
INVARIANTS ClaimPaidOnce
SYMMETRY ClaimSymmetry
CHECK_DEADLOCK FALSE
