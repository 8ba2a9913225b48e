SPECIFICATION FairSpec
CONSTANTS
  s1 = s1
  s2 = s2
  item = item
  goal = goal
  pass = pass
  snack = snack
  NoPurchase = NoPurchase
  Seats = {s1, s2}
  Products = {item, goal, pass, snack}
  Type <- MCType
  HoldingLimit <- MCHoldingLimit
  Target <- MCTarget
  Wares <- MCWares
  Withdrawable = {goal}
  MaxQuantity = 2
  MaxLots = 2
  MaxRequests = 1
  MaxInFlight = 2
INVARIANTS MoneyFollowsItem HoldingLimitRespected WonGoalStands
PROPERTIES DecidedOnce LapsedGoalIsRefunded
CHECK_DEADLOCK FALSE
