SPECIFICATION FairSpec
CONSTANTS
  alice = alice  r1 = r1  r2 = r2  p1 = p1  p2 = p2  w1 = w1  w2 = w2
  Seats = {alice}
  Terms <- InParts
  MaxCycles = 2
  MaxFees = 1
  Runs = {r1}
  Payments = {p1}
  Waivers = {w1}
  Bill <- SecondBill
  Asked <- AskTwo
  InitialFunds <- Rich
  MaxTime = 2
  MaxTries = 2
  MaxToggles = 2
  MaxFailures = 1
CHECK_DEADLOCK FALSE
INVARIANTS PaidNeverWithdrawn NoFeeOnWithdrawn PerksEarned
PROPERTIES RosterBilled
