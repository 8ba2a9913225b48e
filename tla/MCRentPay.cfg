SPECIFICATION Spec
CONSTANTS
  alice = alice  r1 = r1  r2 = r2  p1 = p1  p2 = p2  w1 = w1  w2 = w2
  Seats = {alice}
  Terms <- TwoPolicies
  MaxCycles = 2
  MaxFees = 1
  Runs = {r1, r2}
  Payments = {p1, p2}
  Waivers = {}
  Bill <- FirstBill
  Asked <- AskTwo
  InitialFunds <- Short
  MaxTime = 2
  MaxTries = 2
  MaxToggles = 0
  MaxFailures = 0
CHECK_DEADLOCK FALSE
SYMMETRY RentSymmetry
INVARIANTS AssessedOnce BilledOnFrozenTerms NeverOverpaid SliceChargedOnce PerksLastTheirPeriod
