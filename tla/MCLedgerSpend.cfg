SPECIFICATION FairSpec
CONSTANTS
  Workers = {w1, w2}
  Sweeper = sweeper
  Null = null
  Seats <- OneSeat
  Keys <- SpendKeys
  Commands <- SpendCommands
  ProtectionEnabled = TRUE
  MaxFailures = 1
INVARIANTS
  ExactlyOnce
PROPERTIES
  ImplementsAtomicLedger
  EffectsPost
  CommandsFinish
