CONSTANTS
  Workers = {w1, w2}
  Sweeper = sweeper
  Null = null
  Seats <- MCSeats
  Keys <- CorrectionKeys
  Commands <- CorrectionCommands
  ProtectionEnabled = TRUE
  MaxFailures = 0
SYMMETRY WorkerSymmetry
SPECIFICATION Spec
INVARIANTS
  CompensationCapped
  SnapshotIsHistory
PROPERTIES
  ImplementsAtomicLedger
