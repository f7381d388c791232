CONSTANTS
  c1 = c1
  c2 = c2
  w1 = w1
  w2 = w2
  Config = {c1}
  Worker = {w1, w2}
  Timeout = {1}
  Jitter <- MCJitter
  Interval = 2
  MinLease = 2
  DefaultTimeout = 1
  BatchSize = 1
  MaxTime = 5
  MaxClaims = 3
  MaxCrashes = 1
SPECIFICATION Spec
SYMMETRY WorkerSymmetry
INVARIANTS
  TypeOK
  OneRowPerSlot
  RowsInClaimOrder
  RevokedNeverRecorded
  NoReclaimInSweep
PROPERTIES
  PhaseKept
CHECK_DEADLOCK FALSE
