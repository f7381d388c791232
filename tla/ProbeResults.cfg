CONSTANTS
  w1 = w1
  w2 = w2
  Worker = {w1, w2}
  LeaseLength = 2
  Hour = 2
  RecentCap = 3
  RecentWindow = 2
  SuccessRetention = 1
  FailureRetention = 3
  CleanupBatchSize = 1
  CleanupMaxBatches = 2
  Cutoffs = {2, 3, 4}
  Legacy <- MCLegacy
  MaxTime = 6
  MaxClaims = 4
  MaxCleanups = 2
  MaxDerived = 1
  MaxRollups = 2
  ChunkHours = 1
SPECIFICATION Spec
SYMMETRY WorkerSymmetry
INVARIANTS
  TypeOK
  RecentMatchesHistory
  StateMatchesHistory
  RollupMatchesHistory
  RetainedRawKept
  LastResultIsNewest
  RollupNeverOvercounts
  RecentKeepsNewest
CHECK_DEADLOCK FALSE
