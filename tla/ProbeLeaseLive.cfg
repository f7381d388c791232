CONSTANTS
  Config = {c1, c2}
  Worker = {w1}
  Timeout = {1}
  Jitter <- MCNoJitter
  Interval = 4
  MinLease = 2
  DefaultTimeout = 1
  BatchSize = 1
  MaxTime = 10
  MaxClaims = 6
  MaxCrashes = 1
  Horizon = 4
SPECIFICATION TimedSpec
PROPERTIES
  DueRunIsRecorded
  SweepEnds
CHECK_DEADLOCK FALSE
