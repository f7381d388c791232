\* The constants of the code, in units of ten seconds.
CONSTANTS
  Config = {c1, c2, c3, c4, c5, c6}
  Worker = {w1}
  Timeout = {1}
  Jitter <- MCNoJitter
  Interval = 30
  MinLease = 6
  DefaultTimeout = 1
  BatchSize = 16
  MaxTime = 7
  MaxClaims = 1
  MaxCrashes = 0
  Horizon = 0
SPECIFICATION TimedSpec
SYMMETRY ConfigSymmetry
PROPERTIES
  EachRunWritesARow
CHECK_DEADLOCK FALSE
