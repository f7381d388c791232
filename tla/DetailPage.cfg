CONSTANTS
  s1 = s1
  Shown = s1
  HoursPerDay = 1
  DaysPerWeek = 2
  SixMonths = 8
  Lag = 1
  MaxTime = 13
  MaxReports = 1
  MaxProbes = 2
  Bars = 3
  WindowDays = 3
  TimelineLimit = 1
  MaxIncidents = 1
SPECIFICATION Spec
INVARIANTS
  TypeOK
  MaturesWithAge
  PastOutagesStay
  PageAgrees
PROPERTIES
  RefreshIsComplete
CHECK_DEADLOCK FALSE
