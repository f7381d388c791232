CONSTANTS
  s1 = s1
  s2 = s2
  r1 = r1
  w1 = w1
  t1 = t1
  Service = {s1, s2}
  Request = {r1}
  Refresher = {w1}
  Tracker = {t1}
  ReportWindow = 3
  BaselineOf <- MCBaseline
  MaxTime = 5
  MaxReports = 1
  MaxEdits = 1
  MaxFaults = 1
  ClockStops = FALSE
SPECIFICATION Spec
INVARIANTS
  TypeOK
  AckedReportIsCounted
PROPERTIES
  IncidentLogKept
CHECK_DEADLOCK FALSE
