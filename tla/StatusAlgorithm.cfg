CONSTANTS
  MaxReports = 16
  Means = {0, 12, 80}
  StdDevs = {0, 25}
  Weeks = {0, 4}
  Rates = {0, 12, 30, 45}
  Samples = {19, 20}
SPECIFICATION Spec
INVARIANTS
  OutageNeedsReports
PROPERTIES
  WorseNeverMilder
CHECK_DEADLOCK FALSE
