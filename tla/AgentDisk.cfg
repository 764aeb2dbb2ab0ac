SPECIFICATION Spec
CONSTANTS
  NDisks = 2
  GlobalFiles = 1
  LocalFiles = 2
  ChangePercent = 30
  GrowthPercent = 50
  MaxRuns = 2
  MaxCrashes = 1
  MaxFaults = 1
INVARIANTS TypeOK DoneVerifies DoneMeansWritten
PROPERTIES FilledReportIsTrue
\* The deployment's runs are bounded: after the last one nothing is left to do.
CHECK_DEADLOCK FALSE
