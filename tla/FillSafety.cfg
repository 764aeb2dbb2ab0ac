CONSTANTS
  VMs = {v1, v2}
  Runs = {r1}
  NoRun = NoRun
  MaxParallel = 1
  Shutdown = FALSE
  MaxBootAttempts = 1
  MaxRestarts = 1
  MaxDeaths = 0
  MaxLost = 0
SPECIFICATION Spec
SYMMETRY Symmetry
INVARIANTS
  TypeOK
  StaggerHolds
  SucceededMeansWritten
  SucceededMeansQuiet
CHECK_DEADLOCK FALSE
