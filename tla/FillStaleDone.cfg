CONSTANTS
  VMs = {v1}
  Runs = {r1, r2}
  NoRun = NoRun
  MaxParallel = 0
  Shutdown = FALSE
  MaxBootAttempts = 1
  MaxRestarts = 0
  MaxDeaths = 0
  MaxLost = 0
SPECIFICATION Spec
INVARIANT
  DoneMeansFinished
CHECK_DEADLOCK FALSE
