CONSTANTS
  VMs = {v1}
  Runs = {r1}
  NoRun = NoRun
  MaxParallel = 1
  Shutdown = TRUE
  MaxBootAttempts = 2
  MaxRestarts = 1
  MaxDeaths = 1
  MaxLost = 1
SPECIFICATION Spec
PROPERTIES
  EveryFillEnds
CHECK_DEADLOCK FALSE
