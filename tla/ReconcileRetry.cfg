\* One deployment, one interruption: a repeated AddDisks.
SPECIFICATION Spec
CONSTANTS
  Deployments = {d1}
  Foreign = Foreign
  Nobody = Nobody
  Modes <- MCModes
  MaxVMs = 1
  Growing = {d1}
  MaxDisks = 2
  MaxGen = 1
  MaxFaults = 1
INVARIANT RetryAddsNothing
CHECK_DEADLOCK FALSE
