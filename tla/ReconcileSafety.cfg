\* Two deployments and unowned VMs compete for two names; one call fails or the
\* controller restarts once.  d1 can also ask for a second disk per VM.
SPECIFICATION Spec
CONSTANTS
  Deployments = {d1, d2}
  Foreign = Foreign
  Nobody = Nobody
  Modes <- MCModes
  MaxVMs = 2
  Growing = {d1}
  MaxDisks = 2
  MaxGen = 2
  MaxFaults = 1
INVARIANTS
  TypeOK
  ReadyMeansNoOrphans
PROPERTIES
  ForeignSpared
  CleanSparesRecorded
  DeployDelivers
  RecordsOutliveVMs
\* Once every deployment is deleted nothing is left to do.
CHECK_DEADLOCK FALSE
