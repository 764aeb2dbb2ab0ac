\* One deployment made by the operator and one made by adoption, two callers,
\* two runs over both, one restart.
CONSTANTS
  Deployments = {d1, a1}
  Adopted = {a1}
  Runs = {r1, r2}
  Requests = {q1, q2}
  Ops = {"deploy", "teardown", "adopt", "power-on", "initial-fill", "incremental"}
  NoDeployment = NoDeployment
  NoRun = NoRun
  MaxRestarts = 1

SPECIFICATION Spec

INVARIANTS
  TypeOK
  OneJobPerDeployment
  RunningRunHasJob
  SettledWhenIdle
PROPERTIES
  ImplementsLedger
  EveryRunEnds
  LockIsGivenBack

\* With its run identifiers used up an idle controller has nothing left to do.
CHECK_DEADLOCK FALSE
