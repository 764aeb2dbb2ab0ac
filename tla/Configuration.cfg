SPECIFICATION Spec
CONSTANTS
  Connections = {c1}
  Profiles = {p1}
  Deployments = {d1}
  Requests = {q1, q2}
  Specs <- MCSpecs
  MaxVMs = 2
  GiB = 4
  KB = 3
  None = None
  MaxVersions = 2
  MaxCalls = 5
  MaxRestarts = 1
INVARIANTS TypeOK SpecOfItsVersion FleetWithinSpec ActiveKeepsProfile RateCapHolds OrdersMeetEstimate
\* Identifiers and calls are used up.
CHECK_DEADLOCK FALSE
