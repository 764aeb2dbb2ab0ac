\* The same without the teardown.
CONSTANTS
  MaxCopies = 2
  MaxRequests = 2
  Original = d0
  None = None
  MaxTeardowns = 0
  MaxUpsets = 1
SPECIFICATION Spec
PROPERTY AdoptedComesUp
\* The restores and the operator's calls are bounded.
CHECK_DEADLOCK FALSE
