\* The original and two copies, two adoptions, one teardown, one upset.
CONSTANTS
  MaxCopies = 2
  MaxRequests = 2
  Original = d0
  None = None
  MaxTeardowns = 1
  MaxUpsets = 1
SPECIFICATION Spec
INVARIANTS
  TypeOK
  OneRecordPerMachine
  RowReadsItsOwnDisks
  JoinsAreCounted
\* The restores and the operator's calls are bounded.
CHECK_DEADLOCK FALSE
