SPECIFICATION Spec
CONSTANTS
  Schedules = {s1}
  Actions = {"fill", "teardown"}
  Intervals = {2}
  Hours = {1}
  DaySets = {{1}}
  Times = {3}
  DayLen = 2
  Grace = 2
  MaxTime = 4
  MaxEdits = 2
  MaxJobs = 1
  MaxRestarts = 1
  MaxFaults = 1
INVARIANTS
  TypeOK
  NextAfterIsEarliest
  SkippedAfterGrace
  RowsFireOnTime
PROPERTIES
  FiresArePaced
  DueIsDealtWith
\* Time, edits and jobs are bounded: nothing may be left to do.
CHECK_DEADLOCK FALSE
