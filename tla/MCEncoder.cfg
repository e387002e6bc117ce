\* Batches of two, two of which may fall into one millisecond; two failures.
SPECIFICATION Spec
CONSTANTS
  BatchSize = 2
  MaxRows = 5
  MaxTime = 3
  MaxFailures = 2
INVARIANTS
  NothingLost
  RowsOnce
  ClosedComplete
CHECK_DEADLOCK FALSE
