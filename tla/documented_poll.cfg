SPECIFICATION Spec
CONSTANTS
  Task = {a, b}
  Message = {1, 2}
  Amount = {1, 2}
  Limit = {1, 2}
  Scenarios <- Skewed
  MaxTime = 2
  MaxTaken = 3
  MaxFaults = 1
INVARIANT LaterEntriesAreFound
CHECK_DEADLOCK FALSE
