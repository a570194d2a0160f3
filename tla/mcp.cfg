SPECIFICATION Spec
CONSTANTS
  Task = {a, b}
  Message = {1, 2}
  Amount = {1, 2}
  Limit = {1, 2}
  Scenarios <- MCScenarios
  MaxTime = 2
  MaxTaken = 3
  MaxFaults = 1
INVARIANT TypeOK
INVARIANT OneSocket
INVARIANT OnlyTiesLeftBehind
INVARIANT ResolvesIfAnySourceHasIt
INVARIANT PaidOnceAsOffered
PROPERTY BufferIsMailbox
PROPERTY HandedInTheEnd
PROPERTY SettlesUnlessCut
CHECK_DEADLOCK FALSE
