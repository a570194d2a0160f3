SPECIFICATION Spec
CONSTANTS
  Envelope = {e1, e2}
  c1 = c1
  c2 = c2
  e1 = e1
  e2 = e2
  s1 = s1
  s2 = s2
  Elsewhere = {e2}
  Sender = {s1, s2}
  Main = main
  Client = {c1, c2}
  None = none
  PageLimit = 1
  KeepConnected = TRUE
  ReadyFirst = FALSE
  MaxCalls = 2
  MaxDrops = 1
  MaxRefusals = 0
  MaxCrashes = 1
SYMMETRY Symmetry
INVARIANT TypeOK
INVARIANT WriteAhead
INVARIANT OutboxIsTrue
INVARIANT EachCrashLosesOneEvent
INVARIANT PendingIsUnderWay
PROPERTY ReceiptsOnce
CHECK_DEADLOCK FALSE
