SPECIFICATION Spec
CONSTANTS
  Envelope = {e1, e2}
  c1 = c1
  c2 = c2
  e1 = e1
  e2 = e2
  Elsewhere = {e1, e2}
  Sender = {}
  Main = main
  Client = {c1, c2}
  None = none
  PageLimit = 1
  KeepConnected = TRUE
  ReadyFirst = FALSE
  MaxCalls = 0
  MaxDrops = 0
  MaxRefusals = 0
  MaxCrashes = 1
INVARIANT NothingMissed
CHECK_DEADLOCK FALSE
