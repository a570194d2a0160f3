SPECIFICATION Spec
CONSTANTS
  Envelope = {e1}
  c1 = c1
  e1 = e1
  Elsewhere = {e1}
  Sender = {}
  Main = main
  Client = {c1}
  None = none
  PageLimit = 1
  KeepConnected = FALSE
  ReadyFirst = FALSE
  MaxCalls = 0
  MaxDrops = 0
  MaxRefusals = 0
  MaxCrashes = 1
INVARIANT RecordedIsPublished
CHECK_DEADLOCK FALSE
