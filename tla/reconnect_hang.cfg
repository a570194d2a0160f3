SPECIFICATION FairSpec
CONSTANTS
  Envelope = {}
  c1 = c1
  c2 = c2
  Elsewhere = {}
  Sender = {}
  Main = main
  Client = {c1, c2}
  None = none
  PageLimit = 1
  KeepConnected = TRUE
  ReadyFirst = FALSE
  MaxCalls = 0
  MaxDrops = 2
  MaxRefusals = 0
  MaxCrashes = 0
PROPERTY AutoReconnects
CHECK_DEADLOCK FALSE
