SPECIFICATION Spec
CONSTANTS
  Envelope = {e1}
  c1 = c1
  e1 = e1
  s1 = s1
  Elsewhere = {}
  Sender = {s1}
  Main = main
  Client = {c1}
  None = none
  PageLimit = 1
  KeepConnected = FALSE
  ReadyFirst = FALSE
  MaxCalls = 2
  MaxDrops = 0
  MaxRefusals = 0
  MaxCrashes = 1
PROPERTY NoDoubleSend
CHECK_DEADLOCK FALSE
