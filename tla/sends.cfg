SPECIFICATION FairSpec
CONSTANTS
  Envelope = {e1}
  c1 = c1
  c2 = c2
  c3 = c3
  e1 = e1
  s1 = s1
  s2 = s2
  Elsewhere = {}
  Sender = {s1, s2}
  Main = main
  Client = {c1, c2, c3}
  None = none
  PageLimit = 1
  KeepConnected = FALSE
  ReadyFirst = TRUE
  MaxCalls = 2
  MaxDrops = 1
  MaxRefusals = 1
  MaxCrashes = 0
INVARIANT AwaitsAndRepliesMatch
PROPERTY SendSettlesUnlessHung
CHECK_DEADLOCK FALSE
