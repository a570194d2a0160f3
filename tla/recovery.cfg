SPECIFICATION FairSpec
CONSTANTS
  Envelope = {e1, e2}
  c1 = c1
  c2 = c2
  c3 = c3
  e1 = e1
  e2 = e2
  Elsewhere = {e1, e2}
  Sender = {}
  Main = main
  Client = {c1, c2, c3}
  None = none
  PageLimit = 1
  KeepConnected = TRUE
  ReadyFirst = FALSE
  MaxCalls = 0
  MaxDrops = 2
  MaxRefusals = 1
  MaxCrashes = 0
INVARIANT NothingMissedUnbroken
INVARIANT RecordedIsPublished
INVARIANT NoOrphanSocket
PROPERTY ReceiptsRecordedUnlessHung
PROPERTY ReconnectsUnlessHung
CHECK_DEADLOCK FALSE
