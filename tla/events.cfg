SPECIFICATION Spec
CONSTANTS
  p1 = p1
  s1 = s1
  Poller = {p1}
  Streamer = {s1}
  PlainSets = {{p1}, {s1}}
  PollLimit = 1
  StreamLimit = 2
  MaxRows = 2
  MaxForeign = 1
  MaxQueue = 1
  MaxFailures = 1
INVARIANT TypeOK
INVARIANT NoLostWakeup
PROPERTY ReadOnceInOrder
PROPERTY ArrivesUnlessKeyLost
CHECK_DEADLOCK FALSE
