SPECIFICATION Spec
CONSTANTS
  a = a
  b = b
  Process = {a, b}
  Message = {1, 2}
  Scenarios <- MCScenarios
  MaxStarts = 2
  MaxJoins = 2
  MaxFaults = 2
  MaxReceipts = 1
  MaxKeyLosses = 1
INVARIANT TypeOK
INVARIANT OncePerProcess
INVARIANT NothingLeftLying
INVARIANT RowsUnderKey
PROPERTY ForgottenOnlyWhenKept
PROPERTY ReceiptCursorKept
PROPERTY AnnouncedUnlessKeyTorn
CHECK_DEADLOCK FALSE
