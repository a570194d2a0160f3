SPECIFICATION Spec
CONSTANTS
  Task = {a, b}
  Capability = {"general", "mcp", "x"}
  MaxPrice = 2
  Configured <- MCConfigured
  Scenarios <- MCScenarios
  MaxDid = 3
INVARIANT TypeOK
INVARIANT AgreesOrPending
INVARIANT KeysKept
INVARIANT TokenServes
PROPERTY TornIsNotReplaced
PROPERTY OnlyAskedForChanges
PROPERTY RetriedUntilPublished
PROPERTY ResyncHeals
CHECK_DEADLOCK FALSE
