SPECIFICATION Spec
CONSTANTS
  e1 = e1
  e2 = e2
  Exporters = {e1, e2}
  NoOne = NoOne
  Takeover = "abandoned"
  MaxBatches = 1
  MaxAttempts = 1
  MaxEntries = 1
SYMMETRY Symmetry
INVARIANTS OneConsumer
CHECK_DEADLOCK FALSE
