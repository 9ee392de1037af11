SPECIFICATION Spec
CONSTANTS
  e1 = e1
  Exporters = {e1}
  NoOne = NoOne
  Takeover = "any"
  MaxBatches = 2
  MaxAttempts = 1
  MaxEntries = 1
INVARIANTS NoSilentLoss
CHECK_DEADLOCK FALSE
