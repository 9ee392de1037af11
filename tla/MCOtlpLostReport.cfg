SPECIFICATION Spec
CONSTANTS
  e1 = e1
  Exporters = {e1}
  NoOne = NoOne
  Takeover = "never"
  MaxBatches = 2
  MaxAttempts = 1
  MaxEntries = 2
PROPERTIES FailuresObservable
CHECK_DEADLOCK FALSE
