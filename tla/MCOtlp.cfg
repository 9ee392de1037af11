SPECIFICATION FairSpec
CONSTANTS
  e1 = e1
  Exporters = {e1}
  NoOne = NoOne
  Takeover = "never"
  MaxBatches = 2
  MaxAttempts = 2
  MaxEntries = 1
INVARIANTS TypeOK LockHeld OnlyQueuedBatchesAreSent
PROPERTIES OutboxSpec ExportEnds FlushEnds
CHECK_DEADLOCK FALSE
