SPECIFICATION FairSpec
CONSTANTS
  r1 = r1
  r2 = r2
  Runs = {r1, r2}
  NoRun = NoRun
  BatchSize = 2
  FlushMode = "batch"
  ShortWrites = TRUE
  Methods = {"completeRun"}
  MaxEvents = 2
  MaxManifests = 1
INVARIANTS SingleHistory
PROPERTIES OperationsSettle CloseSettles
CHECK_DEADLOCK FALSE
