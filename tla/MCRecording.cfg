SPECIFICATION Spec
CONSTANTS
  r1 = r1
  r2 = r2
  Runs = {r1, r2}
  NoRun = NoRun
  FlushMode = "event"
  BatchSize = 2
  ShortWrites = FALSE
  Methods = {"checkpoint", "failRun"}
  MaxEvents = 3
  MaxManifests = 1
SYMMETRY Symmetry
INVARIANTS TypeOK LogAgreement WellFormedLog CheckpointFilesBacked FinishedInspectionIsComplete
PROPERTIES SealedForever FenceHolds StoreSpec
CHECK_DEADLOCK FALSE
