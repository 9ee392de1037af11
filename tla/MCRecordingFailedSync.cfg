SPECIFICATION Spec
CONSTANTS
  r1 = r1
  Runs = {r1}
  NoRun = NoRun
  BatchSize = 1
  FlushMode = "event"
  ShortWrites = FALSE
  Methods = {"appendEvent", "completeRun"}
  MaxEvents = 3
  MaxManifests = 0
INVARIANTS RejectedEventsAreNotOnDisk
CHECK_DEADLOCK FALSE
