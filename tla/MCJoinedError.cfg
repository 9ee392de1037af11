SPECIFICATION Spec
CONSTANTS
  c1 = c1 s1 = s1 k1 = k1 
  Calls = {c1}
  SdkCalls = {s1}
  Streams = {s1}
  Checkpoints = {k1}
  Agent = Agent
  Roots = {"best-effort"}
  OtherRuns = {}
  MaxStarted = 2
  MaxRefused = 1
INVARIANTS JoinedErrorKept
CHECK_DEADLOCK FALSE
