SPECIFICATION Spec
CONSTANTS
  c1 = c1 s1 = s1 k1 = k1 k2 = k2
  Calls = {c1}
  SdkCalls = {s1}
  Streams = {s1}
  Checkpoints = {k1, k2}
  Agent = Agent
  Roots = {"instrument"}
  OtherRuns = {}
  MaxStarted = 2
  MaxRefused = 2
INVARIANTS FinalStateClaimed UnclaimedStateExplained
PROPERTIES RunSettles RecordingCatchesUp
CHECK_DEADLOCK FALSE
