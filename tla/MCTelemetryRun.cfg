SPECIFICATION Spec
CONSTANTS
  c1 = c1 s1 = s1 r1 = r1
  Calls = {c1}
  SdkCalls = {s1}
  Streams = {s1}
  Checkpoints = {}
  Agent = Agent
  Roots = {"strict", "best-effort"}
  OtherRuns = {r1}
  MaxStarted = 2
  MaxRefused = 1
INVARIANTS FinishedManifestIsFinal CompleteEvidence AnswerKept ShutdownAfterRuns
CHECK_DEADLOCK FALSE
