SPECIFICATION Spec
CONSTANTS
  Calls <- MCCalls
  Outputs = {"good", "fine"}
  Errors = {"bad"}
  Paths = {"p"}
  ChangedPath = "p"
  StateChanges <- MCStateChanges
  Recorded = {"good", "bad"}
  Harm = {"crash", "power", "lines", "run", "event", "content", "gone", "file"}
  Unrecorded <- MCUnrecorded
  Extents <- MCExtents
  MaxHarmed = 4
  RuleLists <- MCRuleLists
  ApprovalSets <- MCApprovalSets
  Workflows <- MCWorkflows
  Agents <- MCAgents
  Verifiers = {"v"}
  VerifierSideEffect <- MCVerifierSideEffect
  LiveAdapters <- MCLiveAdapters
  LiveAnswers = {"fine", "bad", "undefined"}
  Accepted <- MCAccepted
  Verdicts = {TRUE}
  GraphFilters <- MCGraphFilters
INVARIANTS
  SessionTypeOK
  EveryOperationAudited
  AuthorityIsCurrent
  ReportMeans
  CompletionVerified
  EligibleTraceIsWhole
  ReconstructionAgrees
  CompiledOrder
  GraphKeepsCausality
  MockReproducesSource
  VerifiedRepeatsSuffix
  ReplayIsReplayable
PROPERTIES
  ScheduleSpec
  ReplayEnds
CHECK_DEADLOCK FALSE
