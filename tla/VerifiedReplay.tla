--------------------------- MODULE VerifiedReplay ---------------------------
(***************************************************************************)
(* VerifiedReplayRunner.run(): the source's calls, from a checkpoint on if *)
(* the caller names one, are answered by live adapters, and what they say  *)
(* is compared with what was recorded.                                     *)
(***************************************************************************)
EXTENDS TraceReplay

CONSTANTS
  LiveAdapters,  \* sets of live adapters a caller may register
  LiveAnswers,   \* what a live adapter may come up with
  Accepted,      \* pairs of different values the verification rules accept
  Verdicts       \* whether the caller's assertions may hold, or fail

ASSUME VerifiedAssumption ==
  /\ \A set \in LiveAdapters : set \subseteq Adapter
  /\ LiveAnswers \subseteq Outputs \cup Errors \cup {"undefined"}
  /\ \A pair \in Accepted : pair \in Outputs \X Outputs \/ pair \in Errors \X Errors
  /\ Verdicts \subseteq BOOLEAN

NewVerifiedRunner ==
  /\ resume' \in 0..(Len(saved) + 1)
  /\ UNCHANGED <<plan, adapters, position, requests, halted, issues, differences>>

(* selectReplayResumePoint()                                               *)
ResumeFaults ==
  IF resume = 0 THEN {}
  ELSE IF resume > Len(saved) \/ (resume <= Len(saved) /\ saved[resume].damage = "file")
  THEN {"CHECKPOINT_NOT_FOUND"}
  ELSE {code \in {"CHECKPOINT_INVALID"} :
          \/ saved[resume].sequence \notin OnDisk
          \/ saved[resume].damage \in {"event", "hash", "content", "gone"}}
ResumeSequence == IF resume = 0 THEN 0 ELSE saved[resume].sequence
ResumeState == IF resume = 0 THEN EmptyState ELSE saved[resume].state

(* With a checkpoint, the new run starts with one of its own.              *)
StartVerified ==
  /\ runStatus = "none"
  /\ LET faults == IF ResumeFaults # {} THEN ResumeFaults ELSE SourceFaults IN
     IF faults # {} THEN RefuseSource(faults)
     ELSE /\ EnterLoop(ResumeSequence) /\ runStatus' = "running"
          /\ Configure(ApprovalSets) /\ adapters' \in LiveAdapters
          /\ log' = IF resume = 0 THEN <<RunEvent("run.started", {})>>
                    ELSE <<RunEvent("run.started", {}), RunEvent("checkpoint.created", {1})>>
  /\ UNCHANGED <<job, executed>>

(* invokeLive()                                                            *)
SubmitLive ==
  /\ AtEvent /\ Responded(Here)
  /\ LET able == Resolve(adapters, CallFor(Here)) IN
     \/ /\ requests[SourceRequest] = 0 /\ Halt("CHECKPOINT_CUTS_ACTIVE_CALL") /\ UNCHANGED job
     \/ /\ requests[SourceRequest] # 0 /\ able = {}
        /\ Halt("MISSING_LIVE_ADAPTER") /\ UNCHANGED job
     \/ /\ requests[SourceRequest] # 0 /\ UNCHANGED <<position, halted, issues>>
        /\ \E adapter \in able :
             job' = Submitted(CallAction("live", adapter.sideEffect), FALSE,
                              requests[SourceRequest])
  /\ UNCHANGED <<rules, approved, runStatus, log, executed>>
  /\ UNCHANGED <<plan, resume, adapters, requests, differences>>

(* An adapter that throws has failed, one that returns nothing counts as   *)
(* blocked.                                                                *)
OperateLive == Operate(LiveAnswers) /\ UNCHANGED replayVars
Refused == job.outcome \in {"blocked", "undefined"}
Answer == IF Refused THEN "blocked" ELSE job.outcome

(* compareOutcomes(): values under the verification rules, and the         *)
(* caller's assertions, which are asked when the status is the same.       *)
SameStatus(expected, actual) == (expected \in Outputs) = (actual \in Outputs)
Alike(expected, actual) == expected = actual \/ <<expected, actual>> \in Accepted

LiveAnswered ==
  /\ runStatus = "running" /\ job.step = "returned"
  /\ AppendResponse(Answer) /\ job' = Idle
  /\ position' = position + 1
  /\ issues' = issues \cup {code \in {"POLICY_BLOCKED"} : Refused}
  /\ LET expected == RecordedOutcome(Events, SourceRequest) IN
     \E holds \in Verdicts :
       differences' = differences \cup
         {i \in {position} : \/ ~SameStatus(expected, Answer) \/ ~Alike(expected, Answer)
                             \/ ~holds}
  /\ UNCHANGED <<rules, approved, runStatus, executed>>
  /\ UNCHANGED <<plan, resume, adapters, requests, halted>>

RecordedState ==
  Reconstructed(log, IF resume = 0 THEN {}
                     ELSE {[sequence |-> 1, state |-> ResumeState, damage |-> "none"]})

FinishVerified ==
  /\ LoopLeft
  /\ \/ issues # {} /\ EndRun("failed")
     \/ issues = {} /\ RecordedState.ok /\ EndRun("completed")
     \/ issues = {} /\ ~RecordedState.ok /\ runStatus' = "rejected" /\ UNCHANGED log
  /\ UNCHANGED <<rules, approved, job, executed>> /\ UNCHANGED replayVars

VerifiedStep ==
  \/ StartVerified \/ MirrorState \/ MirrorRequest \/ PassEvent \/ SubmitLive
  \/ RecordDecision /\ UNCHANGED replayVars
  \/ OperateLive \/ LiveAnswered \/ FinishVerified
=============================================================================
