----------------------------- MODULE MockReplay -----------------------------
(***************************************************************************)
(* MockReplayRunner.run(): the source's calls are answered with its own    *)
(* recorded results, and the replayed state must end as the source's did.  *)
(***************************************************************************)
EXTENDS TraceReplay

(* The caller may hand in a plan of calls; the source's is the default.    *)
NewMockRunner ==
  /\ plan' \in IF Executable
               THEN {SourceCalls(Events), SubSeq(SourceCalls(Events), 2, Len(SourceCalls(Events)))}
               ELSE {<<>>}
  /\ UNCHANGED <<resume, adapters, position, requests, halted, issues, differences>>

(* compareCallPlans(): position by position, kind, target, key, attempt    *)
(* and input.                                                              *)
PlanFaults ==
  {code \in {"CALL_PLAN_MISMATCH"} : plan # SourceCalls(Events)}

StartMock ==
  /\ LET faults == IF SourceFaults # {} THEN SourceFaults ELSE PlanFaults IN
     IF faults = {} THEN StartRun({{}}) /\ EnterLoop(0) /\ UNCHANGED adapters
     ELSE RefuseSource(faults)
  /\ UNCHANGED <<job, executed>>

(* executeRecordedCall(); a trace without schedule faults has a request    *)
(* and an adapter for every response.                                      *)
SubmitRecorded ==
  /\ AtEvent /\ Responded(Here)
  /\ \E adapter \in Resolve(RecordedAdapters(Events), CallFor(Here)) :
       job' = Submitted(CallAction("recorded", adapter.sideEffect), FALSE, requests[SourceRequest])
  /\ UNCHANGED <<rules, approved, runStatus, log, executed>> /\ UNCHANGED replayVars

OperateRecorded == Operate({RecordedOutcome(Events, SourceRequest)}) /\ UNCHANGED replayVars

(* Fault: the status of the source's response is not compared.             *)
MockAnsweredAnyhow ==
  /\ runStatus = "running" /\ job.step = "returned"
  /\ AppendResponse(job.outcome) /\ job' = Idle /\ position' = position + 1
  /\ issues' = issues \cup {code \in {"POLICY_BLOCKED"} : job.outcome = "blocked"}
  /\ UNCHANGED <<rules, approved, runStatus, executed>>
  /\ UNCHANGED <<plan, resume, adapters, requests, differences, halted>>

(* A blocked call is answered with a failure, and the loop goes on if the  *)
(* source has one there too.                                               *)
MockAnswered ==
  /\ runStatus = "running" /\ job.step = "returned"
  /\ AppendResponse(job.outcome) /\ job' = Idle
  /\ LET blocked == {code \in {"POLICY_BLOCKED"} : job.outcome = "blocked"} IN
     \/ /\ (job.outcome \in Outputs) = (Here.type = "completed")
        /\ position' = position + 1 /\ issues' = issues \cup blocked /\ UNCHANGED halted
     \/ /\ (job.outcome \in Outputs) # (Here.type = "completed")
        /\ halted' = TRUE /\ UNCHANGED position
        /\ issues' = issues \cup blocked \cup {"RECORDED_OUTCOME_MISMATCH"}
  /\ UNCHANGED <<rules, approved, runStatus, executed>>
  /\ UNCHANGED <<plan, resume, adapters, requests, differences>>

-----------------------------------------------------------------------------
SourceState == Reconstructed(Events, Checkpoints)
MirroredState == Reconstructed(log, {})

FailMock(code) ==
  EndRun("failed") /\ issues' = issues \cup {code}

FinishMock ==
  /\ LoopLeft
  /\ \/ issues # {} /\ EndRun("failed") /\ UNCHANGED issues
     \/ issues = {} /\ ~SourceState.ok /\ FailMock("SOURCE_ARTIFACT_INVALID")
     \/ issues = {} /\ SourceState.ok /\ SourceState.missed /\ FailMock("SOURCE_STATE_UNAVAILABLE")
     \/ /\ issues = {} /\ SourceState.ok /\ ~SourceState.missed /\ MirroredState.ok
        /\ \/ SourceState.state # MirroredState.state /\ FailMock("FINAL_STATE_MISMATCH")
           \/ /\ SourceState.state = MirroredState.state /\ runStatus' = "completed"
              /\ log' = log \o <<RunEvent("checkpoint.created", Latest),
                                 RunEvent("run.completed", {Len(log) + 1})>>
              /\ UNCHANGED issues
  /\ UNCHANGED <<rules, approved, job, executed>>
  /\ UNCHANGED <<plan, resume, adapters, position, requests, halted, differences>>

(* The replayed events do not make up a state: reconstructState() throws,  *)
(* and nothing ends the run.                                               *)
MirrorThrows ==
  /\ LoopLeft /\ issues = {} /\ SourceState.ok /\ ~SourceState.missed /\ ~MirroredState.ok
  /\ runStatus' = "rejected" /\ UNCHANGED <<rules, approved, log, job, executed>>
  /\ UNCHANGED replayVars

MockStep ==
  \/ StartMock \/ MirrorState \/ MirrorRequest \/ PassEvent \/ SubmitRecorded
  \/ RecordDecision /\ UNCHANGED replayVars
  \/ OperateRecorded \/ MockAnswered \/ FinishMock \/ MirrorThrows
=============================================================================
