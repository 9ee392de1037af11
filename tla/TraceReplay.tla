---------------------------- MODULE TraceReplay ----------------------------
(***************************************************************************)
(* What the mock and the verified runner share: they walk the events of a  *)
(* source trace in order, append its state changes and requests to a run   *)
(* of their own and, at each response, have the call answered again.       *)
(***************************************************************************)
EXTENDS ReplayPolicy, RecordedResults, TraceSnapshot

VARIABLES
  plan,         \* MockReplayOptions.calls
  resume,       \* VerifiedReplayRunOptions.checkpointId: 0, or an index into saved
  adapters,     \* live adapters of the registry
  position,     \* of the source event the loop is at
  requests,     \* per source request: its copy in log, or 0
  halted,       \* the loop was left by break
  issues,       \* codes of the runner's diagnostics
  differences   \* source responses whose live answer differs

replayVars == <<plan, resume, adapters, position, requests, halted, issues, differences>>

ReplayCodes ==
  {"SOURCE_TRACE_INVALID", "SOURCE_TRACE_OBSERVATION_ONLY", "INVALID_REQUEST",
   "INVALID_RESPONSE", "MISSING_RESPONSE", "CALL_PLAN_MISMATCH", "CHECKPOINT_NOT_FOUND",
   "CHECKPOINT_INVALID", "CHECKPOINT_CUTS_ACTIVE_CALL", "MISSING_LIVE_ADAPTER",
   "POLICY_BLOCKED", "SOURCE_ARTIFACT_INVALID", "SOURCE_STATE_UNAVAILABLE",
   "RECORDED_OUTCOME_MISMATCH", "FINAL_STATE_MISMATCH"}

ReplayTypeOK ==
  /\ plan \in Seq([call : Calls, attempt : Nat, input : Values]) /\ resume \in Nat
  /\ adapters \subseteq Adapter /\ position \in Nat \ {0}
  /\ requests \in Seq(Nat) /\ halted \in BOOLEAN
  /\ issues \subseteq ReplayCodes /\ differences \subseteq Nat

ReplayInit ==
  /\ plan = <<>> /\ resume = 0 /\ adapters = {} /\ position = 1 /\ requests = <<>>
  /\ halted = FALSE /\ issues = {} /\ differences = {}

SourceFaults ==
  {code \in {"SOURCE_TRACE_INVALID"} : ~Valid}
  \cup {code \in {"SOURCE_TRACE_OBSERVATION_ONLY"} : ObservationOnly}
  \cup (IF Valid THEN ScheduleFaults(Events) ELSE {})

(* Fault: the event the checkpoint pins is replayed once more.             *)
EnterLoopAtCheckpoint(from) ==
  /\ position' = (IF from = 0 THEN 1 ELSE from) /\ requests' = [i \in DOMAIN Events |-> 0]
  /\ UNCHANGED <<plan, resume, halted, issues, differences>>

(* The loop starts behind sequence from.                                   *)
EnterLoop(from) ==
  /\ position' = from + 1 /\ requests' = [i \in DOMAIN Events |-> 0]
  /\ UNCHANGED <<plan, resume, halted, issues, differences>>

RefuseSource(faults) ==
  /\ FailAtStart /\ issues' = faults
  /\ UNCHANGED <<plan, resume, adapters, position, requests, halted, differences>>

-----------------------------------------------------------------------------
AtEvent == runStatus = "running" /\ job.step = "idle" /\ ~halted /\ position <= Len(Events)
Here == Events[position]
SourceRequest == RequestFor(Events, position)
Halt(code) == halted' = TRUE /\ issues' = issues \cup {code} /\ UNCHANGED position
Advance == position' = position + 1 /\ UNCHANGED <<halted, issues>>

(* The payload is copied, out of its artifact if need be.                  *)
MirrorState ==
  /\ AtEvent /\ Here.type = "state.changed"
  /\ \/ Here.value = "lost" /\ Halt("SOURCE_ARTIFACT_INVALID") /\ UNCHANGED log
     \/ /\ Here.value # "lost" /\ Advance
        /\ log' = Append(log, StateEvent(Here.kind, Here.key, Here.value, Latest))
  /\ UNCHANGED <<rules, approved, runStatus, job, executed>>
  /\ UNCHANGED <<plan, resume, adapters, requests, differences>>

MirrorRequest ==
  /\ AtEvent /\ ReplayableCall(Here) /\ Advance
  /\ log' = Append(log, CallEvent("requested", CallFor(Here), Here.value, Latest))
  /\ requests' = [requests EXCEPT ![position] = Len(log) + 1]
  /\ UNCHANGED <<rules, approved, runStatus, job, executed>>
  /\ UNCHANGED <<plan, resume, adapters, differences>>

PassEvent ==
  /\ AtEvent /\ ~Requested(Here) /\ ~Responded(Here) /\ Here.type # "state.changed" /\ Advance
  /\ UNCHANGED policyVars
  /\ UNCHANGED <<plan, resume, adapters, requests, differences>>

CallAction(mode, sideEffect) ==
  LET call == CallFor(Here) IN
  [mode |-> mode, kind |-> call.kind, target |-> call.target, sideEffect |-> sideEffect,
   key |-> call.key, attempt |-> AttemptAt(Events, SourceRequest)]

(* Fault: the new run repeats what the source says.                        *)
AppendResponseOfSource(value) ==
  LET recorded == RecordedOutcome(Events, SourceRequest) IN
  log' = Append(log, CallEvent(IF recorded \in Outputs THEN "completed" ELSE "failed",
                               CallFor(Here), recorded, {job.request}))

(* The response in the new run hangs on the request in the new run.        *)
AppendResponse(value) ==
  log' = Append(log, CallEvent(IF value \in Outputs THEN "completed" ELSE "failed",
                               CallFor(Here), value, {job.request}))

LoopLeft == runStatus = "running" /\ job.step = "idle" /\ (halted \/ position > Len(Events))

(* An append that the recorder refuses rejects run().                      *)
AppendRefused ==
  /\ \/ job.step \in {"deciding", "returned"} \/ LoopLeft
     \/ AtEvent /\ (Requested(Here) \/ Here.type = "state.changed")
  /\ RecorderRefuses /\ UNCHANGED replayVars
=============================================================================
