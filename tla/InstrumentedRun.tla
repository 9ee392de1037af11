--------------------------- MODULE InstrumentedRun ---------------------------
(***************************************************************************)
(* One recorded run from its start to the answer its caller gets: a        *)
(* callback run by instrument().run() or by telemetry.run(), which end it  *)
(* the same way: wait a bounded time for the work the callback left        *)
(* behind, record how the run ended, commit the manifest, hand the         *)
(* snapshot to the exporters, close the writer.  Inside telemetry.run() an *)
(* instrument().run() joins that run instead of starting another.  The     *)
(* controller has other runs under way, and may be shut down at any time.  *)
(***************************************************************************)
EXTENDS RunWork

CONSTANTS
  MaxStarted,  \* bound: of Work, how many the program ever starts
  OtherRuns    \* other runs of the controller

ASSUME RunAssumption == "joinedRun" \notin Work /\ Agent \notin OtherRuns

VARIABLES
  rootStep,      \* how far runRoot() or runInternal() is
  rootResult,    \* how the callback settled
  rootAnswer,    \* how the promise of run() settled
  joinedStep,    \* how far runJoined() is, "none" without one
  joinedResult, joinedAnswer,
  claimed,       \* the checkpoint whose hash run.completed carries, or "none"
  manifest,      \* manifest.json
  exported,      \* exportSnapshot() has been called
  activeRuns,    \* Controller.activeRuns, this run being Agent
  shutdownStep,  \* how far shutdown() is, "none" until it is called
  awaited,       \* the runs it waits for
  inTime,        \* history: what started while the run had something to wait for
  undisturbed    \* history: the callback left no checkpoint behind, and nothing has
                 \* started since

recordingVars == <<recorderVars, root, workVars>>
rootVars == <<rootStep, rootResult, rootAnswer>>
joinedVars == <<joinedStep, joinedResult, joinedAnswer>>
controllerVars == <<activeRuns, shutdownStep, awaited>>
storeVars == <<claimed, manifest, exported, controllerVars>>
historyVars == <<inTime, undisturbed>>
runVars == <<rootVars, joinedVars, storeVars, historyVars>>
vars == <<recordingVars, runVars>>

Telemetry == root # "instrument"
Results == {"none", "ok", "threw"}
NoManifest == [status |-> "none", completeness |-> "partial", limitations |-> {}]
CurrentManifest ==
  [status |-> status, completeness |-> completeness, limitations |-> limitations]

TypeOK ==
  /\ WorkTypeOK
  /\ rootStep \in {"uncalled", "starting", "unrecorded", "callback", "draining", "tracked",
                   "drained", "timedOut", "ending", "committing", "closing", "settled"}
  /\ joinedStep \in {"none", "callback", "draining", "drained", "timedOut", "settled"}
  /\ {rootResult, rootAnswer, joinedResult, joinedAnswer} \subseteq Results
  /\ claimed \in Checkpoints \cup {"none"}
  /\ manifest \in [status : {"none", "running"} \cup TerminalStatus,
                   completeness : {"complete", "partial"}, limitations : SUBSET Limitations]
  /\ exported \in BOOLEAN /\ undisturbed \in BOOLEAN
  /\ activeRuns \subseteq {Agent} \cup OtherRuns /\ awaited \subseteq {Agent} \cup OtherRuns
  /\ shutdownStep \in {"none", "awaiting", "exporting", "released"}
  /\ inTime \subseteq Work \cup {"joinedRun"}

Init ==
  /\ WorkInit
  /\ rootStep = "uncalled" /\ joinedStep = "none"
  /\ rootResult = "none" /\ rootAnswer = "none"
  /\ joinedResult = "none" /\ joinedAnswer = "none"
  /\ claimed = "none"
  /\ manifest = NoManifest
  /\ exported = FALSE
  /\ activeRuns = {} /\ shutdownStep = "none" /\ awaited = {}
  /\ inTime = {} /\ undisturbed = TRUE

-----------------------------------------------------------------------------
Pending == Unsettled(Calls)
(* Fault: a joined run is not tracked.                                     *)
TrackedSdkCalls == Unsettled(SdkCalls)
Tracked ==
  Unsettled(SdkCalls)
  \cup (IF joinedStep \in {"none", "settled"} THEN {} ELSE {"joinedRun"})

(* w starts while a callback that the run waits for is running, or while   *)
(* the run has to wait for a call that started so.                         *)
Attended(w) ==
  \/ rootStep = "callback" /\ ~(Telemetry /\ w \in Calls)
  \/ "joinedRun" \in inTime /\ joinedStep = "callback"
  \/ Unsettled(inTime \cap (IF Telemetry /\ w \in Calls THEN Calls ELSE Calls \cup SdkCalls)) # {}
Started(w) ==
  /\ inTime' = IF Attended(w) THEN inTime \cup {w} ELSE inTime
  /\ undisturbed' = (undisturbed /\ rootStep = "callback")

Recorded == manifest # NoManifest
HasContext == IF Telemetry THEN joinedStep # "none" ELSE Recorded

WorkStarts(w) ==
  /\ Cardinality({v \in Work : work[v].step # "idle"}) < MaxStarted
  /\ \/ w \in Calls /\ HasContext /\ StartCall(w)
     \/ w \in Checkpoints /\ HasContext /\ StartCheckpoint(w)
     \/ w \in SdkCalls /\ Recorded /\ shutdownStep # "released" /\ StartSdkCall(w)
  /\ Started(w)
  /\ UNCHANGED <<rootVars, joinedVars, storeVars>>

WorkAdvances(w) == WorkProceeds(w) /\ UNCHANGED runVars

WorkEnds(w) == (CallEnds(w) \/ StreamEndsEarly(w)) /\ UNCHANGED runVars

-----------------------------------------------------------------------------
(* Fault: `closed` is set once the runs have settled.                      *)
AdmitsUntilExporting == shutdownStep \in {"none", "awaiting"}
Admits == shutdownStep = "none"

(* run(): the controller keeps the promise until some time after it has    *)
(* settled.                                                                *)
RunCalled ==
  /\ rootStep = "uncalled"
  /\ IF Admits
       THEN /\ rootStep' = "starting" /\ UNCHANGED rootAnswer
            /\ activeRuns' = IF Telemetry THEN activeRuns \cup {Agent} ELSE activeRuns
       ELSE rootStep' = "settled" /\ rootAnswer' = "threw" /\ UNCHANGED activeRuns
  /\ UNCHANGED <<recordingVars, rootResult, joinedVars, claimed, manifest, exported,
                 shutdownStep, awaited, historyVars>>

RunForgotten ==
  /\ rootStep = "settled" /\ Agent \in activeRuns
  /\ activeRuns' = activeRuns \ {Agent}
  /\ UNCHANGED <<recordingVars, rootVars, joinedVars, claimed, manifest, exported,
                 shutdownStep, awaited, historyVars>>

OtherRun(r) ==
  /\ \/ Telemetry /\ Admits /\ activeRuns' = activeRuns \cup {r}
     \/ activeRuns' = activeRuns \ {r}
  /\ UNCHANGED <<recordingVars, rootVars, joinedVars, claimed, manifest, exported,
                 shutdownStep, awaited, historyVars>>

(* createRun(), startRun(): a controller's runs are partial from the start.*)
RunStarts ==
  /\ rootStep = "starting" /\ rootStep' = "callback"
  /\ status' = "running" /\ writerOpen' = TRUE
  /\ completeness' = IF Telemetry THEN "partial" ELSE "complete"
  /\ limitations' = IF Telemetry THEN {"final_state_unavailable"} ELSE {}
  /\ log' = <<Entry("run.started", Agent)>>
  /\ manifest' = [status |-> "running", completeness |-> "partial", limitations |-> limitations']
  /\ UNCHANGED <<root, queue, workVars, rootResult, rootAnswer, joinedVars,
                 claimed, exported, controllerVars, historyVars>>

(* Only best-effort telemetry runs a callback that it cannot record.       *)
RunCannotStart ==
  /\ rootStep = "starting"
  /\ \/ root = "best-effort" /\ rootStep' = "unrecorded" /\ UNCHANGED rootAnswer
     \/ root # "best-effort" /\ rootStep' = "settled" /\ rootAnswer' = "threw"
  /\ UNCHANGED <<recordingVars, rootResult, joinedVars, storeVars, historyVars>>

UnrecordedReturns ==
  /\ rootStep = "unrecorded" /\ rootStep' = "settled"
  /\ rootResult' \in {"ok", "threw"}
  /\ rootAnswer' = rootResult'
  /\ UNCHANGED <<recordingVars, joinedVars, storeVars, historyVars>>

CallbackReturns ==
  /\ rootStep = "callback"
  /\ rootStep' = IF Telemetry THEN "tracked" ELSE "draining"
  /\ rootResult' \in {"ok", "threw"}
  /\ undisturbed' = (Unsettled(Checkpoints) = {})
  /\ UNCHANGED <<recordingVars, rootAnswer, joinedVars, storeVars, inTime>>

DrainAgain == ~Telemetry /\ Pending # {}

(* drain(true), or drainInstrumentationOperations() alone for telemetry:   *)
(* wrapped calls first, then what integrations track; wrapped calls that   *)
(* have started meanwhile send it back.                                    *)
DrainStep ==
  /\ \/ rootStep = "draining" /\ Pending = {} /\ rootStep' = "tracked"
     \/ /\ rootStep = "tracked" /\ Tracked = {}
        /\ rootStep' = IF DrainAgain THEN "draining" ELSE "drained"
  /\ UNCHANGED <<recordingVars, rootResult, rootAnswer, joinedVars, storeVars,
                 historyVars>>

(* Fault: what integrations track is waited for without a deadline.        *)
WrappedCallsPending == rootStep = "draining" /\ Pending # {}
WorkPending ==
  \/ rootStep = "draining" /\ Pending # {}
  \/ rootStep = "tracked" /\ Tracked # {}

DrainTimesOut ==
  /\ WorkPending
  /\ rootStep' = "timedOut"
  /\ UNCHANGED <<recordingVars, rootResult, rootAnswer, joinedVars, storeVars,
                 historyVars>>

-----------------------------------------------------------------------------
(* Fault: any explicit checkpoint is taken for the final state.            *)
canCompleteWithAnyCheckpoint == checkpointSequence # 0
canComplete == checkpointSequence # 0 /\ checkpointSequence = Len(log)

(* How the run ends: the status asked for and the limitations added.       *)
Ending ==
  IF rootResult = "threw" THEN "failed"
  ELSE IF ~Telemetry /\ rootStep = "drained" /\ canComplete THEN "completed"
  ELSE "observed"
(* Fault: activity after the last checkpoint is not told.                  *)
NoCheckpoint == Ending = "observed" /\ checkpointSequence = 0
NoFinalState == Ending = "observed" /\ (checkpointSequence = 0 \/ rootStep = "drained")
EndingLimitations ==
  (IF rootStep = "timedOut" THEN {"drain_timed_out"} ELSE {})
  \cup (IF ~Telemetry /\ (Ending = "failed" \/ NoFinalState)
          THEN {"final_state_unavailable"} ELSE {})

(* What follows drain(): acceptingCalls = false, markIncomplete(), and the *)
(* terminal operation joins the queue.                                     *)
Finalize ==
  /\ rootStep \in {"drained", "timedOut"} /\ rootStep' = "ending"
  /\ acceptingCalls' = (acceptingCalls /\ Telemetry)
  /\ limitations' = limitations \cup EndingLimitations
  /\ completeness' = IF rootStep = "timedOut" \/ (~Telemetry /\ Ending = "failed")
                       THEN "partial" ELSE completeness
  /\ queue' = Append(queue, Entry(RunEnd[Ending], Agent))
  /\ claimed' = IF Ending = "completed" THEN log[checkpointSequence].by ELSE claimed
  /\ UNCHANGED <<root, writerOpen, status, log, work, checkpointSequence, refused,
                 rootResult, rootAnswer, joinedVars, manifest, exported, controllerVars,
                 historyVars>>

(* A failure of the recorder reaches the caller of instrument() and of     *)
(* strict telemetry, unless the callback threw.                            *)
(* Fault: whatever the mode.                                               *)
AnswerStrictly == "threw"
AnswerUnrecorded ==
  IF root = "best-effort" \/ rootResult = "threw" THEN rootResult ELSE "threw"

RunEnds ==
  /\ rootStep = "ending" /\ HeadIs(Agent) /\ rootStep' = "committing"
  /\ log' = Append(log, Head(queue)) /\ queue' = Tail(queue)
  /\ status' \in {s \in TerminalStatus : RunEnd[s] = Head(queue).type}
  /\ UNCHANGED <<root, writerOpen, completeness, limitations, workVars, rootResult,
                 rootAnswer, joinedVars, storeVars, historyVars>>

EndRefused ==
  /\ rootStep = "ending" /\ HeadIs(Agent) /\ rootStep' = "closing"
  /\ queue' = Tail(queue)
  /\ rootAnswer' = AnswerUnrecorded
  /\ UNCHANGED <<root, writerOpen, status, completeness, limitations, log, workVars,
                 rootResult, joinedVars, storeVars, historyVars>>

(* writer.commit(manifest), then scheduleExport(), which awaits nothing.   *)
ManifestCommits ==
  /\ rootStep = "committing" /\ rootStep' = "closing"
  /\ manifest' = CurrentManifest
  /\ exported' = TRUE
  /\ rootAnswer' = rootResult
  /\ UNCHANGED <<recordingVars, rootResult, joinedVars, claimed, controllerVars,
                 historyVars>>

CommitFails ==
  /\ rootStep = "committing" /\ rootStep' = "closing"
  /\ rootAnswer' = AnswerUnrecorded
  /\ UNCHANGED <<recordingVars, rootResult, joinedVars, storeVars, historyVars>>

(* writer.close(); its failure is only reported.  Events whose write was   *)
(* under way have been committed by then.                                  *)
WriterCloses ==
  /\ rootStep = "closing" /\ rootStep' = "settled"
  /\ writerOpen' = FALSE
  /\ UNCHANGED <<root, status, completeness, limitations, queue, log, workVars, rootResult,
                 rootAnswer, joinedVars, storeVars, historyVars>>

-----------------------------------------------------------------------------
(* instrument().run() in the scope of a telemetry run, over or not.        *)
JoinStarts ==
  /\ Telemetry /\ Recorded /\ joinedStep = "none"
  /\ joinedStep' = "callback"
  /\ Started("joinedRun")
  /\ UNCHANGED <<recordingVars, rootVars, joinedResult, joinedAnswer, storeVars>>

JoinedReturns ==
  /\ joinedStep = "callback" /\ joinedStep' = "draining"
  /\ joinedResult' \in {"ok", "threw"}
  /\ UNCHANGED <<recordingVars, rootVars, joinedAnswer, storeVars, historyVars>>

JoinedDrains ==
  /\ joinedStep = "draining"
  /\ joinedStep' = IF Pending = {} THEN "drained" ELSE "timedOut"
  /\ UNCHANGED <<recordingVars, rootVars, joinedResult, joinedAnswer, storeVars,
                 historyVars>>

(* Fault: nobody asks.                                                     *)
RecordedForEver == TRUE
StillRecorded == status = "running"

(* Only a run that is still recorded is told, and only then is the error   *)
(* of the callback thrown.                                                 *)
JoinedSettles ==
  /\ joinedStep \in {"drained", "timedOut"} /\ joinedStep' = "settled"
  /\ acceptingCalls' = FALSE
  /\ LET told == {code \in {"drain_timed_out", "final_state_unavailable"} :
                    /\ StillRecorded
                    /\ code = "drain_timed_out" => joinedStep = "timedOut"
                    /\ code = "final_state_unavailable" => joinedResult = "threw"}
     IN /\ limitations' = limitations \cup told
        /\ completeness' = IF told = {} THEN completeness ELSE "partial"
        /\ joinedAnswer' = IF "final_state_unavailable" \in told THEN "threw" ELSE "ok"
  /\ UNCHANGED <<root, writerOpen, status, queue, log, work, checkpointSequence,
                 refused, rootVars, joinedResult, storeVars, historyVars>>

-----------------------------------------------------------------------------
Running == {r \in activeRuns : r = Agent => rootStep # "settled"}

(* shutdown(): the controller first waits for the runs it has by then, the *)
(* agent only closes its exporters.                                        *)
Shutdown ==
  /\ shutdownStep = "none"
  /\ shutdownStep' = IF Telemetry THEN "awaiting" ELSE "exporting"
  /\ awaited' = IF Telemetry THEN activeRuns ELSE {}
  /\ UNCHANGED <<recordingVars, rootVars, joinedVars, claimed, manifest, exported, activeRuns,
                 historyVars>>

ShutdownProceeds ==
  /\ \/ shutdownStep = "awaiting" /\ awaited \cap Running = {} /\ shutdownStep' = "exporting"
     \/ Telemetry /\ shutdownStep = "exporting" /\ shutdownStep' = "released"
  /\ awaited' = {}
  /\ UNCHANGED <<recordingVars, rootVars, joinedVars, claimed, manifest, exported, activeRuns,
                 historyVars>>

-----------------------------------------------------------------------------
RunProceeds ==
  \/ RunStarts \/ RunCannotStart \/ DrainStep \/ DrainTimesOut \/ Finalize \/ RunEnds
  \/ EndRefused \/ ManifestCommits \/ CommitFails \/ WriterCloses
JoinedProceeds == JoinedDrains \/ JoinedSettles

Next ==
  \/ \E w \in Work : WorkStarts(w) \/ WorkAdvances(w) \/ WorkEnds(w)
  \/ RunCalled \/ RunForgotten \/ \E r \in OtherRuns : OtherRun(r)
  \/ RunProceeds \/ UnrecordedReturns \/ CallbackReturns
  \/ JoinStarts \/ JoinedReturns \/ JoinedProceeds
  \/ Shutdown \/ ShutdownProceeds

(* Files, redaction and timers answer in the end; whether the callback,    *)
(* wrapped functions and SDK methods ever return is up to the program.     *)
Spec ==
  /\ Init /\ [][Next]_vars
  /\ WF_vars(RunProceeds) /\ WF_vars(JoinedProceeds)
  /\ \A w \in Work : WF_vars(WorkAdvances(w))

-----------------------------------------------------------------------------
Finished == manifest.status \in TerminalStatus

(* Nothing changes the record of a run once its manifest says it is        *)
(* finished: neither a stream or a joined run that ends late, nor a call   *)
(* that returns after the drain timed out (instrument.ts:440, 445).        *)
FinishedManifestIsFinal == Finished => manifest = CurrentManifest

(* A finished manifest without drain_timed_out says that every request     *)
(* made while the callback, a run that joined it or one of their calls was *)
(* running has its response in the log, unless recording it failed: both   *)
(* registries were drained (instrument.ts:709, context.ts:67).             *)
CompleteEvidence ==
  Finished /\ "drain_timed_out" \notin manifest.limitations =>
    \A w \in (inTime \cap (Calls \cup SdkCalls)) \ refused :
      Logged("requested", w) => Logged("completed", w) \/ Logged("failed", w)

(* run.completed carries the hash of the checkpoint right before it, with  *)
(* calls that the callback left behind ending at any moment of the drain,  *)
(* if no checkpoint was left behind and nothing started afterwards         *)
(* (canComplete(), instrument.ts:704).                                     *)
FinalStateClaimed ==
  status = "completed" /\ undisturbed => log[Len(log) - 1] = Entry("checkpoint", claimed)

(* A finished run without a claimed final state says why: no checkpoint,   *)
(* activity after it, or calls that did not settle (instrument.ts:317).    *)
UnclaimedStateExplained ==
  Finished /\ manifest.status # "completed" =>
    manifest.limitations \cap {"drain_timed_out", "final_state_unavailable"} # {}

(* Whatever fails in recording, the caller of run() gets the error its     *)
(* callback threw, and from best-effort telemetry also the value it        *)
(* returned (index.ts:129, README.md:154).                                 *)
AnswerKept ==
  rootStep = "settled" /\ rootResult # "none" =>
    \/ rootAnswer = rootResult
    \/ root # "best-effort" /\ rootResult = "ok"

(* README.md:154: capture failures do not replace an application error;    *)
(* also of a callback whose run joined another in time and outlived it.    *)
JoinedErrorKept ==
  "joinedRun" \in inTime /\ joinedStep = "settled" /\ joinedResult = "threw" =>
    joinedAnswer = "threw"

(* Once shutdown() closes the exporters and removes the integrations, no   *)
(* run that the controller admitted, before or while it waited, is left to *)
(* hand its snapshot to them or to have SDK calls observed, and a run that *)
(* finished its manifest has handed the snapshot over (index.ts:248-282).  *)
ShutdownAfterRuns ==
  Telemetry /\ shutdownStep \in {"exporting", "released"} =>
    /\ Running = {} /\ rootStep \in {"uncalled", "settled"}
    /\ Finished => exported

(* run() settles once its callback has, although wrapped calls, SDK calls  *)
(* and joined runs it left behind may never return: the drain is bounded.  *)
RunSettles == rootResult # "none" ~> rootStep = "settled"

(* Whatever calls and checkpoints are recording, before or after the end   *)
(* of the run, is recorded or given up: no promise waits for the queue     *)
(* forever.                                                                *)
RecordingCatchesUp == []<>(\A w \in Work : work[w].event = "none")
=============================================================================
