# Verification of agent-loop-snapshot

TLA+ models of agent-loop-snapshot, the TLC runs that check them and the TLAPS
proofs about them. Sources are under `src/packages/<package>/src/`;
`PROJECT.json` maps every definition to the lines it models and lists components,
runs, findings, hazards and theorems.

## The system

A recorded agent run becomes a *snapshot directory*: an append-only `events.jsonl`,
a `manifest.json`, `checkpoints/` and `artifacts/`. Snapshots are loaded, drawn,
exported to OpenTelemetry and replayed.

| Component | State | Operations | Hard behaviour | What makes it correct |
|---|---|---|---|---|
| `recorder/index.ts` Recorder | per run: events, next sequence, status, completeness, promise queue | startRun, appendEvent, completeRun / failRun / observeRun, checkpoint, markIncomplete, getManifest | operations queue behind one another; each awaits interceptors before it commits | an event is visible exactly when its interceptors succeeded; contiguous sequences; one terminal event, the last |
| `recorder/writer.ts` JsonlEventWriter | the file, run id, last sequence, pending writes, separator flag, promise queue | append, flush, close, open | refused or short writes, refused syncs, torn tails, reopening | the file is one run's history; what memory shows is on disk |
| `recorder/writer.ts` SnapshotWriter | manifest queue, `manifest.json(.tmp)`, closed | writeManifest, commit, close, open; `inspectSnapshotDirectory` | stale manifests, crash between write and rename | a directory inspected as finished is complete |
| `recorder/checkpoints.ts` | checkpoint files | save, load, reconstructState | save runs after the event is committed; reconstruction falls back over damaged files | every file has its durable event; reconstruction is the state the history leads to |
| `recorder/artifacts.ts` | content-addressed files, queue per digest | put, get, verify | a digest is trusted only as long as its file is whole | a digest names its content |
| `recorder/redaction.ts` | rules | interceptor | may throw | identity fields untouched |
| `otel-export/queue.ts` | entry files, `consumer.lock` | enqueue, flush, inspect | lock takeover, crashes, expiry, unreadable entries, several processes | at-least-once delivery; a batch is taken in only while the entries that can be read leave room |
| `otel-export/exporter.ts`, `http-client.ts` | background flush chain, retry state | exportSnapshot, flush, shutdown, send | background flush vs. enqueue, timeouts vs. late answers | honest delivery reports |
| `instrumentation` agent and controller | active runs, pending calls, acceptingCalls, closed | run, wrapped calls, checkpoint, drain, flush, shutdown | late calls, drain timeouts, un-awaited checkpoints, shutdown while runs start and end | `completed` only with a final checkpoint; exporters close after the runs that use them |
| `replay/policy.ts`, `adapters.ts`, `recorded.ts` | rules, approvals, the new run's log | evaluate, execute, resolve | audit before execution; approvals for one attempt | nothing runs unless allowed, recorded and by this caller's authority |
| `replay/semantic.ts` | node results, pass, attempt, diagnostics | run | dependencies, conditions, retries, verifiers, stops | nodes run in dependency order; the report says what happened |
| `replay/mock.ts`, `verified.ts` | position in the source, copied requests, issues | run | retried, duplicate and blocked calls; resuming at a checkpoint | completing means the source was reproduced, or repeated but for the reported differences |
| `replay/compiler.ts` | none | compileTraceToWorkflow | retries, parallel branches | every causal order is kept, no other is added |
| `trace`, `schema/validator.ts` | none | loadTraceSnapshot, validation, assessSnapshotExecution | torn tails, lost lines, several manifests, harmed checkpoints | only a whole run passes for executable evidence |
| `graph` | none | causalDag, callTree | folding and filtering | projections keep causality |
| `otel-import`, `cli`, `example-runtime`, SDK integrations | - | conversion and plumbing | - | - |

How they interact: the agent wraps model and tool calls and turns them into
Recorder operations; the Recorder hands each event to its interceptors, the last
of which is `SnapshotWriter.asInterceptor()`, and awaits it before committing; at
the end of a run the agent commits the manifest, closes the writer and hands the
snapshot to the exporters, which queue batches on disk and deliver them in the
background. `trace` loads a snapshot and validates it; the compiler and the graph
derive documents and drawings from it; a replay runner asks the execution gate,
submits each call to the policy engine, and records a run of its own through the
same Recorder.

## Modules

| Module | Models | Built on |
|---|---|---|
| `JsonlWriter` | the line file and JsonlEventWriter | - |
| `Recorder` | the run records and their promise queues | JsonlWriter (events, runs) |
| `ManifestCommit` | manifest queue, temporary and final manifest, inspection | Recorder |
| `SnapshotRecording` | the composition: who calls whom, checkpoint files, close(), crash, reopening; all properties | ManifestCommit |
| `SnapshotStore` | abstract: what a reader of a directory may rely on | - |
| `MCSnapshotRecording` | instances for TLC | SnapshotRecording |
| `SnapshotRecordingProofs` | theorems on types, memory and file | SnapshotRecording, TLAPS |
| `SnapshotStoreProofs` | the theorems on what is left of a history, checkpoint files, manifests, the fence and the refinement of SnapshotStore | SnapshotRecordingProofs |
| `OtlpHttpClient` | one `send()`: attempts, budget, answers, abort | - |
| `OtlpQueue` | entry files, `consumer.lock`, enqueue and flush | OtlpHttpClient |
| `OtlpExport` | exporters: exportSnapshot, background chain, flush, shutdown; all properties | OtlpQueue |
| `OtlpOutbox` | abstract: what the queue directory promises | - |
| `MCOtlpExport` | instances for TLC | OtlpExport |
| `OtlpQueueProofs` | theorems | OtlpExport, TLAPS |
| `RunWork` | what a program does inside a run: wrapped calls, SDK calls and streams, checkpoints, and the recorder queue they share | - |
| `InstrumentedRun` | the run around it: callback, drain, finalization, export, a joined run, the controller's other runs and shutdown; all properties | RunWork |
| `MCInstrumentedRun` | instances for TLC | InstrumentedRun |
| `InstrumentedRunProofs` | theorems on types, the manifest, the answer, the final state and complete evidence | InstrumentedRun, TLAPS |
| `TraceEvents` | events and calls as readers tell them apart | - |
| `StateHistory` | state changes and `reconstructState` | TraceEvents |
| `TraceSnapshot` | a directory from recording over harm to reading: loading, validation, gate | StateHistory |
| `TraceCompiler` | `compileTraceToWorkflow` as operators | TraceEvents |
| `TraceGraph` | folding, filters, causal DAG, call tree as operators | TraceEvents |
| `ReplayPolicy` | policy engine, approvals, audit, the run a replay records | TraceEvents |
| `RecordedResults` | call schedule, recorded adapters, adapter resolution | TraceEvents |
| `SemanticReplay` | `SemanticReplayRunner.run` | ReplayPolicy |
| `WorkflowSchedule` | abstract: the order a workflow document promises | - |
| `TraceReplay` | the loop that mock and verified replay share | ReplayPolicy, RecordedResults, TraceSnapshot |
| `MockReplay`, `VerifiedReplay` | the two runners over it | TraceReplay |
| `ReplaySession` | the composition: record, harm, read, compile, replay; most properties | all of these |
| `MCReplaySession` | instances for TLC | ReplaySession |
| `ReplayPolicyProofs` | theorems on audit and authority | ReplaySession, TLAPS |
| `TraceReadingProofs` | theorems on what a reader may rely on | ReplayPolicyProofs |
| `SemanticReplayProofs` | theorems on the semantic runner and the refinement of WorkflowSchedule | TraceReadingProofs |
| `TraceReplayProofs` | theorems on the mock and the verified runner, on the types of a session and on its end | SemanticReplayProofs |

### How state and actions correspond to the code

Node runs one continuation at a time, so an action is the code between two
`await`s that let other continuations run.

* A promise queue (`enqueue` in `index.ts:575`, `writer.ts:250`, `writer.ts:371`) is a
  sequence whose head is running: `opQueue[r]`, `writerQueue`, `manifestQueue`. A
  settled promise that nobody has resumed from yet is `outcome[caller]`.
* An operation of a run goes `idle -> intercept -> append [-> checkpointFile]` in
  `active[r]`: `BeginOperation` is validation and `buildEvent`, `SubmitEvent` the
  call of `SnapshotWriter.append` by afterAppend, `Resume` the continuation after it
  settles (`CommitEvent` or `AbortEvent`), `AfterCheckpoint` the afterCheckpoint
  interceptors. `startRun` takes the same path outside the queue.
* An append is at most two actions: `WriteLine` (checks and `fileHandle.write`) and,
  when a sync is due, `SyncLine`. `RejectAppend` and `FailWrite` are its refusals.
* `lines` are the parseable lines of `events.jsonl`; `tail` says what the file ends
  in. An event keeps its run, sequence, type, one parent and - for
  `checkpoint.created` - the sequence it pins. Event ids are identified with
  (run, sequence), payload texts and several parents are abstracted.
* `commit()` is `WriteTmpManifest` and `RenameManifest`; a crash between them, or in
  the middle of the write (`Torn`), is possible.
* `close()` is `Close` and three `ContinueClose` steps, one per `await`.
* `Crash` loses the memory, any lines no fsync has covered, and - because no
  directory is ever synced - possibly the last manifest rename and checkpoint
  files. `Reopen` is `SnapshotWriter.open` on what is left. It is assumed that the
  fsync of a file also makes its own directory entry durable, and that data an
  fsync has covered stays.
* `Durable` (event mode, no short writes) is the mode the instrumentation uses.
  The properties that need it say so.

In the OTLP modules a *caller* is one asynchronous chain of an exporter: its
`exportSnapshot` call, its background flushes (which run one after the other) or its
explicit `flush()` / `shutdown()`. What contends for the directory is callers, so one
exporter already gives three contenders; `Exporters` are processes.

* `call[c].step` is where the caller is between two `await`s of `queue.ts`: `open`,
  `stat`, `unlink` in `acquireLock`, then inside `withLock` (the `Section`) `scan`,
  `commit` or `send` and `rescan`, and `release`. The `finally` of `withLock` unlinks
  the path, whoever's file it is: `ReleaseLock`.
* `sending[c]` is the `send()` the flush awaits. `Attempt` is the head of the retry
  loop (resolve, post), `AfterFailure` its tail, the other actions are the classes
  of answers.
* Every file operation may fail: where the code ignores that, the file stays; where
  it does not, the flush throws, its reports are lost and the lock is released.
* A scan is one step: it removes what has expired, as far as it can be removed, and goes
  on with those of the rest that it could read and parse (`todo`). The others it passes
  over: they stay on disk, whatever their age, are not sent, and do not count when an
  enqueue looks for room (`queue.ts:190`). Which ones these are is open anew at each scan.
  The bytes limit is identified with the limit on entries.
  Batches are numbered in the order of their creation, which is the order in
  which a flush sends. All entries of a directory have one configuration: those
  of another one are never eligible. A failure in a list of reports is a batch
  that was not accepted; its other contents, and the cap of 128 reports, are
  abstracted.
* `Takeover` says which lock files grow older than `lockStaleMs`: none, those whose
  owner is not inside `withLock` any more, or any (a flush that sends one batch after
  another does not refresh its lock).

`InstrumentedRun` is about when things happen, so the recorder under it is reduced to
what the recording part above establishes: the head of the run's queue is committed
or refused, and nothing is committed once the run is over or its writer closed.

* `root` says whose run it is: `instrument().run()` (`runRoot`), or `telemetry.run()`
  (`runInternal`), strict or best-effort. `rootStep` is where that function is;
  `draining` and `tracked` are its two waits: for the wrapped calls and for what
  integrations registered with `track`. `joinedStep` is the same for `runJoined`.
* A member of `Calls` is one call of a wrapped model or tool (`recordCall`), of
  `SdkCalls` one observed SDK call, of `Checkpoints` one `checkpoint(state)`. Their
  `step` is where that function is, `event` what it is recording. None is ever
  obliged to end, or to be awaited, and each may start at any time after the run
  has, also when it is over: the asynchronous context keeps the scope.
* `activeRuns` is the controller's set of runs, this one being `Agent`; the `OtherRuns`
  come and go as they like (`OtherRun`), this one enters by `RunCalled` and is taken out
  some time after it has settled (`RunForgotten`). `Shutdown` sets `closed` and takes down
  the runs there are (`awaited`, the `Promise.allSettled` of `index.ts:256`),
  `ShutdownProceeds` goes on when they have settled: it closes the exporters, then
  removes the integrations. A run that is called later is refused. The agent's `shutdown()`
  waits for no run. `exported` says that `exportSnapshot` was called; nobody awaits
  it (`scheduleExport`), so the exporter's own `shutdown()` may flush before that batch is
  queued, in which case it stays on disk for a later process.
* In a joined run, events and checkpoints are redacted before they enter the queue
  (`redacting`), so the order of the queue is not the order of the calls.
* `inTime` and `undisturbed` are histories that the properties use: what started
  while the run had something to wait for, and whether anything was left behind.

The replay modules start where the recording ends, with a finished directory.

* `RecordSnapshot` records any run of a few events, may cut it off (`CutOff`: what a
  crash of the recording process leaves, manifests included) or harm its files
  (`HarmFiles`: lines lost with the power, dropped or doubled, a damaged checkpoint or
  artifact), and hands it to a reader. Which cuts and harms are possible comes from
  the recording part. What the reader makes of the files are operators over them:
  `Events`, `LoadErrors` with one set per validation, `Executable`.
* A runner is one chain of awaits, so an action is what it does up to the next call
  of an adapter, of the policy or of the recorder. `job` is the `policy.execute()`
  call in flight: `Submitted`, then `RecordDecision` (evaluate, and await the audit
  sink), then the operation, then the runner's continuation (`AgentAnswered`,
  `VerifierAnswered`, `MockAnswered`, `LiveAnswered`).
* The passes of the semantic runner over the declared order are `cursor` and
  `progressed`; `attempt` and `checking` are the loops of `executeNode` and
  `verifyNode`. The loop over the source's events is `position`.
* `RecorderRefuses` and `OperationThrows` are the ways `run()` rejects: the new run is
  then left without an ending, as it is when the replayed events do not make up a
  state (`MirrorThrows`, `FinishVerified`).
* The log of the new run keeps of an event what `TraceEvents` says; a `Recorder` that
  takes every event or refuses it stands for the recording part, which shows that it
  does just that. `executed` is a history of the operations that ran: the action, the
  decision in the log it came right after, and its outcome.
* An agent that answers `undefined` blocks its node at once (`semantic.ts:539`). Of a
  condition it matters whether the output it looks at is there and whether it holds of an
  output that is not (`absent`: falsy, not_equals); what it says of an output that exists
  is taken to be the opposite.
* Comparison rules are a relation on values (`Accepted`), assertions a choice
  (`Verdicts`); state paths have one segment, values their shape; the set of parents
  has no order. The order of timestamps is that of the sequence numbers. The faults of
  a call schedule are those of valid traces. The policy and the adapters are picked
  when the run starts: nothing asks for them before.

Definitions whose comment begins with "Fault:" are deliberate mistakes, each used
to show that a property notices it; the specification does not use them.

## What the runs check

| Run | Instance | Result |
|---|---|---|
| `recording` | 2 runs on one directory, event mode, checkpoint and failRun, 3 events or queued operations per run, 1 manifest job waiting; 0.77 M states | pass |
| `recording_liveness` | 2 runs on one directory, batch mode with a sync every 2 lines, short writes, completeRun, 2 events or queued operations per run, 1 manifest job waiting, weak fairness; 0.26 M states | pass |
| `recording_short_write` | 1 run, event mode, short writes | violation (finding) |
| `recording_failed_sync` | 1 run, event mode | violation (finding) |
| `otlp_queue` | 1 exporter (3 callers), 2 batches, capacity 1, 2 attempts, no takeover, any entry unreadable at any scan, weak fairness; 0.55 M states | pass |
| `otlp_takeover` | 1 exporter, 2 batches, capacity 1, 1 attempt, any lock may go stale, any entry unreadable at any scan; 5.9 M states | pass |
| `otlp_two_consumers` | 2 exporters, abandoned locks go stale | violation (finding) |
| `otlp_lost_report` | 1 exporter, no takeover | violation (finding) |
| `agent_run` | `instrument().run()`: 1 wrapped call, 1 SDK stream, 2 checkpoints, any 2 of them started and refused, a shutdown at any moment, weak fairness; 0.21 M states | pass |
| `telemetry_run` | strict and best-effort `telemetry.run()`, with and without a joined run: 1 wrapped call, 1 stream, both started, 1 refused, 1 other run of the controller, a shutdown at any moment; 9.7 M states | pass |
| `joined_error` | best-effort `telemetry.run()`, same bounds | violation (finding) |
| `replay` | 1 model and 2 tool calls, six kinds of traces with up to 4 events between start and end, every harm; 12 hand-written documents of 3 nodes, 3 agents, 2 policies, 2 sets of approvals, 2 sets of adapters, weak fairness; 0.79 M states | pass |

* `LogAgreement`: memory and file never part by more than the one line in doubt,
  and memory never gets ahead of the disk.
* `WellFormedLog`: one run, contiguous, causally ordered, nothing after the end,
  a checkpoint event directly behind the event it pins.
* `CheckpointFilesBacked`: a checkpoint file always has its durable event.
* `FinishedInspectionIsComplete`: what `inspectSnapshotDirectory` calls finished
  ends in its terminal event, is durable, and has the number of events claimed.
* `SealedForever`: after the commit the event file does not change and the
  manifest can only be written again or lost to a power failure.
* `FenceHolds`: after a sync failure the run is stuck, safely: no second line with
  the same sequence, no later line, no change of its memory.
* `StoreSpec`: the directory implements the abstract `SnapshotStore`
  (`log <- lines, durable <- synced, sealed <- finalManifest # Absent`).
* `OperationsSettle`, `CloseSettles`: no failure jams a queue.
* `SingleHistory` (in `recording_liveness`): whatever short writes, unsynced batches and
  crashes have spoilt, the lines that are left are an ordered part of one run's history,
  also when the directory is reopened and another run tries to go on in it.
  `WellFormedLog` says more, but only when no write is short.

* `LockHeld`: whoever is inside `withLock` owns the lock file (without takeover).
* `OnlyQueuedBatchesAreSent`: a flush works from an old scan and still never posts a
  batch that has left the queue.
* `OutboxSpec`: the directory implements the abstract `OtlpOutbox`: a batch is put in once,
  only while the entries that the scan could read leave room, leaves only after a final
  report or its retention, and never comes back. The directory may hold more than its
  capacity when entries cannot be read; the abstract `unread` are those, in the
  refinement mapping what an enqueue that is about to commit has passed over
  (`PassedOver`). A scan maps to `Look`.
* `NoSilentLoss`: of that, what remains true when locks are taken over from live
  owners - capacity, exclusiveness and "never comes back" do not: the run does reach
  states in which a batch that was accepted is written back and sent again, and no
  property is about that, delivery being at least once.
* `ExportEnds`: exportSnapshot ends although nothing is assumed of the collector or
  of any flush: it never waits for a delivery (`exporter.ts:72`).
* `FlushEnds`: no failure, lost lock or exhausted retry leaves a flush() waiting.

* `FinalStateClaimed`: `run.completed` carries the hash of the checkpoint right before
  it, whatever calls the callback left behind, if no checkpoint was left behind and
  nothing started after the callback returned.
* `UnclaimedStateExplained`: a finished run without that claim says why.
* `CompleteEvidence`: without `drain_timed_out`, every call started while the run had
  something to wait for is closed in the log, unless recording it failed.
* `FinishedManifestIsFinal`: streams, calls and joined runs that outlive the run do
  not change the record its manifest describes.
* `AnswerKept`: recording failures never replace the callback's error, nor, in
  best-effort mode, its value. 
* `ShutdownAfterRuns`: when a controller's shutdown comes to the exporters, and when it
  removes the integrations, every run it ever admitted has settled, also one called while
  it was waiting for others, and a run with a finished manifest has passed its snapshot on.
* `RunSettles`: the answer comes although calls hang. `RecordingCatchesUp`: no call
  waits for the queue forever, even after the run.

* `EligibleTraceIsWhole`: what passes the execution gate is the whole run: no line is
  missing, doubled or torn, whichever manifest the reader picked.
* `ReconstructionAgrees`: whatever has become of the checkpoints, `reconstructState`
  ends in the state the whole history leads to, if the caller checkpointed what it
  recorded.
* `CompiledOrder`: a compiled workflow orders calls as the trace does: a set of nodes
  needs no other node exactly if its calls follow no other call, through any other events.
  The compiler gives up (`GENERATED_WORKFLOW_INVALID`) exactly if calls follow one another
  round, which takes a retry. Without retries a node waits for the calls its request
  follows, and only for those. With retries it may wait for more: if a call precedes one
  attempt of a second call, and a third call follows another attempt of it, the workflow
  runs the first before the third although the trace did not order these two.
* `GraphKeepsCausality`: no folding and no filter invents, loses or turns round an
  edge between nodes that are shown; the tree is a part of the DAG.
* `EveryOperationAudited`: each operation has an allow decision of its own, for that
  attempt, in the log before it runs. `AuthorityIsCurrent`: by the first rule that
  matches, and an approval of this very attempt where one is asked for.
* `ScheduleSpec`: the semantic runner implements `WorkflowSchedule`: a node works only
  after its dependencies ended as the document says, and is blocked only because one
  did not or a failed node stops the workflow. Hence no document that has passed
  validation ends in `UNRESOLVED_DEPENDENCY`.
* `CompletionVerified`: a node the log calls completed got a good output from its agent,
  then every one of its verifiers ran on that attempt and came to "completed", and the
  agent never runs for it again.
* `ReportMeans`: what "matched" and "equivalent" may be relied on for. "Equivalent"
  does not say that every node's condition held: nodes may have been skipped, or
  blocked by what was skipped (the comment at `semantic.ts:99` reads more into it).
* `MockReproducesSource`: a completed mock replay has the source's calls, results and
  state, and ran nothing live.
* `VerifiedRepeatsSuffix`: the k-th operation of a verified replay is for the k-th or a
  later response behind its resume point, so nothing before that point is run again; one
  that completes has as many operations as there are responses, and without reported
  differences what it recorded is, position by position, what the source says there.
* `ReplayIsReplayable`: the run a completed replay records has no schedule fault, so it
  is a source itself; each of its responses says what its own execution came to, right
  behind the decision for it, and whoever reads it as a source gets for each request the
  outcome of the last execution for that request.
* `ReplayEnds`: every runner whose adapters and recorder answer comes to an end.

**Why the bounds are enough.** Three events give a start, a checkpoint or call and an
ending, with a fourth operation refused; two runs give every competition for a
directory's run id; one waiting manifest job gives a stale manifest behind a
commit, since the running job is in addition to later requests; crashes and
reopenings are unbounded. `BatchSize = 2` gives synced and unsynced lines in
one file; there, two events are a run's start and its end, and a fragment of either, a
crash and the other run's `run.started` are what `SingleHistory` has to withstand.
Checkpoints are left to the first run. Runs are interchangeable, so symmetry is used in
the safety runs and not in the liveness run.

For the queue, two batches give a snapshot of two, a full queue and a batch queued
behind a flush, and with one that cannot be read a second entry over the capacity; a
third attempt repeats the second. Three callers give a holder and
two contenders, which is what a takeover race needs.

For a run, two concurrent calls beside the callback (and the joined run) give a call
whose end falls behind a checkpoint, a checkpoint behind a checkpoint, an SDK call
inside a wrapped call that ends before it, and a wrapped call that starts while
the SDK call is being waited for, which is what the second look of `drain` is for. A
refusal may hit each of them. Checkpoints are left to `agent_run`, where they decide what
the run may claim; a controller's run never claims a final state. One other run of the
controller is enough for a shutdown that waits for it while this one is called, and for
one that waits for this one while the other has been forgotten.

For a replay, three calls give a model and two tools, parallel branches, chains of
dependencies, and a retry of one call inside or across another; the six shapes (`MCExtents`) each have what
the others lack: retries, calls without answers (which the schedule refuses), notes to
fold, a state with one checkpoint, one with two. Only shorter runs are harmed
(`MaxHarmed`): one harm of one line is enough to break a sequence. Three nodes give a
dependency of a dependency, and one declared after the node that needs it, so that
passes repeat; a has two attempts and two verifiers, one without an adapter. The
document set has an invalid member, agents that cannot do the work, a rule list that
denies and one that asks.

**Fairness.** Weak fairness of every continuation: the event loop runs each ready
continuation, and a file-system call returns, well or badly. Nothing obliges
the program to call, the process to crash or the directory to be reopened, nor
a write or sync to succeed. `ExportEnds` assumes this of the exportSnapshot calls
only; `FlushEnds` of the flushes too, with every request answered or timed out
(`timeoutMs` bounds each attempt). In `agent_run` the
recorder's operations, the drain timer, `writer.close()` and `onSnapshot` settle;
whether the callback, a wrapped function, an SDK call or the consumer of a stream ever
does is left open. `ReplayEnds` assumes that the adapters the caller supplies and the
recorder answer, for a replay has no timeout of its own, and nothing else.

**Findings.** (1) `fileHandle.write` may store a part of the line without rejecting
and its `bytesWritten` is not looked at (`writer.ts:211`): the recorder then shows
an event, or a terminal state, the file does not hold, against CHANGELOG.md:16.
(2) When the sync of an append fails the line is already there
(`writer.ts:225`): the caller is told "Event was not committed", the file holds it,
and every later event of the run is refused with SEQUENCE_NOT_INCREASING.
`LogAgreement` and `FenceHolds` say how far the damage goes: one line, for good.
(3) `stat` and `unlink` of a stale lock are two calls (`queue.ts:365-367`): of two
callers that both found it stale the second unlinks the fresh lock of the first,
and both consume the queue, against the test "permits only one queue consumer at a
time". (4) `flush()` takes the remembered background reports before it asks for the
lock (`exporter.ts:166`) and forgets them when that fails, against the comment at
`exporter.ts:121` that delivery failures are observable through later flushes.
(5) `runJoined()` throws the callback's error only while the run it joined is running
(`instrument.ts:444`): when that run's drain has timed out and it is over, the
application gets `undefined` instead, against README.md:154 ("without replacing the
SDK result or application error").

Not findings, but limits worth knowing. `drain` does not wait for `checkpoint()`
(`instrument.ts:519`). A checkpoint the callback does not await may be recorded
between the last awaited one and `run.completed`, which then carries the hash of the
earlier state; hence `undisturbed` in `FinalStateClaimed`. A source that answers one
request twice is replayed call by call, and both answers are compared with the last
one (`RecordedOutcome`). After a live call that the policy blocks, a verified replay
goes on to the next live call. A `run()` that rejects leaves the new run open.

## What is proved

`SnapshotRecordingProofs` proves, for every set of runs, flush mode, batch size and
bounds - without TLC's instance:

* `TypeCorrect`: `Spec => []TypeOK`;
* `FileAgreesWithMemory`: if no write is short, `Spec => []LogAgreement`;
* `FileIsOneHistory`: if no write is short, `Spec => []WellFormedLog`.

The assumptions are the named ASSUMEs of the modules and, for the last two,
`~ShortWrites`; the first finding is why that is needed. Neither invariant is
inductive. What a step appends comes from the event an operation built some steps
earlier, through a queue, so the inductive invariant `IInv` adds:

* `OperationInv(r)`: the event in flight continues the run's memory (next
  sequence, existing parent, pins the last event), an operation only runs while
  the run does, a terminal event is the last and ends it;
* `PromiseInv`: a run awaits the writer exactly as long as its one job is queued or
  its promise has settled, so the line written is the event in flight;
* `LogInv`: the writer's `lastSequence` is the number of lines, a missing newline is
  always separated, a successful append left exactly memory plus that event.

Each part is preserved by every action in a lemma of its own, with one step per
action; the sequence check of the writer then gives `WellFormedLog` - a line that
was left by a failed sync has used its sequence up.

`SnapshotStoreProofs` has `FileKeepsOneHistory`: `Spec => []SingleHistory` in every
flush mode, short writes included, which is where memory and file do part; the run
`recording_liveness` checks it where both short writes and unsynced batches happen. It
cannot use `IInv`. Its invariant `HistoryInv` looks at the file and the writer alone: sequences
on the lines grow and are below the writer's `lastSequence`, and whatever is in flight
or queued belongs to the run the writer is bound to; a process that is gone leaves no
claims (`Over`).

The rest of it is about directories whose events are synced one by one by writes
that are not short (`Durable`; the properties name the condition themselves, the
refinement assumes it):

* `CheckpointsAreBacked`, `FinishedIsComplete`, `SealHolds`, `FenceKeeps`:
  `CheckpointFilesBacked`, `FinishedInspectionIsComplete`, `SealedForever` and
  `FenceHolds`;
* `RecordingImplementsStore`: `Spec => StoreSpec`.

It goes on from `IInv`. `FileEffect` says once what a step can do to the file: leave it,
sync it, add the line in flight to one that is synced, or lose lines that are not. So a
file that is synced to the end of its run never changes (`EndedStays`), because a line
more would not be one history, and `FileIsOneHistory` says it is. `ManifestInv` then
covers a manifest from its request over the queue and `manifest.json.tmp` to its place:
every finished one says the same of that file. `CheckpointInv` follows a save from its
event to its file. The refinement needs two parts more: pins and parents of an event in
flight (`EventInv`), and that one line at most is not synced (`OneBehind`).

`OtlpQueueProofs` does the same for the exporters, any number of them on one
directory, with any numbers of batches, attempts and entries:

* `OtlpTypeCorrect`: `Spec => []TypeOK`;
* `NoBatchLost`: `Spec => []NoSilentLoss`, whatever happens to the lock;
* if no lock file grows stale (`Takeover = "never"`; finding (3) is why that is
  needed): `LockExcludes`, `Spec => []LockHeld`; `SendsOnlyQueued`,
  `Spec => []OnlyQueuedBatchesAreSent`; `QueueImplementsOutbox`, `Spec => OutboxSpec`.

The run `otlp_queue` has three callers and two batches, `LockExcludes` and the
refinement hold for all. Only `NoSilentLoss` is inductive as it stands. The others
rest on an invariant built up in four parts, each inductive with the ones before:

* `TypeInv`: types, and what the exporter is doing when it has a queue call
  (`ExporterInv`), so that no call is begun over one that is still running;
* `LockInv`: no lock is stale, nobody is about to unlink one it does not own, and
  `LockHeld`;
* `SendInv`: a `send()` belongs to a flush in its loop, its batch is on disk and
  not among those still to send, and all those are on disk: nobody else can have
  removed one since the scan, because of `LockHeld`;
* `RoomInv`: batch numbers are used up in order, what is on disk was committed, and
  those that a caller about to commit has read of it leave room for one more.

Every step then maps to a step of the outbox or a stutter (`OutboxStep`).

`InstrumentedRunProofs` proves every safety property the passing
runs check of an instrumented run, and its type invariant, for any sets of calls,
streams and checkpoints, recorded by an agent or a controller, from the named ASSUMEs
alone: `RunTypeCorrect`,
`FinishedManifestStays`, `CallbackAnswerKept`, `MissingFinalStateExplained`,
`CompletedRunClaimsFinalState`, `ShutdownComesLast` and `EvidenceIsComplete`.
TLC starts two calls; the theorems are about any number of them, which is what the
drain has to cope with.

* `TypeInv` is the invariant they share: nobody has two operations in the queue, who
  waits there is `queued` or `saving`, and while a checkpoint saves, its event is
  the last of the log. `WorkEffect` says once for all steps of a call what they do
  to its record, the queue and the log; `Quiet` are the steps of the run that do
  nothing to these.
* `FinalInv`: without new activity the end of the drain leaves no call that could
  record anything, so between `canComplete` and the commit of `run.completed` the
  log stands still.
* `ShutdownInv`: a run that is under way is in `activeRuns` until it has settled; while
  shutdown waits, whatever is running is among the `awaited`, because nothing is admitted
  any more; hence nothing runs once it goes on.
* `EvidenceInv`: `DrainInv` follows what is attended from the callback over a joined
  run to the two waits of the drain - either they time out and the manifest will
  say so, or nothing attended is unsettled when they end, and then nothing that
  starts later is attended. `LifeInv` is the other half: each way a call settles
  leaves a response, a refusal, or happens after the drain, and `EventInv` ties an
  operation in the queue to what its call is recording.

`ReplayPolicyProofs` is about any replay: every runner, trace, document, policy and
adapter.

* `OperationsAudited`: `Spec => []EveryOperationAudited`. `PolicyEffect` says once what a
  step can do to the policy - nothing (`Untouched`), start, decide, or run an operation
  (`Performed`) - and `AuditInv` counts: per action, the executions and the one that is
  due are no more than the allow decisions in the log.
* `AuthorityIsTheCallers`: `Spec => []AuthorityIsCurrent`. An operation that is due is
  authorized already (`AllowedIsAuthorized`), and rules and approvals do not change
  while a run goes on.

`TraceReadingProofs` is about the reader, for runs of any length and any harm:

* `ExecutableIsWhole`: `Spec => []EligibleTraceIsWhole`. `TraceInv` says that a manifest
  that calls itself complete counts every event of a run that ended, and that events
  hang on earlier ones; `LinesInOrder` that lines the validator does not object to are
  numbered without a gap (the first that is not would be noticed).
* `GraphIsCausal`: `Spec => []GraphKeepsCausality`, from `ProjectionKeepsCausality`, a
  lemma on any list of events that hang on earlier ones: groups follow one another like
  their events (`GroupFacts`).
* `ReconstructionIsHistory`: `Spec => []ReconstructionAgrees`. `Detour` is its core: to
  replay from the state that a part of the events leads to is to replay them all. The
  replay is a recursive function; that it exists, that it never recovers from a failure
  and that equal beginnings lead to the same states is shown with the least position
  where it would not be so. `SavedInv` ties checkpoints to recorded events.
* `CompilerKeepsOrder`: `Spec => []CompiledOrder`, for any number of calls, attempts and
  other events. The compiler walks back from a request only to the nearest events of calls;
  `ClosedBehind` shows that nothing is lost by stopping there: from an event of a call in a
  set that needs no other node, the way back goes on through what that call depends on or,
  from a response, through the call's own request (`AnswersInv`: a response hangs on
  nothing else). Hence the same sets are closed and causal (`ClosedIsCausal`) and the same
  rounds exist (`SameRounds`). `GatheringExists` gives both walks, which are recursive
  functions, `Ranked` the numbering of the nodes and of their dependencies, and
  `GeneratedValid` says that nothing but a round makes the document invalid. The theorem
  takes correlation keys to differ between calls of different kinds (`NamesAssumption`),
  as those of the recording code do: nodes are named by them here, by kind and number in
  the code.

`SemanticReplayProofs` is about `SemanticReplayRunner.run` on any document that passes
validation, written by hand or compiled, of any size:

* `CompletionIsVerified`: `Spec => []CompletionVerified`;
* `ReportIsMeant`: `Spec => []ReportMeans`;
* `RunnerKeepsSchedule`: `Spec => ScheduleSpec`.

They share one invariant, `SessionInv`. Beside what holds of every session (`TraceInv`,
`PolicyInv`, `AuditInv`, `RunnerInv`) it has `SemInv`, whose parts follow one node from the
cursor to its result, for what a completed node or a report says was decided many steps
earlier:

* `ResultsInv`, `WorkInv`: a node has one result, and what is at work is the node at the
  cursor, which has none;
* `LastInv`, `CheckingInv`: what has come back was executed last; the answer under check
  is this node's last one and, unless the check has rejected it already, a good one, and
  every verifier that is not still to be asked has run at this attempt and come to
  "completed" - which, when the node completes, is what `CompletionVerified` wants;
  `DoneInv` then keeps a completed node from being run again;
* `CountInv`: as long as every result is one of a first attempt that completed, the agent
  has run once for every result, in their order, and for the node at work;
* `OutcomeInv`: without diagnostics no node has failed, and a blocked one is behind
  another that has settled;
* `PassInv`: what a pass without progress has gone over is settled or waits for an open
  node. At the end of such a pass the open nodes would all wait for one another, which
  a document without cycles does not allow, so none is left.

The counts in `ReportMeans` compare lists by correspondences (`SameCount`,
`PositionFacts`): the k-th node of one is the k-th of the other.

`TraceReplayProofs` is about the mock and the verified runner, on sources of any length,
from any checkpoint:

* `MockReplayReproduces`: `Spec => []MockReproducesSource`;
* `VerifiedReplayRepeats`: `Spec => []VerifiedRepeatsSuffix`;
* `ReplayIsASource`: `Spec => []ReplayIsReplayable`.

All three speak of a run that is over, so the invariant (`WalkInv`) says what is true on the
way. A runner was refused its source, or it is on a walk:

* `Sourced`, `Standing`: the source is whole and has no schedule fault (`ExecutableIsWhole`
  and `ScheduleReads` say what that gives: every request answered, every response with its
  request), and where the walk is;
* `Answering`: the call at work answers the event the walk stands at, under the new run's
  copy of its request, and its decision is the last entry;
* `Echoing`: the new run echoes what has been seen - there is a one-to-one, order-keeping
  correspondence between the entries of either side (`InStep`), so the k-th of one goes with
  the k-th of the other (`InStepFacts`). A step adds a pair behind all others or none;
* `Deciding`: each decision hangs on the request of its call;
* `Recalling`: while there are no issues, executions and responses go together in their
  order: what an execution came to stands right behind the decision for it (`Voiced`),
  under the same request, or is about to be recorded (`Unvoiced`), and no response is
  without an execution. Hence the last response to a request is of the last execution
  for it;
* `Running`: the executions answer events the walk has come to, in order, and without
  issues all of them (`TakenInOrder`);
* `Restored`: a mock replay is completed only with the source's state.

`Moves` says once what a step of either runner can come to (pass an event, copy one, break
off, call again, decide, perform, hear, leave); each part is kept by each of them.

The same module has what is left to say of a session as a whole, whichever runner it has:

* `SessionTypeCorrect`: `Spec => []SessionTypeOK`. Types are not inductive by themselves:
  that a call's action has an attempt of at least one and a known call needs the walk's
  invariant (the event it answers has its request in the trace, `AttemptTyped`,
  `LiveActionTyped`), and that an order of results fits the document needs `ResultsMove`.
  So the step (`SessionTyped`) is taken from `TraceWalkInv` before and after it.
  `AfterEventTyped` and `ReplayedTyped` do the same for states and checkpoints:
  reconstruction yields a state whatever events it is given.
* `RunnersComeNearer`: once a runner has been made, every step of the session - of the
  runner, or one that makes `run()` reject - lessens `Distance`, and
  `Distance` cannot be lessened for ever. It counts, the slowest first: whether the run has
  started or ended; the nodes to settle, whether this pass has settled any, the nodes it
  has still to look at, the attempts left at the node, the checks left and the steps of the
  job in hand; or, on a walk, the events still to come and whether it has been broken off.
  `Nearer` compares the counts in that order (`NearerEnds`: it is well-founded).
  `WorkApproaches` and `WalkApproaches` go through the moves. The theorem says that
  retries, passes over waiting nodes and verifiers bring no runner into a loop, for any
  document and trace. It needs no fairness; what TLC adds with `ReplayEnds` is that a
  runner is never stuck half way.

The model was brought into a form that can be reasoned about: `Position` is the place of
the k-th member of a filtered list (it was a sorted sequence before), the word for a refused
call is named not to be an answer (`NotAnswers`), a correlation key has one segment. The
types name the words the code writes (`EventType`, `Values`, `SemanticCodes`, `ReplayCodes`)
where they once said STRING: none of the provers knows that a word written in a module
is a member of STRING, and the code's own types are unions of such words, too.

Only model-checked: liveness (`OperationsSettle`, `CloseSettles`, `ExportEnds`, `FlushEnds`,
`RunSettles`, `RecordingCatchesUp`, `ReplayEnds`), which is out of the prover's reach.
Every safety property of a passing run is a theorem.

## Plan

1. *(done)* Recording, with the theorems on file and memory, checkpoint files,
   manifests and the abstract store.
2. *(done)* OTLP export, with the theorems on the lock and the outbox.
3. *(done)* Instrumentation, with all its safety theorems.
4. *(done)* Reading: reconstruction, validation, the gate, compiler and graph, with the
   theorems on gate, graph, reconstruction and the order of compiled nodes.
5. *(done)* Replay: policy, the three runners, the schedule a document promises, with
   the theorems on types, on audit and authority, on the runners' end, on what each
   reports, repeats and reproduces, and on the schedule.
6. *(left)* Integrations that are shared between controllers: reference counts,
   `patchMethod` and its restore, which leaves a wrapper in place that another lies on
   (`index.ts:91`), and what such a wrapper records when its integration is installed
   anew. More than one joined run.

## Not modelled

Whole components: the redaction pipeline (rewrites payload texts; it appears as an
interceptor that may fail), the artifact store (one atomic rename onto a name that
is the content's digest; lost artifacts are harm in `TraceSnapshot`), the OTLP mapper
and the OTel import (conversions of one list into another, without state), schema
migration (two forward rewritings), the CLI and the example runtime (plumbing). Of
the graph, the timeline and node details; of reading, the shape checks of JSON values.

Of the recording: descriptive data (actors, timestamps, limitation texts, payloads), several
parents per event, two overlapping calls of `close()`, a manifest request while
`close()` is pending, several recorders or processes on one directory at the same
time (the code has no lock there and documents none), and file systems that lose
data an fsync has covered. Of the OTLP part: power failures (the queue syncs an
entry's data but never the directory), a queue directory that cannot be created,
two exportSnapshot calls or two explicit flushes of one exporter at a time, and
whether the collector took in a batch it gave no answer for (batches may be
delivered more than once; nothing in the repository promises otherwise). Of the
instrumentation: installing, sharing and releasing integrations, flushExporters,
serialization, SDK calls that are suppressed or outside the scope (nothing is recorded
of them), the exporters' own part in a shutdown (that is in `OtlpExport`), one tick between
the end of `drainInstrumentationOperations` and the second look at the wrapped calls, and
more than one joined run. Of reading: missing or mismatching artifacts of event payloads and unreadable lines in the
middle of a file (`FileErrors` reports those of checkpoints and a torn tail, so the model
admits more than the loader does), and the text order of node ids beyond nine calls of a
kind (`SortsBefore`), which only changes the order in which dependencies are listed. Of the
replay: a recorder that refuses `startRun()` or `failRun()` of a run that ends before its
first operation, the await between the last checkpoint event of a mock replay and its
`completeRun` (`FinishMock` takes both at once; nothing else runs in that session),
titles, prompts
and schemas, nested state paths, the texts comparison rules work on, adapters that
share a name, several runs of one runner (the code refuses none and shares nothing
between them but the caller's adapters), and changing the policy while a run goes on.
