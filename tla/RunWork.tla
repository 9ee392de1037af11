------------------------------- MODULE RunWork -------------------------------
(***************************************************************************)
(* What an instrumented program does inside one recorded run: wrapped      *)
(* model and tool calls (recordCall), SDK calls an integration observes,   *)
(* and checkpoint(state), none of which the program needs to await.  Each  *)
(* records events through the run's promise queue; the Recorder here is    *)
(* the abstract one: the head of the queue is committed or refused, and    *)
(* nothing is committed once the run has ended.                            *)
(***************************************************************************)
EXTENDS Naturals, Sequences, FiniteSets

CONSTANTS
  Calls,        \* calls of wrapped model and tool functions
  SdkCalls,     \* calls of patched SDK methods
  Streams,      \* those of SdkCalls that return a stream
  Checkpoints,  \* calls of checkpoint(); each has a state of its own
  Agent,        \* the agent or controller itself, which ends the run
  MaxRefused,   \* bound: of Work, how many the writer or redaction ever refuses
  Roots         \* who records: "instrument", or telemetry, "strict" or "best-effort"

Work == Calls \cup SdkCalls \cup Checkpoints

ASSUME WorkAssumption ==
  /\ Calls \cap SdkCalls = {} /\ Calls \cap Checkpoints = {} /\ SdkCalls \cap Checkpoints = {}
  /\ Streams \subseteq SdkCalls
  /\ Agent \notin Work /\ "none" \notin Checkpoints
  /\ Roots \subseteq {"instrument", "strict", "best-effort"}

VARIABLES
  root,                \* which of Roots this run is
  status,              \* RunRecord.status; "none" before startRun
  completeness,        \* RunRecord.completeness
  limitations,         \* codes in RunRecord.limitations
  queue,               \* RunRecord.queue: operations, the head running
  log,                 \* RunRecord.events
  writerOpen,          \* the SnapshotWriter takes events
  work,                \* per call: how far it is
  acceptingCalls,      \* GenericRun.acceptingCalls
  checkpointSequence,  \* GenericRun.checkpointSequence, 0 for undefined
  refused              \* history: calls of which some event was refused

recorderVars == <<status, completeness, limitations, queue, log, writerOpen>>
workVars == <<work, acceptingCalls, checkpointSequence, refused>>

TerminalStatus == {"completed", "failed", "observed"}
RunEnd == [completed |-> "run.completed", failed |-> "run.failed", observed |-> "run.observed"]
Entries ==
  [type : {"requested", "completed", "failed"}, by : Calls \cup SdkCalls]
  \cup [type : {"checkpoint"}, by : Checkpoints]
  \cup [type : {"run.started", "run.completed", "run.failed", "run.observed"}, by : {Agent}]
Entry(type, w) == [type |-> type, by |-> w]

(* event: what the call is recording.                                      *)
Progress == [step : {"idle", "redacting", "queued", "saving", "running", "settled"},
             event : {"none", "requested", "completed", "failed", "checkpoint"}]
At(step) == [step |-> step, event |-> "none"]
Limitations == {"drain_timed_out", "final_state_unavailable", "stream_ended_early"}

WorkTypeOK ==
  /\ root \in Roots
  /\ status \in {"none", "running"} \cup TerminalStatus
  /\ completeness \in {"complete", "partial"}
  /\ limitations \subseteq Limitations
  /\ queue \in Seq(Entries) /\ log \in Seq(Entries)
  /\ work \in [Work -> Progress]
  /\ acceptingCalls \in BOOLEAN /\ writerOpen \in BOOLEAN
  /\ checkpointSequence \in 0..Len(log)
  /\ refused \subseteq Work

WorkInit ==
  /\ root \in Roots
  /\ status = "none" /\ completeness = "complete" /\ limitations = {}
  /\ queue = <<>> /\ log = <<>>
  /\ work = [w \in Work |-> At("idle")]
  /\ acceptingCalls = TRUE /\ writerOpen = FALSE
  /\ checkpointSequence = 0
  /\ refused = {}

-----------------------------------------------------------------------------
Unsettled(S) == {w \in S : work[w].step \notin {"idle", "settled"}}
Logged(type, w) == \E i \in DOMAIN log : log[i] = Entry(type, w)

(* A joined run redacts its own events before the Recorder sees them; so   *)
(* does checkpoint(), which awaits that in any case.                       *)
Redacts(w) == w \in Checkpoints \/ (w \in Calls /\ root # "instrument")

(* appendGenericEvent(): the work and the queue after it.                  *)
Recording(w, type) ==
  [step |-> IF Redacts(w) THEN "redacting" ELSE "queued", event |-> type]
Chained(q, w, type) == IF Redacts(w) THEN q ELSE Append(q, Entry(type, w))

Record(w, type) ==
  /\ work' = [work EXCEPT ![w] = Recording(w, type)]
  /\ queue' = Chained(queue, w, type)

Settle(w) == work' = [work EXCEPT ![w] = At("settled")]

(* A result that cannot be recorded is recorded as a failure, but not by a *)
(* stream, which ignores it; for any other event the promise rejects.      *)
(* Fault: a failure that cannot be recorded is recorded again.             *)
RecordsAnyFailure(w) == work[w].event \in {"completed", "failed"} /\ w \notin Streams
RecordsFailure(w) == work[w].event = "completed" /\ w \notin Streams

(* The event cannot be recorded; q is what is left of the queue.           *)
CannotRecord(w, q) ==
  /\ status = "running" /\ writerOpen => Cardinality(refused \cup {w}) <= MaxRefused
  /\ refused' = refused \cup {w}
  /\ IF RecordsFailure(w)
       THEN /\ work' = [work EXCEPT ![w] = Recording(w, "failed")]
            /\ queue' = Chained(q, w, "failed")
       ELSE Settle(w) /\ queue' = q

-----------------------------------------------------------------------------
(* A wrapped call: refused once the run has stopped accepting calls; its   *)
(* request is recorded unless its input cannot be serialized.              *)
StartCall(c) ==
  /\ work[c].step = "idle"
  /\ \/ acceptingCalls /\ Record(c, "requested")
     \/ Settle(c) /\ UNCHANGED queue
  /\ UNCHANGED <<root, writerOpen, status, completeness, limitations, log,
                 acceptingCalls, checkpointSequence, refused>>

(* A patched SDK method finds the run in its scope, even when it is over.  *)
StartSdkCall(s) ==
  /\ work[s].step = "idle"
  /\ Record(s, "requested")
  /\ UNCHANGED <<root, writerOpen, status, completeness, limitations, log,
                 acceptingCalls, checkpointSequence, refused>>

(* The wrapped function or SDK method settles, or the stream is exhausted. *)
CallEnds(w) ==
  /\ work[w].step = "running"
  /\ \E type \in {"completed", "failed"} : Record(w, type)
  /\ UNCHANGED <<root, writerOpen, status, completeness, limitations, log,
                 acceptingCalls, checkpointSequence, refused>>

(* The consumer of a stream stops early: markIncomplete() throws once the  *)
(* run is over, and that is the end of it.                                 *)
StreamEndsEarly(s) ==
  /\ s \in Streams /\ work[s].step = "running"
  /\ \/ /\ status = "running"
        /\ completeness' = "partial"
        /\ limitations' = limitations \cup {"stream_ended_early"}
        /\ Record(s, "completed")
     \/ /\ status # "running"
        /\ Settle(s)
        /\ UNCHANGED <<completeness, limitations, queue>>
  /\ UNCHANGED <<root, writerOpen, status, log, acceptingCalls, checkpointSequence,
                 refused>>

(* checkpoint(state), whatever acceptingCalls says; the state may not be   *)
(* serializable.                                                           *)
StartCheckpoint(k) ==
  /\ work[k].step = "idle"
  /\ \/ Record(k, "checkpoint")
     \/ Settle(k) /\ UNCHANGED queue
  /\ UNCHANGED <<root, writerOpen, status, completeness, limitations, log,
                 acceptingCalls, checkpointSequence, refused>>

(* The redaction of a joined run may throw.                                *)
RedactionEnds(w) ==
  /\ work[w].step = "redacting"
  /\ \/ /\ work' = [work EXCEPT ![w].step = "queued"]
        /\ queue' = Append(queue, Entry(work[w].event, w))
        /\ UNCHANGED refused
     \/ root # "instrument" /\ CannotRecord(w, queue)
  /\ UNCHANGED <<root, writerOpen, status, completeness, limitations, log,
                 acceptingCalls, checkpointSequence>>

-----------------------------------------------------------------------------
HeadIs(w) == queue # <<>> /\ Head(queue).by = w

EventCommits(w) ==
  /\ w \notin Checkpoints /\ HeadIs(w) /\ status = "running" /\ writerOpen
  /\ log' = Append(log, Head(queue)) /\ queue' = Tail(queue)
  /\ work' = [work EXCEPT ![w] = At(IF @.event = "requested" THEN "running" ELSE "settled")]
  /\ UNCHANGED <<root, writerOpen, status, completeness, limitations, acceptingCalls,
                 checkpointSequence, refused>>

(* An interceptor or the writer refuses, or the run is over.               *)
EventRefused(w) ==
  /\ HeadIs(w) /\ work[w].step = "queued"
  /\ CannotRecord(w, Tail(queue))
  /\ UNCHANGED <<root, writerOpen, status, completeness, limitations, log,
                 acceptingCalls, checkpointSequence>>

CheckpointCommits(k) ==
  /\ k \in Checkpoints /\ HeadIs(k) /\ work[k].step = "queued" /\ status = "running" /\ writerOpen
  /\ log' = Append(log, Head(queue))
  /\ work' = [work EXCEPT ![k].step = "saving"]
  /\ UNCHANGED <<root, writerOpen, status, completeness, limitations, queue,
                 acceptingCalls, checkpointSequence, refused>>

LastSequence == Len(log)

(* afterCheckpoint settles.  checkpoint() resumes before the next queued   *)
(* operation can commit, and takes the last event to be its own.           *)
CheckpointEnds(k) ==
  /\ HeadIs(k) /\ work[k].step = "saving"
  /\ queue' = Tail(queue)
  /\ \/ checkpointSequence' = LastSequence /\ Settle(k)
     \/ UNCHANGED checkpointSequence /\ Settle(k)
  /\ UNCHANGED <<root, writerOpen, status, completeness, limitations, log,
                 acceptingCalls, refused>>

(* Continuations of the library; when a call ends is up to the program.    *)
WorkProceeds(w) ==
  RedactionEnds(w) \/ EventCommits(w) \/ EventRefused(w) \/ CheckpointCommits(w)
  \/ CheckpointEnds(w)
=============================================================================
