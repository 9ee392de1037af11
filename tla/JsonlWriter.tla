---------------------------- MODULE JsonlWriter ----------------------------
(***************************************************************************)
(* JsonlEventWriter: the append-only events.jsonl of one snapshot          *)
(* directory.  Every public operation is chained on one promise queue; an  *)
(* append writes one line and, depending on the flush mode, syncs the file *)
(* before its promise settles.                                             *)
(*                                                                         *)
(* The file is `lines`, its parseable lines, plus what lies at its end     *)
(* (`tail`): a newline, a parseable line without one, or a fragment.       *)
(* Unparseable lines in the middle are not kept: every reader skips them.  *)
(* `synced` counts the lines a successful fsync has covered.               *)
(***************************************************************************)
EXTENDS Naturals, Sequences

CONSTANTS
  Runs,        \* run ids a Recorder may generate
  NoRun,       \* "no run": an unset run_id
  FlushMode,   \* "event", "batch" or "manual"
  BatchSize,   \* pending writes that trigger a sync in "batch" mode
  ShortWrites  \* may fileHandle.write() store fewer bytes and not reject?

ASSUME WriterAssumption ==
  /\ NoRun \notin Runs
  /\ FlushMode \in {"event", "batch", "manual"}
  /\ BatchSize \in Nat \ {0}
  /\ ShortWrites \in BOOLEAN

VARIABLES
  lines, tail, synced,            \* the file
  writerRun, lastSequence,        \* runId and lastSequence of the writer
  pendingWrites, needsSeparator, writerClosed,
  writerQueue,                    \* the promise chain: jobs, the head running
  syncing,                        \* the running append has written its line
  outcome                         \* how a caller's promise settled

writerVars == <<lines, tail, synced, writerRun, lastSequence, pendingWrites,
                needsSeparator, writerClosed, writerQueue, syncing, outcome>>

TerminalTypes == {"run.completed", "run.failed", "run.observed"}
EventTypes == {"none", "run.started", "call", "checkpoint.created"} \cup TerminalTypes

(* What the properties tell apart in an EventEnvelope.  An event_id is    *)
(* identified with <<run, sequence>>; `parent` is the sequence of the     *)
(* event parent_ids names, 0 for none; `pin` is the payload.sequence of a *)
(* checkpoint.created event, 0 for every other type.                      *)
Event == [run : Runs \cup {NoRun}, sequence : Nat, type : EventTypes,
          parent : Nat, pin : Nat]
NoEvent == [run |-> NoRun, sequence |-> 0, type |-> "none", parent |-> 0, pin |-> 0]

(* A flush or close job carries NoEvent; the caller of a job is its run,   *)
(* the SnapshotWriter (NoRun) for flush and close.                         *)
Job == [op : {"append", "flush", "close"}, event : Event]
Outcome == {"none", "ok", "failed"}

WriterTypeOK ==
  /\ lines \in Seq(Event)
  /\ tail \in {"newline", "open", "fragment"}
  /\ synced \in 0..Len(lines)
  /\ writerRun \in Runs \cup {NoRun}
  /\ lastSequence \in Nat
  /\ pendingWrites \in Nat
  /\ needsSeparator \in BOOLEAN
  /\ writerClosed \in BOOLEAN
  /\ writerQueue \in Seq(Job)
  /\ syncing \in BOOLEAN
  /\ outcome \in [Runs \cup {NoRun} -> Outcome]

WriterInit ==
  /\ lines = <<>> /\ tail = "newline" /\ synced = 0
  /\ writerRun = NoRun /\ lastSequence = 0
  /\ pendingWrites = 0 /\ needsSeparator = FALSE /\ writerClosed = FALSE
  /\ writerQueue = <<>> /\ syncing = FALSE
  /\ outcome = [c \in Runs \cup {NoRun} |-> "none"]

-----------------------------------------------------------------------------
(* The promise queue.                                                      *)

EnqueueJob(op, event) ==
  writerQueue' = Append(writerQueue, [op |-> op, event |-> event])

CurrentJob == Head(writerQueue)
Running(op) == writerQueue # <<>> /\ CurrentJob.op = op

(* The running job settles; the chain goes on whatever the result.         *)
Settle(result) ==
  /\ outcome' = [outcome EXCEPT ![CurrentJob.event.run] = result]
  /\ writerQueue' = Tail(writerQueue)

WrongRun(event) == writerRun # NoRun /\ event.run # writerRun

(* Fault: the sequence of the last line is accepted once more.             *)
StaleSequenceOffByOne(event) == event.sequence < lastSequence
StaleSequence(event) == event.sequence <= lastSequence

(* Fault: a refused append leaves the chain without settling its promise.  *)
RejectAppendSilently ==
  /\ Running("append") /\ ~syncing
  /\ writerClosed \/ WrongRun(CurrentJob.event) \/ StaleSequence(CurrentJob.event)
  /\ writerQueue' = Tail(writerQueue)
  /\ UNCHANGED <<lines, tail, synced, writerRun, lastSequence, pendingWrites,
                 needsSeparator, writerClosed, syncing, outcome>>

(* WRITER_CLOSED, RUN_ID_MISMATCH or SEQUENCE_NOT_INCREASING: nothing is   *)
(* written, but an unbound writer is bound before the sequence is checked. *)
RejectAppend ==
  /\ Running("append") /\ ~syncing
  /\ LET event == CurrentJob.event IN
       /\ writerClosed \/ WrongRun(event) \/ StaleSequence(event)
       /\ writerRun' = IF writerClosed \/ WrongRun(event) THEN writerRun ELSE event.run
  /\ Settle("failed")
  /\ UNCHANGED <<lines, tail, synced, lastSequence, pendingWrites,
                 needsSeparator, writerClosed, syncing>>

Writable ==
  /\ Running("append") /\ ~syncing
  /\ ~writerClosed
  /\ ~WrongRun(CurrentJob.event) /\ ~StaleSequence(CurrentJob.event)

(* EVENT_WRITE_FAILED: the hook, the separator or the line is refused.     *)
(* Only a separator that was written stays.                                *)
FailWrite ==
  /\ Writable
  /\ writerRun' = CurrentJob.event.run
  /\ \/ UNCHANGED <<tail, needsSeparator>>
     \/ needsSeparator /\ needsSeparator' = FALSE /\ tail' = "newline"
  /\ Settle("failed")
  /\ UNCHANGED <<lines, synced, lastSequence, pendingWrites, writerClosed, syncing>>

(* The bytes of one serialized event land at the end of the file.  Behind  *)
(* text that no newline ends they spoil it and are spoilt by it.           *)
TailBeforeLine == IF needsSeparator THEN "newline" ELSE tail
LinesWith(event) ==
  CASE TailBeforeLine = "newline" -> Append(lines, event)
    [] TailBeforeLine = "open" -> SubSeq(lines, 1, Len(lines) - 1)
    [] TailBeforeLine = "fragment" -> lines

(* Fault: "event" mode waits for a full batch.                             *)
SyncWhenBatchFull == FlushMode # "manual" /\ pendingWrites + 1 >= BatchSize

SyncDue ==
  \/ FlushMode = "event"
  \/ FlushMode = "batch" /\ pendingWrites + 1 >= BatchSize

(* fileHandle.write() resolves.  bytesWritten is not looked at, so a short *)
(* write (a fragment, or all but the newline) counts as a written event.   *)
WriteLine ==
  /\ Writable
  /\ LET event == CurrentJob.event IN
       /\ \/ lines' = LinesWith(event) /\ tail' = "newline"
          \/ /\ ShortWrites
             /\ \/ lines' = LinesWith(event) /\ tail' = "open" /\ TailBeforeLine = "newline"
                \/ tail' = "fragment"
                   /\ lines' = IF TailBeforeLine = "open"
                                 THEN SubSeq(lines, 1, Len(lines) - 1) ELSE lines
       /\ writerRun' = event.run
       /\ lastSequence' = event.sequence
  /\ synced' = IF synced <= Len(lines') THEN synced ELSE Len(lines')
  /\ needsSeparator' = FALSE
  /\ pendingWrites' = pendingWrites + 1
  /\ IF SyncDue
       THEN syncing' = TRUE /\ UNCHANGED <<writerQueue, outcome>>
       ELSE Settle("ok") /\ UNCHANGED syncing
  /\ UNCHANGED writerClosed

(* syncInternal() of the running append: the line is in the file already,  *)
(* lastSequence has advanced, and the promise can still reject.            *)
SyncLine ==
  /\ syncing /\ syncing' = FALSE
  /\ \/ synced' = Len(lines) /\ pendingWrites' = 0 /\ Settle("ok")
     \/ UNCHANGED <<synced, pendingWrites>> /\ Settle("failed")
  /\ UNCHANGED <<lines, tail, writerRun, lastSequence, needsSeparator, writerClosed>>

(* flush() and close(): nothing to do once closed; close() stays open when *)
(* its sync fails, and is closed when the file handle refuses to be.       *)
FlushOrClose ==
  /\ Running("flush") \/ Running("close")
  /\ \/ writerClosed /\ Settle("ok") /\ UNCHANGED <<synced, pendingWrites, writerClosed>>
     \/ /\ ~writerClosed
        /\ Settle("ok") \/ (Running("close") /\ Settle("failed"))
        /\ synced' = Len(lines) /\ pendingWrites' = 0
        /\ writerClosed' = (CurrentJob.op = "close")
     \/ /\ ~writerClosed /\ Settle("failed")
        /\ UNCHANGED <<synced, pendingWrites, writerClosed>>
  /\ UNCHANGED <<lines, tail, writerRun, lastSequence, needsSeparator, syncing>>

WriterStep == RejectAppend \/ FailWrite \/ WriteLine \/ SyncLine \/ FlushOrClose

-----------------------------------------------------------------------------
(* Fault: a power loss can take lines that an fsync has covered.           *)
LoseAnyLine ==
  \E kept \in 0..Len(lines) :
    /\ lines' = SubSeq(lines, 1, kept) /\ tail' = "newline"
    /\ UNCHANGED synced

(* Power loss: the synced lines survive, any of the later ones may, and    *)
(* the last thing being written may be cut.                                *)
LoseUnsynced ==
  \E kept \in synced..Len(lines), end \in {"newline", "open", "fragment"} :
    /\ lines' = SubSeq(lines, 1, kept)
    /\ synced' = kept
    /\ tail' = end
    /\ CASE end = "newline" -> kept < Len(lines) \/ tail = "newline"
         [] end = "open" -> kept > synced \/ (kept = Len(lines) /\ tail = "open")
         [] end = "fragment" -> \/ kept < Len(lines) \/ tail = "fragment"
                                \/ Running("append")

(* Fault: open() does not take the run and sequence of the last line over. *)
OpenWriterUnscanned ==
  /\ writerRun' = NoRun /\ lastSequence' = 0
  /\ needsSeparator' = (tail # "newline")
  /\ pendingWrites' = 0 /\ writerClosed' = FALSE
  /\ writerQueue' = <<>> /\ syncing' = FALSE
  /\ outcome' = [c \in Runs \cup {NoRun} |-> "none"]
  /\ UNCHANGED <<lines, tail, synced>>

(* JsonlEventWriter.open(): the scan of the file gives run, last sequence  *)
(* and whether a separator is missing.                                     *)
OpenWriter ==
  /\ writerRun' = IF lines = <<>> THEN NoRun ELSE lines[Len(lines)].run
  /\ lastSequence' = IF lines = <<>> THEN 0 ELSE lines[Len(lines)].sequence
  /\ needsSeparator' = (tail # "newline")
  /\ pendingWrites' = 0 /\ writerClosed' = FALSE
  /\ writerQueue' = <<>> /\ syncing' = FALSE
  /\ outcome' = [c \in Runs \cup {NoRun} |-> "none"]
  /\ UNCHANGED <<lines, tail, synced>>
=============================================================================
