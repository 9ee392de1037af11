---------------------- MODULE SnapshotRecordingProofs ----------------------
(***************************************************************************)
(* Theorems about SnapshotRecording, for any set of runs, flush mode,      *)
(* batch size, short-write behaviour and bounds.                           *)
(***************************************************************************)
EXTENDS SnapshotRecording, TLAPS

USE DEF TerminalTypes, EventTypes

-----------------------------------------------------------------------------
(* The inductive invariant.                                                *)

(* What a running operation of a run is and where it stands.               *)
OperationInv(r) ==
  LET a == active[r] n == Len(events[r]) IN
  /\ nextSequence[r] = n + 1
  /\ n > 0 /\ status[r] = "running" => events[r][n].type \notin TerminalTypes
  /\ status[r] \in {"unborn", "deleted", "lost"} => n = 0 /\ a.phase = "idle"
  /\ ~alive => status[r] \in {"unborn", "lost"}
  /\ a.phase # "idle" =>
       /\ alive /\ status[r] = "running"
       /\ ~Starting(r) => opQueue[r] # <<>>
  /\ a.phase \in {"intercept", "append"} =>
       /\ a.event.run = r /\ a.event.sequence = n + 1
       /\ Starting(r) <=> n = 0
       /\ ~Starting(r) => a.event.parent \in 1..n
       /\ a.event.type = "checkpoint.created" => a.event.pin = n
  /\ a.phase = "checkpointFile" => ~Starting(r)

(* A run waits for the writer exactly as long as its job is in the chain   *)
(* or its promise has settled and the run has not been resumed.            *)
AppendOf(r, i) == writerQueue[i].op = "append" /\ writerQueue[i].event.run = r
JobInv ==
  /\ ~alive => writerQueue = <<>>
  /\ \A i \in DOMAIN writerQueue :
       IF writerQueue[i].op = "append" THEN writerQueue[i].event.run \in Runs
                                       ELSE writerQueue[i].event.run = NoRun
  /\ \A r \in Runs : \A i \in DOMAIN writerQueue : AppendOf(r, i) =>
       /\ active[r].phase = "append" /\ outcome[r] = "none"
       /\ writerQueue[i].event = active[r].event
       /\ \A j \in DOMAIN writerQueue : AppendOf(r, j) => i = j
  /\ \A r \in Runs : outcome[r] # "none" => active[r].phase = "append"
PromiseInv ==
  /\ syncing => Running("append")
  /\ renaming => manifestQueue # <<>>
  /\ JobInv

(* How far the file is ahead of the run it belongs to.                     *)
LogInv ==
  /\ alive =>
       /\ lastSequence = Len(lines)
       /\ needsSeparator \/ tail = "newline"
       /\ lines # <<>> => writerRun = lines[1].run
  /\ lines # <<>> => lines[1].run \in Runs /\ status[lines[1].run] # "unborn"
  /\ WellFormedLog
  /\ LogAgreement
  /\ \A r \in Runs : alive /\ outcome[r] = "ok" =>
       /\ lines = Append(events[r], active[r].event)
       /\ Durable => synced = Len(lines)
  /\ syncing => lines = Append(events[CurrentJob.event.run], CurrentJob.event)

IInv == TypeOK /\ (\A r \in Runs : OperationInv(r)) /\ PromiseInv /\ LogInv

-----------------------------------------------------------------------------
(* What the small operators return.                                        *)

(* The placeholder event of a flush or close job is well typed.            *)
LEMMA NoEventType == NoEvent \in Event
  BY DEF NoEvent, Event

(* The bytes of a line: one more line, one less, or none.                  *)
LEMMA LinesWithType ==
  ASSUME WriterTypeOK, NEW event \in Event
  PROVE  /\ LinesWith(event) \in Seq(Event)
         /\ TailBeforeLine = "newline" => LinesWith(event) = Append(lines, event)
BY DEF WriterTypeOK, LinesWith, TailBeforeLine

(* The running job of the writer is a job.                                 *)
LEMMA CurrentJobType ==
  ASSUME WriterTypeOK, writerQueue # <<>>
  PROVE  /\ CurrentJob \in Job /\ CurrentJob.event \in Event
         /\ CurrentJob.event.run \in Runs \cup {NoRun}
         /\ Tail(writerQueue) \in Seq(Job)
<1>1. /\ Head(writerQueue) \in Job
      /\ Tail(writerQueue) \in Seq(Job)
  BY DEF WriterTypeOK
<1> QED
  BY <1>1 DEF CurrentJob, Job, Event

(* buildEvent() yields a well-typed event.                                 *)
LEMMA BuildEventType ==
  ASSUME RecorderTypeOK, NEW r \in Runs, Ready(r)
  PROVE  BuildEvent(r, Head(opQueue[r])) \in Event
<1> DEFINE op == Head(opQueue[r])
<1>1. op \in Operation
  BY DEF RecorderTypeOK, Ready
<1>2. /\ nextSequence[r] \in Nat /\ Len(events[r]) \in Nat
      /\ ParentOf(r, op) \in Nat
  BY <1>1 DEF RecorderTypeOK, ParentOf, Operation
<1>3. (IF op.method = "appendEvent" THEN op.type ELSE Emits[op.method]) \in EventTypes
  BY <1>1 DEF Operation, Emits
<1> QED
  BY <1>2, <1>3 DEF BuildEvent, Event

(* getManifest() of a run that has a handle is a manifest.                 *)
LEMMA ManifestOfType ==
  ASSUME RecorderTypeOK, NEW r \in Runs
  PROVE  ManifestOf(r) \in Manifest
BY DEF RecorderTypeOK, ManifestOf, Manifest, Status

-----------------------------------------------------------------------------
(* Each part of the state keeps its type in each step of that part.        *)

(* Chaining a job keeps the promise queue well typed.                      *)
LEMMA EnqueueJobType ==
  ASSUME WriterTypeOK, NEW op \in {"append", "flush", "close"}, NEW event \in Event,
         EnqueueJob(op, event),
         UNCHANGED <<lines, tail, synced, writerRun, lastSequence, pendingWrites,
                     needsSeparator, writerClosed, syncing, outcome>>
  PROVE  WriterTypeOK'
<1>1. writerQueue' \in Seq(Job)
  BY DEF WriterTypeOK, EnqueueJob, Job
<1> QED
  BY <1>1 DEF WriterTypeOK

(* Settling the running job keeps queue and outcomes well typed.           *)
LEMMA SettleType ==
  ASSUME WriterTypeOK, writerQueue # <<>>, NEW result \in {"ok", "failed"}, Settle(result)
  PROVE  /\ writerQueue' \in Seq(Job)
         /\ outcome' \in [Runs \cup {NoRun} -> Outcome]
BY CurrentJobType DEF WriterTypeOK, Settle, Outcome

(* Every step of the line writer keeps its state well typed.               *)
LEMMA WriterStepType ==
  ASSUME WriterTypeOK, WriterStep, syncing => writerQueue # <<>>
  PROVE  WriterTypeOK'
<1>1. CASE RejectAppend
  <2>1. writerQueue # <<>> /\ Settle("failed")
    BY <1>1 DEF RejectAppend, Running
  <2>2. writerRun' \in Runs \cup {NoRun}
    BY <1>1, <2>1, CurrentJobType DEF RejectAppend, WriterTypeOK
  <2>3. /\ writerQueue' \in Seq(Job)
        /\ outcome' \in [Runs \cup {NoRun} -> Outcome]
    BY <2>1, SettleType
  <2>4. UNCHANGED <<lines, tail, synced, lastSequence, pendingWrites,
                      needsSeparator, writerClosed, syncing>>
    BY <1>1 DEF RejectAppend
  <2>5. /\ tail' \in {"newline", "open", "fragment"}
        /\ needsSeparator' \in BOOLEAN
    BY <1>1 DEF RejectAppend, WriterTypeOK
  <2> QED
    BY <2>2, <2>3, <2>4, <2>5 DEF WriterTypeOK
<1>2. CASE FailWrite
  <2>1. writerQueue # <<>> /\ Settle("failed")
    BY <1>2 DEF FailWrite, Writable, Running
  <2>2. writerRun' \in Runs \cup {NoRun}
    BY <1>2, <2>1, CurrentJobType DEF FailWrite, WriterTypeOK
  <2>3. /\ writerQueue' \in Seq(Job)
        /\ outcome' \in [Runs \cup {NoRun} -> Outcome]
    BY <2>1, SettleType
  <2>4. UNCHANGED <<lines, synced, lastSequence, pendingWrites, writerClosed, syncing>>
    BY <1>2 DEF FailWrite
  <2>5. /\ tail' \in {"newline", "open", "fragment"}
        /\ needsSeparator' \in BOOLEAN
    BY <1>2 DEF FailWrite, WriterTypeOK
  <2> QED
    BY <2>2, <2>3, <2>4, <2>5 DEF WriterTypeOK
<1>3. CASE WriteLine
  <2>1. writerQueue # <<>> /\ CurrentJob.event \in Event
    BY <1>3, CurrentJobType DEF WriteLine, Writable, Running
  <2>2. lines' \in Seq(Event) /\ tail' \in {"newline", "open", "fragment"}
    <3>1. /\ lines' \in {LinesWith(CurrentJob.event), lines, SubSeq(lines, 1, Len(lines) - 1)}
          /\ tail' \in {"newline", "open", "fragment"}
      BY <1>3 DEF WriteLine
    <3>2. lines \in Seq(Event) /\ SubSeq(lines, 1, Len(lines) - 1) \in Seq(Event)
      BY DEF WriterTypeOK
    <3> QED
      BY <2>1, <3>1, <3>2, LinesWithType
  <2>3. synced' \in 0..Len(lines')
    BY <1>3, <2>2 DEF WriteLine, WriterTypeOK
  <2>4. /\ writerRun' \in Runs \cup {NoRun} /\ lastSequence' \in Nat
        /\ pendingWrites' \in Nat /\ needsSeparator' \in BOOLEAN
        /\ writerClosed' \in BOOLEAN
    <3>1. /\ CurrentJob.event.run \in Runs \cup {NoRun}
          /\ CurrentJob.event.sequence \in Nat
      BY <2>1 DEF Event
    <3>2. /\ writerRun' = CurrentJob.event.run
          /\ lastSequence' = CurrentJob.event.sequence
          /\ pendingWrites' = pendingWrites + 1
      BY <1>3 DEF WriteLine
    <3>3. needsSeparator' \in BOOLEAN /\ writerClosed' \in BOOLEAN
      BY <1>3 DEF WriteLine, WriterTypeOK
    <3> QED
      BY <3>1, <3>2, <3>3 DEF WriterTypeOK
  <2>5. /\ writerQueue' \in Seq(Job) /\ syncing' \in BOOLEAN
        /\ outcome' \in [Runs \cup {NoRun} -> Outcome]
    BY <1>3, <2>1, SettleType DEF WriteLine, WriterTypeOK
  <2> QED
    BY <2>2, <2>3, <2>4, <2>5 DEF WriterTypeOK
<1>4. CASE SyncLine
  <2>1. writerQueue # <<>> /\ (Settle("ok") \/ Settle("failed"))
    BY <1>4 DEF SyncLine
  <2>2. /\ writerQueue' \in Seq(Job)
        /\ outcome' \in [Runs \cup {NoRun} -> Outcome]
    BY <2>1, SettleType
  <2>3. UNCHANGED <<lines, tail, writerRun, lastSequence, needsSeparator>>
    BY <1>4 DEF SyncLine
  <2>4. /\ synced' \in 0..Len(lines) /\ pendingWrites' \in Nat
        /\ writerClosed' \in BOOLEAN /\ syncing' \in BOOLEAN
    <3>1. synced' \in {synced, Len(lines)} /\ pendingWrites' \in {pendingWrites, 0}
      BY <1>4 DEF SyncLine
    <3>2. writerClosed' \in BOOLEAN /\ syncing' \in BOOLEAN
      BY <1>4 DEF SyncLine, WriterTypeOK
    <3> QED
      BY <3>1, <3>2 DEF WriterTypeOK
  <2> QED
    BY <2>2, <2>3, <2>4 DEF WriterTypeOK
<1>5. CASE FlushOrClose
  <2>1. writerQueue # <<>> /\ (Settle("ok") \/ Settle("failed"))
    BY <1>5 DEF FlushOrClose, Running
  <2>2. /\ writerQueue' \in Seq(Job)
        /\ outcome' \in [Runs \cup {NoRun} -> Outcome]
    BY <2>1, SettleType
  <2>3. UNCHANGED <<lines, tail, writerRun, lastSequence, needsSeparator>>
    BY <1>5 DEF FlushOrClose
  <2>4. /\ synced' \in 0..Len(lines) /\ pendingWrites' \in Nat
        /\ writerClosed' \in BOOLEAN /\ syncing' \in BOOLEAN
    <3>1. synced' \in {synced, Len(lines)} /\ pendingWrites' \in {pendingWrites, 0}
      BY <1>5 DEF FlushOrClose
    <3>2. writerClosed' \in BOOLEAN /\ syncing' \in BOOLEAN
      BY <1>5 DEF FlushOrClose, WriterTypeOK
    <3> QED
      BY <3>1, <3>2 DEF WriterTypeOK
  <2> QED
    BY <2>2, <2>3, <2>4 DEF WriterTypeOK
<1> QED
  BY <1>1, <1>2, <1>3, <1>4, <1>5 DEF WriterStep

(* What a crash leaves of the file is well typed.                          *)
LEMMA LoseUnsyncedType ==
  ASSUME WriterTypeOK, LoseUnsynced
  PROVE  /\ lines' \in Seq(Event) /\ synced' \in 0..Len(lines')
         /\ tail' \in {"newline", "open", "fragment"}
<1>1. PICK kept \in synced..Len(lines) :
        /\ lines' = SubSeq(lines, 1, kept) /\ synced' = kept
        /\ tail' \in {"newline", "open", "fragment"}
  BY DEF LoseUnsynced
<1>2. kept \in 0..Len(lines)
  BY <1>1 DEF WriterTypeOK
<1> QED
  BY <1>1, <1>2 DEF WriterTypeOK

(* open() makes a well-typed writer of any file.                           *)
LEMMA OpenWriterType ==
  ASSUME WriterTypeOK, OpenWriter
  PROVE  WriterTypeOK'
<1>1. /\ writerRun' \in Runs \cup {NoRun}
      /\ lastSequence' \in Nat
  <2>1. lines # <<>> => lines[Len(lines)] \in Event
    BY DEF WriterTypeOK
  <2> QED
    BY <2>1 DEF OpenWriter, Event
<1>2. needsSeparator' \in BOOLEAN
  BY DEF OpenWriter
<1>3. writerClosed' \in BOOLEAN /\ syncing' \in BOOLEAN
  BY DEF OpenWriter
<1>4. pendingWrites' = 0 /\ writerQueue' = <<>>
  BY DEF OpenWriter
<1>5. outcome' \in [Runs \cup {NoRun} -> Outcome]
  BY DEF OpenWriter, Outcome
<1>6. UNCHANGED <<lines, tail, synced>>
  BY DEF OpenWriter
<1> QED
  BY <1>1, <1>2, <1>3, <1>4, <1>5, <1>6 DEF WriterTypeOK

(* One lemma for each operation of the recorder.                           *)
LEMMA AbandonType ==
  ASSUME RecorderTypeOK, NEW r \in Runs, Abandon(r),
         ~Starting(r) => opQueue[r] # <<>>
  PROVE  RecorderTypeOK'
<1>1. Idle \in Active
  BY NoEventType DEF Idle, Active
<1>2. active' \in [Runs -> Active]
  <2>1. active' = [active EXCEPT ![r] = Idle]
    BY DEF Abandon
  <2> QED
    BY <1>1, <2>1 DEF RecorderTypeOK
<1>3. /\ status' \in [Runs -> Status]
      /\ opQueue' \in [Runs -> Seq(Operation)]
  <2>1. opQueue[r] # <<>> => Tail(opQueue[r]) \in Seq(Operation)
    BY DEF RecorderTypeOK
  <2>2. "deleted" \in Status
    BY DEF Status
  <2>3. \/ opQueue' = opQueue
        \/ opQueue[r] # <<>> /\ opQueue' = [opQueue EXCEPT ![r] = Tail(@)]
    BY DEF Abandon
  <2>4. status' = status \/ status' = [status EXCEPT ![r] = "deleted"]
    BY DEF Abandon
  <2>5. status' \in [Runs -> Status]
    BY <2>2, <2>4 DEF RecorderTypeOK
  <2>6. opQueue' \in [Runs -> Seq(Operation)]
    BY <2>1, <2>3 DEF RecorderTypeOK
  <2> QED
    BY <2>5, <2>6
<1> QED
  BY <1>2, <1>3 DEF Abandon, RecorderTypeOK

(* commitEvent() keeps the run records well typed.                         *)
LEMMA CommitType ==
  ASSUME RecorderTypeOK, NEW r \in Runs, CommitEvent(r),
         ~Starting(r) => opQueue[r] # <<>>
  PROVE  RecorderTypeOK'
<1>1. active[r].event \in Event /\ Idle \in Active
  BY NoEventType DEF RecorderTypeOK, Idle, Active
<1>2. events' \in [Runs -> Seq(Event)]
  BY <1>1 DEF CommitEvent, RecorderTypeOK
<1>3. nextSequence' \in [Runs -> Nat \ {0}]
  BY DEF CommitEvent, RecorderTypeOK
<1>4. status' \in [Runs -> Status]
  BY DEF CommitEvent, RecorderTypeOK, Status, StatusAfter, TerminalStatus
<1>5. active' \in [Runs -> Active]
  <2>1. [active[r] EXCEPT !.phase = "checkpointFile"] \in Active
    BY DEF RecorderTypeOK, Active
  <2>2. \/ active' = [active EXCEPT ![r] = Idle]
        \/ active' = [active EXCEPT ![r].phase = "checkpointFile"]
    BY DEF CommitEvent
  <2> QED
    BY <1>1, <2>1, <2>2 DEF RecorderTypeOK
<1>6. opQueue' \in [Runs -> Seq(Operation)]
  <2>1. opQueue[r] # <<>> => Tail(opQueue[r]) \in Seq(Operation)
    BY DEF RecorderTypeOK
  <2>2. \/ opQueue' = opQueue
        \/ opQueue[r] # <<>> /\ opQueue' = [opQueue EXCEPT ![r] = Tail(@)]
    BY DEF CommitEvent, RecorderTypeOK
  <2> QED
    BY <2>1, <2>2 DEF RecorderTypeOK
<1> QED
  BY <1>2, <1>3, <1>4, <1>5, <1>6 DEF CommitEvent, RecorderTypeOK

(* startRun() keeps the run records well typed.                            *)
LEMMA StartRunType ==
  ASSUME RecorderTypeOK, NEW r \in Runs, StartRun(r)
  PROVE  RecorderTypeOK'
<1> DEFINE event == [run |-> r, sequence |-> nextSequence[r],
                     type |-> "run.started", parent |-> 0, pin |-> 0]
<1>0. [phase |-> "intercept", event |-> event] \in Active
  BY DEF RecorderTypeOK, Active, Event
<1>1. active' \in [Runs -> Active]
  BY <1>0 DEF StartRun, RecorderTypeOK
<1> QED
  BY <1>1 DEF StartRun, RecorderTypeOK, Status

(* Building an operation's event keeps the run records well typed.         *)
LEMMA BeginOperationType ==
  ASSUME RecorderTypeOK, NEW r \in Runs, BeginOperation(r)
  PROVE  RecorderTypeOK'
<1>1. active' \in [Runs -> Active]
  BY BuildEventType DEF BeginOperation, RecorderTypeOK, Active
<1> QED
  BY <1>1 DEF BeginOperation, RecorderTypeOK

(* Handing an event to the writer keeps the run records well typed.        *)
LEMMA SubmitEventType ==
  ASSUME RecorderTypeOK, NEW r \in Runs, SubmitEvent(r)
  PROVE  RecorderTypeOK'
<1>1. [active[r] EXCEPT !.phase = "append"] \in Active
  BY DEF RecorderTypeOK, Active
<1> QED
  BY <1>1 DEF SubmitEvent, RecorderTypeOK

(* Ending a checkpoint keeps the run records well typed.                   *)
LEMMA AfterCheckpointType ==
  ASSUME RecorderTypeOK, NEW r \in Runs, AfterCheckpoint(r), opQueue[r] # <<>>
  PROVE  RecorderTypeOK'
<1>1. Idle \in Active
  BY NoEventType DEF Idle, Active
<1>2. Tail(opQueue[r]) \in Seq(Operation)
  BY DEF RecorderTypeOK
<1> QED
  BY <1>1, <1>2 DEF AfterCheckpoint, RecorderTypeOK

(* Rejecting an operation keeps the run records well typed.                *)
LEMMA RejectOperationType ==
  ASSUME RecorderTypeOK, NEW r \in Runs, RejectOperation(r)
  PROVE  RecorderTypeOK'
<1>1. Tail(opQueue[r]) \in Seq(Operation)
  BY DEF RecorderTypeOK, RejectOperation, Ready
<1> QED
  BY <1>1 DEF RejectOperation, RecorderTypeOK

(* Chaining an operation keeps the run records well typed.                 *)
LEMMA CallType ==
  ASSUME RecorderTypeOK, NEW r \in Runs, NEW op \in Operation, Call(r, op)
  PROVE  RecorderTypeOK'
<1>1. Append(opQueue[r], op) \in Seq(Operation)
  BY DEF RecorderTypeOK
<1> QED
  BY <1>1 DEF Call, RecorderTypeOK

(* markIncomplete() keeps the run records well typed.                      *)
LEMMA MarkIncompleteType ==
  ASSUME RecorderTypeOK, NEW r \in Runs, MarkIncomplete(r)
  PROVE  RecorderTypeOK'
BY DEF MarkIncomplete, RecorderTypeOK

(* The calls the program makes are operations.                             *)
LEMMA OperationsType ==
  ASSUME RecorderTypeOK, NEW r \in Runs
  PROVE  Operations(r) \subseteq Operation
<1>1. Len(events[r]) \in Nat
  BY DEF RecorderTypeOK
<1>2. DOMAIN Emits = {"completeRun", "failRun", "observeRun", "checkpoint"}
  BY DEF Emits
<1> DEFINE
      Parents == 0..Len(events[r])
      Appends == [method : Methods \cap {"appendEvent"}, type : {"call", "run.completed"},
                  parent : Parents, latest : {FALSE}]
      Defaults == [method : Methods \cap DOMAIN Emits, type : {"none"}, parent : {0},
                   latest : {TRUE}]
      Explicit == [method : Methods \cap {"failRun"}, type : {"none"}, parent : Parents,
                   latest : {FALSE}]
<1>3. Parents \subseteq Nat
  BY <1>1
<1>4. Appends \subseteq Operation
  BY <1>3 DEF Operation
<1>5. Defaults \subseteq Operation
  <2>1. SUFFICES ASSUME NEW op \in Defaults PROVE op \in Operation
    OBVIOUS
  <2>2. op.latest = TRUE /\ op.latest \in BOOLEAN
    OBVIOUS
  <2>3. op.parent \in Nat /\ op.type \in EventTypes
    OBVIOUS
  <2> QED
    BY <1>2, <2>2, <2>3 DEF Operation
<1>6. Explicit \subseteq Operation
  BY <1>2, <1>3 DEF Operation
<1>7. Operations(r) = Appends \cup Defaults \cup Explicit
  BY DEF Operations
<1> QED
  BY <1>4, <1>5, <1>6, <1>7

(* Every step of the manifest queue keeps its state well typed.            *)
LEMMA ManifestStepType ==
  ASSUME ManifestTypeOK, ManifestStep, renaming => manifestQueue # <<>>
  PROVE  ManifestTypeOK'
<1>1. manifestQueue # <<>>
  BY DEF ManifestStep, RejectCommit, WriteTmpManifest, FailTmpManifest, RenameManifest,
         WritableManifest
<1>2. /\ CurrentManifest \in Manifest
      /\ Tail(manifestQueue) \in Seq([op : {"write", "commit"}, manifest : Manifest])
  <2> DEFINE Entry == [op : {"write", "commit"}, manifest : Manifest]
  <2>1. manifestQueue \in Seq(Entry)
    BY DEF ManifestTypeOK
  <2>2. Head(manifestQueue).manifest \in Manifest
    <3>1. Head(manifestQueue) \in Entry
      <4> HIDE DEF Entry
      <4> QED
        BY <1>1, <2>1
    <3> QED
      BY <3>1
  <2>3. Tail(manifestQueue) \in Seq(Entry)
    <3> HIDE DEF Entry
    <3> QED
      BY <1>1, <2>1
  <2> QED
    BY <2>2, <2>3 DEF CurrentManifest
<1>3. Torn \in Manifest /\ Absent \in Manifest
  BY DEF Torn, Absent, Manifest
<1>4. manifestQueue' \in {manifestQueue, Tail(manifestQueue)}
  BY DEF ManifestStep, RejectCommit, WriteTmpManifest, FailTmpManifest, RenameManifest
<1>5. /\ tmpManifest' \in {tmpManifest, CurrentManifest, Torn, Absent}
      /\ finalManifest' \in {tmpManifest, finalManifest}
  BY DEF ManifestStep, RejectCommit, WriteTmpManifest, FailTmpManifest, RenameManifest
<1>6. renaming' \in BOOLEAN
  BY DEF ManifestStep, RejectCommit, WriteTmpManifest, FailTmpManifest, RenameManifest,
         ManifestTypeOK
<1> QED
  BY <1>2, <1>3, <1>4, <1>5, <1>6 DEF ManifestTypeOK

-----------------------------------------------------------------------------
(* Type correctness.                                                       *)

(* The initial state is well typed.                                        *)
LEMMA InitType == Init => TypeOK
<1> SUFFICES ASSUME Init PROVE TypeOK
  OBVIOUS
<1>1. WriterTypeOK
  <2>1. outcome \in [Runs \cup {NoRun} -> Outcome]
    BY DEF Init, WriterInit, Outcome
  <2>2. needsSeparator \in BOOLEAN /\ writerClosed \in BOOLEAN /\ syncing \in BOOLEAN
    BY DEF Init, WriterInit
  <2>3. /\ lines = <<>> /\ tail = "newline" /\ synced = 0 /\ writerRun = NoRun
        /\ lastSequence = 0 /\ pendingWrites = 0 /\ writerQueue = <<>>
    BY DEF Init, WriterInit
  <2> QED
    BY <2>1, <2>2, <2>3 DEF WriterTypeOK
<1>2. RecorderTypeOK
  BY NoEventType DEF Init, RecorderInit, RecorderTypeOK, Status, Idle, Active
<1>3. ManifestTypeOK
  <2>1. Absent \in Manifest
    BY DEF Absent, Manifest
  <2>2. renaming \in BOOLEAN
    BY DEF Init, ManifestInit
  <2>3. manifestQueue = <<>> /\ tmpManifest = Absent /\ finalManifest = Absent
    BY DEF Init, ManifestInit
  <2> QED
    BY <2>1, <2>2, <2>3 DEF ManifestTypeOK
<1>4. checkpointFiles \subseteq CheckpointFile /\ closeStep \in CloseStep /\ alive \in BOOLEAN
  BY DEF Init, CloseStep
<1> QED
  BY <1>1, <1>2, <1>3, <1>4 DEF TypeOK

(* The writer's types survive a step that leaves it alone.                 *)
LEMMA WriterUnchanged == WriterTypeOK /\ UNCHANGED writerVars => WriterTypeOK'
  BY DEF WriterTypeOK, writerVars

(* The recorder's types survive a step that leaves it alone.               *)
LEMMA RecorderUnchanged == RecorderTypeOK /\ UNCHANGED recorderVars => RecorderTypeOK'
  BY DEF RecorderTypeOK, recorderVars

(* The manifests' types survive a step that leaves them alone.             *)
LEMMA ManifestUnchanged == ManifestTypeOK /\ UNCHANGED manifestVars => ManifestTypeOK'
  BY DEF ManifestTypeOK, manifestVars

OwnTypeOK ==
  checkpointFiles \subseteq CheckpointFile /\ closeStep \in CloseStep /\ alive \in BOOLEAN

(* So do those of checkpoint files, close() and the process.               *)
LEMMA OwnUnchanged ==
  OwnTypeOK /\ UNCHANGED <<checkpointFiles, closeStep, alive>> => OwnTypeOK'
  BY DEF OwnTypeOK

(* Every step of the system keeps its state well typed.                    *)
LEMMA NextType ==
  ASSUME TypeOK, \A r \in Runs : OperationInv(r), PromiseInv, [Next]_vars
  PROVE  TypeOK'
<1> USE DEF TypeOK
<1>0. TypeOK' <=> WriterTypeOK' /\ RecorderTypeOK' /\ ManifestTypeOK' /\ OwnTypeOK'
  BY DEF OwnTypeOK
<1>00. OwnTypeOK
  BY DEF OwnTypeOK
<1>1. ASSUME NEW r \in Runs, Start(r) PROVE TypeOK'
  BY <1>0, <1>00, <1>1, StartRunType, WriterUnchanged, ManifestUnchanged, OwnUnchanged DEF Start
<1>2. ASSUME NEW r \in Runs, Request(r) PROVE TypeOK'
  BY <1>0, <1>00, <1>2, CallType, OperationsType, WriterUnchanged, ManifestUnchanged,
     OwnUnchanged DEF Request
<1>3. ASSUME NEW r \in Runs, Downgrade(r) PROVE TypeOK'
  BY <1>0, <1>00, <1>3, MarkIncompleteType, WriterUnchanged, ManifestUnchanged, OwnUnchanged
     DEF Downgrade
<1>4. ASSUME NEW r \in Runs, NEW op \in {"write", "commit"}, RequestManifest(r, op)
      PROVE  TypeOK'
  <2>1. ManifestTypeOK'
    BY <1>4, ManifestOfType DEF RequestManifest, ManifestTypeOK
  <2> QED
    BY <1>0, <1>00, <1>4, <2>1, WriterUnchanged, RecorderUnchanged, OwnUnchanged
       DEF RequestManifest
<1>5. ASSUME NEW r \in Runs, Begin(r) PROVE TypeOK'
  <2>1. active[r].phase = "intercept" /\ ~Starting(r) => opQueue[r] # <<>>
    BY DEF OperationInv
  <2>2. RecorderTypeOK'
    BY <1>5, <2>1, BeginOperationType, RejectOperationType, AbandonType
       DEF Begin, InterceptorFails
  <2> QED
    BY <1>0, <1>00, <1>5, <2>2, WriterUnchanged, ManifestUnchanged, OwnUnchanged DEF Begin
<1>6. ASSUME NEW r \in Runs, Submit(r) PROVE TypeOK'
  <2>1. active[r].event \in Event
    BY DEF RecorderTypeOK, Active
  <2>2. WriterTypeOK'
    BY <1>6, <2>1, EnqueueJobType DEF Submit
  <2> QED
    BY <1>0, <1>00, <1>6, <2>2, SubmitEventType, ManifestUnchanged, OwnUnchanged DEF Submit
<1>7. ASSUME NEW r \in Runs, Resume(r) PROVE TypeOK'
  <2>1. active[r].phase = "append" /\ ~Starting(r) => opQueue[r] # <<>>
    BY DEF OperationInv
  <2>2. RecorderTypeOK'
    <3>1. CASE CommitEvent(r)
      BY <3>1, <2>1, CommitType DEF CommitEvent
    <3>2. CASE AbortEvent(r)
      BY <3>2, <2>1, AbandonType DEF AbortEvent
    <3> QED
      BY <1>7, <3>1, <3>2 DEF Resume
  <2>3. WriterTypeOK'
    <3>1. outcome' \in [Runs \cup {NoRun} -> Outcome]
      BY <1>7 DEF Resume, WriterTypeOK, Outcome
    <3> QED
      BY <1>7, <3>1 DEF Resume, WriterTypeOK
  <2> QED
    BY <1>0, <1>00, <1>7, <2>2, <2>3, ManifestUnchanged, OwnUnchanged DEF Resume
<1>8. ASSUME NEW r \in Runs, SaveCheckpoint(r) PROVE TypeOK'
  <2>1. active[r].phase = "checkpointFile" => opQueue[r] # <<>>
    BY DEF OperationInv
  <2>2. RecorderTypeOK'
    BY <1>8, <2>1, AfterCheckpointType DEF SaveCheckpoint, AfterCheckpoint
  <2>3. OwnTypeOK'
    <3>1. active[r].event.pin \in Nat
      BY DEF RecorderTypeOK, Active, Event
    <3> QED
      BY <1>8, <3>1 DEF SaveCheckpoint, OwnTypeOK, CheckpointFile
  <2> QED
    BY <1>0, <1>8, <2>2, <2>3, WriterUnchanged, ManifestUnchanged DEF SaveCheckpoint
<1>9. ASSUME WriteEvents PROVE TypeOK'
  <2>1. syncing => writerQueue # <<>>
    BY DEF PromiseInv, Running
  <2> QED
    BY <1>0, <1>00, <1>9, <2>1, WriterStepType, RecorderUnchanged, ManifestUnchanged,
       OwnUnchanged DEF WriteEvents
<1>10. ASSUME WriteManifests PROVE TypeOK'
  <2>1. renaming => manifestQueue # <<>>
    BY DEF PromiseInv
  <2> QED
    BY <1>0, <1>00, <1>10, <2>1, ManifestStepType, RecorderUnchanged, WriterUnchanged,
       OwnUnchanged DEF WriteManifests
<1>11. ASSUME Close \/ ContinueClose PROVE TypeOK'
  <2>1. WriterTypeOK'
    <3>1. CASE EnqueueForOwner("flush") \/ EnqueueForOwner("close")
      BY <3>1, EnqueueJobType, NoEventType DEF EnqueueForOwner
    <3>2. CASE TakeOwnerOutcome
      BY <3>2 DEF TakeOwnerOutcome, WriterTypeOK, Outcome
    <3>3. CASE closeStep = "draining"
      BY <1>11, <3>1, <3>3 DEF Close, ContinueClose
    <3> QED
      BY <1>11, <3>1, <3>2 DEF Close, ContinueClose
  <2>2. OwnTypeOK'
    BY <1>11 DEF Close, ContinueClose, OwnTypeOK, CloseStep
  <2> QED
    BY <1>0, <1>11, <2>1, <2>2, RecorderUnchanged, ManifestUnchanged DEF Close, ContinueClose
<1>12. ASSUME Crash PROVE TypeOK'
  <2>1. WriterTypeOK'
    <3>1. outcome' \in [Runs \cup {NoRun} -> Outcome]
      BY <1>12 DEF Crash, Outcome
    <3>2. /\ writerRun' = NoRun /\ lastSequence' = 0 /\ pendingWrites' = 0
          /\ writerQueue' = <<>>
      BY <1>12 DEF Crash
    <3>3. needsSeparator' \in BOOLEAN /\ writerClosed' \in BOOLEAN /\ syncing' \in BOOLEAN
      BY <1>12 DEF Crash
    <3> QED
      BY <1>12, <3>1, <3>2, <3>3, LoseUnsyncedType DEF Crash, WriterTypeOK
  <2>2. RecorderTypeOK'
    <3>1. status' \in [Runs -> Status]
      BY <1>12 DEF Crash, Status, RecorderTypeOK
    <3>2. active' \in [Runs -> Active]
      BY <1>12, NoEventType DEF Crash, Idle, Active
    <3> QED
      BY <1>12, <3>1, <3>2 DEF Crash, RecorderTypeOK
  <2>3. ManifestTypeOK'
    <3>1. Torn \in Manifest /\ Absent \in Manifest
      BY DEF Torn, Absent, Manifest
    <3>2. /\ manifestQueue' = <<>>
          /\ tmpManifest' \in {tmpManifest, finalManifest, Torn}
          /\ finalManifest' \in {finalManifest, Absent}
      BY <1>12 DEF Crash, LoseManifestWork
    <3>3. renaming' \in BOOLEAN
      BY <1>12 DEF Crash, LoseManifestWork
    <3> QED
      BY <3>1, <3>2, <3>3 DEF ManifestTypeOK
  <2>4. OwnTypeOK'
    BY <1>12, <1>00 DEF Crash, OwnTypeOK, CloseStep
  <2> QED
    BY <1>0, <2>1, <2>2, <2>3, <2>4
<1>13. ASSUME Reopen PROVE TypeOK'
  BY <1>0, <1>00, <1>13, OpenWriterType, RecorderUnchanged, ManifestUnchanged DEF Reopen, OwnTypeOK
<1>14. ASSUME UNCHANGED vars PROVE TypeOK'
  BY <1>0, <1>00, <1>14, WriterUnchanged, RecorderUnchanged, ManifestUnchanged, OwnUnchanged
     DEF vars
<1> QED
  BY <1>1, <1>2, <1>3, <1>4, <1>5, <1>6, <1>7, <1>8, <1>9, <1>10, <1>11, <1>12, <1>13, <1>14
     DEF Next

-----------------------------------------------------------------------------
(* Every operation in flight is what the invariant says.                   *)

(* A step that leaves a run's record alone keeps its invariant.            *)
LEMMA SameOperation ==
  ASSUME NEW q \in Runs, OperationInv(q), alive' = alive,
         events'[q] = events[q], nextSequence'[q] = nextSequence[q],
         status'[q] = status[q], active'[q] = active[q],
         opQueue[q] # <<>> => opQueue'[q] # <<>>
  PROVE  OperationInv(q)'
BY DEF OperationInv, Starting

(* An operation that settles without a commit keeps it.                    *)
LEMMA AbandonOperation ==
  ASSUME TypeOK, NEW r \in Runs, NEW q \in Runs, \A p \in Runs : OperationInv(p),
         Abandon(r), active[r].phase \in {"intercept", "append"}, alive' = alive
  PROVE  OperationInv(q)'
<1>0. RecorderTypeOK
  BY DEF TypeOK
<1>1. CASE q = r
  <2>1. /\ active'[r] = Idle
        /\ events'[r] = events[r] /\ nextSequence'[r] = nextSequence[r]
    BY <1>0 DEF Abandon, RecorderTypeOK
  <2>2. IF Starting(r) THEN status'[r] = "deleted" ELSE status'[r] = status[r]
    BY <1>0 DEF Abandon, RecorderTypeOK
  <2>3. status[r] = "running" /\ (Starting(r) <=> Len(events[r]) = 0)
    BY DEF OperationInv
  <2>4. active'[r].phase = "idle"
    BY <2>1 DEF Idle
  <2> QED
    BY <1>1, <2>1, <2>2, <2>3, <2>4 DEF OperationInv
<1>2. CASE q # r
  <2>1. /\ active'[q] = active[q] /\ status'[q] = status[q] /\ opQueue'[q] = opQueue[q]
        /\ events' = events /\ nextSequence' = nextSequence
    BY <1>0, <1>2 DEF Abandon, RecorderTypeOK
  <2> QED
    BY <2>1, SameOperation
<1> QED
  BY <1>1, <1>2

(* commitEvent() keeps it.                                                 *)
LEMMA CommitOperation ==
  ASSUME TypeOK, NEW r \in Runs, NEW q \in Runs, \A p \in Runs : OperationInv(p),
         CommitEvent(r), alive' = alive
  PROVE  OperationInv(q)'
<1>0. RecorderTypeOK
  BY DEF TypeOK
<1>1. CASE q = r
  <2> DEFINE event == active[r].event
             n == Len(events[r])
  <2>1. /\ event \in Event /\ n \in Nat /\ active[r].phase = "append"
        /\ nextSequence[r] = n + 1 /\ status[r] = "running" /\ alive
        /\ event.type = "run.started" <=> n = 0
    BY <1>0 DEF RecorderTypeOK, Active, CommitEvent, OperationInv, Starting
  <2>2. /\ events'[r] = Append(events[r], event) /\ nextSequence'[r] = n + 2
        /\ status'[r] = IF event.type \in TerminalTypes THEN StatusAfter[event.type]
                                                        ELSE "running"
    BY <1>0, <2>1 DEF CommitEvent, RecorderTypeOK
  <2>3. /\ Len(events'[r]) = n + 1 /\ events'[r][n + 1] = event
    BY <1>0, <2>1, <2>2 DEF RecorderTypeOK
  <2>4. event.type \in TerminalTypes => status'[r] \in TerminalStatus
    BY <2>2 DEF StatusAfter, TerminalStatus
  <2>5. CASE event.type = "checkpoint.created"
    <3>1. /\ active'[r].phase = "checkpointFile" /\ active'[r].event = event
          /\ opQueue' = opQueue /\ status'[r] = "running"
      BY <1>0, <2>2, <2>5 DEF CommitEvent, RecorderTypeOK, Active
    <3>2. opQueue[r] # <<>>
      BY <2>1, <2>5 DEF OperationInv, Starting
    <3> QED
      BY <1>1, <2>1, <2>2, <2>3, <2>5, <3>1, <3>2 DEF OperationInv, Starting
  <2>6. CASE event.type # "checkpoint.created"
    <3>1. active'[r].phase = "idle"
      BY <1>0, <2>6 DEF CommitEvent, RecorderTypeOK, Idle
    <3>2. status'[r] \in {"running"} \cup TerminalStatus
      BY <2>2, <2>4
    <3> QED
      BY <1>1, <2>1, <2>2, <2>3, <2>4, <3>1, <3>2 DEF OperationInv, TerminalStatus
  <2> QED
    BY <2>5, <2>6
<1>2. CASE q # r
  <2>1. /\ active'[q] = active[q] /\ status'[q] = status[q] /\ opQueue'[q] = opQueue[q]
        /\ events'[q] = events[q] /\ nextSequence'[q] = nextSequence[q]
    BY <1>0, <1>2 DEF CommitEvent, RecorderTypeOK
  <2> QED
    BY <2>1, SameOperation
<1> QED
  BY <1>1, <1>2

(* Building the event of an admissible operation establishes it.           *)
LEMMA BeginOneOperation ==
  ASSUME TypeOK, NEW r \in Runs, NEW q \in Runs, \A p \in Runs : OperationInv(p),
         BeginOperation(r), alive, alive' = alive
  PROVE  OperationInv(q)'
<1>0. RecorderTypeOK
  BY DEF TypeOK
<1>1. CASE q = r
  <2> DEFINE op == Head(opQueue[r])
             event == BuildEvent(r, op)
             n == Len(events[r])
  <2>1. /\ n \in Nat /\ nextSequence[r] = n + 1 /\ status[r] = "running"
        /\ opQueue[r] # <<>> /\ op \in Operation
        /\ ParentOf(r, op) \in 1..n
    BY <1>0 DEF BeginOperation, Ready, Admissible, RecorderTypeOK, OperationInv
  <2>2. /\ event.run = r /\ event.sequence = n + 1
        /\ event.parent = ParentOf(r, op)
    BY <2>1 DEF BuildEvent
  <2>3. event.type # "run.started"
    <3>1. CASE op.method = "appendEvent"
      BY <3>1 DEF BeginOperation, Admissible, ReservedTypes, BuildEvent
    <3>2. CASE op.method # "appendEvent"
      BY <2>1, <3>2 DEF BuildEvent, Operation, Emits
    <3> QED
      BY <3>1, <3>2
  <2>4. event.type = "checkpoint.created" => event.pin = n
    <3>1. CASE op.method = "appendEvent"
      BY <3>1 DEF BeginOperation, Admissible, ReservedTypes, BuildEvent
    <3>2. CASE op.method = "checkpoint"
      BY <3>2 DEF BuildEvent
    <3>3. CASE op.method \notin {"appendEvent", "checkpoint"}
      BY <2>1, <3>3 DEF BuildEvent, Operation, Emits
    <3> QED
      BY <3>1, <3>2, <3>3
  <2>5. active'[r] = [phase |-> "intercept", event |-> event]
    BY <1>0 DEF BeginOperation, RecorderTypeOK
  <2>6. UNCHANGED <<status, events, nextSequence, opQueue>>
    BY DEF BeginOperation
  <2> HIDE DEF event
  <2> QED
    BY <1>1, <2>1, <2>2, <2>3, <2>4, <2>5, <2>6 DEF OperationInv, Starting
<1>2. CASE q # r
  <2>1. /\ active'[q] = active[q] /\ status' = status /\ opQueue' = opQueue
        /\ events' = events /\ nextSequence' = nextSequence
    BY <1>0, <1>2 DEF BeginOperation, RecorderTypeOK
  <2> QED
    BY <2>1, SameOperation
<1> QED
  BY <1>1, <1>2

(* It holds of every run at the start ...                                  *)
LEMMA OperationInvInit == Init => \A r \in Runs : OperationInv(r)
<1> SUFFICES ASSUME Init, NEW r \in Runs PROVE OperationInv(r)
  OBVIOUS
<1>1. /\ status[r] = "unborn" /\ events[r] = <<>> /\ nextSequence[r] = 1
      /\ active[r].phase = "idle"
  BY DEF Init, RecorderInit, Idle
<1> QED
  BY <1>1 DEF OperationInv

(* ... and after every step.                                               *)
LEMMA OperationInvNext ==
  ASSUME TypeOK, \A r \in Runs : OperationInv(r), [Next]_vars, NEW q \in Runs
  PROVE  OperationInv(q)'
<1>0. RecorderTypeOK
  BY DEF TypeOK
<1>1. ASSUME NEW r \in Runs, Start(r) PROVE OperationInv(q)'
  <2>1. CASE q = r
    <3>1. /\ active'[r].phase = "intercept" /\ active'[r].event.run = r
          /\ active'[r].event.sequence = nextSequence[r]
          /\ active'[r].event.type = "run.started"
          /\ status'[r] = "running" /\ alive' = alive /\ alive
          /\ UNCHANGED <<events, nextSequence, opQueue>>
      BY <1>0, <1>1 DEF Start, StartRun, RecorderTypeOK
    <3>2. Len(events[r]) = 0 /\ nextSequence[r] = 1
      BY <1>1 DEF OperationInv, Start, StartRun
    <3> QED
      BY <2>1, <3>1, <3>2 DEF OperationInv, Starting
  <2>2. CASE q # r
    <3>1. /\ active'[q] = active[q] /\ status'[q] = status[q] /\ alive' = alive
          /\ UNCHANGED <<events, nextSequence, opQueue>>
      BY <1>0, <1>1, <2>2 DEF Start, StartRun, RecorderTypeOK
    <3> QED
      BY <3>1, SameOperation
  <2> QED
    BY <2>1, <2>2
<1>2. ASSUME NEW r \in Runs, Request(r) PROVE OperationInv(q)'
  <2>1. PICK op \in Operations(r) : Call(r, op)
    BY <1>2 DEF Request
  <2>2. opQueue'[q] \in {opQueue[q], Append(opQueue[q], op)}
    BY <1>0, <2>1 DEF Call, RecorderTypeOK
  <2>3. opQueue[q] # <<>> => opQueue'[q] # <<>>
    BY <1>0, <2>2 DEF RecorderTypeOK
  <2>4. alive' = alive /\ UNCHANGED <<status, events, nextSequence, active>>
    BY <1>2, <2>1 DEF Call, Request
  <2> QED
    BY <2>3, <2>4, SameOperation
<1>3. ASSUME NEW r \in Runs, Downgrade(r) PROVE OperationInv(q)'
  BY <1>3, SameOperation DEF Downgrade, MarkIncomplete
<1>4. ASSUME NEW r \in Runs, NEW op \in {"write", "commit"}, RequestManifest(r, op)
      PROVE  OperationInv(q)'
  BY <1>4, SameOperation DEF RequestManifest, recorderVars
<1>5. ASSUME NEW r \in Runs, Begin(r) PROVE OperationInv(q)'
  <2>1. CASE BeginOperation(r)
    BY <1>5, <2>1, BeginOneOperation DEF Begin
  <2>2. CASE RejectOperation(r)
    <3>1. active[r].phase = "idle"
      BY <2>2 DEF RejectOperation, Ready
    <3>2. CASE q = r
      BY <1>0, <1>5, <2>2, <3>1, <3>2 DEF RejectOperation, OperationInv, Begin
    <3>3. CASE q # r
      <4>1. opQueue'[q] = opQueue[q] /\ alive' = alive
            /\ UNCHANGED <<status, events, nextSequence, active>>
        BY <1>0, <1>5, <2>2, <3>3 DEF RejectOperation, RecorderTypeOK, Begin
      <4> QED
        BY <4>1, SameOperation
    <3> QED
      BY <3>2, <3>3
  <2>3. CASE InterceptorFails(r)
    BY <1>5, <2>3, AbandonOperation DEF InterceptorFails, Begin
  <2> QED
    BY <1>5, <2>1, <2>2, <2>3 DEF Begin
<1>6. ASSUME NEW r \in Runs, Submit(r) PROVE OperationInv(q)'
  <2>1. /\ active[r].phase = "intercept" /\ active'[r].phase = "append"
        /\ active'[r].event = active[r].event
        /\ alive' = alive /\ UNCHANGED <<status, events, nextSequence, opQueue>>
    BY <1>0, <1>6 DEF Submit, SubmitEvent, RecorderTypeOK, Active
  <2>2. CASE q = r
    BY <2>1, <2>2 DEF OperationInv, Starting
  <2>3. CASE q # r
    <3>1. active'[q] = active[q]
      BY <1>0, <1>6, <2>3 DEF Submit, SubmitEvent, RecorderTypeOK
    <3> QED
      BY <2>1, <3>1, SameOperation
  <2> QED
    BY <2>2, <2>3
<1>7. ASSUME NEW r \in Runs, Resume(r) PROVE OperationInv(q)'
  <2>1. CASE CommitEvent(r)
    BY <1>7, <2>1, CommitOperation DEF Resume
  <2>2. CASE AbortEvent(r)
    BY <1>7, <2>2, AbandonOperation DEF Resume, AbortEvent
  <2> QED
    BY <1>7, <2>1, <2>2 DEF Resume
<1>8. ASSUME NEW r \in Runs, SaveCheckpoint(r) PROVE OperationInv(q)'
  <2>1. alive' = alive /\ UNCHANGED <<status, events, nextSequence>>
    BY <1>8 DEF SaveCheckpoint, AfterCheckpoint
  <2>2. CASE q = r
    <3>1. active[r].phase = "checkpointFile" /\ active'[r].phase = "idle"
      BY <1>0, <1>8 DEF SaveCheckpoint, AfterCheckpoint, RecorderTypeOK, Idle
    <3> QED
      BY <2>1, <2>2, <3>1 DEF OperationInv
  <2>3. CASE q # r
    <3>1. active'[q] = active[q] /\ opQueue'[q] = opQueue[q]
      BY <1>0, <1>8, <2>3 DEF SaveCheckpoint, AfterCheckpoint, RecorderTypeOK
    <3> QED
      BY <2>1, <3>1, SameOperation
  <2> QED
    BY <2>2, <2>3
<1>9. ASSUME WriteEvents \/ WriteManifests \/ Close \/ ContinueClose \/ UNCHANGED vars
      PROVE  OperationInv(q)'
  <2>1. alive' = alive /\ UNCHANGED recorderVars
    BY <1>9 DEF WriteEvents, WriteManifests, Close, ContinueClose, vars
  <2> QED
    BY <2>1, SameOperation DEF recorderVars
<1>10. ASSUME Crash PROVE OperationInv(q)'
  <2>1. /\ status'[q] \in {"unborn", "lost"} /\ events'[q] = <<>>
        /\ nextSequence'[q] = 1 /\ active'[q].phase = "idle"
    BY <1>10 DEF Crash, Idle
  <2> QED
    BY <2>1 DEF OperationInv
<1>11. ASSUME Reopen PROVE OperationInv(q)'
  BY <1>11 DEF Reopen, OperationInv, recorderVars, Starting
<1> QED
  BY <1>1, <1>2, <1>3, <1>4, <1>5, <1>6, <1>7, <1>8, <1>9, <1>10, <1>11 DEF Next

-----------------------------------------------------------------------------
(* Every pending append is one run's, and no run has two.                  *)

(* What Append does to length, elements and domain.                        *)
LEMMA AppendFacts ==
  ASSUME NEW S, NEW seq \in Seq(S), NEW e \in S
  PROVE  LET longer == Append(seq, e) IN
         /\ longer \in Seq(S) /\ Len(seq) \in Nat /\ Len(longer) = Len(seq) + 1
         /\ DOMAIN seq = 1..Len(seq) /\ DOMAIN longer = 1..(Len(seq) + 1)
         /\ \A i \in 1..Len(seq) : longer[i] = seq[i]
         /\ longer[Len(seq) + 1] = e
OBVIOUS

(* What Tail and Head do to length, elements and domain.                   *)
LEMMA TailFacts ==
  ASSUME NEW S, NEW seq \in Seq(S), seq # <<>>
  PROVE  /\ Tail(seq) \in Seq(S) /\ Len(seq) \in Nat \ {0} /\ Len(Tail(seq)) = Len(seq) - 1
         /\ DOMAIN seq = 1..Len(seq) /\ DOMAIN Tail(seq) = 1..(Len(seq) - 1)
         /\ \A i \in 1..(Len(seq) - 1) : Tail(seq)[i] = seq[i + 1]
         /\ Head(seq) = seq[1]
OBVIOUS

(* A step that leaves queue, outcomes and records alone keeps the jobs'    *)
(* invariant.                                                              *)
LEMMA JobsFrame ==
  ASSUME JobInv, alive' = alive, UNCHANGED <<writerQueue, outcome>>,
         \A p \in Runs : active[p].phase = "append" => active'[p] = active[p]
  PROVE  JobInv'
BY DEF JobInv, AppendOf

(* Chaining a flush or close job keeps it.                                 *)
LEMMA EnqueueOwnerJob ==
  ASSUME WriterTypeOK, JobInv, alive, NEW op \in {"flush", "close"}, EnqueueForOwner(op),
         alive' = alive, active' = active
  PROVE  JobInv'
<1>1. writerQueue' = Append(writerQueue, [op |-> op, event |-> NoEvent])
  BY DEF EnqueueForOwner, EnqueueJob
<1>2. outcome' = outcome
  BY DEF EnqueueForOwner
<1>3. /\ Len(writerQueue') = Len(writerQueue) + 1 /\ Len(writerQueue) \in Nat
      /\ DOMAIN writerQueue = 1..Len(writerQueue)
      /\ DOMAIN writerQueue' = 1..Len(writerQueue')
      /\ \A i \in DOMAIN writerQueue : writerQueue'[i] = writerQueue[i]
      /\ writerQueue'[Len(writerQueue')] = [op |-> op, event |-> NoEvent]
  <2>1. [op |-> op, event |-> NoEvent] \in Job /\ writerQueue \in Seq(Job)
    BY NoEventType DEF WriterTypeOK, Job
  <2> QED
    BY <1>1, <2>1, AppendFacts
<1>4. \A r \in Runs : \A i \in DOMAIN writerQueue' :
        i = Len(writerQueue) + 1 => ~AppendOf(r, i)'
  BY <1>3 DEF AppendOf
<1>5. \A i \in DOMAIN writerQueue' : i \in DOMAIN writerQueue \/ i = Len(writerQueue) + 1
  BY <1>3
<1>6. \A r \in Runs : \A i \in DOMAIN writerQueue : AppendOf(r, i)' <=> AppendOf(r, i)
  BY <1>3 DEF AppendOf
<1>7. \A i \in DOMAIN writerQueue' :
        IF writerQueue'[i].op = "append" THEN writerQueue'[i].event.run \in Runs
                                         ELSE writerQueue'[i].event.run = NoRun
  BY <1>3, <1>5 DEF JobInv, NoEvent
<1>8. \A r \in Runs : \A i \in DOMAIN writerQueue' : AppendOf(r, i)' =>
        /\ i \in DOMAIN writerQueue /\ AppendOf(r, i)
        /\ writerQueue'[i] = writerQueue[i]
  BY <1>3, <1>4, <1>5, <1>6
<1> QED
  BY <1>2, <1>7, <1>8 DEF JobInv

(* Chaining a run's append keeps it: the run had no job.                   *)
LEMMA SubmitJob ==
  ASSUME TypeOK, NEW r \in Runs, \A p \in Runs : OperationInv(p), JobInv, Submit(r)
  PROVE  JobInv'
<1>0. WriterTypeOK /\ RecorderTypeOK
  BY DEF TypeOK
<1> DEFINE event == active[r].event
           last == Len(writerQueue) + 1
<1>1. /\ writerQueue' = Append(writerQueue, [op |-> "append", event |-> event])
      /\ outcome' = outcome /\ alive /\ alive' = alive
  BY DEF Submit, EnqueueJob
<1>2. /\ Len(writerQueue') = Len(writerQueue) + 1 /\ Len(writerQueue) \in Nat
      /\ DOMAIN writerQueue = 1..Len(writerQueue)
      /\ DOMAIN writerQueue' = 1..Len(writerQueue')
      /\ \A i \in DOMAIN writerQueue : writerQueue'[i] = writerQueue[i]
      /\ writerQueue'[last] = [op |-> "append", event |-> event]
  <2>1. [op |-> "append", event |-> event] \in Job /\ writerQueue \in Seq(Job)
    BY <1>0 DEF WriterTypeOK, RecorderTypeOK, Active, Job
  <2> QED
    BY <1>1, <2>1, AppendFacts
<1>3. /\ active[r].phase = "intercept" /\ active'[r].phase = "append"
      /\ active'[r].event = event /\ event.run = r
      /\ \A p \in Runs \ {r} : active'[p] = active[p]
  BY <1>0 DEF Submit, SubmitEvent, RecorderTypeOK, Active, OperationInv
<1>4. outcome[r] = "none" /\ \A i \in DOMAIN writerQueue : ~AppendOf(r, i)
  BY <1>3 DEF JobInv
<1>5. \A i \in DOMAIN writerQueue' : i \in DOMAIN writerQueue \/ i = last
  BY <1>2
<1>6. \A p \in Runs : \A i \in DOMAIN writerQueue : AppendOf(p, i)' <=> AppendOf(p, i)
  BY <1>2 DEF AppendOf
<1>7. \A p \in Runs : \A i \in DOMAIN writerQueue' : i = last => (AppendOf(p, i)' <=> p = r)
  BY <1>2, <1>3 DEF AppendOf
<1>8. \A i \in DOMAIN writerQueue' :
        IF writerQueue'[i].op = "append" THEN writerQueue'[i].event.run \in Runs
                                         ELSE writerQueue'[i].event.run = NoRun
  BY <1>2, <1>3, <1>5 DEF JobInv
<1>9. ASSUME NEW p \in Runs, NEW i \in DOMAIN writerQueue', AppendOf(p, i)'
      PROVE  /\ active'[p].phase = "append" /\ outcome'[p] = "none"
             /\ writerQueue'[i].event = active'[p].event
             /\ \A j \in DOMAIN writerQueue' : AppendOf(p, j)' => i = j
  <2>1. CASE p = r
    <3>1. \A j \in DOMAIN writerQueue' : AppendOf(r, j)' => j = last
      BY <1>4, <1>5, <1>6
    <3>2. i = last
      BY <1>9, <2>1, <3>1
    <3> QED
      BY <1>1, <1>2, <1>3, <1>4, <2>1, <3>1, <3>2
  <2>2. CASE p # r
    <3>1. \A j \in DOMAIN writerQueue' : AppendOf(p, j)' =>
            j \in DOMAIN writerQueue /\ AppendOf(p, j)
      BY <1>5, <1>6, <1>7, <2>2
    <3>2. i \in DOMAIN writerQueue /\ AppendOf(p, i)
      BY <1>9, <3>1
    <3>3. active'[p] = active[p]
      BY <1>3, <2>2
    <3> QED
      BY <1>1, <1>2, <3>1, <3>2, <3>3 DEF JobInv
  <2> QED
    BY <2>1, <2>2
<1>10. \A p \in Runs : outcome'[p] # "none" => active'[p].phase = "append"
  BY <1>1, <1>3 DEF JobInv
<1> QED
  BY <1>1, <1>8, <1>9, <1>10 DEF JobInv

(* A job leaves the chain; if it is an append, its run has a result.       *)
LEMMA SettleJob ==
  ASSUME WriterTypeOK, JobInv, writerQueue # <<>>, NEW result \in {"ok", "failed"},
         Settle(result), alive, alive' = alive, active' = active
  PROVE  JobInv'
<1>1. writerQueue' = Tail(writerQueue) /\ CurrentJob = writerQueue[1]
  BY TailFacts DEF Settle, CurrentJob, WriterTypeOK
<1>2. /\ DOMAIN writerQueue' = 1..(Len(writerQueue) - 1) /\ Len(writerQueue) \in Nat \ {0}
      /\ DOMAIN writerQueue = 1..Len(writerQueue)
      /\ \A i \in DOMAIN writerQueue' : writerQueue'[i] = writerQueue[i + 1]
      /\ \A i \in DOMAIN writerQueue' : i + 1 \in DOMAIN writerQueue
      /\ 1 \in DOMAIN writerQueue
  BY <1>1, TailFacts DEF WriterTypeOK
<1>3. \A r \in Runs : outcome'[r] \in {outcome[r], result}
  BY DEF Settle, WriterTypeOK
<1>4. \A r \in Runs : r # CurrentJob.event.run => outcome'[r] = outcome[r]
  BY DEF Settle, WriterTypeOK
<1>5. \A r \in Runs : \A i \in DOMAIN writerQueue' : AppendOf(r, i)' => AppendOf(r, i + 1)
  BY <1>2 DEF AppendOf
<1>6. \A r \in Runs : r = CurrentJob.event.run => AppendOf(r, 1)
  BY <1>1, <1>2, WriterAssumption DEF JobInv, AppendOf
<1>7. ASSUME NEW r \in Runs, NEW i \in DOMAIN writerQueue', AppendOf(r, i)'
      PROVE  /\ active'[r].phase = "append" /\ outcome'[r] = "none"
             /\ writerQueue'[i].event = active'[r].event
             /\ \A j \in DOMAIN writerQueue' : AppendOf(r, j)' => i = j
  <2>1. /\ AppendOf(r, i + 1) /\ i + 1 \in DOMAIN writerQueue /\ i \in Nat
        /\ writerQueue'[i] = writerQueue[i + 1]
    BY <1>2, <1>5, <1>7
  <2>2. \A j \in DOMAIN writerQueue : AppendOf(r, j) => j = i + 1
    BY <2>1 DEF JobInv
  <2>3. r # CurrentJob.event.run
    <3>1. SUFFICES ASSUME r = CurrentJob.event.run PROVE FALSE
      OBVIOUS
    <3>2. 1 = i + 1
      BY <1>2, <1>6, <2>2, <3>1
    <3> QED
      BY <1>2, <1>7, <3>2
  <2>4. \A j \in DOMAIN writerQueue' : AppendOf(r, j)' => i = j
    BY <1>2, <1>5, <2>1, <2>2
  <2>5. outcome'[r] = outcome[r]
    BY <1>4, <2>3
  <2>6. /\ active[r].phase = "append" /\ outcome[r] = "none"
        /\ writerQueue[i + 1].event = active[r].event
    BY <2>1 DEF JobInv
  <2> QED
    BY <2>1, <2>4, <2>5, <2>6
<1>8. ASSUME NEW r \in Runs, outcome'[r] # "none" PROVE active'[r].phase = "append"
  <2>1. CASE r = CurrentJob.event.run
    BY <1>2, <1>6, <2>1 DEF JobInv
  <2>2. CASE r # CurrentJob.event.run
    BY <1>4, <1>8, <2>2 DEF JobInv
  <2> QED
    BY <2>1, <2>2
<1>9. ASSUME NEW i \in DOMAIN writerQueue'
      PROVE  IF writerQueue'[i].op = "append" THEN writerQueue'[i].event.run \in Runs
                                              ELSE writerQueue'[i].event.run = NoRun
  BY <1>2 DEF JobInv
<1> QED
  BY <1>7, <1>8, <1>9 DEF JobInv

(* The run takes its result: no job of it can be left.                     *)
LEMMA ResumeJob ==
  ASSUME TypeOK, JobInv, NEW r \in Runs, Resume(r)
  PROVE  JobInv'
<1>0. WriterTypeOK /\ RecorderTypeOK
  BY DEF TypeOK
<1>1. /\ outcome[r] # "none" /\ alive' = alive /\ writerQueue' = writerQueue
      /\ outcome' = [outcome EXCEPT ![r] = "none"]
  BY DEF Resume
<1>2. \A p \in Runs \ {r} : active'[p] = active[p]
  BY <1>0 DEF Resume, CommitEvent, AbortEvent, Abandon, RecorderTypeOK
<1>3. \A i \in DOMAIN writerQueue : ~AppendOf(r, i)
  BY <1>1 DEF JobInv
<1>4. outcome'[r] = "none" /\ \A p \in Runs \ {r} : outcome'[p] = outcome[p]
  BY <1>0, <1>1 DEF WriterTypeOK
<1>5. \A p \in Runs : \A i \in DOMAIN writerQueue : AppendOf(p, i)' <=> AppendOf(p, i)
  BY <1>1 DEF AppendOf
<1> QED
  BY <1>1, <1>2, <1>3, <1>4, <1>5 DEF JobInv

(* The promises' invariant holds at the start ...                          *)
LEMMA PromiseInvInit == Init => PromiseInv
BY DEF Init, WriterInit, RecorderInit, ManifestInit, PromiseInv, JobInv

(* ... and after every step.                                               *)
LEMMA PromiseInvNext ==
  ASSUME TypeOK, \A r \in Runs : OperationInv(r), PromiseInv, [Next]_vars
  PROVE  PromiseInv'
<1>0. WriterTypeOK /\ RecorderTypeOK /\ ManifestTypeOK /\ JobInv
  BY DEF TypeOK, PromiseInv
(* The first two conjuncts: only the writer itself moves the running job,  *)
(* and only the manifest chain its own.                                    *)
<1>1. syncing => writerQueue # <<>> /\ CurrentJob = writerQueue[1] /\ CurrentJob.op = "append"
  BY <1>0, TailFacts DEF PromiseInv, Running, CurrentJob, WriterTypeOK
<1>2. ASSUME NEW job \in Job, writerQueue' = Append(writerQueue, job), syncing' = syncing
      PROVE  (syncing => Running("append"))'
  <2>1. syncing => writerQueue' # <<>> /\ writerQueue'[1] = writerQueue[1]
    BY <1>0, <1>1, <1>2, AppendFacts DEF WriterTypeOK
  <2>2. writerQueue' \in Seq(Job)
    BY <1>0, <1>2, AppendFacts DEF WriterTypeOK
  <2>3. writerQueue' # <<>> => Head(writerQueue') = writerQueue'[1]
    BY <2>2, TailFacts
  <2> QED
    BY <1>1, <1>2, <2>1, <2>3 DEF Running, CurrentJob
<1>3. ASSUME UNCHANGED <<writerQueue, syncing>> PROVE (syncing => Running("append"))'
  BY <1>3 DEF PromiseInv, Running, CurrentJob
<1>4. ASSUME UNCHANGED <<manifestQueue, renaming>> PROVE (renaming => manifestQueue # <<>>)'
  BY <1>4 DEF PromiseInv
<1>5. ASSUME NEW r \in Runs, Start(r) \/ Request(r) \/ Downgrade(r) \/ Begin(r)
                             \/ SaveCheckpoint(r)
      PROVE  PromiseInv'
  <2>1. \A p \in Runs : active[p].phase = "append" => active'[p] = active[p]
    BY <1>0, <1>5 DEF Start, StartRun, Request, Call, Downgrade, MarkIncomplete, Begin,
       BeginOperation, RejectOperation, InterceptorFails, Abandon, Ready, SaveCheckpoint,
       AfterCheckpoint, RecorderTypeOK, OperationInv
  <2>2. /\ alive' = alive /\ UNCHANGED <<writerQueue, outcome, syncing>>
        /\ UNCHANGED <<manifestQueue, renaming>>
    BY <1>5 DEF Start, Request, Downgrade, Begin, SaveCheckpoint, writerVars, manifestVars
  <2> QED
    BY <1>0, <1>3, <1>4, <2>1, <2>2, JobsFrame DEF PromiseInv
<1>6. ASSUME NEW r \in Runs, NEW op \in {"write", "commit"}, RequestManifest(r, op)
      PROVE  PromiseInv'
  <2>1. /\ alive' = alive /\ UNCHANGED <<writerQueue, outcome, syncing, active, renaming>>
        /\ manifestQueue' = Append(manifestQueue, [op |-> op, manifest |-> ManifestOf(r)])
    BY <1>6 DEF RequestManifest, writerVars, recorderVars
  <2>2. manifestQueue' # <<>>
    BY <1>0, <2>1, ManifestOfType, AppendFacts DEF ManifestTypeOK
  <2> QED
    BY <1>0, <1>3, <2>1, <2>2, JobsFrame DEF PromiseInv
<1>7. ASSUME NEW r \in Runs, Submit(r) PROVE PromiseInv'
  <2>1. [op |-> "append", event |-> active[r].event] \in Job
    BY <1>0 DEF RecorderTypeOK, Active, Job
  <2>2. /\ writerQueue' = Append(writerQueue, [op |-> "append", event |-> active[r].event])
        /\ UNCHANGED <<syncing, manifestQueue, renaming>>
    BY <1>7 DEF Submit, EnqueueJob, manifestVars
  <2> QED
    BY <1>0, <1>2, <1>4, <1>7, <2>1, <2>2, SubmitJob DEF PromiseInv
<1>8. ASSUME NEW r \in Runs, Resume(r) PROVE PromiseInv'
  <2>1. UNCHANGED <<writerQueue, syncing, manifestQueue, renaming>>
    BY <1>8 DEF Resume, manifestVars
  <2> QED
    BY <1>0, <1>3, <1>4, <1>8, <2>1, ResumeJob DEF PromiseInv
<1>9. ASSUME WriteEvents PROVE PromiseInv'
  <2>1. alive /\ alive' = alive /\ active' = active /\ UNCHANGED <<manifestQueue, renaming>>
    BY <1>9 DEF WriteEvents, recorderVars, manifestVars
  <2>2. CASE writerQueue # <<>> /\ ~syncing' /\ (Settle("ok") \/ Settle("failed"))
    BY <1>0, <1>4, <2>1, <2>2, SettleJob DEF PromiseInv
  <2>3. CASE Running("append") /\ syncing' = TRUE /\ UNCHANGED <<writerQueue, outcome>>
    <3>1. Running("append")'
      BY <2>3 DEF Running, CurrentJob
    <3> QED
      BY <1>0, <1>4, <2>1, <2>3, <3>1, JobsFrame DEF PromiseInv
  <2>4. CASE RejectAppend
    <3>1. writerQueue # <<>> /\ Settle("failed")
      BY <2>4 DEF RejectAppend, Running
    <3>2. ~syncing /\ syncing' = syncing
      BY <2>4 DEF RejectAppend, Running
    <3>3. ~syncing'
      BY <3>2
    <3> QED
      BY <2>2, <3>1, <3>3
  <2>5. CASE FailWrite
    <3>1. writerQueue # <<>> /\ Settle("failed")
      BY <2>5 DEF FailWrite, Writable, Running
    <3>2. ~syncing /\ syncing' = syncing
      BY <2>5 DEF FailWrite, Writable, Running
    <3>3. ~syncing'
      BY <3>2
    <3> QED
      BY <2>2, <3>1, <3>3
  <2>6. CASE WriteLine
    <3>1. Running("append") /\ ~syncing /\ writerQueue # <<>>
      BY <2>6 DEF WriteLine, Writable, Running
    <3>2. CASE SyncDue
      <4>1. syncing' = TRUE /\ UNCHANGED <<writerQueue, outcome>>
        BY <2>6, <3>2 DEF WriteLine
      <4> QED
        BY <2>3, <3>1, <4>1
    <3>3. CASE ~SyncDue
      <4>1. Settle("ok") /\ syncing' = syncing
        BY <2>6, <3>3 DEF WriteLine
      <4>2. ~syncing'
        BY <3>1, <4>1
      <4> QED
        BY <2>2, <3>1, <4>1, <4>2
    <3> QED
      BY <3>2, <3>3
  <2>7. CASE SyncLine
    <3>1. syncing /\ ~syncing' /\ (Settle("ok") \/ Settle("failed"))
      BY <2>7 DEF SyncLine
    <3> QED
      BY <1>1, <2>2, <3>1
  <2>8. CASE FlushOrClose
    <3>1. /\ writerQueue # <<>> /\ CurrentJob.op # "append" /\ syncing' = syncing
          /\ Settle("ok") \/ Settle("failed")
      BY <2>8 DEF FlushOrClose, Running
    <3>2. ~syncing /\ ~syncing'
      BY <1>1, <3>1
    <3>3. JobInv'
      BY <1>0, <2>1, <3>1, SettleJob
    <3> QED
      BY <1>4, <2>1, <3>2, <3>3 DEF PromiseInv
  <2> QED
    BY <1>9, <2>4, <2>5, <2>6, <2>7, <2>8 DEF WriteEvents, WriterStep
<1>10. ASSUME WriteManifests PROVE PromiseInv'
  <2>1. /\ alive' = alive /\ UNCHANGED <<writerQueue, outcome, syncing, active>>
    BY <1>10 DEF WriteManifests, writerVars, recorderVars
  <2>2. (renaming => manifestQueue # <<>>)'
    <3>1. CASE WriteTmpManifest
      BY <3>1 DEF WriteTmpManifest, WritableManifest
    <3>2. CASE RejectCommit \/ FailTmpManifest \/ RenameManifest
      BY <3>2 DEF RejectCommit, FailTmpManifest, RenameManifest, WritableManifest
    <3> QED
      BY <1>10, <3>1, <3>2 DEF WriteManifests, ManifestStep
  <2> QED
    BY <1>0, <1>3, <2>1, <2>2, JobsFrame DEF PromiseInv
<1>11. ASSUME Close \/ ContinueClose PROVE PromiseInv'
  <2>1. alive /\ alive' = alive /\ UNCHANGED <<active, manifestQueue, renaming>>
    BY <1>11 DEF Close, ContinueClose, recorderVars, manifestVars
  <2>2. CASE \E op \in {"flush", "close"} : EnqueueForOwner(op)
    <3>1. PICK op \in {"flush", "close"} : EnqueueForOwner(op)
      BY <2>2
    <3>2. JobInv'
      BY <1>0, <2>1, <3>1, EnqueueOwnerJob
    <3>3. [op |-> op, event |-> NoEvent] \in Job
      BY NoEventType DEF Job
    <3>4. writerQueue' = Append(writerQueue, [op |-> op, event |-> NoEvent]) /\ syncing' = syncing
      BY <3>1 DEF EnqueueForOwner, EnqueueJob
    <3> QED
      BY <1>2, <1>4, <2>1, <3>2, <3>3, <3>4 DEF PromiseInv
  <2>3. CASE TakeOwnerOutcome
    <3>1. UNCHANGED <<writerQueue, syncing>> /\ \A r \in Runs : outcome'[r] = outcome[r]
      BY <1>0, <2>3, WriterAssumption DEF TakeOwnerOutcome, WriterTypeOK
    <3>2. \A r \in Runs : \A i \in DOMAIN writerQueue : AppendOf(r, i)' <=> AppendOf(r, i)
      BY <3>1 DEF AppendOf
    <3>3. JobInv'
      BY <1>0, <2>1, <3>1, <3>2 DEF JobInv
    <3> QED
      BY <1>3, <1>4, <2>1, <3>1, <3>3 DEF PromiseInv
  <2> QED
    BY <1>11, <2>2, <2>3 DEF Close, ContinueClose
<1>12. ASSUME Crash PROVE PromiseInv'
  <2>1. /\ writerQueue' = <<>> /\ ~syncing' /\ ~renaming'
        /\ \A r \in Runs : outcome'[r] = "none"
    BY <1>12 DEF Crash, LoseManifestWork
  <2> QED
    BY <2>1 DEF PromiseInv, JobInv
<1>13. ASSUME Reopen PROVE PromiseInv'
  <2>1. /\ writerQueue' = <<>> /\ ~syncing' /\ UNCHANGED <<manifestQueue, renaming>>
        /\ \A r \in Runs : outcome'[r] = "none"
    BY <1>13 DEF Reopen, OpenWriter, manifestVars
  <2> QED
    BY <1>4, <2>1 DEF PromiseInv, JobInv
<1>14. ASSUME UNCHANGED vars PROVE PromiseInv'
  BY <1>0, <1>3, <1>4, <1>14, JobsFrame DEF PromiseInv, vars, writerVars, recorderVars, manifestVars
<1> QED
  BY <1>5, <1>6, <1>7, <1>8, <1>9, <1>10, <1>11, <1>12, <1>13, <1>14 DEF Next

-----------------------------------------------------------------------------
(* The file and the recorder's memory, when no write comes up short.       *)

(* Steps that write nothing, commit nothing and settle no append.          *)
LEMMA LogFrame ==
  ASSUME LogInv, PromiseInv,
         UNCHANGED <<lines, tail, synced, writerRun, lastSequence, needsSeparator, syncing,
                     events, alive>>,
         \A p \in Runs : status[p] # "unborn" => status'[p] # "unborn",
         \A p \in Runs : outcome'[p] = "ok" => outcome[p] = "ok" /\ active'[p] = active[p],
         syncing => CurrentJob' = CurrentJob
  PROVE  LogInv'
<1>1. WellFormedLog'
  BY DEF LogInv, WellFormedLog
<1>2. LogAgreement'
  BY DEF LogInv, LogAgreement
<1>3. (alive => /\ lastSequence = Len(lines)
                /\ needsSeparator \/ tail = "newline"
                /\ lines # <<>> => writerRun = lines[1].run)'
  BY DEF LogInv
<1>4. (lines # <<>> => lines[1].run \in Runs /\ status[lines[1].run] # "unborn")'
  BY DEF LogInv
<1>5. (\A r \in Runs : alive /\ outcome[r] = "ok" =>
         /\ lines = Append(events[r], active[r].event)
         /\ Durable => synced = Len(lines))'
  BY DEF LogInv, Durable
<1>6. (syncing => lines = Append(events[CurrentJob.event.run], CurrentJob.event))'
  BY DEF LogInv
<1> QED
  BY <1>1, <1>2, <1>3, <1>4, <1>5, <1>6 DEF LogInv

(* An append that is neither refused nor failed extends exactly what its   *)
(* run has committed.                                                      *)
LEMMA WritableLines ==
  ASSUME TypeOK, \A r \in Runs : OperationInv(r), PromiseInv, LogInv, alive, Writable
  PROVE  LET event == CurrentJob.event IN
         /\ event.run \in Runs /\ event \in Event
         /\ active[event.run].phase = "append" /\ active[event.run].event = event
         /\ outcome[event.run] = "none"
         /\ lines = events[event.run] /\ event.sequence = Len(lines) + 1
         /\ TailBeforeLine = "newline"
<1> DEFINE event == CurrentJob.event
           r == event.run
           n == Len(events[r])
<1>0. WriterTypeOK /\ RecorderTypeOK /\ JobInv
  BY DEF TypeOK, PromiseInv
<1>1. /\ writerQueue # <<>> /\ CurrentJob = writerQueue[1] /\ 1 \in DOMAIN writerQueue
      /\ CurrentJob.op = "append"
  BY <1>0, TailFacts DEF Writable, Running, CurrentJob, WriterTypeOK
<1>2. r \in Runs /\ event \in Event /\ AppendOf(r, 1)
  BY <1>0, <1>1, CurrentJobType DEF JobInv, AppendOf
<1>3. active[r].phase = "append" /\ active[r].event = event /\ outcome[r] = "none"
  BY <1>0, <1>1, <1>2 DEF JobInv
<1>4. n \in Nat /\ event.sequence = n + 1 /\ Len(lines) \in Nat
  <2>1. active[r].event.sequence = n + 1
    BY <1>2, <1>3 DEF OperationInv
  <2> QED
    BY <1>0, <1>2, <1>3, <2>1 DEF RecorderTypeOK, WriterTypeOK
<1>5. Len(lines) < n + 1
  BY <1>0, <1>4 DEF Writable, StaleSequence, LogInv
<1>6. lines = events[r]
  <2>1. CASE events[r] = <<>>
    <3>1. Len(lines) = 0
      BY <1>4, <1>5, <2>1
    <3> QED
      BY <1>0, <2>1, <3>1 DEF WriterTypeOK
  <2>2. CASE events[r] # <<>>
    <3>1. Len(lines) \in {n, n + 1} /\ SubSeq(lines, 1, n) = events[r]
      BY <1>2, <2>2 DEF LogInv, LogAgreement
    <3>2. Len(lines) = n
      BY <1>4, <1>5, <3>1
    <3>3. lines \in Seq(Event)
      BY <1>0 DEF WriterTypeOK
    <3>4. SubSeq(lines, 1, Len(lines)) = lines
      BY <3>3
    <3> QED
      BY <3>1, <3>2, <3>4
  <2> QED
    BY <2>1, <2>2
<1>7. TailBeforeLine = "newline"
  <2>1. CASE needsSeparator
    BY <2>1 DEF TailBeforeLine
  <2>2. CASE ~needsSeparator
    <3>1. tail = "newline"
      BY <2>2 DEF LogInv
    <3> QED
      BY <2>2, <3>1 DEF TailBeforeLine
  <2> QED
    BY <2>1, <2>2
<1> QED
  BY <1>2, <1>3, <1>4, <1>6, <1>7

(* Appending a run's next event keeps the file well formed.                *)
LEMMA ExtendWellFormed ==
  ASSUME TypeOK, NEW r \in Runs, OperationInv(r), WellFormedLog, lines = events[r],
         active[r].phase = "append", lines' = Append(lines, active[r].event),
         lines # <<>> => lines[1].run = r
  PROVE  WellFormedLog'
<1> DEFINE event == active[r].event
           n == Len(lines)
<1>0. lines \in Seq(Event) /\ event \in Event
  BY DEF TypeOK, WriterTypeOK, RecorderTypeOK, Active
<1>1. /\ n \in Nat /\ DOMAIN lines = 1..n /\ DOMAIN lines' = 1..(n + 1)
      /\ Len(lines') = n + 1
      /\ \A i \in 1..n : lines'[i] = lines[i]
      /\ lines'[n + 1] = event
  BY <1>0, AppendFacts
<1>2. /\ event.run = r /\ event.sequence = n + 1
      /\ event.type = "run.started" <=> n = 0
      /\ n > 0 => event.parent \in 1..n
      /\ event.type = "checkpoint.created" => event.pin = n
      /\ n > 0 => lines[n].type \notin TerminalTypes
  BY DEF OperationInv, Starting
<1>3. ASSUME NEW i \in 1..n
      PROVE  /\ lines'[i].run = lines'[1].run /\ lines'[i].sequence = i
             /\ lines'[i].type = "run.started" <=> i = 1
             /\ i > 1 => lines'[i].parent \in 1..(i - 1)
             /\ lines'[i].type = "checkpoint.created" => lines'[i].pin = i - 1
             /\ lines'[i].type \in TerminalTypes => i = Len(lines')
  <2>1. lines'[i] = lines[i] /\ lines'[1] = lines[1]
    BY <1>1
  <2>2. lines[i].type \notin TerminalTypes
    BY <1>1, <1>2 DEF WellFormedLog
  <2> QED
    BY <1>1, <2>1, <2>2 DEF WellFormedLog
<1>4. LET i == n + 1 IN
        /\ lines'[i].run = lines'[1].run /\ lines'[i].sequence = i
        /\ lines'[i].type = "run.started" <=> i = 1
        /\ i > 1 => lines'[i].parent \in 1..(i - 1)
        /\ lines'[i].type = "checkpoint.created" => lines'[i].pin = i - 1
        /\ lines'[i].type \in TerminalTypes => i = Len(lines')
  <2>1. lines'[1].run = r
    <3>1. CASE n = 0
      BY <1>1, <1>2, <3>1
    <3>2. CASE n > 0
      BY <1>0, <1>1, <3>2
    <3> QED
      BY <1>1, <3>1, <3>2
  <2> QED
    BY <1>1, <1>2, <2>1
<1> QED
  BY <1>1, <1>3, <1>4 DEF WellFormedLog

(* A crash leaves a prefix.                                                *)
LEMMA PrefixWellFormed ==
  ASSUME WriterTypeOK, WellFormedLog, NEW kept \in 0..Len(lines),
         lines' = SubSeq(lines, 1, kept)
  PROVE  /\ WellFormedLog'
         /\ lines' # <<>> => lines # <<>> /\ lines'[1] = lines[1]
<1>1. /\ DOMAIN lines = 1..Len(lines) /\ Len(lines) \in Nat
      /\ DOMAIN lines' = 1..kept /\ Len(lines') = kept
      /\ \A i \in 1..kept : lines'[i] = lines[i]
  BY DEF WriterTypeOK
<1>2. ASSUME NEW i \in 1..kept
      PROVE  lines'[i] = lines[i] /\ lines'[1] = lines[1] /\ i \in DOMAIN lines /\ i \in Nat
             /\ (i = Len(lines) => i = kept)
  <2>1. i \in Nat /\ i <= kept /\ 1 <= i /\ kept <= Len(lines) /\ 1 \in 1..kept
    BY <1>1
  <2>2. lines'[i] = lines[i] /\ lines'[1] = lines[1]
    BY <1>1, <2>1
  <2>3. i \in DOMAIN lines
    BY <1>1, <2>1
  <2>4. i = Len(lines) => i = kept
    BY <1>1, <2>1
  <2> QED
    BY <2>1, <2>2, <2>3, <2>4
<1>3. WellFormedLog'
  <2>1. SUFFICES ASSUME NEW i \in 1..kept
        PROVE  /\ lines'[i].run = lines'[1].run /\ lines'[i].sequence = i
               /\ lines'[i].type = "run.started" <=> i = 1
               /\ i > 1 => lines'[i].parent \in 1..(i - 1)
               /\ lines'[i].type = "checkpoint.created" => lines'[i].pin = i - 1
               /\ lines'[i].type \in TerminalTypes => i = Len(lines')
    BY <1>1 DEF WellFormedLog
  <2>2. lines'[i] = lines[i] /\ lines'[1] = lines[1] /\ i \in DOMAIN lines
    BY <1>2
  <2>3. i = Len(lines) => i = Len(lines')
    BY <1>1, <1>2
  <2> QED
    BY <2>2, <2>3 DEF WellFormedLog
<1>4. ASSUME lines' # <<>> PROVE lines # <<>> /\ lines'[1] = lines[1]
  <2>1. lines' \in Seq(Event) /\ kept \in Nat
    BY <1>1 DEF WriterTypeOK
  <2>2. kept # 0
    BY <1>1, <1>4, <2>1
  <2>3. 1 \in 1..kept /\ Len(lines) # 0
    BY <1>1, <2>1, <2>2
  <2> QED
    BY <1>1, <2>3
<1> QED
  BY <1>3, <1>4

(* The file's invariant holds at the start ...                             *)
LEMMA LogInvInit == Init => LogInv
BY DEF Init, WriterInit, RecorderInit, LogInv, WellFormedLog, LogAgreement

(* Two runs cannot both have a line in the file.                           *)
LEMMA OneRun ==
  ASSUME TypeOK, LogInv, PromiseInv, \A p \in Runs : OperationInv(p), alive,
         NEW r \in Runs, outcome[r] = "ok"
  PROVE  lines # <<>> /\ lines[1].run = r /\ writerRun = r
<1> DEFINE event == active[r].event
           n == Len(events[r])
<1>0. events[r] \in Seq(Event) /\ event \in Event
  BY DEF TypeOK, RecorderTypeOK, Active
<1>1. lines = Append(events[r], event)
  BY DEF LogInv
<1>2. /\ n \in Nat /\ DOMAIN lines = 1..(n + 1) /\ lines[n + 1] = event /\ Len(lines) = n + 1
  BY <1>0, <1>1, AppendFacts
<1>3. event.run = r
  BY DEF PromiseInv, JobInv, OperationInv
<1>4. lines # <<>> /\ 1 \in DOMAIN lines /\ n + 1 \in DOMAIN lines
  BY <1>0, <1>1, <1>2
<1>5. lines[n + 1].run = lines[1].run
  BY <1>4 DEF LogInv, WellFormedLog
<1> QED
  BY <1>2, <1>3, <1>4, <1>5 DEF LogInv

(* What the writer does to the file.                                       *)
LEMMA LogInvWriter ==
  ASSUME ~ShortWrites, TypeOK, \A r \in Runs : OperationInv(r), PromiseInv, LogInv, WriteEvents
  PROVE  LogInv'
<1>0. WriterTypeOK /\ RecorderTypeOK /\ JobInv
  BY DEF TypeOK, PromiseInv
<1>1. alive /\ alive' = alive /\ UNCHANGED <<status, events, active>>
  BY DEF WriteEvents, recorderVars
<1> DEFINE event == CurrentJob.event
           r == event.run
(* The promise of a failed append: nothing in the file is new.             *)
<1>2. ASSUME writerQueue # <<>>, Settle("failed"), ~syncing', lines' = lines, synced' = synced,
             UNCHANGED lastSequence, needsSeparator' \/ tail' = "newline",
             lines # <<>> => writerRun' = writerRun
      PROVE  LogInv'
  <2>1. \A p \in Runs : outcome'[p] = "ok" => outcome[p] = "ok"
    BY <1>0, <1>2 DEF Settle, WriterTypeOK
  <2>2. WellFormedLog'
    BY <1>2 DEF LogInv, WellFormedLog
  <2>3. LogAgreement'
    <3>1. SUFFICES ASSUME NEW p \in Runs, events[p] # <<>>
          PROVE  /\ writerRun' = p
                 /\ Len(lines) \in {Len(events[p]), Len(events[p]) + 1}
                 /\ SubSeq(lines, 1, Len(events[p])) = events[p]
                 /\ Durable => Len(events[p]) <= synced
      BY <1>1, <1>2 DEF LogAgreement, Durable
    <3>2. Len(events[p]) \in Nat \ {0}
      BY <1>0, <3>1 DEF RecorderTypeOK
    <3>3. lines # <<>>
      BY <1>1, <3>1, <3>2 DEF LogInv, LogAgreement
    <3> QED
      BY <1>1, <1>2, <3>1, <3>3 DEF LogInv, LogAgreement
  <2>4. (alive => /\ lastSequence = Len(lines)
                  /\ needsSeparator \/ tail = "newline"
                  /\ lines # <<>> => writerRun = lines[1].run)'
    BY <1>1, <1>2 DEF LogInv
  <2>5. (lines # <<>> => lines[1].run \in Runs /\ status[lines[1].run] # "unborn")'
    BY <1>1, <1>2 DEF LogInv
  <2>6. (\A p \in Runs : alive /\ outcome[p] = "ok" =>
           /\ lines = Append(events[p], active[p].event)
           /\ Durable => synced = Len(lines))'
    BY <1>1, <1>2, <2>1 DEF LogInv, Durable
  <2>7. (syncing => lines = Append(events[CurrentJob.event.run], CurrentJob.event))'
    BY <1>2
  <2> QED
    BY <2>2, <2>3, <2>4, <2>5, <2>6, <2>7 DEF LogInv
<1>3. CASE RejectAppend
  <2>1. /\ writerQueue # <<>> /\ Settle("failed") /\ UNCHANGED <<lines, synced, lastSequence>>
        /\ CurrentJob.op = "append"
    BY <1>3 DEF RejectAppend, Running
  <2>2. ~syncing'
    <3>1. ~syncing /\ syncing' = syncing
      BY <1>3 DEF RejectAppend
    <3> QED
      BY <3>1
  <2>3. needsSeparator' \/ tail' = "newline"
    <3>1. needsSeparator' = needsSeparator /\ tail' = tail
      BY <1>3 DEF RejectAppend
    <3>2. needsSeparator \/ tail = "newline"
      BY <1>1 DEF LogInv
    <3> QED
      BY <3>1, <3>2
  <2>4. ASSUME lines # <<>> PROVE writerRun' = writerRun
    <3>1. writerRun # NoRun
      BY <1>1, <2>4, WriterAssumption DEF LogInv
    <3> QED
      BY <1>3, <3>1 DEF RejectAppend, WrongRun
  <2> QED
    BY <1>2, <2>1, <2>2, <2>3, <2>4
<1>4. CASE FailWrite
  <2>1. /\ writerQueue # <<>> /\ Settle("failed") /\ UNCHANGED <<lines, synced, lastSequence>>
    BY <1>4 DEF FailWrite, Writable, Running
  <2>2. ~syncing'
    <3>1. ~syncing /\ syncing' = syncing
      BY <1>4 DEF FailWrite, Writable
    <3> QED
      BY <3>1
  <2>3. needsSeparator' \/ tail' = "newline"
    <3>1. \/ needsSeparator' = needsSeparator /\ tail' = tail
          \/ tail' = "newline"
      BY <1>4 DEF FailWrite
    <3>2. needsSeparator \/ tail = "newline"
      BY <1>1 DEF LogInv
    <3> QED
      BY <3>1, <3>2
  <2>4. ASSUME lines # <<>> PROVE writerRun' = writerRun
    <3>1. writerRun # NoRun
      BY <1>1, <2>4, WriterAssumption DEF LogInv
    <3> QED
      BY <1>4, <3>1 DEF FailWrite, Writable, WrongRun
  <2> QED
    BY <1>2, <2>1, <2>2, <2>3, <2>4
<1>5. CASE WriteLine
  <2>1. /\ r \in Runs /\ event \in Event /\ active[r].phase = "append"
        /\ active[r].event = event /\ outcome[r] = "none" /\ lines = events[r]
        /\ event.sequence = Len(lines) + 1 /\ TailBeforeLine = "newline"
        /\ writerQueue # <<>>
    BY <1>1, <1>5, WritableLines DEF WriteLine, Writable, Running
  <2>2. lines' = Append(lines, event) /\ tail' = "newline"
    BY <1>0, <1>5, <2>1, LinesWithType DEF WriteLine
  <2>3. writerRun' = r /\ lastSequence' = event.sequence /\ ~needsSeparator'
    BY <1>5 DEF WriteLine
  <2>4. /\ Len(lines) \in Nat /\ Len(lines') = Len(lines) + 1
        /\ \A i \in 1..Len(lines) : lines'[i] = lines[i]
        /\ lines'[Len(lines) + 1] = event /\ SubSeq(lines', 1, Len(lines)) = lines
        /\ lines # <<>> => Len(lines) >= 1
        /\ lines = <<>> => Len(lines) = 0
        /\ lines' # <<>>
    <3>1. lines \in Seq(Event)
      BY <1>0 DEF WriterTypeOK
    <3>2. /\ Len(lines) \in Nat /\ Len(lines') = Len(lines) + 1
          /\ \A i \in 1..Len(lines) : lines'[i] = lines[i]
          /\ lines'[Len(lines) + 1] = event /\ lines' # <<>>
      BY <2>1, <2>2, <3>1, AppendFacts
    <3>3. SubSeq(lines', 1, Len(lines)) = lines
      BY <2>1, <2>2, <3>1, AppendFacts
    <3>4. (lines # <<>> => Len(lines) >= 1) /\ (lines = <<>> => Len(lines) = 0)
      BY <3>1
    <3> QED
      BY <3>2, <3>3, <3>4
  <2>5. ASSUME lines # <<>> PROVE lines[1].run = r /\ writerRun = r
    <3>1. writerRun = lines[1].run /\ writerRun # NoRun
      BY <1>1, <2>5, WriterAssumption DEF LogInv
    <3> QED
      BY <1>5, <3>1 DEF WriteLine, Writable, WrongRun
  <2>6. event.run = r /\ lines'[1].run = r
    <3>1. CASE lines = <<>>
      BY <2>4, <3>1
    <3>2. CASE lines # <<>>
      BY <2>4, <2>5, <3>2
    <3> QED
      BY <3>1, <3>2
  <2>7. WellFormedLog'
    BY <2>1, <2>2, <2>5, ExtendWellFormed DEF LogInv
  <2>8. \A p \in Runs : events[p] # <<>> => p = r
    <3>1. SUFFICES ASSUME NEW p \in Runs, events[p] # <<>> PROVE p = r
      OBVIOUS
    <3>2. writerRun = p /\ Len(lines) \in {Len(events[p]), Len(events[p]) + 1}
      BY <1>1, <3>1 DEF LogInv, LogAgreement
    <3>3. Len(events[p]) \in Nat \ {0}
      BY <1>0, <3>1 DEF RecorderTypeOK
    <3>4. Len(lines) # 0 /\ (lines = <<>> => Len(lines) = 0)
      <4>1. lines = <<>> => Len(lines) = 0
        OBVIOUS
      <4> QED
        BY <3>2, <3>3, <4>1
    <3>5. lines # <<>>
      BY <3>4
    <3> QED
      BY <2>5, <3>2, <3>5
  <2>9. LogAgreement'
    <3>1. synced' = IF synced <= Len(lines') THEN synced ELSE Len(lines')
      BY <1>5 DEF WriteLine
    <3>2. synced' = synced
      BY <1>0, <2>4, <3>1 DEF WriterTypeOK
    <3>3. events[r] # <<>> => (Durable => Len(events[r]) <= synced)
      BY <1>1, <2>1 DEF LogInv, LogAgreement
    <3> QED
      BY <1>1, <2>1, <2>3, <2>4, <2>8, <3>2, <3>3 DEF LogAgreement, Durable
  <2>10. (alive => /\ lastSequence = Len(lines)
                   /\ needsSeparator \/ tail = "newline"
                   /\ lines # <<>> => writerRun = lines[1].run)'
    BY <2>1, <2>2, <2>3, <2>4, <2>6
  <2>11. (lines # <<>> => lines[1].run \in Runs /\ status[lines[1].run] # "unborn")'
    BY <1>1, <2>1, <2>6 DEF OperationInv
  <2>12. \A p \in Runs : outcome[p] # "ok"
    <3>1. SUFFICES ASSUME NEW p \in Runs, outcome[p] = "ok" PROVE FALSE
      OBVIOUS
    <3>2. lines # <<>> /\ lines[1].run = p
      BY <1>1, <3>1, OneRun
    <3> QED
      BY <2>1, <2>5, <3>1, <3>2
  <2>13. CASE SyncDue
    <3>1. UNCHANGED <<writerQueue, outcome>>
      BY <1>5, <2>13 DEF WriteLine
    <3>2. (\A p \in Runs : alive /\ outcome[p] = "ok" =>
             /\ lines = Append(events[p], active[p].event)
             /\ Durable => synced = Len(lines))'
      BY <2>12, <3>1
    <3>3. (syncing => lines = Append(events[CurrentJob.event.run], CurrentJob.event))'
      BY <1>1, <2>1, <2>2, <3>1 DEF CurrentJob
    <3> QED
      BY <2>7, <2>9, <2>10, <2>11, <3>2, <3>3 DEF LogInv
  <2>14. CASE ~SyncDue
    <3>1. Settle("ok") /\ FlushMode # "event"
      BY <1>5, <2>14 DEF WriteLine, SyncDue
    <3>2. \A p \in Runs : outcome'[p] = "ok" => p = r
      BY <1>0, <2>12, <3>1 DEF Settle, WriterTypeOK
    <3>3. (\A p \in Runs : alive /\ outcome[p] = "ok" =>
             /\ lines = Append(events[p], active[p].event)
             /\ Durable => synced = Len(lines))'
      BY <1>1, <2>1, <2>2, <3>1, <3>2 DEF Durable
    <3>4. ~syncing'
      <4>1. ~syncing /\ syncing' = syncing
        BY <1>5, <2>14 DEF WriteLine, Writable
      <4> QED
        BY <4>1
    <3> QED
      BY <2>7, <2>9, <2>10, <2>11, <3>3, <3>4 DEF LogInv
  <2> QED
    BY <2>13, <2>14
(* The file is synced, and the caller of the running job is told.          *)
<1>6. ASSUME writerQueue # <<>>, Settle("ok") \/ Settle("failed"), ~syncing',
             synced' = Len(lines),
             UNCHANGED <<lines, tail, writerRun, lastSequence, needsSeparator>>,
             r \in Runs => /\ active[r].event = event /\ lines = Append(events[r], event)
      PROVE  LogInv'
  <2>1. \A p \in Runs : outcome'[p] = "ok" => outcome[p] = "ok" \/ p = r
    BY <1>0, <1>6 DEF Settle, WriterTypeOK
  <2>2. WellFormedLog'
    BY <1>6 DEF LogInv, WellFormedLog
  <2>3. LogAgreement'
    <3>1. SUFFICES ASSUME NEW p \in Runs, events[p] # <<>>
          PROVE  /\ writerRun = p
                 /\ Len(lines) \in {Len(events[p]), Len(events[p]) + 1}
                 /\ SubSeq(lines, 1, Len(events[p])) = events[p]
                 /\ Len(events[p]) <= Len(lines)
      BY <1>1, <1>6 DEF LogAgreement, Durable
    <3>2. Len(events[p]) \in Nat
      BY <1>0 DEF RecorderTypeOK
    <3> QED
      BY <1>1, <3>1, <3>2 DEF LogInv, LogAgreement
  <2>4. (alive => /\ lastSequence = Len(lines)
                  /\ needsSeparator \/ tail = "newline"
                  /\ lines # <<>> => writerRun = lines[1].run)'
    BY <1>1, <1>6 DEF LogInv
  <2>5. (lines # <<>> => lines[1].run \in Runs /\ status[lines[1].run] # "unborn")'
    BY <1>1, <1>6 DEF LogInv
  <2>6. (\A p \in Runs : alive /\ outcome[p] = "ok" =>
           /\ lines = Append(events[p], active[p].event)
           /\ Durable => synced = Len(lines))'
    BY <1>1, <1>6, <2>1 DEF LogInv
  <2> QED
    BY <1>6, <2>2, <2>3, <2>4, <2>5, <2>6 DEF LogInv
<1>7. CASE SyncLine
  <2>1. syncing /\ ~syncing' /\ UNCHANGED <<lines, tail, writerRun, lastSequence, needsSeparator>>
    BY <1>7 DEF SyncLine
  <2>2. writerQueue # <<>> /\ CurrentJob = writerQueue[1] /\ 1 \in DOMAIN writerQueue
        /\ CurrentJob.op = "append"
    BY <1>0, <2>1, TailFacts DEF PromiseInv, Running, CurrentJob, WriterTypeOK
  <2>3. r \in Runs /\ active[r].event = event
    BY <1>0, <2>2 DEF JobInv, AppendOf
  <2>4. lines = Append(events[r], event)
    BY <2>1 DEF LogInv
  <2>5. \/ synced' = Len(lines) /\ Settle("ok")
        \/ synced' = synced /\ Settle("failed")
    BY <1>7 DEF SyncLine
  <2>6. needsSeparator' \/ tail' = "newline"
    <3>1. needsSeparator \/ tail = "newline"
      BY <1>1 DEF LogInv
    <3> QED
      BY <2>1, <3>1
  <2>7. CASE synced' = Len(lines) /\ Settle("ok")
    BY <1>6, <2>1, <2>2, <2>3, <2>4, <2>7
  <2>8. CASE synced' = synced /\ Settle("failed")
    BY <1>2, <2>1, <2>2, <2>6, <2>8
  <2> QED
    BY <2>5, <2>7, <2>8
<1>8. CASE FlushOrClose
  <2>1. /\ writerQueue # <<>> /\ CurrentJob.op # "append"
        /\ UNCHANGED <<lines, tail, writerRun, lastSequence, needsSeparator>>
        /\ syncing' = syncing
    BY <1>8 DEF FlushOrClose, Running
  <2>2. CurrentJob = writerQueue[1] /\ 1 \in DOMAIN writerQueue
    BY <1>0, <2>1, TailFacts DEF CurrentJob, WriterTypeOK
  <2>3. r = NoRun /\ r \notin Runs
    BY <1>0, <2>1, <2>2, WriterAssumption DEF JobInv
  <2>4. ~syncing
    BY <2>1 DEF PromiseInv, Running
  <2>5. ~syncing'
    BY <2>1, <2>4
  <2>6. \/ synced' = Len(lines) /\ (Settle("ok") \/ Settle("failed"))
        \/ synced' = synced /\ (Settle("ok") \/ Settle("failed"))
    BY <1>8 DEF FlushOrClose
  <2>7. CASE synced' = Len(lines) /\ (Settle("ok") \/ Settle("failed"))
    BY <1>6, <2>1, <2>3, <2>5, <2>7
  <2>8. CASE synced' = synced /\ (Settle("ok") \/ Settle("failed"))
    <3>1. \A p \in Runs : outcome'[p] = outcome[p]
      BY <1>0, <2>3, <2>8 DEF Settle, WriterTypeOK
    <3>2. UNCHANGED <<lines, tail, synced, writerRun, lastSequence, needsSeparator, syncing,
                      events, alive>>
      BY <1>1, <2>1, <2>8
    <3> QED
      BY <1>1, <2>4, <3>1, <3>2, LogFrame
  <2> QED
    BY <2>6, <2>7, <2>8
<1> QED
  BY <1>3, <1>4, <1>5, <1>7, <1>8 DEF WriteEvents, WriterStep

(* A run's committed event joins its memory; the file holds it already.    *)
LEMMA LogInvResume ==
  ASSUME TypeOK, \A p \in Runs : OperationInv(p), PromiseInv, LogInv,
         NEW r \in Runs, Resume(r)
  PROVE  LogInv'
<1>0. WriterTypeOK /\ RecorderTypeOK /\ JobInv
  BY DEF TypeOK, PromiseInv
<1>1. /\ alive /\ alive' = alive /\ outcome[r] # "none"
      /\ UNCHANGED <<lines, tail, synced, writerRun, lastSequence, needsSeparator, syncing>>
      /\ UNCHANGED writerQueue
      /\ outcome' = [outcome EXCEPT ![r] = "none"]
  BY DEF Resume
<1>2. \A p \in Runs : outcome'[p] = "ok" => outcome[p] = "ok" /\ p # r
  BY <1>0, <1>1 DEF WriterTypeOK
<1>3. \A p \in Runs \ {r} : active'[p] = active[p]
  BY <1>0 DEF Resume, CommitEvent, AbortEvent, Abandon, RecorderTypeOK
<1>4. CurrentJob' = CurrentJob
  BY <1>1 DEF CurrentJob
<1>5. CASE AbortEvent(r)
  <2>1. events' = events
    BY <1>5 DEF AbortEvent, Abandon
  <2>2. \A p \in Runs : status[p] # "unborn" => status'[p] # "unborn"
    BY <1>0, <1>5 DEF AbortEvent, Abandon, RecorderTypeOK
  <2> QED
    BY <1>1, <1>2, <1>3, <1>4, <2>1, <2>2, LogFrame
<1>6. CASE outcome[r] = "ok" /\ CommitEvent(r)
  <2> DEFINE event == active[r].event
             n == Len(events[r])
  <2>1. events[r] \in Seq(Event) /\ event \in Event /\ n \in Nat
    BY <1>0 DEF RecorderTypeOK, Active
  <2>2. events'[r] = Append(events[r], event) /\ \A p \in Runs \ {r} : events'[p] = events[p]
    BY <1>0, <1>6 DEF CommitEvent, RecorderTypeOK
  <2>3. lines = events'[r] /\ (Durable => synced = Len(lines))
    BY <1>1, <1>6, <2>2 DEF LogInv
  <2>4. lines # <<>> /\ writerRun = r
    BY <1>1, <1>6, OneRun
  <2>5. \A p \in Runs : status[p] # "unborn" => status'[p] # "unborn"
    BY <1>0, <1>6 DEF CommitEvent, RecorderTypeOK, StatusAfter
  <2>6. WellFormedLog'
    BY <1>1 DEF LogInv, WellFormedLog
  <2>7. LogAgreement'
    <3>1. ASSUME NEW p \in Runs, events'[p] # <<>>
          PROVE  /\ writerRun = p
                 /\ Len(lines) \in {Len(events'[p]), Len(events'[p]) + 1}
                 /\ SubSeq(lines, 1, Len(events'[p])) = events'[p]
                 /\ Durable => Len(events'[p]) <= synced
      <4>1. CASE p = r
        <5>1. lines \in Seq(Event) /\ Len(lines) \in Nat
          BY <1>0 DEF WriterTypeOK
        <5>2. SubSeq(lines, 1, Len(lines)) = lines
          BY <5>1
        <5> QED
          BY <2>3, <2>4, <4>1, <5>1, <5>2
      <4>2. CASE p # r
        BY <1>1, <2>2, <3>1, <4>2 DEF LogInv, LogAgreement
      <4> QED
        BY <4>1, <4>2
    <3> QED
      BY <1>1, <3>1 DEF LogAgreement, Durable
  <2>8. (alive => /\ lastSequence = Len(lines)
                  /\ needsSeparator \/ tail = "newline"
                  /\ lines # <<>> => writerRun = lines[1].run)'
    BY <1>1 DEF LogInv
  <2>9. (lines # <<>> => lines[1].run \in Runs /\ status[lines[1].run] # "unborn")'
    BY <1>1, <2>5 DEF LogInv
  <2>10. (\A p \in Runs : alive /\ outcome[p] = "ok" =>
            /\ lines = Append(events[p], active[p].event)
            /\ Durable => synced = Len(lines))'
    BY <1>1, <1>2, <1>3, <2>2 DEF LogInv, Durable
  <2>11. (syncing => lines = Append(events[CurrentJob.event.run], CurrentJob.event))'
    <3>1. SUFFICES ASSUME syncing
          PROVE lines = Append(events'[CurrentJob.event.run], CurrentJob.event)
      BY <1>1, <1>4
    <3>2. /\ writerQueue # <<>> /\ CurrentJob = writerQueue[1] /\ 1 \in DOMAIN writerQueue
          /\ CurrentJob.op = "append"
      BY <1>0, <3>1, TailFacts DEF PromiseInv, Running, CurrentJob, WriterTypeOK
    <3>3. CurrentJob.event.run \in Runs /\ outcome[CurrentJob.event.run] = "none"
      BY <1>0, <3>2 DEF JobInv, AppendOf
    <3>4. events'[CurrentJob.event.run] = events[CurrentJob.event.run]
      BY <1>6, <2>2, <3>3
    <3> QED
      BY <3>1, <3>4 DEF LogInv
  <2> QED
    BY <2>6, <2>7, <2>8, <2>9, <2>10, <2>11 DEF LogInv
<1> QED
  BY <1>5, <1>6 DEF Resume

(* ... and after every step, if no write is short.                         *)
LEMMA LogInvNext ==
  ASSUME ~ShortWrites, TypeOK, \A r \in Runs : OperationInv(r), PromiseInv, LogInv, [Next]_vars
  PROVE  LogInv'
<1>0. WriterTypeOK /\ RecorderTypeOK /\ JobInv
  BY DEF TypeOK, PromiseInv
<1>1. ASSUME NEW r \in Runs, Start(r) \/ Request(r) \/ Downgrade(r) \/ Begin(r)
                             \/ SaveCheckpoint(r)
      PROVE  LogInv'
  <2>1. /\ alive' = alive /\ UNCHANGED writerVars /\ UNCHANGED events
    BY <1>1 DEF Start, StartRun, Request, Call, Downgrade, MarkIncomplete, Begin, BeginOperation,
       RejectOperation, InterceptorFails, Abandon, SaveCheckpoint, AfterCheckpoint
  <2>2. \A p \in Runs : status[p] # "unborn" => status'[p] # "unborn"
    BY <1>0, <1>1 DEF Start, StartRun, Request, Call, Downgrade, MarkIncomplete, Begin,
       BeginOperation, RejectOperation, InterceptorFails, Abandon, SaveCheckpoint,
       AfterCheckpoint, RecorderTypeOK
  <2>3. \A p \in Runs : active[p].phase = "append" => active'[p] = active[p]
    BY <1>0, <1>1 DEF Start, StartRun, Request, Call, Downgrade, MarkIncomplete, Begin,
       BeginOperation, RejectOperation, InterceptorFails, Abandon, Ready, SaveCheckpoint,
       AfterCheckpoint, RecorderTypeOK, OperationInv
  <2>4. \A p \in Runs : outcome'[p] = "ok" => outcome[p] = "ok" /\ active'[p] = active[p]
    BY <2>1, <2>3 DEF writerVars, PromiseInv, JobInv
  <2> QED
    BY <2>1, <2>2, <2>4, LogFrame DEF writerVars, CurrentJob
<1>2. ASSUME NEW r \in Runs, Submit(r) PROVE LogInv'
  <2>1. /\ alive' = alive /\ UNCHANGED <<status, events, outcome>>
        /\ UNCHANGED <<lines, tail, synced, writerRun, lastSequence, needsSeparator, syncing>>
        /\ writerQueue' = Append(writerQueue, [op |-> "append", event |-> active[r].event])
    BY <1>2 DEF Submit, SubmitEvent, EnqueueJob
  <2>2. \A p \in Runs : outcome[p] # "none" => active'[p] = active[p]
    BY <1>0, <1>2 DEF Submit, SubmitEvent, RecorderTypeOK, JobInv
  <2>3. ASSUME syncing PROVE CurrentJob' = CurrentJob
    <3>1. writerQueue # <<>> /\ [op |-> "append", event |-> active[r].event] \in Job
      BY <1>0, <2>3 DEF PromiseInv, Running, RecorderTypeOK, Active, Job
    <3> QED
      BY <1>0, <2>1, <3>1 DEF CurrentJob, WriterTypeOK
  <2> QED
    BY <2>1, <2>2, <2>3, LogFrame
<1>3. ASSUME NEW r \in Runs, Resume(r) PROVE LogInv'
  BY <1>3, LogInvResume
<1>4. ASSUME WriteEvents PROVE LogInv'
  BY <1>4, LogInvWriter
<1>5. ASSUME Close \/ ContinueClose PROVE LogInv'
  <2>1. /\ alive' = alive /\ UNCHANGED <<status, events, active>>
        /\ UNCHANGED <<lines, tail, synced, writerRun, lastSequence, needsSeparator, syncing>>
    BY <1>5 DEF Close, ContinueClose, EnqueueForOwner, TakeOwnerOutcome, recorderVars, writerVars
  <2>2. \A p \in Runs : outcome'[p] = outcome[p]
    BY <1>0, <1>5, WriterAssumption DEF Close, ContinueClose, EnqueueForOwner, TakeOwnerOutcome,
       WriterTypeOK, writerVars
  <2>3. ASSUME syncing PROVE CurrentJob' = CurrentJob
    <3>1. CASE \E op \in {"flush", "close"} : EnqueueForOwner(op)
      <4>1. PICK op \in {"flush", "close"} : EnqueueForOwner(op)
        BY <3>1
      <4>2. writerQueue # <<>> /\ [op |-> op, event |-> NoEvent] \in Job
        BY <2>3, NoEventType DEF PromiseInv, Running, Job
      <4> QED
        BY <1>0, <4>1, <4>2 DEF EnqueueForOwner, EnqueueJob, CurrentJob, WriterTypeOK
    <3>2. CASE writerQueue' = writerQueue
      BY <3>2 DEF CurrentJob
    <3> QED
      BY <1>5, <3>1, <3>2 DEF Close, ContinueClose, TakeOwnerOutcome, writerVars
  <2> QED
    BY <2>1, <2>2, <2>3, LogFrame
<1>6. ASSUME WriteManifests \/ (\E r \in Runs, op \in {"write", "commit"} : RequestManifest(r, op))
             \/ UNCHANGED vars
      PROVE  LogInv'
  <2>1. alive' = alive /\ UNCHANGED writerVars /\ UNCHANGED recorderVars
    BY <1>6 DEF WriteManifests, RequestManifest, vars
  <2> QED
    BY <2>1, LogFrame DEF writerVars, recorderVars, CurrentJob
<1>7. ASSUME Crash PROVE LogInv'
  <2>1. ~alive' /\ ~syncing'
    BY <1>7 DEF Crash
  <2>2. PICK kept \in synced..Len(lines) : lines' = SubSeq(lines, 1, kept)
    BY <1>7 DEF Crash, LoseUnsynced
  <2>3. kept \in 0..Len(lines)
    BY <1>0, <2>2 DEF WriterTypeOK
  <2>4. WellFormedLog' /\ (lines' # <<>> => lines # <<>> /\ lines'[1] = lines[1])
    BY <1>0, <2>2, <2>3, PrefixWellFormed DEF LogInv
  <2>5. \A p \in Runs : status[p] # "unborn" => status'[p] # "unborn"
    BY <1>7 DEF Crash
  <2> QED
    BY <2>1, <2>4, <2>5 DEF LogInv, LogAgreement
<1>8. ASSUME Reopen PROVE LogInv'
  <2>1. /\ ~alive /\ ~syncing' /\ UNCHANGED <<lines, status, events>>
        /\ \A p \in Runs : outcome'[p] = "none"
    BY <1>8 DEF Reopen, OpenWriter, recorderVars
  <2>2. \A p \in Runs : events[p] = <<>>
    <3>1. \A p \in Runs : Len(events[p]) = 0
      BY <2>1 DEF OperationInv
    <3> QED
      BY <1>0, <3>1 DEF RecorderTypeOK
  <2>3. /\ lastSequence' = IF lines = <<>> THEN 0 ELSE lines[Len(lines)].sequence
        /\ writerRun' = IF lines = <<>> THEN NoRun ELSE lines[Len(lines)].run
    BY <1>8 DEF Reopen, OpenWriter
  <2>4. needsSeparator' \/ tail' = "newline"
    <3>1. tail' = tail /\ needsSeparator' = (tail # "newline")
      BY <1>8 DEF Reopen, OpenWriter
    <3>2. CASE tail = "newline"
      BY <3>1, <3>2
    <3>3. CASE tail # "newline"
      BY <3>1, <3>3
    <3> QED
      BY <3>2, <3>3
  <2>5. lines # <<>> => Len(lines) \in DOMAIN lines
    BY <1>0 DEF WriterTypeOK
  <2>6. lastSequence' = Len(lines) /\ (lines # <<>> => writerRun' = lines[1].run)
    <3>1. CASE lines = <<>>
      BY <2>3, <3>1
    <3>2. CASE lines # <<>>
      BY <2>3, <2>5, <3>2 DEF LogInv, WellFormedLog
    <3> QED
      BY <3>1, <3>2
  <2>7. WellFormedLog'
    BY <2>1 DEF LogInv, WellFormedLog
  <2>8. LogAgreement'
    BY <2>1, <2>2 DEF LogAgreement
  <2> QED
    BY <2>1, <2>4, <2>6, <2>7, <2>8 DEF LogInv
<1> QED
  BY <1>1, <1>2, <1>3, <1>4, <1>5, <1>6, <1>7, <1>8 DEF Next

-----------------------------------------------------------------------------
(* The theorems.                                                           *)

(* Every variable keeps its type in every behaviour, short writes or not:  *)
(* in particular no more lines count as synced than there are.             *)
THEOREM TypeCorrect == Spec => []TypeOK
<1> DEFINE TInv == TypeOK /\ (\A r \in Runs : OperationInv(r)) /\ PromiseInv
<1>1. Init => TInv
  BY InitType, OperationInvInit, PromiseInvInit
<1>2. TInv /\ [Next]_vars => TInv'
  BY NextType, OperationInvNext, PromiseInvNext
<1>3. TInv => TypeOK
  OBVIOUS
<1> QED
  BY <1>1, <1>2, <1>3, PTL DEF Spec

(* The inductive invariant holds throughout, if no write is short.         *)
LEMMA Inductive == ASSUME ~ShortWrites PROVE Spec => []IInv
<1>1. Init => IInv
  BY InitType, OperationInvInit, PromiseInvInit, LogInvInit DEF IInv
<1>2. IInv /\ [Next]_vars => IInv'
  BY NextType, OperationInvNext, PromiseInvNext, LogInvNext DEF IInv
<1> QED
  BY <1>1, <1>2, PTL DEF Spec

(* In every flush mode, and for any number of runs, events and crashes:    *)
(* unless a write comes up short, the file is what the live recorder has   *)
(* committed plus at most one line, and with a sync per event everything   *)
(* committed is on disk.                                                   *)
THEOREM FileAgreesWithMemory == ASSUME ~ShortWrites PROVE Spec => []LogAgreement
<1>1. IInv => LogAgreement
  BY DEF IInv, LogInv
<1> QED
  BY <1>1, Inductive, PTL

(* Unless a write comes up short, what a reader finds in events.jsonl is   *)
(* one well-formed history, through failed writes, refused syncs, crashes  *)
(* and reopening.                                                          *)
THEOREM FileIsOneHistory == ASSUME ~ShortWrites PROVE Spec => []WellFormedLog
<1>1. IInv => WellFormedLog
  BY DEF IInv, LogInv
<1> QED
  BY <1>1, Inductive, PTL
=============================================================================
