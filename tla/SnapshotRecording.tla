------------------------- MODULE SnapshotRecording -------------------------
(***************************************************************************)
(* One Recorder whose last interceptor is the SnapshotWriter of one        *)
(* snapshot directory (SnapshotWriter.asInterceptor()): the run operations *)
(* of Recorder, the line file of JsonlWriter, the manifests of             *)
(* ManifestCommit, the checkpoint files, close(), and the process dying    *)
(* and the directory being opened again.                                   *)
(***************************************************************************)
EXTENDS ManifestCommit

CONSTANTS
  Methods,       \* the operations the recorded program calls
  MaxManifests   \* bound: manifest jobs waiting at once

ASSUME RecordingAssumption ==
  /\ Methods \subseteq {"appendEvent"} \cup DOMAIN Emits
  /\ MaxManifests \in Nat

VARIABLES
  checkpointFiles,  \* files under checkpoints/, by run and sequence
  closeStep,        \* how far SnapshotWriter.close() is
  alive             \* the process that owns recorder and writer is running

vars == <<writerVars, recorderVars, manifestVars, checkpointFiles, closeStep, alive>>

CheckpointFile == [run : Runs, sequence : Nat]
CloseStep == {"open", "flushing", "draining", "closing", "closed", "leaked"}

TypeOK ==
  /\ WriterTypeOK /\ RecorderTypeOK /\ ManifestTypeOK
  /\ checkpointFiles \subseteq CheckpointFile
  /\ closeStep \in CloseStep
  /\ alive \in BOOLEAN

Init ==
  /\ WriterInit /\ RecorderInit /\ ManifestInit
  /\ checkpointFiles = {}
  /\ closeStep = "open"
  /\ alive = TRUE

-----------------------------------------------------------------------------
(* Calls from the program that is being recorded.                          *)

Start(r) ==
  /\ alive
  /\ StartRun(r)
  /\ UNCHANGED <<writerVars, manifestVars, checkpointFiles, closeStep, alive>>

(* Events of the program's own or (mistakenly) of a reserved type, at any  *)
(* context; checkpoints and endings at the latest event, or - failRun - at *)
(* a context given explicitly.                                             *)
Operations(r) ==
  [method : Methods \cap {"appendEvent"}, type : {"call", "run.completed"},
   parent : 0..Len(events[r]), latest : {FALSE}]
  \cup [method : Methods \cap DOMAIN Emits, type : {"none"}, parent : {0}, latest : {TRUE}]
  \cup [method : Methods \cap {"failRun"}, type : {"none"},
        parent : 0..Len(events[r]), latest : {FALSE}]

Request(r) ==
  /\ alive
  /\ \E op \in Operations(r) : Call(r, op)
  /\ UNCHANGED <<writerVars, manifestVars, checkpointFiles, closeStep, alive>>

Downgrade(r) ==
  /\ alive
  /\ MarkIncomplete(r)
  /\ UNCHANGED <<writerVars, manifestVars, checkpointFiles, closeStep, alive>>

(* writeManifest(getManifest(run)) or commit(getManifest(run)): the        *)
(* manifest is the run's state at the call, not at the write.  No caller   *)
(* asks for one while its own close() is pending.                          *)
RequestManifest(r, op) ==
  /\ alive /\ HasHandle(r) /\ closeStep \in {"open", "closed", "leaked"}
  /\ Len(manifestQueue) < MaxManifests
  /\ manifestQueue' = Append(manifestQueue, [op |-> op, manifest |-> ManifestOf(r)])
  /\ UNCHANGED <<renaming, tmpManifest, finalManifest>>
  /\ UNCHANGED <<writerVars, recorderVars, checkpointFiles, closeStep, alive>>

-----------------------------------------------------------------------------
(* Continuations of the recorder's promises.                               *)

Begin(r) ==
  /\ alive
  /\ BeginOperation(r) \/ RejectOperation(r) \/ InterceptorFails(r)
  /\ UNCHANGED <<writerVars, manifestVars, checkpointFiles, closeStep, alive>>

(* afterAppend calls SnapshotWriter.append(event).                         *)
Submit(r) ==
  /\ alive
  /\ SubmitEvent(r)
  /\ EnqueueJob("append", active[r].event)
  /\ UNCHANGED <<lines, tail, synced, writerRun, lastSequence, pendingWrites,
                 needsSeparator, writerClosed, syncing, outcome>>
  /\ UNCHANGED <<manifestVars, checkpointFiles, closeStep, alive>>

(* The append promise has settled: commit, or settle without committing.   *)
Resume(r) ==
  /\ alive
  /\ \/ outcome[r] = "ok" /\ CommitEvent(r)
     \/ outcome[r] = "failed" /\ AbortEvent(r)
  /\ outcome' = [outcome EXCEPT ![r] = "none"]
  /\ UNCHANGED <<lines, tail, synced, writerRun, lastSequence, pendingWrites,
                 needsSeparator, writerClosed, writerQueue, syncing>>
  /\ UNCHANGED <<manifestVars, checkpointFiles, closeStep, alive>>

(* afterCheckpoint calls CheckpointStore.save(): it stores the checkpoint  *)
(* unless the store is closed, the sequence is taken by another one, or    *)
(* the file system refuses.                                                *)
SaveCheckpoint(r) ==
  /\ alive
  /\ AfterCheckpoint(r)
  /\ LET pin == active[r].event.pin IN
       \/ /\ closeStep # "closed"
          /\ \A file \in checkpointFiles : file.sequence # pin
          /\ checkpointFiles' = checkpointFiles \cup {[run |-> r, sequence |-> pin]}
       \/ UNCHANGED checkpointFiles
  /\ UNCHANGED <<writerVars, manifestVars, closeStep, alive>>

WriteEvents ==
  /\ alive
  /\ WriterStep
  /\ UNCHANGED <<recorderVars, manifestVars, checkpointFiles, closeStep, alive>>

WriteManifests ==
  /\ alive
  /\ ManifestStep
  /\ UNCHANGED <<writerVars, recorderVars, checkpointFiles, closeStep, alive>>

-----------------------------------------------------------------------------
(* SnapshotWriter.close(): flush the events, wait for the manifest queue,  *)
(* mark itself closed, close the event file and then the checkpoint store. *)
(* A failed flush leaves it open for a retry; a failed close does not.     *)

EnqueueForOwner(op) ==
  /\ EnqueueJob(op, NoEvent)
  /\ UNCHANGED <<lines, tail, synced, writerRun, lastSequence, pendingWrites,
                 needsSeparator, writerClosed, syncing, outcome>>

TakeOwnerOutcome ==
  /\ outcome[NoRun] # "none"
  /\ outcome' = [outcome EXCEPT ![NoRun] = "none"]
  /\ UNCHANGED <<lines, tail, synced, writerRun, lastSequence, pendingWrites,
                 needsSeparator, writerClosed, writerQueue, syncing>>

Close ==
  /\ alive
  /\ closeStep = "open" /\ closeStep' = "flushing" /\ EnqueueForOwner("flush")
  /\ UNCHANGED <<recorderVars, manifestVars, checkpointFiles, alive>>

ContinueClose ==
  /\ alive
  /\ \/ /\ closeStep = "flushing" /\ TakeOwnerOutcome
        /\ closeStep' = IF outcome[NoRun] = "ok" THEN "draining" ELSE "open"
     \/ /\ closeStep = "draining" /\ manifestQueue = <<>>
        /\ closeStep' = "closing" /\ EnqueueForOwner("close")
     \/ /\ closeStep = "closing" /\ TakeOwnerOutcome
        /\ closeStep' = IF outcome[NoRun] = "ok" THEN "closed" ELSE "leaked"
  /\ UNCHANGED <<recorderVars, manifestVars, checkpointFiles, alive>>

-----------------------------------------------------------------------------
(* The process dies, or the machine loses power, at any point.  The memory *)
(* of recorder and writer is gone; run ids are never generated twice.  The *)
(* checkpoints directory is not synced either: saved files may be missing. *)
Crash ==
  /\ alive /\ alive' = FALSE
  /\ LoseUnsynced
  /\ LoseManifestWork
  /\ writerRun' = NoRun /\ lastSequence' = 0 /\ pendingWrites' = 0
  /\ needsSeparator' = FALSE /\ writerClosed' = FALSE
  /\ writerQueue' = <<>> /\ syncing' = FALSE
  /\ outcome' = [c \in Runs \cup {NoRun} |-> "none"]
  /\ status' = [r \in Runs |-> IF status[r] = "unborn" THEN "unborn" ELSE "lost"]
  /\ events' = [r \in Runs |-> <<>>]
  /\ nextSequence' = [r \in Runs |-> 1]
  /\ completeness' = [r \in Runs |-> "complete"]
  /\ opQueue' = [r \in Runs |-> <<>>]
  /\ active' = [r \in Runs |-> Idle]
  /\ closeStep' = "open"
  /\ checkpointFiles' \in SUBSET checkpointFiles

(* SnapshotWriter.open() on the directory the dead process left.           *)
Reopen ==
  /\ ~alive /\ alive' = TRUE
  /\ OpenWriter
  /\ UNCHANGED <<recorderVars, manifestVars, checkpointFiles, closeStep>>

-----------------------------------------------------------------------------
Next ==
  \/ \E r \in Runs :
       \/ Start(r) \/ Request(r) \/ Downgrade(r)
       \/ \E op \in {"write", "commit"} : RequestManifest(r, op)
       \/ Begin(r) \/ Submit(r) \/ Resume(r) \/ SaveCheckpoint(r)
  \/ WriteEvents \/ WriteManifests \/ Close \/ ContinueClose
  \/ Crash \/ Reopen

Spec == Init /\ [][Next]_vars

(* Node runs every ready continuation and every file-system call returns,  *)
(* so whatever the writer, the manifest queue, close() or a running        *)
(* operation can do, it does.  Calls and close() are up to the program,    *)
(* crashes and reopening to its environment.                               *)
Fairness ==
  /\ WF_vars(WriteEvents) /\ WF_vars(WriteManifests) /\ WF_vars(ContinueClose)
  /\ \A r \in Runs : WF_vars(Begin(r)) /\ WF_vars(Submit(r))
                     /\ WF_vars(Resume(r)) /\ WF_vars(SaveCheckpoint(r))

FairSpec == Spec /\ Fairness

-----------------------------------------------------------------------------
Durable == FlushMode = "event" /\ ~ShortWrites

LastLine == lines[Len(lines)]

(* While the process lives, the file is exactly what the recorder has      *)
(* committed for the run the writer is bound to, followed by at most one   *)
(* line: the event being appended or one whose append was reported failed  *)
(* after its bytes were written.  Memory is never ahead of the file, and   *)
(* with a sync per event never ahead of the disk.                          *)
LogAgreement ==
  alive => \A r \in Runs : events[r] # <<>> =>
    /\ writerRun = r
    /\ Len(lines) \in {Len(events[r]), Len(events[r]) + 1}
    /\ SubSeq(lines, 1, Len(events[r])) = events[r]
    /\ Durable => Len(events[r]) <= synced

(* The file is one run's history: one run id, contiguous sequences from 1, *)
(* every parent earlier than its child, a checkpoint.created pinning its   *)
(* direct predecessor, and nothing after a terminal event - also after     *)
(* crashes, failed writes and reopening.                                   *)
WellFormedLog ==
  \A i \in DOMAIN lines :
    /\ lines[i].run = lines[1].run /\ lines[i].sequence = i
    /\ lines[i].type = "run.started" <=> i = 1
    /\ i > 1 => lines[i].parent \in 1..(i - 1)
    /\ lines[i].type = "checkpoint.created" => lines[i].pin = i - 1
    /\ lines[i].type \in TerminalTypes => i = Len(lines)

(* A checkpoint file is only ever there for a checkpoint.created event     *)
(* that is on disk, directly behind the event the checkpoint names.        *)
CheckpointFilesBacked ==
  Durable => \A file \in checkpointFiles :
    LET next == file.sequence + 1 IN
    /\ next \in 1..synced
    /\ lines[next].run = file.run /\ lines[next].type = "checkpoint.created"

(* What inspectSnapshotDirectory() calls finished is finished: the file    *)
(* ends in the terminal event and holds the number of events the manifest  *)
(* claims, all of them on disk.                                            *)
FinishedInspectionIsComplete ==
  Durable /\ ~InspectedUnfinished /\ finalManifest # Absent =>
    /\ lines # <<>> /\ LastLine.type \in TerminalTypes
    /\ finalManifest.run = LastLine.run
    /\ finalManifest.status = StatusAfter[LastLine.type]
    /\ finalManifest.count = Len(lines) /\ synced = Len(lines)

(* Once manifest.json is in place the file it describes does not change    *)
(* any more, and a later commit writes the same manifest again - whatever  *)
(* is called, fails or crashes; only a power loss can take the manifest    *)
(* back, into a temporary file that says the same.                         *)
SealedForever ==
  [][Durable /\ finalManifest # Absent =>
       /\ UNCHANGED lines
       /\ finalManifest \in {finalManifest', tmpManifest'}
       /\ finalManifest' # finalManifest => ~alive']_vars

(* An event whose line was written but whose append failed (the sync was   *)
(* refused) fences the file: its sequence is used up, so no retry can ever *)
(* write a second event with it, or anything after it.                     *)
Fenced(r) ==
  /\ alive /\ events[r] # <<>>
  /\ Len(lines) > Len(events[r]) /\ ~syncing /\ outcome[r] # "ok"
FenceHolds ==
  [][\A r \in Runs : Durable /\ Fenced(r) /\ alive' =>
       UNCHANGED <<lines, events[r], status[r]>>]_vars

(* The queues never jam: every operation that has begun settles, through   *)
(* rejected writes, refused syncs and failing interceptors.                *)
OperationsSettle ==
  \A r \in Runs : active[r].phase # "idle" ~> active[r].phase = "idle"

(* close() never hangs: however many appends and manifests are queued in   *)
(* front of it, it ends closed, leaked, or open again after a failed flush. *)
CloseSettles ==
  closeStep \in {"flushing", "draining", "closing"}
    ~> closeStep \in {"open", "closed", "leaked"}

(* Whatever the flush mode, short writes and crashes do to single lines,   *)
(* what is left is a part of one run's history in its order: reopening     *)
(* never lets another run, or an old sequence, in behind the lines there.  *)
SingleHistory ==
  \A i, j \in DOMAIN lines : i < j =>
    /\ lines[i].run = lines[j].run
    /\ lines[i].sequence < lines[j].sequence
    /\ lines[i].type \notin TerminalTypes

-----------------------------------------------------------------------------
(* CHANGELOG: "failed durable event writes cannot advance the Recorder's   *)
(* visible event sequence or terminal state".  Every event the recorder    *)
(* shows has its line in the file.                                         *)
VisibleEventsAreWritten ==
  \A r \in Runs : \A i \in DOMAIN events[r] :
    i \in DOMAIN lines /\ lines[i] = events[r][i]

(* The message of INTERCEPTOR_FAILED_BEFORE_COMMIT: "Event was not         *)
(* committed".  When no operation is in flight the file holds the          *)
(* committed events and no others.                                         *)
RejectedEventsAreNotOnDisk ==
  \A r \in Runs : alive /\ events[r] # <<>> /\ active[r].phase = "idle" =>
    Len(lines) = Len(events[r])

-----------------------------------------------------------------------------
(* The directory as its readers may rely on it.                            *)
Store == INSTANCE SnapshotStore WITH
  log <- lines, durable <- synced, sealed <- (finalManifest # Absent)
StoreSpec == Store!Spec
=============================================================================
