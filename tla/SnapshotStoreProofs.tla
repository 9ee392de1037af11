------------------------ MODULE SnapshotStoreProofs ------------------------
(***************************************************************************)
(* Theorems on what a snapshot directory promises its readers when every   *)
(* event is synced before it is reported: checkpoint files and manifests   *)
(* agree with the event file, what is sealed stays, a fenced file is left  *)
(* alone, and the directory implements SnapshotStore.                      *)
(***************************************************************************)
EXTENDS SnapshotRecordingProofs

(* What the recording's other theorems rest on, as far as it is needed.    *)
Base == TypeOK /\ (\A r \in Runs : OperationInv(r)) /\ PromiseInv /\ LogInv

-----------------------------------------------------------------------------
(* The event file in one step: it is synced or left alone, a line is added *)
(* to one that is synced, or a power loss takes lines that are not.        *)
FileKept == lines' = lines /\ synced' \in {synced, Len(lines)}
LineAdded ==
  /\ WriteEvents /\ Writable /\ synced = Len(lines) /\ synced' = synced
  /\ lines = events[CurrentJob.event.run]
  /\ lines' = Append(lines, CurrentJob.event)
LinesLost ==
  Crash /\ \E kept \in synced..Len(lines) : lines' = SubSeq(lines, 1, kept) /\ synced' = kept

(* ... and nothing else.                                                   *)
LEMMA FileEffect ==
  ASSUME Durable, Base, [Next]_vars
  PROVE  FileKept \/ LineAdded \/ LinesLost
<1>0. /\ WriterTypeOK /\ (\A r \in Runs : OperationInv(r)) /\ PromiseInv /\ LogInv
      /\ lines \in Seq(Event) /\ synced \in 0..Len(lines)
  BY DEF Base, TypeOK, WriterTypeOK
<1>1. ASSUME NEW r \in Runs,
             \/ Start(r) \/ Request(r) \/ Downgrade(r)
             \/ \E op \in {"write", "commit"} : RequestManifest(r, op)
             \/ Begin(r) \/ Submit(r) \/ Resume(r) \/ SaveCheckpoint(r)
      PROVE  FileKept
  BY <1>1 DEF Start, Request, Downgrade, RequestManifest, Begin, Submit, Resume, SaveCheckpoint,
              writerVars, FileKept
<1>2. ASSUME WriteEvents PROVE FileKept \/ LineAdded
  <2>1. CASE WriteLine
    <3>1. Writable /\ alive
      BY <1>2, <2>1 DEF WriteLine, WriteEvents
    <3>2. /\ CurrentJob.event \in Event /\ TailBeforeLine = "newline"
          /\ CurrentJob.event.run \in Runs /\ lines = events[CurrentJob.event.run]
      BY <1>0, <3>1, WritableLines DEF Base
    <3>3. lines' = Append(lines, CurrentJob.event)
      <4>1. lines' = LinesWith(CurrentJob.event)
        BY <2>1 DEF WriteLine, Durable
      <4> QED
        BY <1>0, <3>2, <4>1, LinesWithType
    <3>4. synced = Len(lines)
      <4>1. CASE lines = <<>>
        BY <1>0, <4>1
      <4>2. CASE lines # <<>>
        <5>1. Len(lines) <= synced
          BY <1>0, <3>1, <3>2, <4>2 DEF LogInv, LogAgreement
        <5> QED
          BY <1>0, <5>1
      <4> QED
        BY <4>1, <4>2
    <3>5. synced' = synced
      <4>1. Len(lines') = Len(lines) + 1
        BY <1>0, <3>2, <3>3
      <4> QED
        BY <1>0, <2>1, <3>4, <4>1 DEF WriteLine
    <3> QED
      BY <1>2, <3>1, <3>2, <3>3, <3>4, <3>5 DEF LineAdded
  <2>2. CASE RejectAppend \/ FailWrite \/ SyncLine \/ FlushOrClose
    BY <2>2 DEF RejectAppend, FailWrite, SyncLine, FlushOrClose, FileKept
  <2> QED
    BY <1>2, <2>1, <2>2 DEF WriteEvents, WriterStep
<1>3. ASSUME WriteManifests \/ Close \/ ContinueClose \/ Reopen \/ UNCHANGED vars
      PROVE  FileKept
  BY <1>3 DEF WriteManifests, Close, ContinueClose, EnqueueForOwner, TakeOwnerOutcome, Reopen,
              OpenWriter, vars, writerVars, FileKept
<1>4. ASSUME Crash PROVE LinesLost
  BY <1>4 DEF Crash, LoseUnsynced, LinesLost
<1> QED
  BY <1>1, <1>2, <1>3, <1>4 DEF Next

(* Lines that are synced stay where they are.                              *)
LEMMA SyncedStays ==
  ASSUME Durable, Base, [Next]_vars
  PROVE  synced <= synced' /\ \A i \in 1..synced : lines'[i] = lines[i]
<1>0. lines \in Seq(Event) /\ synced \in 0..Len(lines) /\ Len(lines) \in Nat
  BY DEF Base, TypeOK, WriterTypeOK
<1>1. CASE FileKept
  BY <1>0, <1>1 DEF FileKept
<1>2. CASE LineAdded
  <2>1. CurrentJob.event \in Event
    BY <1>2, CurrentJobType DEF LineAdded, Base, TypeOK, Writable, Running
  <2> QED
    BY <1>0, <1>2, <2>1, AppendFacts DEF LineAdded
<1>3. CASE LinesLost
  BY <1>0, <1>3 DEF LinesLost
<1> QED
  BY <1>1, <1>2, <1>3, FileEffect

(* The file holds a whole run, synced.                                     *)
Ended == lines # <<>> /\ LastLine.type \in TerminalTypes /\ synced = Len(lines)

(* A file that is synced up to the end of its run does not change.         *)
LEMMA EndedStays ==
  ASSUME Durable, Base, [Next]_vars, WellFormedLog', Ended
  PROVE  lines' = lines /\ synced' = synced
<1>0. lines \in Seq(Event) /\ synced \in 0..Len(lines) /\ Len(lines) \in Nat \ {0}
  BY DEF Base, TypeOK, WriterTypeOK, Ended
<1>1. CASE FileKept
  BY <1>0, <1>1 DEF FileKept, Ended
<1>2. CASE LineAdded
  <2>1. CurrentJob.event \in Event
    BY <1>2, CurrentJobType DEF LineAdded, Base, TypeOK, Writable, Running
  <2>2. /\ Len(lines) \in DOMAIN lines' /\ Len(lines') = Len(lines) + 1
        /\ lines'[Len(lines)] = LastLine
    BY <1>0, <1>2, <2>1, AppendFacts DEF LineAdded, LastLine
  <2>3. Len(lines) = Len(lines')
    BY <2>2 DEF WellFormedLog, Ended
  <2> QED
    BY <1>0, <2>2, <2>3
<1>3. CASE LinesLost
  BY <1>0, <1>3 DEF LinesLost, Ended
<1> QED
  BY <1>1, <1>2, <1>3, FileEffect
-----------------------------------------------------------------------------
(* Checkpoint files.  A run on its way to one has committed its event.     *)
CheckpointInv ==
  /\ CheckpointFilesBacked
  /\ \A r \in Runs : active[r].phase = "checkpointFile" =>
       LET a == active[r].event n == Len(events[r]) IN
       /\ a.run = r /\ a.type = "checkpoint.created" /\ a.pin = n - 1
       /\ n > 0 /\ events[r][n] = a

(* Who is not about to save one is not after a step, but for a commit.     *)
LEMMA CheckpointPhase ==
  ASSUME Base, [Next]_vars, NEW r \in Runs, ~(Resume(r) /\ CommitEvent(r)),
         active'[r].phase = "checkpointFile"
  PROVE  active'[r] = active[r] /\ events'[r] = events[r]
<1>0. RecorderTypeOK /\ \A p \in Runs : OperationInv(p)
  BY DEF Base, TypeOK
<1>1. ASSUME NEW p \in Runs, Start(p) \/ Request(p) \/ Downgrade(p) \/ Begin(p) \/ Submit(p)
      PROVE  active'[r] = active[r] /\ events'[r] = events[r]
  <2>1. events' = events /\ \A q \in Runs : q # p => active'[q] = active[q]
    BY <1>0, <1>1 DEF Start, StartRun, Request, Call, Downgrade, MarkIncomplete, Begin,
       BeginOperation, RejectOperation, InterceptorFails, Abandon, Submit, SubmitEvent,
       RecorderTypeOK
  <2>2. CASE Start(p) \/ Begin(p) \/ Submit(p)
    <3>1. CASE Start(p) \/ Submit(p)
      <4>1. CASE Start(p)
        <5>1. active'[p].phase = "intercept"
          BY <1>0, <4>1 DEF Start, StartRun, RecorderTypeOK
        <5> QED
          BY <2>1, <5>1
      <4>2. CASE Submit(p)
        <5>1. active'[p].phase = "append"
          BY <1>0, <4>2 DEF Submit, SubmitEvent, RecorderTypeOK, Active
        <5> QED
          BY <2>1, <5>1
      <4> QED
        BY <3>1, <4>1, <4>2
    <3>2. CASE Begin(p) /\ BeginOperation(p)
      BY <1>0, <2>1, <3>2 DEF BeginOperation, RecorderTypeOK
    <3>3. CASE Begin(p) /\ RejectOperation(p)
      BY <2>1, <3>3 DEF RejectOperation
    <3>4. CASE Begin(p) /\ InterceptorFails(p)
      BY <1>0, <2>1, <3>4 DEF InterceptorFails, Abandon, Idle, RecorderTypeOK
    <3> QED
      BY <2>2, <3>1, <3>2, <3>3, <3>4 DEF Begin
  <2>3. CASE Request(p) \/ Downgrade(p)
    BY <2>1, <2>3 DEF Request, Call, Downgrade, MarkIncomplete
  <2> QED
    BY <1>1, <2>2, <2>3
<1>2. ASSUME NEW p \in Runs, Resume(p) PROVE active'[r] = active[r] /\ events'[r] = events[r]
  <2>1. CASE p = r
    <3>1. AbortEvent(r)
      BY <1>2, <2>1 DEF Resume
    <3>2. active'[r] = Idle
      BY <1>0, <3>1 DEF AbortEvent, Abandon, RecorderTypeOK
    <3> QED
      BY <3>2 DEF Idle
  <2>2. CASE p # r
    BY <1>0, <1>2, <2>2 DEF Resume, CommitEvent, AbortEvent, Abandon, RecorderTypeOK
  <2> QED
    BY <2>1, <2>2
<1>3. ASSUME NEW p \in Runs, SaveCheckpoint(p)
      PROVE  active'[r] = active[r] /\ events'[r] = events[r]
  BY <1>0, <1>3 DEF SaveCheckpoint, AfterCheckpoint, Idle, RecorderTypeOK
<1>4. ASSUME \/ \E p \in Runs, op \in {"write", "commit"} : RequestManifest(p, op)
             \/ WriteEvents \/ WriteManifests \/ Close \/ ContinueClose \/ Reopen
             \/ UNCHANGED vars
      PROVE  active'[r] = active[r] /\ events'[r] = events[r]
  BY <1>4 DEF RequestManifest, WriteEvents, WriteManifests, Close, ContinueClose, Reopen, vars,
              recorderVars
<1>5. ASSUME Crash PROVE FALSE
  BY <1>5 DEF Crash, Idle
<1> QED
  BY <1>1, <1>2, <1>3, <1>4, <1>5 DEF Next

(* A commit takes the run to the file of the event it has committed.       *)
LEMMA CheckpointCommitted ==
  ASSUME Base, NEW r \in Runs, Resume(r), CommitEvent(r), active'[r].phase = "checkpointFile"
  PROVE  LET a == active'[r].event n == Len(events'[r]) IN
         /\ a.run = r /\ a.type = "checkpoint.created" /\ a.pin = n - 1
         /\ n > 0 /\ events'[r][n] = a
<1>0. RecorderTypeOK /\ OperationInv(r)
  BY DEF Base, TypeOK
<1> DEFINE a == active[r].event
<1>1. events[r] \in Seq(Event) /\ a \in Event
  BY <1>0 DEF RecorderTypeOK, Active
<1>2. /\ Len(events[r]) \in Nat /\ Len(Append(events[r], a)) = Len(events[r]) + 1
      /\ Append(events[r], a)[Len(events[r]) + 1] = a
  BY <1>1, AppendFacts
<1>3. events'[r] = Append(events[r], a)
  BY <1>0 DEF CommitEvent, RecorderTypeOK
<1>4. a.type = "checkpoint.created" /\ active'[r].event = a
  <2>1. CASE a.type = "checkpoint.created"
    BY <1>0, <2>1 DEF CommitEvent, RecorderTypeOK, Active
  <2>2. CASE a.type # "checkpoint.created"
    <3>1. active'[r] = Idle
      BY <1>0, <2>2 DEF CommitEvent, RecorderTypeOK
    <3> QED
      BY <3>1 DEF Idle
  <2> QED
    BY <2>1, <2>2
<1>5. a.run = r /\ a.pin = Len(events[r])
  BY <1>0, <1>4 DEF CommitEvent, OperationInv
<1> QED
  BY <1>2, <1>3, <1>4, <1>5

(* Files stay backed, and a new one is.                                    *)
LEMMA CheckpointNext ==
  ASSUME Durable, Base, CheckpointInv, [Next]_vars PROVE CheckpointInv'
<1>0. /\ RecorderTypeOK /\ LogInv /\ lines \in Seq(Event) /\ synced \in 0..Len(lines)
      /\ Len(lines) \in Nat
  BY DEF Base, TypeOK, WriterTypeOK
<1>1. synced <= synced' /\ synced' \in Nat /\ \A i \in 1..synced : lines'[i] = lines[i]
  <2>1. synced' \in Nat
    BY <1>0, FileEffect DEF FileKept, LineAdded, LinesLost
  <2> QED
    BY <2>1, SyncedStays
<1>2. ASSUME NEW file \in checkpointFiles'
      PROVE  LET next == file.sequence + 1 IN
             /\ next \in 1..synced
             /\ lines[next].run = file.run /\ lines[next].type = "checkpoint.created"
  <2>1. CASE file \in checkpointFiles
    BY <2>1 DEF CheckpointInv, CheckpointFilesBacked
  <2>2. CASE file \notin checkpointFiles
    <3>1. PICK r \in Runs : SaveCheckpoint(r)
      BY <1>2, <2>2 DEF Next, vars, Start, Request, Downgrade, RequestManifest, Begin, Submit,
         Resume, WriteEvents, WriteManifests, Close, ContinueClose, Crash, Reopen
    <3> DEFINE a == active[r].event
               n == Len(events[r])
    <3>2. file = [run |-> r, sequence |-> a.pin] /\ alive /\ active[r].phase = "checkpointFile"
      BY <1>2, <2>2, <3>1 DEF SaveCheckpoint, AfterCheckpoint
    <3>3. a.run = r /\ a.type = "checkpoint.created" /\ a.pin = n - 1 /\ n > 0
          /\ events[r][n] = a
      BY <3>2 DEF CheckpointInv
    <3>4. events[r] \in Seq(Event) /\ n \in Nat
      BY <1>0 DEF RecorderTypeOK
    <3>5. SubSeq(lines, 1, n) = events[r] /\ n <= synced
      <4>1. events[r] # <<>>
        BY <3>3, <3>4
      <4> QED
        BY <1>0, <3>2, <4>1 DEF LogInv, LogAgreement
    <3>6. lines[n] = a
      <4>1. SubSeq(lines, 1, n)[n] = lines[n]
        BY <1>0, <3>3, <3>4, <3>5
      <4> QED
        BY <3>3, <3>5, <4>1
    <3>7. file.run = r /\ file.sequence + 1 = n
      BY <3>2, <3>3, <3>4
    <3> QED
      BY <1>0, <3>3, <3>4, <3>5, <3>6, <3>7
  <2> QED
    BY <2>1, <2>2
<1>3. CheckpointFilesBacked'
  <2>1. SUFFICES ASSUME NEW file \in checkpointFiles'
                 PROVE  LET next == file.sequence + 1 IN
                        /\ next \in 1..synced'
                        /\ lines'[next].run = file.run
                        /\ lines'[next].type = "checkpoint.created"
    BY DEF CheckpointFilesBacked
  <2>2. file.sequence + 1 \in 1..synced
    BY <1>2
  <2> QED
    BY <1>0, <1>1, <1>2, <2>2
<1>4. ASSUME NEW r \in Runs, active'[r].phase = "checkpointFile"
      PROVE  LET a == active'[r].event n == Len(events'[r]) IN
             /\ a.run = r /\ a.type = "checkpoint.created" /\ a.pin = n - 1
             /\ n > 0 /\ events'[r][n] = a
  <2>1. CASE Resume(r) /\ CommitEvent(r)
    BY <1>4, <2>1, CheckpointCommitted
  <2>2. CASE ~(Resume(r) /\ CommitEvent(r))
    <3>1. active'[r] = active[r] /\ events'[r] = events[r]
      BY <1>4, <2>2, CheckpointPhase
    <3> QED
      BY <1>4, <3>1 DEF CheckpointInv
  <2> QED
    BY <2>1, <2>2
<1> QED
  BY <1>3, <1>4 DEF CheckpointInv
-----------------------------------------------------------------------------
(* Manifests.  A status that ends a run is what its last event says.       *)
StatusInv ==
  \A r \in Runs : status[r] \in TerminalStatus =>
    LET last == events[r][Len(events[r])] IN
    /\ Len(events[r]) > 0 /\ last.type \in TerminalTypes /\ status[r] = StatusAfter[last.type]

(* What one step does to a run: nothing, nothing while it goes on, a       *)
(* commit, or the end of its process.                                      *)
RunKept(r) == UNCHANGED <<status[r], events[r], completeness[r]>>
GoesOn(r) ==
  /\ status[r] \notin TerminalStatus /\ status'[r] \notin TerminalStatus
  /\ events'[r] = events[r] /\ (status'[r] = status[r] \/ events[r] = <<>>)
Commits(r) == alive /\ outcome[r] = "ok" /\ CommitEvent(r) /\ alive'
Dies(r) == ~alive' /\ status'[r] \in {"unborn", "lost"} /\ events'[r] = <<>>

(* ... and nothing else.                                                   *)
LEMMA RunEffect ==
  ASSUME Base, [Next]_vars, NEW r \in Runs
  PROVE  RunKept(r) \/ GoesOn(r) \/ Commits(r) \/ Dies(r)
<1>0. RecorderTypeOK /\ \A p \in Runs : OperationInv(p)
  BY DEF Base, TypeOK
<1> USE DEF TerminalStatus
<1>1. ASSUME NEW p \in Runs, p # r,
             Start(p) \/ Downgrade(p) \/ Begin(p) \/ Resume(p)
      PROVE  RunKept(r)
  BY <1>0, <1>1 DEF Start, StartRun, Downgrade, MarkIncomplete, Begin, BeginOperation,
     RejectOperation, InterceptorFails, Abandon, Resume, CommitEvent, AbortEvent,
     RecorderTypeOK, RunKept
<1>2. ASSUME Start(r) PROVE GoesOn(r)
  <2>1. events[r] \in Seq(Event) /\ Len(events[r]) = 0
    BY <1>0, <1>2 DEF Start, StartRun, OperationInv, RecorderTypeOK
  <2>2. events[r] = <<>>
    BY <2>1
  <2> QED
    BY <1>0, <1>2, <2>2 DEF Start, StartRun, RecorderTypeOK, GoesOn
<1>3. ASSUME Downgrade(r) PROVE GoesOn(r)
  BY <1>3 DEF Downgrade, MarkIncomplete, GoesOn
<1>4. ASSUME Abandon(r), active[r].phase # "idle" PROVE GoesOn(r)
  <2>1. status[r] = "running" /\ events' = events /\ status'[r] \in {"running", "deleted"}
    BY <1>0, <1>4 DEF Abandon, OperationInv, RecorderTypeOK
  <2>2. CASE Starting(r)
    <3>0. active[r].phase \in {"intercept", "append", "checkpointFile"}
      BY <1>0, <1>4 DEF RecorderTypeOK, Active
    <3>1. Len(events[r]) = 0 /\ events[r] \in Seq(Event)
      BY <1>0, <2>2, <3>0 DEF OperationInv, RecorderTypeOK
    <3>2. events[r] = <<>>
      BY <3>1
    <3> QED
      BY <2>1, <3>2 DEF GoesOn
  <2>3. CASE ~Starting(r)
    <3>1. status' = status
      BY <1>4, <2>3 DEF Abandon
    <3> QED
      BY <2>1, <3>1 DEF GoesOn
  <2> QED
    BY <2>2, <2>3
<1>5. ASSUME Begin(r) PROVE RunKept(r) \/ GoesOn(r)
  <2>1. CASE BeginOperation(r) \/ RejectOperation(r)
    BY <2>1 DEF BeginOperation, RejectOperation, RunKept
  <2>2. CASE InterceptorFails(r)
    BY <1>4, <2>2 DEF InterceptorFails
  <2> QED
    BY <1>5, <2>1, <2>2 DEF Begin
<1>6. ASSUME Resume(r) PROVE GoesOn(r) \/ Commits(r)
  <2>1. CASE AbortEvent(r)
    BY <1>4, <2>1 DEF AbortEvent
  <2>2. CASE outcome[r] = "ok" /\ CommitEvent(r)
    BY <1>6, <2>2 DEF Resume, Commits
  <2> QED
    BY <1>6, <2>1, <2>2 DEF Resume
<1>7. ASSUME NEW p \in Runs, \/ Request(p) \/ Submit(p) \/ SaveCheckpoint(p)
                             \/ \E op \in {"write", "commit"} : RequestManifest(p, op)
      PROVE  RunKept(r)
  BY <1>7 DEF Request, Call, Submit, SubmitEvent, SaveCheckpoint, AfterCheckpoint,
              RequestManifest, recorderVars, RunKept
<1>8. ASSUME WriteEvents \/ WriteManifests \/ Close \/ ContinueClose \/ Reopen \/ UNCHANGED vars
      PROVE  RunKept(r)
  BY <1>8 DEF WriteEvents, WriteManifests, Close, ContinueClose, Reopen, vars, recorderVars,
              RunKept
<1>9. ASSUME Crash PROVE Dies(r)
  BY <1>9 DEF Crash, Dies
<1> QED
  BY <1>1, <1>2, <1>3, <1>5, <1>6, <1>7, <1>8, <1>9 DEF Next

(* A run's new last event and its status change together.                  *)
LEMMA StatusNext ==
  ASSUME Base, StatusInv, [Next]_vars PROVE StatusInv'
<1> SUFFICES ASSUME NEW r \in Runs, status'[r] \in TerminalStatus
             PROVE  LET last == events'[r][Len(events'[r])] IN
                    /\ Len(events'[r]) > 0 /\ last.type \in TerminalTypes
                    /\ status'[r] = StatusAfter[last.type]
  BY DEF StatusInv
<1>1. CASE RunKept(r)
  BY <1>1 DEF RunKept, StatusInv
<1>2. CASE Commits(r)
  <2> DEFINE a == active[r].event
  <2>1. RecorderTypeOK /\ OperationInv(r)
    BY DEF Base, TypeOK
  <2>2. events[r] \in Seq(Event) /\ a \in Event
    BY <2>1 DEF RecorderTypeOK, Active
  <2>3. /\ Len(events[r]) \in Nat /\ Len(Append(events[r], a)) = Len(events[r]) + 1
        /\ Append(events[r], a)[Len(events[r]) + 1] = a
    BY <2>2, AppendFacts
  <2>4. events'[r] = Append(events[r], a)
    BY <1>2, <2>1 DEF Commits, CommitEvent, RecorderTypeOK
  <2>5. status[r] = "running"
    BY <1>2, <2>1 DEF Commits, CommitEvent, OperationInv
  <2>6. status'[r] = IF a.type \in TerminalTypes THEN StatusAfter[a.type] ELSE status[r]
    BY <1>2, <2>1 DEF Commits, CommitEvent, RecorderTypeOK
  <2>7. a.type \in TerminalTypes
    BY <2>5, <2>6 DEF TerminalStatus
  <2> QED
    BY <2>3, <2>4, <2>6, <2>7
<1>3. CASE GoesOn(r) \/ Dies(r)
  BY <1>3 DEF GoesOn, Dies, TerminalStatus
<1> QED
  BY <1>1, <1>2, <1>3, RunEffect

(* The manifests of ended runs, asked for, written or in place.            *)
Held(m) ==
  /\ Finished(m)
  /\ \/ m \in {tmpManifest, finalManifest}
     \/ \E i \in DOMAIN manifestQueue : manifestQueue[i].manifest = m

(* A manifest that this step asks the writer for.                          *)
AskedFor(m) ==
  \E r \in Runs : /\ alive /\ HasHandle(r) /\ m = ManifestOf(r)
                  /\ UNCHANGED <<writerVars, recorderVars, alive>>

(* What is held after a step was held before it, or is asked for in it.    *)
LEMMA HeldEffect ==
  ASSUME Base, [Next]_vars, NEW m, Held(m)' PROVE Finished(m) /\ (Held(m) \/ AskedFor(m))
<1>0. ManifestTypeOK
  BY DEF Base, TypeOK
<1>1. Finished(m) /\ ~Finished(Absent) /\ ~Finished(Torn)
  BY DEF Held, Finished, Absent, Torn, TerminalStatus
<1>2. ASSUME manifestQueue # <<>>
      PROVE  /\ 1 \in DOMAIN manifestQueue /\ Head(manifestQueue) = manifestQueue[1]
             /\ \A i \in DOMAIN Tail(manifestQueue) :
                  i + 1 \in DOMAIN manifestQueue /\ Tail(manifestQueue)[i] = manifestQueue[i + 1]
  BY <1>0, <1>2, TailFacts DEF ManifestTypeOK
<1> DEFINE Queued(q) == \E i \in DOMAIN q : q[i].manifest = m
<1>3. ASSUME NEW r \in Runs, NEW op \in {"write", "commit"}, RequestManifest(r, op)
      PROVE  Held(m) \/ AskedFor(m)
  <2> DEFINE e == [op |-> op, manifest |-> ManifestOf(r)]
  <2>1. e \in [op : {"write", "commit"}, manifest : Manifest]
    BY ManifestOfType DEF Base, TypeOK
  <2>2. /\ manifestQueue' = Append(manifestQueue, e)
        /\ UNCHANGED <<tmpManifest, finalManifest>>
        /\ alive /\ HasHandle(r) /\ UNCHANGED <<writerVars, recorderVars, alive>>
    BY <1>3 DEF RequestManifest
  <2>3. \A i \in DOMAIN manifestQueue' :
          \/ manifestQueue'[i] = e
          \/ i \in DOMAIN manifestQueue /\ manifestQueue'[i] = manifestQueue[i]
    BY <1>0, <2>1, <2>2, AppendFacts DEF ManifestTypeOK
  <2>4. CASE m \in {tmpManifest', finalManifest'}
    BY <1>1, <2>2, <2>4 DEF Held
  <2>5. CASE Queued(manifestQueue')
    <3>1. PICK i \in DOMAIN manifestQueue' : manifestQueue'[i].manifest = m
      BY <2>5
    <3>2. CASE manifestQueue'[i] = e
      BY <2>2, <3>1, <3>2 DEF AskedFor
    <3>3. CASE i \in DOMAIN manifestQueue /\ manifestQueue'[i] = manifestQueue[i]
      BY <1>1, <3>1, <3>3 DEF Held
    <3> QED
      BY <2>3, <3>2, <3>3
  <2> QED
    BY <2>4, <2>5 DEF Held
<1>4. ASSUME manifestQueue' \in {manifestQueue, <<>>}
             \/ (manifestQueue # <<>> /\ manifestQueue' = Tail(manifestQueue)),
             tmpManifest' \in {tmpManifest, finalManifest, Torn, Absent}
               \/ (manifestQueue # <<>> /\ tmpManifest' = CurrentManifest),
             finalManifest' \in {finalManifest, tmpManifest, Absent}
      PROVE  Held(m)
  <2>1. CASE m \in {tmpManifest', finalManifest'}
    <3>1. m \in {tmpManifest, finalManifest} \/ (manifestQueue # <<>> /\ m = CurrentManifest)
      BY <1>1, <1>4, <2>1
    <3> QED
      BY <1>1, <1>2, <3>1 DEF Held, CurrentManifest
  <2>2. CASE Queued(manifestQueue')
    <3>1. Queued(manifestQueue)
      BY <1>2, <1>4, <2>2
    <3> QED
      BY <1>1, <3>1 DEF Held
  <2> QED
    BY <2>1, <2>2 DEF Held
<1>5. ASSUME WriteManifests PROVE Held(m)
  <2>1. renaming => manifestQueue # <<>>
    BY DEF Base, PromiseInv
  <2> QED
    BY <1>4, <1>5, <2>1 DEF WriteManifests, ManifestStep, RejectCommit, WriteTmpManifest,
       FailTmpManifest, RenameManifest, WritableManifest
<1>6. ASSUME Crash PROVE Held(m)
  BY <1>4, <1>6 DEF Crash, LoseManifestWork
<1>7. ASSUME UNCHANGED manifestVars PROVE Held(m)
  BY <1>4, <1>7 DEF manifestVars
<1>8. ASSUME NEW r \in Runs,
             \/ Start(r) \/ Request(r) \/ Downgrade(r) \/ Begin(r) \/ Submit(r) \/ Resume(r)
             \/ SaveCheckpoint(r)
      PROVE  Held(m)
  BY <1>7, <1>8 DEF Start, Request, Downgrade, Begin, Submit, Resume, SaveCheckpoint
<1>9. ASSUME WriteEvents \/ Close \/ ContinueClose \/ Reopen \/ UNCHANGED vars PROVE Held(m)
  BY <1>7, <1>9 DEF WriteEvents, Close, ContinueClose, Reopen, vars
<1> QED
  BY <1>1, <1>3, <1>5, <1>6, <1>8, <1>9 DEF Next
(* What a manifest in place or on its way says of the file: all of it.     *)
SealedAs(m) ==
  m.run = LastLine.run /\ m.status = StatusAfter[LastLine.type] /\ m.count = Len(lines)

ManifestInv ==
  /\ StatusInv
  /\ \A m : Held(m) => Ended /\ SealedAs(m)
  /\ \A m1, m2 : Held(m1) /\ Held(m2) => m1 = m2
  /\ \A m : Held(m) => \A r \in Runs : m.run = r /\ HasHandle(r) => m = ManifestOf(r)
  /\ finalManifest # Absent => Finished(finalManifest)
  /\ renaming => Finished(tmpManifest)

(* The manifest of a run that has ended describes the whole file.          *)
LEMMA NewManifest ==
  ASSUME Durable, Base, StatusInv, alive, NEW r \in Runs, HasHandle(r), Finished(ManifestOf(r))
  PROVE  Ended /\ SealedAs(ManifestOf(r))
<1> DEFINE n == Len(events[r])
<1>0. /\ RecorderTypeOK /\ LogInv /\ lines \in Seq(Event) /\ synced \in 0..Len(lines)
      /\ Len(lines) \in Nat /\ events[r] \in Seq(Event) /\ n \in Nat
  BY DEF Base, TypeOK, WriterTypeOK, RecorderTypeOK
<1>1. /\ n > 0 /\ events[r][n].type \in TerminalTypes
      /\ status[r] = StatusAfter[events[r][n].type]
  BY DEF Finished, ManifestOf, StatusInv
<1>2. writerRun = r /\ SubSeq(lines, 1, n) = events[r] /\ n <= synced
  BY <1>0 DEF HasHandle, LogInv, LogAgreement
<1>3. lines[n] = events[r][n] /\ n \in DOMAIN lines /\ lines # <<>>
  <2>1. SubSeq(lines, 1, n)[n] = lines[n]
    BY <1>0, <1>1, <1>2
  <2>2. n \in DOMAIN lines
    BY <1>0, <1>1, <1>2
  <2> QED
    BY <1>2, <2>1, <2>2
<1>4. n = Len(lines) /\ lines[n].run = r
  <2>1. n = Len(lines)
    BY <1>0, <1>1, <1>3 DEF LogInv, WellFormedLog
  <2>2. lines[n].run = lines[1].run
    BY <1>0, <1>3 DEF LogInv, WellFormedLog
  <2> QED
    BY <1>0, <1>2, <1>3, <2>1, <2>2 DEF LogInv
<1>5. synced = Len(lines)
  BY <1>0, <1>2, <1>4
<1> QED
  BY <1>1, <1>3, <1>4, <1>5 DEF Ended, LastLine, SealedAs, ManifestOf

(* A run that has ended stays as its manifest says, or loses its process;  *)
(* and none begins behind the end of another.                              *)
LEMMA ManifestKept ==
  ASSUME Durable, Base, Ended, [Next]_vars, NEW r \in Runs, events'[r] # <<>>,
         HasHandle(r) => status[r] \in TerminalStatus
  PROVE  HasHandle(r) /\ RunKept(r)
<1>0. OperationInv(r) /\ LogInv
  BY DEF Base
<1>1. ASSUME Commits(r) PROVE FALSE
  <2>1. active[r].phase = "append" /\ outcome[r] = "ok" /\ alive
    BY <1>1 DEF Commits, CommitEvent
  <2>2. status[r] = "running"
    BY <1>0, <2>1 DEF OperationInv
  <2>3. events[r] = <<>>
    BY <2>2 DEF HasHandle, TerminalStatus
  <2>4. active[r].event.type = "run.started"
    BY <1>0, <2>1, <2>3 DEF OperationInv, Starting
  <2>5. lines = Append(<<>>, active[r].event)
    BY <1>0, <2>1, <2>3 DEF LogInv
  <2>6. LastLine = active[r].event
    BY <2>5 DEF LastLine
  <2> QED
    BY <2>4, <2>6 DEF Ended, TerminalTypes
<1>2. ~Dies(r)
  BY DEF Dies
<1>3. GoesOn(r) => FALSE
  BY DEF GoesOn, HasHandle
<1>4. RunKept(r)
  BY <1>1, <1>2, <1>3, RunEffect
<1> QED
  BY <1>4 DEF RunKept, HasHandle

(* The invariant of the manifests, kept.                                   *)
LEMMA ManifestNext ==
  ASSUME Durable, Base, WellFormedLog', ManifestInv, [Next]_vars PROVE ManifestInv'
<1>1. ASSUME NEW m, Held(m)'
      PROVE  /\ Finished(m) /\ (Held(m) \/ AskedFor(m)) /\ Ended /\ SealedAs(m)
             /\ \A r \in Runs : m.run = r /\ HasHandle(r) => m = ManifestOf(r)
  <2>1. Finished(m) /\ (Held(m) \/ AskedFor(m))
    BY <1>1, HeldEffect
  <2>2. CASE Held(m)
    BY <2>1, <2>2 DEF ManifestInv
  <2>3. CASE AskedFor(m)
    <3>1. PICK p \in Runs : alive /\ HasHandle(p) /\ m = ManifestOf(p)
      BY <2>3 DEF AskedFor
    <3>2. Ended /\ SealedAs(m)
      BY <2>1, <3>1, NewManifest DEF ManifestInv
    <3>3. m.run = p
      BY <3>1 DEF ManifestOf
    <3> QED
      BY <2>1, <3>1, <3>2, <3>3
  <2> QED
    BY <2>1, <2>2, <2>3
<1>2. ASSUME NEW m, Held(m)' PROVE (Ended /\ SealedAs(m))'
  <2>1. Ended /\ SealedAs(m)
    BY <1>1, <1>2
  <2>2. lines' = lines /\ synced' = synced
    BY <2>1, EndedStays
  <2> QED
    BY <2>1, <2>2 DEF Ended, SealedAs, LastLine
<1>3. ASSUME NEW m1, NEW m2, Held(m1)', Held(m2)' PROVE m1 = m2
  <2>1. m1.run = m2.run
    BY <1>1, <1>3 DEF SealedAs
  <2>2. CASE Held(m1) /\ Held(m2)
    BY <2>2 DEF ManifestInv
  <2>3. ASSUME NEW x, NEW y, Held(x)', Held(y)', AskedFor(x), x.run = y.run PROVE x = y
    <3>1. PICK p \in Runs : HasHandle(p) /\ x = ManifestOf(p)
      BY <2>3 DEF AskedFor
    <3>2. y.run = p
      BY <2>3, <3>1 DEF ManifestOf
    <3> QED
      BY <1>1, <2>3, <3>1, <3>2
  <2>4. (Held(m1) \/ AskedFor(m1)) /\ (Held(m2) \/ AskedFor(m2))
    BY <1>1, <1>3
  <2> QED
    BY <1>3, <2>1, <2>2, <2>3, <2>4
<1>4. ASSUME NEW m, Held(m)', NEW r \in Runs, m.run = r, events'[r] # <<>>
      PROVE  m = ManifestOf(r)'
  <2>1. Ended /\ Finished(m) /\ (HasHandle(r) => m = ManifestOf(r))
    BY <1>1, <1>4
  <2>2. HasHandle(r) => status[r] \in TerminalStatus
    BY <2>1 DEF Finished, ManifestOf
  <2>3. HasHandle(r) /\ RunKept(r)
    BY <1>4, <2>1, <2>2, ManifestKept
  <2> QED
    BY <2>1, <2>3 DEF RunKept, ManifestOf
<1>5. (finalManifest' # Absent => Finished(finalManifest')) /\ (renaming' => Finished(tmpManifest'))
  <2>1. CASE WriteManifests
    <3>1. CASE RejectCommit \/ FailTmpManifest
      BY <3>1 DEF RejectCommit, FailTmpManifest, WritableManifest, ManifestInv
    <3>2. CASE WriteTmpManifest
      BY <3>2 DEF WriteTmpManifest, WritableManifest, ManifestInv
    <3>3. CASE RenameManifest
      BY <3>3 DEF RenameManifest, ManifestInv
    <3> QED
      BY <2>1, <3>1, <3>2, <3>3 DEF WriteManifests, ManifestStep
  <2>2. CASE Crash
    BY <2>2 DEF Crash, LoseManifestWork, ManifestInv
  <2>3. CASE UNCHANGED <<renaming, tmpManifest, finalManifest>>
    BY <2>3 DEF ManifestInv
  <2>4. WriteManifests \/ Crash \/ UNCHANGED <<renaming, tmpManifest, finalManifest>>
    BY DEF Next, vars, manifestVars, Start, Request, Downgrade, RequestManifest, Begin, Submit,
       Resume, SaveCheckpoint, WriteEvents, Close, ContinueClose, Reopen
  <2> QED
    BY <2>1, <2>2, <2>3, <2>4
<1>6. StatusInv'
  BY StatusNext DEF ManifestInv
<1>7. \A m : Held(m)' => \A r \in Runs : m.run = r /\ HasHandle(r)' => m = ManifestOf(r)'
  BY <1>4 DEF HasHandle
<1> QED
  BY <1>2, <1>3, <1>5, <1>6, <1>7 DEF ManifestInv
-----------------------------------------------------------------------------
(* The theorems.                                                           *)
StoreInv ==
  /\ TypeOK /\ (\A r \in Runs : OperationInv(r)) /\ PromiseInv
  /\ Durable => LogInv /\ CheckpointInv /\ ManifestInv

(* The invariant holds at first ...                                        *)
LEMMA StoreInvInit == Init => StoreInv
<1> SUFFICES ASSUME Init PROVE CheckpointInv /\ ManifestInv
  BY InitType, OperationInvInit, PromiseInvInit, LogInvInit DEF StoreInv
<1>1. /\ \A r \in Runs : status[r] = "unborn" /\ active[r] = Idle
      /\ checkpointFiles = {} /\ manifestQueue = <<>> /\ ~renaming
      /\ tmpManifest = Absent /\ finalManifest = Absent
  BY DEF Init, RecorderInit, ManifestInit
<1>2. \A m : ~Held(m)
  BY <1>1 DEF Held, Finished, Absent, TerminalStatus
<1> QED
  BY <1>1, <1>2 DEF CheckpointInv, CheckpointFilesBacked, ManifestInv, StatusInv, Idle,
                    TerminalStatus

(* ... and after every step.                                               *)
LEMMA StoreInvNext == StoreInv /\ [Next]_vars => StoreInv'
<1> SUFFICES ASSUME StoreInv, [Next]_vars PROVE StoreInv'
  OBVIOUS
<1>1. TypeOK' /\ (\A r \in Runs : OperationInv(r))' /\ PromiseInv'
  BY NextType, OperationInvNext, PromiseInvNext DEF StoreInv
<1>2. ASSUME Durable PROVE LogInv' /\ CheckpointInv' /\ ManifestInv'
  <2>1. Base /\ LogInv /\ CheckpointInv /\ ManifestInv
    BY <1>2 DEF StoreInv, Base
  <2>2. LogInv'
    BY <1>2, <2>1, LogInvNext DEF Base, Durable
  <2>3. WellFormedLog'
    BY <2>2 DEF LogInv
  <2> QED
    BY <1>2, <2>1, <2>2, <2>3, CheckpointNext, ManifestNext
<1> QED
  BY <1>1, <1>2 DEF StoreInv, Durable

(* However runs, saves and crashes interleave: a checkpoint file is there  *)
(* only for an event that is on disk (CheckpointStore.save).               *)
THEOREM CheckpointsAreBacked == Spec => []CheckpointFilesBacked
<1>1. StoreInv => CheckpointFilesBacked
  BY DEF StoreInv, CheckpointInv, CheckpointFilesBacked
<1> QED
  BY <1>1, StoreInvInit, StoreInvNext, PTL DEF Spec

(* A directory that is inspected as finished is: manifest.json counts all  *)
(* events of a run that ended, and they are on disk.                       *)
THEOREM FinishedIsComplete == Spec => []FinishedInspectionIsComplete
<1>1. StoreInv => FinishedInspectionIsComplete
  <2> SUFFICES ASSUME StoreInv, Durable, finalManifest # Absent
               PROVE  Ended /\ SealedAs(finalManifest)
    BY DEF FinishedInspectionIsComplete, Ended, SealedAs
  <2>1. ManifestInv
    BY DEF StoreInv
  <2>2. Held(finalManifest)
    BY <2>1 DEF ManifestInv, Held
  <2> QED
    BY <2>1, <2>2 DEF ManifestInv
<1> QED
  BY <1>1, StoreInvInit, StoreInvNext, PTL DEF Spec

(* What becomes of manifest.json in a step.                                *)
LEMMA FinalEffect ==
  ASSUME [Next]_vars
  PROVE  \/ finalManifest' = finalManifest
         \/ renaming /\ finalManifest' = tmpManifest /\ UNCHANGED <<lines, synced>>
         \/ Crash /\ finalManifest' = Absent /\ tmpManifest' = finalManifest
<1>1. CASE WriteManifests
  BY <1>1 DEF WriteManifests, ManifestStep, RejectCommit, WriteTmpManifest, FailTmpManifest,
              RenameManifest, writerVars
<1>2. CASE Crash
  BY <1>2 DEF Crash, LoseManifestWork
<1>3. WriteManifests \/ Crash \/ finalManifest' = finalManifest
  BY DEF Next, vars, manifestVars, Start, Request, Downgrade, RequestManifest, Begin, Submit,
     Resume, SaveCheckpoint, WriteEvents, Close, ContinueClose, Reopen
<1> QED
  BY <1>1, <1>2, <1>3

(* Once manifest.json is there, neither it nor the file changes, whatever  *)
(* is called, fails or crashes; a power loss can only take it back whole.  *)
THEOREM SealHolds == Spec => SealedForever
<1> DEFINE Step == Durable /\ finalManifest # Absent =>
                     /\ UNCHANGED lines
                     /\ finalManifest \in {finalManifest', tmpManifest'}
                     /\ finalManifest' # finalManifest => ~alive'
<1>1. StoreInv /\ StoreInv' /\ [Next]_vars => Step
  <2> SUFFICES ASSUME StoreInv, StoreInv', [Next]_vars, Durable, finalManifest # Absent
               PROVE  /\ UNCHANGED lines
                      /\ finalManifest \in {finalManifest', tmpManifest'}
                      /\ finalManifest' # finalManifest => ~alive'
    OBVIOUS
  <2>1. Base /\ ManifestInv /\ WellFormedLog'
    BY DEF StoreInv, Base, LogInv, Durable
  <2>2. Held(finalManifest)
    BY <2>1 DEF ManifestInv, Held
  <2>3. lines' = lines
    BY <2>1, <2>2, EndedStays DEF ManifestInv
  <2>4. renaming => tmpManifest = finalManifest
    <3>1. renaming => Held(tmpManifest)
      BY <2>1 DEF ManifestInv, Held
    <3> QED
      BY <2>1, <2>2, <3>1 DEF ManifestInv
  <2>5. Crash => ~alive'
    BY DEF Crash
  <2> QED
    BY <2>3, <2>4, <2>5, FinalEffect
<1> QED
  BY <1>1, StoreInvInit, StoreInvNext, PTL DEF Spec, SealedForever

(* A line whose append failed keeps everything else out of the file, and   *)
(* its run from going on.                                                  *)
THEOREM FenceKeeps == Spec => FenceHolds
<1> DEFINE Step == \A r \in Runs : Durable /\ Fenced(r) /\ alive' =>
                     UNCHANGED <<lines, events[r], status[r]>>
<1>1. StoreInv /\ [Next]_vars => Step
  <2> SUFFICES ASSUME StoreInv, [Next]_vars, NEW r \in Runs, Durable, Fenced(r), alive'
               PROVE  UNCHANGED <<lines, events[r], status[r]>>
    OBVIOUS
  <2>1. Base /\ LogInv /\ OperationInv(r) /\ lines \in Seq(Event) /\ events[r] \in Seq(Event)
    BY DEF StoreInv, Base, TypeOK, WriterTypeOK, RecorderTypeOK
  <2>2. ~Crash
    BY DEF Crash
  <2>3. UNCHANGED lines
    <3>1. ASSUME LineAdded PROVE FALSE
      <4> DEFINE p == CurrentJob.event.run
      <4>1. alive /\ Writable /\ lines = events[p] /\ p \in Runs
        BY <2>1, <3>1, WritableLines DEF LineAdded, WriteEvents, Base
      <4>2. events[p] # <<>>
        BY <2>1, <4>1 DEF Fenced
      <4>3. writerRun = p /\ writerRun = r
        BY <2>1, <4>1, <4>2 DEF LogInv, LogAgreement, Fenced
      <4> QED
        BY <2>1, <4>1, <4>3 DEF Fenced
    <3> QED
      BY <2>1, <2>2, <3>1, FileEffect DEF FileKept, LinesLost
  <2>4. UNCHANGED <<events[r], status[r]>>
    <3>1. RunKept(r) \/ GoesOn(r) \/ Commits(r) \/ Dies(r)
      BY <2>1, RunEffect
    <3>2. ~Commits(r)
      BY DEF Commits, Fenced
    <3>3. ~Dies(r) /\ events[r] # <<>>
      BY DEF Dies, Fenced
    <3>4. GoesOn(r) => UNCHANGED <<events[r], status[r]>>
      BY <3>3 DEF GoesOn
    <3> QED
      BY <3>1, <3>2, <3>3, <3>4 DEF RunKept
  <2> QED
    BY <2>3, <2>4
<1> QED
  BY <1>1, StoreInvInit, StoreInvNext, PTL DEF Spec, FenceHolds
-----------------------------------------------------------------------------
(* The refinement.  What is on its way to the file points back.            *)
InFlight(r) == active[r].phase \in {"intercept", "append"}
EventInv ==
  \A r \in Runs : InFlight(r) =>
    /\ Starting(r) => active[r].event.parent = 0
    /\ active[r].event.type # "checkpoint.created" => active[r].event.pin = 0

(* An event that is in flight was, unless it is being built.               *)
LEMMA EventEffect ==
  ASSUME Base, [Next]_vars, NEW r \in Runs, InFlight(r)'
  PROVE  (InFlight(r) /\ active'[r].event = active[r].event) \/ Start(r) \/ BeginOperation(r)
<1>0. RecorderTypeOK /\ \A p \in Runs : OperationInv(p)
  BY DEF Base, TypeOK
<1>1. active'[r].phase \notin {"idle", "checkpointFile"}
  BY DEF InFlight
<1>2. CASE active'[r] = active[r]
  BY <1>2 DEF InFlight
<1>3. ASSUME NEW p \in Runs, p # r,
             Start(p) \/ Begin(p) \/ Submit(p) \/ Resume(p) \/ SaveCheckpoint(p)
      PROVE  active'[r] = active[r]
  BY <1>0, <1>3 DEF Start, StartRun, Begin, BeginOperation, RejectOperation, InterceptorFails,
     Abandon, Submit, SubmitEvent, Resume, CommitEvent, AbortEvent, SaveCheckpoint,
     AfterCheckpoint, RecorderTypeOK
<1>4. ASSUME active'[r] = Idle PROVE FALSE
  BY <1>1, <1>4 DEF Idle
<1>5. CASE Begin(r)
  <2>1. CASE RejectOperation(r)
    BY <1>2, <2>1 DEF RejectOperation
  <2>2. CASE InterceptorFails(r)
    <3>1. active'[r] = Idle
      BY <1>0, <2>2 DEF InterceptorFails, Abandon, RecorderTypeOK
    <3> QED
      BY <1>4, <3>1
  <2> QED
    BY <1>5, <2>1, <2>2 DEF Begin
<1>6. CASE Submit(r)
  BY <1>0, <1>6 DEF Submit, SubmitEvent, InFlight, RecorderTypeOK, Active
<1>7. CASE Resume(r)
  <2>1. CASE AbortEvent(r)
    <3>1. active'[r] = Idle
      BY <1>0, <2>1 DEF AbortEvent, Abandon, RecorderTypeOK
    <3> QED
      BY <1>4, <3>1
  <2>2. CASE CommitEvent(r) /\ active[r].event.type = "checkpoint.created"
    <3>1. active'[r].phase = "checkpointFile"
      BY <1>0, <2>2 DEF CommitEvent, RecorderTypeOK, Active
    <3> QED
      BY <1>1, <3>1
  <2>3. CASE CommitEvent(r) /\ active[r].event.type # "checkpoint.created"
    <3>1. active'[r] = Idle
      BY <1>0, <2>3 DEF CommitEvent, RecorderTypeOK
    <3> QED
      BY <1>4, <3>1
  <2> QED
    BY <1>7, <2>1, <2>2, <2>3 DEF Resume
<1>8. CASE SaveCheckpoint(r)
  <2>1. active'[r] = Idle
    BY <1>0, <1>8 DEF SaveCheckpoint, AfterCheckpoint, RecorderTypeOK
  <2> QED
    BY <1>4, <2>1
<1>9. CASE Crash
  <2>1. active'[r] = Idle
    BY <1>9 DEF Crash
  <2> QED
    BY <1>4, <2>1
<1>10. CASE \E p \in Runs : \/ Request(p) \/ Downgrade(p)
                            \/ \E op \in {"write", "commit"} : RequestManifest(p, op)
  BY <1>2, <1>10 DEF Request, Call, Downgrade, MarkIncomplete, RequestManifest, recorderVars
<1>11. CASE WriteEvents \/ WriteManifests \/ Close \/ ContinueClose \/ Reopen \/ UNCHANGED vars
  BY <1>2, <1>11 DEF WriteEvents, WriteManifests, Close, ContinueClose, Reopen, vars,
     recorderVars
<1> QED
  BY <1>2, <1>3, <1>5, <1>6, <1>7, <1>8, <1>9, <1>10, <1>11 DEF Next

(* It keeps pointing back.                                                 *)
LEMMA EventNext ==
  ASSUME Base, EventInv, [Next]_vars, \A r \in Runs : OperationInv(r)' PROVE EventInv'
<1>0. RecorderTypeOK /\ \A r \in Runs : OperationInv(r)
  BY DEF Base, TypeOK
<1> SUFFICES ASSUME NEW r \in Runs, InFlight(r)'
             PROVE  LET a == active'[r].event IN
                    /\ a.type = "run.started" => a.parent = 0
                    /\ a.type # "checkpoint.created" => a.pin = 0
  BY DEF EventInv, Starting
<1>1. CASE InFlight(r) /\ active'[r].event = active[r].event
  BY <1>1 DEF EventInv, Starting
<1>2. CASE Start(r)
  <2>1. active'[r].event = [run |-> r, sequence |-> nextSequence[r], type |-> "run.started",
                            parent |-> 0, pin |-> 0]
    BY <1>0, <1>2 DEF Start, StartRun, RecorderTypeOK
  <2> QED
    BY <2>1
<1>3. CASE BeginOperation(r)
  <2> DEFINE op == Head(opQueue[r])
  <2>1. /\ active'[r].event = BuildEvent(r, op) /\ events' = events
        /\ ParentOf(r, op) \in DOMAIN events[r] /\ op \in Operation
        /\ op.method = "appendEvent" => op.type \notin ReservedTypes
    BY <1>0, <1>3 DEF BeginOperation, Ready, Admissible, RecorderTypeOK
  <2>2. active'[r].event.type # "run.started"
    <3>1. Len(events[r]) # 0
      BY <1>0, <2>1 DEF RecorderTypeOK
    <3> QED
      BY <2>1, <3>1 DEF InFlight, OperationInv, Starting
  <2>3. op.method # "checkpoint" => active'[r].event.pin = 0
    BY <2>1 DEF BuildEvent
  <2>4. op.method = "checkpoint" => active'[r].event.type = "checkpoint.created"
    BY <2>1 DEF BuildEvent, Emits
  <2> QED
    BY <2>2, <2>3, <2>4
<1> QED
  BY <1>1, <1>2, <1>3, EventEffect

(* At most the last line is not synced.                                    *)
LEMMA OneUnsynced ==
  ASSUME Durable, Base, [Next]_vars, Len(lines) <= synced + 1 PROVE Len(lines') <= synced' + 1
<1>0. lines \in Seq(Event) /\ synced \in 0..Len(lines) /\ Len(lines) \in Nat
  BY DEF Base, TypeOK, WriterTypeOK
<1>1. CASE FileKept
  BY <1>0, <1>1 DEF FileKept
<1>2. CASE LineAdded
  <2>1. CurrentJob.event \in Event
    BY <1>2, CurrentJobType DEF LineAdded, Base, TypeOK, Writable, Running
  <2> QED
    BY <1>0, <1>2, <2>1, AppendFacts DEF LineAdded
<1>3. CASE LinesLost
  <2>1. PICK kept \in synced..Len(lines) : lines' = SubSeq(lines, 1, kept) /\ synced' = kept
    BY <1>3 DEF LinesLost
  <2> QED
    BY <1>0, <2>1
<1> QED
  BY <1>1, <1>2, <1>3, FileEffect

(* A line that is added is the next event of the run, before its end.      *)
LEMMA ExtendStep ==
  ASSUME Durable, Base, EventInv, WellFormedLog', [Next]_vars, LineAdded PROVE Store!Extend
<1> DEFINE e == CurrentJob.event
           n == Len(lines)
<1>0. /\ lines \in Seq(Event) /\ n \in Nat /\ synced = n /\ synced' = synced /\ LogInv
      /\ alive /\ Writable /\ lines' = Append(lines, e) /\ finalManifest' = finalManifest
      /\ \A p \in Runs : OperationInv(p)
  BY DEF Base, TypeOK, WriterTypeOK, LineAdded, WriteEvents, manifestVars
<1>1. /\ e.run \in Runs /\ e \in Event /\ active[e.run].phase = "append"
      /\ active[e.run].event = e /\ lines = events[e.run] /\ e.sequence = n + 1
  BY <1>0, WritableLines DEF Base
<1>2. e = [run |-> e.run, sequence |-> n + 1, type |-> e.type, parent |-> e.parent,
           pin |-> e.pin] /\ e.type \in EventTypes
  BY <1>1 DEF Event
<1>3. ~Store!Ended
  <2>1. lines' # lines
    <3>1. Len(lines') = n + 1
      BY <1>0, <1>1, AppendFacts
    <3> QED
      BY <1>0, <3>1
  <2>2. ~Ended
    BY <2>1, EndedStays
  <2> QED
    BY <1>0, <2>2 DEF Ended, Store!Ended, Store!Last, LastLine
<1>4. lines # <<>> => e.run = Store!Last.run
  <2>1. ASSUME lines # <<>> PROVE e.run = lines[n].run
    <3>1. writerRun = lines[1].run /\ lines[1].run \in Runs /\ lines[n].run = lines[1].run
      BY <1>0, <2>1 DEF LogInv, WellFormedLog
    <3>2. writerRun # NoRun
      BY <3>1, WriterAssumption
    <3> QED
      BY <1>0, <3>1, <3>2 DEF Writable, WrongRun
  <2> QED
    BY <2>1 DEF Store!Last
<1>5. e.parent \in 0..n /\ e.pin \in 0..n
  <2>1. OperationInv(e.run) /\ InFlight(e.run)
    BY <1>0, <1>1 DEF InFlight
  <2>2. e.parent \in 0..n
    <3>1. CASE Starting(e.run)
      BY <1>0, <1>1, <2>1, <3>1 DEF EventInv
    <3>2. CASE ~Starting(e.run)
      <4>1. e.parent \in 1..n
        BY <1>1, <2>1, <3>2 DEF OperationInv
      <4> QED
        BY <1>0, <4>1
    <3> QED
      BY <3>1, <3>2
  <2>3. e.pin \in {0, n}
    BY <1>1, <2>1 DEF EventInv, OperationInv
  <2> QED
    BY <1>0, <2>2, <2>3
<1> HIDE DEF e
<1> QED
  BY <1>0, <1>1, <1>2, <1>3, <1>4, <1>5 DEF Store!Extend

(* Every step is one of the store's, or none.                              *)
LEMMA StoreStep ==
  ASSUME Durable, Base, EventInv, ManifestInv, Len(lines) <= synced + 1, WellFormedLog',
         [Next]_vars
  PROVE  [Store!Next]_(Store!storeVars)
<1>0. lines \in Seq(Event) /\ synced \in 0..Len(lines) /\ Len(lines) \in Nat
  BY DEF Base, TypeOK, WriterTypeOK
<1>1. CASE LineAdded
  BY <1>1, ExtendStep DEF Store!Next
<1>2. \A m : Held(m) => Ended /\ m # Absent
  BY DEF ManifestInv, Held, Finished, Absent, TerminalStatus
<1>3. CASE renaming /\ finalManifest' = tmpManifest /\ UNCHANGED <<lines, synced>>
  <2>1. Held(tmpManifest)
    BY <1>3 DEF ManifestInv, Held
  <2>2. Ended /\ finalManifest' # Absent
    BY <1>2, <1>3, <2>1
  <2>3. Store!Seal
    BY <1>3, <2>2 DEF Store!Seal, Store!Ended, Store!Last, Ended, LastLine
  <2> QED
    BY <2>3 DEF Store!Next
<1>4. CASE finalManifest' = finalManifest /\ FileKept
  BY <1>4 DEF FileKept, Store!Next, Store!Harden, Store!storeVars
<1>5. CASE finalManifest' = finalManifest /\ LinesLost
  <2>1. PICK kept \in synced..Len(lines) : lines' = SubSeq(lines, 1, kept) /\ synced' = kept
    BY <1>5 DEF LinesLost
  <2>2. CASE kept = Len(lines)
    <3>1. lines' = lines /\ synced' = Len(lines)
      BY <1>0, <2>1, <2>2
    <3> QED
      BY <1>5, <3>1 DEF Store!Next, Store!Harden
  <2>3. CASE kept # Len(lines)
    <3>1. kept = synced /\ synced < Len(lines)
      BY <1>0, <2>1, <2>3
    <3> QED
      BY <1>5, <2>1, <3>1 DEF Store!Next, Store!Lose
  <2> QED
    BY <2>2, <2>3
<1>6. CASE finalManifest # Absent /\ finalManifest' = Absent
  <2>1. Held(finalManifest)
    BY <1>6 DEF ManifestInv, Held
  <2>2. lines' = lines /\ synced' = synced
    BY <1>2, <2>1, EndedStays
  <2> QED
    BY <1>6, <2>2 DEF Store!Next, Store!Lose
<1> QED
  BY <1>1, <1>3, <1>4, <1>5, <1>6, FileEffect, FinalEffect

(* What a step of the store rests on, with at most one line that is not    *)
(* synced.                                                                 *)
OneBehind == Len(lines) <= synced + 1

StoreStepInv == StoreInv /\ EventInv /\ OneBehind

(* With a sync per event and no short writes, a snapshot directory is what *)
(* SnapshotStore promises its readers.                                     *)
THEOREM RecordingImplementsStore ==
  ASSUME Durable
  PROVE  Spec => StoreSpec
<1>1. Init => StoreStepInv /\ Store!Init
  <2> SUFFICES ASSUME Init PROVE StoreStepInv /\ Store!Init
    OBVIOUS
  <2>1. lines = <<>> /\ synced = 0 /\ finalManifest = Absent /\ \A r \in Runs : active[r] = Idle
    BY DEF Init, WriterInit, RecorderInit, ManifestInit
  <2>2. EventInv
    BY <2>1 DEF EventInv, InFlight, Idle
  <2>3. StoreInv
    BY StoreInvInit
  <2> QED
    BY <2>1, <2>2, <2>3 DEF Store!Init, StoreStepInv, OneBehind
<1>2. StoreStepInv /\ [Next]_vars => StoreStepInv' /\ [Store!Next]_(Store!storeVars)
  <2> SUFFICES ASSUME StoreStepInv, [Next]_vars
               PROVE  StoreStepInv' /\ [Store!Next]_(Store!storeVars)
    OBVIOUS
  <2>0. StoreInv /\ EventInv /\ Len(lines) <= synced + 1
    BY DEF StoreStepInv, OneBehind
  <2>1. Base /\ ManifestInv
    BY <2>0 DEF StoreInv, Base
  <2>2. StoreInv'
    BY <2>0, StoreInvNext
  <2>3. (\A r \in Runs : OperationInv(r))' /\ WellFormedLog'
    BY <2>2 DEF StoreInv, LogInv, Durable
  <2>4. EventInv'
    BY <2>0, <2>1, <2>3, EventNext
  <2>5. OneBehind'
    BY <2>0, <2>1, OneUnsynced DEF OneBehind
  <2>6. [Store!Next]_(Store!storeVars)
    BY <2>0, <2>1, <2>3, StoreStep
  <2> QED
    BY <2>2, <2>4, <2>5, <2>6 DEF StoreStepInv
<1>3. Spec => Store!Init /\ [][Store!Next]_(Store!storeVars)
  BY <1>1, <1>2, PTL DEF Spec
<1> QED
  BY <1>3 DEF StoreSpec, Store!Spec

-----------------------------------------------------------------------------
(* What is left in events.jsonl when nothing is promised: in any flush mode,*)
(* with short writes, refused syncs, torn tails and power losses.          *)

-----------------------------------------------------------------------------
(* A run that has a terminal line in the file never gets another line in   *)
(* behind it: it is over, or it is stuck with a sequence that the writer   *)
(* has used up - unless its one append in flight is that terminal event.   *)
Over(r) ==
  \/ status[r] # "running"
  \/ /\ nextSequence[r] <= lastSequence
     /\ outcome[r] = "ok" \/ (syncing /\ CurrentJob.event.run = r) =>
          active[r].event.type \in TerminalTypes

HistoryInv ==
  /\ SingleHistory
  /\ \A i \in DOMAIN lines : lines[i].run \in Runs /\ status[lines[i].run] # "unborn"
  /\ alive => \A i \in DOMAIN lines :
       /\ lines[i].run = writerRun /\ lines[i].sequence <= lastSequence
       /\ lines[i].type \in TerminalTypes => Over(writerRun)

(* What is in the file are events, numbered by naturals.                   *)
LEMMA LineType ==
  ASSUME WriterTypeOK, NEW i \in DOMAIN lines
  PROVE  /\ lines \in Seq(Event) /\ Len(lines) \in Nat /\ DOMAIN lines = 1..Len(lines)
         /\ lines[i] \in Event /\ lines[i].sequence \in Nat /\ lines # <<>>
<1>1. lines \in Seq(Event)
  BY DEF WriterTypeOK
<1>2. lines[i] \in Event
  BY <1>1
<1>3. lines[i].sequence \in Nat
  BY <1>2 DEF Event
<1> QED
  BY <1>1, <1>2, <1>3

(* A run that has ended is neither running nor unborn.                     *)
LEMMA EndedStatus ==
  ASSUME NEW type \in TerminalTypes PROVE StatusAfter[type] \notin {"running", "unborn"}
<1>1. type = "run.completed" \/ type = "run.failed" \/ type = "run.observed"
  BY DEF TerminalTypes
<1> QED
  BY <1>1 DEF StatusAfter

(* What the other parts of the invariant say about the append that runs.   *)
LEMMA RunningAppend ==
  ASSUME TypeOK, PromiseInv, \A p \in Runs : OperationInv(p), Running("append")
  PROVE  LET event == CurrentJob.event IN
         /\ event \in Event /\ event.run \in Runs
         /\ active[event.run].phase = "append" /\ active[event.run].event = event
         /\ outcome[event.run] = "none" /\ status[event.run] = "running"
         /\ event.sequence = nextSequence[event.run]
<1> DEFINE r == CurrentJob.event.run
<1>0. WriterTypeOK /\ JobInv
  BY DEF TypeOK, PromiseInv
<1>1. /\ writerQueue # <<>> /\ writerQueue \in Seq(Job) /\ 1 \in DOMAIN writerQueue
      /\ CurrentJob = writerQueue[1] /\ CurrentJob \in Job /\ CurrentJob.op = "append"
  BY <1>0, TailFacts DEF Running, CurrentJob, WriterTypeOK
<1>2. r \in Runs /\ CurrentJob.event \in Event
  BY <1>0, <1>1 DEF JobInv, Job
<1>3. AppendOf(r, 1)
  BY <1>1 DEF AppendOf
<1>4. active[r].phase = "append" /\ outcome[r] = "none" /\ active[r].event = CurrentJob.event
  BY <1>0, <1>1, <1>2, <1>3 DEF JobInv
<1>5. status[r] = "running" /\ active[r].event.sequence = nextSequence[r]
  BY <1>2, <1>4 DEF OperationInv
<1> QED
  BY <1>2, <1>4, <1>5

(* Steps that write nothing and commit nothing, and let no append succeed. *)
LEMMA HistoryFrame ==
  ASSUME HistoryInv, UNCHANGED <<lines, lastSequence, alive, nextSequence>>,
         lines # <<>> => writerRun' = writerRun,
         \A p \in Runs : status[p] # "unborn" =>
           status'[p] # "unborn" /\ (status[p] # "running" => status'[p] # "running"),
         \A p \in Runs : outcome'[p] = "ok" \/ (syncing' /\ CurrentJob'.event.run = p) =>
           /\ outcome[p] = "ok" \/ (syncing /\ CurrentJob.event.run = p)
           /\ active'[p] = active[p]
  PROVE  HistoryInv'
<1>1. SingleHistory'
  BY DEF HistoryInv, SingleHistory
<1>2. \A i \in DOMAIN lines : lines[i].run \in Runs /\ status'[lines[i].run] # "unborn"
  BY DEF HistoryInv
<1>3. ASSUME alive, NEW i \in DOMAIN lines, lines[i].type \in TerminalTypes PROVE Over(writerRun)'
  <2>1. lines # <<>> /\ writerRun' = writerRun
    <3>1. lines # <<>>
      BY <1>3
    <3> QED
      BY <3>1
  <2>2. writerRun \in Runs /\ status[writerRun] # "unborn" /\ Over(writerRun)
    BY <1>3 DEF HistoryInv
  <2> QED
    BY <2>1, <2>2 DEF Over
<1>4. lines # <<>> <=> DOMAIN lines # {}
  OBVIOUS
<1> QED
  BY <1>1, <1>2, <1>3, <1>4 DEF HistoryInv

-----------------------------------------------------------------------------
(* Whatever a write leaves behind, a line at a place is the one that was   *)
(* there, or it is the new one behind all others.                          *)
LEMMA WrittenLines ==
  ASSUME WriterTypeOK, CurrentJob.event \in Event, WriteLine
  PROVE  /\ lines' \in Seq(Event)
         /\ \A i \in DOMAIN lines' :
              \/ i \in DOMAIN lines /\ lines'[i] = lines[i]
              \/ /\ i = Len(lines) + 1 /\ lines'[i] = CurrentJob.event
                 /\ \A j \in DOMAIN lines' : j # i => j \in DOMAIN lines /\ lines'[j] = lines[j]
<1> DEFINE event == CurrentJob.event
<1>0. lines \in Seq(Event) /\ Len(lines) \in Nat
  BY DEF WriterTypeOK
<1>1. CASE lines' = Append(lines, event)
  BY <1>0, <1>1, AppendFacts
<1>2. CASE lines' = lines
  BY <1>0, <1>2
<1>3. CASE lines' = SubSeq(lines, 1, Len(lines) - 1) /\ lines # <<>>
  <2>1. Len(lines) >= 1
    BY <1>0, <1>3
  <2> QED
    BY <1>0, <1>3, <2>1
<1>4. lines' \in {Append(lines, event), lines, SubSeq(lines, 1, Len(lines) - 1)}
  BY DEF WriteLine, LinesWith, WriterTypeOK, TailBeforeLine
<1>5. CASE lines' = SubSeq(lines, 1, Len(lines) - 1) /\ lines = <<>>
  BY <1>0, <1>5
<1> QED
  BY <1>1, <1>2, <1>3, <1>4, <1>5

(* Nothing that can be written comes behind a terminal line, and what is   *)
(* written comes later in the same run than every line there.              *)
LEMMA WritableFollows ==
  ASSUME TypeOK, PromiseInv, \A p \in Runs : OperationInv(p), HistoryInv, alive, Writable,
         NEW i \in DOMAIN lines
  PROVE  /\ lines[i].run = CurrentJob.event.run
         /\ lines[i].sequence < CurrentJob.event.sequence
         /\ lines[i].type \notin TerminalTypes
<1> DEFINE event == CurrentJob.event
<1>0. lines[i].sequence \in Nat /\ lastSequence \in Nat
  BY LineType DEF TypeOK, WriterTypeOK
<1>1. /\ event \in Event /\ event.sequence \in Nat /\ event.run \in Runs
      /\ status[event.run] = "running" /\ event.sequence = nextSequence[event.run]
  BY RunningAppend DEF Writable, Event
<1>2. lines[i].run = writerRun /\ writerRun \in Runs /\ lines[i].sequence <= lastSequence
  BY DEF HistoryInv
<1>3. writerRun # NoRun
  BY <1>2, WriterAssumption
<1>4. event.run = writerRun /\ ~(event.sequence <= lastSequence)
  BY <1>3 DEF Writable, WrongRun, StaleSequence
<1>5. ~Over(writerRun)
  BY <1>1, <1>4 DEF Over
<1> QED
  BY <1>0, <1>1, <1>2, <1>4, <1>5 DEF HistoryInv

(* What the writer does keeps the history.                                 *)
LEMMA HistoryWriter ==
  ASSUME TypeOK, PromiseInv, \A p \in Runs : OperationInv(p), HistoryInv, WriteEvents
  PROVE  HistoryInv'
<1> DEFINE event == CurrentJob.event
           r == event.run
<1>0. WriterTypeOK /\ RecorderTypeOK /\ JobInv
  BY DEF TypeOK, PromiseInv
<1>1. alive /\ alive' = alive /\ UNCHANGED <<status, events, active, nextSequence>>
  BY DEF WriteEvents, recorderVars
<1>2. ASSUME Running("append"), ~syncing, ~syncing', Settle("failed"),
             UNCHANGED <<lines, lastSequence>>, lines # <<>> => writerRun' = writerRun
      PROVE  HistoryInv'
  <2>1. \A p \in Runs : outcome'[p] = "ok" => outcome[p] = "ok"
    BY <1>0, <1>2 DEF Settle, WriterTypeOK
  <2> QED
    BY <1>1, <1>2, <2>1, HistoryFrame
<1>3. lines # <<>> => writerRun # NoRun
  <2>1. lines # <<>> => 1 \in DOMAIN lines
    BY <1>0 DEF WriterTypeOK
  <2> QED
    BY <1>1, <2>1, WriterAssumption DEF HistoryInv
<1>4. CASE RejectAppend
  <2>1. /\ Running("append") /\ ~syncing /\ syncing' = syncing /\ Settle("failed")
        /\ UNCHANGED <<lines, lastSequence>>
        /\ lines # <<>> => writerRun' = writerRun
    BY <1>3, <1>4 DEF RejectAppend, WrongRun
  <2>2. ~syncing'
    BY <2>1
  <2> QED
    BY <1>2, <2>1, <2>2
<1>5. CASE FailWrite
  <2>1. /\ Running("append") /\ ~syncing /\ syncing' = syncing /\ Settle("failed")
        /\ UNCHANGED <<lines, lastSequence>>
        /\ lines # <<>> => writerRun' = writerRun
    BY <1>3, <1>5 DEF FailWrite, Writable, WrongRun
  <2>2. ~syncing'
    BY <2>1
  <2> QED
    BY <1>2, <2>1, <2>2
<1>6. CASE WriteLine
  <2>1. Writable /\ Running("append") /\ writerRun' = r /\ lastSequence' = event.sequence
    BY <1>6 DEF WriteLine, Writable
  <2>2. /\ event \in Event /\ event.sequence \in Nat /\ r \in Runs
        /\ active[r].event = event /\ status[r] = "running"
        /\ event.sequence = nextSequence[r]
    BY <2>1, RunningAppend DEF Event
  <2>3. \A i \in DOMAIN lines' :
          \/ i \in DOMAIN lines /\ lines'[i] = lines[i]
          \/ /\ i = Len(lines) + 1 /\ lines'[i] = event
             /\ \A j \in DOMAIN lines' : j # i => j \in DOMAIN lines /\ lines'[j] = lines[j]
    BY <1>0, <1>6, <2>2, WrittenLines
  <2>4. \A i \in DOMAIN lines :
          /\ lines[i].run = r /\ lines[i].sequence < event.sequence
          /\ lines[i].type \notin TerminalTypes
    BY <1>1, <2>1, WritableFollows
  <2>5. SingleHistory'
    <3>1. SUFFICES ASSUME NEW i \in DOMAIN lines', NEW j \in DOMAIN lines', i < j
          PROVE  /\ lines'[i].run = lines'[j].run
                 /\ lines'[i].sequence < lines'[j].sequence
                 /\ lines'[i].type \notin TerminalTypes
      BY DEF SingleHistory
    <3>2. i \in DOMAIN lines /\ lines'[i] = lines[i]
      <4>1. DOMAIN lines = 1..Len(lines) /\ DOMAIN lines' = 1..Len(lines') /\ Len(lines) \in Nat
            /\ Len(lines') \in Nat
        BY <1>0, <1>6, <2>2, WrittenLines DEF WriterTypeOK
      <4> QED
        BY <2>3, <3>1, <4>1
    <3>3. CASE j \in DOMAIN lines /\ lines'[j] = lines[j]
      BY <3>1, <3>2, <3>3 DEF HistoryInv, SingleHistory
    <3>4. CASE lines'[j] = event
      BY <2>4, <3>2, <3>4
    <3> QED
      BY <2>3, <3>3, <3>4
  <2>6. \A i \in DOMAIN lines' : lines'[i].run = r /\ lines'[i].sequence <= event.sequence
    <3>1. \A i \in DOMAIN lines : lines[i].sequence \in Nat
      BY <1>0, LineType
    <3> QED
      BY <2>2, <2>3, <2>4, <3>1
  <2>7. ASSUME NEW i \in DOMAIN lines', lines'[i].type \in TerminalTypes,
               NEW p \in Runs, p = r
        PROVE  Over(p)'
    <3>1. event.type \in TerminalTypes
      BY <2>3, <2>4, <2>7
    <3>2. active'[p].event.type \in TerminalTypes /\ nextSequence'[p] <= lastSequence'
      BY <1>1, <2>1, <2>2, <2>7, <3>1
    <3> QED
      BY <3>2 DEF Over
  <2>8. r \in Runs /\ status'[r] # "unborn" /\ writerRun' = r /\ lastSequence' = event.sequence
    BY <1>1, <2>1, <2>2
  <2>9. \A i \in DOMAIN lines' : lines'[i].run \in Runs /\ status'[lines'[i].run] # "unborn"
    BY <2>6, <2>8
  <2>10. \A i \in DOMAIN lines' :
           /\ lines'[i].run = writerRun' /\ lines'[i].sequence <= lastSequence'
           /\ lines'[i].type \in TerminalTypes => Over(writerRun)'
    <3>1. PICK p \in Runs : p = r
      BY <2>8
    <3>2. Over(p)' => Over(writerRun)'
      BY <2>8, <3>1 DEF Over
    <3> QED
      BY <2>6, <2>7, <2>8, <3>1, <3>2
  <2> QED
    BY <2>5, <2>9, <2>10 DEF HistoryInv
<1>7. CASE SyncLine
  <2>1. /\ Running("append") /\ syncing /\ ~syncing' /\ (Settle("ok") \/ Settle("failed"))
        /\ UNCHANGED <<lines, lastSequence, writerRun>>
    BY <1>7 DEF SyncLine, PromiseInv
  <2>2. \A p \in Runs : outcome'[p] = "ok" => outcome[p] = "ok" \/ CurrentJob.event.run = p
    BY <1>0, <2>1 DEF Settle, WriterTypeOK
  <2> QED
    BY <1>1, <2>1, <2>2, HistoryFrame
<1>8. CASE FlushOrClose
  <2>1. /\ writerQueue # <<>> /\ CurrentJob.op # "append" /\ syncing' = syncing
        /\ (Settle("ok") \/ Settle("failed"))
        /\ UNCHANGED <<lines, lastSequence, writerRun>>
    BY <1>8 DEF FlushOrClose, Running
  <2>2. ~syncing /\ ~syncing'
    BY <2>1 DEF PromiseInv, Running
  <2>3. CurrentJob.event.run = NoRun
    <3>1. CurrentJob = writerQueue[1] /\ 1 \in DOMAIN writerQueue
      BY <1>0, <2>1, TailFacts DEF CurrentJob, WriterTypeOK
    <3> QED
      BY <1>0, <2>1, <3>1 DEF JobInv
  <2>4. \A p \in Runs : outcome'[p] = outcome[p]
    BY <1>0, <2>1, <2>3, WriterAssumption DEF Settle, WriterTypeOK
  <2> QED
    BY <1>1, <2>1, <2>2, <2>4, HistoryFrame
<1> QED
  BY <1>4, <1>5, <1>6, <1>7, <1>8 DEF WriteEvents, WriterStep

-----------------------------------------------------------------------------
(* The history invariant is kept by every step.                            *)
LEMMA HistoryNext ==
  ASSUME TypeOK, \A r \in Runs : OperationInv(r), PromiseInv, HistoryInv, [Next]_vars
  PROVE  HistoryInv'
<1>0. WriterTypeOK /\ RecorderTypeOK /\ JobInv
  BY DEF TypeOK, PromiseInv
<1>1. ASSUME NEW r \in Runs, Start(r) \/ Request(r) \/ Downgrade(r) \/ Begin(r)
                             \/ SaveCheckpoint(r)
      PROVE  HistoryInv'
  <2>1. /\ alive' = alive /\ UNCHANGED writerVars /\ UNCHANGED nextSequence
    BY <1>1 DEF Start, StartRun, Request, Call, Downgrade, MarkIncomplete, Begin, BeginOperation,
       RejectOperation, InterceptorFails, Abandon, SaveCheckpoint, AfterCheckpoint
  <2>2. \A p \in Runs : status[p] # "unborn" =>
          status'[p] # "unborn" /\ (status[p] # "running" => status'[p] # "running")
    BY <1>0, <1>1 DEF Start, StartRun, Request, Call, Downgrade, MarkIncomplete, Begin,
       BeginOperation, RejectOperation, InterceptorFails, Abandon, SaveCheckpoint,
       AfterCheckpoint, RecorderTypeOK
  <2>3. \A p \in Runs : active[p].phase = "append" => active'[p] = active[p]
    BY <1>0, <1>1 DEF Start, StartRun, Request, Call, Downgrade, MarkIncomplete, Begin,
       BeginOperation, RejectOperation, InterceptorFails, Abandon, Ready, SaveCheckpoint,
       AfterCheckpoint, RecorderTypeOK, OperationInv
  <2>4. \A p \in Runs : outcome[p] = "ok" \/ (syncing /\ CurrentJob.event.run = p) =>
          active'[p] = active[p]
    <3>1. syncing => active[CurrentJob.event.run].phase = "append"
      BY RunningAppend DEF PromiseInv
    <3> QED
      BY <1>0, <2>3, <3>1 DEF JobInv
  <2> QED
    BY <2>1, <2>2, <2>4, HistoryFrame DEF writerVars, CurrentJob
<1>2. ASSUME NEW r \in Runs, Submit(r) PROVE HistoryInv'
  <2>1. /\ alive' = alive /\ UNCHANGED <<status, nextSequence, outcome>>
        /\ UNCHANGED <<lines, writerRun, lastSequence, syncing>>
        /\ writerQueue' = Append(writerQueue, [op |-> "append", event |-> active[r].event])
        /\ active[r].phase = "intercept"
        /\ \A p \in Runs : p # r => active'[p] = active[p]
    BY <1>0, <1>2 DEF Submit, SubmitEvent, EnqueueJob, RecorderTypeOK
  <2>2. ASSUME syncing
        PROVE  CurrentJob' = CurrentJob /\ active[CurrentJob.event.run].phase = "append"
    <3>1. writerQueue # <<>> /\ [op |-> "append", event |-> active[r].event] \in Job
      BY <1>0, <2>2 DEF PromiseInv, Running, RecorderTypeOK, Active, Job
    <3>2. CurrentJob' = CurrentJob
      BY <1>0, <2>1, <3>1 DEF CurrentJob, WriterTypeOK
    <3>3. active[CurrentJob.event.run].phase = "append"
      BY <2>2, RunningAppend DEF PromiseInv
    <3> QED
      BY <3>2, <3>3
  <2>3. \A p \in Runs : outcome[p] # "none" => p # r
    BY <1>0, <2>1 DEF JobInv
  <2> QED
    BY <2>1, <2>2, <2>3, HistoryFrame
<1>3. ASSUME NEW r \in Runs, Resume(r) PROVE HistoryInv'
  <2>1. /\ alive /\ alive' = alive
        /\ UNCHANGED <<lines, writerRun, lastSequence, syncing, writerQueue>>
        /\ outcome' = [outcome EXCEPT ![r] = "none"] /\ outcome[r] # "none"
        /\ CurrentJob' = CurrentJob
    BY <1>3 DEF Resume, CurrentJob
  <2>2. syncing => CurrentJob.event.run # r
    BY <2>1, RunningAppend DEF PromiseInv
  <2>3. \A p \in Runs : p # r =>
          UNCHANGED <<active[p], status[p], nextSequence[p], outcome[p]>>
    BY <1>0, <1>3, <2>1 DEF Resume, CommitEvent, AbortEvent, Abandon, RecorderTypeOK, WriterTypeOK
  <2>4. outcome'[r] = "none"
    BY <1>0, <2>1 DEF WriterTypeOK
  <2>5. ASSUME Over(r) PROVE Over(r)'
    <3>1. CASE AbortEvent(r)
      <4>1. nextSequence' = nextSequence /\ status'[r] \in {status[r], "deleted"}
        BY <1>0, <3>1 DEF AbortEvent, Abandon, RecorderTypeOK
      <4> QED
        BY <2>1, <2>2, <2>4, <2>5, <4>1 DEF Over
    <3>2. CASE outcome[r] = "ok" /\ CommitEvent(r)
      <4>1. status[r] = "running"
        BY <3>2 DEF CommitEvent, OperationInv
      <4>2. active[r].event.type \in TerminalTypes
        BY <2>5, <3>2, <4>1 DEF Over
      <4>3. status'[r] = StatusAfter[active[r].event.type]
        BY <1>0, <3>2, <4>2 DEF CommitEvent, RecorderTypeOK
      <4>4. status'[r] # "running"
        BY <4>2, <4>3, EndedStatus
      <4> QED
        BY <4>4 DEF Over
    <3> QED
      BY <1>3, <3>1, <3>2 DEF Resume
  <2>6. \A p \in Runs : Over(p) => Over(p)'
    <3>1. \A p \in Runs : p # r => (Over(p) => Over(p)')
      BY <2>1, <2>3 DEF Over
    <3> QED
      BY <2>5, <3>1
  <2>7. \A p \in Runs : status[p] # "unborn" => status'[p] # "unborn"
    <3>1. CASE AbortEvent(r)
      BY <1>0, <3>1 DEF AbortEvent, Abandon, RecorderTypeOK
    <3>2. CASE CommitEvent(r)
      <4>1. status'[r] \in {status[r], StatusAfter[active[r].event.type]}
        BY <1>0, <3>2 DEF CommitEvent, RecorderTypeOK
      <4>2. \A p \in Runs : p # r => status'[p] = status[p]
        BY <2>3
      <4>3. active[r].event.type \in TerminalTypes =>
              StatusAfter[active[r].event.type] # "unborn"
        BY EndedStatus
      <4>4. active[r].event.type \notin TerminalTypes => status'[r] = status[r]
        BY <1>0, <3>2 DEF CommitEvent, RecorderTypeOK
      <4> QED
        BY <4>1, <4>2, <4>3, <4>4
    <3> QED
      BY <1>3, <3>1, <3>2 DEF Resume
  <2>8. \A i \in DOMAIN lines : lines[i].run \in Runs /\ status'[lines[i].run] # "unborn"
    BY <2>7 DEF HistoryInv
  <2>9. \A i \in DOMAIN lines :
          /\ lines[i].run = writerRun /\ lines[i].sequence <= lastSequence
          /\ lines[i].type \in TerminalTypes => Over(writerRun)'
    <3>1. \A i \in DOMAIN lines : lines[i].type \in TerminalTypes =>
            writerRun \in Runs /\ Over(writerRun)
      BY <2>1 DEF HistoryInv
    <3>2. ASSUME writerRun \in Runs, Over(writerRun) PROVE Over(writerRun)'
      <4>1. PICK p \in Runs : p = writerRun
        BY <3>2
      <4>2. Over(p)'
        BY <2>6, <3>2, <4>1
      <4> QED
        BY <2>1, <4>1, <4>2 DEF Over
    <3> QED
      BY <2>1, <3>1, <3>2 DEF HistoryInv
  <2>10. SingleHistory'
    BY <2>1 DEF HistoryInv, SingleHistory
  <2> QED
    BY <2>1, <2>8, <2>9, <2>10 DEF HistoryInv
<1>4. ASSUME WriteEvents PROVE HistoryInv'
  BY <1>4, HistoryWriter
<1>5. ASSUME Close \/ ContinueClose PROVE HistoryInv'
  <2>1. /\ alive' = alive /\ UNCHANGED <<status, nextSequence, active>>
        /\ UNCHANGED <<lines, writerRun, lastSequence, syncing>>
    BY <1>5 DEF Close, ContinueClose, EnqueueForOwner, TakeOwnerOutcome, recorderVars, writerVars
  <2>2. \A p \in Runs : outcome'[p] = outcome[p]
    BY <1>0, <1>5, WriterAssumption DEF Close, ContinueClose, EnqueueForOwner, TakeOwnerOutcome,
       WriterTypeOK, writerVars
  <2>3. ASSUME syncing PROVE CurrentJob' = CurrentJob
    <3>1. CASE \E op \in {"flush", "close"} : EnqueueForOwner(op)
      <4>1. PICK op \in {"flush", "close"} : EnqueueForOwner(op)
        BY <3>1
      <4>2. writerQueue # <<>> /\ [op |-> op, event |-> NoEvent] \in Job
        BY <2>3, NoEventType DEF PromiseInv, Running, Job
      <4> QED
        BY <1>0, <4>1, <4>2 DEF EnqueueForOwner, EnqueueJob, CurrentJob, WriterTypeOK
    <3>2. CASE writerQueue' = writerQueue
      BY <3>2 DEF CurrentJob
    <3> QED
      BY <1>5, <3>1, <3>2 DEF Close, ContinueClose, TakeOwnerOutcome, writerVars
  <2> QED
    BY <2>1, <2>2, <2>3, HistoryFrame
<1>6. ASSUME WriteManifests \/ (\E r \in Runs, op \in {"write", "commit"} : RequestManifest(r, op))
             \/ UNCHANGED vars
      PROVE  HistoryInv'
  <2>1. alive' = alive /\ UNCHANGED writerVars /\ UNCHANGED recorderVars
    BY <1>6 DEF WriteManifests, RequestManifest, vars
  <2> QED
    BY <2>1, HistoryFrame DEF writerVars, recorderVars, CurrentJob
<1>7. ASSUME Crash PROVE HistoryInv'
  <2>1. PICK kept \in synced..Len(lines) : lines' = SubSeq(lines, 1, kept)
    BY <1>7 DEF Crash, LoseUnsynced
  <2>2. lines \in Seq(Event) /\ kept \in 0..Len(lines) /\ Len(lines) \in Nat
    BY <1>0, <2>1 DEF WriterTypeOK
  <2>3. \A i \in DOMAIN lines' : i \in DOMAIN lines /\ lines'[i] = lines[i]
    BY <2>1, <2>2
  <2>4. ~alive' /\ \A p \in Runs : status[p] # "unborn" => status'[p] # "unborn"
    BY <1>7 DEF Crash
  <2>5. SingleHistory'
    BY <2>3 DEF HistoryInv, SingleHistory
  <2> QED
    BY <2>3, <2>4, <2>5 DEF HistoryInv
<1>8. ASSUME Reopen PROVE HistoryInv'
  <2>1. ~alive /\ UNCHANGED <<lines, status>>
    BY <1>8 DEF Reopen, OpenWriter, recorderVars
  <2>2. /\ lastSequence' = IF lines = <<>> THEN 0 ELSE lines[Len(lines)].sequence
        /\ writerRun' = IF lines = <<>> THEN NoRun ELSE lines[Len(lines)].run
    BY <1>8 DEF Reopen, OpenWriter
  <2>3. SingleHistory'
    BY <2>1 DEF HistoryInv, SingleHistory
  <2>4. ASSUME NEW i \in DOMAIN lines
        PROVE  lines[i].run = writerRun' /\ lines[i].sequence <= lastSequence' /\ Over(writerRun)'
    <3>1. /\ lines # <<>> /\ Len(lines) \in DOMAIN lines /\ i <= Len(lines)
          /\ i \in Nat /\ Len(lines) \in Nat /\ lines[i].sequence \in Nat
      BY <1>0, <2>4, LineType
    <3>2. lines[i].run = lines[Len(lines)].run /\ lines[i].sequence <= lines[Len(lines)].sequence
      <4>1. CASE i = Len(lines)
        BY <3>1, <4>1
      <4>2. CASE i < Len(lines)
        <5>1. lines[Len(lines)].sequence \in Nat
          BY <1>0, <3>1, LineType
        <5> QED
          BY <3>1, <4>2, <5>1 DEF HistoryInv, SingleHistory
      <4> QED
        BY <3>1, <4>1, <4>2
    <3>3. lines[i].run \in Runs /\ status[lines[i].run] # "running"
      BY <2>1 DEF HistoryInv, OperationInv
    <3> QED
      BY <2>1, <2>2, <3>1, <3>2, <3>3 DEF Over
  <2> QED
    BY <2>1, <2>3, <2>4 DEF HistoryInv
<1> QED
  BY <1>1, <1>2, <1>3, <1>4, <1>5, <1>6, <1>7, <1>8 DEF Next

(* In every flush mode, however writes come up short, syncs are refused    *)
(* and crashes tear the file, the lines left are one run's in their order. *)
THEOREM FileKeepsOneHistory == Spec => []SingleHistory
<1> DEFINE HInv == TypeOK /\ (\A r \in Runs : OperationInv(r)) /\ PromiseInv /\ HistoryInv
<1>1. Init => HInv
  <2>1. Init => HistoryInv
    BY DEF Init, WriterInit, HistoryInv, SingleHistory
  <2> QED
    BY <2>1, InitType, OperationInvInit, PromiseInvInit
<1>2. HInv /\ [Next]_vars => HInv'
  BY NextType, OperationInvNext, PromiseInvNext, HistoryNext
<1>3. HInv => SingleHistory
  BY DEF HistoryInv
<1> QED
  BY <1>1, <1>2, <1>3, PTL DEF Spec
=============================================================================
