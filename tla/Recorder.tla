------------------------------ MODULE Recorder ------------------------------
(***************************************************************************)
(* Recorder: the in-memory record of every run.  Operations on a run are   *)
(* chained on its promise queue; each one validates, builds an event with  *)
(* the run's next sequence, offers it to the interceptors, and commits it  *)
(* in memory only when every afterAppend interceptor has succeeded.        *)
(*                                                                         *)
(* The last interceptor is SnapshotWriter.append: this module says when    *)
(* it is awaited (phase "append"), SnapshotRecording what it does.         *)
(***************************************************************************)
EXTENDS JsonlWriter

CONSTANT MaxEvents   \* bound: events committed or waiting, per run

ASSUME RecorderAssumption == MaxEvents \in Nat \ {0}

VARIABLES
  status,        \* RunRecord.status; "unborn" before startRun, "deleted" after
                 \* a failed one, "lost" once its process has died
  events,        \* RunRecord.events
  nextSequence,  \* RunRecord.nextSequence
  completeness,  \* RunRecord.completeness
  opQueue,       \* RunRecord.queue: operations, the head running
  active         \* how far the running operation (or startRun) is

recorderVars == <<status, events, nextSequence, completeness, opQueue, active>>

TerminalStatus == {"completed", "failed", "observed"}
Status == {"unborn", "running", "deleted", "lost"} \cup TerminalStatus

Emits == [completeRun |-> "run.completed", failRun |-> "run.failed",
          observeRun |-> "run.observed", checkpoint |-> "checkpoint.created"]
StatusAfter == [t \in TerminalTypes |->
                  CASE t = "run.completed" -> "completed"
                    [] t = "run.failed" -> "failed"
                    [] t = "run.observed" -> "observed"]
ReservedTypes == TerminalTypes \cup {"run.started", "checkpoint.created"}

(* `parent` is the event the context was created at, 0 for an id of some   *)
(* other run or an empty context; `latest` is the lifecycle default: the   *)
(* last event when the operation runs.                                     *)
Operation == [method : {"appendEvent"} \cup DOMAIN Emits, type : EventTypes,
              parent : Nat, latest : BOOLEAN]

Idle == [phase |-> "idle", event |-> NoEvent]
Active == [phase : {"idle", "intercept", "append", "checkpointFile"}, event : Event]

RecorderTypeOK ==
  /\ status \in [Runs -> Status]
  /\ events \in [Runs -> Seq(Event)]
  /\ nextSequence \in [Runs -> Nat \ {0}]
  /\ completeness \in [Runs -> {"complete", "partial"}]
  /\ opQueue \in [Runs -> Seq(Operation)]
  /\ active \in [Runs -> Active]

RecorderInit ==
  /\ status = [r \in Runs |-> "unborn"]
  /\ events = [r \in Runs |-> <<>>]
  /\ nextSequence = [r \in Runs |-> 1]
  /\ completeness = [r \in Runs |-> "complete"]
  /\ opQueue = [r \in Runs |-> <<>>]
  /\ active = [r \in Runs |-> Idle]

-----------------------------------------------------------------------------
HasHandle(r) == events[r] # <<>>

(* startRun(): a record with no event yet; run.started goes through the    *)
(* same commit path, outside the queue.                                    *)
StartRun(r) ==
  /\ status[r] = "unborn"
  /\ status' = [status EXCEPT ![r] = "running"]
  /\ active' = [active EXCEPT ![r] = [phase |-> "intercept",
       event |-> [run |-> r, sequence |-> nextSequence[r],
                  type |-> "run.started", parent |-> 0, pin |-> 0]]]
  /\ UNCHANGED <<events, nextSequence, completeness, opQueue>>

(* A caller's appendEvent(), checkpoint(), completeRun(), failRun() or     *)
(* observeRun(): the promise is chained behind the earlier ones.           *)
Call(r, op) ==
  /\ HasHandle(r)
  /\ status[r] # "lost"
  /\ Len(events[r]) + Len(opQueue[r]) < MaxEvents
  /\ opQueue' = [opQueue EXCEPT ![r] = Append(@, op)]
  /\ UNCHANGED <<status, events, nextSequence, completeness, active>>

ParentOf(r, op) == IF op.latest THEN Len(events[r]) ELSE op.parent

(* Fault: assertRunning is forgotten.                                      *)
AdmissibleAtAnyStatus(r, op) ==
  /\ ParentOf(r, op) \in DOMAIN events[r]
  /\ op.method = "appendEvent" => op.type \notin ReservedTypes

(* assertRunning, assertContext and the reserved event types.              *)
Admissible(r, op) ==
  /\ status[r] = "running"
  /\ ParentOf(r, op) \in DOMAIN events[r]
  /\ op.method = "appendEvent" => op.type \notin ReservedTypes

Ready(r) == active[r].phase = "idle" /\ opQueue[r] # <<>>

BuildEvent(r, op) ==
  [run |-> r, sequence |-> nextSequence[r],
   type |-> IF op.method = "appendEvent" THEN op.type ELSE Emits[op.method],
   parent |-> ParentOf(r, op),
   pin |-> IF op.method = "checkpoint" THEN Len(events[r]) ELSE 0]

BeginOperation(r) ==
  /\ Ready(r)
  /\ Admissible(r, Head(opQueue[r]))
  /\ active' = [active EXCEPT ![r] =
                  [phase |-> "intercept", event |-> BuildEvent(r, Head(opQueue[r]))]]
  /\ UNCHANGED <<status, events, nextSequence, completeness, opQueue>>

RejectOperation(r) ==
  /\ Ready(r)
  /\ ~Admissible(r, Head(opQueue[r]))
  /\ opQueue' = [opQueue EXCEPT ![r] = Tail(@)]
  /\ UNCHANGED <<status, events, nextSequence, completeness, active>>

-----------------------------------------------------------------------------
Starting(r) == active[r].event.type = "run.started"

(* The operation's promise settles without a commit: startRun deletes its  *)
(* record, any other operation leaves the chain.                           *)
Abandon(r) ==
  /\ active' = [active EXCEPT ![r] = Idle]
  /\ IF Starting(r)
       THEN status' = [status EXCEPT ![r] = "deleted"] /\ UNCHANGED opQueue
       ELSE opQueue' = [opQueue EXCEPT ![r] = Tail(@)] /\ UNCHANGED status
  /\ UNCHANGED <<events, nextSequence, completeness>>

(* A beforeCheckpoint or beforeAppend interceptor (the redaction pipeline) *)
(* throws or changes an identity field.                                    *)
InterceptorFails(r) == active[r].phase = "intercept" /\ Abandon(r)

(* Fault: the terminal status is visible before the event is committed.    *)
SubmitEventEarlyStatus(r) ==
  /\ active[r].phase = "intercept"
  /\ active' = [active EXCEPT ![r].phase = "append"]
  /\ status' = [status EXCEPT ![r] = IF active[r].event.type \in TerminalTypes
                                       THEN StatusAfter[active[r].event.type] ELSE @]
  /\ UNCHANGED <<events, nextSequence, completeness, opQueue>>

(* Every beforeAppend has passed; afterAppend of the writer is awaited.    *)
SubmitEvent(r) ==
  /\ active[r].phase = "intercept"
  /\ active' = [active EXCEPT ![r].phase = "append"]
  /\ UNCHANGED <<status, events, nextSequence, completeness, opQueue>>

(* The writer resolved: commitEvent pushes the event, advances the         *)
(* sequence and runs onCommitted.                                          *)
CommitEvent(r) ==
  LET event == active[r].event IN
  /\ active[r].phase = "append"
  /\ events' = [events EXCEPT ![r] = Append(@, event)]
  /\ nextSequence' = [nextSequence EXCEPT ![r] = @ + 1]
  /\ status' = [status EXCEPT ![r] =
                  IF event.type \in TerminalTypes THEN StatusAfter[event.type] ELSE @]
  /\ IF event.type = "checkpoint.created"
       THEN active' = [active EXCEPT ![r].phase = "checkpointFile"] /\ UNCHANGED opQueue
       ELSE /\ active' = [active EXCEPT ![r] = Idle]
            /\ opQueue' = [opQueue EXCEPT ![r] = IF Starting(r) THEN @ ELSE Tail(@)]
  /\ UNCHANGED completeness

(* Fault: a failed append uses its sequence up, so that the next operation *)
(* gets past the line that is there.                                       *)
AbortEventBurningSequence(r) ==
  /\ active[r].phase = "append"
  /\ active' = [active EXCEPT ![r] = Idle]
  /\ nextSequence' = [nextSequence EXCEPT ![r] = @ + 1]
  /\ IF Starting(r)
       THEN status' = [status EXCEPT ![r] = "deleted"] /\ UNCHANGED opQueue
       ELSE opQueue' = [opQueue EXCEPT ![r] = Tail(@)] /\ UNCHANGED status
  /\ UNCHANGED <<events, completeness>>

(* Fault: afterCheckpoint runs although the checkpoint event failed.       *)
AbortEventIntoCheckpoint(r) ==
  /\ active[r].phase = "append"
  /\ IF active[r].event.type = "checkpoint.created"
       THEN /\ active' = [active EXCEPT ![r].phase = "checkpointFile"]
            /\ UNCHANGED <<status, events, nextSequence, completeness, opQueue>>
       ELSE Abandon(r)

(* The writer rejected: INTERCEPTOR_FAILED_BEFORE_COMMIT.                  *)
AbortEvent(r) == active[r].phase = "append" /\ Abandon(r)

(* afterCheckpoint settles, well or badly: the event is committed already. *)
AfterCheckpoint(r) ==
  /\ active[r].phase = "checkpointFile"
  /\ active' = [active EXCEPT ![r] = Idle]
  /\ opQueue' = [opQueue EXCEPT ![r] = Tail(@)]
  /\ UNCHANGED <<status, events, nextSequence, completeness>>

(* markIncomplete(): synchronous, outside the queue, while running only.   *)
MarkIncomplete(r) ==
  /\ HasHandle(r) /\ status[r] = "running"
  /\ completeness' = [completeness EXCEPT ![r] = "partial"]
  /\ UNCHANGED <<status, events, nextSequence, opQueue, active>>

(* getManifest(): a running run is never complete evidence.                *)
ManifestOf(r) ==
  [run |-> r, status |-> status[r], count |-> Len(events[r]),
   completeness |-> IF status[r] = "running" THEN "partial" ELSE completeness[r]]
=============================================================================
