----------------------- MODULE InstrumentedRunProofs -----------------------
(***************************************************************************)
(* Theorems about InstrumentedRun, for any sets of calls, streams and      *)
(* checkpoints, any of the Roots and any bounds.                           *)
(***************************************************************************)
EXTENDS InstrumentedRun, TLAPS

-----------------------------------------------------------------------------
(* The promise queue.                                                      *)

(* An operation of x waits in q; nobody has two.                           *)
Waits(q, x) == \E i \in 1..Len(q) : q[i].by = x
Distinct(q) == \A i, j \in 1..Len(q) : q[i].by = q[j].by => i = j

(* Whoever joins a queue it was not in is the only newcomer.               *)
LEMMA JoinsQueue ==
  ASSUME NEW q \in Seq(Entries), NEW e \in Entries, Distinct(q), ~Waits(q, e.by)
  PROVE  /\ Append(q, e) \in Seq(Entries) /\ Distinct(Append(q, e))
         /\ \A x : Waits(Append(q, e), x) <=> Waits(q, x) \/ x = e.by
<1> DEFINE r == Append(q, e)
<1>1. /\ r \in Seq(Entries) /\ Len(r) = Len(q) + 1 /\ r[Len(q) + 1] = e
      /\ \A i \in 1..Len(q) : r[i] = q[i]
  OBVIOUS
<1>2. \A i \in 1..Len(r) : i \in 1..Len(q) \/ i = Len(q) + 1
  BY <1>1
<1> HIDE DEF r
<1>3. Distinct(r)
  BY <1>1, <1>2 DEF Distinct, Waits
<1>4. ASSUME NEW x PROVE Waits(r, x) <=> Waits(q, x) \/ x = e.by
  <2>1. 1..Len(q) \subseteq 1..Len(r) /\ Len(q) + 1 \in 1..Len(r)
    BY <1>1
  <2> QED BY <1>1, <1>2, <2>1 DEF Waits
<1> QED BY <1>1, <1>3, <1>4 DEF r

(* The head leaves the queue and was the only operation of its owner.      *)
LEMMA LeavesQueue ==
  ASSUME NEW q \in Seq(Entries), q # <<>>, Distinct(q)
  PROVE  /\ Head(q) \in Entries /\ Tail(q) \in Seq(Entries) /\ Distinct(Tail(q))
         /\ \A x : Waits(Tail(q), x) <=> Waits(q, x) /\ x # Head(q).by
         /\ Waits(q, Head(q).by)
<1> DEFINE r == Tail(q)
<1>1. /\ r \in Seq(Entries) /\ Len(r) = Len(q) - 1 /\ Len(q) \in Nat \ {0}
      /\ \A i \in 1..Len(r) : r[i] = q[i + 1]
      /\ Head(q) = q[1] /\ q[1] \in Entries
  OBVIOUS
<1>2. \A i \in 1..Len(r) : i + 1 \in 1..Len(q)
  BY <1>1
<1>3. \A i \in 1..Len(q) : i = 1 \/ (i - 1 \in 1..Len(r) /\ (i - 1) + 1 = i)
  BY <1>1
<1>4. 1 \in 1..Len(q)
  BY <1>1
<1> HIDE DEF r
<1>5. Distinct(r)
  <2> SUFFICES ASSUME NEW i \in 1..Len(r), NEW j \in 1..Len(r), r[i].by = r[j].by
               PROVE  i = j
    BY DEF Distinct
  <2>1. i + 1 = j + 1
    BY <1>1, <1>2 DEF Distinct
  <2> QED BY <1>1, <2>1
<1>6. ASSUME NEW x PROVE Waits(r, x) <=> Waits(q, x) /\ x # Head(q).by
  <2>1. ASSUME NEW i \in 1..Len(r), r[i].by = x
        PROVE  Waits(q, x) /\ x # q[1].by
    <3>1. q[i + 1].by = x /\ i + 1 \in 1..Len(q) /\ i + 1 # 1
      BY <1>1, <1>2, <2>1
    <3> QED BY <1>4, <3>1 DEF Waits, Distinct
  <2>2. ASSUME NEW i \in 1..Len(q), q[i].by = x, x # q[1].by
        PROVE  Waits(r, x)
    <3>1. i - 1 \in 1..Len(r) /\ (i - 1) + 1 = i
      BY <1>3, <2>2
    <3>2. r[i - 1].by = x
      BY <1>1, <2>2, <3>1
    <3> QED BY <3>1, <3>2 DEF Waits
  <2> QED BY <1>1, <2>1, <2>2 DEF Waits
<1>7. Waits(q, Head(q).by)
  BY <1>1, <1>4 DEF Waits
<1> QED BY <1>1, <1>5, <1>6, <1>7 DEF r

-----------------------------------------------------------------------------
(* Type correctness.                                                       *)

(* What w may record.                                                      *)
Recordable(w) ==
  IF w \in Checkpoints THEN {"checkpoint"} ELSE {"requested", "completed", "failed"}

(* Only wrapped calls and SDK calls run, only checkpoints save.            *)
Sound(w, p) ==
  /\ p \in Progress
  /\ p.event \in Recordable(w) \cup {"none"}
  /\ p.step \in {"redacting", "queued", "saving"} => p.event # "none"
  /\ p.step = "saving" => w \in Checkpoints
  /\ p.step = "running" => w \notin Checkpoints
InQueue(p) == p.step \in {"queued", "saving"}
Active(p) == p.step \notin {"idle", "settled"}

WorkSound == \A w \in Work : Sound(w, work[w])
QueueInv ==
  /\ Distinct(queue)
  /\ \A w \in Work : Waits(queue, w) => InQueue(work[w])
  /\ Waits(queue, Agent) => rootStep = "ending"

(* The event a checkpoint is saving is the last of the log: its operation  *)
(* is still the head of the queue.                                         *)
SavingInv ==
  \A w \in Work : work[w].step = "saving" =>
    HeadIs(w) /\ Len(log) > 0 /\ log[Len(log)] = Entry("checkpoint", w)
SequenceInv == checkpointSequence # 0 => log[checkpointSequence].type = "checkpoint"

(* Nothing happens before the run starts.                                  *)
NotStarted == {"uncalled", "starting"}
USE DEF NotStarted, controllerVars
StartInv ==
  rootStep \in NotStarted =>
    /\ \A w \in Work : work[w].step = "idle"
    /\ queue = <<>> /\ status = "none" /\ checkpointSequence = 0
    /\ ~Recorded /\ joinedStep = "none" /\ undisturbed

TypeInv == TypeOK /\ WorkSound /\ QueueInv /\ SavingInv /\ SequenceInv /\ StartInv

(* What w records is a log entry.                                          *)
LEMMA EntryType ==
  \A w \in Work : \A t \in Recordable(w) :
    Entry(t, w) \in Entries /\ Entry(t, w).by = w /\ Entry(t, w).type = t
BY DEF Work, Recordable, Entry, Entries

(* The entries of a checkpoint and of the agent by their owners.           *)
LEMMA EntryOwner ==
  \A e \in Entries :
    /\ e = Entry(e.type, e.by) /\ e.by \in Work \cup {Agent}
    /\ e.type = "checkpoint" <=> e.by \in Checkpoints
    /\ e.type \in {"run.started", "run.completed", "run.failed", "run.observed"}
         <=> e.by = Agent
BY WorkAssumption DEF Work, Entry, Entries

(* The records of what a call is doing.                                    *)
LEMMA ProgressType ==
  /\ \A w \in Work : Sound(w, At("idle")) /\ Sound(w, At("settled"))
  /\ \A w \in Work \ Checkpoints : Sound(w, At("running"))
  /\ ~Active(At("settled")) /\ ~InQueue(At("settled")) /\ ~InQueue(At("running"))
  /\ At("settled").step = "settled" /\ At("running").step = "running"
BY DEF At, Progress, Sound, InQueue, Active

(* What a call records is the same while it waits and saves.               *)
LEMMA StepChanges ==
  ASSUME NEW w \in Work, NEW p, Sound(w, p), p.event \in Recordable(w),
         NEW s \in {"queued", "saving"}, s = "saving" => w \in Checkpoints
  PROVE  /\ Sound(w, [p EXCEPT !.step = s])
         /\ [p EXCEPT !.step = s].step = s /\ [p EXCEPT !.step = s].event = p.event
<1>1. p \in Progress
  BY DEF Sound
<1>2. /\ [p EXCEPT !.step = s].step = s /\ [p EXCEPT !.step = s].event = p.event
      /\ [p EXCEPT !.step = s] \in Progress
  BY <1>1 DEF Progress
<1>3. p.event # "none"
  BY DEF Recordable
<1> QED BY <1>2, <1>3 DEF Sound

(* What w records next.                                                    *)
LEMMA RecordingType ==
  ASSUME NEW w \in Work, NEW t \in Recordable(w)
  PROVE  /\ Sound(w, Recording(w, t)) /\ Recording(w, t).event = t
         /\ Recording(w, t).step = IF Redacts(w) THEN "redacting" ELSE "queued"
BY DEF Recordable, Recording, Sound, Progress

(* The effect of a step of w on its record p, on the queue and the log.    *)
QueueChange(w, p) ==
  \/ /\ queue' = queue
     /\ \/ p.step = "saving" /\ p.event = work[w].event
        \/ ~InQueue(work[w])
  \/ /\ ~InQueue(work[w]) /\ p.step = "queued" /\ p.event \in Recordable(w)
     /\ queue' = Append(queue, Entry(p.event, w))
  \/ HeadIs(w) /\ ~InQueue(p) /\ queue' = Tail(queue)
  \/ /\ HeadIs(w) /\ p.step = "queued" /\ p.event \in Recordable(w)
     /\ queue' = Append(Tail(queue), Entry(p.event, w))
LogChange(w, p) ==
  \/ log' = log /\ p.step # "saving"
  \/ /\ HeadIs(w) /\ work[w].step = "queued" /\ status = "running"
     /\ log' = Append(log, Head(queue))
SequenceChange(w) ==
  \/ checkpointSequence' = checkpointSequence
  \/ work[w].step = "saving" /\ log' = log /\ checkpointSequence' = Len(log)
WorkEffect(w, p) ==
  /\ Sound(w, p) /\ p.step # "idle" /\ work' = [work EXCEPT ![w] = p]
  /\ QueueChange(w, p) /\ LogChange(w, p) /\ SequenceChange(w)
  /\ refused' \subseteq Work

(* Starting to record something.                                           *)
LEMMA RecordEffect ==
  ASSUME NEW w \in Work, ~InQueue(work[w]), NEW t \in Recordable(w), Record(w, t)
  PROVE  \E p : /\ Sound(w, p) /\ work' = [work EXCEPT ![w] = p]
                /\ QueueChange(w, p) /\ p.step \notin {"idle", "saving"}
<1> DEFINE p == Recording(w, t)
<1>1. Sound(w, p) /\ p.event = t /\ p.step = IF Redacts(w) THEN "redacting" ELSE "queued"
  BY RecordingType
<1>2. work' = [work EXCEPT ![w] = p]
  BY DEF Record
<1>3. queue' = IF Redacts(w) THEN queue ELSE Append(queue, Entry(t, w))
  BY DEF Record, Chained
<1> HIDE DEF p
<1>4. QueueChange(w, p)
  BY <1>1, <1>3 DEF QueueChange
<1> QED BY <1>1, <1>2, <1>4

(* Giving up recording something, or recording it as a failure.            *)
LEMMA CannotRecordEffect ==
  ASSUME NEW w \in Work, WorkSound, refused \subseteq Work, NEW q, CannotRecord(w, q),
         \/ q = queue /\ ~InQueue(work[w])
         \/ q = Tail(queue) /\ HeadIs(w)
  PROVE  /\ \E p : /\ Sound(w, p) /\ work' = [work EXCEPT ![w] = p]
                   /\ QueueChange(w, p) /\ p.step \notin {"idle", "saving"}
         /\ refused' \subseteq Work
<1>1. CASE RecordsFailure(w)
  <2> DEFINE p == Recording(w, "failed")
  <2>1. "failed" \in Recordable(w)
    BY <1>1 DEF RecordsFailure, WorkSound, Sound, Recordable
  <2>2. Sound(w, p) /\ p.event = "failed" /\ p.step = IF Redacts(w) THEN "redacting" ELSE "queued"
    BY <2>1, RecordingType
  <2>3. work' = [work EXCEPT ![w] = p]
    BY <1>1 DEF CannotRecord
  <2>4. queue' = IF Redacts(w) THEN q ELSE Append(q, Entry("failed", w))
    BY <1>1 DEF CannotRecord, Chained
  <2>5. refused' \subseteq Work
    BY DEF CannotRecord
  <2> HIDE DEF p
  <2>6. QueueChange(w, p)
    BY <2>1, <2>2, <2>4 DEF QueueChange, InQueue
  <2> QED BY <2>2, <2>3, <2>5, <2>6
<1>2. CASE ~RecordsFailure(w)
  <2>1. work' = [work EXCEPT ![w] = At("settled")] /\ queue' = q
    BY <1>2 DEF CannotRecord, Settle
  <2>2. refused' \subseteq Work
    BY DEF CannotRecord
  <2>3. QueueChange(w, At("settled"))
    BY <2>1, ProgressType DEF QueueChange
  <2> QED BY <2>1, <2>2, <2>3, ProgressType
<1> QED BY <1>1, <1>2

(* Every step of a call's work, and how far the call was before it.        *)
WorkStep(w) == WorkStarts(w) \/ WorkAdvances(w) \/ WorkEnds(w)

(* A call starts.                                                          *)
LEMMA StartEffect ==
  ASSUME TypeInv, NEW w \in Work, WorkStarts(w)
  PROVE  work[w].step = "idle" /\ \E p : WorkEffect(w, p)
<1>1. work[w].step = "idle" /\ ~InQueue(work[w])
  BY DEF WorkStarts, StartCall, StartSdkCall, StartCheckpoint, InQueue
<1>2. UNCHANGED <<log, checkpointSequence, refused>>
  BY DEF WorkStarts, StartCall, StartSdkCall, StartCheckpoint
<1>3. refused' \subseteq Work
  BY <1>2 DEF TypeInv, TypeOK, WorkTypeOK
<1>4. CASE Settle(w) /\ UNCHANGED queue
  <2>1. work' = [work EXCEPT ![w] = At("settled")]
    BY <1>4 DEF Settle
  <2>2. WorkEffect(w, At("settled"))
    BY <1>1, <1>2, <1>3, <1>4, <2>1, ProgressType
       DEF WorkEffect, QueueChange, LogChange, SequenceChange
  <2> QED BY <1>1, <2>2
<1>5. CASE \E t \in Recordable(w) : Record(w, t)
  <2>1. PICK p : /\ Sound(w, p) /\ work' = [work EXCEPT ![w] = p]
                 /\ QueueChange(w, p) /\ p.step \notin {"idle", "saving"}
    BY <1>1, <1>5, RecordEffect
  <2>2. WorkEffect(w, p)
    BY <1>2, <1>3, <2>1 DEF WorkEffect, LogChange, SequenceChange
  <2> QED BY <1>1, <2>2
<1>6. (Settle(w) /\ UNCHANGED queue) \/ \E t \in Recordable(w) : Record(w, t)
  <2>1. w \in Checkpoints => "checkpoint" \in Recordable(w)
    BY DEF Recordable
  <2>2. w \notin Checkpoints => "requested" \in Recordable(w)
    BY DEF Recordable
  <2>3. w \in Calls \cup SdkCalls => w \notin Checkpoints
    BY WorkAssumption
  <2> QED
    BY <2>1, <2>2, <2>3 DEF WorkStarts, StartCall, StartSdkCall, StartCheckpoint
<1> QED BY <1>4, <1>5, <1>6

(* What a call runs comes to its end.                                      *)
LEMMA EndEffect ==
  ASSUME TypeInv, NEW w \in Work, WorkEnds(w)
  PROVE  Active(work[w]) /\ \E p : WorkEffect(w, p)
<1>1. work[w].step = "running" /\ ~InQueue(work[w]) /\ Active(work[w])
  BY DEF WorkEnds, CallEnds, StreamEndsEarly, InQueue, Active
<1>2. UNCHANGED <<log, checkpointSequence, refused>>
  BY DEF WorkEnds, CallEnds, StreamEndsEarly
<1>3. refused' \subseteq Work
  BY <1>2 DEF TypeInv, TypeOK, WorkTypeOK
<1>4. {"completed", "failed"} \subseteq Recordable(w)
  BY <1>1 DEF TypeInv, WorkSound, Sound, Recordable
<1>5. CASE Settle(w) /\ UNCHANGED queue
  <2>1. work' = [work EXCEPT ![w] = At("settled")]
    BY <1>5 DEF Settle
  <2>2. WorkEffect(w, At("settled"))
    BY <1>1, <1>2, <1>3, <1>5, <2>1, ProgressType
       DEF WorkEffect, QueueChange, LogChange, SequenceChange
  <2> QED BY <1>1, <2>2
<1>6. CASE \E t \in Recordable(w) : Record(w, t)
  <2>1. PICK p : /\ Sound(w, p) /\ work' = [work EXCEPT ![w] = p]
                 /\ QueueChange(w, p) /\ p.step \notin {"idle", "saving"}
    BY <1>1, <1>6, RecordEffect
  <2>2. WorkEffect(w, p)
    BY <1>2, <1>3, <2>1 DEF WorkEffect, LogChange, SequenceChange
  <2> QED BY <1>1, <2>2
<1> QED BY <1>4, <1>5, <1>6 DEF WorkEnds, CallEnds, StreamEndsEarly

(* The library goes on with what a call records.                           *)
LEMMA AdvanceEffect ==
  ASSUME TypeInv, NEW w \in Work, WorkAdvances(w)
  PROVE  Active(work[w]) /\ \E p : WorkEffect(w, p)
<1> USE DEF TypeInv, TypeOK, WorkTypeOK
<1>1. CASE RedactionEnds(w)
  <2>1. ~InQueue(work[w]) /\ Active(work[w]) /\ UNCHANGED <<log, checkpointSequence>>
    BY <1>1 DEF RedactionEnds, InQueue, Active
  <2>2. CASE /\ work' = [work EXCEPT ![w].step = "queued"]
             /\ queue' = Append(queue, Entry(work[w].event, w))
             /\ UNCHANGED refused
    <3> DEFINE p == [work[w] EXCEPT !.step = "queued"]
    <3>1. work[w].event \in Recordable(w) /\ Sound(w, work[w])
      BY <1>1 DEF RedactionEnds, WorkSound, Sound
    <3>2. Sound(w, p) /\ p.step = "queued" /\ p.event = work[w].event
      BY <3>1, StepChanges
    <3>3. work' = [work EXCEPT ![w] = p]
      BY <2>2
    <3> HIDE DEF p
    <3>4. QueueChange(w, p)
      BY <2>1, <2>2, <3>1, <3>2 DEF QueueChange
    <3>5. WorkEffect(w, p)
      BY <2>1, <2>2, <3>2, <3>3, <3>4 DEF WorkEffect, LogChange, SequenceChange
    <3> QED BY <2>1, <3>5
  <2>3. CASE CannotRecord(w, queue)
    <3>1. PICK p : /\ Sound(w, p) /\ work' = [work EXCEPT ![w] = p]
                   /\ QueueChange(w, p) /\ p.step \notin {"idle", "saving"} /\ refused' \subseteq Work
      BY <2>1, <2>3, CannotRecordEffect
    <3>2. WorkEffect(w, p)
      BY <2>1, <3>1 DEF WorkEffect, LogChange, SequenceChange
    <3> QED BY <2>1, <3>2
  <2> QED BY <1>1, <2>2, <2>3 DEF RedactionEnds
<1>2. CASE EventRefused(w)
  <2>1. Active(work[w]) /\ UNCHANGED <<log, checkpointSequence>>
    BY <1>2 DEF EventRefused, Active
  <2>2. PICK p : /\ Sound(w, p) /\ work' = [work EXCEPT ![w] = p]
                 /\ QueueChange(w, p) /\ p.step \notin {"idle", "saving"} /\ refused' \subseteq Work
    BY <1>2, CannotRecordEffect DEF EventRefused
  <2>3. WorkEffect(w, p)
    BY <2>1, <2>2 DEF WorkEffect, LogChange, SequenceChange
  <2> QED BY <2>1, <2>3
<1>3. CASE EventCommits(w)
  <2>1. InQueue(work[w]) /\ w \notin Checkpoints /\ HeadIs(w)
    BY <1>3, LeavesQueue DEF EventCommits, HeadIs, QueueInv
  <2>2. work[w].step = "queued" /\ Active(work[w])
    BY <2>1 DEF InQueue, WorkSound, Sound, Active
  <2>3. PICK s \in {"running", "settled"} : work' = [work EXCEPT ![w] = At(s)]
    BY <1>3 DEF EventCommits
  <2>4. Sound(w, At(s)) /\ ~InQueue(At(s)) /\ At(s).step = s
    BY <2>1, ProgressType
  <2>5. WorkEffect(w, At(s))
    BY <1>3, <2>1, <2>2, <2>3, <2>4
       DEF EventCommits, WorkEffect, QueueChange, LogChange, SequenceChange
  <2> QED BY <2>2, <2>5
<1>4. CASE CheckpointCommits(w)
  <2> DEFINE p == [work[w] EXCEPT !.step = "saving"]
  <2>1. work[w].event \in Recordable(w) /\ Sound(w, work[w]) /\ Active(work[w])
    BY <1>4 DEF CheckpointCommits, WorkSound, Sound, Active
  <2>2. Sound(w, p) /\ p.step = "saving" /\ p.event = work[w].event
    BY <1>4, <2>1, StepChanges DEF CheckpointCommits
  <2>3. work' = [work EXCEPT ![w] = p]
    BY <1>4 DEF CheckpointCommits
  <2> HIDE DEF p
  <2>4. WorkEffect(w, p)
    BY <1>4, <2>2, <2>3
       DEF CheckpointCommits, WorkEffect, QueueChange, LogChange, SequenceChange
  <2> QED BY <2>1, <2>4
<1>5. CASE CheckpointEnds(w)
  <2>1. work' = [work EXCEPT ![w] = At("settled")] /\ Active(work[w])
    BY <1>5 DEF CheckpointEnds, Settle, Active
  <2>2. WorkEffect(w, At("settled"))
    BY <1>5, <2>1, ProgressType
       DEF CheckpointEnds, WorkEffect, QueueChange, LogChange, SequenceChange, LastSequence
  <2> QED BY <2>1, <2>2
<1> QED BY <1>1, <1>2, <1>3, <1>4, <1>5 DEF WorkAdvances, WorkProceeds

(* What the steps of the work leave alone.                                 *)
LEMMA WorkFrame ==
  ASSUME TypeInv, NEW w \in Work, WorkStep(w)
  PROVE  /\ UNCHANGED <<root, status, writerOpen, acceptingCalls, rootVars, joinedVars, storeVars>>
         /\ \/ UNCHANGED <<completeness, limitations>>
            \/ /\ status = "running" /\ completeness' = "partial"
               /\ limitations' = limitations \cup {"stream_ended_early"}
         /\ \/ WorkStarts(w) /\ undisturbed' = (undisturbed /\ rootStep = "callback")
            \/ Active(work[w]) /\ undisturbed' = undisturbed
         /\ inTime' \subseteq inTime \cup {w}
<1>1. CASE WorkStarts(w)
  BY <1>1 DEF WorkStarts, StartCall, StartSdkCall, StartCheckpoint, Started
<1>2. CASE WorkAdvances(w)
  <2>1. Active(work[w])
    BY <1>2, AdvanceEffect
  <2> QED BY <1>2, <2>1 DEF WorkAdvances, WorkProceeds, RedactionEnds, EventCommits,
       EventRefused, CheckpointCommits, CheckpointEnds, runVars, historyVars
<1>3. CASE WorkEnds(w)
  <2>1. Active(work[w])
    BY <1>3, EndEffect
  <2> QED BY <1>3, <2>1 DEF WorkEnds, CallEnds, StreamEndsEarly, runVars, historyVars
<1> QED BY <1>1, <1>2, <1>3 DEF WorkStep

(* Nobody's work does anything before the run starts.                      *)
LEMMA WorkFollowsStart ==
  ASSUME TypeInv, NEW w \in Work, WorkStep(w)
  PROVE  rootStep \notin NotStarted
<1>1. WorkStarts(w) => Recorded \/ joinedStep # "none"
  BY DEF WorkStarts, HasContext
<1> QED
  BY <1>1, WorkFrame DEF TypeInv, StartInv, Active

(* The queue keeps its discipline.                                         *)
LEMMA QueueKept ==
  ASSUME TypeInv, NEW w \in Work, NEW p, WorkEffect(w, p), UNCHANGED rootStep
  PROVE  queue' \in Seq(Entries) /\ QueueInv'
<1>1. work'[w] = p /\ \A v \in Work \ {w} : work'[v] = work[v]
  BY DEF WorkEffect, TypeInv, TypeOK, WorkTypeOK
<1>2. Agent # w
  BY WorkAssumption
<1>3. queue \in Seq(Entries) /\ QueueInv /\ (~InQueue(work[w]) => ~Waits(queue, w))
  BY DEF TypeInv, TypeOK, WorkTypeOK, QueueInv
<1>4. CASE queue' = queue /\ (p.step = "saving" \/ ~InQueue(work[w]))
  <2>1. p.step = "saving" => InQueue(p)
    BY DEF InQueue
  <2> QED BY <1>1, <1>3, <1>4, <2>1 DEF QueueInv
<1>5. ASSUME ~InQueue(work[w]), p.step = "queued", NEW t \in Recordable(w),
             queue' = Append(queue, Entry(t, w))
      PROVE  queue' \in Seq(Entries) /\ QueueInv'
  <2>1. Entry(t, w) \in Entries /\ Entry(t, w).by = w
    BY EntryType
  <2>2. /\ queue' \in Seq(Entries) /\ Distinct(queue')
        /\ \A x : Waits(queue', x) <=> Waits(queue, x) \/ x = w
    BY <1>3, <1>5, <2>1, JoinsQueue DEF QueueInv
  <2>3. InQueue(p)
    BY <1>5 DEF InQueue
  <2> QED BY <1>1, <1>2, <1>3, <2>2, <2>3 DEF QueueInv
<1>6. HeadIs(w) =>
        /\ Tail(queue) \in Seq(Entries) /\ Distinct(Tail(queue))
        /\ \A x : Waits(Tail(queue), x) <=> Waits(queue, x) /\ x # w
  BY <1>3, LeavesQueue DEF HeadIs, QueueInv
<1>7. CASE HeadIs(w) /\ ~InQueue(p) /\ queue' = Tail(queue)
  BY <1>1, <1>3, <1>6, <1>7 DEF QueueInv
<1>8. ASSUME HeadIs(w), p.step = "queued", NEW t \in Recordable(w),
             queue' = Append(Tail(queue), Entry(t, w))
      PROVE  queue' \in Seq(Entries) /\ QueueInv'
  <2>1. Entry(t, w) \in Entries /\ Entry(t, w).by = w
    BY EntryType
  <2>2. /\ queue' \in Seq(Entries) /\ Distinct(queue')
        /\ \A x : Waits(queue', x) <=> Waits(Tail(queue), x) \/ x = w
    BY <1>6, <1>8, <2>1, JoinsQueue
  <2>3. InQueue(p)
    BY <1>8 DEF InQueue
  <2> QED BY <1>1, <1>2, <1>3, <1>6, <1>8, <2>2, <2>3 DEF QueueInv
<1> QED BY <1>4, <1>5, <1>7, <1>8 DEF WorkEffect, QueueChange

(* What a step of a call's work adds to the log.                           *)
LEMMA LogKept ==
  ASSUME TypeInv, NEW w \in Work, NEW p, WorkEffect(w, p)
  PROVE  /\ log' \in Seq(Entries) /\ SequenceInv'
         /\ checkpointSequence' \in 0..Len(log')
<1>1. log \in Seq(Entries) /\ checkpointSequence \in 0..Len(log) /\ SequenceInv
  BY DEF TypeInv, TypeOK, WorkTypeOK
<1>2. /\ log' \in Seq(Entries) /\ Len(log') >= Len(log)
      /\ \A i \in 1..Len(log) : log'[i] = log[i]
  <2>1. CASE log' = log
    BY <1>1, <2>1
  <2>2. CASE HeadIs(w) /\ log' = Append(log, Head(queue))
    <3>1. queue # <<>> /\ queue \in Seq(Entries) /\ Distinct(queue)
      BY <2>2 DEF HeadIs, TypeInv, TypeOK, WorkTypeOK, QueueInv
    <3>2. Head(queue) \in Entries
      BY <3>1, LeavesQueue
    <3> QED BY <1>1, <2>2, <3>2
  <2> QED BY <2>1, <2>2 DEF WorkEffect, LogChange
<1>3. CASE checkpointSequence' = checkpointSequence
  <2>1. checkpointSequence' \in 0..Len(log')
    BY <1>1, <1>2, <1>3
  <2>2. checkpointSequence # 0 => checkpointSequence \in 1..Len(log)
    BY <1>1
  <2>3. SequenceInv'
    BY <1>1, <1>2, <1>3, <2>2 DEF SequenceInv
  <2> QED BY <1>2, <2>1, <2>3
<1>4. CASE work[w].step = "saving" /\ log' = log /\ checkpointSequence' = Len(log)
  <2>1. log[Len(log)] = Entry("checkpoint", w)
    BY <1>4 DEF TypeInv, SavingInv
  <2>2. log[Len(log)].type = "checkpoint"
    BY <2>1 DEF Entry
  <2> QED BY <1>1, <1>4, <2>2 DEF SequenceInv
<1> QED BY <1>3, <1>4 DEF WorkEffect, SequenceChange

(* While one operation runs, no other call is saving; the one that starts  *)
(* saving has just added its event.                                        *)
LEMMA SavingKept ==
  ASSUME TypeInv, NEW w \in Work, NEW p, WorkEffect(w, p)
  PROVE  SavingInv'
<1>1. work'[w] = p /\ \A v \in Work \ {w} : work'[v] = work[v]
  BY DEF WorkEffect, TypeInv, TypeOK, WorkTypeOK
<1>2. log \in Seq(Entries) /\ queue \in Seq(Entries)
  BY DEF TypeInv, TypeOK, WorkTypeOK
<1>3. ASSUME NEW v \in Work, work'[v].step = "saving", v # w
      PROVE  HeadIs(v)' /\ Len(log') > 0 /\ log'[Len(log')] = Entry("checkpoint", v)
  <2>1. HeadIs(v) /\ Len(log) > 0 /\ log[Len(log)] = Entry("checkpoint", v)
    BY <1>1, <1>3 DEF TypeInv, SavingInv
  <2>2. ~HeadIs(w)
    BY <1>3, <2>1 DEF HeadIs
  <2>3. log' = log
    BY <2>2 DEF WorkEffect, LogChange
  <2>4. queue' = queue \/ \E t \in Recordable(w) : queue' = Append(queue, Entry(t, w))
    BY <2>2 DEF WorkEffect, QueueChange
  <2>5. HeadIs(v)'
    <3>1. CASE queue' = queue
      BY <2>1, <3>1 DEF HeadIs
    <3>2. CASE \E e \in Entries : queue' = Append(queue, e)
      BY <1>2, <2>1, <3>2 DEF HeadIs
    <3> QED BY <2>4, <3>1, <3>2, EntryType
  <2> QED BY <2>1, <2>3, <2>5
<1>4. ASSUME p.step = "saving"
      PROVE  HeadIs(w)' /\ Len(log') > 0 /\ log'[Len(log')] = Entry("checkpoint", w)
  <2>1. HeadIs(w) /\ log' = Append(log, Head(queue))
    BY <1>4 DEF WorkEffect, LogChange
  <2>2. queue' = queue
    BY <1>4 DEF WorkEffect, QueueChange, InQueue
  <2>3. w \in Checkpoints
    BY <1>4 DEF WorkEffect, Sound
  <2>4. Head(queue) \in Entries /\ Head(queue).by = w
    BY <1>2, <2>1 DEF HeadIs
  <2>5. Head(queue) = Entry("checkpoint", w)
    BY <2>3, <2>4, EntryOwner
  <2>6. Len(log') > 0 /\ log'[Len(log')] = Head(queue)
    BY <1>2, <2>1, <2>4
  <2> QED BY <2>1, <2>2, <2>5, <2>6 DEF HeadIs
<1> QED BY <1>1, <1>3, <1>4 DEF SavingInv

(* A call's work keeps the type invariant.                                 *)
LEMMA WorkKeepsTypes ==
  ASSUME TypeInv, NEW w \in Work, WorkStep(w)
  PROVE  TypeInv'
<1>1. PICK p : WorkEffect(w, p)
  BY StartEffect, AdvanceEffect, EndEffect DEF WorkStep
<1>2. UNCHANGED rootStep
  BY WorkFrame DEF rootVars
<1>3. WorkSound' /\ work' \in [Work -> Progress]
  BY <1>1 DEF WorkEffect, WorkSound, Sound, TypeInv, TypeOK, WorkTypeOK
<1>4. queue' \in Seq(Entries) /\ QueueInv'
  BY <1>1, <1>2, QueueKept
<1>5. /\ log' \in Seq(Entries) /\ SequenceInv' /\ SavingInv'
      /\ checkpointSequence' \in 0..Len(log')
  BY <1>1, LogKept, SavingKept
<1>6. StartInv'
  BY <1>2, WorkFollowsStart DEF StartInv
<1>7. completeness' \in {"complete", "partial"} /\ limitations' \subseteq Limitations
  BY WorkFrame DEF Limitations, TypeInv, TypeOK, WorkTypeOK
<1>8. refused' \subseteq Work
  BY <1>1 DEF WorkEffect
<1>9. WorkTypeOK'
  BY <1>3, <1>4, <1>5, <1>7, <1>8, WorkFrame DEF WorkTypeOK, TypeInv, TypeOK
<1>10. undisturbed' \in BOOLEAN /\ inTime' \subseteq Work \cup {"joinedRun"}
  BY WorkFrame DEF TypeInv, TypeOK
<1>11. TypeOK'
  <2>1. UNCHANGED <<rootVars, joinedVars, storeVars>> /\ TypeOK
    BY WorkFrame DEF TypeInv
  <2> QED BY <1>9, <1>10, <2>1 DEF TypeOK, rootVars, joinedVars, storeVars
<1> QED BY <1>3, <1>4, <1>5, <1>6, <1>11 DEF TypeInv

(* Steps of the controller that are none of this run's.                    *)
Controls ==
  \/ RunForgotten \/ (\E r \in OtherRuns : OtherRun(r))
  \/ Shutdown \/ ShutdownProceeds

(* They leave the run alone, and keep their own types.                     *)
LEMMA ControlsFrame ==
  ASSUME Controls
  PROVE  /\ UNCHANGED <<recordingVars, rootVars, joinedVars, claimed, manifest, exported,
                         historyVars>>
         /\ TypeOK => controllerVars' \in (SUBSET ({Agent} \cup OtherRuns))
                         \X {"none", "awaiting", "exporting", "released"}
                         \X (SUBSET ({Agent} \cup OtherRuns))
BY DEF Controls, RunForgotten, OtherRun, Shutdown, ShutdownProceeds, TypeOK, controllerVars

(* Steps of the run that leave the queue and the log alone.                *)
Quiet ==
  \/ RunCalled \/ RunCannotStart \/ UnrecordedReturns \/ CallbackReturns \/ DrainStep \/ DrainTimesOut
  \/ ManifestCommits \/ CommitFails \/ WriterCloses
  \/ JoinStarts \/ JoinedReturns \/ JoinedDrains \/ JoinedSettles \/ Controls

(* What they leave alone, and where they do not lead.                      *)
LEMMA QuietFrame ==
  ASSUME TypeInv, Quiet
  PROVE  /\ UNCHANGED <<root, status, queue, log, work, checkpointSequence, refused>>
         /\ rootStep' \in NotStarted =>
              rootStep \in NotStarted /\ UNCHANGED <<manifest, joinedStep, undisturbed>>
         /\ \/ rootStep' = rootStep
            \/ rootStep # "ending" /\ rootStep' # "ending"
<1>1. CASE RunCalled \/ RunCannotStart \/ UnrecordedReturns
  BY <1>1 DEF RunCalled, RunCannotStart, UnrecordedReturns, recordingVars, recorderVars,
       workVars, joinedVars, historyVars
<1>2. CASE CallbackReturns
  BY <1>2 DEF CallbackReturns, recordingVars, recorderVars, workVars
<1>3. CASE DrainStep \/ DrainTimesOut
  BY <1>3 DEF DrainStep, DrainTimesOut, WorkPending, recordingVars, recorderVars, workVars
<1>4. CASE ManifestCommits \/ CommitFails \/ WriterCloses
  BY <1>4 DEF ManifestCommits, CommitFails, WriterCloses, recordingVars, recorderVars, workVars
<1>5. CASE JoinStarts
  BY <1>5 DEF JoinStarts, rootVars, TypeInv, StartInv, recordingVars, recorderVars, workVars
<1>6. CASE JoinedReturns \/ JoinedDrains
  BY <1>6 DEF JoinedReturns, JoinedDrains, rootVars, TypeInv, StartInv, recordingVars,
       recorderVars, workVars
<1>7. CASE JoinedSettles
  BY <1>7 DEF JoinedSettles, rootVars, TypeInv, StartInv
<1>8. CASE Controls
  BY <1>8, ControlsFrame DEF rootVars, recordingVars, recorderVars, workVars, joinedVars,
       historyVars
<1> QED BY <1>1, <1>2, <1>3, <1>4, <1>5, <1>6, <1>7, <1>8 DEF Quiet

(* They keep the types of the variables                                    *)
LEMMA QuietTypes ==
  ASSUME TypeOK, Quiet
  PROVE  TypeOK'
<1>1. UNCHANGED recordingVars => WorkTypeOK'
  BY DEF recordingVars, recorderVars, workVars, TypeOK, WorkTypeOK
<1>2. CASE RunCannotStart
  <2>1. /\ WorkTypeOK' /\ UNCHANGED <<rootResult, joinedVars, storeVars, historyVars>>
        /\ rootStep' \in {"unrecorded", "settled"} /\ rootAnswer' \in {rootAnswer, "threw"}
    BY <1>1, <1>2 DEF RunCannotStart
  <2> QED BY <2>1 DEF TypeOK, joinedVars, storeVars, historyVars, Results
<1>3. CASE UnrecordedReturns
  BY <1>1, <1>3 DEF UnrecordedReturns, TypeOK, joinedVars, storeVars, historyVars, Results
<1>4. CASE CallbackReturns
  BY <1>1, <1>4 DEF CallbackReturns, TypeOK, joinedVars, storeVars, Results
<1>5. CASE DrainStep \/ DrainTimesOut
  BY <1>1, <1>5 DEF DrainStep, DrainTimesOut, TypeOK, joinedVars, storeVars, historyVars
<1>6. CASE ManifestCommits
  <2>1. CurrentManifest \in [status : {"none", "running"} \cup TerminalStatus,
               completeness : {"complete", "partial"}, limitations : SUBSET Limitations]
    BY DEF CurrentManifest, TypeOK, WorkTypeOK
  <2> QED BY <1>1, <1>6, <2>1 DEF ManifestCommits, TypeOK, joinedVars, historyVars
<1>7. CASE CommitFails
  BY <1>1, <1>7 DEF CommitFails, AnswerUnrecorded, TypeOK, joinedVars, storeVars,
       historyVars, Results
<1>8. CASE WriterCloses
  <2>1. WorkTypeOK'
    BY <1>8 DEF WriterCloses, workVars, TypeOK, WorkTypeOK
  <2> QED BY <1>8, <2>1 DEF WriterCloses, TypeOK, joinedVars, storeVars, historyVars
<1>9. CASE JoinStarts
  BY <1>1, <1>9 DEF JoinStarts, Started, TypeOK, rootVars, storeVars
<1>10. CASE JoinedReturns
  <2>1. /\ WorkTypeOK' /\ UNCHANGED <<rootVars, joinedAnswer, storeVars, historyVars>>
        /\ joinedStep' = "draining" /\ joinedResult' \in {"ok", "threw"}
    BY <1>1, <1>10 DEF JoinedReturns
  <2> QED BY <2>1 DEF TypeOK, rootVars, storeVars, historyVars, Results
<1>11. CASE JoinedDrains
  BY <1>1, <1>11 DEF JoinedDrains, TypeOK, rootVars, storeVars, historyVars
<1>12. CASE JoinedSettles
  <2>1. WorkTypeOK'
    BY <1>12 DEF JoinedSettles, Limitations, TypeOK, WorkTypeOK
  <2> QED
    BY <1>12, <2>1 DEF JoinedSettles, TypeOK, rootVars, storeVars, historyVars, Results
<1>13. CASE Controls
  <2>1. /\ activeRuns' \subseteq {Agent} \cup OtherRuns
        /\ awaited' \subseteq {Agent} \cup OtherRuns
        /\ shutdownStep' \in {"none", "awaiting", "exporting", "released"}
    BY <1>13, ControlsFrame DEF controllerVars
  <2> QED BY <1>1, <1>13, <2>1, ControlsFrame DEF TypeOK, rootVars, joinedVars, historyVars
<1>14. CASE RunCalled
  BY <1>1, <1>14 DEF RunCalled, TypeOK, joinedVars, historyVars, Results
<1> QED BY <1>2, <1>3, <1>4, <1>5, <1>6, <1>7, <1>8, <1>9, <1>10, <1>11, <1>12, <1>13, <1>14
     DEF Quiet

(* and the invariant behind them.                                          *)
LEMMA QuietKeepsTypes ==
  ASSUME TypeInv, Quiet
  PROVE  TypeInv'
<1>1. TypeOK'
  BY QuietTypes DEF TypeInv
<1>2. WorkSound' /\ SequenceInv' /\ SavingInv'
  BY QuietFrame DEF TypeInv, WorkSound, SequenceInv, SavingInv, HeadIs
<1>3. QueueInv'
  BY QuietFrame DEF TypeInv, QueueInv
<1>4. StartInv'
  <2>1. StartInv
    BY DEF TypeInv
  <2> QED BY <2>1, QuietFrame DEF StartInv, Recorded
<1> QED BY <1>1, <1>2, <1>3, <1>4 DEF TypeInv

(* The run starts with the event of its own.                               *)
LEMMA RunStartsKeepsTypes ==
  ASSUME TypeInv, RunStarts
  PROVE  TypeInv'
<1>1. StartInv /\ rootStep = "starting" /\ rootStep' = "callback"
  BY DEF TypeInv, RunStarts
<1>2. UNCHANGED <<root, queue, work, checkpointSequence, refused>>
  BY DEF RunStarts, workVars
<1>3. log' = <<Entry("run.started", Agent)>> /\ log' \in Seq(Entries)
  BY DEF RunStarts, Entry, Entries
<1>4. WorkTypeOK'
  <2>1. checkpointSequence' \in 0..Len(log')
    BY <1>1, <1>2, <1>3 DEF StartInv
  <2> QED
    BY <1>3, <2>1 DEF RunStarts, workVars, Limitations, TypeInv, TypeOK, WorkTypeOK
<1>5. manifest' \in [status : {"none", "running"} \cup TerminalStatus,
                     completeness : {"complete", "partial"}, limitations : SUBSET Limitations]
  BY <1>4 DEF RunStarts, CurrentManifest, WorkTypeOK
<1>6. TypeOK'
  BY <1>4, <1>5 DEF RunStarts, joinedVars, historyVars, TypeInv, TypeOK
<1>7. WorkSound' /\ SequenceInv' /\ SavingInv' /\ StartInv'
  BY <1>1, <1>2 DEF TypeInv, WorkSound, SequenceInv, SavingInv, StartInv
<1>8. QueueInv'
  BY <1>1, <1>2 DEF StartInv, QueueInv, Distinct, Waits
<1> QED BY <1>6, <1>7, <1>8 DEF TypeInv

(* Finalize appends the only operation of the agent to the queue.          *)
LEMMA FinalizeKeepsTypes ==
  ASSUME TypeInv, Finalize
  PROVE  TypeInv'
<1> DEFINE e == Entry(RunEnd[Ending], Agent)
<1>1. Ending \in TerminalStatus
  BY DEF Ending, TerminalStatus
<1>2. e \in Entries /\ e.by = Agent
  BY <1>1 DEF Entry, Entries, RunEnd, TerminalStatus
<1>3. rootStep # "ending" /\ rootStep' = "ending" /\ queue' = Append(queue, e)
  BY DEF Finalize
<1> HIDE DEF e
<1>4. UNCHANGED <<root, writerOpen, status, log, work, checkpointSequence, refused>>
  BY DEF Finalize
<1>5. queue \in Seq(Entries) /\ Distinct(queue) /\ ~Waits(queue, Agent)
  BY <1>3 DEF TypeInv, TypeOK, WorkTypeOK, QueueInv
<1>6. /\ queue' \in Seq(Entries) /\ Distinct(queue')
      /\ \A x : Waits(queue', x) <=> Waits(queue, x) \/ x = Agent
  BY <1>2, <1>3, <1>5, JoinsQueue
<1>7. QueueInv'
  BY <1>3, <1>4, <1>6, WorkAssumption DEF TypeInv, QueueInv
<1>8. \A w \in Work : HeadIs(w) => HeadIs(w)'
  BY <1>2, <1>3, <1>5 DEF HeadIs
<1>9. WorkSound' /\ SequenceInv' /\ SavingInv' /\ StartInv'
  BY <1>3, <1>4, <1>8 DEF TypeInv, WorkSound, SequenceInv, SavingInv, StartInv
<1>10. limitations' \subseteq Limitations /\ completeness' \in {"complete", "partial"}
  BY DEF Finalize, EndingLimitations, Limitations, TypeInv, TypeOK, WorkTypeOK
<1>11. WorkTypeOK' /\ rootStep' = "ending"
  BY <1>3, <1>4, <1>6, <1>10 DEF Finalize, TypeInv, TypeOK, WorkTypeOK
<1>12. claimed' \in Checkpoints \cup {"none"}
  <2>1. CASE Ending = "completed"
    <3>1. checkpointSequence # 0
      BY <2>1 DEF Ending, canComplete
    <3>2. log \in Seq(Entries) /\ checkpointSequence \in 1..Len(log)
      <4>1. log \in Seq(Entries) /\ checkpointSequence \in 0..Len(log)
        BY DEF TypeInv, TypeOK, WorkTypeOK
      <4> QED BY <3>1, <4>1
    <3>3. log[checkpointSequence] \in Entries /\ log[checkpointSequence].type = "checkpoint"
      BY <3>1, <3>2 DEF TypeInv, SequenceInv
    <3>4. log[checkpointSequence].by \in Checkpoints
      BY <3>3, EntryOwner
    <3> QED BY <2>1, <3>4 DEF Finalize
  <2>2. CASE Ending # "completed"
    BY <2>2 DEF Finalize, TypeInv, TypeOK
  <2> QED BY <2>1, <2>2
<1>13. TypeOK'
  BY <1>11, <1>12 DEF Finalize, joinedVars, historyVars, TypeInv, TypeOK
<1> QED BY <1>7, <1>9, <1>13 DEF TypeInv

(* The operation of the agent leaves the queue: nobody is saving.          *)
LEMMA EndKeepsTypes ==
  ASSUME TypeInv, RunEnds \/ EndRefused
  PROVE  TypeInv'
<1>1. /\ HeadIs(Agent) /\ queue' = Tail(queue)
      /\ rootStep = "ending" /\ rootStep' \in {"committing", "closing"}
      /\ log' = Append(log, Head(queue)) \/ log' = log
      /\ UNCHANGED <<root, writerOpen, completeness, limitations, workVars>>
  BY DEF RunEnds, EndRefused
<1>2. queue \in Seq(Entries) /\ queue # <<>> /\ Distinct(queue) /\ log \in Seq(Entries)
  BY <1>1 DEF HeadIs, TypeInv, TypeOK, WorkTypeOK, QueueInv
<1>3. /\ Head(queue) \in Entries /\ queue' \in Seq(Entries) /\ Distinct(queue')
      /\ \A x : Waits(queue', x) <=> Waits(queue, x) /\ x # Agent
  BY <1>1, <1>2, LeavesQueue DEF HeadIs
<1>4. QueueInv'
  BY <1>1, <1>3 DEF TypeInv, QueueInv, workVars
<1>5. /\ log' \in Seq(Entries) /\ Len(log') >= Len(log)
      /\ \A i \in 1..Len(log) : log'[i] = log[i]
  <2>1. CASE log' = Append(log, Head(queue))
    BY <1>2, <1>3, <2>1
  <2>2. CASE log' = log
    BY <1>2, <2>2
  <2> QED BY <1>1, <2>1, <2>2
<1>6. checkpointSequence \in 0..Len(log) /\ checkpointSequence' = checkpointSequence
  BY <1>1 DEF workVars, TypeInv, TypeOK, WorkTypeOK
<1>7. SequenceInv'
  <2>1. checkpointSequence # 0 => checkpointSequence \in 1..Len(log)
    BY <1>2, <1>6
  <2> QED BY <1>5, <1>6, <2>1 DEF TypeInv, SequenceInv
<1>8. SavingInv'
  <2>1. \A w \in Work : work[w].step # "saving"
    BY <1>1, WorkAssumption DEF HeadIs, TypeInv, SavingInv
  <2> QED BY <1>1, <2>1 DEF workVars, SavingInv
<1>9. WorkSound' /\ StartInv'
  BY <1>1 DEF TypeInv, WorkSound, StartInv, workVars
<1>10. status' \in {"none", "running"} \cup TerminalStatus
  BY DEF RunEnds, EndRefused, TypeInv, TypeOK, WorkTypeOK
<1>11. WorkTypeOK'
  <2>1. checkpointSequence' \in 0..Len(log')
    BY <1>2, <1>5, <1>6
  <2> QED BY <1>1, <1>3, <1>5, <1>10, <2>1 DEF workVars, TypeInv, TypeOK, WorkTypeOK
<1>12. TypeOK'
  BY <1>11 DEF RunEnds, EndRefused, AnswerUnrecorded, Results, joinedVars, storeVars,
       historyVars, TypeInv, TypeOK
<1> QED BY <1>4, <1>7, <1>8, <1>9, <1>12 DEF TypeInv

(* Any step of the run, by the part of the state it touches.               *)
LEMMA StepKinds ==
  ASSUME [Next]_vars
  PROVE  \/ \E w \in Work : WorkStep(w)
         \/ Quiet \/ RunStarts \/ Finalize \/ RunEnds \/ EndRefused
         \/ UNCHANGED vars
BY DEF Next, WorkStep, Quiet, Controls, RunProceeds, JoinedProceeds

(* The type invariant holds initially                                      *)
LEMMA InitTypes == Init => TypeInv
<1> SUFFICES ASSUME Init PROVE TypeInv
  OBVIOUS
<1>1. TypeOK
  <2>1. work \in [Work -> Progress]
    BY DEF Init, WorkInit, At, Progress
  <2>2. queue \in Seq(Entries) /\ log \in Seq(Entries) /\ checkpointSequence \in 0..Len(log)
    BY DEF Init, WorkInit
  <2>4. WorkTypeOK
    BY <2>1, <2>2 DEF Init, WorkInit, WorkTypeOK
  <2>3. manifest \in [status : {"none", "running"} \cup TerminalStatus,
          completeness : {"complete", "partial"}, limitations : SUBSET Limitations]
    BY DEF Init, NoManifest, Limitations
  <2> QED BY <2>3, <2>4 DEF Init, TypeOK, Results
<1>2. WorkSound /\ SavingInv /\ SequenceInv
  BY ProgressType DEF Init, WorkInit, WorkSound, SavingInv, SequenceInv, At
<1>3. QueueInv /\ StartInv
  BY DEF Init, WorkInit, QueueInv, StartInv, Distinct, Waits, Recorded, At
<1> QED BY <1>1, <1>2, <1>3 DEF TypeInv

(* and after every step.                                                   *)
LEMMA StepTypes == TypeInv /\ [Next]_vars => TypeInv'
<1> SUFFICES ASSUME TypeInv, [Next]_vars PROVE TypeInv'
  OBVIOUS
<1>1. CASE UNCHANGED vars
  <2>1. UNCHANGED <<recordingVars, rootVars, joinedVars, storeVars, historyVars>>
    BY <1>1 DEF vars, runVars
  <2>2. /\ UNCHANGED <<root, status, completeness, limitations, queue, log, writerOpen>>
        /\ UNCHANGED <<work, acceptingCalls, checkpointSequence, refused>>
        /\ UNCHANGED <<rootStep, rootResult, rootAnswer>>
        /\ UNCHANGED <<joinedStep, joinedResult, joinedAnswer>>
        /\ UNCHANGED <<claimed, manifest, exported, activeRuns, shutdownStep, awaited>>
        /\ UNCHANGED <<inTime, undisturbed>>
    BY <2>1 DEF recordingVars, recorderVars, workVars, rootVars, joinedVars, storeVars,
         controllerVars, historyVars
  <2>3. WorkTypeOK'
    BY <2>2 DEF TypeInv, TypeOK, WorkTypeOK
  <2>4. TypeOK'
    <3>1. TypeOK
      BY DEF TypeInv
    <3>2. exported' \in BOOLEAN /\ undisturbed' \in BOOLEAN
      BY <2>2, <3>1 DEF TypeOK
    <3> QED BY <2>2, <2>3, <3>1, <3>2 DEF TypeOK
  <2>5. WorkSound' /\ QueueInv' /\ SequenceInv' /\ StartInv'
    BY <2>2 DEF TypeInv, WorkSound, QueueInv, SequenceInv, StartInv, Recorded
  <2>6. SavingInv'
    BY <2>2 DEF TypeInv, SavingInv, HeadIs
  <2> QED BY <2>4, <2>5, <2>6 DEF TypeInv
<1> QED
  BY <1>1, StepKinds, WorkKeepsTypes, QuietKeepsTypes, RunStartsKeepsTypes,
     FinalizeKeepsTypes, EndKeepsTypes

(* The variables of a recorded run keep their types: every event has an    *)
(* owner that may record it, a claimed final state is a checkpoint, and    *)
(* the checkpoint a run may complete with lies in the log (recorder.ts:227, *)
(* instrument.ts:688).                                                     *)
THEOREM RunTypeCorrect == Spec => []TypeOK
<1>1. TypeInv => TypeOK
  BY DEF TypeInv
<1> QED BY <1>1, InitTypes, StepTypes, PTL DEF Spec
(* The invariant behind it, for the theorems below.                        *)
LEMMA TypesInvariant == Spec => []TypeInv
BY InitTypes, StepTypes, PTL DEF Spec

-----------------------------------------------------------------------------
(* What the steps that leave queue and log alone do to the rest.           *)
LEMMA QuietEffect ==
  ASSUME TypeInv, Quiet
  PROVE  /\ claimed' = claimed
         /\ \/ ManifestCommits
            \/ manifest' = manifest /\ UNCHANGED <<completeness, limitations>>
            \/ JoinedSettles /\ UNCHANGED <<manifest, rootStep>>
         /\ \/ rootStep' = rootStep /\ (undisturbed' => undisturbed)
            \/ CallbackReturns
            \/ /\ rootStep \notin {"callback", "ending", "settled"}
               /\ rootStep' \notin {"callback", "ending", "committing"}
               /\ rootStep \in {"committing", "closing"} => rootStep' \in {"closing", "settled"}
               /\ rootStep' = "drained" => Tracked = {} /\ ~DrainAgain
               /\ undisturbed' = undisturbed
         /\ limitations \subseteq limitations'
<1>1. CASE RunCalled \/ RunCannotStart \/ UnrecordedReturns
  BY <1>1 DEF RunCalled, RunCannotStart, UnrecordedReturns, recordingVars, recorderVars,
       storeVars, historyVars
<1>2. CASE CallbackReturns
  BY <1>2 DEF CallbackReturns, recordingVars, recorderVars, storeVars
<1>3. CASE DrainStep \/ DrainTimesOut
  BY <1>3 DEF DrainStep, DrainTimesOut, WorkPending, recordingVars, recorderVars, storeVars,
       historyVars
<1>4. CASE ManifestCommits \/ CommitFails \/ WriterCloses
  BY <1>4 DEF ManifestCommits, CommitFails, WriterCloses, recordingVars, recorderVars,
       storeVars, historyVars
<1>5. CASE JoinStarts
  BY <1>5 DEF JoinStarts, Started, rootVars, recordingVars, recorderVars, storeVars
<1>6. CASE JoinedReturns \/ JoinedDrains
  BY <1>6 DEF JoinedReturns, JoinedDrains, rootVars, recordingVars, recorderVars, storeVars,
       historyVars
<1>7. CASE JoinedSettles
  BY <1>7 DEF JoinedSettles, rootVars, storeVars, historyVars
<1>8. CASE Controls
  BY <1>8, ControlsFrame DEF rootVars, recordingVars, recorderVars, historyVars
<1> QED BY <1>1, <1>2, <1>3, <1>4, <1>5, <1>6, <1>7, <1>8 DEF Quiet

(* Nothing changes when vars do not.                                       *)
LEMMA Stutter ==
  ASSUME UNCHANGED vars
  PROVE  /\ UNCHANGED <<root, status, completeness, limitations, queue, log, writerOpen>>
         /\ UNCHANGED <<work, acceptingCalls, checkpointSequence, refused>>
         /\ UNCHANGED <<rootStep, rootResult, rootAnswer>>
         /\ UNCHANGED <<claimed, manifest, exported, activeRuns, shutdownStep, awaited>>
         /\ UNCHANGED <<inTime, undisturbed>>
<1>1. UNCHANGED <<recordingVars, rootVars, joinedVars, storeVars, historyVars>>
  BY DEF vars, runVars
<1> QED
  BY <1>1 DEF recordingVars, recorderVars, workVars, rootVars, storeVars, controllerVars,
       historyVars

-----------------------------------------------------------------------------
(* The finished manifest is final: the run has ended before it is written. *)
ManifestInv ==
  /\ Finished =>
       manifest = CurrentManifest /\ status # "running" /\ rootStep \in {"closing", "settled"}
  /\ rootStep = "committing" => status \in TerminalStatus

(* Every step keeps it.                                                    *)
LEMMA StepManifest == TypeInv /\ ManifestInv /\ [Next]_vars => ManifestInv'
<1> SUFFICES ASSUME TypeInv, ManifestInv, [Next]_vars PROVE ManifestInv'
  OBVIOUS
<1> USE DEF ManifestInv, Finished, CurrentManifest
<1>1. ASSUME NEW w \in Work, WorkStep(w) PROVE ManifestInv'
  BY <1>1, WorkFrame DEF rootVars, storeVars
<1>2. CASE Quiet
  <2>1. CASE ManifestCommits
    <3>1. manifest' = CurrentManifest' /\ rootStep' = "closing" /\ status' \in TerminalStatus
      BY <2>1 DEF ManifestCommits, recordingVars, recorderVars
    <3> QED BY <3>1 DEF TerminalStatus
  <2>2. CASE manifest' = manifest /\ UNCHANGED <<completeness, limitations>>
    BY <1>2, <2>2, QuietFrame, QuietEffect DEF CallbackReturns
  <2>3. CASE JoinedSettles /\ UNCHANGED <<manifest, rootStep>>
    <3>1. UNCHANGED status /\ (status # "running" => UNCHANGED <<completeness, limitations>>)
      BY <2>3 DEF JoinedSettles, StillRecorded
    <3> QED BY <2>3, <3>1
  <2> QED BY <1>2, <2>1, <2>2, <2>3, QuietEffect
<1>3. CASE RunStarts
  BY <1>3 DEF RunStarts, TerminalStatus
<1>4. CASE Finalize
  BY <1>4 DEF Finalize
<1>5. CASE RunEnds \/ EndRefused
  BY <1>5 DEF RunEnds, EndRefused, storeVars
<1>6. CASE UNCHANGED vars
  BY <1>6, Stutter
<1> QED BY <1>1, <1>2, <1>3, <1>4, <1>5, <1>6, StepKinds

(* Whatever ends late changes nothing of what a finished manifest says:    *)
(* streams, joined runs and calls find that the run is over                *)
(* (instrument.ts:440, 445).                                               *)
THEOREM FinishedManifestStays == Spec => []FinishedManifestIsFinal
<1>1. Init => ManifestInv
  BY DEF Init, WorkInit, ManifestInv, Finished, NoManifest, TerminalStatus
<1>2. ManifestInv => FinishedManifestIsFinal
  BY DEF ManifestInv, FinishedManifestIsFinal
<1> QED BY <1>1, <1>2, StepManifest, TypesInvariant, PTL DEF Spec

-----------------------------------------------------------------------------
(* The caller of run() gets its answer.                                    *)
Answered == rootAnswer = rootResult \/ (root # "best-effort" /\ rootResult = "ok")
AnswerInv ==
  /\ rootStep \in NotStarted \cup {"unrecorded", "callback"} => rootResult = "none"
  /\ rootStep \in {"closing", "settled"} /\ rootResult # "none" => Answered

(* Every step keeps it.                                                    *)
LEMMA StepAnswer == TypeInv /\ AnswerInv /\ [Next]_vars => AnswerInv'
<1> SUFFICES ASSUME TypeInv, AnswerInv, [Next]_vars PROVE AnswerInv'
  OBVIOUS
<1> USE DEF AnswerInv, Answered
<1>0. rootResult \in Results
  BY DEF TypeInv, TypeOK
<1>1. ASSUME NEW w \in Work, WorkStep(w) PROVE AnswerInv'
  BY <1>1, WorkFrame DEF rootVars
<1>2. ASSUME UNCHANGED <<root, rootResult>>, rootStep' = "closing",
             rootAnswer' \in {rootResult, AnswerUnrecorded}
      PROVE  AnswerInv'
  BY <1>0, <1>2 DEF AnswerUnrecorded, Results
<1>3. CASE Quiet
  <2>1. CASE RunCalled \/ RunCannotStart \/ UnrecordedReturns
    BY <2>1 DEF RunCalled, RunCannotStart, UnrecordedReturns
  <2>2. CASE CallbackReturns \/ DrainStep \/ DrainTimesOut
    BY <2>2 DEF CallbackReturns, DrainStep, DrainTimesOut
  <2>3. CASE ManifestCommits \/ CommitFails
    BY <1>2, <2>3 DEF ManifestCommits, CommitFails, recordingVars
  <2>4. CASE WriterCloses
    BY <2>4 DEF WriterCloses
  <2>5. CASE JoinStarts \/ JoinedReturns \/ JoinedDrains \/ JoinedSettles \/ Controls
    BY <2>5, <1>3, QuietFrame, ControlsFrame
       DEF JoinStarts, JoinedReturns, JoinedDrains, JoinedSettles, rootVars
  <2> QED BY <1>3, <2>1, <2>2, <2>3, <2>4, <2>5 DEF Quiet
<1>4. CASE RunStarts \/ Finalize \/ RunEnds
  BY <1>4 DEF RunStarts, Finalize, RunEnds
<1>5. CASE EndRefused
  BY <1>2, <1>5 DEF EndRefused
<1>6. CASE UNCHANGED vars
  BY <1>6, Stutter
<1> QED BY <1>1, <1>3, <1>4, <1>5, <1>6, StepKinds

(* Recording never takes the place of what the callback said: its error    *)
(* reaches the caller in every mode, its value in best-effort mode         *)
(* (index.ts:129).                                                         *)
THEOREM CallbackAnswerKept == Spec => []AnswerKept
<1>1. Init => AnswerInv
  BY DEF Init, AnswerInv
<1>2. AnswerInv => AnswerKept
  BY DEF AnswerInv, Answered, AnswerKept
<1> QED BY <1>1, <1>2, StepAnswer, TypesInvariant, PTL DEF Spec
-----------------------------------------------------------------------------
(* The operation that ends the run, while it waits.                        *)
EndWaits(type) == \E i \in 1..Len(queue) : queue[i] = Entry(type, Agent)

(* Nobody but Finalize puts it into the queue, and it leaves only once.    *)
LEMMA WorkAddsNoEnd ==
  ASSUME TypeInv, NEW w \in Work, NEW p, WorkEffect(w, p), NEW type, EndWaits(type)'
  PROVE  EndWaits(type)
<1>1. queue \in Seq(Entries) /\ Agent # w /\ Entry(type, Agent).by = Agent
  BY WorkAssumption DEF TypeInv, TypeOK, WorkTypeOK, Entry
<1>2. PICK i \in 1..Len(queue') : queue'[i] = Entry(type, Agent)
  BY DEF EndWaits
<1>3. ASSUME HeadIs(w), NEW j \in 1..Len(Tail(queue)), Tail(queue)[j] = Entry(type, Agent)
      PROVE  EndWaits(type)
  <2>1. j + 1 \in 1..Len(queue) /\ queue[j + 1] = Entry(type, Agent)
    BY <1>1, <1>3 DEF HeadIs
  <2> QED BY <2>1 DEF EndWaits
<1>4. CASE queue' = queue
  BY <1>2, <1>4 DEF EndWaits
<1>5. ASSUME NEW t \in Recordable(w), queue' = Append(queue, Entry(t, w))
      PROVE  EndWaits(type)
  <2>1. Entry(t, w) # Entry(type, Agent)
    BY <1>1, EntryType
  <2>2. i \in 1..Len(queue) /\ queue[i] = Entry(type, Agent)
    BY <1>1, <1>2, <1>5, <2>1, EntryType
  <2> QED BY <2>2 DEF EndWaits
<1>6. CASE HeadIs(w) /\ queue' = Tail(queue)
  BY <1>2, <1>3, <1>6
<1>7. ASSUME HeadIs(w), NEW t \in Recordable(w), queue' = Append(Tail(queue), Entry(t, w))
      PROVE  EndWaits(type)
  <2>1. Entry(t, w) # Entry(type, Agent)
    BY <1>1, EntryType
  <2>2. Tail(queue) \in Seq(Entries)
    BY <1>1, <1>7 DEF HeadIs
  <2>3. i \in 1..Len(Tail(queue)) /\ Tail(queue)[i] = Entry(type, Agent)
    BY <1>2, <1>7, <2>1, <2>2, EntryType
  <2> QED BY <1>3, <1>7, <2>3
<1> QED BY <1>4, <1>5, <1>6, <1>7 DEF WorkEffect, QueueChange

(* Finalize adds exactly its own.                                          *)
LEMMA FinalizeAddsEnd ==
  ASSUME TypeInv, Finalize, NEW type, EndWaits(type)'
  PROVE  type = RunEnd[Ending]
<1> DEFINE e == Entry(RunEnd[Ending], Agent)
<1>1. queue \in Seq(Entries) /\ ~Waits(queue, Agent) /\ Entry(type, Agent).by = Agent
  BY DEF TypeInv, TypeOK, WorkTypeOK, QueueInv, Finalize, Entry
<1>2. e \in Entries
  BY DEF Entry, Entries, RunEnd, Ending
<1>3. PICK i \in 1..Len(queue') : queue'[i] = Entry(type, Agent)
  BY DEF EndWaits
<1>4. queue' = Append(queue, e)
  BY DEF Finalize
<1> HIDE DEF e
<1>5. ~(i \in 1..Len(queue))
  <2>1. ASSUME i \in 1..Len(queue) PROVE FALSE
    <3>1. queue[i] = Entry(type, Agent)
      BY <1>1, <1>2, <1>3, <1>4, <2>1
    <3> QED BY <1>1, <2>1, <3>1 DEF Waits
  <2> QED BY <2>1
<1>6. e = Entry(type, Agent)
  BY <1>1, <1>2, <1>3, <1>4, <1>5
<1> QED BY <1>6 DEF e, Entry

(* The end of the run takes it out.                                        *)
LEMMA EndLeaves ==
  ASSUME TypeInv, RunEnds \/ EndRefused
  PROVE  /\ EndWaits(Head(queue).type) /\ Head(queue) \in Entries /\ Head(queue).by = Agent
         /\ \A type : ~EndWaits(type)'
<1>1. queue \in Seq(Entries) /\ queue # <<>> /\ Distinct(queue)
  BY DEF RunEnds, EndRefused, HeadIs, TypeInv, TypeOK, WorkTypeOK, QueueInv
<1>2. Head(queue).by = Agent /\ queue' = Tail(queue)
  BY DEF RunEnds, EndRefused, HeadIs
<1>3. Head(queue) \in Entries /\ ~Waits(queue', Agent)
  BY <1>1, <1>2, LeavesQueue
<1>4. \A type : ~EndWaits(type)'
  BY <1>3 DEF EndWaits, Waits, Entry
<1>5. Head(queue) = Entry(Head(queue).type, Agent)
  BY <1>2, <1>3, EntryOwner
<1>6. 1 \in 1..Len(queue) /\ queue[1] = Head(queue)
  BY <1>1
<1> QED BY <1>2, <1>3, <1>4, <1>5, <1>6 DEF EndWaits

-----------------------------------------------------------------------------
(* A run that does not claim its final state says why.                     *)
Explained == limitations \cap {"drain_timed_out", "final_state_unavailable"} # {}
ExplainedInv ==
  /\ Telemetry /\ status # "none" => "final_state_unavailable" \in limitations
  /\ rootStep \notin NotStarted \cup {"unrecorded", "settled"} => status # "none"
  /\ EndWaits("run.failed") \/ EndWaits("run.observed") => Explained
  /\ status \in {"failed", "observed"} => Explained
(* A reason once given stays.                                              *)
LEMMA ExplanationStays ==
  ASSUME ExplainedInv, limitations \subseteq limitations', UNCHANGED <<root, status>>,
         rootStep' \in NotStarted \cup {"unrecorded", "settled"} \/ status # "none",
         \A type : EndWaits(type)' => EndWaits(type)
  PROVE  ExplainedInv'
<1>1. Explained => Explained'
  BY DEF Explained
<1> QED BY <1>1 DEF ExplainedInv, Telemetry

(* Every step keeps it.                                                    *)
LEMMA StepExplained == TypeInv /\ ExplainedInv /\ [Next]_vars => ExplainedInv'
<1> SUFFICES ASSUME TypeInv, ExplainedInv, [Next]_vars PROVE ExplainedInv'
  OBVIOUS
<1>1. ASSUME NEW w \in Work, WorkStep(w) PROVE ExplainedInv'
  <2>1. PICK p : WorkEffect(w, p)
    BY <1>1, StartEffect, AdvanceEffect, EndEffect DEF WorkStep
  <2>2. \A type : EndWaits(type)' => EndWaits(type)
    BY <2>1, WorkAddsNoEnd
  <2>3. /\ UNCHANGED <<root, status>> /\ limitations \subseteq limitations'
        /\ rootStep' \in NotStarted \cup {"unrecorded", "settled"} \/ status # "none"
    BY <1>1, WorkFrame DEF rootVars, ExplainedInv
  <2> QED BY <2>2, <2>3, ExplanationStays
<1>2. CASE Quiet
  <2>1. \A type : EndWaits(type)' => EndWaits(type)
    BY <1>2, QuietFrame DEF EndWaits
  <2>2. rootStep' \in NotStarted \cup {"unrecorded", "settled"} \/ status # "none"
    <3>1. CASE RunCalled \/ RunCannotStart \/ UnrecordedReturns
      BY <3>1 DEF RunCalled, RunCannotStart, UnrecordedReturns
    <3>2. CASE CallbackReturns \/ DrainStep \/ DrainTimesOut \/ ManifestCommits \/ CommitFails
               \/ WriterCloses
      BY <3>2 DEF CallbackReturns, DrainStep, DrainTimesOut, WorkPending, ManifestCommits,
           CommitFails, WriterCloses, ExplainedInv
    <3>3. CASE JoinStarts \/ JoinedReturns \/ JoinedDrains \/ JoinedSettles \/ Controls
      BY <3>3, ControlsFrame
         DEF JoinStarts, JoinedReturns, JoinedDrains, JoinedSettles, rootVars, ExplainedInv
    <3> QED BY <1>2, <3>1, <3>2, <3>3 DEF Quiet
  <2> QED BY <1>2, <2>1, <2>2, QuietFrame, QuietEffect, ExplanationStays
<1>3. CASE RunStarts
  <2>1. queue' = <<>> /\ status' = "running"
    BY <1>3 DEF RunStarts, TypeInv, StartInv
  <2>2. \A type : ~EndWaits(type)'
    BY <2>1 DEF EndWaits
  <2> QED BY <1>3, <2>1, <2>2 DEF RunStarts, ExplainedInv, Telemetry
<1>4. CASE Finalize
  <2>1. UNCHANGED <<root, status>> /\ limitations' = limitations \cup EndingLimitations
    BY <1>4 DEF Finalize
  <2>2. status # "none"
    BY <1>4 DEF Finalize, ExplainedInv
  <2>3. ASSUME EndWaits("run.failed")' \/ EndWaits("run.observed")' PROVE Explained'
    <3>1. Ending # "completed"
      BY <1>4, <2>3, FinalizeAddsEnd DEF RunEnd
    <3>2. CASE Telemetry
      BY <2>1, <2>2, <3>2 DEF ExplainedInv, Explained
    <3>3. CASE ~Telemetry
      <4>1. EndingLimitations \cap {"drain_timed_out", "final_state_unavailable"} # {}
        BY <1>4, <3>1, <3>3 DEF EndingLimitations, NoFinalState, Ending, Finalize
      <4> QED BY <2>1, <4>1 DEF Explained
    <3> QED BY <3>2, <3>3
  <2>4. Explained => Explained'
    BY <2>1 DEF Explained
  <2> QED BY <2>1, <2>2, <2>3, <2>4 DEF ExplainedInv, Telemetry
<1>5. CASE RunEnds \/ EndRefused
  <2>1. /\ EndWaits(Head(queue).type)
        /\ \A type : ~EndWaits(type)'
    BY <1>5, EndLeaves
  <2>2. UNCHANGED <<root, limitations>>
    BY <1>5 DEF RunEnds, EndRefused
  <2>3. status' = status \/ (status' \in TerminalStatus /\ RunEnd[status'] = Head(queue).type)
    BY <1>5 DEF RunEnds, EndRefused
  <2>4. status' \in {"failed", "observed"} => Explained
    BY <2>1, <2>3 DEF ExplainedInv, RunEnd, TerminalStatus
  <2>5. status' # "none"
    BY <1>5, <2>3 DEF RunEnds, EndRefused, ExplainedInv, TerminalStatus
  <2>6. status # "none"
    BY <1>5 DEF RunEnds, EndRefused, ExplainedInv
  <2> QED BY <2>1, <2>2, <2>4, <2>5, <2>6 DEF ExplainedInv, Explained, Telemetry
<1>6. CASE UNCHANGED vars
  <2>1. \A type : EndWaits(type)' => EndWaits(type)
    BY <1>6, Stutter DEF EndWaits
  <2> QED BY <1>6, <2>1, Stutter, ExplanationStays DEF ExplainedInv
<1> QED BY <1>1, <1>2, <1>3, <1>4, <1>5, <1>6, StepKinds

(* A finished manifest that does not claim a final state has the reason    *)
(* among its limitations, for all the ways a run can end                   *)
(* (instrument.ts:317).                                                    *)
THEOREM MissingFinalStateExplained == Spec => []UnclaimedStateExplained
<1>1. Init => ExplainedInv
  BY DEF Init, WorkInit, ExplainedInv, EndWaits
<1>2. Init => ManifestInv
  BY DEF Init, WorkInit, ManifestInv, Finished, NoManifest, TerminalStatus
<1>3. ManifestInv /\ ExplainedInv => UnclaimedStateExplained
  BY DEF ManifestInv, ExplainedInv, Explained, UnclaimedStateExplained, Finished,
     CurrentManifest, TerminalStatus
<1> QED BY <1>1, <1>2, <1>3, StepManifest, StepExplained, TypesInvariant, PTL DEF Spec

-----------------------------------------------------------------------------
(* A claimed final state.  Without activity after the callback the work    *)
(* left behind has settled when a run completes, so that nothing can come  *)
(* between the checkpoint and the event that claims it.                    *)
FinalInv ==
  /\ undisturbed /\ rootStep # "callback" => Unsettled(Checkpoints) = {}
  /\ undisturbed /\ ~Telemetry /\ rootStep = "drained" => Unsettled(Work) = {}
  /\ claimed # "none" => rootStep \in {"ending", "committing", "closing", "settled"}
  /\ undisturbed /\ rootStep = "ending" /\ claimed # "none" =>
       Unsettled(Work) = {} /\ Len(log) > 0 /\ log[Len(log)] = Entry("checkpoint", claimed)
  /\ EndWaits("run.completed") => claimed # "none"
  /\ status = "completed" =>
       /\ rootStep \in {"committing", "closing", "settled"}
       /\ undisturbed => log[Len(log) - 1] = Entry("checkpoint", claimed)

(* Nothing that calls do meanwhile takes the claim away.                   *)
LEMMA WorkKeepsFinal ==
  ASSUME TypeInv, FinalInv, NEW w \in Work, WorkStep(w)
  PROVE  FinalInv'
<1>1. PICK p : WorkEffect(w, p)
  BY StartEffect, AdvanceEffect, EndEffect DEF WorkStep
<1>2. /\ UNCHANGED <<root, status, rootStep, claimed>>
      /\ \/ undisturbed' = (undisturbed /\ rootStep = "callback")
         \/ Active(work[w]) /\ undisturbed' = undisturbed
  BY WorkFrame DEF rootVars, storeVars
<1>3. EndWaits("run.completed")' => EndWaits("run.completed")
  BY <1>1, WorkAddsNoEnd
<1>4. work' = [work EXCEPT ![w] = p] /\ work \in [Work -> Progress]
  BY <1>1 DEF WorkEffect, TypeInv, TypeOK, WorkTypeOK
<1>5. Active(work[w]) => w \in Unsettled(Work) /\ (w \in Checkpoints => w \in Unsettled(Checkpoints))
  BY DEF Active, Unsettled
<1>6. undisturbed' /\ rootStep # "callback" => Unsettled(Checkpoints)' = {}
  <2>1. SUFFICES ASSUME undisturbed', rootStep # "callback"
                 PROVE  Unsettled(Checkpoints)' = {}
    OBVIOUS
  <2>2. undisturbed /\ Active(work[w]) /\ Unsettled(Checkpoints) = {}
    BY <1>2, <2>1 DEF FinalInv
  <2>3. w \notin Checkpoints
    BY <1>5, <2>2
  <2>4. \A k \in Checkpoints : work'[k] = work[k]
    BY <1>4, <2>3 DEF Work
  <2> QED BY <2>2, <2>4 DEF Unsettled
<1>7. ~(undisturbed' /\ rootStep # "callback" /\ Unsettled(Work) = {})
  BY <1>2, <1>5
<1>8. status = "completed" => log' = log
  BY <1>1 DEF WorkEffect, LogChange
<1>9. undisturbed' => undisturbed
  BY <1>2
<1>10. undisturbed' => ~(~Telemetry /\ rootStep = "drained")
  BY <1>7, <1>9 DEF FinalInv
<1>11. undisturbed' => ~(rootStep = "ending" /\ claimed # "none")
  BY <1>7, <1>9 DEF FinalInv
<1>12. status = "completed" =>
         /\ rootStep \in {"committing", "closing", "settled"}
         /\ undisturbed' => log'[Len(log') - 1] = Entry("checkpoint", claimed)
  BY <1>8, <1>9 DEF FinalInv
<1> QED BY <1>2, <1>3, <1>6, <1>10, <1>11, <1>12 DEF FinalInv, Telemetry

(* When the drain is over, nothing is left that could.                     *)
LEMMA QuietKeepsFinal ==
  ASSUME TypeInv, FinalInv, Quiet
  PROVE  FinalInv'
<1>1. UNCHANGED <<root, status, queue, log, work, claimed>>
  BY QuietFrame, QuietEffect
<1>2. \A S : Unsettled(S)' = Unsettled(S)
  BY <1>1 DEF Unsettled
<1>3. EndWaits("run.completed")' => EndWaits("run.completed")
  BY <1>1 DEF EndWaits
<1>4. CASE rootStep' = rootStep /\ (undisturbed' => undisturbed)
  BY <1>1, <1>2, <1>3, <1>4 DEF FinalInv, Telemetry
<1>5. CASE CallbackReturns
  <2>1. /\ rootStep = "callback" /\ rootStep' \in {"tracked", "draining"}
        /\ undisturbed' = (Unsettled(Checkpoints) = {})
    BY <1>5 DEF CallbackReturns
  <2> QED BY <1>1, <1>2, <1>3, <2>1 DEF FinalInv
<1>6. CASE /\ rootStep \notin {"callback", "ending", "settled"}
           /\ rootStep' \notin {"callback", "ending", "committing"}
           /\ rootStep \in {"committing", "closing"} => rootStep' \in {"closing", "settled"}
           /\ rootStep' = "drained" => Tracked = {} /\ ~DrainAgain
           /\ undisturbed' = undisturbed
  <2>1. ASSUME undisturbed', ~Telemetry', rootStep' = "drained"
        PROVE  Unsettled(Work)' = {}
    <3>1. Unsettled(SdkCalls) = {} /\ Unsettled(Calls) = {} /\ Unsettled(Checkpoints) = {}
      BY <1>1, <1>6, <2>1 DEF Tracked, DrainAgain, Pending, Telemetry, FinalInv
    <3>2. Unsettled(Work) = {}
      BY <3>1 DEF Unsettled, Work
    <3> QED BY <1>2, <3>2
  <2> QED BY <1>1, <1>2, <1>3, <1>6, <2>1 DEF FinalInv
<1> QED BY <1>4, <1>5, <1>6, QuietEffect

(* The checkpoint that is claimed is the last event.                       *)
LEMMA FinalizeClaims ==
  ASSUME TypeInv, FinalInv, Finalize
  PROVE  FinalInv'
<1>1. /\ rootStep \in {"drained", "timedOut"} /\ rootStep' = "ending"
      /\ UNCHANGED <<root, status, log, work, undisturbed>>
  BY DEF Finalize, historyVars
<1>2. claimed = "none"
  BY <1>1 DEF FinalInv
<1>3. \A S : Unsettled(S)' = Unsettled(S)
  BY <1>1 DEF Unsettled
<1>4. CASE Ending = "completed"
  <2>1. /\ ~Telemetry /\ rootStep = "drained"
        /\ checkpointSequence # 0 /\ checkpointSequence = Len(log)
        /\ claimed' = log[checkpointSequence].by
    BY <1>4 DEF Finalize, Ending, canComplete
  <2>2. log \in Seq(Entries)
    BY DEF TypeInv, TypeOK, WorkTypeOK
  <2>3. Len(log) > 0 /\ log[Len(log)] \in Entries /\ log[Len(log)].type = "checkpoint"
    BY <2>1, <2>2 DEF TypeInv, SequenceInv
  <2>4. log[Len(log)] = Entry("checkpoint", claimed') /\ claimed' \in Checkpoints
    BY <2>1, <2>3, EntryOwner
  <2>5. claimed' # "none"
    BY <2>4, WorkAssumption
  <2>6. undisturbed => Unsettled(Work) = {}
    BY <2>1 DEF FinalInv
  <2> QED BY <1>1, <1>3, <2>3, <2>4, <2>5, <2>6 DEF FinalInv
<1>5. CASE Ending # "completed"
  <2>1. claimed' = "none"
    BY <1>2, <1>5 DEF Finalize
  <2>2. ~EndWaits("run.completed")'
    <3>1. RunEnd[Ending] # "run.completed"
      BY <1>5 DEF RunEnd, Ending
    <3> QED BY <3>1, FinalizeAddsEnd
  <2> QED BY <1>1, <1>3, <2>1, <2>2 DEF FinalInv
<1> QED BY <1>4, <1>5

(* The end of the run comes right after it.                                *)
LEMMA EndKeepsFinal ==
  ASSUME TypeInv, FinalInv, RunEnds \/ EndRefused
  PROVE  FinalInv'
<1>1. /\ rootStep = "ending" /\ rootStep' \in {"committing", "closing"}
      /\ UNCHANGED <<root, work, claimed, undisturbed>>
  BY DEF RunEnds, EndRefused, workVars, storeVars, historyVars
<1>2. EndWaits(Head(queue).type) /\ Head(queue) \in Entries /\ \A type : ~EndWaits(type)'
  BY EndLeaves
<1>3. \A S : Unsettled(S)' = Unsettled(S)
  BY <1>1 DEF Unsettled
<1>4. status # "completed"
  BY <1>1 DEF FinalInv
<1>5. ASSUME status' = "completed", undisturbed
      PROVE  log'[Len(log') - 1] = Entry("checkpoint", claimed)
  <2>1. Head(queue).type = "run.completed" /\ log' = Append(log, Head(queue))
    BY <1>4, <1>5 DEF RunEnds, EndRefused, RunEnd, TerminalStatus
  <2>2. Len(log) > 0 /\ log[Len(log)] = Entry("checkpoint", claimed)
    BY <1>1, <1>2, <1>5, <2>1 DEF FinalInv
  <2>3. log \in Seq(Entries)
    BY DEF TypeInv, TypeOK, WorkTypeOK
  <2> QED BY <1>2, <2>1, <2>2, <2>3
<1> QED BY <1>1, <1>2, <1>3, <1>5 DEF FinalInv

(* Every step keeps it.                                                    *)
LEMMA StepFinal == TypeInv /\ FinalInv /\ [Next]_vars => FinalInv'
<1> SUFFICES ASSUME TypeInv, FinalInv, [Next]_vars PROVE FinalInv'
  OBVIOUS
<1>1. CASE RunStarts
  <2>1. /\ rootStep' = "callback" /\ status' = "running" /\ queue' = <<>>
        /\ claimed' = claimed /\ rootStep = "starting"
    BY <1>1 DEF RunStarts, TypeInv, StartInv
  <2>2. ~EndWaits("run.completed")'
    BY <2>1 DEF EndWaits
  <2> QED BY <2>1, <2>2 DEF FinalInv
<1>2. CASE UNCHANGED vars
  <2>1. UNCHANGED <<root, status, queue, log, work, rootStep, claimed, undisturbed>>
    BY <1>2, Stutter
  <2> QED BY <2>1 DEF FinalInv, EndWaits, Unsettled, Telemetry
<1> QED
  BY <1>1, <1>2, WorkKeepsFinal, QuietKeepsFinal, FinalizeClaims, EndKeepsFinal, StepKinds

(* A completed run claims the state of the checkpoint right before its     *)
(* last event, for any number of calls left behind that end at any moment  *)
(* of the drain (instrument.ts:704).                                       *)
THEOREM CompletedRunClaimsFinalState == Spec => []FinalStateClaimed
<1>1. Init => FinalInv
  <2> SUFFICES ASSUME Init PROVE FinalInv
    OBVIOUS
  <2>1. Unsettled(Checkpoints) = {}
    BY DEF Init, WorkInit, Unsettled, Work, At
  <2>2. ~EndWaits("run.completed")
    BY DEF Init, WorkInit, EndWaits
  <2> QED BY <2>1, <2>2 DEF Init, WorkInit, FinalInv
<1>2. FinalInv => FinalStateClaimed
  BY DEF FinalInv, FinalStateClaimed
<1> QED BY <1>1, <1>2, StepFinal, TypesInvariant, PTL DEF Spec
-----------------------------------------------------------------------------
(* The controller closes its exporters after its runs: it keeps this run   *)
(* from its call until it has settled, and what is running when shutdown() *)
(* awaits its runs is among those it awaits.                               *)
ShutdownInv ==
  /\ Telemetry /\ rootStep \notin {"uncalled", "settled"} => Agent \in activeRuns
  /\ rootStep = "uncalled" => Agent \notin activeRuns
  /\ shutdownStep = "awaiting" => Running \subseteq awaited
  /\ Telemetry /\ shutdownStep \in {"exporting", "released"} => Running = {}
  /\ Finished => exported

(* Nothing of it changes while no run is admitted, none settles, and the   *)
(* manifest and shutdown() stay as they are.                               *)
LEMMA ShutdownKept ==
  ASSUME ShutdownInv, UNCHANGED <<root, controllerVars, exported>>,
         Finished' => Finished,
         rootStep' \in {"uncalled", "settled"} \/ rootStep \notin {"uncalled", "settled"},
         rootStep' = "uncalled" => rootStep = "uncalled",
         rootStep = "settled" => rootStep' = "settled"
  PROVE  ShutdownInv'
<1>1. UNCHANGED <<activeRuns, shutdownStep, awaited>>
  BY DEF controllerVars
<1>2. Running' \subseteq Running
  BY <1>1 DEF Running
<1> QED BY <1>1, <1>2 DEF ShutdownInv, Telemetry

(* Every step keeps it.                                                    *)
LEMMA StepShutdown == TypeInv /\ ShutdownInv /\ [Next]_vars => ShutdownInv'
<1> SUFFICES ASSUME TypeInv, ShutdownInv, [Next]_vars PROVE ShutdownInv'
  OBVIOUS
<1> USE DEF Finished
<1>1. ASSUME NEW w \in Work, WorkStep(w) PROVE ShutdownInv'
  BY <1>1, WorkFrame, ShutdownKept DEF rootVars, storeVars
<1>2. CASE UNCHANGED <<root, rootStep, manifest, exported, controllerVars>>
  BY <1>2, ShutdownKept
<1>3. CASE RunCalled
  <2>1. /\ rootStep = "uncalled" /\ UNCHANGED <<root, manifest, exported, shutdownStep, awaited>>
        /\ \/ /\ shutdownStep = "none" /\ rootStep' = "starting"
              /\ activeRuns' = IF Telemetry THEN activeRuns \cup {Agent} ELSE activeRuns
           \/ rootStep' = "settled" /\ activeRuns' = activeRuns
    BY <1>3 DEF RunCalled, Admits, recordingVars
  <2>2. rootStep' = "settled" => Running' \subseteq Running
    BY <2>1 DEF Running
  <2> QED BY <2>1, <2>2 DEF ShutdownInv, Telemetry
<1>4. CASE Controls
  <2>1. UNCHANGED <<root, rootStep, manifest, exported>>
    BY <1>4, ControlsFrame DEF recordingVars, rootVars
  <2>2. CASE RunForgotten
    <3>1. rootStep = "settled" /\ activeRuns' = activeRuns \ {Agent}
          /\ UNCHANGED <<shutdownStep, awaited>>
      BY <2>2 DEF RunForgotten
    <3>2. Running' \subseteq Running
      BY <2>1, <3>1 DEF Running
    <3> QED BY <2>1, <3>1, <3>2 DEF ShutdownInv, Telemetry
  <2>3. ASSUME NEW o \in OtherRuns, OtherRun(o) PROVE ShutdownInv'
    <3>1. /\ UNCHANGED <<shutdownStep, awaited>> /\ o # Agent
          /\ \/ shutdownStep = "none" /\ activeRuns' = activeRuns \cup {o}
             \/ activeRuns' = activeRuns \ {o}
      BY <2>3, RunAssumption DEF OtherRun, Admits
    <3>2. shutdownStep = "none" \/ Running' \subseteq Running
      BY <2>1, <3>1 DEF Running
    <3>3. Agent \in activeRuns' <=> Agent \in activeRuns
      BY <3>1
    <3> QED BY <2>1, <3>1, <3>2, <3>3 DEF ShutdownInv, Telemetry
  <2>4. CASE Shutdown
    <3>1. /\ UNCHANGED activeRuns
          /\ shutdownStep' = IF Telemetry THEN "awaiting" ELSE "exporting"
          /\ awaited' = IF Telemetry THEN activeRuns ELSE {}
      BY <2>4 DEF Shutdown
    <3>2. Running' \subseteq activeRuns
      BY <3>1 DEF Running
    <3> QED BY <2>1, <3>1, <3>2 DEF ShutdownInv, Telemetry
  <2>5. CASE ShutdownProceeds
    <3>1. /\ UNCHANGED activeRuns /\ shutdownStep' \in {"exporting", "released"}
          /\ \/ shutdownStep = "awaiting" /\ awaited \cap Running = {}
             \/ Telemetry /\ shutdownStep = "exporting"
      BY <2>5 DEF ShutdownProceeds
    <3>2. Running' = Running
      BY <2>1, <3>1 DEF Running
    <3>3. Telemetry => Running = {}
      BY <3>1 DEF ShutdownInv
    <3> QED BY <2>1, <3>1, <3>2, <3>3 DEF ShutdownInv, Telemetry
  <2> QED BY <1>4, <2>2, <2>3, <2>4, <2>5 DEF Controls
<1>5. CASE RunCannotStart \/ UnrecordedReturns \/ CallbackReturns \/ DrainStep
             \/ DrainTimesOut \/ CommitFails \/ WriterCloses
  <2>1. /\ UNCHANGED <<root, manifest, exported, controllerVars>>
        /\ rootStep \notin {"uncalled", "settled"} /\ rootStep' # "uncalled"
    BY <1>5 DEF RunCannotStart, UnrecordedReturns, CallbackReturns, DrainStep,
         DrainTimesOut, WorkPending, CommitFails, WriterCloses, storeVars, recordingVars
  <2> QED BY <2>1, ShutdownKept
<1>6. CASE JoinStarts \/ JoinedReturns \/ JoinedDrains \/ JoinedSettles
  BY <1>2, <1>6 DEF JoinStarts, JoinedReturns, JoinedDrains, JoinedSettles, rootVars,
       storeVars, recordingVars
<1>7. CASE RunStarts \/ Finalize \/ RunEnds \/ EndRefused
  <2>1. /\ UNCHANGED <<root, exported, controllerVars>> /\ (Finished' => Finished)
        /\ rootStep \notin {"uncalled", "settled"} /\ rootStep' # "uncalled"
    BY <1>7 DEF RunStarts, Finalize, RunEnds, EndRefused, storeVars, TerminalStatus
  <2> QED BY <2>1, ShutdownKept
<1>8. CASE ManifestCommits
  <2>1. /\ rootStep = "committing" /\ rootStep' = "closing" /\ exported'
        /\ UNCHANGED <<root, activeRuns, shutdownStep, awaited>>
    BY <1>8 DEF ManifestCommits, recordingVars, controllerVars
  <2>2. Running' = Running
    BY <2>1 DEF Running
  <2> QED BY <2>1, <2>2 DEF ShutdownInv, Telemetry
<1>9. CASE UNCHANGED vars
  <2>1. UNCHANGED <<root, rootStep, manifest, exported, activeRuns, shutdownStep, awaited>>
    BY <1>9, Stutter
  <2> QED BY <1>2, <2>1 DEF controllerVars
<1> QED BY <1>1, <1>3, <1>4, <1>5, <1>6, <1>7, <1>8, <1>9, StepKinds DEF Quiet

(* However calls of run(), their ends and shutdown() interleave: when the  *)
(* exporters are closed, every run that was admitted has settled, and has  *)
(* handed over its snapshot if it could finish one (index.ts:248-282).     *)
THEOREM ShutdownComesLast == Spec => []ShutdownAfterRuns
<1>1. Init => ShutdownInv
  BY DEF Init, ShutdownInv, Running, Finished, NoManifest, TerminalStatus
<1>2. ShutdownInv => ShutdownAfterRuns
  BY DEF ShutdownInv, ShutdownAfterRuns, Running
<1> QED BY <1>1, <1>2, StepShutdown, TypesInvariant, PTL DEF Spec

-----------------------------------------------------------------------------
(* A manifest without drain_timed_out is complete evidence: this rests on   *)
(* what the drain waits for, and on every way a call can settle.           *)

Operations == Calls \cup SdkCalls

(* Operations are neither checkpoints nor the agent nor a joined run.      *)
LEMMA OperationKinds ==
  /\ Operations \subseteq Work /\ Operations \cap Checkpoints = {}
  /\ Agent \notin Operations /\ "joinedRun" \notin Operations
BY WorkAssumption, RunAssumption DEF Operations, Work

-----------------------------------------------------------------------------
(* An operation that waits records what its call is recording.             *)
EventInv ==
  \A i \in 1..Len(queue) : \A w \in Work : queue[i].by = w => queue[i].type = work[w].event

(* What a call does keeps it,                                              *)
LEMMA WorkKeepsEvents ==
  ASSUME TypeInv, EventInv, NEW w \in Work, NEW p, WorkEffect(w, p)
  PROVE  EventInv'
<1>1. /\ work'[w] = p /\ \A v \in Work \ {w} : work'[v] = work[v]
      /\ queue \in Seq(Entries) /\ Distinct(queue)
      /\ ~InQueue(work[w]) => ~Waits(queue, w)
  BY DEF WorkEffect, TypeInv, TypeOK, WorkTypeOK, QueueInv
<1>2. CASE queue' = queue /\ p.event = work[w].event
  BY <1>1, <1>2 DEF EventInv
<1>3. CASE queue' = queue /\ ~InQueue(work[w])
  BY <1>1, <1>3 DEF EventInv, Waits
<1>4. CASE /\ ~InQueue(work[w]) /\ p.event \in Recordable(w)
           /\ queue' = Append(queue, Entry(p.event, w))
  <2> DEFINE e == Entry(p.event, w)
  <2>1. e \in Entries /\ e.by = w /\ e.type = p.event
    BY <1>4, EntryType
  <2>2. queue' = Append(queue, e)
    BY <1>4
  <2> HIDE DEF e
  <2>3. /\ Len(queue') = Len(queue) + 1 /\ queue'[Len(queue) + 1] = e
        /\ \A i \in 1..Len(queue) : queue'[i] = queue[i]
    BY <1>1, <2>1, <2>2
  <2>4. \A i \in 1..Len(queue') : i \in 1..Len(queue) \/ i = Len(queue) + 1
    BY <1>1, <2>3
  <2> QED BY <1>1, <1>4, <2>1, <2>3, <2>4 DEF EventInv, Waits
<1>5. ASSUME HeadIs(w)
      PROVE  /\ Tail(queue) \in Seq(Entries) /\ ~Waits(Tail(queue), w)
             /\ \A i \in 1..Len(Tail(queue)) : \A v \in Work :
                  Tail(queue)[i].by = v => Tail(queue)[i].type = work[v].event
  <2>1. queue # <<>> /\ Head(queue).by = w
    BY <1>5 DEF HeadIs
  <2>2. Tail(queue) \in Seq(Entries) /\ ~Waits(Tail(queue), w)
    BY <1>1, <2>1, LeavesQueue
  <2>3. \A i \in 1..Len(Tail(queue)) : i + 1 \in 1..Len(queue) /\ Tail(queue)[i] = queue[i + 1]
    BY <1>1, <2>1
  <2> QED BY <2>2, <2>3 DEF EventInv
<1>6. CASE HeadIs(w) /\ queue' = Tail(queue)
  <2> DEFINE rest == Tail(queue)
  <2>1. /\ queue' = rest /\ ~Waits(rest, w)
        /\ \A i \in 1..Len(rest) : \A v \in Work : rest[i].by = v => rest[i].type = work[v].event
    BY <1>5, <1>6
  <2> HIDE DEF rest
  <2>2. \A i \in 1..Len(rest) : rest[i].by # w
    BY <2>1 DEF Waits
  <2> QED BY <1>1, <2>1, <2>2 DEF EventInv
<1>7. CASE /\ HeadIs(w) /\ p.event \in Recordable(w)
           /\ queue' = Append(Tail(queue), Entry(p.event, w))
  <2> DEFINE e == Entry(p.event, w)
             q == Tail(queue)
  <2>1. e \in Entries /\ e.by = w /\ e.type = p.event
    BY <1>7, EntryType
  <2>2. /\ q \in Seq(Entries) /\ ~Waits(q, w)
        /\ \A i \in 1..Len(q) : \A v \in Work : q[i].by = v => q[i].type = work[v].event
    BY <1>5, <1>7
  <2>3. queue' = Append(q, e)
    BY <1>7
  <2> HIDE DEF e, q
  <2>4. /\ Len(queue') = Len(q) + 1 /\ queue'[Len(q) + 1] = e
        /\ \A i \in 1..Len(q) : queue'[i] = q[i]
    BY <2>1, <2>2, <2>3
  <2>5. \A i \in 1..Len(queue') : i \in 1..Len(q) \/ i = Len(q) + 1
    BY <2>2, <2>4
  <2> QED BY <1>1, <2>1, <2>2, <2>4, <2>5 DEF EventInv, Waits
<1> QED BY <1>2, <1>3, <1>4, <1>6, <1>7 DEF WorkEffect, QueueChange

(* and so does every step.                                                 *)
LEMMA StepEvents == TypeInv /\ EventInv /\ [Next]_vars => EventInv'
<1> SUFFICES ASSUME TypeInv, EventInv, [Next]_vars PROVE EventInv'
  OBVIOUS
<1>1. ASSUME NEW w \in Work, WorkStep(w) PROVE EventInv'
  BY <1>1, WorkKeepsEvents, StartEffect, AdvanceEffect, EndEffect DEF WorkStep
<1>2. CASE UNCHANGED <<queue, work>>
  BY <1>2 DEF EventInv
<1>3. CASE Finalize
  <2> DEFINE e == Entry(RunEnd[Ending], Agent)
  <2>1. e \in Entries /\ e.by \notin Work
    BY WorkAssumption DEF Entry, Entries, RunEnd, Ending
  <2>2. queue' = Append(queue, e) /\ work' = work /\ queue \in Seq(Entries)
    BY <1>3 DEF Finalize, TypeInv, TypeOK, WorkTypeOK
  <2> HIDE DEF e
  <2>3. /\ Len(queue') = Len(queue) + 1 /\ queue'[Len(queue) + 1] = e
        /\ \A i \in 1..Len(queue) : queue'[i] = queue[i]
    BY <2>1, <2>2
  <2>4. \A i \in 1..Len(queue') : i \in 1..Len(queue) \/ i = Len(queue) + 1
    BY <2>2, <2>3
  <2> QED BY <2>1, <2>2, <2>3, <2>4 DEF EventInv
<1>4. CASE RunEnds \/ EndRefused
  <2>1. queue' = Tail(queue) /\ work' = work /\ queue # <<>> /\ queue \in Seq(Entries)
    BY <1>4 DEF RunEnds, EndRefused, HeadIs, workVars, TypeInv, TypeOK, WorkTypeOK
  <2>2. \A i \in 1..Len(queue') : i + 1 \in 1..Len(queue) /\ queue'[i] = queue[i + 1]
    BY <2>1
  <2> QED BY <2>1, <2>2 DEF EventInv
<1>5. RunStarts \/ UNCHANGED vars => UNCHANGED <<queue, work>>
  BY Stutter DEF RunStarts, workVars
<1> QED BY <1>1, <1>2, <1>3, <1>4, <1>5, StepKinds, QuietFrame
-----------------------------------------------------------------------------
(* How an operation gets to its next step, and what it leaves in the log.  *)
Life(w) ==
  /\ work'[w].step # "idle"
  /\ work'[w].step \in {"redacting", "queued"} /\ work'[w].event = "requested" =>
       /\ log' = log
       /\ \/ work[w].step = "idle"
          \/ work[w].step = "redacting" /\ work[w].event = "requested"
  /\ work'[w].step = "settled" =>
       \/ work[w].step = "idle" /\ log' = log
       \/ w \in refused'
       \/ Logged("completed", w)' \/ Logged("failed", w)'
       \/ status # "running" /\ Active(work[w])

(* A call that starts, or is refused,                                      *)
LEMMA StartLife ==
  ASSUME TypeInv, NEW w \in Operations, WorkStarts(w)
  PROVE  Life(w)
<1>1. work[w].step = "idle" /\ log' = log /\ work \in [Work -> Progress] /\ w \in Work
  BY OperationKinds
     DEF WorkStarts, StartCall, StartSdkCall, StartCheckpoint, TypeInv, TypeOK, WorkTypeOK
<1>2. Record(w, "requested") \/ Record(w, "checkpoint") \/ Settle(w)
  BY DEF WorkStarts, StartCall, StartSdkCall, StartCheckpoint
<1>3. work'[w].step # "idle"
  BY <1>1, <1>2 DEF Record, Recording, Settle, At
<1> QED BY <1>1, <1>3 DEF Life

(* comes to its end,                                                       *)
LEMMA EndLife ==
  ASSUME TypeInv, NEW w \in Operations, WorkEnds(w)
  PROVE  Life(w)
<1>1. /\ work[w].step = "running" /\ log' = log
      /\ work \in [Work -> Progress] /\ w \in Work
  BY OperationKinds DEF WorkEnds, CallEnds, StreamEndsEarly, TypeInv, TypeOK, WorkTypeOK
<1>2. \/ Record(w, "completed") \/ Record(w, "failed")
      \/ Settle(w) /\ status # "running"
  BY DEF WorkEnds, CallEnds, StreamEndsEarly
<1> QED BY <1>1, <1>2 DEF Record, Recording, Settle, At, Life, Active

(* cannot be recorded,                                                     *)
LEMMA RefusalLife ==
  ASSUME NEW w \in Operations, work \in [Work -> Progress], NEW q, CannotRecord(w, q)
  PROVE  Life(w)
<1>1. w \in Work /\ w \in refused'
  BY OperationKinds DEF CannotRecord
<1>2. \/ work' = [work EXCEPT ![w] = Recording(w, "failed")]
      \/ work' = [work EXCEPT ![w] = At("settled")]
  BY DEF CannotRecord, Settle
<1> QED BY <1>1, <1>2 DEF Recording, At, Life

(* or gets on in being recorded.                                           *)
LEMMA AdvanceLife ==
  ASSUME TypeInv, EventInv, NEW w \in Operations, WorkAdvances(w)
  PROVE  Life(w)
<1>1. work \in [Work -> Progress] /\ w \in Work /\ w \notin Checkpoints
  BY OperationKinds DEF TypeInv, TypeOK, WorkTypeOK
<1>2. CASE RedactionEnds(w)
  <2>1. CASE CannotRecord(w, queue)
    BY <1>1, <2>1, RefusalLife
  <2>2. CASE work' = [work EXCEPT ![w].step = "queued"]
    <3>1. work'[w].step = "queued" /\ work'[w].event = work[w].event
      BY <1>1, <2>2 DEF Progress
    <3> QED BY <1>2, <3>1 DEF RedactionEnds, Life
  <2> QED BY <1>2, <2>1, <2>2 DEF RedactionEnds
<1>3. CASE EventRefused(w)
  BY <1>1, <1>3, RefusalLife DEF EventRefused
<1>4. CASE EventCommits(w)
  <2>1. /\ HeadIs(w) /\ log' = Append(log, Head(queue))
        /\ queue \in Seq(Entries) /\ log \in Seq(Entries) /\ queue # <<>>
    BY <1>4 DEF EventCommits, HeadIs, TypeInv, TypeOK, WorkTypeOK
  <2>2. Head(queue) \in Entries /\ Head(queue) = queue[1] /\ 1 \in 1..Len(queue)
    BY <2>1
  <2>3. Head(queue) = Entry(work[w].event, w)
    BY <1>1, <2>1, <2>2, EntryOwner DEF HeadIs, EventInv
  <2>4. work[w].event # "none"
    BY <2>2, <2>3, EntryOwner, EntryType DEF Entry, Entries
  <2>5. PICK t \in {"requested", "completed", "failed"} : work[w].event = t
    BY <1>1, <2>4 DEF TypeInv, WorkSound, Sound, Recordable
  <2>6. Logged(t, w)'
    <3>1. Len(log) + 1 \in DOMAIN log' /\ log'[Len(log) + 1] = Entry(t, w)
      BY <2>1, <2>2, <2>3, <2>5
    <3> QED BY <3>1 DEF Logged
  <2>7. work'[w] = At(IF t = "requested" THEN "running" ELSE "settled")
    BY <1>1, <1>4, <2>5 DEF EventCommits
  <2> QED BY <2>6, <2>7 DEF At, Life
<1> QED BY <1>1, <1>2, <1>3, <1>4
     DEF WorkAdvances, WorkProceeds, CheckpointCommits, CheckpointEnds, TypeInv, WorkSound, Sound

(* The log of the others does not change.                                  *)
LEMMA OthersLog ==
  ASSUME TypeInv, NEW w \in Work, WorkStep(w)
  PROVE  /\ \A v \in Work \ {w} : work'[v] = work[v]
         /\ \A v, type : Logged(type, v) => Logged(type, v)'
         /\ \A type : \A v \in Work \ {w} : Logged(type, v)' => Logged(type, v)
         /\ refused \subseteq refused'
<1>1. PICK p : WorkEffect(w, p)
  BY StartEffect, AdvanceEffect, EndEffect DEF WorkStep
<1>2. queue \in Seq(Entries) /\ log \in Seq(Entries)
  BY DEF TypeInv, TypeOK, WorkTypeOK
<1>3. \A v \in Work \ {w} : work'[v] = work[v]
  BY <1>1 DEF WorkEffect, TypeInv, TypeOK, WorkTypeOK
<1>4. ASSUME log' = log PROVE \A type, v : Logged(type, v)' <=> Logged(type, v)
  BY <1>4 DEF Logged
<1>5. ASSUME HeadIs(w), log' = Append(log, Head(queue))
      PROVE  /\ \A v, type : Logged(type, v) => Logged(type, v)'
             /\ \A type : \A v \in Work \ {w} : Logged(type, v)' => Logged(type, v)
  <2>1. Head(queue) \in Entries /\ Head(queue).by = w
    BY <1>2, <1>5 DEF HeadIs
  <2>2. /\ DOMAIN log = 1..Len(log) /\ DOMAIN log' = 1..(Len(log) + 1)
        /\ log'[Len(log) + 1] = Head(queue) /\ \A i \in 1..Len(log) : log'[i] = log[i]
    BY <1>2, <1>5, <2>1
  <2>3. \A i \in DOMAIN log : i \in DOMAIN log'
    BY <1>2, <2>2
  <2>4. \A i \in DOMAIN log' : i \in DOMAIN log \/ i = Len(log) + 1
    BY <1>2, <2>2
  <2>5. \A v \in Work \ {w} : \A type : Head(queue) # Entry(type, v)
    BY <2>1 DEF Entry
  <2>6. \A v, type : Logged(type, v) => Logged(type, v)'
    BY <2>2, <2>3 DEF Logged
  <2>7. \A type : \A v \in Work \ {w} : Logged(type, v)' => Logged(type, v)
    BY <2>2, <2>4, <2>5 DEF Logged
  <2> QED BY <2>6, <2>7
<1>6. refused \subseteq refused'
  BY DEF WorkStep, WorkStarts, StartCall, StartSdkCall, StartCheckpoint, WorkAdvances,
     WorkProceeds, RedactionEnds, EventCommits, EventRefused, CheckpointCommits,
     CheckpointEnds, CannotRecord, WorkEnds, CallEnds, StreamEndsEarly
<1> QED BY <1>1, <1>3, <1>4, <1>5, <1>6 DEF WorkEffect, LogChange
-----------------------------------------------------------------------------
(* What the drain has waited for.                                          *)
TimedOut == rootStep = "timedOut" \/ "drain_timed_out" \in limitations
Draining == {"callback", "draining", "tracked"}

(* The run is recorded from its start to its end.                          *)
RecordedInv ==
  /\ rootStep \in Draining \cup {"drained", "timedOut", "ending"} => status = "running"
  /\ Recorded => status # "none"
  /\ status = "none" => joinedStep = "none" /\ \A w \in Work : work[w].step = "idle"
  /\ rootStep \in {"committing", "closing"} => status # "none"
  /\ rootStep \in NotStarted \cup {"unrecorded"} => status = "none"

(* Calls of a telemetry run are attended through the run that joined it.   *)
JoinedInv ==
  /\ joinedStep # "none" => Telemetry
  /\ \A w \in inTime : w \in Work => work[w].step # "idle"
  /\ "joinedRun" \in inTime => joinedStep # "none"
  /\ Telemetry /\ "joinedRun" \notin inTime => inTime \cap Calls = {}
  /\ "joinedRun" \in inTime /\ joinedStep \notin {"none", "settled"} =>
       rootStep \in Draining \/ TimedOut
  /\ "joinedRun" \in inTime /\ joinedStep = "drained" => Unsettled(inTime \cap Calls) = {}
  /\ "joinedRun" \in inTime /\ joinedStep = "settled" =>
       Unsettled(inTime \cap Calls) = {} \/ TimedOut

(* The drain that does not time out leaves nothing that was attended.      *)
DrainedInv ==
  status # "none" /\ rootStep \notin Draining /\ ~TimedOut =>
    Unsettled(inTime \cap Operations) = {}

DrainInv == RecordedInv /\ JoinedInv /\ DrainedInv

(* Calls are made only in the scope of a recorded run.                     *)
LEMMA WorkKeepsRecorded ==
  ASSUME TypeInv, RecordedInv, NEW w \in Work, WorkStep(w)
  PROVE  RecordedInv' /\ status # "none"
<1>1. UNCHANGED <<status, rootStep, manifest, joinedStep>>
  BY WorkFrame DEF rootVars, joinedVars, storeVars
<1>2. status # "none"
  <2>1. WorkStarts(w) => Recorded \/ joinedStep # "none"
    BY DEF WorkStarts, HasContext
  <2>2. WorkStarts(w) \/ Active(work[w])
    BY WorkFrame
  <2> QED BY <2>1, <2>2 DEF RecordedInv, Active
<1> QED BY <1>1, <1>2 DEF RecordedInv, Recorded

(* How the set of what is attended grows.                                  *)
LEMMA InTimeGrows ==
  ASSUME TypeInv, NEW w \in Work, WorkStep(w)
  PROVE  \/ WorkStarts(w) /\ work[w].step = "idle" /\ inTime' = inTime
         \/ WorkStarts(w) /\ work[w].step = "idle" /\ Attended(w) /\ inTime' = inTime \cup {w}
         \/ Active(work[w]) /\ inTime' = inTime
<1>1. CASE WorkStarts(w)
  BY <1>1, StartEffect DEF WorkStarts, Started
<1>2. CASE WorkAdvances(w) \/ WorkEnds(w)
  BY <1>2, AdvanceEffect, EndEffect DEF WorkAdvances, WorkEnds, runVars, historyVars
<1> QED BY <1>1, <1>2 DEF WorkStep

(* What has settled and is no longer attended stays settled.               *)
LEMMA SettledStays ==
  ASSUME TypeInv, JoinedInv, NEW w \in Work, WorkStep(w), NEW S \in SUBSET Work,
         Unsettled(inTime \cap S) = {}, w \in S => ~Attended(w)
  PROVE  Unsettled(inTime \cap S)' = {}
<1>1. w \notin inTime \cap S
  BY InTimeGrows DEF JoinedInv, Unsettled, Active
<1>2. inTime' \cap S = inTime \cap S
  BY InTimeGrows
<1>3. \A v \in inTime \cap S : work'[v] = work[v]
  BY <1>1, OthersLog
<1> QED BY <1>2, <1>3 DEF Unsettled

(* What starts after a drain that did not time out has nobody waiting.     *)
LEMMA WorkKeepsDrain ==
  ASSUME TypeInv, DrainInv, NEW w \in Work, WorkStep(w)
  PROVE  DrainInv'
<1> USE DEF DrainInv
<1>1. UNCHANGED <<root, status, rootStep, joinedStep>>
  BY WorkFrame DEF rootVars, joinedVars
<1>2. TimedOut => TimedOut'
  BY <1>1, WorkFrame DEF TimedOut
<1>3. "joinedRun" \in inTime' <=> "joinedRun" \in inTime
  BY InTimeGrows, RunAssumption
<1>4. Calls \subseteq Work /\ Operations \subseteq Work
  BY OperationKinds DEF Work
<1>5. RecordedInv'
  BY WorkKeepsRecorded
<1>6. ASSUME status # "none", rootStep \notin Draining, ~TimedOut
      PROVE  Unsettled(inTime \cap Operations)' = {}
  <2>1. Unsettled(inTime \cap Operations) = {}
    BY <1>6 DEF DrainedInv
  <2>2. ~("joinedRun" \in inTime /\ joinedStep = "callback") /\ rootStep # "callback"
    BY <1>6 DEF JoinedInv, Draining
  <2>3. ~Attended(w)
    BY <2>1, <2>2 DEF Attended, Unsettled, Operations
  <2> QED BY <1>4, <2>1, <2>3, SettledStays
<1>7. DrainedInv'
  BY <1>1, <1>2, <1>6 DEF DrainedInv
<1>8. ASSUME joinedStep \in {"drained", "settled"}, Unsettled(inTime \cap Calls) = {}
      PROVE  Unsettled(inTime \cap Calls)' = {}
  <2>1. Telemetry
    BY <1>8 DEF JoinedInv
  <2>2. w \in Calls => ~Attended(w)
    BY <1>8, <2>1 DEF Attended
  <2> QED BY <1>4, <1>8, <2>2, SettledStays
<1>9. ASSUME Telemetry, "joinedRun" \notin inTime PROVE inTime' \cap Calls = {}
  <2>1. inTime \cap Calls = {}
    BY <1>9 DEF JoinedInv
  <2>2. w \in Calls => ~Attended(w)
    BY <1>9, <2>1 DEF Attended, Unsettled
  <2> QED BY <2>1, <2>2, InTimeGrows
<1>10. \A v \in inTime' : v \in Work => work'[v].step # "idle"
  <2>1. PICK p : WorkEffect(w, p)
    BY StartEffect, AdvanceEffect, EndEffect DEF WorkStep
  <2>2. work'[w].step # "idle"
    BY <2>1 DEF WorkEffect, TypeInv, TypeOK, WorkTypeOK
  <2> QED BY <2>2, OthersLog, InTimeGrows DEF JoinedInv
<1>11. JoinedInv'
  BY <1>1, <1>2, <1>3, <1>8, <1>9, <1>10 DEF JoinedInv, Telemetry
<1> QED BY <1>5, <1>7, <1>11
(* A timeout of the drain is not forgotten.                                *)
LEMMA TimeoutStays ==
  ASSUME TypeInv, TimedOut, Quiet \/ Finalize \/ RunEnds \/ EndRefused
  PROVE  TimedOut'
<1>1. CASE Quiet
  <2>1. limitations \subseteq limitations'
    BY <1>1, QuietEffect
  <2>2. rootStep = "timedOut" => rootStep' = "timedOut"
    BY <1>1, ControlsFrame DEF Quiet, RunCalled, RunCannotStart, UnrecordedReturns,
       CallbackReturns, DrainStep, DrainTimesOut, WorkPending, ManifestCommits, CommitFails,
       WriterCloses, JoinStarts, JoinedReturns, JoinedDrains, JoinedSettles, rootVars
  <2> QED BY <2>1, <2>2 DEF TimedOut
<1>2. CASE Finalize
  BY <1>2 DEF Finalize, EndingLimitations, TimedOut
<1>3. CASE RunEnds \/ EndRefused
  BY <1>3 DEF RunEnds, EndRefused, TimedOut
<1> QED BY <1>1, <1>2, <1>3

(* Steps of the run do not touch what its calls are doing.                 *)
LEMMA RunFrame ==
  ASSUME Quiet \/ RunStarts \/ Finalize \/ RunEnds \/ EndRefused, TypeInv
  PROVE  /\ UNCHANGED <<root, work, refused>>
         /\ inTime' = inTime \/ JoinStarts
         /\ \A S : Unsettled(S) = {w \in S : work'[w].step \notin {"idle", "settled"}}
<1>1. CASE Quiet
  <2>1. UNCHANGED <<root, work, refused>>
    BY <1>1, QuietFrame
  <2>2. inTime' = inTime \/ JoinStarts
    BY <1>1, ControlsFrame DEF Quiet, RunCalled, RunCannotStart, UnrecordedReturns,
       CallbackReturns, DrainStep, DrainTimesOut, ManifestCommits, CommitFails, WriterCloses,
       JoinedReturns, JoinedDrains, JoinedSettles, historyVars
  <2> QED BY <2>1, <2>2 DEF Unsettled
<1>2. CASE RunStarts \/ Finalize \/ RunEnds \/ EndRefused
  BY <1>2 DEF RunStarts, Finalize, RunEnds, EndRefused, workVars, historyVars, Unsettled
<1> QED BY <1>1, <1>2

(* A run joins while somebody waits for what it does.                      *)
LEMMA JoinKeepsDrain ==
  ASSUME TypeInv, DrainInv, JoinStarts
  PROVE  DrainInv'
<1> USE DEF DrainInv
<1>1. /\ Telemetry /\ Recorded /\ joinedStep = "none" /\ joinedStep' = "callback"
      /\ UNCHANGED <<root, status, limitations, work, rootStep, manifest>>
      /\ inTime' = IF Attended("joinedRun") THEN inTime \cup {"joinedRun"} ELSE inTime
  BY DEF JoinStarts, Started, recordingVars, recorderVars, workVars, rootVars, storeVars
<1>2. "joinedRun" \notin inTime /\ "joinedRun" \notin Work /\ "joinedRun" \notin Calls
  BY <1>1, OperationKinds, RunAssumption DEF JoinedInv, Operations
<1>3. status # "none"
  BY <1>1 DEF RecordedInv
<1>4. Attended("joinedRun") => rootStep \in Draining \/ TimedOut
  <2>1. Attended("joinedRun") => rootStep = "callback" \/ Unsettled(inTime \cap Operations) # {}
    BY <1>2 DEF Attended, Operations
  <2> QED BY <1>3, <2>1 DEF DrainedInv, Draining
<1>5. /\ inTime' \cap Calls = inTime \cap Calls
      /\ inTime' \cap Operations = inTime \cap Operations
  BY <1>1, OperationKinds DEF Operations
<1>6. DrainedInv'
  BY <1>1, <1>5 DEF DrainedInv, TimedOut, Unsettled
<1>7. RecordedInv'
  BY <1>1, <1>3 DEF RecordedInv, Recorded
<1>8. JoinedInv'
  BY <1>1, <1>2, <1>4, <1>5 DEF JoinedInv, TimedOut, Telemetry
<1> QED BY <1>6, <1>7, <1>8

(* The run that joined drains the calls it has, and tells when it cannot.  *)
LEMMA JoinedKeepsDrain ==
  ASSUME TypeInv, DrainInv, JoinedReturns \/ JoinedDrains \/ JoinedSettles
  PROVE  DrainInv'
<1> USE DEF DrainInv
<1>1. /\ joinedStep # "none" /\ joinedStep' # "none"
      /\ UNCHANGED <<root, status, work, rootStep, manifest, inTime>>
  BY DEF JoinedReturns, JoinedDrains, JoinedSettles, recordingVars, recorderVars, workVars,
     rootVars, storeVars, historyVars
<1>2. TimedOut => TimedOut'
  BY TimeoutStays DEF Quiet, JoinedReturns, JoinedDrains, JoinedSettles, TypeInv, StartInv
<1>3. \A S : Unsettled(S)' = {w \in S' : work[w].step \notin {"idle", "settled"}}
  BY <1>1 DEF Unsettled
<1>4. RecordedInv'
  BY <1>1 DEF RecordedInv, Recorded
<1>5. DrainedInv'
  BY <1>1, <1>2 DEF DrainedInv, Unsettled
<1>6. joinedStep' = "drained" => Unsettled(inTime \cap Calls) = {}
  BY DEF JoinedReturns, JoinedDrains, JoinedSettles, Pending, Unsettled
<1>7. "joinedRun" \in inTime /\ joinedStep' \notin {"none", "settled"} =>
        rootStep \in Draining \/ TimedOut
  BY <1>1 DEF JoinedInv, JoinedReturns, JoinedDrains, JoinedSettles
<1>8. ASSUME "joinedRun" \in inTime, joinedStep' = "settled"
      PROVE  Unsettled(inTime \cap Calls) = {} \/ TimedOut'
  <2>1. joinedStep \in {"drained", "timedOut"} /\ JoinedSettles
    BY <1>8 DEF JoinedReturns, JoinedDrains, JoinedSettles
  <2>2. CASE joinedStep = "drained"
    BY <1>8, <2>2 DEF JoinedInv
  <2>3. CASE joinedStep = "timedOut" /\ ~TimedOut
    <3>1. status = "running"
      BY <1>8, <2>3 DEF JoinedInv, RecordedInv
    <3>2. "drain_timed_out" \in limitations'
      BY <2>1, <2>3, <3>1 DEF JoinedSettles, StillRecorded
    <3> QED BY <3>2 DEF TimedOut
  <2> QED BY <1>2, <2>1, <2>2, <2>3
<1>9. JoinedInv'
  BY <1>1, <1>2, <1>6, <1>7, <1>8 DEF JoinedInv, Telemetry, Unsettled
<1> QED BY <1>4, <1>5, <1>9

(* The drain ends only when nothing attended is left.                      *)
LEMMA DrainEnds ==
  ASSUME TypeInv, DrainInv, DrainStep, rootStep' = "drained", ~TimedOut
  PROVE  /\ Unsettled(inTime \cap Operations) = {}
         /\ "joinedRun" \in inTime => joinedStep \in {"none", "settled"}
<1> USE DEF DrainInv
<1>1. Tracked = {} /\ ~DrainAgain
  BY DEF DrainStep
<1>2. Unsettled(SdkCalls) = {} /\ joinedStep \in {"none", "settled"}
  BY <1>1 DEF Tracked
<1>3. Unsettled(inTime \cap Calls) = {}
  <2>1. CASE ~Telemetry
    BY <1>1, <2>1 DEF DrainAgain, Pending, Unsettled
  <2>2. CASE Telemetry /\ "joinedRun" \in inTime
    BY <1>2, <2>2 DEF JoinedInv
  <2>3. CASE Telemetry /\ "joinedRun" \notin inTime
    BY <2>3 DEF JoinedInv, Unsettled
  <2> QED BY <2>1, <2>2, <2>3
<1> QED BY <1>2, <1>3 DEF Unsettled, Operations
(* The run goes on, with nothing attended left behind unless it timed out. *)
LEMMA RootMoves ==
  ASSUME DrainInv, UNCHANGED <<root, work, inTime, joinedStep>>, RecordedInv',
         TimedOut => TimedOut',
         rootStep \in Draining => \/ rootStep' \in Draining \/ TimedOut'
                                  \/ "joinedRun" \in inTime => joinedStep \in {"none", "settled"},
         status' # "none" /\ rootStep' \notin Draining /\ ~TimedOut' =>
           \/ status # "none" /\ rootStep \notin Draining
           \/ Unsettled(inTime \cap Operations) = {}
  PROVE  DrainInv'
<1> USE DEF DrainInv
<1>1. DrainedInv'
  BY DEF DrainedInv, Unsettled
<1>2. JoinedInv'
  BY DEF JoinedInv, Telemetry, Unsettled
<1> QED BY <1>1, <1>2

(* The drain waits for what is attended.                                   *)
LEMMA DrainKeeps ==
  ASSUME TypeInv, DrainInv, CallbackReturns \/ DrainStep \/ DrainTimesOut
  PROVE  DrainInv'
<1>1. UNCHANGED <<root, status, limitations, work, manifest, inTime, joinedStep>>
  BY DEF CallbackReturns, DrainStep, DrainTimesOut, recordingVars, recorderVars, workVars,
     joinedVars, storeVars, historyVars
<1>2. rootStep \in Draining /\ rootStep' \in {"draining", "tracked", "drained", "timedOut"}
  BY DEF CallbackReturns, DrainStep, DrainTimesOut, WorkPending, Draining
<1>3. RecordedInv'
  BY <1>1, <1>2 DEF DrainInv, RecordedInv, Recorded, Draining
<1>4. TimedOut => TimedOut'
  BY <1>1, <1>2 DEF TimedOut, Draining
<1>5. rootStep' = "timedOut" => TimedOut'
  BY DEF TimedOut
<1>6. rootStep' = "drained" => DrainStep
  BY DEF CallbackReturns, DrainTimesOut
<1>7. rootStep' = "drained" /\ ~TimedOut =>
        /\ Unsettled(inTime \cap Operations) = {}
        /\ "joinedRun" \in inTime => joinedStep \in {"none", "settled"}
  BY <1>6, DrainEnds
<1>8. rootStep' \notin Draining => rootStep' \in {"drained", "timedOut"}
  BY <1>2 DEF Draining
<1> QED BY <1>1, <1>3, <1>4, <1>5, <1>7, <1>8, RootMoves

(* What follows it, and what comes before, attends nothing new.            *)
LEMMA AfterwardsKeeps ==
  ASSUME TypeInv, DrainInv,
         \/ RunCalled \/ RunCannotStart \/ UnrecordedReturns
         \/ ManifestCommits \/ CommitFails \/ WriterCloses \/ Controls
         \/ RunStarts \/ Finalize \/ RunEnds \/ EndRefused
  PROVE  DrainInv'
<1>1. UNCHANGED <<root, work, inTime, joinedStep>>
  BY ControlsFrame
     DEF RunCalled, RunCannotStart, UnrecordedReturns, ManifestCommits, CommitFails,
     WriterCloses, RunStarts, Finalize, RunEnds, EndRefused, recordingVars, workVars,
     joinedVars, historyVars
<1>2. CASE RunStarts
  <2>1. /\ rootStep' = "callback" /\ status' = "running"
        /\ joinedStep = "none"
    BY <1>2 DEF RunStarts, TypeInv, StartInv
  <2>2. RecordedInv'
    BY <2>1 DEF RecordedInv
  <2>3. DrainedInv'
    BY <2>1 DEF DrainedInv, Draining
  <2>4. JoinedInv'
    BY <1>1, <2>1 DEF DrainInv, JoinedInv, Telemetry
  <2> QED BY <2>2, <2>3, <2>4 DEF DrainInv
<1>3. CASE RunCalled \/ RunCannotStart \/ UnrecordedReturns
  <2>1. /\ rootStep \in NotStarted \cup {"unrecorded"}
        /\ rootStep' \in {"starting", "unrecorded", "settled"}
        /\ UNCHANGED <<status, limitations, manifest>>
    BY <1>3 DEF RunCalled, RunCannotStart, UnrecordedReturns, recordingVars, recorderVars,
         storeVars
  <2>2. RecordedInv' /\ status' = "none"
    BY <1>1, <2>1 DEF DrainInv, RecordedInv, Recorded, Draining
  <2>3. TimedOut => TimedOut'
    BY <2>1 DEF TimedOut
  <2> QED BY <1>1, <2>1, <2>2, <2>3, RootMoves DEF Draining
<1>4. CASE Controls
  <2>1. UNCHANGED <<status, limitations, manifest, rootStep>>
    BY <1>4, ControlsFrame DEF recordingVars, recorderVars, rootVars
  <2>2. RecordedInv' /\ (TimedOut => TimedOut')
    BY <1>1, <2>1 DEF DrainInv, RecordedInv, Recorded, TimedOut
  <2> QED BY <1>1, <2>1, <2>2, RootMoves
<1>5. CASE ManifestCommits \/ CommitFails \/ WriterCloses \/ Finalize \/ RunEnds \/ EndRefused
  <2>1. /\ rootStep \in {"drained", "timedOut", "ending", "committing", "closing"}
        /\ rootStep' \in {"ending", "committing", "closing", "settled"}
        /\ status' = status \/ (status' \in TerminalStatus /\ rootStep' = "committing")
    BY <1>5 DEF ManifestCommits, CommitFails, WriterCloses, Finalize, RunEnds, EndRefused,
         recordingVars, recorderVars
  <2>2. rootStep' = "ending" => rootStep \in {"drained", "timedOut"}
    BY <1>5 DEF ManifestCommits, CommitFails, WriterCloses, Finalize, RunEnds, EndRefused
  <2>3. status # "none" /\ status' # "none"
    BY <2>1 DEF DrainInv, RecordedInv, TerminalStatus
  <2>4. RecordedInv'
    BY <1>1, <2>1, <2>2, <2>3 DEF DrainInv, RecordedInv, Draining
  <2>5. TimedOut => TimedOut'
    BY <1>5, <2>1, TimeoutStays DEF Quiet
  <2> QED BY <1>1, <2>1, <2>3, <2>4, <2>5, RootMoves DEF Draining
<1> QED BY <1>2, <1>3, <1>4, <1>5

(* Every step keeps it.                                                    *)
LEMMA StepDrain == TypeInv /\ DrainInv /\ [Next]_vars => DrainInv'
<1> SUFFICES ASSUME TypeInv, DrainInv, [Next]_vars PROVE DrainInv'
  OBVIOUS
<1>1. CASE UNCHANGED vars
  <2>1. UNCHANGED <<root, status, limitations, work, rootStep, manifest, inTime>>
    BY <1>1, Stutter
  <2>2. UNCHANGED joinedStep
    BY <1>1 DEF vars, runVars, joinedVars
  <2>3. RecordedInv' /\ (TimedOut => TimedOut')
    BY <2>1, <2>2 DEF DrainInv, RecordedInv, Recorded, TimedOut
  <2> QED BY <2>1, <2>2, <2>3, RootMoves
<1> QED
  BY <1>1, StepKinds, WorkKeepsDrain, DrainKeeps, AfterwardsKeeps, JoinKeepsDrain,
     JoinedKeepsDrain DEF Quiet

-----------------------------------------------------------------------------
(* A call that was attended leaves its response in the log.                *)
Unrequested(p) ==
  p.step = "idle" \/ (p.step \in {"redacting", "queued"} /\ p.event = "requested")
Responded(w) == Logged("completed", w) \/ Logged("failed", w)
LifeInv ==
  \A w \in Operations :
    /\ Unrequested(work[w]) => ~Logged("requested", w)
    /\ work[w].step = "settled" /\ w \in inTime \ refused /\ Logged("requested", w) =>
         Responded(w) \/ TimedOut

(* What a call does leaves a response or a reason,                         *)
LEMMA WorkKeepsLife ==
  ASSUME TypeInv, EventInv, DrainInv, LifeInv, NEW w \in Work, WorkStep(w)
  PROVE  LifeInv'
<1>1. TimedOut => TimedOut'
  BY WorkFrame DEF TimedOut, rootVars
<1>2. ASSUME NEW v \in Operations, v # w
      PROVE  /\ Unrequested(work[v])' => ~Logged("requested", v)'
             /\ work'[v].step = "settled" /\ v \in inTime' \ refused' /\ Logged("requested", v)'
                  => Responded(v)' \/ TimedOut'
  <2>1. v \in Work \ {w}
    BY <1>2, OperationKinds
  <2>2. /\ work'[v] = work[v] /\ refused \subseteq refused'
        /\ \A type : Logged(type, v)' <=> Logged(type, v)
    BY <2>1, OthersLog
  <2>3. v \in inTime' => v \in inTime
    BY <1>2, InTimeGrows
  <2> QED BY <1>1, <2>2, <2>3 DEF LifeInv, Unrequested, Responded
<1>3. ASSUME w \in Operations
      PROVE  /\ Unrequested(work[w])' => ~Logged("requested", w)'
             /\ work'[w].step = "settled" /\ w \in inTime' \ refused' /\ Logged("requested", w)'
                  => Responded(w)' \/ TimedOut'
  <2>1. Life(w)
    BY <1>3, StartLife, AdvanceLife, EndLife DEF WorkStep
  <2>2. log' = log => (Logged("requested", w)' <=> Logged("requested", w))
    BY DEF Logged
  <2>3. Unrequested(work[w])' => ~Logged("requested", w)'
    BY <1>3, <2>1, <2>2 DEF Life, Unrequested, LifeInv
  <2>4. status # "running" /\ Active(work[w]) /\ w \in inTime' => TimedOut'
    <3>1. SUFFICES ASSUME status # "running", Active(work[w]), w \in inTime'
                   PROVE  TimedOut
      BY <1>1
    <3>2. w \in Unsettled(inTime \cap Operations)
      BY <1>3, <3>1, InTimeGrows DEF Active, Unsettled
    <3>3. status # "none" /\ rootStep \notin Draining
      BY <3>1, WorkKeepsRecorded DEF DrainInv, RecordedInv
    <3> QED BY <3>2, <3>3 DEF DrainInv, DrainedInv
  <2>5. work[w].step = "idle" /\ log' = log => ~Logged("requested", w)'
    BY <1>3, <2>2 DEF LifeInv, Unrequested
  <2> QED BY <2>1, <2>3, <2>4, <2>5 DEF Life, Responded
<1>4. ASSUME NEW v \in Operations
      PROVE  /\ Unrequested(work[v])' => ~Logged("requested", v)'
             /\ work'[v].step = "settled" /\ v \in inTime' \ refused' /\ Logged("requested", v)'
                  => Responded(v)' \/ TimedOut'
  BY <1>2, <1>3
<1> QED BY <1>4 DEF LifeInv

(* and what the run does takes neither away.                               *)
LEMMA RunKeepsLife ==
  ASSUME TypeInv, LifeInv, Quiet \/ RunStarts \/ Finalize \/ RunEnds \/ EndRefused
  PROVE  LifeInv'
<1>1. /\ UNCHANGED <<work, refused>>
      /\ \A v \in Operations : v \in inTime' => v \in inTime
  BY RunFrame, OperationKinds DEF JoinStarts, Started
<1>2. CASE RunStarts
  <2>1. \A v \in Operations : work[v].step = "idle"
    BY <1>2, OperationKinds DEF RunStarts, TypeInv, StartInv
  <2>2. log' = <<Entry("run.started", Agent)>>
    BY <1>2 DEF RunStarts
  <2>3. \A v : ~Logged("requested", v)'
    BY <2>2 DEF Logged, Entry
  <2> QED BY <1>1, <2>1, <2>3 DEF LifeInv
<1>3. CASE Quiet \/ Finalize \/ RunEnds \/ EndRefused
  <2>1. \A v \in Operations : \A type : Logged(type, v)' <=> Logged(type, v)
    <3>1. CASE log' = log
      BY <3>1 DEF Logged
    <3>2. CASE RunEnds
      <4>1. /\ log' = Append(log, Head(queue)) /\ log \in Seq(Entries)
            /\ Head(queue) \in Entries /\ Head(queue).by = Agent
        BY <3>2, EndLeaves DEF RunEnds, TypeInv, TypeOK, WorkTypeOK
      <4>2. /\ DOMAIN log = 1..Len(log) /\ DOMAIN log' = 1..(Len(log) + 1)
            /\ log'[Len(log) + 1] = Head(queue) /\ \A i \in 1..Len(log) : log'[i] = log[i]
        BY <4>1
      <4>3. /\ \A i \in DOMAIN log : i \in DOMAIN log'
            /\ \A i \in DOMAIN log' : i \in DOMAIN log \/ i = Len(log) + 1
        BY <4>1, <4>2
      <4>4. \A v \in Operations : \A type : Head(queue) # Entry(type, v)
        <5>1. \A v, type : Entry(type, v).by = v
          BY DEF Entry
        <5> QED BY <4>1, <5>1, OperationKinds
      <4> QED BY <4>2, <4>3, <4>4 DEF Logged
    <3> QED BY <1>3, <3>1, <3>2, QuietFrame DEF Finalize, EndRefused
  <2>2. TimedOut => TimedOut'
    BY <1>3, TimeoutStays
  <2> QED BY <1>1, <2>1, <2>2 DEF LifeInv, Unrequested, Responded
<1> QED BY <1>2, <1>3

EvidenceInv == EventInv /\ DrainInv /\ LifeInv

(* Every step keeps all of it.                                             *)
LEMMA StepEvidence == TypeInv /\ EvidenceInv /\ [Next]_vars => EvidenceInv'
<1> SUFFICES ASSUME TypeInv, EvidenceInv, [Next]_vars PROVE EvidenceInv'
  OBVIOUS
<1>1. EventInv' /\ DrainInv'
  BY StepEvents, StepDrain DEF EvidenceInv
<1>2. CASE UNCHANGED vars
  <2>1. UNCHANGED <<log, limitations, work, refused, rootStep, inTime>>
    BY <1>2, Stutter
  <2>2. LifeInv'
    BY <2>1 DEF EvidenceInv, LifeInv, Unrequested, Responded, Logged, TimedOut
  <2> QED BY <1>1, <2>2 DEF EvidenceInv
<1> QED BY <1>1, <1>2, StepKinds, WorkKeepsLife, RunKeepsLife DEF EvidenceInv

(* Unless a finished manifest says that the drain timed out, every request *)
(* in the log that was made while somebody waited for it has its response  *)
(* there, or recording that failed: for any number of wrapped calls, SDK   *)
(* calls and streams, in a run of its own or joined to another             *)
(* (instrument.ts:709, context.ts:67).                                     *)
THEOREM EvidenceIsComplete == Spec => []CompleteEvidence
<1>1. Init => EvidenceInv
  <2> SUFFICES ASSUME Init PROVE EvidenceInv
    OBVIOUS
  <2>1. \A w \in Work : work[w].step = "idle"
    BY DEF Init, WorkInit, At
  <2>2. EventInv /\ RecordedInv /\ DrainedInv
    BY <2>1 DEF Init, WorkInit, EventInv, RecordedInv, DrainedInv, Draining, Recorded
  <2>3. JoinedInv
    BY DEF Init, JoinedInv
  <2>4. LifeInv
    BY DEF Init, WorkInit, LifeInv, Logged
  <2> QED BY <2>2, <2>3, <2>4 DEF EvidenceInv, DrainInv
<1>2. Init => ManifestInv
  BY DEF Init, WorkInit, ManifestInv, Finished, NoManifest, TerminalStatus
<1>3. TypeInv /\ ManifestInv /\ EvidenceInv => CompleteEvidence
  <2> SUFFICES ASSUME TypeInv, ManifestInv, EvidenceInv, Finished,
                      "drain_timed_out" \notin manifest.limitations,
                      NEW w \in (inTime \cap (Calls \cup SdkCalls)) \ refused,
                      Logged("requested", w)
               PROVE  Responded(w)
    BY DEF CompleteEvidence, Responded
  <2>1. /\ manifest = CurrentManifest /\ rootStep \in {"closing", "settled"}
        /\ status = manifest.status /\ status \in TerminalStatus
    BY DEF ManifestInv, CurrentManifest, Finished
  <2>2. ~TimedOut
    BY <2>1 DEF TimedOut, CurrentManifest
  <2>3. status # "none" /\ rootStep \notin Draining
    BY <2>1 DEF TerminalStatus, Draining
  <2>4. w \notin Unsettled(inTime \cap Operations) /\ w \in Operations
    BY <2>2, <2>3 DEF EvidenceInv, DrainInv, DrainedInv, Operations
  <2>5. work[w].step \in {"idle", "settled"}
    BY <2>4 DEF Unsettled, Operations
  <2> QED BY <2>2, <2>4, <2>5 DEF EvidenceInv, LifeInv, Unrequested
<1> QED BY <1>1, <1>2, <1>3, StepManifest, StepEvidence, TypesInvariant, PTL DEF Spec
=============================================================================
