----------------------------- MODULE OtlpExport -----------------------------
(***************************************************************************)
(* createOtlpExporter() on top of the queue and the sender: exportSnapshot *)
(* enqueues the batches of one snapshot, one after the other, and then     *)
(* chains a background flush; flush() and shutdown() wait for the flushes  *)
(* chained so far and then flush once more themselves.  What the           *)
(* background flushes report is remembered until one of them returns it.   *)
(***************************************************************************)
EXTENDS OtlpQueue

VARIABLES
  toQueue,     \* batches the running exportSnapshot has not queued yet
  queuedAny,   \* it has queued one
  backlog,     \* length of the chain `background`
  explicit,    \* the flush() or shutdown() call: "none", "awaiting" the chain, "flushing"
  awaited,     \* flushes of the chain it still waits for
  remembered,  \* the failures in completedBackgroundDeliveries
  taken        \* those the explicit flush will return with its own

exporterVars == <<toQueue, queuedAny, backlog, explicit, awaited, remembered, taken>>
vars == <<sending, queueVars, exporterVars>>

TypeOK ==
  /\ HttpTypeOK /\ QueueTypeOK
  /\ toQueue \in [Exporters -> 0..MaxBatches]
  /\ queuedAny \in [Exporters -> BOOLEAN]
  /\ backlog \in [Exporters -> Nat]
  /\ explicit \in [Exporters -> {"none", "awaiting", "flushing"}]
  /\ awaited \in [Exporters -> Nat]
  /\ remembered \in [Exporters -> SUBSET Batches]
  /\ taken \in [Exporters -> SUBSET Batches]

Init ==
  /\ HttpInit /\ QueueInit
  /\ toQueue = [e \in Exporters |-> 0]
  /\ queuedAny = [e \in Exporters |-> FALSE]
  /\ backlog = [e \in Exporters |-> 0]
  /\ explicit = [e \in Exporters |-> "none"]
  /\ awaited = [e \in Exporters |-> 0]
  /\ remembered = [e \in Exporters |-> {}]
  /\ taken = [e \in Exporters |-> {}]

-----------------------------------------------------------------------------
Settled(c) == call[c].step = "idle" /\ call[c].result # "none"
NotCalling(c) == call[c].step = "idle" /\ call[c].result = "none"
Begin(c) == call' = [call EXCEPT ![c] = NewCall]
Resumed(c) == call' = [call EXCEPT ![c] = NoCall]

OtherQueueVars == <<entries, expired, lock, lockStale, queued, settled, sending>>

(* The number of batches still to come keeps to the bound.                 *)
Outstanding == MapThenSumSet(LAMBDA e : toQueue[e], Exporters)

(* exportSnapshot(): a snapshot whose spans split into n batches.          *)
ExportSnapshot(e, n) ==
  /\ toQueue[e] = 0
  /\ Cardinality(queued) + Outstanding + n <= MaxBatches
  /\ toQueue' = [toQueue EXCEPT ![e] = n]
  /\ queuedAny' = [queuedAny EXCEPT ![e] = FALSE]
  /\ Begin(<<e, "export">>)
  /\ UNCHANGED <<OtherQueueVars, backlog, explicit, awaited, remembered, taken>>

(* A batch that was refused ends the export; the ones before it stay, and  *)
(* are flushed.                                                            *)
BatchQueued(e) ==
  LET c == <<e, "export">>
      ok == call[c].result = "queued"
      rest == IF ok THEN toQueue[e] - 1 ELSE 0 IN
  /\ Settled(c)
  /\ toQueue' = [toQueue EXCEPT ![e] = rest]
  /\ queuedAny' = [queuedAny EXCEPT ![e] = rest > 0]
  /\ IF rest > 0 THEN Begin(c) ELSE Resumed(c)
  /\ backlog' = [backlog EXCEPT ![e] = @ + IF rest = 0 /\ (ok \/ queuedAny[e]) THEN 1 ELSE 0]
  /\ UNCHANGED <<OtherQueueVars, explicit, awaited, remembered, taken>>

StartBackgroundFlush(e) ==
  /\ backlog[e] > 0 /\ NotCalling(<<e, "background">>)
  /\ Begin(<<e, "background">>)
  /\ UNCHANGED <<OtherQueueVars, exporterVars>>

(* Fault: a flush that throws breaks the chain.                            *)
EndBackgroundFlushUncaught(e) ==
  LET c == <<e, "background">> IN
  /\ Settled(c) /\ call[c].result = "flushed"
  /\ remembered' = [remembered EXCEPT ![e] = @ \cup call[c].failures]
  /\ Resumed(c)
  /\ backlog' = [backlog EXCEPT ![e] = @ - 1]
  /\ awaited' = [awaited EXCEPT ![e] = IF @ = 0 THEN 0 ELSE @ - 1]
  /\ UNCHANGED <<OtherQueueVars, toQueue, queuedAny, explicit, taken>>

(* The report is remembered; a flush that threw leaves one that says no    *)
(* more than that.                                                         *)
EndBackgroundFlush(e) ==
  LET c == <<e, "background">> IN
  /\ Settled(c)
  /\ remembered' = [remembered EXCEPT ![e] = @ \cup call[c].failures]
  /\ Resumed(c)
  /\ backlog' = [backlog EXCEPT ![e] = @ - 1]
  /\ awaited' = [awaited EXCEPT ![e] = IF @ = 0 THEN 0 ELSE @ - 1]
  /\ UNCHANGED <<OtherQueueVars, toQueue, queuedAny, explicit, taken>>

(* flush() or shutdown(): `await background` waits for the chain as it is  *)
(* at the call.                                                            *)
Flush(e) ==
  /\ explicit[e] = "none"
  /\ explicit' = [explicit EXCEPT ![e] = "awaiting"]
  /\ awaited' = [awaited EXCEPT ![e] = backlog[e]]
  /\ UNCHANGED <<OtherQueueVars, call, toQueue, queuedAny, backlog, remembered, taken>>

FlushAfterBackground(e) ==
  /\ explicit[e] = "awaiting" /\ awaited[e] = 0
  /\ explicit' = [explicit EXCEPT ![e] = "flushing"]
  /\ taken' = [taken EXCEPT ![e] = remembered[e]]
  /\ remembered' = [remembered EXCEPT ![e] = {}]
  /\ Begin(<<e, "flush">>)
  /\ UNCHANGED <<OtherQueueVars, toQueue, queuedAny, backlog, awaited>>

(* Both reports are returned, or failedFlush() when the queue threw.       *)
FlushReturns(e) ==
  /\ Settled(<<e, "flush">>)
  /\ explicit' = [explicit EXCEPT ![e] = "none"]
  /\ taken' = [taken EXCEPT ![e] = {}]
  /\ Resumed(<<e, "flush">>)
  /\ UNCHANGED <<OtherQueueVars, toQueue, queuedAny, backlog, awaited, remembered>>

Crash(e) ==
  /\ QueueCrash(e)
  /\ toQueue' = [toQueue EXCEPT ![e] = 0]
  /\ queuedAny' = [queuedAny EXCEPT ![e] = FALSE]
  /\ backlog' = [backlog EXCEPT ![e] = 0]
  /\ explicit' = [explicit EXCEPT ![e] = "none"]
  /\ awaited' = [awaited EXCEPT ![e] = 0]
  /\ remembered' = [remembered EXCEPT ![e] = {}]
  /\ taken' = [taken EXCEPT ![e] = {}]

ExportStep(e) == BatchQueued(e) \/ (CallerStep(<<e, "export">>) /\ UNCHANGED exporterVars)
BackgroundStep(e) ==
  \/ StartBackgroundFlush(e) \/ EndBackgroundFlush(e)
  \/ CallerStep(<<e, "background">>) /\ UNCHANGED exporterVars
ExplicitStep(e) ==
  \/ FlushAfterBackground(e) \/ FlushReturns(e)
  \/ CallerStep(<<e, "flush">>) /\ UNCHANGED exporterVars

Next ==
  \/ \E e \in Exporters :
       \/ \E n \in 1..MaxBatches : ExportSnapshot(e, n)
       \/ Flush(e) \/ Crash(e)
       \/ ExportStep(e) \/ BackgroundStep(e) \/ ExplicitStep(e)
  \/ EnvironmentStep /\ UNCHANGED exporterVars

Spec == Init /\ [][Next]_vars

(* The continuations of an exportSnapshot call run, and its file-system    *)
(* calls return; nothing is assumed of the collector or of the flushes.    *)
FairSpec == Spec /\ \A e \in Exporters : WF_vars(ExportStep(e))

(* So do those of the flushes, and every request is answered or times out  *)
(* (timeoutMs).                                                            *)
DeliveryFairness ==
  \A e \in Exporters : WF_vars(BackgroundStep(e)) /\ WF_vars(ExplicitStep(e))

-----------------------------------------------------------------------------
(* Whoever is inside withLock() owns the lock file, so that no two callers *)
(* scan, commit, send or remove entries at the same time; true as long as  *)
(* no lock grows stale.                                                    *)
LockHeld == \A c \in Callers : InSection(c) => lock = c

(* Test "permits only one queue consumer at a time".                       *)
OneConsumer == \A c, d \in Callers : InSection(c) /\ InSection(d) => c = d

(* Whatever happens to the lock: a batch whose enqueue succeeded has its   *)
(* file until a flush got a final report for it, or its retention is over. *)
NoSilentLoss == queued \subseteq entries \cup settled \cup expired

(* A flush works from the scan it made, through every send and pause, and *)
(* still never posts a batch that has left the queue by then.              *)
OnlyQueuedBatchesAreSent ==
  \A c \in Callers : sending[c].state \in {"waiting", "pausing"} =>
    sending[c].batch \in entries

Held(e) == remembered[e] \cup taken[e]

(* Comment in exporter.ts: "A queued delivery failure is observable        *)
(* through later flush/shutdown".  What a background flush reported failed *)
(* is only given up when an explicit flush returns it.                     *)
FailuresObservable ==
  [][\A e \in Exporters :
       \/ Held(e) \subseteq Held(e)'
       \/ FlushReturns(e) /\ call[<<e, "flush">>].result = "flushed"
       \/ Crash(e)]_vars

(* exportSnapshot only waits for the queue, never for a delivery.          *)
ExportEnds == \A e \in Exporters : toQueue[e] > 0 ~> toQueue[e] = 0

(* flush() and shutdown() come to an end, whatever exports chain behind    *)
(* them and whoever holds or leaves the lock.                              *)
FlushEnds ==
  DeliveryFairness => \A e \in Exporters : explicit[e] # "none" ~> explicit[e] = "none"

(* What the scan of an enqueue that is about to commit has not read.       *)
PassedOver == UNION {entries \ call[c].todo : c \in {d \in Callers : call[d].step = "commit"}}

(* The queue directory as its users may rely on it.                        *)
Outbox == INSTANCE OtlpOutbox WITH
  Capacity <- MaxEntries, outbox <- entries, put <- queued, answered <- settled,
  unread <- PassedOver
OutboxSpec == Outbox!Spec
=============================================================================
