----------------------------- MODULE OtlpQueue -----------------------------
(***************************************************************************)
(* The persistent OTLP queue: one file per batch in entries/ and a lock    *)
(* file consumer.lock that enqueue, flush and shutdown take and remove.    *)
(* Several queue objects, in one process or in many, share the directory.  *)
(* A lock file whose mtime is older than lockStaleMs may be taken over.    *)
(***************************************************************************)
EXTENDS OtlpHttpClient, FiniteSetsExt

CONSTANTS
  NoOne,        \* no lock file
  MaxEntries,   \* maxEntries (and maxBytes) of the queue
  Takeover      \* which lock files grow older than lockStaleMs: "never", those
                \* "abandoned" by their owner, or "any", its owner being slow

ASSUME QueueAssumption ==
  /\ NoOne \notin Callers
  /\ MaxEntries \in Nat
  /\ Takeover \in {"never", "abandoned", "any"}

VARIABLES
  entries,    \* batches with a file in entries/
  expired,    \* batches whose expiresAt has passed
  lock,       \* who created consumer.lock
  lockStale,  \* its mtime is older than lockStaleMs
  call,       \* per caller: the enqueue or flush it awaits
  queued,     \* history: batches ever committed
  settled     \* history: batches a flush got a final report for

queueVars == <<entries, expired, lock, lockStale, call, queued, settled>>

Section == {"scan", "commit", "send", "rescan", "release"}
Results == {"none", "queued", "not_queued", "flushed", "threw"}

(* todo: the entries that the scan has read, for a flush those not sent    *)
(* yet; failures: of the deliveries reported so far, the batches that were *)
(* not accepted; result: what the promise settles to, for the exporter to  *)
(* pick up when the step is idle.                                          *)
Call == [step : {"idle", "open", "stat", "unlink"} \cup Section, tries : 0..1,
         todo : SUBSET Batches, failures : SUBSET Batches, result : Results]
NoCall == [step |-> "idle", tries |-> 0, todo |-> {}, failures |-> {}, result |-> "none"]
NewCall == [NoCall EXCEPT !.step = "open"]

QueueTypeOK ==
  /\ entries \subseteq Batches
  /\ expired \subseteq Batches
  /\ lock \in Callers \cup {NoOne}
  /\ lockStale \in BOOLEAN
  /\ call \in [Callers -> Call]
  /\ queued \subseteq Batches
  /\ settled \subseteq Batches

QueueInit ==
  /\ entries = {} /\ expired = {}
  /\ lock = NoOne /\ lockStale = FALSE
  /\ call = [c \in Callers |-> NoCall]
  /\ queued = {} /\ settled = {}

-----------------------------------------------------------------------------
Enqueues(c) == c[2] = "export"
InSection(c) == call[c].step \in Section
Failure(c) == IF Enqueues(c) THEN "not_queued" ELSE "threw"

Goto(c, step) == call' = [call EXCEPT ![c] = [@ EXCEPT !.step = step]]
Finish(c, result) == call' = [call EXCEPT ![c] = [@ EXCEPT !.step = "idle", !.tries = 0,
                                                           !.result = result]]
(* The operation is over, well or badly; the lock file goes next.          *)
Leave(c, result) == call' = [call EXCEPT ![c] = [@ EXCEPT !.step = "release", !.todo = {},
                                                          !.result = result]]

(* Fault: the caller waits until it gets the lock.                         *)
NextTryForever(c) == Goto(c, "open")

(* acquireLock() goes round its loop at most twice.                        *)
NextTry(c) ==
  \/ /\ call[c].tries = 0
     /\ call' = [call EXCEPT ![c] = [@ EXCEPT !.step = "open", !.tries = 1]]
  \/ call[c].tries = 1 /\ Finish(c, Failure(c))

(* Fault: open(lockPath, "w").                                             *)
CreateLockShared(c) ==
  /\ call[c].step = "open"
  /\ lock' = c /\ lockStale' = FALSE
  /\ call' = [call EXCEPT ![c] = [@ EXCEPT !.step = "scan", !.tries = 0]]
  /\ UNCHANGED <<entries, expired, queued, settled, sending>>

(* open(lockPath, "wx") and writing the pid.                               *)
CreateLock(c) ==
  /\ call[c].step = "open" /\ lock = NoOne
  /\ lock' = c /\ lockStale' = FALSE
  /\ call' = [call EXCEPT ![c] = [@ EXCEPT !.step = "scan", !.tries = 0]]
  /\ UNCHANGED <<entries, expired, queued, settled, sending>>

(* The lock file cannot be created, or is there but cannot be written:     *)
(* QUEUE_LOCK_FAILED, and it stays.                                        *)
CreateLockFails(c) ==
  /\ call[c].step = "open"
  /\ \/ UNCHANGED <<lock, lockStale>>
     \/ lock = NoOne /\ lock' = c /\ lockStale' = FALSE
  /\ Finish(c, Failure(c))
  /\ UNCHANGED <<entries, expired, queued, settled, sending>>

FindLock(c) ==
  /\ call[c].step = "open" /\ lock # NoOne
  /\ Goto(c, "stat")
  /\ UNCHANGED <<entries, expired, lock, lockStale, queued, settled, sending>>

(* Fault: a lock is taken over whatever its age.                           *)
StatLockIgnoringAge(c) ==
  /\ call[c].step = "stat"
  /\ IF lock = NoOne THEN NextTry(c) ELSE Goto(c, "unlink")
  /\ UNCHANGED <<entries, expired, lock, lockStale, queued, settled, sending>>

(* stat() of the lock file: gone or not readable, stale, or QUEUE_LOCKED.  *)
StatLock(c) ==
  /\ call[c].step = "stat"
  /\ \/ NextTry(c)
     \/ lock # NoOne /\ lockStale /\ Goto(c, "unlink")
     \/ lock # NoOne /\ ~lockStale /\ Finish(c, Failure(c))
  /\ UNCHANGED <<entries, expired, lock, lockStale, queued, settled, sending>>

(* unlink() of the path that was found stale, whatever file it names now.  *)
UnlinkStaleLock(c) ==
  /\ call[c].step = "unlink"
  /\ lock' \in {lock, NoOne} /\ lockStale' = (lock' # NoOne /\ lockStale)
  /\ NextTry(c)
  /\ UNCHANGED <<entries, expired, queued, settled, sending>>

ReleaseLock(c) ==
  /\ call[c].step = "release"
  /\ lock' \in {lock, NoOne} /\ lockStale' = (lock' # NoOne /\ lockStale)
  /\ Finish(c, call[c].result)
  /\ UNCHANGED <<entries, expired, queued, settled, sending>>

AcquireStep(c) ==
  CreateLock(c) \/ CreateLockFails(c) \/ FindLock(c) \/ StatLock(c) \/ UnlinkStaleLock(c)

-----------------------------------------------------------------------------
(* Fault: one entry too many.                                              *)
FullOffByOne(live) == Cardinality(live) > MaxEntries

Full(live) == Cardinality(live) >= MaxEntries

(* scan(true): a file that cannot be read or parsed is passed over, and    *)
(* stays whatever its age; expired entries are removed, as far as they can *)
(* be; the rest is what the operation goes by from here on.                *)
Scan(c) ==
  /\ call[c].step = "scan"
  /\ \/ \E live \in SUBSET (entries \ expired), kept \in SUBSET (entries \cap expired) :
          /\ entries' = (entries \ expired) \cup kept
          /\ IF Enqueues(c) /\ Full(live) THEN Leave(c, "not_queued")
             ELSE call' = [call EXCEPT ![c] =
                    [@ EXCEPT !.step = IF Enqueues(c) THEN "commit" ELSE "send", !.todo = live]]
     \/ Leave(c, Failure(c)) /\ UNCHANGED entries
  /\ UNCHANGED <<expired, lock, lockStale, queued, settled, sending>>

(* link() of the written and synced temporary file under the batch id.     *)
Commit(c) ==
  LET b == Cardinality(queued) + 1 IN
  /\ call[c].step = "commit"
  /\ \/ /\ b \in Batches
        /\ entries' = entries \cup {b} /\ queued' = queued \cup {b}
        /\ Leave(c, "queued")
     \/ Leave(c, "not_queued") /\ UNCHANGED <<entries, queued>>
  /\ UNCHANGED <<expired, lock, lockStale, settled, sending>>

(* The loop of flushInternal(): entries in order of creation, each sent    *)
(* from what the scan read of it.                                          *)
SendNext(c) ==
  LET b == Min(call[c].todo) IN
  /\ call[c].step = "send" /\ sending[c].state = "none" /\ call[c].todo # {}
  /\ BeginSend(c, b)
  /\ call' = [call EXCEPT ![c].todo = @ \ {b}]
  /\ UNCHANGED <<entries, expired, lock, lockStale, queued, settled>>

(* Nothing left, or the deadline has passed.                               *)
StopSending(c) ==
  /\ call[c].step = "send" /\ sending[c].state = "none"
  /\ call[c].todo = {} \/ MayAbort(c)
  /\ call' = [call EXCEPT ![c] = [@ EXCEPT !.step = "rescan", !.todo = {}]]
  /\ UNCHANGED <<entries, expired, lock, lockStale, queued, settled, sending>>

(* A delivery report: a final one removes the entry (an error is ignored), *)
(* any other writes it back, under its name whether it is still there or   *)
(* not; when that fails the flush throws, and its reports are gone.        *)
Settle(c) ==
  LET b == sending[c].batch
      failure == IF sending[c].state = "accepted" THEN {} ELSE {b} IN
  /\ call[c].step = "send" /\ sending[c].state \in Reported
  /\ sending' = [sending EXCEPT ![c] = NotSending]
  /\ \/ /\ sending[c].state \in FinalStates
        /\ entries' \in {entries, entries \ {b}}
        /\ call' = [call EXCEPT ![c].failures = @ \cup failure]
     \/ /\ sending[c].state \notin FinalStates
        /\ entries' = entries \cup {b}
        /\ call' = [call EXCEPT ![c].failures = @ \cup failure]
     \/ /\ sending[c].state \notin FinalStates
        /\ call' = [call EXCEPT ![c] = [@ EXCEPT !.step = "release", !.todo = {},
                                                 !.failures = {}, !.result = "threw"]]
        /\ UNCHANGED entries
  /\ settled' = IF sending[c].state \in {"exhausted", "unknown_delivery"} THEN settled
                                                                        ELSE settled \cup {b}
  /\ UNCHANGED <<expired, lock, lockStale, queued>>

(* scan(false) for pendingCount; the reports go with it when it throws.    *)
Rescan(c) ==
  /\ call[c].step = "rescan"
  /\ \/ Leave(c, "flushed")
     \/ call' = [call EXCEPT ![c] = [@ EXCEPT !.step = "release", !.failures = {},
                                              !.result = "threw"]]
  /\ UNCHANGED <<entries, expired, lock, lockStale, queued, settled, sending>>

FlushStep(c) == SendNext(c) \/ StopSending(c) \/ Settle(c) \/ Rescan(c)

-----------------------------------------------------------------------------
LockAges ==
  /\ lock # NoOne /\ ~lockStale
  /\ \/ Takeover = "any"
     \/ Takeover = "abandoned" /\ ~InSection(lock)
  /\ lockStale' = TRUE
  /\ UNCHANGED <<entries, expired, lock, call, queued, settled, sending>>

Expire(b) ==
  /\ b \in entries \ expired
  /\ expired' = expired \cup {b}
  /\ UNCHANGED <<entries, lock, lockStale, call, queued, settled, sending>>

(* A process dies: its calls are gone, its files stay as they are.         *)
QueueCrash(e) ==
  /\ call' = [c \in Callers |-> IF c[1] = e THEN NoCall ELSE call[c]]
  /\ sending' = [c \in Callers |-> IF c[1] = e THEN NotSending ELSE sending[c]]
  /\ UNCHANGED <<entries, expired, lock, lockStale, queued, settled>>

CallerStep(c) ==
  \/ AcquireStep(c) \/ ReleaseLock(c) \/ Scan(c) \/ Commit(c) \/ FlushStep(c)
  \/ HttpStep(c) /\ UNCHANGED queueVars

EnvironmentStep ==
  \/ LockAges
  \/ \E b \in Batches : Expire(b)
=============================================================================
