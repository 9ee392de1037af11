-------------------------- MODULE OtlpQueueProofs --------------------------
(***************************************************************************)
(* Theorems about OtlpExport, for any set of exporters and any numbers of  *)
(* batches, attempts and entries.                                          *)
(***************************************************************************)
EXTENDS OtlpExport, TLAPS, FiniteSetTheorems, WellFoundedInduction

-----------------------------------------------------------------------------
(* Type correctness.                                                       *)

(* A call whose promise the exporter has not taken up yet.                 *)
Busy(c) == ~NotCalling(c)

(* The queue calls of an exporter belong to what it is doing, a call that  *)
(* is leaving withLock() has its result, a sender has a batch, and one     *)
(* that will try again has an attempt left.                                *)
ExporterInv ==
  \A e \in Exporters :
    /\ Busy(<<e, "export">>) <=> toQueue[e] # 0
    /\ Busy(<<e, "background">>) => backlog[e] # 0
    /\ Busy(<<e, "flush">>) => explicit[e] = "flushing"
CallInv == \A c \in Callers : call[c].step = "release" => call[c].result # "none"
AttemptInv ==
  \A c \in Callers :
    /\ sending[c].state # "none" => sending[c].batch \in Batches
    /\ sending[c].state = "pausing" => sending[c].attempts < MaxAttempts

TypeInv == TypeOK /\ ExporterInv /\ CallInv /\ AttemptInv

(* The oldest of some batches is one of them.                              *)
LEMMA MinOfBatches ==
  ASSUME NEW S \in SUBSET Batches, S # {}
  PROVE  Min(S) \in S
<1>1. Batches \subseteq Nat
  BY HttpClientAssumption DEF Batches
<1>2. PICK x \in S : \A y \in S : ~(<<y, x>> \in OpToRel(<, Nat))
  BY <1>1, NatLessThanWellFounded, WFMin, Zenon
<1>3. \A y \in S : x <= y
  <2> TAKE y \in S
  <2>1. x \in Nat /\ y \in Nat
    BY <1>1
  <2>2. ~(y < x)
    BY <1>2, <2>1 DEF OpToRel
  <2> QED BY <2>1, <2>2
<1> QED BY <1>3 DEF Min

Steps == {"idle", "open", "stat", "unlink"} \cup Section

(* A call record keeps its type when its step changes.                     *)
LEMMA SetStep == \A k \in Call, s \in Steps : [k EXCEPT !.step = s] \in Call
BY DEF Call, Steps
(* So it does when the entries left to send change,                        *)
LEMMA SetTodo == \A k \in Call, d \in SUBSET Batches : [k EXCEPT !.todo = d] \in Call
BY DEF Call
(* when a failure is recorded                                              *)
LEMMA SetFailures == \A k \in Call, f \in SUBSET Batches : [k EXCEPT !.failures = f] \in Call
BY DEF Call
(* and when the promise settles.                                           *)
LEMMA SetResult == \A k \in Call, r \in Results : [k EXCEPT !.result = r] \in Call
BY DEF Call

(* What a caller's own step does to its call: it stays busy, and leaves    *)
(* withLock() only with a result.                                          *)
Proceeds(k) ==
  /\ k \in Call
  /\ k.step # "idle" \/ k.result # "none"
  /\ k.step = "release" => k.result # "none"

(* A refused operation has a result.                                       *)
LEMMA FailureIsResult ==
  ASSUME NEW c \in Callers
  PROVE  Failure(c) \in Results /\ Failure(c) # "none"
BY DEF Failure, Results

(* finish, leave and goto: the call after the step.                        *)
LEMMA FinishProceeds ==
  ASSUME NEW c \in Callers, call[c] \in Call, NEW r \in Results \ {"none"}, Finish(c, r)
  PROVE  \E k : Proceeds(k) /\ k.step = "idle" /\ call' = [call EXCEPT ![c] = k]
<1> DEFINE k == [call[c] EXCEPT !.step = "idle", !.tries = 0, !.result = r]
<1>1. k \in Call
  <2>1. [call[c] EXCEPT !.step = "idle"] \in Call
    BY SetStep DEF Steps
  <2>2. \A old \in Call : [old EXCEPT !.tries = 0] \in Call
    BY DEF Call
  <2>3. [call[c] EXCEPT !.step = "idle", !.tries = 0] \in Call
    BY <2>1, <2>2
  <2> QED BY <2>3, SetResult
<1>2. k.step = "idle" /\ k.result # "none"
  BY DEF Call
<1>3. call' = [call EXCEPT ![c] = k]
  BY DEF Finish
<1> QED BY <1>1, <1>2, <1>3 DEF Proceeds

(* The operation inside withLock() is over.                                *)
LEMMA LeaveProceeds ==
  ASSUME NEW c \in Callers, call[c] \in Call, NEW r \in Results \ {"none"}, Leave(c, r)
  PROVE  \E k : Proceeds(k) /\ k.step = "release" /\ call' = [call EXCEPT ![c] = k]
<1> DEFINE k == [call[c] EXCEPT !.step = "release", !.todo = {}, !.result = r]
<1>1. k \in Call
  BY SetStep, SetTodo, SetResult DEF Steps, Section
<1>2. k.step = "release" /\ k.result # "none"
  BY DEF Call
<1>3. call' = [call EXCEPT ![c] = k]
  BY DEF Leave
<1> QED BY <1>1, <1>2, <1>3 DEF Proceeds

(* It goes on.                                                             *)
LEMMA GotoProceeds ==
  ASSUME NEW c \in Callers, call[c] \in Call,
         NEW s \in Steps \ {"idle", "release"}, Goto(c, s)
  PROVE  \E k : /\ Proceeds(k) /\ k.step = s /\ k.todo = call[c].todo
                /\ call' = [call EXCEPT ![c] = k]
<1> DEFINE k == [call[c] EXCEPT !.step = s]
<1>1. k \in Call
  BY SetStep
<1>2. k.step = s /\ k.todo = call[c].todo
  BY DEF Call
<1>3. call' = [call EXCEPT ![c] = k]
  BY DEF Goto
<1> QED BY <1>1, <1>2, <1>3 DEF Proceeds

(* A caller that goes round in acquireLock() opens again or is refused.    *)
LEMMA NextTryProceeds ==
  ASSUME NEW c \in Callers, call[c] \in Call, NextTry(c)
  PROVE  \E k : Proceeds(k) /\ k.step \in {"open", "idle"} /\ call' = [call EXCEPT ![c] = k]
<1>1. CASE /\ call[c].tries = 0
           /\ call' = [call EXCEPT ![c] = [@ EXCEPT !.step = "open", !.tries = 1]]
  <2> DEFINE k == [call[c] EXCEPT !.step = "open", !.tries = 1]
  <2>1. k \in Call
    <3>1. [call[c] EXCEPT !.step = "open"] \in Call
      BY SetStep DEF Steps
    <3>2. \A old \in Call : [old EXCEPT !.tries = 1] \in Call
      BY DEF Call
    <3> QED BY <3>1, <3>2
  <2>2. k.step = "open"
    BY DEF Call
  <2>3. call' = [call EXCEPT ![c] = k]
    BY <1>1
  <2> QED BY <2>1, <2>2, <2>3 DEF Proceeds
<1>2. CASE Finish(c, Failure(c))
  BY <1>2, FailureIsResult, FinishProceeds
<1> QED BY <1>1, <1>2 DEF NextTry

(* The operation goes on after its scan with what it could read, which for *)
(* an enqueue leaves room.                                                 *)
ScanReads(c, k) ==
  /\ Proceeds(k) /\ k.step \in {"commit", "send"}
  /\ k.todo \subseteq entries \ expired
  /\ entries \ expired \subseteq entries'
  /\ k.step = "commit" => ~Full(k.todo)
  /\ call' = [call EXCEPT ![c] = k]

(* A scan leads there, or ends the operation.                              *)
LEMMA ScanLeads ==
  ASSUME NEW c \in Callers, call \in [Callers -> Call], entries \subseteq Batches, Scan(c)
  PROVE  (\E r \in Results \ {"none"} : Leave(c, r)) \/ \E k : ScanReads(c, k)
<1>1. CASE Leave(c, Failure(c))
  BY <1>1, FailureIsResult
<1>2. ASSUME NEW live \in SUBSET (entries \ expired),
             NEW kept \in SUBSET (entries \cap expired),
             entries' = (entries \ expired) \cup kept,
             IF Enqueues(c) /\ Full(live) THEN Leave(c, "not_queued")
             ELSE call' = [call EXCEPT ![c] =
                    [@ EXCEPT !.step = IF Enqueues(c) THEN "commit" ELSE "send", !.todo = live]]
      PROVE  (\E r \in Results \ {"none"} : Leave(c, r)) \/ \E k : ScanReads(c, k)
  <2>1. CASE Enqueues(c) /\ Full(live)
    BY <1>2, <2>1 DEF Results
  <2>2. CASE ~(Enqueues(c) /\ Full(live))
    <3> DEFINE s == IF Enqueues(c) THEN "commit" ELSE "send"
               k == [call[c] EXCEPT !.step = s, !.todo = live]
    <3>1. s \in Steps /\ s \in {"commit", "send"} /\ (s = "commit" => ~Full(live))
      BY <2>2 DEF Steps, Section
    <3>2. call' = [call EXCEPT ![c] = k]
      BY <1>2, <2>2
    <3> HIDE DEF s
    <3>3. k \in Call
      BY <3>1, SetStep, SetTodo
    <3>4. k.step = s /\ k.todo = live
      BY DEF Call
    <3> HIDE DEF k
    <3>5. Proceeds(k)
      BY <3>1, <3>3, <3>4 DEF Proceeds
    <3>6. ScanReads(c, k)
      BY <1>2, <3>1, <3>2, <3>4, <3>5 DEF ScanReads
    <3> QED BY <3>6
  <2> QED BY <2>1, <2>2
<1> QED BY <1>1, <1>2 DEF Scan

(* What any step of a caller that awaits the queue keeps.                  *)
CallerEffect(c) ==
  /\ Busy(c)
  /\ \E k : Proceeds(k) /\ call' = [call EXCEPT ![c] = k]
  /\ entries' \subseteq Batches /\ expired' \subseteq Batches
  /\ queued' \subseteq Batches /\ settled' \subseteq Batches
  /\ lock' \in Callers \cup {NoOne} /\ lockStale' \in BOOLEAN
  /\ sending' \in [Callers -> Send] /\ AttemptInv'

(* Taking and removing the lock file.                                      *)
LEMMA AcquireEffect ==
  ASSUME TypeInv, NEW c \in Callers, AcquireStep(c) \/ ReleaseLock(c)
  PROVE  CallerEffect(c)
<1>1. /\ call[c] \in Call /\ entries \subseteq Batches /\ expired \subseteq Batches
      /\ queued \subseteq Batches /\ settled \subseteq Batches
      /\ lock \in Callers \cup {NoOne} /\ lockStale \in BOOLEAN
      /\ sending \in [Callers -> Send] /\ AttemptInv
  BY DEF TypeInv, TypeOK, QueueTypeOK, HttpTypeOK
<1>2. UNCHANGED <<entries, expired, queued, settled, sending>>
  BY DEF AcquireStep, CreateLock, CreateLockFails, FindLock, StatLock, UnlinkStaleLock,
         ReleaseLock
<1>3. lock' \in Callers \cup {NoOne} /\ lockStale' \in BOOLEAN
  BY <1>1 DEF AcquireStep, CreateLock, CreateLockFails, FindLock, StatLock,
              UnlinkStaleLock, ReleaseLock
<1>4. Busy(c)
  BY DEF AcquireStep, CreateLock, CreateLockFails, FindLock, StatLock, UnlinkStaleLock,
         ReleaseLock, Busy, NotCalling
<1>5. \E k : Proceeds(k) /\ call' = [call EXCEPT ![c] = k]
  <2>1. CASE CreateLock(c)
    <3> DEFINE k == [call[c] EXCEPT !.step = "scan", !.tries = 0]
    <3>1. k \in Call
      <4>1. [call[c] EXCEPT !.step = "scan"] \in Call
        BY <1>1, SetStep DEF Steps, Section
      <4>2. \A old \in Call : [old EXCEPT !.tries = 0] \in Call
        BY DEF Call
      <4> QED BY <4>1, <4>2
    <3>2. k.step = "scan"
      BY <1>1 DEF Call
    <3>3. call' = [call EXCEPT ![c] = k]
      BY <2>1 DEF CreateLock
    <3> QED BY <3>1, <3>2, <3>3 DEF Proceeds
  <2>2. CASE CreateLockFails(c) \/ (StatLock(c) /\ Finish(c, Failure(c)))
    <3>1. Finish(c, Failure(c))
      BY <2>2 DEF CreateLockFails
    <3> QED BY <1>1, <3>1, FailureIsResult, FinishProceeds
  <2>3. CASE FindLock(c)
    <3>1. Goto(c, "stat") /\ "stat" \in Steps \ {"idle", "release"}
      BY <2>3 DEF FindLock, Steps
    <3> QED BY <1>1, <3>1, GotoProceeds
  <2>4. CASE StatLock(c) /\ Goto(c, "unlink")
    <3>1. "unlink" \in Steps \ {"idle", "release"}
      BY DEF Steps
    <3> QED BY <1>1, <2>4, <3>1, GotoProceeds
  <2>5. CASE UnlinkStaleLock(c) \/ (StatLock(c) /\ NextTry(c))
    <3>1. NextTry(c)
      BY <2>5 DEF UnlinkStaleLock
    <3> QED BY <1>1, <3>1, NextTryProceeds
  <2>6. CASE ReleaseLock(c)
    <3>1. call[c].result \in Results \ {"none"}
      BY <1>1, <2>6 DEF ReleaseLock, Call, TypeInv, CallInv
    <3>2. Finish(c, call[c].result)
      BY <2>6 DEF ReleaseLock
    <3> QED BY <1>1, <3>1, <3>2, FinishProceeds
  <2> QED BY <2>1, <2>2, <2>3, <2>4, <2>5, <2>6 DEF AcquireStep, StatLock
<1> QED BY <1>1, <1>2, <1>3, <1>4, <1>5 DEF CallerEffect, AttemptInv

(* Scanning, committing an entry, and the end of a flush.                  *)
LEMMA ScanEffect ==
  ASSUME TypeInv, NEW c \in Callers, Scan(c) \/ Commit(c) \/ StopSending(c) \/ Rescan(c)
  PROVE  CallerEffect(c)
<1>1. /\ call[c] \in Call /\ entries \subseteq Batches /\ expired \subseteq Batches
      /\ queued \subseteq Batches /\ settled \subseteq Batches
      /\ lock \in Callers \cup {NoOne} /\ lockStale \in BOOLEAN
      /\ sending \in [Callers -> Send] /\ AttemptInv
  BY DEF TypeInv, TypeOK, QueueTypeOK, HttpTypeOK
<1>2. UNCHANGED <<expired, lock, lockStale, settled, sending>>
  BY DEF Scan, Commit, StopSending, Rescan
<1>3. entries' \subseteq Batches /\ queued' \subseteq Batches
  BY <1>1 DEF Scan, Commit, StopSending, Rescan
<1>4. Busy(c)
  BY DEF Scan, Commit, StopSending, Rescan, Busy, NotCalling
<1>5. \E k : Proceeds(k) /\ call' = [call EXCEPT ![c] = k]
  <2>1. ASSUME NEW r \in Results \ {"none"}, Leave(c, r)
        PROVE  \E k : Proceeds(k) /\ call' = [call EXCEPT ![c] = k]
    BY <1>1, <2>1, LeaveProceeds
  <2>2. CASE Scan(c)
    <3>1. call \in [Callers -> Call]
      BY DEF TypeInv, TypeOK, QueueTypeOK
    <3>2. ASSUME NEW k, ScanReads(c, k)
          PROVE  \E l : Proceeds(l) /\ call' = [call EXCEPT ![c] = l]
      BY <3>2 DEF ScanReads
    <3> QED BY <1>1, <2>1, <2>2, <3>1, <3>2, ScanLeads
  <2>3. CASE Commit(c)
    <3>1. Leave(c, "queued") \/ Leave(c, "not_queued")
      BY <2>3 DEF Commit
    <3> QED BY <2>1, <3>1 DEF Results
  <2>4. CASE StopSending(c)
    <3> DEFINE k == [call[c] EXCEPT !.step = "rescan", !.todo = {}]
    <3>1. k \in Call
      BY <1>1, SetStep, SetTodo DEF Steps, Section
    <3>2. k.step = "rescan"
      BY <1>1 DEF Call
    <3>3. call' = [call EXCEPT ![c] = k]
      BY <2>4 DEF StopSending
    <3> QED BY <3>1, <3>2, <3>3 DEF Proceeds
  <2>5. CASE Rescan(c)
    <3>1. CASE Leave(c, "flushed")
      BY <2>1, <3>1 DEF Results
    <3>2. CASE call' = [call EXCEPT ![c] = [@ EXCEPT !.step = "release", !.failures = {},
                                                     !.result = "threw"]]
      <4> DEFINE k == [call[c] EXCEPT !.step = "release", !.failures = {}, !.result = "threw"]
      <4>1. k \in Call
        BY <1>1, SetStep, SetFailures, SetResult DEF Steps, Section, Results
      <4>2. k.step = "release" /\ k.result = "threw"
        BY <1>1 DEF Call
      <4> QED BY <3>2, <4>1, <4>2 DEF Proceeds
    <3> QED BY <2>5, <3>1, <3>2 DEF Rescan
  <2> QED BY <2>2, <2>3, <2>4, <2>5
<1> QED BY <1>1, <1>2, <1>3, <1>4, <1>5 DEF CallerEffect, AttemptInv

(* Posting a batch, for the first time or again.                           *)
LEMMA AttemptTypes ==
  ASSUME TypeInv, NEW c \in Callers, NEW s \in Send, s.batch \in Batches,
         s.attempts < MaxAttempts, Attempt(c, s)
  PROVE  sending' \in [Callers -> Send] /\ AttemptInv'
<1>1. sending \in [Callers -> Send] /\ AttemptInv
  BY DEF TypeInv, TypeOK, HttpTypeOK
<1>2. CASE sending' = [sending EXCEPT ![c] = [s EXCEPT !.state = "rejected"]]
  <2> DEFINE t == [s EXCEPT !.state = "rejected"]
  <2>1. t \in Send /\ t.state # "pausing" /\ t.batch \in Batches
    BY DEF Send, Reported
  <2>2. sending' = [sending EXCEPT ![c] = t]
    BY <1>2
  <2> HIDE DEF t
  <2> QED BY <1>1, <2>1, <2>2 DEF AttemptInv
<1>3. CASE sending' = [sending EXCEPT ![c] = [s EXCEPT !.state = "waiting", !.attempts = @ + 1]]
  <2> DEFINE t == [s EXCEPT !.state = "waiting", !.attempts = @ + 1]
  <2>1. t \in Send
    <3>1. s.attempts + 1 \in 0..MaxAttempts
      BY HttpClientAssumption DEF Send
    <3>2. [s EXCEPT !.state = "waiting"] \in Send
      BY DEF Send
    <3>3. \A u \in Send, n \in 0..MaxAttempts : [u EXCEPT !.attempts = n] \in Send
      BY DEF Send
    <3>4. [s EXCEPT !.state = "waiting"].attempts = s.attempts
      BY DEF Send
    <3> QED BY <3>1, <3>2, <3>3, <3>4
  <2>2. t.state # "pausing" /\ t.batch \in Batches
    BY DEF Send
  <2>3. sending' = [sending EXCEPT ![c] = t]
    BY <1>3
  <2> HIDE DEF t
  <2> QED BY <1>1, <2>1, <2>2, <2>3 DEF AttemptInv
<1> QED BY <1>2, <1>3 DEF Attempt

(* A step of send() between two posts.                                     *)
LEMMA HttpTypes ==
  ASSUME TypeInv, NEW c \in Callers, HttpStep(c)
  PROVE  sending' \in [Callers -> Send] /\ AttemptInv'
<1>1. sending \in [Callers -> Send] /\ AttemptInv
  BY DEF TypeInv, TypeOK, HttpTypeOK
<1>2. ASSUME NEW st \in Reported \cup {"pausing"}, Becomes(c, st),
             st = "pausing" => sending[c].attempts < MaxAttempts,
             sending[c].state # "none"
      PROVE  sending' \in [Callers -> Send] /\ AttemptInv'
  <2> DEFINE t == [sending[c] EXCEPT !.state = st]
  <2>1. /\ t \in Send /\ t.state = st /\ t.attempts = sending[c].attempts
        /\ t.batch = sending[c].batch
    BY <1>1 DEF Send
  <2>2. sending' = [sending EXCEPT ![c] = t]
    BY <1>2 DEF Becomes
  <2> HIDE DEF t
  <2> QED BY <1>1, <1>2, <2>1, <2>2 DEF AttemptInv
<1>3. CASE Accepted(c) \/ Rejected(c) \/ Aborted(c)
  BY <1>2, <1>3 DEF Accepted, Rejected, Aborted, Reported
<1>4. CASE Retryable(c) \/ NoAnswer(c)
  BY <1>2, <1>4 DEF Retryable, NoAnswer, AfterFailure, Reported
<1>5. CASE AfterPause(c)
  <2>1. /\ sending[c] \in Send /\ sending[c].batch \in Batches
        /\ sending[c].attempts < MaxAttempts
    BY <1>1, <1>5 DEF AfterPause, AttemptInv
  <2> QED BY <1>5, <2>1, AttemptTypes DEF AfterPause
<1> QED BY <1>3, <1>4, <1>5 DEF HttpStep

(* Sending an entry, and what becomes of it.                               *)
LEMMA SendEffect ==
  ASSUME TypeInv, NEW c \in Callers, SendNext(c) \/ Settle(c)
  PROVE  CallerEffect(c)
<1>1. /\ call[c] \in Call /\ entries \subseteq Batches /\ expired \subseteq Batches
      /\ queued \subseteq Batches /\ settled \subseteq Batches
      /\ lock \in Callers \cup {NoOne} /\ lockStale \in BOOLEAN
      /\ sending \in [Callers -> Send] /\ AttemptInv
  BY DEF TypeInv, TypeOK, QueueTypeOK, HttpTypeOK
<1>2. Busy(c)
  BY DEF SendNext, Settle, Busy, NotCalling
<1>3. CASE SendNext(c)
  <2> DEFINE b == Min(call[c].todo)
  <2>1. b \in Batches
    BY <1>1, <1>3, MinOfBatches DEF SendNext, Call
  <2>2. sending' \in [Callers -> Send] /\ AttemptInv'
    <3> DEFINE s == [NotSending EXCEPT !.batch = b]
    <3>1. s \in Send /\ s.batch \in Batches /\ s.attempts < MaxAttempts
      BY <2>1, HttpClientAssumption DEF NotSending, Send
    <3>2. Attempt(c, s)
      BY <1>3 DEF SendNext, BeginSend
    <3> HIDE DEF s
    <3> QED BY <3>1, <3>2, AttemptTypes
  <2>3. \E k : Proceeds(k) /\ call' = [call EXCEPT ![c] = k]
    <3> DEFINE k == [call[c] EXCEPT !.todo = @ \ {b}]
    <3>1. k \in Call
      BY <1>1 DEF Call
    <3>2. k.step = "send"
      BY <1>1, <1>3 DEF Call, SendNext
    <3>3. call' = [call EXCEPT ![c] = k]
      BY <1>3 DEF SendNext
    <3> QED BY <3>1, <3>2, <3>3 DEF Proceeds
  <2>4. UNCHANGED <<entries, expired, lock, lockStale, queued, settled>>
    BY <1>3 DEF SendNext
  <2> QED BY <1>1, <1>2, <2>2, <2>3, <2>4 DEF CallerEffect
<1>4. CASE Settle(c)
  <2> DEFINE b == sending[c].batch
             failure == IF sending[c].state = "accepted" THEN {} ELSE {b}
  <2>1. b \in Batches /\ call[c].step = "send"
    BY <1>1, <1>4 DEF Settle, AttemptInv, Reported
  <2>2. sending' \in [Callers -> Send] /\ AttemptInv'
    <3>1. NotSending \in Send /\ NotSending.state = "none"
      BY HttpClientAssumption DEF NotSending, Send
    <3>2. sending' = [sending EXCEPT ![c] = NotSending]
      BY <1>4 DEF Settle
    <3> QED BY <1>1, <3>1, <3>2 DEF AttemptInv
  <2>3. entries' \subseteq Batches /\ settled' \subseteq Batches
    BY <1>1, <1>4, <2>1 DEF Settle
  <2>4. \E k : Proceeds(k) /\ call' = [call EXCEPT ![c] = k]
    <3>1. CASE call' = [call EXCEPT ![c].failures = @ \cup failure]
      <4> DEFINE k == [call[c] EXCEPT !.failures = @ \cup failure]
      <4>1. call[c].failures \cup failure \in SUBSET Batches
        BY <1>1, <2>1 DEF Call
      <4>2. k \in Call
        BY <1>1, <4>1, SetFailures
      <4>3. k.step = "send"
        BY <1>1, <2>1 DEF Call
      <4>4. call' = [call EXCEPT ![c] = k]
        BY <3>1
      <4> QED BY <4>2, <4>3, <4>4 DEF Proceeds
    <3>2. CASE call' = [call EXCEPT ![c] = [@ EXCEPT !.step = "release", !.todo = {},
                                                     !.failures = {}, !.result = "threw"]]
      <4> DEFINE k == [call[c] EXCEPT !.step = "release", !.todo = {}, !.failures = {},
                                      !.result = "threw"]
      <4>1. k \in Call
        BY <1>1, SetStep, SetTodo, SetFailures, SetResult DEF Steps, Section, Results
      <4>2. k.step = "release" /\ k.result = "threw"
        BY <1>1 DEF Call
      <4> QED BY <3>2, <4>1, <4>2 DEF Proceeds
    <3> QED BY <1>4, <3>1, <3>2 DEF Settle
  <2>5. UNCHANGED <<expired, lock, lockStale, queued>>
    BY <1>4 DEF Settle
  <2> QED BY <1>1, <1>2, <2>2, <2>3, <2>4, <2>5 DEF CallerEffect
<1> QED BY <1>3, <1>4

(* A step of one caller leaves the calls of the others alone.              *)
LEMMA OneCall ==
  ASSUME TypeInv, NEW c \in Callers, NEW k \in Call,
         k.step = "release" => k.result # "none", call' = [call EXCEPT ![c] = k]
  PROVE  /\ call' \in [Callers -> Call] /\ CallInv'
         /\ call'[c] = k /\ \A d \in Callers \ {c} : call'[d] = call[d]
BY DEF TypeInv, TypeOK, QueueTypeOK, CallInv

(* The calls of an exporter.                                               *)
LEMMA ExporterCallers ==
  /\ \A e \in Exporters, p \in {"export", "background", "flush"} : <<e, p>> \in Callers
  /\ \A e, f, p, q : <<e, p>> = <<f, q>> => e = f /\ p = q
BY DEF Callers

(* The steps inside the queue and the sender.                              *)
LEMMA CallerStepType ==
  ASSUME TypeInv, NEW c \in Callers, CallerStep(c), UNCHANGED exporterVars
  PROVE  TypeInv'
<1>1. TypeOK /\ ExporterInv /\ CallInv
  BY DEF TypeInv
<1>2. CASE HttpStep(c) /\ UNCHANGED queueVars
  <2>1. sending' \in [Callers -> Send] /\ AttemptInv'
    BY <1>2, HttpTypes
  <2>2. ExporterInv' /\ CallInv'
    BY <1>1, <1>2 DEF queueVars, exporterVars, ExporterInv, CallInv, Busy, NotCalling
  <2>3. TypeOK'
    BY <1>1, <1>2, <2>1 DEF TypeOK, HttpTypeOK, QueueTypeOK, queueVars, exporterVars
  <2> QED BY <2>1, <2>2, <2>3 DEF TypeInv
<1>3. CASE CallerEffect(c)
  <2>1. PICK k : Proceeds(k) /\ call' = [call EXCEPT ![c] = k]
    BY <1>3 DEF CallerEffect
  <2>2. /\ call' \in [Callers -> Call] /\ CallInv'
        /\ call'[c] = k /\ \A d \in Callers \ {c} : call'[d] = call[d]
    BY <2>1, OneCall DEF Proceeds
  <2>3. \A d \in Callers : Busy(d)' <=> Busy(d)
    BY <1>3, <2>1, <2>2 DEF CallerEffect, Proceeds, Busy, NotCalling
  <2>4. ExporterInv'
    BY <1>1, <2>3, ExporterCallers DEF ExporterInv, exporterVars
  <2>5. TypeOK'
    BY <1>1, <1>3, <2>2 DEF TypeOK, HttpTypeOK, QueueTypeOK, exporterVars, CallerEffect
  <2>6. AttemptInv'
    BY <1>3 DEF CallerEffect
  <2> QED BY <2>2, <2>4, <2>5, <2>6 DEF TypeInv
<1> QED
  BY <1>2, <1>3, AcquireEffect, ScanEffect, SendEffect DEF CallerStep, FlushStep

(* The exporter picks up a call, and begins the next or none.              *)
LEMMA BeginAndResume ==
  ASSUME TypeInv, NEW c \in Callers, Begin(c) \/ Resumed(c)
  PROVE  /\ call' \in [Callers -> Call] /\ CallInv'
         /\ Begin(c) => Busy(c)'
         /\ Resumed(c) => ~Busy(c)'
         /\ \A d \in Callers \ {c} : Busy(d)' <=> Busy(d)
<1>1. /\ NewCall \in Call /\ NewCall.step = "open"
      /\ NoCall \in Call /\ NoCall.step = "idle" /\ NoCall.result = "none"
  BY DEF NewCall, NoCall, Call, Results
<1>2. \E k \in {NewCall, NoCall} : call' = [call EXCEPT ![c] = k]
  BY DEF Begin, Resumed
<1>3. /\ call' \in [Callers -> Call] /\ CallInv'
      /\ \A d \in Callers \ {c} : call'[d] = call[d]
  BY <1>1, <1>2, OneCall
<1>4. (Begin(c) => call'[c] = NewCall) /\ (Resumed(c) => call'[c] = NoCall)
  BY DEF Begin, Resumed, TypeInv, TypeOK, QueueTypeOK
<1> QED BY <1>1, <1>3, <1>4 DEF Busy, NotCalling

(* The steps of the exporter around its queue calls.                       *)
LEMMA ExporterStepType ==
  ASSUME TypeInv, NEW e \in Exporters,
         \/ \E n \in 1..MaxBatches : ExportSnapshot(e, n)
         \/ BatchQueued(e) \/ StartBackgroundFlush(e) \/ EndBackgroundFlush(e)
         \/ Flush(e) \/ FlushAfterBackground(e) \/ FlushReturns(e)
  PROVE  TypeInv'
<1> DEFINE export == <<e, "export">>
           background == <<e, "background">>
           flush == <<e, "flush">>
<1>1. TypeOK /\ ExporterInv /\ CallInv /\ AttemptInv
  BY DEF TypeInv
<1>2. UNCHANGED OtherQueueVars
  BY DEF ExportSnapshot, BatchQueued, StartBackgroundFlush, EndBackgroundFlush, Flush,
         FlushAfterBackground, FlushReturns
<1>3. AttemptInv'
  BY <1>1, <1>2 DEF OtherQueueVars, AttemptInv
<1>4. ASSUME call' \in [Callers -> Call]
      PROVE  HttpTypeOK' /\ QueueTypeOK'
  BY <1>1, <1>2, <1>4 DEF OtherQueueVars, TypeOK, HttpTypeOK, QueueTypeOK
<1>5. export \in Callers /\ background \in Callers /\ flush \in Callers
  BY ExporterCallers
<1>6. /\ toQueue \in [Exporters -> 0..MaxBatches]
      /\ queuedAny \in [Exporters -> BOOLEAN]
      /\ backlog \in [Exporters -> Nat]
      /\ explicit \in [Exporters -> {"none", "awaiting", "flushing"}]
      /\ awaited \in [Exporters -> Nat]
      /\ remembered \in [Exporters -> SUBSET Batches]
      /\ taken \in [Exporters -> SUBSET Batches]
  BY <1>1 DEF TypeOK
<1>7. \A f \in Exporters : call[<<f, "background">>] \in Call
  BY <1>1, ExporterCallers DEF TypeOK, QueueTypeOK
<1> HIDE DEF export, background, flush
<1>8. ASSUME NEW n \in 1..MaxBatches, ExportSnapshot(e, n)
      PROVE  TypeInv'
  <2>1. Begin(export) /\ toQueue' = [toQueue EXCEPT ![e] = n]
    BY <1>8 DEF ExportSnapshot, export
  <2>2. /\ call' \in [Callers -> Call] /\ CallInv' /\ Busy(export)'
        /\ \A d \in Callers \ {export} : Busy(d)' <=> Busy(d)
    BY <1>5, <2>1, BeginAndResume
  <2>3. ExporterInv'
    <3>1. toQueue'[e] # 0 /\ \A f \in Exporters \ {e} : toQueue'[f] = toQueue[f]
      BY <1>6, <2>1
    <3>2. backlog' = backlog
      BY <1>8 DEF ExportSnapshot
    <3>3. \A f \in Exporters : <<f, "background">> # export
      BY ExporterCallers DEF export
    <3>4. \A f \in Exporters \ {e} : <<f, "export">> # export
      BY ExporterCallers DEF export
    <3>5. \A f \in Exporters : Busy(<<f, "export">>)' <=> toQueue'[f] # 0
      BY <1>1, <2>2, <3>1, <3>4, ExporterCallers, Zenon DEF ExporterInv, export
    <3>6. \A f \in Exporters : Busy(<<f, "background">>)' => backlog'[f] # 0
      BY <1>1, <2>2, <3>2, <3>3, ExporterCallers, Zenon DEF ExporterInv
    <3>7. \A f \in Exporters : Busy(<<f, "flush">>)' => explicit'[f] = "flushing"
      BY <1>1, <1>8, <2>2, ExporterCallers DEF ExporterInv, ExportSnapshot, export
    <3> QED BY <3>5, <3>6, <3>7 DEF ExporterInv
  <2>4. TypeOK'
    BY <1>4, <1>6, <1>8, <2>2 DEF TypeOK, ExportSnapshot
  <2> QED BY <1>3, <2>2, <2>3, <2>4 DEF TypeInv
<1>9. CASE BatchQueued(e)
  <2> DEFINE rest == IF call[export].result = "queued" THEN toQueue[e] - 1 ELSE 0
  <2>1. /\ toQueue' = [toQueue EXCEPT ![e] = rest]
        /\ IF rest > 0 THEN Begin(export) ELSE Resumed(export)
        /\ Busy(export)
    BY <1>9 DEF BatchQueued, export, Settled, Busy, NotCalling
  <2>2. rest \in 0..MaxBatches
    <3>1. toQueue[e] # 0
      BY <1>1, <2>1 DEF ExporterInv, export
    <3>2. toQueue[e] \in 0..MaxBatches /\ MaxBatches \in Nat
      BY <1>6, HttpClientAssumption
    <3> QED BY <3>1, <3>2
  <2>3. /\ call' \in [Callers -> Call] /\ CallInv' /\ (Busy(export)' <=> rest # 0)
        /\ \A d \in Callers \ {export} : Busy(d)' <=> Busy(d)
    <3>1. CASE rest > 0
      BY <1>5, <2>1, <3>1, BeginAndResume
    <3>2. CASE ~(rest > 0)
      <4> HIDE DEF rest
      <4>1. rest = 0 /\ Resumed(export)
        BY <2>1, <2>2, <3>2, HttpClientAssumption
      <4> QED BY <1>5, <4>1, BeginAndResume
    <3> QED BY <3>1, <3>2
  <2>4. /\ queuedAny' \in [Exporters -> BOOLEAN] /\ backlog' \in [Exporters -> Nat]
        /\ \A f \in Exporters : backlog'[f] >= backlog[f]
        /\ UNCHANGED <<explicit, awaited, remembered, taken>>
    BY <1>6, <1>9 DEF BatchQueued
  <2> HIDE DEF rest
  <2>5. \A f \in Exporters : Busy(<<f, "export">>)' <=> toQueue'[f] # 0
    BY <1>1, <1>6, <2>1, <2>2, <2>3, ExporterCallers DEF ExporterInv, export
  <2>6. \A f \in Exporters : Busy(<<f, "background">>)' => backlog'[f] # 0
    <3> TAKE f \in Exporters
    <3>1. Busy(<<f, "background">>)' <=> Busy(<<f, "background">>)
      BY <2>3, ExporterCallers DEF export
    <3>2. backlog[f] \in Nat /\ backlog'[f] \in Nat
      BY <1>6, <2>4
    <3>3. Busy(<<f, "background">>) => backlog[f] # 0
      BY <1>1 DEF ExporterInv
    <3>4. backlog[f] # 0 => backlog'[f] # 0
      BY <2>4, <3>2
    <3> QED BY <3>1, <3>3, <3>4
  <2>7. \A f \in Exporters : Busy(<<f, "flush">>)' => explicit'[f] = "flushing"
    BY <1>1, <2>3, <2>4, ExporterCallers DEF ExporterInv, export
  <2>8. TypeOK'
    BY <1>4, <1>6, <2>1, <2>2, <2>3, <2>4 DEF TypeOK
  <2> QED BY <1>3, <2>3, <2>5, <2>6, <2>7, <2>8 DEF TypeInv, ExporterInv
<1>10. CASE StartBackgroundFlush(e)
  <2>1. Begin(background) /\ backlog[e] # 0 /\ UNCHANGED exporterVars
    BY <1>10 DEF StartBackgroundFlush, background
  <2>2. /\ call' \in [Callers -> Call] /\ CallInv'
        /\ \A d \in Callers \ {background} : Busy(d)' <=> Busy(d)
    BY <1>5, <2>1, BeginAndResume
  <2>3. ExporterInv'
    BY <1>1, <2>1, <2>2, ExporterCallers DEF ExporterInv, background, exporterVars
  <2>4. TypeOK'
    BY <1>4, <1>6, <2>1, <2>2 DEF TypeOK, exporterVars
  <2> QED BY <1>3, <2>2, <2>3, <2>4 DEF TypeInv
<1>11. CASE EndBackgroundFlush(e)
  <2>1. Resumed(background) /\ Busy(background) /\ backlog[e] # 0
    BY <1>1, <1>11 DEF EndBackgroundFlush, background, Settled, Busy, NotCalling, ExporterInv
  <2>2. /\ call' \in [Callers -> Call] /\ CallInv' /\ ~Busy(background)'
        /\ \A d \in Callers \ {background} : Busy(d)' <=> Busy(d)
    BY <1>5, <2>1, BeginAndResume
  <2>3. /\ backlog' = [backlog EXCEPT ![e] = @ - 1]
        /\ awaited' \in [Exporters -> Nat]
        /\ UNCHANGED <<toQueue, queuedAny, explicit, taken>>
    BY <1>6, <1>11 DEF EndBackgroundFlush
  <2>4. backlog' \in [Exporters -> Nat]
    BY <1>6, <2>1, <2>3
  <2>5. remembered' \in [Exporters -> SUBSET Batches]
    <3>1. call[background].failures \in SUBSET Batches
      BY <1>7 DEF background, Call
    <3>2. remembered' = [remembered EXCEPT ![e] = @ \cup call[background].failures]
      BY <1>11 DEF EndBackgroundFlush, background
    <3> QED BY <1>6, <3>1, <3>2
  <2>6. ExporterInv'
    BY <1>1, <1>6, <2>2, <2>3, ExporterCallers DEF ExporterInv, background
  <2>7. TypeOK'
    BY <1>4, <1>6, <2>2, <2>3, <2>4, <2>5 DEF TypeOK
  <2> QED BY <1>3, <2>2, <2>6, <2>7 DEF TypeInv
<1>12. CASE Flush(e)
  <2>1. UNCHANGED <<call, toQueue, queuedAny, backlog, remembered, taken>>
    BY <1>12 DEF Flush
  <2>2. CallInv' /\ call' \in [Callers -> Call] /\ ExporterInv'
    <3>1. /\ \A d \in Callers : Busy(d)' <=> Busy(d)
          /\ explicit[e] = "none" /\ \A f \in Exporters \ {e} : explicit'[f] = explicit[f]
      BY <1>6, <1>12, <2>1 DEF Flush, Busy, NotCalling
    <3>2. ExporterInv'
      BY <1>1, <2>1, <3>1, ExporterCallers DEF ExporterInv
    <3> QED BY <1>1, <2>1, <3>2 DEF CallInv, TypeOK, QueueTypeOK
  <2>3. /\ explicit' \in [Exporters -> {"none", "awaiting", "flushing"}]
        /\ awaited' \in [Exporters -> Nat]
    BY <1>6, <1>12 DEF Flush
  <2>4. TypeOK'
    BY <1>4, <1>6, <2>1, <2>2, <2>3 DEF TypeOK
  <2> QED BY <1>3, <2>2, <2>4 DEF TypeInv
<1>13. CASE FlushAfterBackground(e) \/ FlushReturns(e)
  <2>1. Begin(flush) \/ Resumed(flush)
    BY <1>13 DEF FlushAfterBackground, FlushReturns, flush
  <2>2. /\ call' \in [Callers -> Call] /\ CallInv'
        /\ Resumed(flush) => ~Busy(flush)'
        /\ \A d \in Callers \ {flush} : Busy(d)' <=> Busy(d)
    BY <1>5, <2>1, BeginAndResume
  <2>3. UNCHANGED <<toQueue, queuedAny, backlog, awaited>>
    BY <1>13 DEF FlushAfterBackground, FlushReturns
  <2>4. /\ explicit' \in [Exporters -> {"none", "awaiting", "flushing"}]
        /\ remembered' \in [Exporters -> SUBSET Batches]
        /\ taken' \in [Exporters -> SUBSET Batches]
    BY <1>6, <1>13 DEF FlushAfterBackground, FlushReturns
  <2>5. ExporterInv'
    <3>1. /\ Busy(flush)' => explicit'[e] = "flushing"
          /\ \A f \in Exporters \ {e} : explicit'[f] = explicit[f]
      BY <1>6, <1>13, <2>2 DEF FlushAfterBackground, FlushReturns, flush
    <3> QED BY <1>1, <2>2, <2>3, <3>1, ExporterCallers DEF ExporterInv, flush
  <2>6. TypeOK'
    BY <1>4, <1>6, <2>2, <2>3, <2>4 DEF TypeOK
  <2> QED BY <1>3, <2>2, <2>5, <2>6 DEF TypeInv
<1> QED
  BY <1>8, <1>9, <1>10, <1>11, <1>12, <1>13

(* A process that dies, and what time does to locks and entries.           *)
LEMMA CrashType ==
  ASSUME TypeInv, NEW e \in Exporters, Crash(e)
  PROVE  TypeInv'
<1>1. TypeOK /\ ExporterInv /\ CallInv /\ AttemptInv
  BY DEF TypeInv
<1>2. /\ NoCall \in Call /\ NoCall.step = "idle" /\ NoCall.result = "none"
      /\ NotSending \in Send /\ NotSending.state = "none"
  BY HttpClientAssumption DEF NoCall, Call, Results, NotSending, Send
<1>3. /\ call' = [c \in Callers |-> IF c[1] = e THEN NoCall ELSE call[c]]
      /\ sending' = [c \in Callers |-> IF c[1] = e THEN NotSending ELSE sending[c]]
      /\ UNCHANGED <<entries, expired, lock, lockStale, queued, settled>>
  BY DEF Crash, QueueCrash
<1>4. call' \in [Callers -> Call] /\ sending' \in [Callers -> Send]
  BY <1>1, <1>2, <1>3 DEF TypeOK, HttpTypeOK, QueueTypeOK
<1>5. CallInv' /\ AttemptInv'
  BY <1>1, <1>2, <1>3 DEF CallInv, AttemptInv
<1>6. \A d \in Callers : Busy(d)' <=> d[1] # e /\ Busy(d)
  BY <1>2, <1>3 DEF Busy, NotCalling
<1>7. \A f \in Exporters, p \in {"export", "background", "flush"} :
        Busy(<<f, p>>)' <=> f # e /\ Busy(<<f, p>>)
  BY <1>6, ExporterCallers
<1>8. /\ toQueue' = [toQueue EXCEPT ![e] = 0] /\ backlog' = [backlog EXCEPT ![e] = 0]
      /\ explicit' = [explicit EXCEPT ![e] = "none"]
      /\ toQueue \in [Exporters -> 0..MaxBatches] /\ backlog \in [Exporters -> Nat]
      /\ explicit \in [Exporters -> {"none", "awaiting", "flushing"}]
  BY <1>1 DEF Crash, TypeOK
<1>9. ExporterInv'
  BY <1>1, <1>7, <1>8 DEF ExporterInv
<1>10. TypeOK'
  BY <1>1, <1>3, <1>4, HttpClientAssumption DEF Crash, TypeOK, HttpTypeOK, QueueTypeOK
<1> QED BY <1>5, <1>9, <1>10 DEF TypeInv

(* Time changes no more than what is stale and what has expired.           *)
LEMMA EnvironmentType ==
  ASSUME TypeInv, EnvironmentStep, UNCHANGED exporterVars
  PROVE  TypeInv'
<1>1. UNCHANGED <<entries, lock, call, queued, settled, sending>>
  BY DEF EnvironmentStep, LockAges, Expire
<1>2. expired' \subseteq Batches /\ lockStale' \in BOOLEAN
  BY DEF EnvironmentStep, LockAges, Expire, TypeInv, TypeOK, QueueTypeOK
<1> QED
  BY <1>1, <1>2 DEF TypeInv, TypeOK, HttpTypeOK, QueueTypeOK, ExporterInv, CallInv,
                    AttemptInv, Busy, NotCalling, exporterVars

(* Initially nobody calls.                                                 *)
LEMMA InitType == Init => TypeInv
<1> SUFFICES ASSUME Init PROVE TypeInv
  OBVIOUS
<1>1. /\ NoCall \in Call /\ NoCall.step = "idle" /\ NoCall.result = "none"
      /\ NotSending \in Send /\ NotSending.state = "none"
  BY HttpClientAssumption DEF NoCall, Call, Results, NotSending, Send
<1>2. TypeOK
  <2>1. HttpTypeOK /\ QueueTypeOK
    BY <1>1 DEF Init, HttpInit, QueueInit, HttpTypeOK, QueueTypeOK
  <2> QED BY <2>1, HttpClientAssumption DEF Init, TypeOK
<1>3. CallInv /\ AttemptInv
  BY <1>1 DEF Init, HttpInit, QueueInit, CallInv, AttemptInv
<1>4. ExporterInv
  BY <1>1, ExporterCallers DEF Init, QueueInit, ExporterInv, Busy, NotCalling
<1> QED BY <1>2, <1>3, <1>4 DEF TypeInv

(* What a step of the system is: of a caller inside the queue, of the      *)
(* exporter around it, a crash, or of the environment.                     *)
CallerStepOf(c) == CallerStep(c) /\ UNCHANGED exporterVars
ExporterStep(e) ==
  \/ \E n \in 1..MaxBatches : ExportSnapshot(e, n)
  \/ BatchQueued(e) \/ StartBackgroundFlush(e) \/ EndBackgroundFlush(e)
  \/ Flush(e) \/ FlushAfterBackground(e) \/ FlushReturns(e)

(* There are no other steps.                                               *)
LEMMA StepCases ==
  ASSUME Next
  PROVE  \/ \E c \in Callers : CallerStepOf(c)
         \/ \E e \in Exporters : ExporterStep(e) \/ Crash(e)
         \/ EnvironmentStep /\ UNCHANGED exporterVars
BY ExporterCallers
   DEF Next, ExportStep, BackgroundStep, ExplicitStep, ExporterStep, CallerStepOf

(* The strengthened type invariant is inductive.                           *)
LEMMA TypeInvariant == Spec => []TypeInv
<1>1. TypeInv /\ [Next]_vars => TypeInv'
  <2> SUFFICES ASSUME TypeInv, [Next]_vars PROVE TypeInv'
    OBVIOUS
  <2>1. CASE UNCHANGED vars
    BY <2>1 DEF vars, queueVars, exporterVars, TypeInv, TypeOK, HttpTypeOK, QueueTypeOK,
                ExporterInv, CallInv, AttemptInv, Busy, NotCalling
  <2>2. CASE \E c \in Callers : CallerStepOf(c)
    BY <2>2, CallerStepType DEF CallerStepOf
  <2>3. CASE \E e \in Exporters : ExporterStep(e) \/ Crash(e)
    BY <2>3, ExporterStepType, CrashType DEF ExporterStep
  <2>4. CASE EnvironmentStep /\ UNCHANGED exporterVars
    BY <2>4, EnvironmentType
  <2> QED BY <2>1, <2>2, <2>3, <2>4, StepCases
<1> QED BY <1>1, InitType, PTL DEF Spec

(* Every variable of the queue, the sender and the exporter keeps its      *)
(* type; in particular a send() never makes more than retryMaxAttempts     *)
(* attempts, and the chain of background flushes never counts below zero.  *)
THEOREM OtlpTypeCorrect == Spec => []TypeOK
BY TypeInvariant, PTL DEF TypeInv

-----------------------------------------------------------------------------
(* What the queue promises whatever happens to its lock.                   *)

(* Whatever happens to the lock, and however callers run into each other:  *)
(* a batch whose enqueue succeeded has its file until a flush got a final  *)
(* report for it, or its retention is over.                                *)
THEOREM NoBatchLost == Spec => []NoSilentLoss
<1>1. Init => NoSilentLoss
  BY DEF Init, QueueInit, NoSilentLoss
<1>2. NoSilentLoss /\ [Next]_vars => NoSilentLoss'
  <2> SUFFICES ASSUME NoSilentLoss, [Next]_vars PROVE NoSilentLoss'
    OBVIOUS
  <2>1. CASE UNCHANGED <<entries, expired, queued, settled>>
    BY <2>1 DEF NoSilentLoss
  <2>2. CASE UNCHANGED vars
    BY <2>1, <2>2 DEF vars, queueVars
  <2>3. ASSUME NEW c \in Callers, CallerStep(c)
        PROVE  NoSilentLoss'
    <3>1. CASE AcquireStep(c) \/ ReleaseLock(c)
      BY <2>1, <3>1 DEF AcquireStep, CreateLock, CreateLockFails, FindLock, StatLock,
                        UnlinkStaleLock, ReleaseLock
    <3>2. CASE Scan(c)
      BY <3>2 DEF Scan, NoSilentLoss
    <3>3. CASE Commit(c)
      BY <3>3 DEF Commit, NoSilentLoss
    <3>4. CASE Settle(c)
      BY <3>4 DEF Settle, NoSilentLoss, FinalStates
    <3>5. CASE SendNext(c) \/ StopSending(c) \/ Rescan(c)
      BY <2>1, <3>5 DEF SendNext, StopSending, Rescan
    <3>6. CASE UNCHANGED queueVars
      BY <2>1, <3>6 DEF queueVars
    <3> QED BY <2>3, <3>1, <3>2, <3>3, <3>4, <3>5, <3>6 DEF CallerStep, FlushStep
  <2>4. ASSUME NEW e \in Exporters, ExporterStep(e) \/ Crash(e)
        PROVE  NoSilentLoss'
    BY <2>1, <2>4 DEF ExporterStep, ExportSnapshot, BatchQueued, StartBackgroundFlush,
       EndBackgroundFlush, Flush, FlushAfterBackground, FlushReturns, Crash, QueueCrash,
       OtherQueueVars
  <2>5. CASE EnvironmentStep
    BY <2>5 DEF EnvironmentStep, LockAges, Expire, NoSilentLoss
  <2> QED BY <2>2, <2>3, <2>4, <2>5, StepCases DEF CallerStepOf
<1> QED BY <1>1, <1>2, PTL DEF Spec

-----------------------------------------------------------------------------
(* What it promises when no lock file ever grows stale.                    *)

(* Nobody considers a lock stale, and whoever is in its section owns it.   *)
LockInv ==
  /\ ~lockStale
  /\ \A c \in Callers : call[c].step # "unlink"
  /\ LockHeld

(* Which step the call is in after the helpers the actions are made of.    *)
LEMMA StepAfter ==
  ASSUME NEW c \in Callers, call \in [Callers -> Call]
  PROVE  /\ \A r : Leave(c, r) => call'[c].step = "release"
         /\ \A r : Finish(c, r) => call'[c].step = "idle"
         /\ \A s : Goto(c, s) => call'[c].step = s
         /\ NextTry(c) => call'[c].step \in {"open", "idle"}
<1>1. call[c] \in Call
  OBVIOUS
<1>2. ASSUME NEW r, Leave(c, r) PROVE call'[c].step = "release"
  <2>1. call'[c] = [call[c] EXCEPT !.step = "release", !.todo = {}, !.result = r]
    BY <1>2 DEF Leave
  <2>2. [call[c] EXCEPT !.step = "release", !.todo = {}, !.result = r].step = "release"
    BY <1>1 DEF Call
  <2> QED BY <2>1, <2>2
<1>3. ASSUME NEW r, Finish(c, r) PROVE call'[c].step = "idle"
  <2>1. call'[c] = [call[c] EXCEPT !.step = "idle", !.tries = 0, !.result = r]
    BY <1>3 DEF Finish
  <2>2. [call[c] EXCEPT !.step = "idle", !.tries = 0, !.result = r].step = "idle"
    BY <1>1 DEF Call
  <2> QED BY <2>1, <2>2
<1>4. ASSUME NEW s, Goto(c, s) PROVE call'[c].step = s
  BY <1>1, <1>4 DEF Goto, Call
<1>5. ASSUME NextTry(c) PROVE call'[c].step \in {"open", "idle"}
  <2>1. CASE call' = [call EXCEPT ![c] = [@ EXCEPT !.step = "open", !.tries = 1]]
    <3>1. call'[c] = [call[c] EXCEPT !.step = "open", !.tries = 1]
      BY <2>1
    <3>2. [call[c] EXCEPT !.step = "open", !.tries = 1].step = "open"
      BY <1>1 DEF Call
    <3> QED BY <3>1, <3>2
  <2>2. CASE Finish(c, Failure(c))
    BY <1>3, <2>2
  <2> QED BY <1>5, <2>1, <2>2 DEF NextTry
<1> QED BY <1>2, <1>3, <1>4, <1>5

(* A step in withLock() starts and ends there, and changes nobody else's.  *)
LEMMA SectionStep ==
  ASSUME TypeInv, NEW c \in Callers,
         Scan(c) \/ Commit(c) \/ FlushStep(c)
  PROVE  /\ InSection(c) /\ call'[c].step \in Section
         /\ UNCHANGED <<lock, lockStale>>
         /\ \A d \in Callers \ {c} : call'[d] = call[d] /\ sending'[d] = sending[d]
<1>1. call[c] \in Call /\ call \in [Callers -> Call] /\ sending \in [Callers -> Send]
  BY DEF TypeInv, TypeOK, QueueTypeOK, HttpTypeOK
<1>2. InSection(c) /\ UNCHANGED <<lock, lockStale>>
  BY DEF Scan, Commit, FlushStep, SendNext, StopSending, Settle, Rescan, InSection, Section
<1>3. call'[c].step \in Section
  <2>1. CASE Scan(c)
    <3>1. CASE \E r : Leave(c, r)
      BY <1>1, <3>1, StepAfter DEF Section
    <3>2. ASSUME NEW k, ScanReads(c, k) PROVE call'[c].step \in Section
      BY <1>1, <3>2 DEF ScanReads, Section
    <3>3. entries \subseteq Batches
      BY DEF TypeInv, TypeOK, QueueTypeOK
    <3> QED BY <1>1, <2>1, <3>1, <3>2, <3>3, ScanLeads
  <2>2. CASE Commit(c)
    BY <1>1, <2>2, StepAfter DEF Commit, Section
  <2>3. CASE Rescan(c)
    <3>1. CASE call' = [call EXCEPT ![c] = [@ EXCEPT !.step = "release", !.failures = {},
                                                     !.result = "threw"]]
      <4>1. call'[c] = [call[c] EXCEPT !.step = "release", !.failures = {}, !.result = "threw"]
        BY <1>1, <3>1
      <4>2. [call[c] EXCEPT !.step = "release", !.failures = {},
                            !.result = "threw"].step = "release"
        BY <1>1 DEF Call
      <4> QED BY <4>1, <4>2 DEF Section
    <3> QED BY <1>1, <2>3, <3>1, StepAfter DEF Rescan, Section
  <2>4. CASE SendNext(c)
    BY <1>1, <2>4 DEF SendNext, Section, Call
  <2>5. CASE StopSending(c)
    <3>1. call'[c] = [call[c] EXCEPT !.step = "rescan", !.todo = {}]
      BY <1>1, <2>5 DEF StopSending
    <3>2. [call[c] EXCEPT !.step = "rescan", !.todo = {}].step = "rescan"
      BY <1>1 DEF Call
    <3> QED BY <3>1, <3>2 DEF Section
  <2>6. CASE Settle(c)
    <3>1. CASE call' = [call EXCEPT ![c] = [@ EXCEPT !.step = "release", !.todo = {},
                                                     !.failures = {}, !.result = "threw"]]
      <4>1. call'[c] = [call[c] EXCEPT !.step = "release", !.todo = {}, !.failures = {},
                                       !.result = "threw"]
        BY <1>1, <3>1
      <4>2. [call[c] EXCEPT !.step = "release", !.todo = {}, !.failures = {},
                            !.result = "threw"].step = "release"
        BY <1>1 DEF Call
      <4> QED BY <4>1, <4>2 DEF Section
    <3>2. CASE \E f : call' = [call EXCEPT ![c].failures = f]
      BY <1>1, <2>6, <3>2 DEF Settle, Section, Call
    <3> QED BY <2>6, <3>1, <3>2 DEF Settle
  <2> QED BY <2>1, <2>2, <2>3, <2>4, <2>5, <2>6 DEF FlushStep
<1>4. \A d \in Callers \ {c} : call'[d] = call[d]
  BY <1>1 DEF Scan, Commit, FlushStep, SendNext, StopSending, Settle, Rescan, Leave, Goto
<1>5. \A d \in Callers \ {c} : sending'[d] = sending[d]
  BY <1>1 DEF Scan, Commit, FlushStep, SendNext, StopSending, Settle, Rescan, BeginSend,
              Attempt
<1> QED BY <1>2, <1>3, <1>4, <1>5

(* Outside of it: only creating the lock file leads in, and only a caller  *)
(* that is in it, or takes over a stale lock, removes it.                  *)
LEMMA LockStep ==
  ASSUME TypeInv, LockInv, NEW c \in Callers, AcquireStep(c) \/ ReleaseLock(c)
  PROVE  /\ call'[c].step # "unlink" /\ ~lockStale'
         /\ UNCHANGED <<entries, expired, queued, settled, sending>>
         /\ \A d \in Callers \ {c} : call'[d] = call[d]
         /\ \/ lock = NoOne /\ lock' = c
            \/ lock' = lock /\ call'[c].step \notin Section
            \/ lock = c /\ lock' = NoOne /\ call'[c].step \notin Section
<1>1. call[c] \in Call /\ call \in [Callers -> Call]
  BY DEF TypeInv, TypeOK, QueueTypeOK
<1>2. ~lockStale /\ call[c].step # "unlink" /\ (InSection(c) => lock = c)
  BY DEF LockInv, LockHeld
<1>3. UNCHANGED <<entries, expired, queued, settled, sending>>
  BY DEF AcquireStep, CreateLock, CreateLockFails, FindLock, StatLock, UnlinkStaleLock,
         ReleaseLock
<1>4. \A d \in Callers \ {c} : call'[d] = call[d]
  BY <1>1 DEF AcquireStep, CreateLock, CreateLockFails, FindLock, StatLock,
              UnlinkStaleLock, ReleaseLock, NextTry, Finish, Goto
<1>5. ASSUME NextTry(c) \/ (\E r : Finish(c, r))
      PROVE  call'[c].step # "unlink" /\ call'[c].step \notin Section
  BY <1>1, <1>5, StepAfter DEF Section
<1>6. CASE CreateLock(c)
  BY <1>1, <1>3, <1>4, <1>6 DEF CreateLock, Call
<1>7. CASE CreateLockFails(c)
  BY <1>2, <1>3, <1>4, <1>5, <1>7 DEF CreateLockFails
<1>8. CASE FindLock(c)
  BY <1>1, <1>2, <1>3, <1>4, <1>8 DEF FindLock, Goto, Call, Section
<1>9. CASE StatLock(c)
  BY <1>2, <1>3, <1>4, <1>5, <1>9 DEF StatLock
<1>10. CASE ReleaseLock(c)
  BY <1>2, <1>3, <1>4, <1>5, <1>10 DEF ReleaseLock, InSection, Section
<1> QED BY <1>2, <1>6, <1>7, <1>8, <1>9, <1>10 DEF AcquireStep, UnlinkStaleLock

(* The exporter begins and ends its calls outside.                         *)
LEMMA OutsideStep ==
  ASSUME TypeInv, NEW e \in Exporters, ExporterStep(e) \/ Crash(e)
  PROVE  /\ UNCHANGED <<entries, expired, lock, lockStale, queued, settled>>
         /\ \A d \in Callers :
              \/ call'[d] = call[d] /\ sending'[d] = sending[d]
              \/ sending'[d] = NotSending /\ call'[d] = NoCall
              \/ ~InSection(d) /\ sending'[d] = sending[d] /\ call'[d] \in {NoCall, NewCall}
<1>1. call \in [Callers -> Call] /\ ExporterInv
  BY DEF TypeInv, TypeOK, QueueTypeOK
<1>2. CASE Crash(e)
  BY <1>1, <1>2 DEF Crash, QueueCrash
<1>3. CASE ExporterStep(e)
  <2>1. UNCHANGED OtherQueueVars
    BY <1>3 DEF ExporterStep, ExportSnapshot, BatchQueued, StartBackgroundFlush,
       EndBackgroundFlush, Flush, FlushAfterBackground, FlushReturns
  <2>2. CASE UNCHANGED call
    BY <2>1, <2>2 DEF OtherQueueVars
  <2>3. ASSUME NEW c \in Callers, ~InSection(c), Begin(c) \/ Resumed(c)
        PROVE  \A d \in Callers :
                 call'[d] = call[d] \/ (~InSection(d) /\ call'[d] \in {NoCall, NewCall})
    BY <1>1, <2>3 DEF Begin, Resumed
  <2>4. CASE \E n \in 1..MaxBatches : ExportSnapshot(e, n)
    <3>1. ~Busy(<<e, "export">>) /\ Begin(<<e, "export">>)
      BY <1>1, <2>4 DEF ExporterInv, ExportSnapshot
    <3> QED BY <2>1, <2>3, <3>1, ExporterCallers
            DEF OtherQueueVars, Busy, NotCalling, InSection, Section
  <2>5. CASE BatchQueued(e)
    <3>1. Settled(<<e, "export">>) /\ (Begin(<<e, "export">>) \/ Resumed(<<e, "export">>))
      BY <2>5 DEF BatchQueued
    <3> QED BY <2>1, <2>3, <3>1, ExporterCallers
            DEF OtherQueueVars, Settled, InSection, Section
  <2>6. CASE StartBackgroundFlush(e)
    <3>1. NotCalling(<<e, "background">>) /\ Begin(<<e, "background">>)
      BY <2>6 DEF StartBackgroundFlush
    <3> QED BY <2>1, <2>3, <3>1, ExporterCallers
            DEF OtherQueueVars, NotCalling, InSection, Section
  <2>7. CASE EndBackgroundFlush(e)
    <3>1. Settled(<<e, "background">>) /\ Resumed(<<e, "background">>)
      BY <2>7 DEF EndBackgroundFlush
    <3> QED BY <2>1, <2>3, <3>1, ExporterCallers
            DEF OtherQueueVars, Settled, InSection, Section
  <2>8. CASE Flush(e)
    BY <2>2, <2>8 DEF Flush
  <2>9. CASE FlushAfterBackground(e)
    <3>1. ~Busy(<<e, "flush">>) /\ Begin(<<e, "flush">>)
      BY <1>1, <2>9 DEF ExporterInv, FlushAfterBackground
    <3> QED BY <2>1, <2>3, <3>1, ExporterCallers
            DEF OtherQueueVars, Busy, NotCalling, InSection, Section
  <2>10. CASE FlushReturns(e)
    <3>1. Settled(<<e, "flush">>) /\ Resumed(<<e, "flush">>)
      BY <2>10 DEF FlushReturns
    <3> QED BY <2>1, <2>3, <3>1, ExporterCallers
            DEF OtherQueueVars, Settled, InSection, Section
  <2> QED BY <1>3, <2>4, <2>5, <2>6, <2>7, <2>8, <2>9, <2>10 DEF ExporterStep
<1> QED BY <1>2, <1>3

(* The lock excludes: it is inductive with the types.                      *)
LEMMA LockInductive ==
  ASSUME TypeInv, LockInv, Takeover = "never", [Next]_vars
  PROVE  LockInv'
<1>1. /\ ~lockStale /\ LockHeld /\ \A c \in Callers : call[c].step # "unlink"
      /\ NoOne \notin Callers
  BY QueueAssumption DEF LockInv
<1>2. CASE UNCHANGED <<lock, lockStale, call>>
  BY <1>1, <1>2 DEF LockInv, LockHeld, InSection
<1>3. ASSUME NEW c \in Callers, CallerStepOf(c)
      PROVE  LockInv'
  <2>1. CASE AcquireStep(c) \/ ReleaseLock(c)
    <3>1. /\ call'[c].step # "unlink" /\ ~lockStale'
          /\ \A d \in Callers \ {c} : call'[d] = call[d]
          /\ \/ lock = NoOne /\ lock' = c
             \/ lock' = lock /\ call'[c].step \notin Section
             \/ lock = c /\ lock' = NoOne /\ call'[c].step \notin Section
      BY <2>1, LockStep
    <3>2. \A d \in Callers : InSection(d)' => lock' = d
      BY <1>1, <3>1 DEF LockHeld, InSection
    <3> QED BY <1>1, <3>1, <3>2 DEF LockInv, LockHeld
  <2>2. CASE Scan(c) \/ Commit(c) \/ FlushStep(c)
    <3>1. /\ InSection(c) /\ call'[c].step \in Section
          /\ UNCHANGED <<lock, lockStale>>
          /\ \A d \in Callers \ {c} : call'[d] = call[d]
      BY <2>2, SectionStep
    <3>2. call'[c].step # "unlink"
      BY <3>1 DEF Section
    <3> QED BY <1>1, <3>1, <3>2 DEF LockInv, LockHeld, InSection
  <2>3. CASE UNCHANGED queueVars
    BY <1>2, <2>3 DEF queueVars
  <2> QED BY <1>3, <2>1, <2>2, <2>3 DEF CallerStepOf, CallerStep
<1>4. ASSUME NEW e \in Exporters, ExporterStep(e) \/ Crash(e)
      PROVE  LockInv'
  <2>1. UNCHANGED <<lock, lockStale>>
    BY <1>4, OutsideStep
  <2>2. \A d \in Callers :
          call'[d] = call[d] \/ call'[d] = NoCall \/ call'[d] = NewCall
    BY <1>4, OutsideStep
  <2>3. /\ NoCall.step \notin Section /\ NoCall.step # "unlink"
        /\ NewCall.step \notin Section /\ NewCall.step # "unlink"
    BY DEF NoCall, NewCall, Section
  <2> QED BY <1>1, <2>1, <2>2, <2>3 DEF LockInv, LockHeld, InSection
<1>5. CASE EnvironmentStep
  BY <1>2, <1>5 DEF EnvironmentStep, LockAges, Expire
<1> QED BY <1>2, <1>3, <1>4, <1>5, StepCases DEF vars, queueVars

(* As long as no lock file grows stale, whoever is inside withLock() owns  *)
(* consumer.lock, whatever crashes, failing file operations and the order  *)
(* of the callers' steps.                                                  *)
THEOREM LockExcludes ==
  ASSUME Takeover = "never"
  PROVE  Spec => []LockHeld
<1>1. Init => LockInv
  BY DEF Init, QueueInit, NoCall, LockInv, LockHeld, InSection, Section
<1>2. TypeInv /\ LockInv /\ [Next]_vars => LockInv'
  BY LockInductive
<1> QED BY <1>1, <1>2, TypeInvariant, PTL DEF Spec, LockInv

-----------------------------------------------------------------------------
(* What a flush sends while the lock works.                                *)

(* A send() belongs to a flush in its loop, and is of an entry that is     *)
(* still there and not to be sent again; what the flush has still to send  *)
(* is there too.                                                           *)
SendInv ==
  \A c \in Callers :
    /\ sending[c].state # "none" =>
         /\ call[c].step = "send"
         /\ sending[c].batch \in entries \ call[c].todo
    /\ call[c].step = "send" => call[c].todo \subseteq entries

(* An attempt leaves a send() of the same batch under way or over.         *)
LEMMA AttemptSends ==
  ASSUME NEW c \in Callers, sending \in [Callers -> Send], NEW s \in Send, Attempt(c, s)
  PROVE  /\ sending'[c].state # "none" /\ sending'[c].batch = s.batch
         /\ \A d \in Callers \ {c} : sending'[d] = sending[d]
<1>1. CASE sending' = [sending EXCEPT ![c] = [s EXCEPT !.state = "rejected"]]
  BY <1>1 DEF Send
<1>2. CASE sending' = [sending EXCEPT ![c] = [s EXCEPT !.state = "waiting", !.attempts = @ + 1]]
  <2>1. sending'[c] = [s EXCEPT !.state = "waiting", !.attempts = @ + 1]
    BY <1>2
  <2>2. [s EXCEPT !.state = "waiting", !.attempts = @ + 1].state = "waiting"
    BY DEF Send
  <2>3. [s EXCEPT !.state = "waiting", !.attempts = @ + 1].batch = s.batch
    BY DEF Send
  <2> QED BY <1>2, <2>1, <2>2, <2>3
<1> QED BY <1>1, <1>2 DEF Attempt

(* It is inductive with the types and the lock.                            *)
LEMMA SendInductive ==
  ASSUME TypeInv, LockInv, SendInv, Takeover = "never", [Next]_vars
  PROVE  SendInv'
<1>1. /\ call \in [Callers -> Call] /\ sending \in [Callers -> Send]
      /\ entries \subseteq Batches /\ AttemptInv
  BY DEF TypeInv, TypeOK, QueueTypeOK, HttpTypeOK
(* Two callers are never in their sections at once.                        *)
<1>2. \A c, d \in Callers : InSection(c) /\ InSection(d) => c = d
  BY DEF LockInv, LockHeld
<1>3. "send" \in Section
  BY DEF Section
<1>4. CASE UNCHANGED <<entries, call, sending>>
  BY <1>4 DEF SendInv
<1>5. ASSUME NEW c \in Callers, InSection(c),
             \A d \in Callers \ {c} : call'[d] = call[d] /\ sending'[d] = sending[d],
             sending'[c].state # "none" =>
               call'[c].step = "send" /\ sending'[c].batch \in entries' \ call'[c].todo,
             call'[c].step = "send" => call'[c].todo \subseteq entries'
      PROVE  SendInv'
  <2>1. \A d \in Callers \ {c} : call[d].step # "send" /\ sending[d].state = "none"
    BY <1>2, <1>3, <1>5 DEF InSection, SendInv
  <2> QED BY <1>5, <2>1 DEF SendInv
<1>6. ASSUME NEW c \in Callers, CallerStepOf(c)
      PROVE  SendInv'
  <2>1. CASE AcquireStep(c) \/ ReleaseLock(c)
    <3>1. /\ call[c].step # "send" /\ sending[c].state = "none"
          /\ UNCHANGED <<entries, sending>>
          /\ \A d \in Callers \ {c} : call'[d] = call[d]
      <4>1. call[c].step # "send"
        BY <2>1 DEF AcquireStep, CreateLock, CreateLockFails, FindLock, StatLock,
                    UnlinkStaleLock, ReleaseLock
      <4> QED BY <2>1, <4>1, LockStep DEF SendInv
    <3>2. call'[c].step # "send"
      <4>1. CASE CreateLock(c)
        <5>1. call'[c] = [call[c] EXCEPT !.step = "scan", !.tries = 0]
          BY <1>1, <4>1 DEF CreateLock
        <5>2. [call[c] EXCEPT !.step = "scan", !.tries = 0].step = "scan"
          BY <1>1 DEF Call
        <5> QED BY <5>1, <5>2
      <4>2. CASE CreateLockFails(c) \/ StatLock(c) \/ UnlinkStaleLock(c)
        BY <1>1, <4>2, StepAfter DEF CreateLockFails, StatLock, UnlinkStaleLock
      <4>3. CASE FindLock(c) \/ ReleaseLock(c)
        BY <1>1, <4>3, StepAfter DEF FindLock, ReleaseLock
      <4> QED BY <2>1, <4>1, <4>2, <4>3 DEF AcquireStep
    <3> QED BY <3>1, <3>2 DEF SendInv
  <2>2. CASE Scan(c)
    <3>1. /\ InSection(c)
          /\ \A d \in Callers \ {c} : call'[d] = call[d] /\ sending'[d] = sending[d]
      BY <2>2, SectionStep
    <3>2. sending'[c].state = "none"
      BY <2>2 DEF Scan, SendInv
    <3>3. call'[c].step = "send" => call'[c].todo \subseteq entries'
      <4>1. CASE \E r : Leave(c, r)
        BY <1>1, <4>1, StepAfter
      <4>2. ASSUME NEW k, ScanReads(c, k) PROVE call'[c].todo \subseteq entries'
        BY <1>1, <4>2 DEF ScanReads
      <4> QED BY <1>1, <2>2, <4>1, <4>2, ScanLeads
    <3> QED BY <1>5, <3>1, <3>2, <3>3
  <2>3. CASE Commit(c) \/ Rescan(c) \/ StopSending(c)
    <3>1. /\ InSection(c)
          /\ \A d \in Callers \ {c} : call'[d] = call[d] /\ sending'[d] = sending[d]
      BY <2>3, SectionStep DEF FlushStep
    <3>2. sending'[c].state = "none"
      BY <2>3 DEF Commit, Rescan, StopSending, SendInv
    <3>3. call'[c].step # "send"
      <4>1. CASE Commit(c)
        BY <1>1, <4>1, StepAfter DEF Commit
      <4>2. CASE Rescan(c)
        <5>1. CASE call' = [call EXCEPT ![c] = [@ EXCEPT !.step = "release",
                                                 !.failures = {}, !.result = "threw"]]
          <6>1. call'[c] = [call[c] EXCEPT !.step = "release", !.failures = {},
                                           !.result = "threw"]
            BY <1>1, <5>1
          <6>2. [call[c] EXCEPT !.step = "release", !.failures = {},
                                !.result = "threw"].step = "release"
            BY <1>1 DEF Call
          <6> QED BY <6>1, <6>2
        <5> QED BY <1>1, <4>2, <5>1, StepAfter DEF Rescan
      <4>3. CASE StopSending(c)
        <5>1. call'[c] = [call[c] EXCEPT !.step = "rescan", !.todo = {}]
          BY <1>1, <4>3 DEF StopSending
        <5>2. [call[c] EXCEPT !.step = "rescan", !.todo = {}].step = "rescan"
          BY <1>1 DEF Call
        <5> QED BY <5>1, <5>2
      <4> QED BY <2>3, <4>1, <4>2, <4>3
    <3> QED BY <1>5, <3>1, <3>2, <3>3
  <2>4. CASE SendNext(c)
    <3> DEFINE b == Min(call[c].todo)
    <3>1. /\ InSection(c)
          /\ \A d \in Callers \ {c} : call'[d] = call[d] /\ sending'[d] = sending[d]
      BY <2>4, SectionStep DEF FlushStep
    <3>2. call[c].todo \in SUBSET Batches /\ call[c].todo \subseteq entries
      BY <1>1, <2>4 DEF SendNext, SendInv
    <3>3. b \in call[c].todo /\ b \in Batches
      BY <2>4, <3>2, MinOfBatches DEF SendNext
    <3>4. sending'[c].batch = b
      <4> DEFINE t == [NotSending EXCEPT !.batch = b]
      <4>1. t \in Send /\ t.batch = b
        BY <3>3, HttpClientAssumption DEF NotSending, Send
      <4>2. Attempt(c, t)
        BY <2>4 DEF SendNext, BeginSend
      <4> HIDE DEF t
      <4> QED BY <1>1, <4>1, <4>2, AttemptSends
    <3> HIDE DEF b
    <3>5. /\ call'[c].step = "send" /\ call'[c].todo = call[c].todo \ {b}
          /\ entries' = entries
      BY <1>1, <2>4 DEF SendNext, Call, b
    <3> QED BY <1>5, <3>1, <3>2, <3>3, <3>4, <3>5
  <2>5. CASE Settle(c)
    <3> DEFINE b == sending[c].batch
    <3>1. /\ InSection(c)
          /\ \A d \in Callers \ {c} : call'[d] = call[d] /\ sending'[d] = sending[d]
      BY <2>5, SectionStep DEF FlushStep
    <3>2. sending'[c].state = "none"
      BY <1>1, <2>5 DEF Settle, NotSending
    <3>3. /\ call[c].todo \subseteq entries \ {b}
          /\ entries \ {b} \subseteq entries'
      BY <2>5 DEF Settle, SendInv, Reported
    <3>4. call'[c].step = "send" => call'[c].todo = call[c].todo
      <4>1. CASE \E f : call' = [call EXCEPT ![c].failures = f]
        BY <1>1, <4>1 DEF Call
      <4>2. CASE call' = [call EXCEPT ![c] = [@ EXCEPT !.step = "release", !.todo = {},
                                                       !.failures = {}, !.result = "threw"]]
        <5>1. call'[c] = [call[c] EXCEPT !.step = "release", !.todo = {}, !.failures = {},
                                         !.result = "threw"]
          BY <1>1, <4>2
        <5>2. [call[c] EXCEPT !.step = "release", !.todo = {}, !.failures = {},
                              !.result = "threw"].step = "release"
          BY <1>1 DEF Call
        <5> QED BY <5>1, <5>2
      <4> QED BY <2>5, <4>1, <4>2 DEF Settle
    <3> QED BY <1>5, <3>1, <3>2, <3>3, <3>4
  <2>6. CASE HttpStep(c) /\ UNCHANGED queueVars
    <3>1. sending[c].state # "none" /\ UNCHANGED <<call, entries>>
      BY <2>6 DEF HttpStep, Accepted, Rejected, Retryable, NoAnswer, AfterPause, Aborted,
                  queueVars
    <3>2. InSection(c)
      BY <1>3, <3>1 DEF SendInv, InSection
    <3>3. /\ sending'[c].batch = sending[c].batch
          /\ \A d \in Callers \ {c} : sending'[d] = sending[d]
      <4>1. CASE \E st : Becomes(c, st)
        BY <1>1, <4>1 DEF Becomes, Send
      <4>2. CASE AfterPause(c)
        BY <1>1, <4>2, AttemptSends DEF AfterPause
      <4> QED BY <2>6, <4>1, <4>2
              DEF HttpStep, Accepted, Rejected, Retryable, NoAnswer, Aborted, AfterFailure
    <3> QED BY <1>5, <3>1, <3>2, <3>3 DEF SendInv
  <2> QED BY <1>6, <2>1, <2>2, <2>3, <2>4, <2>5, <2>6 DEF CallerStepOf, CallerStep, FlushStep
<1>7. ASSUME NEW e \in Exporters, ExporterStep(e) \/ Crash(e)
      PROVE  SendInv'
  <2>1. entries' = entries
    BY <1>7, OutsideStep
  <2>2. ASSUME NEW d \in Callers
        PROVE  /\ sending'[d].state # "none" =>
                    /\ call'[d].step = "send"
                    /\ sending'[d].batch \in entries \ call'[d].todo
               /\ call'[d].step = "send" => call'[d].todo \subseteq entries
    <3>1. CASE call'[d] = call[d] /\ sending'[d] = sending[d]
      BY <3>1 DEF SendInv
    <3>2. CASE sending'[d] = NotSending /\ call'[d] = NoCall
      BY <3>2 DEF NotSending, NoCall
    <3>3. CASE ~InSection(d) /\ sending'[d] = sending[d] /\ call'[d] \in {NoCall, NewCall}
      <4>1. sending[d].state = "none"
        BY <1>3, <3>3 DEF SendInv, InSection
      <4>2. NoCall.step # "send" /\ NewCall.step # "send"
        BY DEF NoCall, NewCall
      <4> QED BY <3>3, <4>1, <4>2
    <3> QED BY <1>7, <3>1, <3>2, <3>3, OutsideStep
  <2> QED BY <2>1, <2>2 DEF SendInv
<1>8. CASE EnvironmentStep
  BY <1>4, <1>8 DEF EnvironmentStep, LockAges, Expire
<1> QED BY <1>4, <1>6, <1>7, <1>8, StepCases DEF vars, queueVars

(* As long as no lock file grows stale, a batch is only ever posted while  *)
(* its file is in entries/, however long the sends and pauses since the    *)
(* flush read it took.                                                     *)
THEOREM SendsOnlyQueued ==
  ASSUME Takeover = "never"
  PROVE  Spec => []OnlyQueuedBatchesAreSent
<1>1. Init => LockInv /\ SendInv
  BY DEF Init, HttpInit, QueueInit, NoCall, NotSending, LockInv, LockHeld, InSection, Section,
         SendInv
<1>2. TypeInv /\ LockInv /\ SendInv /\ [Next]_vars => LockInv' /\ SendInv'
  BY LockInductive, SendInductive
<1>3. SendInv => OnlyQueuedBatchesAreSent
  BY DEF SendInv, OnlyQueuedBatchesAreSent
<1> QED BY <1>1, <1>2, <1>3, TypeInvariant, PTL DEF Spec

-----------------------------------------------------------------------------
(* The queue with a working lock is the outbox it promises to be.          *)

(* Batches are numbered in the order of their commits, what is on disk was *)
(* committed, and what the scan of a caller about to commit has read of it *)
(* leaves room for one more batch.                                         *)
RoomInv ==
  /\ queued = 1..Cardinality(queued)
  /\ entries \subseteq queued
  /\ \A c \in Callers :
       call[c].step = "commit" =>
         call[c].todo \subseteq entries /\ Cardinality(call[c].todo) < MaxEntries

(* Only finitely many batches are ever created.                            *)
LEMMA BatchesFinite == \A S \in SUBSET Batches : IsFiniteSet(S) /\ Cardinality(S) \in Nat
<1>1. IsFiniteSet(1..MaxBatches)
  BY HttpClientAssumption, FS_Interval
<1>2. \A S \in SUBSET Batches : IsFiniteSet(S)
  BY <1>1, FS_Subset DEF Batches
<1> QED BY <1>2, FS_CardinalityType

(* Removing entries, or their expiring, makes room.                        *)
LEMMA RoomGrows ==
  ASSUME NEW S \in SUBSET Batches, NEW T \in SUBSET S, Cardinality(S) < MaxEntries
  PROVE  Cardinality(T) < MaxEntries
<1>1. Cardinality(T) <= Cardinality(S) /\ Cardinality(T) \in Nat /\ Cardinality(S) \in Nat
  BY BatchesFinite, FS_Subset
<1> QED BY <1>1, QueueAssumption

(* The next batch has the next number.                                     *)
LEMMA NextBatch ==
  ASSUME queued \subseteq Batches, queued = 1..Cardinality(queued)
  PROVE  /\ Cardinality(queued) + 1 \notin queued
         /\ queued \cup {Cardinality(queued) + 1}
              = 1..Cardinality(queued \cup {Cardinality(queued) + 1})
<1> DEFINE n == Cardinality(queued)
<1>1. IsFiniteSet(queued) /\ n \in Nat
  BY BatchesFinite
<1> HIDE DEF n
<1>2. n + 1 \notin queued
  BY <1>1 DEF n
<1>3. Cardinality(queued \cup {n + 1}) = n + 1
  BY <1>1, <1>2, FS_AddElement DEF n
<1>4. queued \cup {n + 1} = 1..(n + 1)
  <2>1. queued = 1..n
    BY DEF n
  <2> QED BY <1>1, <2>1
<1> QED BY <1>2, <1>3, <1>4 DEF n

(* The outbox counts its batches as the queue does.                        *)
LEMMA OutboxCounts == \A S : Outbox!Cardinality(S) = Cardinality(S)
BY DEF Outbox!Cardinality, Cardinality

(* Nobody's scan has passed over anything unless somebody is to commit.    *)
LEMMA NothingPassedOver ==
  /\ (\A c \in Callers : call[c].step # "commit") => PassedOver = {}
  /\ PassedOver \subseteq entries
BY DEF PassedOver

(* Every step of the system puts, settles or expires a batch of the        *)
(* outbox, or only looks into it.                                          *)
LEMMA OutboxStep ==
  ASSUME TypeInv, LockInv, SendInv, RoomInv, Takeover = "never", [Next]_vars
  PROVE  [Outbox!Next]_(Outbox!outboxVars) /\ RoomInv'
<1>1. /\ call \in [Callers -> Call] /\ entries \subseteq Batches /\ queued \subseteq Batches
      /\ expired \subseteq Batches
  BY DEF TypeInv, TypeOK, QueueTypeOK
<1>2. \A c, d \in Callers : InSection(c) /\ InSection(d) => c = d
  BY DEF LockInv, LockHeld
<1>3. "commit" \in Section /\ NoCall.step # "commit" /\ NewCall.step # "commit"
  BY DEF Section, NoCall, NewCall
<1>4. CASE /\ UNCHANGED <<entries, expired, queued, settled>>
           /\ \A d \in Callers : call'[d].step = "commit" => call'[d] = call[d]
  <2>1. Outbox!Look
    BY <1>4, NothingPassedOver DEF Outbox!Look, PassedOver
  <2>2. RoomInv'
    BY <1>4 DEF RoomInv
  <2> QED BY <2>1, <2>2 DEF Outbox!Next
<1>5. ASSUME NEW c \in Callers, InSection(c),
             \A d \in Callers \ {c} : call'[d] = call[d]
      PROVE  \A d \in Callers : call'[d].step = "commit" => d = c
  BY <1>2, <1>3, <1>5 DEF InSection
<1>6. ASSUME NEW c \in Callers, CallerStepOf(c)
      PROVE  [Outbox!Next]_(Outbox!outboxVars) /\ RoomInv'
  <2>1. CASE AcquireStep(c) \/ ReleaseLock(c)
    <3>1. /\ UNCHANGED <<entries, expired, queued, settled>>
          /\ \A d \in Callers \ {c} : call'[d] = call[d]
      BY <2>1, LockStep
    <3>2. call'[c].step # "commit"
      <4>1. CASE CreateLock(c)
        <5>1. call'[c] = [call[c] EXCEPT !.step = "scan", !.tries = 0]
          BY <1>1, <4>1 DEF CreateLock
        <5>2. [call[c] EXCEPT !.step = "scan", !.tries = 0].step = "scan"
          BY <1>1 DEF Call
        <5> QED BY <5>1, <5>2
      <4>2. CASE CreateLockFails(c) \/ StatLock(c) \/ UnlinkStaleLock(c)
        BY <1>1, <4>2, StepAfter DEF CreateLockFails, StatLock, UnlinkStaleLock
      <4>3. CASE FindLock(c) \/ ReleaseLock(c)
        BY <1>1, <4>3, StepAfter DEF FindLock, ReleaseLock
      <4> QED BY <2>1, <4>1, <4>2, <4>3 DEF AcquireStep
    <3> QED BY <1>4, <3>1, <3>2
  <2>2. CASE Scan(c)
    <3>1. \A d \in Callers : call'[d].step = "commit" => d = c
      BY <1>5, <2>2, SectionStep
    <3>2. /\ entries' \subseteq entries /\ entries \ entries' \subseteq expired
          /\ UNCHANGED <<expired, queued, settled>>
      BY <2>2 DEF Scan
    <3>3. Outbox!Look
      BY <3>2 DEF Outbox!Look, PassedOver
    <3>4. call'[c].step = "commit" =>
            call'[c].todo \subseteq entries' /\ Cardinality(call'[c].todo) < MaxEntries
      <4>1. CASE \E r : Leave(c, r)
        BY <1>1, <4>1, StepAfter
      <4>2. ASSUME NEW k, ScanReads(c, k)
            PROVE  call'[c].step = "commit" =>
                     /\ call'[c].todo \subseteq entries'
                     /\ Cardinality(call'[c].todo) < MaxEntries
        <5>1. call'[c] = k
          BY <1>1, <4>2 DEF ScanReads
        <5>2. k.todo \subseteq entries' /\ k.todo \in SUBSET Batches
          BY <1>1, <4>2 DEF ScanReads
        <5>3. Cardinality(k.todo) \in Nat
          BY <5>2, BatchesFinite
        <5>4. k.step = "commit" => Cardinality(k.todo) < MaxEntries
          BY <4>2, <5>3, QueueAssumption DEF ScanReads, Full
        <5> QED BY <5>1, <5>2, <5>4
      <4> QED BY <1>1, <2>2, <4>1, <4>2, ScanLeads
    <3> QED BY <3>1, <3>2, <3>3, <3>4 DEF RoomInv, Outbox!Next
  <2>3. CASE Commit(c)
    <3> DEFINE b == Cardinality(queued) + 1
    <3>1. \A d \in Callers : call'[d].step # "commit"
      <4>1. call'[c].step = "release"
        BY <1>1, <2>3, StepAfter DEF Commit
      <4> QED BY <1>5, <2>3, <4>1, SectionStep
    <3>2. CASE UNCHANGED <<entries, queued>>
      BY <2>3, <3>1, <3>2, <1>4 DEF Commit
    <3>3. CASE b \in Batches /\ entries' = entries \cup {b} /\ queued' = queued \cup {b}
      <4>1. b \notin queued /\ queued' = 1..Cardinality(queued')
        BY <1>1, <3>3, NextBatch DEF RoomInv
      <4>2. Cardinality(entries \ (expired \cup PassedOver)) < MaxEntries
        <5>1. call[c].step = "commit"
          BY <2>3 DEF Commit
        <5>2. call[c].todo \in SUBSET Batches /\ Cardinality(call[c].todo) < MaxEntries
          BY <1>1, <5>1 DEF RoomInv
        <5>3. entries \ call[c].todo \subseteq PassedOver
          BY <5>1 DEF PassedOver
        <5>4. entries \ (expired \cup PassedOver) \in SUBSET call[c].todo
          BY <5>3
        <5> QED BY <5>2, <5>4, RoomGrows
      <4>3. UNCHANGED <<settled, expired>>
        BY <2>3 DEF Commit
      <4>6. PassedOver' = {}
        BY <3>1 DEF PassedOver
      <4> HIDE DEF b
      <4>4. Outbox!Put(b)
        BY <3>3, <4>1, <4>2, <4>3, <4>6, OutboxCounts DEF Outbox!Put
      <4>5. RoomInv'
        BY <3>1, <3>3, <4>1 DEF RoomInv
      <4> QED BY <3>3, <4>4, <4>5 DEF Outbox!Next
    <3> QED BY <2>3, <3>2, <3>3 DEF Commit
  <2>4. CASE Settle(c)
    <3> DEFINE b == sending[c].batch
    <3>1. \A d \in Callers : call'[d].step # "commit"
      <4>1. call[c].step = "send" /\ InSection(c)
        BY <2>4, SectionStep DEF Settle, FlushStep
      <4>2. call'[c].step # "commit"
        <5>1. CASE \E f : call' = [call EXCEPT ![c].failures = f]
          BY <1>1, <4>1, <5>1 DEF Call
        <5>2. CASE call' = [call EXCEPT ![c] = [@ EXCEPT !.step = "release", !.todo = {},
                                                         !.failures = {}, !.result = "threw"]]
          <6>1. call'[c] = [call[c] EXCEPT !.step = "release", !.todo = {}, !.failures = {},
                                           !.result = "threw"]
            BY <1>1, <5>2
          <6>2. [call[c] EXCEPT !.step = "release", !.todo = {}, !.failures = {},
                                !.result = "threw"].step = "release"
            BY <1>1 DEF Call
          <6> QED BY <6>1, <6>2
        <5> QED BY <2>4, <5>1, <5>2 DEF Settle
      <4>3. \A d \in Callers : call'[d].step = "commit" => d = c
        BY <1>5, <2>4, SectionStep DEF FlushStep
      <4> QED BY <4>2, <4>3
    <3>2. b \in entries /\ b \in queued /\ b \in Batches
      BY <1>1, <2>4 DEF Settle, SendInv, RoomInv, Reported
    <3>3. UNCHANGED <<queued, expired>>
      BY <2>4 DEF Settle
    <3>4. CASE sending[c].state \in FinalStates
      <4>1. entries' \in {entries, entries \ {b}} /\ settled' = settled \cup {b}
        BY <2>4, <3>4 DEF Settle, FinalStates
      <4>5. PassedOver = {} /\ PassedOver' = {}
        <5>1. \A d \in Callers : call[d].step # "commit"
          BY <1>2, <1>3, <2>4, SectionStep DEF Settle, FlushStep, InSection
        <5> QED BY <3>1, <5>1, NothingPassedOver DEF PassedOver
      <4>2. Outbox!Settle(b)
        BY <3>2, <3>3, <4>1, <4>5 DEF Outbox!Settle
      <4>3. entries' \subseteq queued
        BY <4>1 DEF RoomInv
      <4>4. RoomInv'
        BY <3>1, <3>3, <4>3 DEF RoomInv
      <4> QED BY <3>2, <4>2, <4>4 DEF Outbox!Next
    <3>5. CASE sending[c].state \notin FinalStates
      <4>1. entries' = entries /\ settled' = settled
        BY <2>4, <3>2, <3>5 DEF Settle, FinalStates, Reported
      <4> QED BY <1>4, <3>1, <3>3, <4>1
    <3> QED BY <3>4, <3>5
  <2>5. CASE SendNext(c) \/ StopSending(c) \/ Rescan(c)
    <3>1. /\ UNCHANGED <<entries, expired, queued, settled>>
          /\ \A d \in Callers \ {c} : call'[d] = call[d]
      BY <2>5, SectionStep DEF FlushStep, SendNext, StopSending, Rescan
    <3>2. call'[c].step # "commit"
      <4>1. CASE SendNext(c)
        BY <1>1, <4>1 DEF SendNext, Call
      <4>2. CASE StopSending(c)
        <5>1. call'[c] = [call[c] EXCEPT !.step = "rescan", !.todo = {}]
          BY <1>1, <4>2 DEF StopSending
        <5>2. [call[c] EXCEPT !.step = "rescan", !.todo = {}].step = "rescan"
          BY <1>1 DEF Call
        <5> QED BY <5>1, <5>2
      <4>3. CASE Rescan(c)
        <5>1. CASE call' = [call EXCEPT ![c] = [@ EXCEPT !.step = "release",
                                                 !.failures = {}, !.result = "threw"]]
          <6>1. call'[c] = [call[c] EXCEPT !.step = "release", !.failures = {},
                                           !.result = "threw"]
            BY <1>1, <5>1
          <6>2. [call[c] EXCEPT !.step = "release", !.failures = {},
                                !.result = "threw"].step = "release"
            BY <1>1 DEF Call
          <6> QED BY <6>1, <6>2
        <5> QED BY <1>1, <4>3, <5>1, StepAfter DEF Rescan
      <4> QED BY <2>5, <4>1, <4>2, <4>3
    <3> QED BY <1>4, <3>1, <3>2
  <2>6. CASE UNCHANGED queueVars
    BY <1>4, <2>6 DEF queueVars
  <2> QED BY <1>6, <2>1, <2>2, <2>3, <2>4, <2>5, <2>6 DEF CallerStepOf, CallerStep, FlushStep
<1>7. ASSUME NEW e \in Exporters, ExporterStep(e) \/ Crash(e)
      PROVE  [Outbox!Next]_(Outbox!outboxVars) /\ RoomInv'
  <2>1. /\ UNCHANGED <<entries, expired, queued, settled>>
        /\ \A d \in Callers : call'[d] = call[d] \/ call'[d] \in {NoCall, NewCall}
    BY <1>7, OutsideStep
  <2> QED BY <1>3, <1>4, <2>1
<1>8. CASE EnvironmentStep
  <2>1. CASE LockAges
    BY <1>4, <2>1 DEF LockAges
  <2>2. ASSUME NEW b \in Batches, Expire(b)
        PROVE  [Outbox!Next]_(Outbox!outboxVars) /\ RoomInv'
    <3>1. /\ b \in entries /\ expired' = expired \cup {b}
          /\ UNCHANGED <<entries, queued, settled, call>>
      BY <2>2 DEF Expire
    <3>2. Outbox!Expire(b)
      BY <3>1 DEF Outbox!Expire, RoomInv, PassedOver
    <3>3. RoomInv'
      BY <3>1 DEF RoomInv
    <3> QED BY <3>2, <3>3 DEF Outbox!Next
  <2> QED BY <1>8, <2>1, <2>2 DEF EnvironmentStep
<1> QED BY <1>4, <1>6, <1>7, <1>8, StepCases DEF vars, queueVars

(* As long as no lock file grows stale, the queue directory implements the *)
(* outbox: every batch is put in once, and only while the entries that the *)
(* scan before it could read leave room under maxEntries; it is removed    *)
(* only after a final answer or its expiry, and never comes back.          *)
THEOREM QueueImplementsOutbox ==
  ASSUME Takeover = "never"
  PROVE  Spec => OutboxSpec
<1>1. Init => LockInv /\ SendInv /\ RoomInv /\ Outbox!Init
  <2> SUFFICES ASSUME Init PROVE LockInv /\ SendInv /\ RoomInv /\ Outbox!Init
    OBVIOUS
  <2>1. LockInv /\ SendInv /\ Outbox!Init
    BY DEF Init, HttpInit, QueueInit, NoCall, NotSending, LockInv, LockHeld, InSection,
           Section, SendInv, Outbox!Init, PassedOver
  <2>2. queued = 1..Cardinality(queued)
    BY FS_EmptySet DEF Init, QueueInit
  <2>3. \A c \in Callers : call[c].step # "commit"
    BY DEF Init, QueueInit, NoCall
  <2>4. RoomInv
    BY <2>2, <2>3 DEF RoomInv, Init, QueueInit
  <2> QED BY <2>1, <2>4
<1>2. TypeInv /\ LockInv /\ SendInv /\ RoomInv /\ [Next]_vars
        => LockInv' /\ SendInv' /\ RoomInv' /\ [Outbox!Next]_(Outbox!outboxVars)
  BY LockInductive, SendInductive, OutboxStep
<1> QED BY <1>1, <1>2, TypeInvariant, PTL DEF Spec, OutboxSpec, Outbox!Spec
=============================================================================
