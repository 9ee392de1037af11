-------------------------- MODULE TraceReplayProofs --------------------------
(***************************************************************************)
(* Theorems on the mock and the verified runner, for every source trace,   *)
(* checkpoint, policy and set of live adapters: what has come about in the *)
(* new run once it is completed.  Then on all of a session: what values    *)
(* its state can take, and that a runner comes to an end.                  *)
(***************************************************************************)
EXTENDS SemanticReplayProofs

-----------------------------------------------------------------------------
(* Positions in a list of n.                                               *)
Within(S, n) == n \in Nat /\ S \subseteq 1..n

(* Two sets of positions run in step when f goes through both in order.    *)
InStep(f, S, T) ==
  /\ f \in [S -> T] /\ \A i, j \in S : i < j => f[i] < f[j]
  /\ \A t \in T : \E i \in S : f[i] = t

(* Then the k-th of the one goes with the k-th of the other.               *)
LEMMA InStepFacts ==
  ASSUME NEW n, NEW S, Within(S, n), NEW m, NEW T, Within(T, m), NEW f, InStep(f, S, T)
  PROVE  /\ Cardinality(S) \in Nat /\ Cardinality(T) = Cardinality(S)
         /\ \A k \in 1..Cardinality(S) :
              /\ Position(S, k) \in S /\ Position(T, k) \in T
              /\ Position(T, k) = f[Position(S, k)]
         /\ \A i \in S : RankIn(T, f[i]) = RankIn(S, i)
<1>1. /\ f \in [S -> T] /\ \A i, j \in S : i < j => f[i] < f[j]
      /\ \A t \in T : \E i \in S : f[i] = t
  BY DEF InStep
<1>2. /\ n \in Nat /\ m \in Nat /\ S \subseteq 1..n /\ T \subseteq 1..m
      /\ (\A i \in S : i \in Nat) /\ (\A t \in T : t \in Nat)
  BY DEF Within
<1>3. \A i, j \in S : (f[i] <= f[j] <=> i <= j) /\ (f[i] = f[j] => i = j)
  <2>1. ASSUME NEW i \in S, NEW j \in S
        PROVE  (f[i] <= f[j] <=> i <= j) /\ (f[i] = f[j] => i = j)
    <3>1. i \in Nat /\ j \in Nat /\ f[i] \in T /\ f[j] \in T
      BY <1>1, <1>2
    <3>2. (i < j => f[i] < f[j]) /\ (j < i => f[j] < f[i])
      BY <1>1
    <3>3. f[i] \in Nat /\ f[j] \in Nat
      BY <1>2, <3>1, Zenon
    <3> QED
      BY <3>1, <3>2, <3>3
  <2> QED
    BY <2>1
<1>4. IsFiniteSet(T) /\ Cardinality(T) \in Nat
  <2>1. IsFiniteSet(1..m)
    BY <1>2, FS_Interval
  <2> QED
    BY <1>2, <2>1, FS_Subset, FS_CardinalityType
<1>5. Cardinality(S) = Cardinality(T)
  <2>1. f \in [S -> T] /\ \A i, j \in S : f[i] = f[j] => i = j
    BY <1>1, <1>3
  <2> QED
    BY <1>1, <1>4, <2>1, SameCount, Zenon
<1>6. ASSUME NEW i \in S PROVE RankIn(T, f[i]) = RankIn(S, i)
  <2> DEFINE A == {j \in S : j <= i}
             B == {t \in T : t <= f[i]}
             g == [j \in A |-> f[j]]
  <2>1. /\ g \in [A -> B] /\ (\A a, b \in A : g[a] = g[b] => a = b)
        /\ \A t \in B : \E a \in A : g[a] = t
    BY <1>1, <1>3
  <2>2. IsFiniteSet(B)
    <3>1. B \subseteq T
      OBVIOUS
    <3> HIDE DEF B
    <3> QED
      BY <1>4, <3>1, FS_Subset
  <2>3. RankIn(T, f[i]) = Cardinality(B) /\ RankIn(S, i) = Cardinality(A)
    BY DEF RankIn
  <2> HIDE DEF A, B, g
  <2> QED
    BY <2>1, <2>2, <2>3, SameCount
<1>7. ASSUME NEW k \in 1..Cardinality(S)
      PROVE  /\ Position(S, k) \in S /\ Position(T, k) \in T
             /\ Position(T, k) = f[Position(S, k)]
  <2>1. Position(S, k) \in S /\ RankIn(S, Position(S, k)) = k
    BY <1>2, PositionFacts
  <2>2. f[Position(S, k)] \in T /\ RankIn(T, f[Position(S, k)]) = k
    BY <1>1, <1>6, <2>1
  <2>3. Position(T, RankIn(T, f[Position(S, k)])) = f[Position(S, k)]
    BY <1>2, <2>2, PositionFacts
  <2> QED
    BY <2>1, <2>2, <2>3
<1> QED
  BY <1>4, <1>5, <1>6, <1>7

(* Things that are taken in order from S: the k-th of them is at least the *)
(* k-th of S, and when all are taken there are as many of them as of S.    *)
LEMMA TakenInOrder ==
  ASSUME NEW n \in Nat, NEW S, S \subseteq 1..n, NEW c \in Nat, NEW f \in [1..c -> S],
         \A i, j \in 1..c : i < j => f[i] < f[j]
  PROVE  /\ \A k \in 1..c : RankIn(S, f[k]) \in k..Cardinality(S)
         /\ (\A s \in S : \E k \in 1..c : f[k] = s) => c = Cardinality(S)
<1>1. /\ Cardinality(S) \in Nat
      /\ \A i \in 0..n, j \in S : i < j => RankIn(S, i) < RankIn(S, j)
      /\ \A i \in S : RankIn(S, i) \in 1..Cardinality(S)
  BY PositionFacts
<1>2. \A i \in S : i \in 0..n
  OBVIOUS
<1> DEFINE bad == {k \in 1..c : ~(k <= RankIn(S, f[k]))}
<1>3. ASSUME bad # {} PROVE FALSE
  <2>1. PICK k \in bad : \A j \in bad : k <= j
    <3>1. bad \subseteq Nat
      OBVIOUS
    <3> HIDE DEF bad
    <3> QED
      BY <1>3, <3>1, LeastNatural
  <2>2. k \in 1..c /\ ~(k <= RankIn(S, f[k])) /\ RankIn(S, f[k]) \in 1..Cardinality(S)
    BY <1>1
  <2>3. k - 1 \in 1..c /\ k - 1 < k
    BY <1>1, <2>2
  <2>4. k - 1 \notin bad
    BY <2>1, <2>3
  <2>5. k - 1 <= RankIn(S, f[k - 1]) /\ RankIn(S, f[k - 1]) \in 1..Cardinality(S)
    BY <1>1, <2>3, <2>4
  <2>6. RankIn(S, f[k - 1]) < RankIn(S, f[k])
    BY <1>1, <1>2, <2>2, <2>3
  <2> QED
    BY <1>1, <2>2, <2>3, <2>5, <2>6
<1>4. ASSUME NEW k \in 1..c PROVE RankIn(S, f[k]) \in k..Cardinality(S)
  <2>1. k \notin bad
    BY <1>3
  <2>2. k <= RankIn(S, f[k]) /\ RankIn(S, f[k]) \in 1..Cardinality(S)
    BY <1>1, <2>1
  <2> QED
    BY <1>1, <2>2
<1>5. ASSUME \A s \in S : \E k \in 1..c : f[k] = s PROVE c = Cardinality(S)
  <2>1. \A i, j \in 1..c : f[i] = f[j] => i = j
    <3>1. ASSUME NEW i \in 1..c, NEW j \in 1..c, f[i] = f[j] PROVE i = j
      <4>1. f[i] \in S
        OBVIOUS
      <4>2. f[i] \in 0..n
        BY <1>2, <4>1
      <4>3. ~(f[i] < f[j]) /\ ~(f[j] < f[i])
        BY <3>1, <4>2
      <4> QED
        BY <4>3
    <3> QED
      BY <3>1
  <2>2. IsFiniteSet(S)
    <3>1. IsFiniteSet(1..n)
      BY FS_Interval
    <3> QED
      BY <3>1, FS_Subset
  <2>3. Cardinality(1..c) = Cardinality(S)
    BY <1>5, <2>1, <2>2, SameCount
  <2>4. Cardinality(1..c) = c
    BY FS_Interval
  <2> QED
    BY <2>3, <2>4
<1> QED
  BY <1>4, <1>5

-----------------------------------------------------------------------------
(* The recorded run asks for calls there are.                              *)
CallsKnown ==
  \A i \in DOMAIN trace : Requested(trace[i]) => \E c \in Calls : SameCall(c, trace[i])

(* It goes on doing so.                                                    *)
LEMMA KnownKept ==
  ASSUME TraceInv, CallsKnown, [Next]_vars PROVE CallsKnown'
<1> DEFINE Fine(e) == Requested(e) => \E c \in Calls : SameCall(c, e)
<1>1. ASSUME NEW e, trace' = Append(trace, e), Fine(e) PROVE CallsKnown'
  <2>1. /\ DOMAIN trace = 1..Len(trace) /\ DOMAIN trace' = 1..(Len(trace) + 1)
        /\ Len(trace) \in Nat
        /\ trace'[Len(trace) + 1] = e /\ \A i \in 1..Len(trace) : trace'[i] = trace[i]
    BY <1>1, SeqFacts, AppendFacts DEF TraceInv, Extends
  <2> QED
    BY <1>1, <2>1 DEF CallsKnown
<1>2. ASSUME trace' = trace PROVE CallsKnown'
  BY <1>2 DEF CallsKnown
<1>3. /\ \A type, parents : type # "requested" => Fine(RunEvent(type, parents))
      /\ \A type, value, parents : \A call \in Calls : Fine(CallEvent(type, call, value, parents))
      /\ \A operation, path, value, parents : Fine(StateEvent(operation, path, value, parents))
  BY DEF RunEvent, CallEvent, StateEvent, Requested, SameCall
<1> HIDE DEF Fine
<1>4. CASE RecordSnapshot
  <2>1. CASE StartTrace \/ RecordNote \/ RecordCheckpoint \/ EndTrace
    <3>1. \/ trace' = Append(trace, RunEvent("run.started", {}))
          \/ \E type \in {"log.note", "checkpoint.created", "run.completed"} :
               trace' = Append(trace, RunEvent(type, {Len(trace)}))
      BY <2>1, Zenon DEF StartTrace, RecordNote, RecordCheckpoint, EndTrace, Record, Ended
    <3>2. /\ Fine(RunEvent("run.started", {}))
          /\ \A type \in {"log.note", "checkpoint.created", "run.completed"} :
               Fine(RunEvent(type, {Len(trace)}))
      BY <1>3
    <3> QED
      BY <1>1, <3>1, <3>2, Zenon
  <2>2. CASE RecordRequest \/ RecordResponse
    <3>1. \E type, value, parents : \E call \in Calls :
            trace' = Append(trace, CallEvent(type, call, value, parents))
      BY <2>2 DEF RecordRequest, RecordResponse, Record
    <3> QED
      BY <1>1, <1>3, <3>1
  <2>3. CASE RecordStateChange
    <3>1. \E operation, path, value, parents :
            trace' = Append(trace, StateEvent(operation, path, value, parents))
      BY <2>3 DEF RecordStateChange, Record
    <3> QED
      BY <1>1, <1>3, <3>1
  <2>4. CASE CutOff
    <3>1. \/ trace' = trace
          \/ trace' = Append(trace, RunEvent("run.completed", {Len(trace)}))
      BY <2>4 DEF CutOff, Ended
    <3> QED
      BY <1>1, <1>2, <1>3, <3>1
  <2>5. CASE HarmFiles \/ Load
    BY <1>2, <2>5 DEF HarmFiles, Load
  <2> QED
    BY <1>4, <2>1, <2>2, <2>3, <2>4, <2>5 DEF RecordSnapshot
<1>5. CASE UNCHANGED snapshotVars
  BY <1>2, <1>5 DEF snapshotVars
<1> QED
  BY <1>4, <1>5 DEF Next, NewRunner, RunnerStep, vars

(* A call that is asked for, or answered in order, is the one CallFor finds*)
LEMMA CallFound ==
  ASSUME NEW e, NEW c \in Calls, SameCall(c, e)
  PROVE  CallFor(e) \in Calls /\ SameCall(CallFor(e), e)
BY DEF CallFor

-----------------------------------------------------------------------------
(* A walk over the source trace: what it is about and where it stands.  A  *)
(* runner that has been refused its source has done nothing.               *)
Unwalked == runStatus = "failed" /\ executed = <<>>

Sourced ==
  /\ Executable /\ Events = trace /\ ScheduleFaults(trace) = {}
  /\ ResumeSequence \in 0..Len(trace) /\ (mode = "mock" => resume = 0)

Standing ==
  /\ position \in (ResumeSequence + 1)..(Len(trace) + 1)
  /\ requests \in [1..Len(trace) -> Nat]
  /\ halted \in BOOLEAN /\ (halted => issues # {})
  /\ runStatus # "none" /\ (runStatus # "running" => job.step = "idle")
  /\ runStatus = "completed" => issues = {} /\ position = Len(trace) + 1

(* The call at work answers the event the walk stands at.                  *)
CallMode == IF mode = "mock" THEN "recorded" ELSE "live"
ActsFor(action, i) ==
  /\ action.mode = CallMode /\ SameCall(action, trace[i])
  /\ action.attempt = AttemptAt(trace, RequestFor(trace, i))

Answering ==
  job.step # "idle" =>
    /\ job.step \in {"deciding", "operating", "returned"}
    /\ ~halted /\ position \in 1..Len(trace) /\ Responded(trace[position])
    /\ job.request = requests[RequestFor(trace, position)] /\ job.request # 0
    /\ ActsFor(job.action, position)
    /\ job.step # "deciding" =>
         /\ Len(log) # 0 /\ log[Len(log)].type = "decision.recorded"
         /\ SameCall(log[Len(log)], trace[position])
    /\ job.step = "returned" /\ job.outcome # "blocked" =>
         /\ job.outcome \notin {"invalid", "none"}
         /\ mode = "mock" => job.outcome = RecordedOutcome(trace, RequestFor(trace, position))

(* What has been seen of the trace, and what the new run has of it.        *)
Seen == {i \in 1..Len(trace) : ResumeSequence < i /\ i < position /\ Mirrored(trace[i])}
Entries == {p \in DOMAIN log : Mirrored(log[p])}

(* The entry p of the new run echoes the event i of the source.            *)
EchoedAnswer(i, p) ==
  /\ Responded(log[p]) /\ log[p].value \notin {"invalid", "none"}
  /\ requests[RequestFor(trace, i)] # 0 /\ log[p].parents = {requests[RequestFor(trace, i)]}
  /\ p # 1 /\ log[p - 1].type = "decision.recorded" /\ SameCall(log[p - 1], log[p])
  /\ mode = "mock" /\ issues = {} =>
       /\ log[p].type = trace[i].type
       /\ log[p].value = RecordedOutcome(trace, RequestFor(trace, i))
  /\ mode = "verified" /\ i \notin differences =>
       Alike(RecordedOutcome(trace, RequestFor(trace, i)), log[p].value)
Echoed(i, p) ==
  /\ SameCall(log[p], trace[i])
  /\ Responded(trace[i]) => EchoedAnswer(i, p)
  /\ ~Responded(trace[i]) => Entry(log[p]) = Entry(trace[i])
  /\ Requested(trace[i]) => requests[i] = p

Echoes(at) == InStep(at, Seen, Entries) /\ \A i \in Seen : Echoed(i, at[i])
Echoing ==
  /\ ~halted => \E at : Echoes(at)
  /\ \A i \in 1..Len(trace) : requests[i] # 0 =>
       /\ i \in Seen /\ Requested(trace[i])
       /\ requests[i] \in DOMAIN log /\ Requested(log[requests[i]])
       /\ SameCall(log[requests[i]], trace[i])

(* Every decision hangs on the request of its call.                        *)
Deciding ==
  \A p \in DOMAIN log : log[p].type = "decision.recorded" =>
    \E r \in DOMAIN log :
      log[p].parents = {r} /\ Requested(log[r]) /\ SameCall(log[r], log[p])

(* The executions answer events that the walk has come to, in their order; *)
(* unless there are issues, all of them.                                   *)
Behind(i) == i \in 1..Len(trace) /\ ResumeSequence < i /\ Responded(trace[i])
InOrder(ran) ==
  /\ ran \in [1..Len(executed) -> 1..Len(trace)]
  /\ \A k, m \in 1..Len(executed) : k < m => ran[k] < ran[m]
  /\ \A k \in 1..Len(executed) :
       /\ Behind(ran[k]) /\ ran[k] <= position /\ ActsFor(executed[k].action, ran[k])
       /\ (ran[k] = position => (job.step = "returned" \/ halted \/ runStatus # "running"))
  /\ \A i \in 1..Len(trace) :
       (Behind(i) /\ ((i < position /\ issues = {})
                      \/ (i = position /\ job.step = "returned" /\ job.outcome # "blocked")))
         => \E k \in 1..Len(executed) : ran[k] = i
Running == \E ran : InOrder(ran)

(* An execution has been responded to: next to the decision that allowed   *)
(* it stands what it came to, for the same request.                        *)
Voiced(run, list) ==
  /\ run.after + 1 \in 1..Len(list) /\ Responded(list[run.after + 1])
  /\ list[run.after + 1].parents = list[run.after].parents
  /\ list[run.after + 1].value = run.outcome

(* The execution at work comes to what the response is going to say.       *)
Unvoiced(k) ==
  /\ job.step = "returned" /\ k = Len(executed)
  /\ executed[k].after = Len(log) /\ executed[k].outcome = job.outcome

(* Executions and responses go together; without issues, none is missed.   *)
Recalls ==
  /\ \A k \in 1..Len(executed) : executed[k].after \in 1..Len(log)
  /\ \A k, m \in 1..Len(executed) : k < m => executed[k].after < executed[m].after
  /\ \A k \in 1..Len(executed) : Voiced(executed[k], log) \/ Unvoiced(k)
  /\ \A p \in 1..Len(log) : Responded(log[p]) =>
       \E k \in 1..Len(executed) : executed[k].after + 1 = p
  /\ job.step \in {"operating", "returned"} => log[Len(log)].parents = {job.request}
  /\ job.step = "returned" /\ job.outcome # "blocked" =>
       Len(executed) # 0 /\ Unvoiced(Len(executed))
Recalling == runStatus \in {"running", "completed"} /\ issues = {} => Recalls

(* The state a mock replay ends with is the source's.                      *)
Restored ==
  mode = "mock" /\ runStatus = "completed" =>
    Reconstructed(log, {})
      = [ok |-> TRUE, state |-> Reconstructed(trace, Checkpoints).state, missed |-> FALSE]

Walked ==
  /\ Sourced /\ Standing /\ Answering /\ Echoing /\ Deciding /\ Running /\ Recalling
  /\ Restored
WalkInv ==
  /\ runStatus = "none" /\ mode # "semantic" =>
       /\ halted = FALSE /\ issues = {} /\ differences = {} /\ resume \in Nat
       /\ mode # "verified" => resume = 0
  /\ TraceRunner /\ runStatus # "none" => Unwalked \/ Walked

-----------------------------------------------------------------------------
(* What the last answer to a request is, and which request one belongs to. *)
LEMMA OutcomeReads ==
  ASSUME NEW events, NEW n \in Nat, DOMAIN events = 1..n, NEW r
  PROVE  \/ /\ RecordedOutcome(events, r) = "none"
            /\ \A i \in 1..n : ~Answers(events, i, r)
         \/ \E i \in 1..n : /\ Answers(events, i, r)
                            /\ RecordedOutcome(events, r) = events[i].value
                            /\ \A j \in 1..n : Answers(events, j, r) => j <= i
<1> DEFINE answers == {i \in DOMAIN events : Answers(events, i, r)}
           last == CHOOSE i \in answers : \A j \in answers : j <= i
<1>1. RecordedOutcome(events, r) = IF answers = {} THEN "none" ELSE events[last].value
  BY DEF RecordedOutcome
<1>2. answers \subseteq 1..n /\ \A i \in 1..n : i \in answers <=> Answers(events, i, r)
  OBVIOUS
<1> HIDE DEF answers
<1>3. CASE answers = {}
  BY <1>1, <1>2, <1>3
<1>4. CASE answers # {}
  <2>1. \E i \in answers : \A j \in answers : j <= i
    BY <1>2, <1>4, GreatestNatural
  <2>2. last \in answers /\ \A j \in answers : j <= last
    BY <2>1
  <2> HIDE DEF last
  <2> QED
    BY <1>1, <1>2, <1>4, <2>2
<1> QED
  BY <1>3, <1>4

(* The same for the request that a response hangs on.                      *)
LEMMA RequestReads ==
  ASSUME NEW events, NEW i \in Nat, events[i].parents \subseteq 1..(i - 1),
         RequestFor(events, i) # 0
  PROVE  RequestFor(events, i) \in 1..(i - 1) /\ ReplayableCall(events[RequestFor(events, i)])
<1> DEFINE fit == {p \in events[i].parents : p < i /\ ReplayableCall(events[p])}
           least == CHOOSE p \in fit : \A q \in fit : p <= q
<1>1. RequestFor(events, i) = IF fit = {} THEN 0 ELSE least
  BY DEF RequestFor
<1>2. fit \subseteq 1..(i - 1) /\ fit \subseteq Nat /\ \A p \in fit : ReplayableCall(events[p])
  OBVIOUS
<1> HIDE DEF fit
<1>3. fit # {}
  BY <1>1
<1>4. \E p \in fit : \A q \in fit : p <= q
  BY <1>2, <1>3, LeastNatural
<1>5. least \in fit
  BY <1>4
<1> HIDE DEF least
<1> QED
  BY <1>1, <1>2, <1>3, <1>5

(* What a trace without schedule faults tells: every request is answered,  *)
(* every response has its request, and both are of a call there is.        *)
Answered(i) ==
  /\ ReplayableCall(trace[i]) /\ RecordedOutcome(trace, i) \notin {"none", "invalid"}
  /\ \E m \in 1..Len(trace) : Answers(trace, m, i)
Asked(i) ==
  /\ RequestFor(trace, i) \in 1..(i - 1) /\ Requested(trace[RequestFor(trace, i)])
  /\ SameCall(trace[i], trace[RequestFor(trace, i)])
ScheduleSound ==
  \A i \in 1..Len(trace) :
    /\ Requested(trace[i]) => Answered(i)
    /\ Responded(trace[i]) => Asked(i)
    /\ Requested(trace[i]) \/ Responded(trace[i]) =>
         CallFor(trace[i]) \in Calls /\ SameCall(CallFor(trace[i]), trace[i])

(* It tells all that.                                                      *)
LEMMA ScheduleReads ==
  ASSUME TraceInv, CallsKnown, ScheduleFaults(trace) = {} PROVE ScheduleSound
<1>1. DOMAIN trace = 1..Len(trace) /\ Len(trace) \in Nat
  BY SeqFacts DEF TraceInv
<1>2. /\ \A i \in DOMAIN trace : Requested(trace[i]) => ReplayableCall(trace[i])
      /\ \A i \in DOMAIN trace :
           Responded(trace[i]) => Answers(trace, i, RequestFor(trace, i))
      /\ \A i \in DOMAIN trace :
           ReplayableCall(trace[i]) => RecordedOutcome(trace, i) # "none"
  <2>1. ASSUME NEW C1, NEW C2, NEW C3,
               ScheduleFaults(trace) = {code \in {"INVALID_REQUEST"} : C1}
                 \cup {code \in {"INVALID_RESPONSE"} : C2}
                 \cup {code \in {"MISSING_RESPONSE"} : C3}
        PROVE  ~C1 /\ ~C2 /\ ~C3
    BY <2>1
  <2> QED
    BY <2>1, Zenon DEF ScheduleFaults
<1>3. ASSUME NEW i \in 1..Len(trace), Requested(trace[i]) PROVE Answered(i)
  <2>1. ReplayableCall(trace[i]) /\ RecordedOutcome(trace, i) # "none"
    BY <1>1, <1>2, <1>3
  <2>2. PICK m \in 1..Len(trace) :
          Answers(trace, m, i) /\ RecordedOutcome(trace, i) = trace[m].value
    BY <1>1, <2>1, OutcomeReads
  <2> QED
    BY <2>1, <2>2 DEF Answered, Answers
<1>4. ASSUME NEW i \in 1..Len(trace), Responded(trace[i]) PROVE Asked(i)
  <2>1. Answers(trace, i, RequestFor(trace, i))
    BY <1>1, <1>2, <1>4
  <2>2. RequestFor(trace, i) # 0 /\ SameCall(trace[i], trace[RequestFor(trace, i)])
    BY <2>1 DEF Answers
  <2>3. i \in Nat /\ trace[i].parents \subseteq 1..(i - 1)
    BY <1>1 DEF TraceInv
  <2>4. RequestFor(trace, i) \in 1..(i - 1) /\ ReplayableCall(trace[RequestFor(trace, i)])
    BY <2>2, <2>3, RequestReads
  <2> QED
    BY <2>2, <2>4 DEF Asked, ReplayableCall
<1>5. ASSUME NEW i \in 1..Len(trace), Requested(trace[i]) \/ Responded(trace[i])
      PROVE  CallFor(trace[i]) \in Calls /\ SameCall(CallFor(trace[i]), trace[i])
  <2>1. PICK r \in 1..Len(trace) : Requested(trace[r]) /\ SameCall(trace[i], trace[r])
    <3>1. CASE Requested(trace[i])
      BY <3>1 DEF SameCall
    <3>2. CASE Responded(trace[i])
      BY <1>1, <1>4, <3>2 DEF Asked
    <3> QED
      BY <1>5, <3>1, <3>2
  <2>2. PICK c \in Calls : SameCall(c, trace[r])
    BY <1>1, <2>1 DEF CallsKnown
  <2>3. SameCall(c, trace[i])
    BY <2>1, <2>2 DEF SameCall
  <2> QED
    BY <2>3, CallFound
<1> QED
  BY <1>3, <1>4, <1>5 DEF ScheduleSound

(* A runner leaves the snapshot as it is.                                  *)
LEMMA SourceStays ==
  ASSUME UNCHANGED <<snapshotVars, resume, mode>>
  PROVE  /\ trace' = trace /\ saved' = saved /\ Events' = Events /\ Checkpoints' = Checkpoints
         /\ ResumeSequence' = ResumeSequence /\ Executable' = Executable
         /\ Sourced => Sourced'
<1>1. UNCHANGED <<trace, saved, manifest, lines, tail, phase>>
  BY DEF snapshotVars
<1>2. Events' = Events /\ Checkpoints' = Checkpoints /\ OnDisk' = OnDisk
      /\ ResumeSequence' = ResumeSequence /\ Candidates' = Candidates
  BY <1>1 DEF Events, Checkpoints, OnDisk, ResumeSequence, Candidates
<1>3. Declared' = Declared /\ Readable' = Readable
  BY <1>2 DEF Declared, Readable
<1>4. ManifestErrors' = ManifestErrors /\ FileErrors' = FileErrors
      /\ SequenceErrors' = SequenceErrors
  BY <1>1, <1>2, <1>3 DEF ManifestErrors, FileErrors, SequenceErrors
<1>5. StructuralErrors' = StructuralErrors
  BY <1>1, <1>2, <1>3 DEF StructuralErrors, CausallyStuck
<1>6. ValidationErrors' = ValidationErrors
  BY <1>1, <1>2, <1>3, <1>4 DEF ValidationErrors
<1>7. Executable' = Executable
  BY <1>3, <1>4, <1>5, <1>6 DEF Executable, Valid, LoadErrors, ObservationOnly
<1> QED
  BY <1>1, <1>2, <1>7 DEF Sourced

-----------------------------------------------------------------------------
(* What the steps of a walk come to.                                       *)
AtWalk == job.step = "idle" /\ ~halted /\ position \in 1..Len(trace)

Passes ==
  /\ AtWalk /\ ~Mirrored(trace[position]) /\ position' = position + 1
  /\ UNCHANGED <<runStatus, log, job, executed, requests, halted, issues, differences>>

Copies ==
  /\ AtWalk /\ Mirrored(trace[position]) /\ ~Responded(trace[position])
  /\ position' = position + 1
  /\ \E e : log' = Append(log, e) /\ Entry(e) = Entry(trace[position])
  /\ requests' = IF Requested(trace[position])
                 THEN [requests EXCEPT ![position] = Len(log) + 1] ELSE requests
  /\ UNCHANGED <<runStatus, job, executed, halted, issues, differences>>

BreaksOff ==
  /\ job.step = "idle" /\ ~halted /\ halted' = TRUE
  /\ issues' # {} /\ issues \subseteq issues'
  /\ UNCHANGED <<runStatus, log, job, executed, position, requests, differences>>

CallsAgain ==
  /\ AtWalk /\ Responded(trace[position])
  /\ job'.step = "deciding" /\ ActsFor(job'.action, position)
  /\ job'.request = requests[RequestFor(trace, position)] /\ job'.request # 0
  /\ UNCHANGED <<runStatus, log, executed, position, requests, halted, issues, differences>>

SameJob == job'.action = job.action /\ job'.request = job.request
Decides ==
  /\ job.step = "deciding" /\ SameJob
  /\ job'.step = "operating" \/ (job'.step = "returned" /\ job'.outcome = "blocked")
  /\ \E e : /\ log' = Append(log, e) /\ e.type = "decision.recorded"
            /\ SameCall(e, job.action) /\ e.parents = {job.request}
  /\ UNCHANGED <<runStatus, executed, position, requests, halted, issues, differences>>

Performs ==
  /\ job.step = "operating" /\ executed' = Append(executed, Execution(job'.outcome))
  /\ SameJob /\ job'.step = "returned" /\ job'.outcome \notin {"invalid", "none"}
  /\ mode = "mock" => job'.outcome = RecordedOutcome(trace, RequestFor(trace, position))
  /\ UNCHANGED <<runStatus, log, position, requests, halted, issues, differences>>

Heard(e) ==
  /\ Responded(e) /\ SameCall(e, trace[position]) /\ e.value \notin {"invalid", "none"}
  /\ e.parents = {job.request} /\ (issues' = {} => e.value = job.outcome)
  /\ mode = "mock" /\ issues' = {} =>
       /\ e.type = trace[position].type
       /\ e.value = RecordedOutcome(trace, RequestFor(trace, position))
  /\ mode = "verified" /\ position \notin differences' =>
       Alike(RecordedOutcome(trace, RequestFor(trace, position)), e.value)
Hears ==
  /\ job.step = "returned" /\ job'.step = "idle"
  /\ \E e : log' = Append(log, e) /\ Heard(e)
  /\ \/ position' = position + 1 /\ UNCHANGED halted
     \/ UNCHANGED position /\ halted' = TRUE /\ issues' # {}
  /\ issues \subseteq issues' /\ differences \subseteq differences'
  /\ issues' = {} => job.outcome # "blocked"
  /\ UNCHANGED <<runStatus, executed, requests>>

Plain(e) == ~Mirrored(e) /\ e.type # "decision.recorded"
Leaves ==
  /\ job'.step = "idle" /\ runStatus' \in {"completed", "failed", "rejected"}
  /\ Extends(log, log') /\ \A p \in DOMAIN log' : p \in DOMAIN log \/ Plain(log'[p])
  /\ issues \subseteq issues'
  /\ runStatus' = "completed" => ~halted /\ position > Len(trace) /\ issues' = {} /\ Restored'
  /\ UNCHANGED <<executed, position, requests, halted, differences>>

WalkStep ==
  /\ TraceInv /\ PolicyInv /\ CallsKnown /\ TraceRunner /\ runStatus = "running" /\ Walked
  /\ UNCHANGED <<mode, snapshotVars, semanticVars>>
  /\ \/ mode = "mock" /\ MockStep
     \/ mode = "verified" /\ VerifiedStep
     \/ AppendRefused

(* No step changes what the runner was made for.                           *)
LEMMA ResumeStays ==
  ASSUME WalkStep PROVE UNCHANGED <<snapshotVars, resume, mode>>
<1>1. CASE StartMock \/ StartVerified
  BY <1>1 DEF StartMock, StartVerified, StartRun, RefuseSource, FailAtStart, WalkStep
<1>2. CASE MirrorState \/ MirrorRequest \/ PassEvent
  BY <1>2, Zenon DEF MirrorState, MirrorRequest, PassEvent, WalkStep
<1>3. CASE UNCHANGED replayVars
  BY <1>3 DEF replayVars, WalkStep
<1>4. CASE SubmitRecorded \/ SubmitLive
  BY <1>3, <1>4, Zenon DEF SubmitRecorded, SubmitLive, WalkStep
<1>5. CASE MockAnswered \/ LiveAnswered
  BY <1>5, Zenon DEF MockAnswered, LiveAnswered, WalkStep
<1>6. CASE FinishMock \/ MirrorThrows \/ FinishVerified
  BY <1>3, <1>6, Zenon DEF FinishMock, MirrorThrows, FinishVerified, WalkStep
<1>7. CASE OperateRecorded \/ OperateLive \/ AppendRefused
  BY <1>3, <1>7, Zenon DEF OperateRecorded, OperateLive, AppendRefused
<1> QED
  BY <1>1, <1>2, <1>3, <1>4, <1>5, <1>6, <1>7, Zenon DEF WalkStep, MockStep, VerifiedStep

(* Where it stands when it makes one.                                      *)
LEMMA WalkFacts ==
  ASSUME WalkStep
  PROVE  /\ IsSeq(log) /\ DOMAIN log = 1..Len(log) /\ Len(log) \in Nat
         /\ IsSeq(executed) /\ DOMAIN executed = 1..Len(executed) /\ Len(executed) \in Nat
         /\ DOMAIN trace = 1..Len(trace) /\ Len(trace) \in Nat
         /\ Events = trace /\ ScheduleSound /\ JobShape(job)
         /\ ResumeSequence \in 0..Len(trace) /\ (mode = "mock" => resume = 0 /\ ResumeSequence = 0)
         /\ position \in (ResumeSequence + 1)..(Len(trace) + 1) /\ position \in Nat \ {0}
         /\ mode \in {"mock", "verified"} /\ runStatus = "running" /\ UNCHANGED mode
         /\ requests \in [1..Len(trace) -> Nat] /\ halted \in BOOLEAN /\ (halted => issues # {})
         /\ trace' = trace /\ Answering /\ Echoing /\ Deciding /\ Running
<1>1. /\ TraceInv /\ PolicyInv /\ CallsKnown /\ Sourced /\ Standing
      /\ Answering /\ Echoing /\ Deciding /\ Running
      /\ mode \in {"mock", "verified"} /\ runStatus = "running" /\ UNCHANGED mode
      /\ UNCHANGED snapshotVars
  BY DEF WalkStep, Walked, TraceRunner
<1>2. /\ IsSeq(log) /\ DOMAIN log = 1..Len(log) /\ Len(log) \in Nat
      /\ IsSeq(executed) /\ DOMAIN executed = 1..Len(executed) /\ Len(executed) \in Nat
      /\ DOMAIN trace = 1..Len(trace) /\ Len(trace) \in Nat /\ JobShape(job)
  BY <1>1, SeqFacts DEF TraceInv, PolicyInv
<1>3. /\ Events = trace /\ ScheduleFaults(trace) = {}
      /\ ResumeSequence \in 0..Len(trace) /\ (mode = "mock" => resume = 0)
  BY <1>1 DEF Sourced
<1>4. resume = 0 => ResumeSequence = 0
  BY DEF ResumeSequence
<1>5. position \in (ResumeSequence + 1)..(Len(trace) + 1)
      /\ requests \in [1..Len(trace) -> Nat] /\ halted \in BOOLEAN /\ (halted => issues # {})
  BY <1>1 DEF Standing
<1>6. position \in Nat \ {0}
  BY <1>2, <1>3, <1>5
<1>7. ScheduleSound
  BY <1>1, <1>3, ScheduleReads
<1>8. trace' = trace
  BY <1>1 DEF snapshotVars
<1> QED
  BY <1>1, <1>2, <1>3, <1>4, <1>5, <1>6, <1>7, <1>8

(* Without checkpoints, the whole run is replayed.                         *)
LEMMA WithoutCheckpoints ==
  ASSUME NEW events
  PROVE  LET end == Replayed(EmptyState, events, 0)
         IN Reconstructed(events, {}) = [ok |-> end.ok, state |-> end.state, missed |-> FALSE]
<1>1. {c \in {} : UsableBase(events, c)} = {}
  OBVIOUS
<1>2. (\E c \in {} : c.damage \in {"content", "gone"} /\ c.sequence > 0) = FALSE
  OBVIOUS
<1> QED
  BY <1>1, <1>2 DEF Reconstructed

(* The two events a run ends with change no state.                         *)
LEMMA EndingChangesNothing ==
  ASSUME NEW s, IsSeq(s), NEW t, Extends(s, t), Len(t) = Len(s) + 2,
         t[Len(s) + 1].type # "state.changed", t[Len(s) + 2].type # "state.changed"
  PROVE  Reconstructed(t, {}) = Reconstructed(s, {})
<1> DEFINE n == Len(s)
<1>1. n \in Nat /\ IsSeq(t) /\ 0 \in 0..n /\ 0 \in 0..Len(t)
  BY SeqFacts DEF Extends
<1>2. PICK f : IsReplay(f, EmptyState, s, 0, n) /\ Replayed(EmptyState, s, 0) = f[n]
  BY <1>1, ReplayedIsReplay
<1>3. PICK g : /\ IsReplay(g, EmptyState, t, 0, n + 2)
               /\ Replayed(EmptyState, t, 0) = g[n + 2]
  BY <1>1, ReplayedIsReplay
<1>4. f[n] = g[n]
  <2>1. \A k \in (0 + 1)..n : s[k] = t[k]
    BY DEF Extends
  <2>2. n + 2 \in Nat /\ 0 \in Nat /\ 0 <= n /\ n <= n + 2
    BY <1>1
  <2> HIDE DEF n
  <2> QED
    BY <1>1, <1>2, <1>3, <2>1, <2>2, SamePrefix
<1>5. g[n + 1] = AfterEvent(g[n], t[n + 1]) /\ g[n + 2] = AfterEvent(g[n + 1], t[n + 2])
  <2>1. GoesOn(g, t, 0, n + 2)
    <3>1. n + 2 \in Nat /\ 0 \in Nat /\ 0 <= n + 2
      BY <1>1
    <3> HIDE DEF n
    <3> QED
      BY <1>3, <3>1, ReplaySteps
  <2>2. /\ n \in 0..(n + 2) /\ n # n + 2 /\ n + 1 \in 0..(n + 2) /\ n + 1 # n + 2
        /\ (n + 1) + 1 = n + 2
    BY <1>1
  <2> HIDE DEF n
  <2> QED
    BY <2>1, <2>2 DEF GoesOn
<1>6. g[n + 2] = f[n]
  BY <1>4, <1>5 DEF AfterEvent
<1> QED
  BY <1>2, <1>3, <1>6, WithoutCheckpoints

(* A copy says what the event said.                                        *)
LEMMA CopiesSay ==
  ASSUME NEW e, NEW parents
  PROVE  /\ e.type = "state.changed" =>
              Entry(StateEvent(e.kind, e.key, e.value, parents)) = Entry(e)
         /\ Requested(e) /\ SameCall(CallFor(e), e) =>
              Entry(CallEvent("requested", CallFor(e), e.value, parents)) = Entry(e)
BY DEF Entry, StateEvent, CallEvent, Requested, SameCall

(* What an answer is recorded as.                                          *)
LEMMA AnswersSay ==
  ASSUME NEW e, SameCall(CallFor(e), e), NEW value, NEW parents,
         NEW type \in {"completed", "failed"}
  PROVE  LET said == CallEvent(type, CallFor(e), value, parents)
         IN /\ Responded(said) /\ SameCall(said, e) /\ said.type = type /\ said.value = value
            /\ said.parents = parents
BY DEF CallEvent, Responded, SameCall

(* The action that is submitted for the event the walk stands at.          *)
LEMMA ActionFits ==
  ASSUME WalkStep, AtWalk, Responded(trace[position]), NEW m, NEW sideEffect
  PROVE  LET action == CallAction(m, sideEffect)
         IN /\ action.mode = m /\ SameCall(action, trace[position])
            /\ action.attempt = AttemptAt(trace, RequestFor(trace, position))
<1>1. Events = trace /\ SameCall(CallFor(trace[position]), trace[position])
  BY WalkFacts DEF ScheduleSound, AtWalk
<1> QED
  BY <1>1 DEF CallAction, SourceRequest, Here, SameCall

Moves ==
  Passes \/ Copies \/ BreaksOff \/ CallsAgain \/ Decides \/ Performs \/ Hears \/ Leaves

(* The steps the two runners have in common.                               *)
LEMMA CommonMoves ==
  ASSUME WalkStep,
         MirrorState \/ MirrorRequest \/ PassEvent \/ (RecordDecision /\ UNCHANGED replayVars)
           \/ AppendRefused
  PROVE  Moves
<1>0. /\ Events = trace /\ IsSeq(log) /\ ScheduleSound /\ JobShape(job)
      /\ DOMAIN trace = 1..Len(trace) /\ Len(trace) \in Nat /\ position \in Nat \ {0}
      /\ Len(log) \in Nat /\ runStatus = "running" /\ Answering
  BY WalkFacts
<1>1. ASSUME AtEvent PROVE AtWalk /\ Here = trace[position]
  BY <1>0, <1>1 DEF AtEvent, AtWalk, Here
<1>2. CASE MirrorState
  <2>1. /\ AtWalk /\ trace[position].type = "state.changed"
        /\ UNCHANGED <<runStatus, job, executed, requests, differences>>
        /\ \/ Halt("SOURCE_ARTIFACT_INVALID") /\ UNCHANGED log
           \/ /\ position' = position + 1 /\ UNCHANGED <<halted, issues>>
              /\ log' = Append(log, StateEvent(trace[position].kind, trace[position].key,
                                               trace[position].value, Latest))
    BY <1>1, <1>2 DEF MirrorState, Advance
  <2>2. CASE Halt("SOURCE_ARTIFACT_INVALID") /\ UNCHANGED log
    BY <2>1, <2>2 DEF Halt, BreaksOff, AtWalk, Moves
  <2>3. CASE /\ position' = position + 1 /\ UNCHANGED <<halted, issues>>
             /\ log' = Append(log, StateEvent(trace[position].kind, trace[position].key,
                                              trace[position].value, Latest))
    <3>1. \E e : log' = Append(log, e) /\ Entry(e) = Entry(trace[position])
      BY <2>1, <2>3, CopiesSay
    <3>2. /\ Mirrored(trace[position]) /\ ~Responded(trace[position])
          /\ ~Requested(trace[position])
      BY <2>1 DEF Mirrored, Responded, Requested
    <3> QED
      BY <2>1, <2>3, <3>1, <3>2 DEF Copies, Moves
  <2> QED
    BY <2>1, <2>2, <2>3
<1>3. CASE MirrorRequest
  <2>1. /\ AtWalk /\ ReplayableCall(trace[position])
        /\ UNCHANGED <<runStatus, job, executed, halted, issues, differences>>
        /\ position' = position + 1
        /\ requests' = [requests EXCEPT ![position] = Len(log) + 1]
        /\ log' = Append(log, CallEvent("requested", CallFor(trace[position]),
                                        trace[position].value, Latest))
    BY <1>1, <1>3 DEF MirrorRequest, Advance
  <2>2. Requested(trace[position]) /\ Mirrored(trace[position]) /\ ~Responded(trace[position])
    BY <2>1 DEF ReplayableCall, Mirrored, Requested, Responded
  <2>3. SameCall(CallFor(trace[position]), trace[position])
    BY <1>0, <2>1, <2>2 DEF ScheduleSound, AtWalk
  <2>4. \E e : log' = Append(log, e) /\ Entry(e) = Entry(trace[position])
    BY <2>1, <2>2, <2>3, CopiesSay
  <2> QED
    BY <2>1, <2>2, <2>4 DEF Copies, Moves
<1>4. CASE PassEvent
  <2>1. /\ AtWalk /\ ~Mirrored(trace[position]) /\ position' = position + 1
        /\ UNCHANGED <<policyVars, requests, halted, issues, differences>>
    BY <1>1, <1>4 DEF PassEvent, Advance, Mirrored
  <2> QED
    BY <2>1 DEF Passes, Moves, policyVars
<1>5. CASE RecordDecision /\ UNCHANGED replayVars
  <2>1. /\ job.step = "deciding"
        /\ log' = Append(log, EventOf("decision.recorded", job.action,
                                      Evaluate(job.action, job.needsApproval),
                                      IF job.request = 0 THEN Latest ELSE {job.request}))
        /\ \/ job' = [job EXCEPT !.step = "operating"]
           \/ job' = [job EXCEPT !.step = "returned", !.outcome = "blocked"]
        /\ UNCHANGED <<runStatus, executed, replayVars>>
    BY <1>5, Zenon DEF RecordDecision
  <2>2. job.request # 0
    BY <1>0, <2>1 DEF Answering
  <2>3. \E e : /\ log' = Append(log, e) /\ e.type = "decision.recorded"
               /\ SameCall(e, job.action) /\ e.parents = {job.request}
    BY <2>1, <2>2 DEF EventOf, SameCall
  <2>4. /\ SameJob
        /\ job'.step = "operating" \/ (job'.step = "returned" /\ job'.outcome = "blocked")
    BY <1>0, <2>1 DEF JobShape, SameJob
  <2> QED
    BY <2>1, <2>3, <2>4 DEF Decides, Moves, replayVars
<1>6. CASE AppendRefused
  <2>1. /\ job'.step = "idle" /\ runStatus' = "rejected" /\ log' = log
        /\ UNCHANGED <<executed, replayVars>>
    BY <1>6 DEF AppendRefused, RecorderRefuses, Idle
  <2>2. Extends(log, log') /\ DOMAIN log' = DOMAIN log
    BY <1>0, <2>1, SeqFacts
  <2> QED
    BY <2>1, <2>2 DEF Leaves, Moves, replayVars
<1> QED
  BY <1>2, <1>3, <1>4, <1>5, <1>6

(* An operation that runs for the call at work.                            *)
LEMMA OperationMoves ==
  ASSUME WalkStep, NEW outcomes, Operate(outcomes) /\ UNCHANGED replayVars,
         {"invalid", "none"} \cap outcomes = {},
         mode = "mock" => outcomes = {RecordedOutcome(trace, RequestFor(trace, position))}
  PROVE  Performs
<1>1. PICK outcome \in outcomes :
        /\ executed' = Append(executed, Execution(outcome))
        /\ job' = [job EXCEPT !.step = "returned", !.outcome = outcome]
  BY Zenon DEF Operate
<1>2. job.step = "operating" /\ executed' = Append(executed, Execution(outcome))
      /\ UNCHANGED <<runStatus, log, replayVars>>
  BY <1>1 DEF Operate
<1>3. JobShape(job)
  BY WalkFacts
<1>4. SameJob /\ job'.step = "returned" /\ job'.outcome = outcome
  BY <1>1, <1>3 DEF JobShape, SameJob
<1>5. outcome \notin {"invalid", "none"}
  BY <1>1
<1> QED
  BY <1>1, <1>2, <1>4, <1>5 DEF Performs, replayVars

(* The request of a response is there, and has been answered well.         *)
LEMMA RequestAtHand ==
  ASSUME WalkStep, position \in 1..Len(trace), Responded(trace[position])
  PROVE  LET r == RequestFor(trace, position)
         IN /\ r \in 1..(position - 1) /\ r \in 1..Len(trace) /\ Requested(trace[r])
            /\ SameCall(trace[position], trace[r])
            /\ RecordedOutcome(trace, r) \notin {"none", "invalid"}
            /\ mode = "mock" /\ ~halted => requests[r] # 0
<1> DEFINE r == RequestFor(trace, position)
<1>0. /\ ScheduleSound /\ Len(trace) \in Nat /\ DOMAIN log = 1..Len(log) /\ Len(log) \in Nat
      /\ Echoing /\ (mode = "mock" => ResumeSequence = 0)
  BY WalkFacts
<1>1. r \in 1..(position - 1) /\ Requested(trace[r]) /\ SameCall(trace[position], trace[r])
  BY <1>0 DEF ScheduleSound, Asked
<1> HIDE DEF r
<1>2. r \in 1..Len(trace) /\ 0 < r /\ r < position
  BY <1>0, <1>1
<1>3. RecordedOutcome(trace, r) \notin {"none", "invalid"}
  BY <1>0, <1>1, <1>2 DEF ScheduleSound, Answered
<1>4. ASSUME mode = "mock", ~halted PROVE requests[r] # 0
  <2>1. PICK at : Echoes(at)
    BY <1>0, <1>4 DEF Echoing
  <2>2. r \in Seen
    BY <1>0, <1>1, <1>2, <1>4 DEF Seen, Mirrored
  <2>3. at[r] \in Entries /\ requests[r] = at[r]
    BY <1>1, <2>1, <2>2 DEF Echoes, InStep, Echoed
  <2> QED
    BY <1>0, <2>3 DEF Entries
<1> QED
  BY <1>1, <1>2, <1>3, <1>4 DEF r

(* A list that two entries are appended to.                                *)
LEMMA TwoMore ==
  ASSUME NEW s, IsSeq(s), NEW d, NEW e
  PROVE  LET t == s \o <<d, e>>
         IN /\ Extends(s, t) /\ Len(t) = Len(s) + 2 /\ DOMAIN t = 1..(Len(s) + 2)
            /\ t[Len(s) + 1] = d /\ t[Len(s) + 2] = e
<1>1. PICK S : s \in Seq(S)
  BY DEF IsSeq
<1> DEFINE all == S \cup {d, e}
<1>2. s \in Seq(all) /\ <<d, e>> \in Seq(all)
  BY <1>1
<1> HIDE DEF all
<1>3. /\ s \o <<d, e>> \in Seq(all) /\ Len(s \o <<d, e>>) = Len(s) + 2 /\ Len(s) \in Nat
      /\ \A k \in 1..Len(s) : (s \o <<d, e>>)[k] = s[k]
      /\ (s \o <<d, e>>)[Len(s) + 1] = d /\ (s \o <<d, e>>)[Len(s) + 2] = e
  BY <1>2
<1> QED
  BY <1>3 DEF Extends, IsSeq

(* Whether a replay got to the end is either true or not.                  *)
LEMMA ReplayedOutcome ==
  ASSUME NEW events, IsSeq(events) PROVE Replayed(EmptyState, events, 0).ok \in BOOLEAN
<1> DEFINE n == Len(events)
<1>1. n \in Nat /\ 0 \in 0..n /\ 0 \in Nat /\ 0 <= n /\ n \in 0..n
  BY SeqFacts
<1>2. PICK f : IsReplay(f, EmptyState, events, 0, n) /\ Replayed(EmptyState, events, 0) = f[n]
  BY <1>1, ReplayedIsReplay
<1> HIDE DEF n
<1>3. Outcomes(f, 0, n)
  BY <1>1, <1>2, ReplaySteps
<1> QED
  BY <1>1, <1>2, <1>3 DEF Outcomes, IsOutcome

(* A run over is left as it is, but for the events it ends with.           *)
LEMMA EndLeaves ==
  ASSUME IsSeq(log), NEW type \in {"run.completed", "run.failed"},
         log' = Append(log, RunEvent(type, Latest))
  PROVE  Extends(log, log') /\ \A p \in DOMAIN log' : p \in DOMAIN log \/ Plain(log'[p])
<1>1. /\ Extends(log, log') /\ Len(log') = Len(log) + 1 /\ Len(log) \in Nat
      /\ log'[Len(log) + 1] = RunEvent(type, Latest)
      /\ DOMAIN log = 1..Len(log)
  BY AppendFacts, SeqFacts
<1>2. DOMAIN log' = 1..(Len(log) + 1)
  BY <1>1, SeqFacts DEF Extends
<1>3. Plain(RunEvent(type, Latest))
  BY DEF Plain, Mirrored, Requested, Responded, RunEvent
<1> QED
  BY <1>1, <1>2, <1>3

(* The steps of the mock runner.                                           *)
LEMMA MockMoves ==
  ASSUME WalkStep, mode = "mock", MockStep PROVE Moves
<1>0. /\ Events = trace /\ IsSeq(log) /\ ScheduleSound /\ JobShape(job)
      /\ DOMAIN trace = 1..Len(trace) /\ Len(trace) \in Nat /\ position \in Nat \ {0}
      /\ Len(log) \in Nat /\ runStatus = "running" /\ Answering
      /\ DOMAIN log = 1..Len(log)
  BY WalkFacts
<1>1. CASE SubmitRecorded
  <2>1. /\ AtWalk /\ Responded(trace[position])
        /\ UNCHANGED <<runStatus, log, executed, replayVars>>
        /\ SourceRequest = RequestFor(trace, position)
    BY <1>0, <1>1 DEF SubmitRecorded, AtEvent, AtWalk, Here, SourceRequest
  <2>2. PICK sideEffect : job' = Submitted(CallAction("recorded", sideEffect), FALSE,
                                           requests[SourceRequest])
    BY <1>1, Zenon DEF SubmitRecorded
  <2>3. /\ job'.step = "deciding" /\ job'.action = CallAction("recorded", sideEffect)
        /\ job'.request = requests[RequestFor(trace, position)]
    BY <2>1, <2>2 DEF Submitted
  <2>4. ActsFor(job'.action, position)
    <3>1. /\ job'.action.mode = "recorded" /\ SameCall(job'.action, trace[position])
          /\ job'.action.attempt = AttemptAt(trace, RequestFor(trace, position))
      BY <2>1, <2>3, ActionFits
    <3> QED
      BY <3>1 DEF ActsFor, CallMode
  <2>5. job'.request # 0
    BY <2>1, <2>3, RequestAtHand DEF AtWalk
  <2> QED
    BY <2>1, <2>3, <2>4, <2>5 DEF CallsAgain, Moves, replayVars
<1>2. CASE OperateRecorded
  <2>1. job.step = "operating" /\ position \in 1..Len(trace) /\ Responded(trace[position])
    BY <1>0, <1>2 DEF OperateRecorded, Operate, Answering
  <2>2. RecordedOutcome(trace, RequestFor(trace, position)) \notin {"none", "invalid"}
    BY <2>1, RequestAtHand
  <2>3. Operate({RecordedOutcome(trace, RequestFor(trace, position))}) /\ UNCHANGED replayVars
    BY <1>0, <1>2 DEF OperateRecorded, SourceRequest
  <2> QED
    BY <2>2, <2>3, OperationMoves DEF Moves
<1>3. CASE MockAnswered
  <2> DEFINE type == IF job.outcome \in Outputs THEN "completed" ELSE "failed"
             e == CallEvent(type, CallFor(trace[position]), job.outcome, {job.request})
             there == trace[position].type = "completed"
  <2>1. /\ job.step = "returned" /\ job'.step = "idle"
        /\ UNCHANGED <<runStatus, executed, requests, differences>>
        /\ log' = Append(log, e)
        /\ issues \subseteq issues' /\ (job.outcome = "blocked" => "POLICY_BLOCKED" \in issues')
        /\ \/ /\ (job.outcome \in Outputs) = there
              /\ position' = position + 1 /\ UNCHANGED halted
           \/ /\ halted' = TRUE /\ UNCHANGED position
              /\ "RECORDED_OUTCOME_MISMATCH" \in issues'
    BY <1>0, <1>3 DEF MockAnswered, AppendResponse, Here, Idle
  <2>2. /\ position \in 1..Len(trace) /\ Responded(trace[position])
        /\ job.outcome # "blocked" =>
             /\ job.outcome \notin {"invalid", "none"}
             /\ job.outcome = RecordedOutcome(trace, RequestFor(trace, position))
    BY <1>0, <2>1 DEF Answering
  <2>3. SameCall(CallFor(trace[position]), trace[position])
    BY <1>0, <2>2 DEF ScheduleSound
  <2>4. /\ Responded(e) /\ SameCall(e, trace[position]) /\ e.value = job.outcome
        /\ e.parents = {job.request} /\ e.type = type
    BY <2>3, AnswersSay
  <2>5. (job.outcome \in Outputs) = there => type = trace[position].type
    BY <2>2 DEF Responded
  <2> HIDE DEF e
  <2>6. Heard(e)
    <3>1. job.outcome \notin {"invalid", "none"}
      BY <2>2
    <3>2. issues' = {} => /\ e.type = trace[position].type
                          /\ e.value = RecordedOutcome(trace, RequestFor(trace, position))
      BY <2>1, <2>2, <2>4, <2>5
    <3> QED
      BY <2>4, <3>1, <3>2 DEF Heard
  <2> HIDE DEF type, there
  <2>7. Hears
    BY <2>1, <2>6 DEF Hears
  <2> QED
    BY <2>7 DEF Moves
<1>4. CASE FinishMock
  <2>1. /\ UNCHANGED <<job, executed, position, requests, halted, differences>> /\ LoopLeft
        /\ \/ EndRun("failed") /\ issues \subseteq issues'
           \/ /\ issues = {} /\ issues' = issues /\ SourceState.ok /\ MirroredState.ok
              /\ SourceState.state = MirroredState.state /\ runStatus' = "completed"
              /\ log' = log \o <<RunEvent("checkpoint.created", Latest),
                                 RunEvent("run.completed", {Len(log) + 1})>>
    BY <1>4 DEF FinishMock, FailMock
  <2>2. job'.step = "idle"
    BY <2>1 DEF LoopLeft
  <2>3. CASE EndRun("failed") /\ issues \subseteq issues'
    <3>1. runStatus' = "failed" /\ log' = Append(log, RunEvent("run.failed", Latest))
      BY <2>3 DEF EndRun, Ending
    <3>2. Extends(log, log') /\ \A p \in DOMAIN log' : p \in DOMAIN log \/ Plain(log'[p])
      BY <1>0, <3>1, EndLeaves
    <3> QED
      BY <2>1, <2>2, <2>3, <3>1, <3>2 DEF Leaves, Moves
  <2>4. CASE /\ issues = {} /\ issues' = issues /\ SourceState.ok /\ MirroredState.ok
             /\ SourceState.state = MirroredState.state /\ runStatus' = "completed"
             /\ log' = log \o <<RunEvent("checkpoint.created", Latest),
                                RunEvent("run.completed", {Len(log) + 1})>>
    <3> DEFINE d == RunEvent("checkpoint.created", Latest)
               e == RunEvent("run.completed", {Len(log) + 1})
    <3>1. Plain(d) /\ Plain(e) /\ d.type # "state.changed" /\ e.type # "state.changed"
      BY DEF Plain, Mirrored, Requested, Responded, RunEvent
    <3>2. log' = log \o <<d, e>>
      BY <2>4
    <3> HIDE DEF d, e
    <3>3. /\ Extends(log, log') /\ Len(log') = Len(log) + 2 /\ DOMAIN log' = 1..(Len(log) + 2)
          /\ log'[Len(log) + 1] = d /\ log'[Len(log) + 2] = e
      BY <1>0, <3>2, TwoMore
    <3>4. \A p \in DOMAIN log' : p \in DOMAIN log \/ Plain(log'[p])
      BY <1>0, <3>1, <3>3
    <3>5. Restored'
      <4>1. Reconstructed(log', {}) = Reconstructed(log, {})
        BY <1>0, <3>1, <3>3, EndingChangesNothing
      <4>2. Reconstructed(log, {}) =
              [ok |-> MirroredState.ok, state |-> MirroredState.state, missed |-> FALSE]
        BY WithoutCheckpoints DEF MirroredState
      <4>3. MirroredState.ok = TRUE
        <5>1. /\ MirroredState.ok \in BOOLEAN
          BY <1>0, WithoutCheckpoints, ReplayedOutcome DEF MirroredState
        <5> QED
          BY <2>4, <5>1
      <4>4. trace' = trace /\ Checkpoints' = Checkpoints
        BY ResumeStays, SourceStays
      <4>5. SourceState = Reconstructed(trace, Checkpoints)
        BY <1>0 DEF SourceState
      <4> QED
        BY <2>4, <4>1, <4>2, <4>3, <4>4, <4>5 DEF Restored
    <3>6. ~halted /\ position > Len(trace)
      BY <1>0, <2>1, <2>4, WalkFacts DEF LoopLeft
    <3> QED
      BY <2>1, <2>2, <2>4, <3>3, <3>4, <3>5, <3>6 DEF Leaves, Moves
  <2> QED
    BY <2>1, <2>3, <2>4
<1>5. CASE MirrorThrows
  <2>1. /\ runStatus' = "rejected" /\ log' = log /\ job'.step = "idle"
        /\ UNCHANGED <<executed, replayVars>>
    BY <1>5 DEF MirrorThrows, LoopLeft
  <2>2. Extends(log, log') /\ DOMAIN log' = DOMAIN log
    BY <1>0, <2>1, SeqFacts
  <2> QED
    BY <2>1, <2>2 DEF Leaves, Moves, replayVars
<1>6. ~StartMock
  BY <1>0 DEF StartMock, StartRun, RefuseSource, FailAtStart
<1> QED
  BY <1>1, <1>2, <1>3, <1>4, <1>5, <1>6, CommonMoves DEF MockStep

(* The steps of the verified runner.                                       *)
LEMMA VerifiedMoves ==
  ASSUME WalkStep, mode = "verified", VerifiedStep PROVE Moves
<1>0. /\ Events = trace /\ IsSeq(log) /\ ScheduleSound /\ JobShape(job)
      /\ DOMAIN trace = 1..Len(trace) /\ Len(trace) \in Nat /\ position \in Nat \ {0}
      /\ Len(log) \in Nat /\ runStatus = "running" /\ Answering
      /\ DOMAIN log = 1..Len(log) /\ UNCHANGED mode
  BY WalkFacts
<1>1. CASE SubmitLive
  <2>1. /\ AtWalk /\ Responded(trace[position])
        /\ UNCHANGED <<runStatus, log, executed, requests, differences>>
        /\ SourceRequest = RequestFor(trace, position)
    BY <1>0, <1>1 DEF SubmitLive, AtEvent, AtWalk, Here, SourceRequest
  <2>2. CASE \E code : Halt(code) /\ UNCHANGED job
    BY <2>1, <2>2 DEF Halt, BreaksOff, AtWalk, Moves
  <2>3. CASE \E sideEffect :
               /\ requests[SourceRequest] # 0 /\ UNCHANGED <<position, halted, issues>>
               /\ job' = Submitted(CallAction("live", sideEffect), FALSE, requests[SourceRequest])
    <3>1. PICK sideEffect :
            job' = Submitted(CallAction("live", sideEffect), FALSE, requests[SourceRequest])
      BY <2>3
    <3>2. /\ job'.step = "deciding" /\ job'.action = CallAction("live", sideEffect)
          /\ job'.request = requests[RequestFor(trace, position)] /\ job'.request # 0
      BY <2>1, <2>3, <3>1 DEF Submitted
    <3>3. ActsFor(job'.action, position)
      <4>1. /\ job'.action.mode = "live" /\ SameCall(job'.action, trace[position])
            /\ job'.action.attempt = AttemptAt(trace, RequestFor(trace, position))
        BY <2>1, <3>2, ActionFits
      <4> QED
        BY <4>1 DEF ActsFor, CallMode
    <3> QED
      BY <2>1, <2>3, <3>2, <3>3 DEF CallsAgain, Moves
  <2> QED
    BY <1>1, <2>2, <2>3, Zenon DEF SubmitLive
<1>2. CASE OperateLive
  <2>1. {"invalid", "none"} \cap LiveAnswers = {}
    BY VerifiedAssumption, CallsAssumption DEF NotAnswers
  <2> QED
    BY <1>2, <2>1, OperationMoves DEF OperateLive, Moves
<1>3. CASE LiveAnswered
  <2> DEFINE type == IF Answer \in Outputs THEN "completed" ELSE "failed"
             e == CallEvent(type, CallFor(trace[position]), Answer, {job.request})
             expected == RecordedOutcome(trace, RequestFor(trace, position))
  <2>1. /\ job.step = "returned" /\ job'.step = "idle" /\ position' = position + 1
        /\ UNCHANGED <<runStatus, executed, requests, halted>>
        /\ log' = Append(log, e)
        /\ issues \subseteq issues' /\ (Refused => "POLICY_BLOCKED" \in issues')
        /\ differences \subseteq differences'
        /\ (~Alike(expected, Answer) => position \in differences')
    <3>1. /\ job.step = "returned" /\ job'.step = "idle" /\ position' = position + 1
          /\ UNCHANGED <<runStatus, executed, requests, halted>>
          /\ log' = Append(log, e)
          /\ issues \subseteq issues' /\ (Refused => "POLICY_BLOCKED" \in issues')
      BY <1>0, <1>3 DEF LiveAnswered, AppendResponse, Here, Idle
    <3>2. PICK holds :
            differences' = differences \cup
              {i \in {position} : \/ ~SameStatus(expected, Answer) \/ ~Alike(expected, Answer)
                                  \/ ~holds}
      BY <1>0, <1>3 DEF LiveAnswered, SourceRequest
    <3> QED
      BY <3>1, <3>2
  <2>2. /\ position \in 1..Len(trace) /\ Responded(trace[position])
        /\ job.outcome # "blocked" => job.outcome \notin {"invalid", "none"}
    BY <1>0, <2>1 DEF Answering
  <2>3. SameCall(CallFor(trace[position]), trace[position])
    BY <1>0, <2>2 DEF ScheduleSound
  <2>4. /\ Responded(e) /\ SameCall(e, trace[position]) /\ e.value = Answer
        /\ e.parents = {job.request} /\ e.type = type
    BY <2>3, AnswersSay
  <2>5. /\ Answer \notin {"invalid", "none"} /\ (job.outcome = "blocked" => Refused)
        /\ (~Refused => Answer = job.outcome)
    BY <2>2 DEF Answer, Refused
  <2> HIDE DEF e
  <2>6. Heard(e)
    BY <2>1, <2>4, <2>5 DEF Heard
  <2> HIDE DEF type, expected
  <2>7. Hears
    BY <2>1, <2>5, <2>6 DEF Hears
  <2> QED
    BY <2>7 DEF Moves
<1>4. CASE FinishVerified
  <2>1. /\ UNCHANGED <<job, executed, replayVars>> /\ LoopLeft
        /\ \/ EndRun("failed")
           \/ issues = {} /\ EndRun("completed")
           \/ runStatus' = "rejected" /\ UNCHANGED log
    BY <1>4 DEF FinishVerified
  <2>2. /\ job'.step = "idle" /\ issues' = issues
        /\ UNCHANGED <<position, requests, halted, differences>>
        /\ (~halted => position > Len(trace)) /\ (halted => issues # {})
    BY <1>0, <2>1, WalkFacts DEF LoopLeft, replayVars
  <2>3. Restored'
    BY <1>0 DEF Restored
  <2>4. CASE runStatus' = "rejected" /\ UNCHANGED log
    <3>1. Extends(log, log') /\ DOMAIN log' = DOMAIN log
      BY <1>0, <2>4, SeqFacts
    <3> QED
      BY <2>1, <2>2, <2>3, <2>4, <3>1 DEF Leaves, Moves
  <2>5. ASSUME NEW status \in {"failed", "completed"}, EndRun(status),
               status = "completed" => issues = {}
        PROVE  Moves
    <3>1. /\ runStatus' = status
          /\ \E type \in {"run.completed", "run.failed"} :
               log' = Append(log, RunEvent(type, Latest))
      BY <2>5 DEF EndRun, Ending
    <3>2. Extends(log, log') /\ \A p \in DOMAIN log' : p \in DOMAIN log \/ Plain(log'[p])
      BY <1>0, <3>1, EndLeaves
    <3> QED
      BY <2>1, <2>2, <2>3, <2>5, <3>1, <3>2 DEF Leaves, Moves
  <2> QED
    BY <2>1, <2>4, <2>5
<1>5. ~StartVerified
  BY <1>0 DEF StartVerified
<1> QED
  BY <1>1, <1>2, <1>3, <1>4, <1>5, CommonMoves DEF VerifiedStep

(* There are no other steps.                                               *)
LEMMA WalkMoves ==
  ASSUME WalkStep PROVE Moves
BY MockMoves, VerifiedMoves, CommonMoves DEF WalkStep

-----------------------------------------------------------------------------
(* One event more in the new run.                                          *)
LEMMA OneEntryMore ==
  ASSUME WalkStep, NEW e, log' = Append(log, e)
  PROVE  /\ Extends(log, log') /\ DOMAIN log' = 1..(Len(log) + 1) /\ Len(log') = Len(log) + 1
         /\ log'[Len(log) + 1] = e /\ \A p \in 1..Len(log) : log'[p] = log[p]
         /\ DOMAIN log = 1..Len(log) /\ Len(log) \in Nat
         /\ Entries \subseteq 1..Len(log)
         /\ Entries' = IF Mirrored(e) THEN Entries \cup {Len(log) + 1} ELSE Entries
<1>1. /\ IsSeq(log) /\ DOMAIN log = 1..Len(log) /\ Len(log) \in Nat
  BY WalkFacts
<1>2. /\ Extends(log, log') /\ Len(log') = Len(log) + 1 /\ log'[Len(log) + 1] = e
      /\ \A p \in 1..Len(log) : log'[p] = log[p]
  BY <1>1, AppendFacts DEF Extends
<1>3. DOMAIN log' = 1..(Len(log) + 1)
  BY <1>1, <1>2, SeqFacts DEF Extends
<1>4. Entries \subseteq 1..Len(log) /\ Entries' = {p \in 1..(Len(log) + 1) : Mirrored(log'[p])}
      /\ Entries = {p \in 1..Len(log) : Mirrored(log[p])}
  BY <1>1, <1>3 DEF Entries, Mirrored, Requested, Responded
<1>5. \A p \in 1..(Len(log) + 1) : p \in 1..Len(log) \/ p = Len(log) + 1
  BY <1>1
<1>6. Entries' = IF Mirrored(e) THEN Entries \cup {Len(log) + 1} ELSE Entries
  <2>1. Len(log) + 1 \in 1..(Len(log) + 1) /\ \A p \in 1..Len(log) : p \in 1..(Len(log) + 1)
    BY <1>1
  <2>2. \A p : p \in Entries' <=> \/ p \in Entries
                                  \/ p = Len(log) + 1 /\ Mirrored(e)
    BY <1>2, <1>4, <1>5, <2>1
  <2> QED
    BY <2>2
<1> QED
  BY <1>1, <1>2, <1>3, <1>4, <1>6

(* A run that only plain events are added to, if any, echoes as before.    *)
LEMMA PlainEntries ==
  ASSUME WalkStep, Extends(log, log'), \A p \in DOMAIN log' : p \in DOMAIN log \/ Plain(log'[p])
  PROVE  Entries' = Entries
<1>1. DOMAIN log = 1..Len(log) /\ DOMAIN log' = 1..Len(log') /\ Len(log) <= Len(log')
      /\ Len(log) \in Nat /\ Len(log') \in Nat /\ \A p \in 1..Len(log) : log'[p] = log[p]
  BY WalkFacts, SeqFacts DEF Extends
<1>2. \A p \in DOMAIN log' : ~Plain(log'[p]) => p \in DOMAIN log
  OBVIOUS
<1>3. \A p : p \in Entries' <=> p \in Entries
  <2>1. ASSUME NEW p PROVE p \in Entries' <=> p \in Entries
    <3>1. p \in Entries' <=> p \in DOMAIN log' /\ Mirrored(log'[p])
      BY DEF Entries, Mirrored, Requested, Responded
    <3>2. p \in Entries <=> p \in DOMAIN log /\ Mirrored(log[p])
      BY DEF Entries
    <3>3. p \in DOMAIN log => p \in DOMAIN log' /\ log'[p] = log[p]
      BY <1>1
    <3>4. p \in DOMAIN log' /\ Mirrored(log'[p]) => p \in DOMAIN log
      BY <1>2 DEF Plain
    <3> QED
      BY <3>1, <3>2, <3>3, <3>4
  <2> QED
    BY <2>1
<1> QED
  BY <1>3

(* What has been seen after a step to the next event.                      *)
LEMMA SeenMoves ==
  ASSUME WalkStep
  PROVE  /\ Seen \subseteq 1..Len(trace) /\ \A i \in Seen : i \in Nat /\ i < position
         /\ position' = position => Seen' = Seen
         /\ position' = position + 1 /\ position \in 1..Len(trace) =>
              Seen' = IF Mirrored(trace[position]) THEN Seen \cup {position} ELSE Seen
<1>1. /\ trace' = trace /\ ResumeSequence' = ResumeSequence /\ Len(trace) \in Nat
      /\ position \in Nat /\ ResumeSequence \in Nat /\ ResumeSequence < position
  BY WalkFacts, ResumeStays, SourceStays
<1>2. Seen' = {i \in 1..Len(trace) : ResumeSequence < i /\ i < position' /\ Mirrored(trace[i])}
  BY <1>1 DEF Seen, Mirrored, Requested, Responded
<1>3. ASSUME position' = position + 1, position \in 1..Len(trace)
      PROVE  Seen' = IF Mirrored(trace[position]) THEN Seen \cup {position} ELSE Seen
  <2>1. \A i \in 1..Len(trace) : i < position' <=> i < position \/ i = position
    BY <1>1, <1>3
  <2>2. \A i : i \in Seen' <=> i \in Seen \/ (i = position /\ Mirrored(trace[position]))
    BY <1>1, <1>2, <1>3, <2>1 DEF Seen
  <2> QED
    BY <2>2
<1> QED
  BY <1>1, <1>2, <1>3 DEF Seen

(* One more on either side, behind the others.                             *)
Above(S, a) == a \in Nat /\ \A i \in S : i \in Nat /\ i < a
Grown(g, f, S, T, a, b) ==
  InStep(g, S \cup {a}, T \cup {b}) /\ g[a] = b /\ \A i \in S : g[i] = f[i]

(* They still run in step.                                                 *)
LEMMA InStepGrows ==
  ASSUME NEW f, NEW S, NEW T, InStep(f, S, T), NEW a, NEW b, Above(S, a), Above(T, b)
  PROVE  \E g : Grown(g, f, S, T, a, b)
<1> DEFINE g == [i \in S \cup {a} |-> IF i = a THEN b ELSE f[i]]
<1>0. /\ a \in Nat /\ b \in Nat /\ \A i \in S : i \in Nat /\ i < a
      /\ \A t \in T : t \in Nat /\ t < b
  BY DEF Above
<1>1. /\ f \in [S -> T] /\ \A i, j \in S : i < j => f[i] < f[j]
      /\ \A t \in T : \E i \in S : f[i] = t
  BY DEF InStep
<1>2. a \notin S
  BY <1>0
<1>3. g[a] = b /\ \A i \in S : g[i] = f[i] /\ f[i] \in T
  BY <1>1, <1>2
<1>4. g \in [S \cup {a} -> T \cup {b}]
  BY <1>1
<1> HIDE DEF g
<1>5. ASSUME NEW i \in S \cup {a}, NEW j \in S \cup {a}, i < j PROVE g[i] < g[j]
  <2>1. i \in S
    BY <1>0, <1>5
  <2>2. CASE j \in S
    BY <1>0, <1>1, <1>3, <1>5, <2>1, <2>2
  <2>3. CASE j = a
    BY <1>0, <1>3, <2>1, <2>3
  <2> QED
    BY <2>2, <2>3
<1>6. \A t \in T \cup {b} : \E i \in S \cup {a} : g[i] = t
  BY <1>1, <1>3
<1> QED
  BY <1>3, <1>4, <1>5, <1>6 DEF InStep, Grown

-----------------------------------------------------------------------------
(* Where the walk stands after a step.                                     *)
LEMMA StandingKept == ASSUME WalkStep PROVE Sourced' /\ Standing'
<1>1. /\ Sourced' /\ trace' = trace /\ ResumeSequence' = ResumeSequence
  BY ResumeStays, SourceStays DEF WalkStep, Walked
<1>2. /\ Len(trace) \in Nat /\ ResumeSequence \in 0..Len(trace)
      /\ position \in (ResumeSequence + 1)..(Len(trace) + 1)
      /\ requests \in [1..Len(trace) -> Nat] /\ halted \in BOOLEAN /\ (halted => issues # {})
      /\ runStatus = "running" /\ Len(log) \in Nat
  BY WalkFacts
<1>3. Moves
  BY WalkMoves
<1>4. position' = position \/ (position' = position + 1 /\ position \in 1..Len(trace))
  <2>1. CASE Hears
    <3>1. position \in 1..Len(trace)
      BY <2>1, WalkFacts DEF Hears, Answering
    <3> QED
      BY <2>1, <3>1 DEF Hears
  <2>2. CASE Leaves
    BY <2>2 DEF Leaves
  <2>3. CASE Passes \/ Copies \/ BreaksOff \/ CallsAgain \/ Decides \/ Performs
    BY <2>3 DEF Passes, Copies, BreaksOff, CallsAgain, Decides, Performs, AtWalk
  <2> QED
    BY <1>3, <2>1, <2>2, <2>3 DEF Moves
<1>5. halted' \in BOOLEAN /\ (halted' => issues' # {})
  <2>1. \/ halted' = halted /\ issues \subseteq issues'
        \/ halted' = TRUE /\ issues' # {}
    <3>1. CASE Passes \/ Copies \/ BreaksOff \/ CallsAgain \/ Decides \/ Performs
      BY <3>1 DEF Passes, Copies, BreaksOff, CallsAgain, Decides, Performs
    <3>2. CASE Hears \/ Leaves
      BY <3>2 DEF Hears, Leaves
    <3> QED
      BY <1>3, <3>1, <3>2 DEF Moves
  <2>2. CASE halted' = halted /\ issues \subseteq issues'
    <3>1. issues # {} => issues' # {}
      BY <2>2
    <3> QED
      BY <1>2, <2>2, <3>1
  <2>3. CASE halted' = TRUE /\ issues' # {}
    BY <2>3
  <2> QED
    BY <2>1, <2>2, <2>3
<1>6. position' \in (ResumeSequence + 1)..(Len(trace) + 1)
  BY <1>2, <1>4
<1>7. requests' \in [1..Len(trace) -> Nat]
  <2>1. requests' = requests \/ requests' = [requests EXCEPT ![position] = Len(log) + 1]
    BY <1>3 DEF Moves, Passes, Copies, BreaksOff, CallsAgain, Decides, Performs, Hears, Leaves
  <2> QED
    BY <1>2, <2>1
<1>8. /\ runStatus' # "none" /\ (runStatus' # "running" => job'.step = "idle")
      /\ runStatus' = "completed" => issues' = {} /\ position' = Len(trace) + 1
  <2>1. CASE Leaves
    <3>1. position > Len(trace) => position = Len(trace) + 1
      BY <1>2
    <3> QED
      BY <2>1, <3>1 DEF Leaves
  <2>2. CASE ~Leaves
    BY <1>2, <1>3, <2>2 DEF Moves, Passes, Copies, BreaksOff, CallsAgain, Decides, Performs,
                            Hears
  <2> QED
    BY <2>1, <2>2
<1> QED
  BY <1>1, <1>6, <1>7, <1>8, <1>5 DEF Standing

(* The call at work still answers the event the walk stands at.            *)
LEMMA AnsweringKept == ASSUME WalkStep PROVE Answering'
<1>1. /\ trace' = trace /\ UNCHANGED mode /\ Answering /\ Len(log) \in Nat
      /\ ScheduleSound /\ Len(trace) \in Nat
  BY WalkFacts
<1>2. \A action, i : ActsFor(action, i)' <=> ActsFor(action, i)
  BY <1>1 DEF ActsFor, CallMode
<1>3. CASE job'.step = "idle"
  BY <1>3 DEF Answering
<1>4. CASE CallsAgain
  BY <1>1, <1>2, <1>4 DEF CallsAgain, Answering, AtWalk, ActsFor, CallMode, Responded, SameCall
<1>5. CASE Decides
  <2>1. PICK e : /\ log' = Append(log, e) /\ e.type = "decision.recorded"
                 /\ SameCall(e, job.action)
    BY <1>5 DEF Decides
  <2>2. Len(log') = Len(log) + 1 /\ log'[Len(log) + 1] = e
    BY <2>1, OneEntryMore
  <2>3. /\ ~halted /\ position \in 1..Len(trace) /\ Responded(trace[position])
        /\ job.request = requests[RequestFor(trace, position)] /\ job.request # 0
        /\ ActsFor(job.action, position)
    BY <1>1, <1>5 DEF Decides, Answering
  <2>4. SameCall(e, trace[position])
    BY <2>1, <2>3 DEF ActsFor, SameCall
  <2>5. Len(log') # 0 /\ log'[Len(log')].type = "decision.recorded"
        /\ SameCall(log'[Len(log')], trace[position])
    BY <1>1, <2>1, <2>2, <2>4
  <2>6. ActsFor(job.action, position)'
    BY <1>2, <1>5, <2>3 DEF Decides, SameJob, ActsFor, CallMode
  <2> QED
    BY <1>1, <1>5, <2>3, <2>5, <2>6 DEF Decides, SameJob, Answering, Responded, SameCall
<1>6. CASE Performs
  <2>1. /\ ~halted /\ position \in 1..Len(trace) /\ Responded(trace[position])
        /\ job.request = requests[RequestFor(trace, position)] /\ job.request # 0
        /\ ActsFor(job.action, position)
        /\ Len(log) # 0 /\ log[Len(log)].type = "decision.recorded"
        /\ SameCall(log[Len(log)], trace[position])
    BY <1>1, <1>6 DEF Performs, Answering
  <2>2. ActsFor(job.action, position)'
    BY <1>1, <1>6, <2>1 DEF Performs, SameJob, ActsFor, CallMode
  <2> QED
    BY <1>1, <1>6, <2>1, <2>2 DEF Performs, SameJob, Answering, Responded, SameCall
<1>7. CASE Passes \/ Copies \/ BreaksOff \/ Hears \/ Leaves
  BY <1>3, <1>7 DEF Passes, Copies, BreaksOff, Hears, Leaves, AtWalk
<1> QED
  BY <1>4, <1>5, <1>6, <1>7, WalkMoves DEF Moves

(* What has been echoed stays so.                                          *)
LEMMA EchoStays ==
  ASSUME WalkStep, Extends(log, log'), issues \subseteq issues', differences \subseteq differences',
         \A j \in 1..Len(trace) : j < position => requests'[j] = requests[j],
         NEW i \in Seen, NEW p \in DOMAIN log, Echoed(i, p)
  PROVE  Echoed(i, p)' /\ p \in DOMAIN log'
<1>1. /\ trace' = trace /\ UNCHANGED mode /\ ScheduleSound /\ Len(trace) \in Nat
      /\ DOMAIN log = 1..Len(log) /\ Len(log) \in Nat
  BY WalkFacts
<1>2. /\ \A q \in 1..Len(log) : log'[q] = log[q] /\ q \in DOMAIN log'
  BY <1>1, SeqFacts DEF Extends
<1>3. i \in 1..Len(trace) /\ i < position /\ i \in Nat
  BY SeenMoves
<1>4. log'[p] = log[p] /\ p \in DOMAIN log' /\ p \in Nat
  BY <1>1, <1>2
<1>5. requests'[i] = requests[i]
  BY <1>3
<1>6. ASSUME Responded(trace[i]) PROVE EchoedAnswer(i, p)'
  <2> DEFINE r == RequestFor(trace, i)
  <2>1. r \in 1..(i - 1)
    BY <1>1, <1>3, <1>6 DEF ScheduleSound, Asked
  <2>2. EchoedAnswer(i, p)
    BY <1>6 DEF Echoed
  <2> HIDE DEF r
  <2>3. r \in 1..Len(trace) /\ r < position
    <3>1. position \in Nat
      BY WalkFacts
    <3> QED
      BY <1>1, <1>3, <2>1, <3>1
  <2>4. requests'[r] = requests[r]
    BY <2>3
  <2>5. p # 1 /\ p - 1 \in 1..Len(log)
    BY <1>1, <2>2 DEF EchoedAnswer
  <2>6. log'[p - 1] = log[p - 1]
    BY <1>2, <2>5
  <2>7. (i \notin differences' => i \notin differences) /\ (issues' = {} => issues = {})
    OBVIOUS
  <2> QED
    BY <1>1, <1>4, <2>2, <2>4, <2>6, <2>7 DEF EchoedAnswer, r, Responded, SameCall
<1> QED
  BY <1>1, <1>4, <1>5, <1>6 DEF Echoed, Entry, Requested, Responded, SameCall

(* The requests that have been copied.                                     *)
Copied(i) ==
  /\ i \in Seen /\ Requested(trace[i]) /\ requests[i] \in DOMAIN log
  /\ Requested(log[requests[i]]) /\ SameCall(log[requests[i]], trace[i])

(* What echoing the source comes to.                                       *)
LEMMA EchoingReads ==
  Echoing <=> /\ ~halted => \E at : Echoes(at)
              /\ \A i \in 1..Len(trace) : requests[i] # 0 => Copied(i)
BY DEF Echoing, Copied

(* The same of the next state.                                             *)
LEMMA EchoingReadsNext ==
  ASSUME trace' = trace
  PROVE  /\ ~halted' => \E at : Echoes(at)'
         /\ \A i \in 1..Len(trace) : requests'[i] # 0 => Copied(i)'
         => Echoing'
BY DEF Echoing, Copied

(* A walk that goes on past an event that it does not copy, or stays.      *)
LEMMA EchoingStays ==
  ASSUME WalkStep, Extends(log, log'), Seen' = Seen, requests' = requests,
         issues \subseteq issues', differences \subseteq differences',
         ~halted' => ~halted /\ Entries' = Entries
  PROVE  Echoing'
<1>1. trace' = trace /\ Echoing /\ DOMAIN log = 1..Len(log) /\ Len(log) \in Nat
  BY WalkFacts
<1>2. \A q \in DOMAIN log : log'[q] = log[q] /\ q \in DOMAIN log'
  BY <1>1, SeqFacts DEF Extends
<1>3. ASSUME NEW i \in 1..Len(trace), requests'[i] # 0 PROVE Copied(i)'
  <2>1. Copied(i)
    BY <1>1, <1>3, EchoingReads
  <2> QED
    BY <1>1, <1>2, <2>1 DEF Copied, Requested, SameCall
<1>4. ASSUME ~halted' PROVE \E at : Echoes(at)'
  <2>1. PICK at : Echoes(at)
    BY <1>1, <1>4, EchoingReads
  <2>2. ASSUME NEW i \in Seen PROVE Echoed(i, at[i])'
    <3>1. at[i] \in Entries /\ Echoed(i, at[i])
      BY <2>1 DEF Echoes, InStep
    <3>2. at[i] \in DOMAIN log
      BY <3>1 DEF Entries
    <3> QED
      BY <3>1, <3>2, EchoStays
  <2>3. InStep(at, Seen', Entries')
    BY <1>4, <2>1 DEF Echoes
  <2>4. Echoes(at)'
    BY <2>2, <2>3 DEF Echoes
  <2> QED
    BY <2>4
<1> QED
  BY <1>1, <1>3, <1>4, EchoingReadsNext

(* A walk that copies the event it stands at, or has it answered.          *)
LEMMA EchoingGrows ==
  ASSUME WalkStep, NEW here, here = position, NEW new, new = Len(log) + 1,
         NEW e, log' = Append(log, e), Mirrored(e), Mirrored(trace[position]),
         position \in 1..Len(trace), position' = position + 1, ~halted,
         issues \subseteq issues', differences \subseteq differences',
         \A j \in 1..Len(trace) : j # position => requests'[j] = requests[j],
         requests'[position] # 0 => /\ requests'[position] = Len(log) + 1
                                    /\ Requested(e) /\ Requested(trace[position])
                                    /\ SameCall(e, trace[position]),
         Echoed(here, new)'
  PROVE  Echoing'
<1>1. /\ trace' = trace /\ Echoing /\ Len(trace) \in Nat /\ position \in Nat \ {0}
  BY WalkFacts
<1>2. /\ Extends(log, log') /\ DOMAIN log' = 1..(Len(log) + 1) /\ log'[Len(log) + 1] = e
      /\ DOMAIN log = 1..Len(log) /\ Len(log) \in Nat /\ Entries \subseteq 1..Len(log)
      /\ Entries' = Entries \cup {Len(log) + 1} /\ \A p \in 1..Len(log) : log'[p] = log[p]
  BY OneEntryMore
<1>3. /\ Seen' = Seen \cup {position} /\ \A i \in Seen : i \in Nat /\ i < position
      /\ Seen \subseteq 1..Len(trace)
  BY SeenMoves
<1>4. ASSUME NEW i \in 1..Len(trace), requests'[i] # 0 PROVE Copied(i)'
  <2>1. CASE i = position
    BY <1>1, <1>2, <1>3, <1>4, <2>1 DEF Copied, Requested, SameCall
  <2>2. CASE i # position
    <3>1. requests'[i] = requests[i]
      BY <2>2
    <3>2. Copied(i)
      BY <1>1, <1>4, <3>1, EchoingReads
    <3>3. /\ requests[i] \in DOMAIN log /\ requests[i] \in DOMAIN log'
          /\ log'[requests[i]] = log[requests[i]]
      BY <1>2, <3>2 DEF Copied
    <3> QED
      BY <1>1, <1>3, <3>1, <3>2, <3>3 DEF Copied, Requested, SameCall
  <2> QED
    BY <2>1, <2>2
<1>5. \E at : Echoes(at)'
  <2>1. PICK f : Echoes(f)
    BY <1>1, EchoingReads
  <2>2. InStep(f, Seen, Entries)
    BY <2>1 DEF Echoes
  <2>3. new \in Nat /\ \A t \in Entries : t \in Nat /\ t < new
    BY <1>2
  <2>4. PICK g : Grown(g, f, Seen, Entries, here, new)
    <3>1. here \in Nat /\ \A i \in Seen : i \in Nat /\ i < here
      BY <1>1, <1>3
    <3>2. Above(Seen, here) /\ Above(Entries, new)
      BY <2>3, <3>1 DEF Above
    <3> QED
      BY <2>2, <3>2, InStepGrows
  <2>5. /\ InStep(g, Seen \cup {here}, Entries \cup {new})
        /\ g[here] = new /\ \A i \in Seen : g[i] = f[i]
    BY <2>4 DEF Grown
  <2>6. ASSUME NEW i \in Seen' PROVE Echoed(i, g[i])'
    <3>1. CASE i \in Seen
      <4>1. f[i] \in DOMAIN log /\ Echoed(i, f[i])
        BY <2>1, <3>1 DEF Echoes, InStep, Entries
      <4>2. \A j \in 1..Len(trace) : j < position => requests'[j] = requests[j]
        BY <1>1
      <4>3. Echoed(i, f[i])'
        BY <1>2, <3>1, <4>1, <4>2, EchoStays
      <4>4. g[i] = f[i]
        BY <2>5, <3>1
      <4> QED
        BY <4>3, <4>4
    <3>2. CASE i = here
      <4>1. g[i] = new
        BY <2>5, <3>2
      <4> QED
        BY <3>2, <4>1
    <3> QED
      BY <1>3, <3>1, <3>2
  <2>7. InStep(g, Seen', Entries')
    BY <1>2, <1>3, <2>5
  <2>8. Echoes(g)'
    BY <2>6, <2>7 DEF Echoes
  <2> QED
    BY <2>8
<1> QED
  BY <1>1, <1>4, <1>5, EchoingReadsNext

(* Nothing has been copied from where the walk stands.                     *)
LEMMA NotYetCopied ==
  ASSUME WalkStep, position \in 1..Len(trace) PROVE requests[position] = 0
<1>1. Echoing /\ position \in Nat
  BY WalkFacts
<1>2. position \notin Seen
  BY <1>1, SeenMoves
<1> QED
  BY <1>1, <1>2 DEF Echoing

(* The entries of the new run still echo what has been seen of the source. *)
LEMMA EchoingKept == ASSUME WalkStep PROVE Echoing'
<1>0. /\ trace' = trace /\ UNCHANGED mode /\ Answering /\ IsSeq(log) /\ Len(log) \in Nat
      /\ DOMAIN log = 1..Len(log) /\ ScheduleSound /\ position \in Nat /\ Len(trace) \in Nat
      /\ requests \in [1..Len(trace) -> Nat]
  BY WalkFacts
<1>1. CASE Passes \/ BreaksOff \/ CallsAgain \/ Performs
  <2>1. /\ log' = log /\ requests' = requests /\ issues \subseteq issues'
        /\ differences' = differences /\ (~halted' => ~halted)
    <3>1. CASE BreaksOff
      <4>1. job.step = "idle" /\ halted' = TRUE
        BY <3>1 DEF BreaksOff
      <4> QED
        BY <3>1, <4>1 DEF BreaksOff
    <3>2. CASE ~BreaksOff
      BY <1>1, <3>2 DEF Passes, CallsAgain, Performs
    <3> QED
      BY <3>1, <3>2
  <2>2. Seen' = Seen
    BY <1>1, SeenMoves DEF Passes, BreaksOff, CallsAgain, Performs, AtWalk
  <2>3. Extends(log, log') /\ Entries' = Entries
    BY <1>0, <2>1, SeqFacts, PlainEntries
  <2> QED
    BY <2>1, <2>2, <2>3, EchoingStays
<1>2. CASE Copies
  <2>1. PICK e : log' = Append(log, e) /\ Entry(e) = Entry(trace[position])
    BY <1>2 DEF Copies
  <2>2. /\ position \in 1..Len(trace) /\ position' = position + 1 /\ ~halted
        /\ Mirrored(trace[position]) /\ ~Responded(trace[position])
        /\ issues' = issues /\ differences' = differences
        /\ requests' = IF Requested(trace[position])
                       THEN [requests EXCEPT ![position] = Len(log) + 1] ELSE requests
    BY <1>2 DEF Copies, AtWalk
  <2>3. PICK here, new : here = position /\ new = Len(log) + 1
    OBVIOUS
  <2>4. /\ Mirrored(e) /\ SameCall(e, trace[position])
        /\ (Requested(e) <=> Requested(trace[position]))
    BY <2>1, <2>2 DEF Entry, Mirrored, Requested, Responded, SameCall
  <2>5. /\ \A j \in 1..Len(trace) : j # position => requests'[j] = requests[j]
        /\ requests'[position] = IF Requested(trace[position]) THEN new ELSE 0
    BY <1>0, <2>2, <2>3, NotYetCopied
  <2>6. log'[new] = e
    BY <2>1, <2>3, OneEntryMore
  <2>7. Echoed(here, new)'
    BY <1>0, <2>1, <2>2, <2>3, <2>4, <2>5, <2>6 DEF Echoed, Entry, Requested, Responded, SameCall
  <2> QED
    BY <2>1, <2>2, <2>3, <2>4, <2>5, <2>7, EchoingGrows
<1>3. CASE Decides
  <2>1. PICK e : log' = Append(log, e) /\ e.type = "decision.recorded"
    BY <1>3 DEF Decides
  <2>2. /\ requests' = requests /\ issues' = issues /\ differences' = differences
        /\ halted' = halted /\ position' = position
    BY <1>3 DEF Decides
  <2>3. ~Mirrored(e)
    BY <2>1 DEF Mirrored, Requested, Responded
  <2>4. Extends(log, log') /\ Entries' = Entries
    BY <2>1, <2>3, OneEntryMore
  <2>5. Seen' = Seen
    BY <2>2, SeenMoves
  <2> QED
    BY <2>2, <2>4, <2>5, EchoingStays
<1>4. CASE Hears
  <2>1. PICK e : log' = Append(log, e) /\ Heard(e)
    BY <1>4 DEF Hears
  <2>2. /\ job.step = "returned" /\ requests' = requests
        /\ issues \subseteq issues' /\ differences \subseteq differences'
        /\ \/ position' = position + 1 /\ halted' = halted
           \/ position' = position /\ halted' = TRUE
    BY <1>4 DEF Hears
  <2>3. /\ ~halted /\ position \in 1..Len(trace) /\ Responded(trace[position])
        /\ job.request = requests[RequestFor(trace, position)] /\ job.request # 0
        /\ Len(log) # 0 /\ log[Len(log)].type = "decision.recorded"
        /\ SameCall(log[Len(log)], trace[position])
    BY <1>0, <2>2 DEF Answering
  <2>4. CASE position' = position /\ halted' = TRUE
    <3>1. Seen' = Seen /\ Extends(log, log')
      BY <2>1, <2>4, OneEntryMore, SeenMoves
    <3> QED
      BY <2>2, <2>4, <3>1, EchoingStays
  <2>5. CASE position' = position + 1 /\ halted' = halted
    <3>1. PICK here, new : here = position /\ new = Len(log) + 1
      OBVIOUS
    <3>2. /\ Mirrored(e) /\ Mirrored(trace[position]) /\ ~Requested(trace[position])
      BY <2>1, <2>3 DEF Mirrored, Requested, Responded, Heard
    <3>3. log'[new] = e /\ new # 1 /\ new - 1 = Len(log) /\ log'[new - 1] = log[Len(log)]
      <4>1. Len(log) \in 1..Len(log)
        BY <1>0, <2>3
      <4>2. new # 1 /\ new - 1 = Len(log)
        BY <1>0, <2>3, <3>1
      <4> QED
        BY <2>1, <3>1, <4>1, <4>2, OneEntryMore
    <3>4. EchoedAnswer(here, new)'
      <4>1. requests'[RequestFor(trace, here)] = job.request
        BY <2>2, <2>3, <3>1
      <4>2. SameCall(log'[new - 1], log'[new])
        BY <2>1, <2>3, <3>3 DEF Heard, SameCall
      <4> QED
        BY <1>0, <2>1, <2>3, <3>1, <3>3, <4>1, <4>2
           DEF EchoedAnswer, Heard, Responded, SameCall
    <3>5. Echoed(here, new)'
      BY <1>0, <2>1, <2>3, <3>1, <3>2, <3>3, <3>4
         DEF Echoed, Heard, Requested, Responded, SameCall
    <3>6. requests'[position] = 0
      BY <2>2, <2>3, NotYetCopied
    <3> QED
      BY <2>1, <2>2, <2>3, <2>5, <3>1, <3>2, <3>5, <3>6, EchoingGrows
  <2> QED
    BY <2>2, <2>4, <2>5
<1>5. CASE Leaves
  <2>1. /\ Extends(log, log') /\ \A p \in DOMAIN log' : p \in DOMAIN log \/ Plain(log'[p])
        /\ requests' = requests /\ issues \subseteq issues' /\ differences' = differences
        /\ halted' = halted /\ position' = position
    BY <1>5 DEF Leaves
  <2>2. Entries' = Entries /\ Seen' = Seen
    BY <2>1, PlainEntries, SeenMoves
  <2> QED
    BY <2>1, <2>2, EchoingStays
<1> QED
  BY <1>1, <1>2, <1>3, <1>4, <1>5, WalkMoves DEF Moves

(* Every decision still hangs on the request of its call.                  *)
LEMMA DecidingKept == ASSUME WalkStep PROVE Deciding'
<1>1. /\ trace' = trace /\ Answering /\ Echoing /\ Deciding /\ ScheduleSound
      /\ DOMAIN log = 1..Len(log) /\ Len(log) \in Nat /\ Len(trace) \in Nat
  BY WalkFacts
<1>2. ASSUME Extends(log, log')
      PROVE  \A r \in DOMAIN log : r \in DOMAIN log' /\ log'[r] = log[r]
  BY <1>1, <1>2, SeqFacts DEF Extends
<1>3. ASSUME NEW p \in DOMAIN log, log[p].type = "decision.recorded", Extends(log, log')
      PROVE  \E r \in DOMAIN log' :
               log[p].parents = {r} /\ Requested(log'[r]) /\ SameCall(log'[r], log[p])
  <2>1. PICK r \in DOMAIN log :
          log[p].parents = {r} /\ Requested(log[r]) /\ SameCall(log[r], log[p])
    BY <1>1, <1>3 DEF Deciding
  <2>2. r \in DOMAIN log' /\ log'[r] = log[r]
    BY <1>2, <1>3
  <2> QED
    BY <2>1, <2>2
<1>4. ASSUME Extends(log, log'),
             \A p \in DOMAIN log' : p \in DOMAIN log \/ log'[p].type # "decision.recorded"
      PROVE  Deciding'
  BY <1>2, <1>3, <1>4 DEF Deciding, Requested, SameCall
<1>5. CASE Passes \/ BreaksOff \/ CallsAgain \/ Performs
  <2>1. log' = log
    BY <1>5 DEF Passes, BreaksOff, CallsAgain, Performs
  <2> QED
    BY <1>1, <2>1 DEF Deciding, Requested, SameCall
<1>6. CASE Copies \/ Hears
  <2>1. PICK e : log' = Append(log, e) /\ e.type # "decision.recorded"
    <3>1. CASE Copies
      BY <3>1 DEF Copies, Entry, Mirrored, Requested, Responded
    <3>2. CASE Hears
      BY <3>2 DEF Hears, Heard, Responded
    <3> QED
      BY <1>6, <3>1, <3>2
  <2>2. Extends(log, log') /\ \A p \in DOMAIN log' : p \in DOMAIN log \/ log'[p] = e
    BY <1>1, <2>1, OneEntryMore
  <2> QED
    BY <1>4, <2>1, <2>2
<1>7. CASE Leaves
  BY <1>4, <1>7 DEF Leaves, Plain
<1>8. CASE Decides
  <2>1. PICK e : /\ log' = Append(log, e) /\ SameCall(e, job.action) /\ e.parents = {job.request}
    BY <1>8 DEF Decides
  <2>2. PICK r : r = job.request
    OBVIOUS
  <2>3. /\ position \in 1..Len(trace) /\ Responded(trace[position])
        /\ r = requests[RequestFor(trace, position)] /\ r # 0
        /\ SameCall(job.action, trace[position])
    BY <1>1, <1>8, <2>2 DEF Decides, Answering, ActsFor
  <2>4. /\ RequestFor(trace, position) \in 1..Len(trace)
        /\ SameCall(trace[position], trace[RequestFor(trace, position)])
    <3>1. Asked(position)
      BY <1>1, <2>3 DEF ScheduleSound
    <3> QED
      BY <1>1, <2>3, <3>1 DEF Asked
  <2>5. Copied(RequestFor(trace, position))
    BY <1>1, <2>3, <2>4, EchoingReads
  <2>6. r \in DOMAIN log /\ Requested(log[r]) /\ SameCall(log[r], e)
    BY <2>1, <2>3, <2>4, <2>5 DEF Copied, SameCall
  <2>7. Extends(log, log') /\ \A p \in DOMAIN log' : p \in DOMAIN log \/ log'[p] = e
    BY <1>1, <2>1, OneEntryMore
  <2>8. r \in DOMAIN log' /\ log'[r] = log[r]
    BY <1>2, <2>6, <2>7
  <2>9. ASSUME NEW p \in DOMAIN log', log'[p].type = "decision.recorded"
        PROVE  \E q \in DOMAIN log' :
                 log'[p].parents = {q} /\ Requested(log'[q]) /\ SameCall(log'[q], log'[p])
    <3>1. CASE p \in DOMAIN log
      <4>1. log'[p] = log[p]
        BY <1>2, <2>7, <3>1
      <4> QED
        BY <1>3, <2>7, <2>9, <3>1, <4>1
    <3>2. CASE log'[p] = e
      BY <2>1, <2>2, <2>6, <2>8, <3>2
    <3> QED
      BY <2>7, <3>1, <3>2
  <2> QED
    BY <2>9 DEF Deciding, Requested, SameCall
<1> QED
  BY <1>5, <1>6, <1>7, <1>8, WalkMoves DEF Moves

(* The executions still answer what the walk has come to, in order.        *)
LEMMA RunningKept == ASSUME WalkStep PROVE Running'
<1>1. /\ trace' = trace /\ UNCHANGED mode /\ Answering /\ Running /\ IsSeq(executed)
      /\ Len(executed) \in Nat /\ Len(trace) \in Nat /\ position \in Nat
      /\ ResumeSequence' = ResumeSequence /\ runStatus = "running"
      /\ position \in (ResumeSequence + 1)..(Len(trace) + 1) /\ ResumeSequence \in 0..Len(trace)
  BY WalkFacts, ResumeStays, SourceStays
<1>2. /\ \A action, i : ActsFor(action, i)' <=> ActsFor(action, i)
      /\ \A i : Behind(i)' <=> Behind(i)
  BY <1>1 DEF ActsFor, CallMode, Behind, SameCall, Responded
<1>3. PICK ran : InOrder(ran)
  BY <1>1 DEF Running
<1> DEFINE Spent == job.step = "returned" \/ halted \/ runStatus # "running"
           Done == job.step = "returned" /\ job.outcome # "blocked"
<1>4. /\ ran \in [1..Len(executed) -> 1..Len(trace)]
      /\ \A k, m \in 1..Len(executed) : k < m => ran[k] < ran[m]
      /\ \A k \in 1..Len(executed) :
           /\ Behind(ran[k]) /\ ran[k] <= position /\ ActsFor(executed[k].action, ran[k])
           /\ ran[k] = position => Spent
      /\ \A i \in 1..Len(trace) :
           (Behind(i) /\ ((i < position /\ issues = {}) \/ (i = position /\ Done)))
             => \E k \in 1..Len(executed) : ran[k] = i
  BY <1>3 DEF InOrder
<1>5. ASSUME executed' = executed, position' \in Nat, position <= position',
             issues \subseteq issues', position' = position /\ Spent => Spent',
             \A i \in 1..Len(trace) :
               Behind(i) /\ position <= i
                 /\ ((i < position' /\ issues' = {}) \/ (i = position' /\ Done'))
               => i = position /\ Done
      PROVE  Running'
  <2>1. issues' = {} => issues = {}
    BY <1>5
  <2>2. ASSUME NEW k \in 1..Len(executed)
        PROVE  ran[k] <= position' /\ (ran[k] = position' => Spent')
    <3>1. ran[k] \in 1..Len(trace) /\ ran[k] <= position /\ (ran[k] = position => Spent)
      BY <1>4
    <3>2. ran[k] \in Nat
      BY <3>1
    <3>3. ran[k] = position' => position' = position
      BY <1>1, <1>5, <3>1, <3>2
    <3>4. ran[k] <= position'
      BY <1>1, <1>5, <3>1, <3>2
    <3> QED
      BY <1>5, <3>1, <3>3, <3>4
  <2>3. ASSUME NEW i \in 1..Len(trace),
               Behind(i) /\ ((i < position' /\ issues' = {}) \/ (i = position' /\ Done'))
        PROVE  \E k \in 1..Len(executed) : ran[k] = i
    <3>1. CASE position <= i
      BY <1>4, <1>5, <2>3, <3>1
    <3>2. CASE ~(position <= i)
      <4>1. i < position /\ i # position'
        BY <1>1, <1>5, <3>2
      <4> QED
        BY <1>4, <2>1, <2>3, <4>1
    <3> QED
      BY <3>1, <3>2
  <2>4. InOrder(ran)'
    BY <1>1, <1>2, <1>4, <1>5, <2>2, <2>3 DEF InOrder
  <2> QED
    BY <2>4 DEF Running
<1>6. CASE Passes \/ Copies
  <2>1. /\ executed' = executed /\ position' = position + 1 /\ issues' = issues
        /\ ~Responded(trace[position]) /\ job'.step = "idle"
    BY <1>6 DEF Passes, Copies, AtWalk, Mirrored
  <2>2. \A i \in 1..Len(trace) : position <= i /\ i < position' => i = position
    BY <1>1, <2>1
  <2>3. ~Behind(position)
    BY <2>1 DEF Behind
  <2>4. position' \in Nat /\ position <= position' /\ position' # position
    BY <1>1, <2>1
  <2> QED
    BY <1>5, <2>1, <2>2, <2>3, <2>4
<1>7. CASE BreaksOff \/ CallsAgain \/ Decides \/ Leaves
  <2>1. /\ executed' = executed /\ position' = position /\ issues \subseteq issues' /\ ~Done'
    BY <1>7 DEF BreaksOff, CallsAgain, Decides, Leaves
  <2>2. Spent => Spent'
    BY <1>7 DEF BreaksOff, CallsAgain, Decides, Leaves, AtWalk
  <2>3. position' \in Nat /\ position <= position'
        /\ \A i \in 1..Len(trace) : ~(position <= i /\ i < position')
    BY <1>1, <2>1
  <2> QED
    BY <1>5, <2>1, <2>2, <2>3
<1>8. CASE Hears
  <2>1. /\ executed' = executed /\ issues \subseteq issues' /\ ~Done' /\ job.step = "returned"
        /\ (issues' = {} => Done)
        /\ \/ position' = position + 1
           \/ position' = position /\ halted'
    BY <1>8 DEF Hears
  <2>2. /\ position' \in Nat /\ position <= position'
        /\ \A i \in 1..Len(trace) : position <= i /\ i < position' => i = position
    BY <1>1, <2>1
  <2>3. position' = position => Spent'
    BY <1>1, <2>1
  <2> QED
    BY <1>5, <2>1, <2>2, <2>3
<1>9. CASE Performs
  <2> DEFINE latest == Execution(job'.outcome)
  <2>1. /\ executed' = Append(executed, latest) /\ latest.action = job.action
        /\ position' = position /\ issues' = issues /\ job'.step = "returned" /\ ~Spent
        /\ ActsFor(job.action, position) /\ Behind(position)
    <3>1. /\ job.step = "operating" /\ ~halted /\ position \in 1..Len(trace)
          /\ Responded(trace[position]) /\ ActsFor(job.action, position)
      BY <1>1, <1>9 DEF Performs, Answering
    <3>2. Behind(position)
      BY <1>1, <3>1 DEF Behind
    <3> QED
      BY <1>1, <1>9, <3>1, <3>2 DEF Performs, Execution
  <2> HIDE DEF latest
  <2>2. PICK n, here : n = Len(executed) /\ here = position
    OBVIOUS
  <2>3. /\ Len(executed') = n + 1 /\ executed'[n + 1] = latest
        /\ \A k \in 1..n : executed'[k] = executed[k]
    BY <1>1, <2>1, <2>2, AppendFacts
  <2>4. here \in 1..Len(trace) /\ here \in Nat /\ n \in Nat
    BY <1>1, <2>1, <2>2 DEF Behind
  <2>5. \A k \in 1..n : ran[k] \in 1..Len(trace) /\ ran[k] < here
    <3>1. ASSUME NEW k \in 1..n PROVE ran[k] \in 1..Len(trace) /\ ran[k] < here
      <4>1. ran[k] \in 1..Len(trace) /\ ran[k] <= here /\ ran[k] # here
        BY <1>4, <2>1, <2>2
      <4> QED
        BY <2>4, <4>1
    <3> QED
      BY <3>1
  <2> DEFINE more == [k \in 1..(n + 1) |-> IF k = n + 1 THEN here ELSE ran[k]]
  <2>6. /\ \A k \in 1..n : more[k] = ran[k]
        /\ more[n + 1] = here /\ \A k \in 1..(n + 1) : k \in 1..n \/ k = n + 1
        /\ \A k \in 1..n : k \in 1..(n + 1)
    BY <2>4
  <2>7. more \in [1..(n + 1) -> 1..Len(trace)]
    <3>1. ASSUME NEW k \in 1..(n + 1) PROVE (IF k = n + 1 THEN here ELSE ran[k]) \in 1..Len(trace)
      BY <2>4, <2>5, <2>6, <3>1
    <3> QED
      BY <3>1
  <2> HIDE DEF more
  <2>8. ASSUME NEW k \in 1..(n + 1), NEW m \in 1..(n + 1), k < m PROVE more[k] < more[m]
    <3>1. k \in 1..n
      BY <2>4, <2>8
    <3> QED
      BY <1>4, <2>2, <2>5, <2>6, <2>8, <3>1
  <2>9. ASSUME NEW k \in 1..(n + 1)
        PROVE  Behind(more[k]) /\ more[k] <= here /\ ActsFor(executed'[k].action, more[k])
    <3>1. CASE k \in 1..n
      BY <1>4, <2>2, <2>3, <2>6, <3>1
    <3>2. CASE k = n + 1
      BY <2>1, <2>2, <2>3, <2>4, <2>6, <3>2
    <3> QED
      BY <2>6, <3>1, <3>2
  <2>10. ASSUME NEW i \in 1..Len(trace),
                Behind(i) /\ ((i < here /\ issues' = {}) \/ i = here)
         PROVE  \E k \in 1..(n + 1) : more[k] = i
    <3>1. CASE i = here
      BY <2>4, <2>6, <3>1
    <3>2. CASE i < here /\ issues' = {}
      <4>1. PICK k \in 1..n : ran[k] = i
        BY <1>4, <2>1, <2>2, <2>10, <3>2
      <4> QED
        BY <2>6, <4>1
    <3> QED
      BY <2>10, <3>1, <3>2
  <2>11. InOrder(more)'
    BY <1>1, <1>2, <2>1, <2>2, <2>3, <2>7, <2>8, <2>9, <2>10 DEF InOrder
  <2> QED
    BY <2>11 DEF Running
<1> QED
  BY <1>6, <1>7, <1>8, <1>9, WalkMoves DEF Moves

(* Executions and responses still go together.                             *)
LEMMA RecallingKept == ASSUME WalkStep PROVE Recalling'
<1> SUFFICES ASSUME runStatus' \in {"running", "completed"}, issues' = {} PROVE Recalls'
  BY DEF Recalling
<1>1. /\ Answering /\ IsSeq(executed) /\ Len(executed) \in Nat /\ Len(log) \in Nat
      /\ DOMAIN log = 1..Len(log) /\ IsSeq(log) /\ runStatus = "running"
      /\ Len(trace) \in Nat /\ position \in Nat
  BY WalkFacts
<1>2. /\ issues = {}
      /\ \/ Passes \/ Copies \/ CallsAgain \/ Decides \/ Leaves
         \/ Performs \/ Hears
  <2>1. Moves
    BY WalkMoves
  <2>2. ~BreaksOff
    BY DEF BreaksOff
  <2>3. issues \subseteq issues'
    BY <2>1, <2>2 DEF Moves, Passes, Copies, CallsAgain, Decides, Performs, Hears, Leaves
  <2> QED
    BY <2>1, <2>2, <2>3 DEF Moves
<1>3. Recalls
  BY <1>1, <1>2 DEF WalkStep, Walked, Recalling
<1> DEFINE n == Len(executed)
           m == Len(log)
<1>4. /\ \A k \in 1..n : executed[k].after \in 1..m
      /\ \A k, l \in 1..n : k < l => executed[k].after < executed[l].after
      /\ \A k \in 1..n : Voiced(executed[k], log) \/ Unvoiced(k)
      /\ \A p \in 1..m : Responded(log[p]) => \E k \in 1..n : executed[k].after + 1 = p
      /\ job.step \in {"operating", "returned"} => log[m].parents = {job.request}
      /\ job.step = "returned" /\ job.outcome # "blocked" => n # 0 /\ Unvoiced(n)
  BY <1>3 DEF Recalls
<1>5. ASSUME NEW list, NEW run, Voiced(run, log), run.after \in 1..m, Len(list) \in Nat,
             m <= Len(list), \A p \in 1..m : list[p] = log[p]
      PROVE  Voiced(run, list)
  <2>1. run.after + 1 \in 1..m /\ run.after \in 1..m
    BY <1>5 DEF Voiced
  <2>2. list[run.after + 1] = log[run.after + 1] /\ list[run.after] = log[run.after]
    BY <1>5, <2>1
  <2>3. run.after + 1 \in 1..Len(list)
    BY <1>1, <1>5, <2>1
  <2> QED
    BY <1>5, <2>2, <2>3 DEF Voiced
<1>6. ASSUME executed' = executed, Extends(log, log'),
             \A p \in DOMAIN log' : p \in DOMAIN log \/ ~Responded(log'[p]),
             job.step # "returned",
             job'.step \in {"operating", "returned"} => log'[Len(log')].parents = {job'.request},
             job'.step = "returned" => job'.outcome = "blocked"
      PROVE  Recalls'
  <2>1. /\ DOMAIN log' = 1..Len(log') /\ Len(log') \in Nat /\ m <= Len(log')
        /\ \A p \in 1..m : log'[p] = log[p]
    BY <1>1, <1>6, SeqFacts DEF Extends
  <2>2. ASSUME NEW k \in 1..n
        PROVE  executed[k].after \in 1..Len(log') /\ Voiced(executed[k], log')
    <3>1. Voiced(executed[k], log) /\ executed[k].after \in 1..m
      BY <1>4, <1>6 DEF Unvoiced
    <3>2. executed[k].after \in 1..Len(log')
      BY <1>1, <2>1, <3>1
    <3> QED
      BY <1>5, <2>1, <3>1, <3>2
  <2>3. ASSUME NEW p \in 1..Len(log'), Responded(log'[p])
        PROVE  \E k \in 1..n : executed[k].after + 1 = p
    <3>1. p \in 1..m /\ log'[p] = log[p]
      BY <1>1, <1>6, <2>1, <2>3
    <3> QED
      BY <1>4, <2>3, <3>1
  <2> QED
    BY <1>4, <1>6, <2>2, <2>3 DEF Recalls, Voiced, Responded
<1>7. CASE Passes \/ CallsAgain
  <2>1. /\ executed' = executed /\ log' = log /\ job.step = "idle"
        /\ job'.step \notin {"operating", "returned"}
    BY <1>7 DEF Passes, CallsAgain, AtWalk
  <2>2. Extends(log, log') /\ DOMAIN log' = DOMAIN log
    BY <1>1, <2>1, SeqFacts
  <2> QED
    BY <1>6, <2>1, <2>2
<1>8. CASE Leaves
  <2>1. /\ executed' = executed /\ job'.step = "idle" /\ position > Len(trace)
        /\ Extends(log, log') /\ \A p \in DOMAIN log' : p \in DOMAIN log \/ Plain(log'[p])
    BY <1>1, <1>8 DEF Leaves
  <2>2. job.step # "returned"
    BY <1>1, <2>1 DEF Answering
  <2> QED
    BY <1>6, <2>1, <2>2 DEF Plain, Mirrored, Extends
<1>9. CASE Copies \/ Decides
  <2>1. PICK e : /\ log' = Append(log, e) /\ ~Responded(e)
                 /\ Decides => e.parents = {job.request}
    <3>1. CASE Decides
      BY <3>1 DEF Decides, Responded
    <3>2. CASE Copies
      <4>1. ~Decides
        BY <3>2 DEF Copies, Decides, AtWalk
      <4> QED
        BY <3>2, <4>1 DEF Copies, Entry, Responded
    <3> QED
      BY <1>9, <3>1, <3>2
  <2>2. /\ Extends(log, log') /\ DOMAIN log' = 1..(m + 1) /\ Len(log') = m + 1
        /\ log'[m + 1] = e
    BY <2>1, OneEntryMore
  <2>3. \A p \in DOMAIN log' : p \in DOMAIN log \/ log'[p] = e
    BY <1>1, <2>2
  <2>4. /\ executed' = executed /\ job.step # "returned"
        /\ job'.step \in {"operating", "returned"} => Decides /\ job'.request = job.request
        /\ job'.step = "returned" => job'.outcome = "blocked"
    BY <1>9 DEF Copies, Decides, AtWalk, SameJob
  <2> QED
    BY <1>6, <2>1, <2>2, <2>3, <2>4
<1>10. CASE Performs
  <2> DEFINE latest == Execution(job'.outcome)
  <2>1. /\ executed' = Append(executed, latest) /\ latest.after = m
        /\ latest.outcome = job'.outcome
    BY <1>10 DEF Performs, Execution
  <2>2. /\ log' = log /\ job.step = "operating" /\ job'.step = "returned"
        /\ job'.request = job.request
    BY <1>10 DEF Performs, SameJob
  <2> HIDE DEF latest
  <2>3. /\ Len(executed') = n + 1 /\ executed'[n + 1] = latest
        /\ \A k \in 1..n : executed'[k] = executed[k]
    BY <1>1, <2>1, AppendFacts DEF Extends
  <2>4. m \in 1..m
    BY <1>1, <2>2 DEF Answering
  <2>5. \A k \in 1..n : /\ Voiced(executed[k], log) /\ executed[k].after \in 1..m
                         /\ executed[k].after < m
    <3>1. ASSUME NEW k \in 1..n
          PROVE  /\ Voiced(executed[k], log) /\ executed[k].after \in 1..m
                 /\ executed[k].after < m
      <4>1. Voiced(executed[k], log) /\ executed[k].after \in 1..m
        BY <1>4, <2>2 DEF Unvoiced
      <4>2. executed[k].after + 1 \in 1..m
        BY <4>1 DEF Voiced
      <4> QED
        BY <1>1, <4>1, <4>2
    <3> QED
      BY <3>1
  <2>6. \A k \in 1..(n + 1) : k \in 1..n \/ k = n + 1
    BY <1>1
  <2>7. ASSUME NEW k, k = n + 1 PROVE Unvoiced(k)'
    BY <2>1, <2>2, <2>3, <2>7 DEF Unvoiced
  <2>8. \A k \in 1..(n + 1) : executed'[k].after \in 1..m
    BY <2>1, <2>3, <2>4, <2>5, <2>6
  <2>9. ASSUME NEW k \in 1..(n + 1), NEW l \in 1..(n + 1), k < l
        PROVE  executed'[k].after < executed'[l].after
    <3>1. k \in 1..n
      BY <1>1, <2>9
    <3>2. CASE l \in 1..n
      BY <1>4, <2>3, <2>9, <3>1, <3>2
    <3>3. CASE l = n + 1
      BY <2>1, <2>3, <2>5, <3>1, <3>3
    <3> QED
      BY <2>6, <3>2, <3>3
  <2>10. \A k \in 1..(n + 1) : Voiced(executed'[k], log) \/ Unvoiced(k)'
    <3>1. ASSUME NEW k \in 1..(n + 1) PROVE Voiced(executed'[k], log) \/ Unvoiced(k)'
      <4>1. CASE k \in 1..n
        BY <2>3, <2>5, <4>1
      <4>2. CASE k = n + 1
        BY <2>7, <4>2
      <4> QED
        BY <2>6, <4>1, <4>2
    <3> QED
      BY <3>1
  <2>11. \A p \in 1..m : Responded(log[p]) => \E k \in 1..(n + 1) : executed'[k].after + 1 = p
    <3>1. ASSUME NEW p \in 1..m, Responded(log[p])
          PROVE  \E k \in 1..(n + 1) : executed'[k].after + 1 = p
      <4>1. PICK k \in 1..n : executed[k].after + 1 = p
        BY <1>4, <3>1
      <4>2. k \in 1..(n + 1) /\ executed'[k] = executed[k]
        BY <1>1, <2>3
      <4> QED
        BY <4>1, <4>2
    <3> QED
      BY <3>1
  <2>12. Len(executed') # 0 /\ Unvoiced(Len(executed))'
    BY <1>1, <2>1, <2>2, <2>3 DEF Unvoiced
  <2> QED
    BY <1>4, <2>2, <2>3, <2>8, <2>9, <2>10, <2>11, <2>12 DEF Recalls, Voiced, Responded
<1>11. CASE Hears
  <2>1. PICK e : log' = Append(log, e) /\ Responded(e) /\ e.parents = {job.request}
                 /\ e.value = job.outcome
    BY <1>11 DEF Hears, Heard
  <2>2. /\ executed' = executed /\ job.step = "returned" /\ job'.step = "idle"
        /\ job.outcome # "blocked"
    BY <1>11 DEF Hears
  <2>3. /\ DOMAIN log' = 1..(m + 1) /\ Len(log') = m + 1 /\ log'[m + 1] = e
        /\ \A p \in 1..m : log'[p] = log[p]
    BY <2>1, OneEntryMore
  <2>4. /\ n # 0 /\ n \in 1..n /\ executed[n].after = m /\ executed[n].outcome = job.outcome
        /\ log[m].parents = {job.request} /\ m \in 1..m
    BY <1>1, <1>4, <2>2 DEF Unvoiced
  <2>5. ASSUME NEW k \in 1..n PROVE Voiced(executed[k], log')
    <3>1. CASE Voiced(executed[k], log)
      <4>1. executed[k].after \in 1..m /\ Len(log') \in Nat /\ m <= Len(log')
        BY <1>1, <1>4, <2>3
      <4> QED
        BY <1>5, <2>3, <3>1, <4>1
    <3>2. CASE Unvoiced(k)
      <4>1. k = n
        BY <3>2 DEF Unvoiced
      <4>2. log'[m + 1] = e /\ log'[m] = log[m] /\ m + 1 \in 1..Len(log')
        BY <1>1, <2>3, <2>4
      <4> QED
        BY <2>1, <2>4, <4>1, <4>2 DEF Voiced
    <3> QED
      BY <1>4, <3>1, <3>2
  <2>6. \A k \in 1..n : executed[k].after \in 1..(m + 1)
    BY <1>1, <1>4
  <2>7. ASSUME NEW p \in 1..(m + 1), Responded(log'[p])
        PROVE  \E k \in 1..n : executed[k].after + 1 = p
    <3>1. CASE p = m + 1
      BY <2>4, <3>1
    <3>2. CASE p \in 1..m
      BY <1>4, <2>3, <2>7, <3>2
    <3> QED
      BY <1>1, <3>1, <3>2
  <2> QED
    BY <1>4, <2>2, <2>3, <2>5, <2>6, <2>7 DEF Recalls, Voiced, Responded
<1> QED
  BY <1>2, <1>7, <1>8, <1>9, <1>10, <1>11

(* Only the step a run ends with completes it.                             *)
LEMMA RestoredKept == ASSUME WalkStep PROVE Restored'
<1>1. runStatus = "running"
  BY WalkFacts
<1>2. CASE Leaves
  BY <1>2 DEF Leaves, Restored
<1>3. CASE ~Leaves
  <2>1. runStatus' = runStatus
    BY <1>3, WalkMoves
       DEF Moves, Passes, Copies, BreaksOff, CallsAgain, Decides, Performs, Hears
  <2> QED
    BY <1>1, <2>1 DEF Restored
<1> QED
  BY <1>2, <1>3

(* So the walk stays what it is.                                           *)
LEMMA WalkedKept == ASSUME WalkStep PROVE Walked'
BY StandingKept, AnsweringKept, EchoingKept, DecidingKept, RunningKept, RecallingKept, RestoredKept
   DEF Walked

-----------------------------------------------------------------------------
(* A run whose log holds nothing but plain events has nothing to echo.     *)
LEMMA PlainLog ==
  ASSUME NEW m \in Nat, DOMAIN log = 1..m, \A p \in 1..m : Plain(log[p]),
         ResumeSequence \in Nat, position = ResumeSequence + 1,
         requests = [i \in 1..Len(trace) |-> 0]
  PROVE  Echoing /\ Deciding
<1>1. Seen = {}
  <2>1. ASSUME NEW i \in 1..Len(trace), ResumeSequence < i, i < position PROVE FALSE
    <3>1. i \in Nat
      OBVIOUS
    <3> QED
      BY <2>1, <3>1
  <2> QED
    BY <2>1 DEF Seen
<1>2. Entries = {}
  BY DEF Entries, Plain
<1>3. Echoes([i \in {} |-> 0])
  BY <1>1, <1>2 DEF Echoes, InStep
<1>4. Deciding
  BY DEF Deciding, Plain
<1> QED
  BY <1>3, <1>4 DEF Echoing

(* A run at its start.                                                     *)
PlainRun ==
  /\ \E m \in Nat : DOMAIN log = 1..m /\ \A p \in 1..m : Plain(log[p])
  /\ ResumeSequence \in Nat /\ position = ResumeSequence + 1
  /\ requests = [i \in 1..Len(trace) |-> 0]

(* A run that is plain after a step has nothing to echo then.              *)
LEMMA PlainLogNext == PlainRun' => (Echoing /\ Deciding)'
<1>1. PlainRun => Echoing /\ Deciding
  BY PlainLog DEF PlainRun
<1> QED
  BY <1>1, PTL

(* The events a run starts with.                                           *)
LEMMA PlainStarts ==
  ASSUME NEW s, s \in {<<RunEvent("run.started", {})>>,
                       <<RunEvent("run.started", {}), RunEvent("checkpoint.created", {1})>>}
  PROVE  \E m \in Nat : DOMAIN s = 1..m /\ \A p \in 1..m : Plain(s[p])
<1>1. Plain(RunEvent("run.started", {})) /\ Plain(RunEvent("checkpoint.created", {1}))
  BY DEF RunEvent, Plain, Mirrored, Requested, Responded
<1>2. ASSUME NEW a, NEW b, Plain(a), Plain(b), s = <<a>> \/ s = <<a, b>>
      PROVE  \E m \in Nat : DOMAIN s = 1..m /\ \A p \in 1..m : Plain(s[p])
  <2>1. CASE s = <<a>>
    <3>1. DOMAIN s = 1..1 /\ s[1] = a
      BY <2>1
    <3> QED
      BY <1>2, <3>1
  <2>2. CASE s = <<a, b>>
    <3>1. DOMAIN s = 1..2 /\ s[1] = a /\ s[2] = b
      BY <2>2
    <3>2. 2 \in Nat /\ \A p \in 1..2 : p = 1 \/ p = 2
      OBVIOUS
    <3> QED
      BY <1>2, <3>1, <3>2
  <2> QED
    BY <1>2, <2>1, <2>2
<1> QED
  BY <1>1, <1>2

(* A runner that starts is refused its source, or sets out on it.          *)
LEMMA StartWalks ==
  ASSUME TraceInv, SavedInv, RunnerInv, WalkInv, runStatus = "none",
         UNCHANGED <<mode, snapshotVars, semanticVars>>,
         (mode = "mock" /\ StartMock) \/ (mode = "verified" /\ StartVerified)
  PROVE  Unwalked' \/ Walked'
<1>1. /\ job = Idle /\ executed = <<>> /\ halted = FALSE /\ issues = {} /\ resume \in Nat
      /\ mode \in {"mock", "verified"} /\ (mode # "verified" => resume = 0)
      /\ DOMAIN trace = 1..Len(trace) /\ Len(trace) \in Nat
      /\ DOMAIN saved = 1..Len(saved) /\ Len(saved) \in Nat
      /\ \A i \in 1..Len(saved) : saved[i].sequence \in 1..Len(trace)
  BY SeqFacts DEF RunnerInv, WalkInv, SavedInv, TraceInv
<1>2. UNCHANGED <<job, executed>>
  BY DEF StartMock, StartVerified
<1>3. ASSUME NEW faults, RefuseSource(faults) PROVE Unwalked'
  BY <1>1, <1>2, <1>3 DEF RefuseSource, FailAtStart, Unwalked
<1>4. ASSUME NEW from, EnterLoop(from), from = ResumeSequence, SourceFaults = {},
             runStatus' = "running", ResumeSequence \in 0..Len(trace),
             log' \in {<<RunEvent("run.started", {})>>,
                       <<RunEvent("run.started", {}), RunEvent("checkpoint.created", {1})>>}
      PROVE  Walked'
  <2>1. Executable /\ ScheduleFaults(Events) = {}
    <3>1. Valid
      BY <1>4 DEF SourceFaults
    <3>2. ~ObservationOnly
      BY <1>4 DEF SourceFaults
    <3>3. ScheduleFaults(Events) = {}
      BY <1>4, <3>1 DEF SourceFaults
    <3> QED
      BY <3>1, <3>2, <3>3 DEF Executable
  <2>2. Events = trace
    BY <2>1, ExecutableWhole
  <2>3. /\ position' = ResumeSequence + 1 /\ requests' = [i \in 1..Len(trace) |-> 0]
        /\ UNCHANGED <<resume, halted, issues, differences>>
    BY <1>1, <1>4, <2>2 DEF EnterLoop
  <2>4. Sourced
    BY <1>1, <1>4, <2>1, <2>2 DEF Sourced
  <2>5. Sourced' /\ trace' = trace /\ ResumeSequence' = ResumeSequence
    BY <2>3, <2>4, SourceStays
  <2>6. job' = Idle /\ job'.step = "idle" /\ executed' = <<>> /\ Len(executed') = 0
    BY <1>1, <1>2 DEF Idle
  <2>7. Standing'
    <3>1. ResumeSequence + 1 \in (ResumeSequence + 1)..(Len(trace) + 1)
      BY <1>1, <1>4
    <3> QED
      BY <1>1, <1>4, <2>3, <2>5, <3>1 DEF Standing
  <2>8. Answering' /\ Restored'
    BY <1>4, <2>6 DEF Answering, Restored
  <2>9. PlainRun'
    <3>1. \E m \in Nat : DOMAIN log' = 1..m /\ \A p \in 1..m : Plain(log'[p])
      BY <1>4, PlainStarts
    <3> QED
      BY <1>1, <1>4, <2>3, <2>5, <3>1 DEF PlainRun, Plain, Mirrored, Requested, Responded
  <2>10. Echoing' /\ Deciding'
    BY <2>9, PlainLogNext
  <2>11. Running'
    <3>1. ~\E i \in 1..Len(trace) : ResumeSequence < i /\ i < ResumeSequence + 1
      BY <1>4
    <3>2. InOrder(<<>>)'
      BY <2>3, <2>5, <2>6, <3>1 DEF InOrder, Behind, Responded
    <3> QED
      BY <3>2 DEF Running
  <2>12. Recalling'
    <3>1. PICK m \in Nat : DOMAIN log' = 1..m /\ \A p \in 1..m : Plain(log'[p])
      BY <1>4, PlainStarts
    <3>2. DOMAIN log' = 1..Len(log')
      BY <1>4
    <3>3. \A p \in 1..Len(log') : ~Responded(log'[p])
      BY <3>1, <3>2 DEF Plain, Mirrored
    <3> QED
      BY <2>6, <3>3 DEF Recalling, Recalls, Responded
  <2> QED
    BY <2>5, <2>7, <2>8, <2>10, <2>11, <2>12 DEF Walked
<1>5. CASE mode = "mock" /\ StartMock
  <2>1. ResumeSequence = 0
    BY <1>1, <1>5 DEF ResumeSequence
  <2>2. CASE SourceFaults = {} /\ PlanFaults = {}
    <3>1. EnterLoop(0) /\ runStatus' = "running" /\ log' = <<RunEvent("run.started", {})>>
      BY <1>5, <2>2 DEF StartMock, StartRun
    <3> QED
      BY <1>1, <1>4, <2>1, <2>2, <3>1
  <2>3. CASE ~(SourceFaults = {} /\ PlanFaults = {})
    <3>1. \E faults : RefuseSource(faults)
      BY <1>5, <2>3 DEF StartMock
    <3> QED
      BY <1>3, <3>1
  <2> QED
    BY <2>2, <2>3
<1>6. CASE mode = "verified" /\ StartVerified
  <2>1. CASE ResumeFaults = {} /\ SourceFaults = {}
    <3>1. /\ EnterLoop(ResumeSequence) /\ runStatus' = "running"
          /\ log' = IF resume = 0 THEN <<RunEvent("run.started", {})>>
                    ELSE <<RunEvent("run.started", {}), RunEvent("checkpoint.created", {1})>>
      BY <1>6, <2>1 DEF StartVerified
    <3>2. ResumeSequence \in 0..Len(trace)
      <4>1. CASE resume = 0
        BY <1>1, <4>1 DEF ResumeSequence
      <4>2. CASE resume # 0
        <5>1. ~(resume > Len(saved))
          BY <2>1, <4>2 DEF ResumeFaults
        <5>2. resume \in 1..Len(saved)
          BY <1>1, <4>2, <5>1
        <5> QED
          BY <1>1, <4>2, <5>2 DEF ResumeSequence
      <4> QED
        BY <4>1, <4>2
    <3> QED
      BY <1>4, <2>1, <3>1, <3>2
  <2>2. CASE ~(ResumeFaults = {} /\ SourceFaults = {})
    <3>1. \E faults : RefuseSource(faults)
      BY <1>6, <2>2 DEF StartVerified
    <3> QED
      BY <1>3, <3>1
  <2> QED
    BY <2>1, <2>2
<1> QED
  BY <1>5, <1>6

(* A walk that nothing happens to.                                         *)
LEMMA WalkedStays ==
  ASSUME UNCHANGED vars, Unwalked \/ Walked PROVE Unwalked' \/ Walked'
<1>1. /\ UNCHANGED <<mode, snapshotVars, resume, position, requests, halted, issues, differences>>
      /\ UNCHANGED <<runStatus, log, job, executed>>
  BY DEF vars, policyVars, replayVars
<1>2. /\ trace' = trace /\ Checkpoints' = Checkpoints /\ ResumeSequence' = ResumeSequence
      /\ Sourced => Sourced'
  BY <1>1, SourceStays
<1>3. /\ Unwalked => Unwalked'
      /\ Standing => Standing'
  BY <1>1, <1>2 DEF Unwalked, Standing
<1>4. Answering => Answering'
  BY <1>1, <1>2 DEF Answering, ActsFor, CallMode, Responded, SameCall
<1>5. ASSUME Echoing PROVE Echoing'
  <2>1. Seen' = Seen /\ Entries' = Entries
    BY <1>1, <1>2 DEF Seen, Entries, Mirrored, Requested, Responded
  <2>2. \A i : Copied(i) => Copied(i)'
    BY <1>1, <1>2, <2>1 DEF Copied, Requested, SameCall
  <2>3. \A i, p : Echoed(i, p) => Echoed(i, p)'
    BY <1>1, <1>2 DEF Echoed, EchoedAnswer, Entry, Requested, Responded, SameCall
  <2>4. \A at : Echoes(at) => Echoes(at)'
    BY <2>1, <2>3 DEF Echoes
  <2> QED
    BY <1>1, <1>2, <1>5, <2>2, <2>4, EchoingReads, EchoingReadsNext
<1>6. Deciding => Deciding'
  BY <1>1 DEF Deciding, Requested, SameCall
<1>7. Running => Running'
  BY <1>1, <1>2 DEF Running, InOrder, Behind, ActsFor, CallMode, Responded, SameCall
<1>8. Restored => Restored'
  BY <1>1, <1>2 DEF Restored
<1>9. Recalling => Recalling'
  BY <1>1 DEF Recalling, Recalls, Voiced, Unvoiced, Responded
<1> QED
  BY <1>2, <1>3, <1>4, <1>5, <1>6, <1>7, <1>8, <1>9 DEF Walked

(* A runner that is not at work can only start.                            *)
LEMMA OnlyStarts ==
  ASSUME runStatus # "running"
  PROVE  (MockStep => StartMock) /\ (VerifiedStep => StartVerified) /\ ~AppendRefused
<1>1. ~MirrorState /\ ~MirrorRequest /\ ~PassEvent /\ ~SubmitRecorded /\ ~SubmitLive
  BY DEF MirrorState, MirrorRequest, PassEvent, SubmitRecorded, SubmitLive, AtEvent
<1>2. /\ ~RecordDecision /\ ~OperateRecorded /\ ~OperateLive /\ ~MockAnswered /\ ~LiveAnswered
  BY DEF RecordDecision, OperateRecorded, OperateLive, Operate, MockAnswered, LiveAnswered
<1>3. ~FinishMock /\ ~MirrorThrows /\ ~FinishVerified /\ ~AppendRefused
  BY DEF FinishMock, MirrorThrows, FinishVerified, AppendRefused, RecorderRefuses, LoopLeft
<1> QED
  BY <1>1, <1>2, <1>3 DEF MockStep, VerifiedStep

(* Before the first step, there is no walk.                                *)
LEMMA WalkStarts == ASSUME Init PROVE WalkInv /\ CallsKnown /\ SavedInv
<1>1. mode = "none" /\ trace = <<>> /\ saved = <<>> /\ resume = 0 /\ halted = FALSE
      /\ issues = {} /\ differences = {}
  BY DEF Init, SnapshotInit, ReplayInit
<1>2. Len(<<>>) = 0 /\ <<>> \in Seq({}) /\ DOMAIN <<>> = {}
  OBVIOUS
<1> QED
  BY <1>1, <1>2 DEF WalkInv, CallsKnown, SavedInv, IsSeq, TraceRunner

(* Whatever happens in a session.                                          *)
LEMMA WalkKept ==
  ASSUME SessionInv, SavedInv, CallsKnown, WalkInv, [Next]_vars PROVE WalkInv'
<1>1. TraceInv /\ PolicyInv /\ RunnerInv /\ mode \in {"none", "semantic", "mock", "verified"}
      /\ (mode = "none" => runStatus = "none") /\ DOMAIN saved = 1..Len(saved) /\ Len(saved) \in Nat
  BY SeqFacts DEF SessionInv, RunnerInv, SavedInv
<1>2. CASE /\ mode \in {"mock", "verified"} /\ UNCHANGED <<mode, snapshotVars, semanticVars>>
           /\ (mode = "mock" /\ MockStep) \/ (mode = "verified" /\ VerifiedStep) \/ AppendRefused
  <2>1. runStatus' # "none"
    BY <1>2, TraceRuns
  <2>2. Unwalked' \/ Walked'
    <3>1. CASE runStatus = "running"
      <4>1. Walked
        BY <1>2, <3>1 DEF WalkInv, TraceRunner, Unwalked
      <4>2. WalkStep
        BY <1>1, <1>2, <3>1, <4>1 DEF WalkStep, TraceRunner
      <4> QED
        BY <4>2, WalkedKept
    <3>2. CASE runStatus # "running"
      <4>1. (mode = "mock" /\ StartMock) \/ (mode = "verified" /\ StartVerified)
        BY <1>2, <3>2, OnlyStarts
      <4>2. runStatus = "none"
        BY <4>1 DEF StartMock, StartVerified, StartRun, RefuseSource, FailAtStart
      <4> QED
        BY <1>1, <1>2, <4>1, <4>2, StartWalks
    <3> QED
      BY <3>1, <3>2
  <2> QED
    BY <2>1, <2>2 DEF WalkInv
<1>3. CASE /\ mode = "none" /\ RecordSnapshot
           /\ UNCHANGED <<mode, policyVars, semanticVars, replayVars>>
  BY <1>3 DEF WalkInv, TraceRunner, policyVars, replayVars
<1>4. CASE NewRunner
  <2>1. mode = "none" /\ runStatus = "none" /\ runStatus' = "none"
    BY <1>1, <1>4 DEF NewRunner, policyVars
  <2>2. /\ halted = FALSE /\ issues = {} /\ differences = {} /\ resume = 0
    BY <2>1 DEF WalkInv
  <2>3. UNCHANGED <<halted, issues, differences>>
    BY <1>4 DEF NewRunner, NewMockRunner, NewVerifiedRunner, replayVars
  <2>4. resume' \in Nat /\ (mode' # "verified" => resume' = 0)
    <3>1. CASE resume' = resume
      BY <2>2, <3>1
    <3>2. CASE mode' = "verified" /\ resume' \in 0..(Len(saved) + 1)
      BY <1>1, <3>2
    <3> QED
      BY <1>4, <3>1, <3>2 DEF NewRunner, NewMockRunner, NewVerifiedRunner, replayVars
  <2> QED
    BY <2>1, <2>2, <2>3, <2>4 DEF WalkInv
<1>5. CASE mode = "semantic" /\ UNCHANGED mode
  BY <1>5 DEF WalkInv, TraceRunner
<1>6. CASE UNCHANGED vars
  <2>1. /\ UNCHANGED <<mode, resume, halted, issues, differences, runStatus>>
    BY <1>6 DEF vars, policyVars, replayVars
  <2>2. CASE TraceRunner /\ runStatus # "none"
    BY <1>6, <2>1, <2>2, WalkedStays DEF WalkInv
  <2>3. CASE ~(TraceRunner /\ runStatus # "none")
    BY <2>1, <2>3 DEF WalkInv, TraceRunner
  <2> QED
    BY <2>2, <2>3
<1> QED
  BY <1>1, <1>2, <1>3, <1>4, <1>5, <1>6, Zenon DEF Next, RunnerStep

-----------------------------------------------------------------------------
(* What a completed replay has recorded of the event i of its source: a    *)
(* request is asked for again, and a response hangs on the new request.    *)
Returned(i, at) ==
  /\ at[i] \in Entries /\ SameCall(log[at[i]], trace[i])
  /\ Requested(log[at[i]]) <=> Requested(trace[i])
  /\ Responded(log[at[i]]) <=> Responded(trace[i])
  /\ Requested(trace[i]) => ReplayableCall(log[at[i]])
  /\ ~Responded(trace[i]) => Entry(log[at[i]]) = Entry(trace[i])
  /\ Responded(trace[i]) =>
       /\ EchoedAnswer(i, at[i]) /\ RequestFor(trace, i) \in Seen
       /\ Answers(log, at[i], at[RequestFor(trace, i)])
       /\ log[at[i]].parents = {at[RequestFor(trace, i)]}
Returns(at) == InStep(at, Seen, Entries) /\ \A i \in Seen : Returned(i, at)

(* A response that hangs on one earlier request belongs to it.             *)
LEMMA OneRequest ==
  ASSUME NEW events, NEW i, NEW r, r < i, events[i].parents = {r}, ReplayableCall(events[r]),
         r # 0
  PROVE  RequestFor(events, i) = r
<1> DEFINE fit == {p \in events[i].parents : p < i /\ ReplayableCall(events[p])}
<1>1. fit = {r}
  OBVIOUS
<1>2. (CHOOSE p \in {r} : \A q \in {r} : p <= q) \in {r}
      \/ ~\E p \in {r} : \A q \in {r} : p <= q
  OBVIOUS
<1>3. RequestFor(events, i) = IF fit = {} THEN 0 ELSE CHOOSE p \in fit : \A q \in fit : p <= q
  BY DEF RequestFor
<1> QED
  BY <1>1, <1>2, <1>3

(* A completed replay has returned everything behind its resume point.     *)
LEMMA WalkReturns ==
  ASSUME TraceInv, PolicyInv, CallsKnown, Walked, runStatus = "completed"
  PROVE  /\ Seen = {i \in 1..Len(trace) : ResumeSequence < i /\ Mirrored(trace[i])}
         /\ issues = {} /\ position = Len(trace) + 1 /\ Executable /\ Deciding
         /\ Recalls /\ job.step = "idle"
         /\ DOMAIN trace = 1..Len(trace) /\ Len(trace) \in Nat /\ ScheduleSound
         /\ DOMAIN log = 1..Len(log) /\ Len(log) \in Nat /\ ResumeSequence \in Nat
         /\ \E at : Returns(at)
<1>1. /\ DOMAIN trace = 1..Len(trace) /\ Len(trace) \in Nat
      /\ DOMAIN log = 1..Len(log) /\ Len(log) \in Nat
  BY SeqFacts DEF TraceInv, PolicyInv
<1>2. /\ Executable /\ ScheduleFaults(trace) = {} /\ ResumeSequence \in Nat
  BY DEF Walked, Sourced
<1>3. /\ issues = {} /\ position = Len(trace) + 1 /\ ~halted /\ Echoing /\ Deciding
      /\ Recalls /\ job.step = "idle"
  BY DEF Walked, Standing, Recalling
<1>4. ScheduleSound
  BY <1>2, ScheduleReads
<1>5. Seen = {i \in 1..Len(trace) : ResumeSequence < i /\ Mirrored(trace[i])}
  <2>1. \A i \in 1..Len(trace) : i < position
    BY <1>1, <1>3
  <2> QED
    BY <2>1 DEF Seen
<1>6. PICK at : Echoes(at)
  BY <1>3, EchoingReads
<1>7. /\ InStep(at, Seen, Entries) /\ \A i \in Seen : at[i] \in Entries /\ Echoed(i, at[i])
      /\ \A i, j \in Seen : i < j => at[i] < at[j]
  BY <1>6 DEF Echoes, InStep
<1>8. ASSUME NEW i \in Seen PROVE Returned(i, at)
  <2>1. i \in 1..Len(trace) /\ ResumeSequence < i /\ Mirrored(trace[i])
    BY <1>5
  <2>2. at[i] \in Entries /\ Echoed(i, at[i]) /\ at[i] \in 1..Len(log)
    BY <1>1, <1>7 DEF Entries
  <2>3. CASE ~Responded(trace[i])
    <3>1. Entry(log[at[i]]) = Entry(trace[i]) /\ SameCall(log[at[i]], trace[i])
      BY <2>2, <2>3 DEF Echoed
    <3>2. log[at[i]].type = trace[i].type /\ log[at[i]].value = trace[i].value
      BY <3>1 DEF Entry
    <3>3. Requested(trace[i]) => trace[i].value # "invalid"
      BY <1>4, <2>1 DEF ScheduleSound, Answered, ReplayableCall
    <3> QED
      BY <2>2, <2>3, <3>1, <3>2, <3>3 DEF Returned, Requested, Responded, ReplayableCall
  <2>4. CASE Responded(trace[i])
    <3> DEFINE r == RequestFor(trace, i)
    <3>1. /\ r \in 1..(i - 1) /\ Requested(trace[r]) /\ SameCall(trace[i], trace[r])
          /\ ReplayableCall(trace[r])
      <4>1. /\ r \in 1..(i - 1) /\ Requested(trace[r]) /\ SameCall(trace[i], trace[r])
        BY <1>4, <2>1, <2>4 DEF ScheduleSound, Asked
      <4>2. r \in 1..Len(trace)
        BY <1>1, <2>1, <4>1
      <4> QED
        BY <1>4, <4>1, <4>2 DEF ScheduleSound, Answered
    <3>2. EchoedAnswer(i, at[i]) /\ SameCall(log[at[i]], trace[i])
      BY <2>2, <2>4 DEF Echoed
    <3>3. r \in 1..Len(trace) /\ r < i
      BY <1>1, <2>1, <3>1
    <3>4. Copied(r)
      BY <1>3, <3>2, <3>3, EchoingReads DEF EchoedAnswer
    <3> HIDE DEF r
    <3>5. at[r] < at[i] /\ requests[r] = at[r] /\ at[r] \in 1..Len(log)
      BY <1>1, <1>7, <3>1, <3>3, <3>4 DEF Copied, Echoed, Entries
    <3>6. ReplayableCall(log[at[r]])
      <4>1. Entry(log[at[r]]) = Entry(trace[r])
        BY <1>7, <3>1, <3>4 DEF Copied, Echoed, Requested, Responded
      <4> QED
        BY <3>1, <4>1 DEF Entry, ReplayableCall, Requested
    <3>7. log[at[i]].parents = {at[r]} /\ Responded(log[at[i]]) /\ log[at[i]].value # "invalid"
      BY <3>2, <3>5 DEF EchoedAnswer, r
    <3>8. RequestFor(log, at[i]) = at[r] /\ at[r] # 0
      BY <3>5, <3>6, <3>7, OneRequest
    <3>9. SameCall(log[at[i]], log[at[r]])
      BY <3>1, <3>2, <3>4, <3>5 DEF Copied, SameCall
    <3>10. Answers(log, at[i], at[r]) /\ r \in Seen
      BY <3>4, <3>7, <3>8, <3>9 DEF Answers, Copied
    <3> QED
      BY <2>2, <2>4, <3>2, <3>7, <3>10 DEF Returned, Requested, Responded, r
  <2> QED
    BY <2>3, <2>4
<1> QED
  BY <1>1, <1>2, <1>3, <1>4, <1>5, <1>7, <1>8 DEF Returns

(* Everything of a call that the new run tells, the source has told.       *)
LEMMA ReturnedFrom ==
  ASSUME NEW at, Returns(at), NEW p \in DOMAIN log, Requested(log[p]) \/ Responded(log[p])
  PROVE  \E i \in Seen : at[i] = p /\ Returned(i, at)
<1>1. p \in Entries
  BY DEF Entries, Mirrored
<1> QED
  BY <1>1 DEF Returns, InStep

(* What makes a completed replay a source.                                 *)
LEMMA ReplayedIsSource ==
  ASSUME TraceInv, PolicyInv, CallsKnown, Walked, runStatus = "completed"
  PROVE  ReplayIsReplayable
<1>1. /\ Seen = {i \in 1..Len(trace) : ResumeSequence < i /\ Mirrored(trace[i])} /\ Deciding
      /\ DOMAIN trace = 1..Len(trace) /\ Len(trace) \in Nat /\ ScheduleSound
      /\ DOMAIN log = 1..Len(log) /\ Len(log) \in Nat /\ ResumeSequence \in Nat
      /\ Recalls /\ job.step = "idle"
  BY WalkReturns
<1>2. PICK at : Returns(at)
  BY WalkReturns
<1>3. ASSUME NEW p \in DOMAIN log, Requested(log[p]) PROVE ReplayableCall(log[p])
  <2>1. PICK i \in Seen : at[i] = p /\ Returned(i, at)
    BY <1>2, <1>3, ReturnedFrom
  <2> QED
    BY <1>3, <2>1 DEF Returned
<1>4. ASSUME NEW p \in DOMAIN log, Responded(log[p])
      PROVE  /\ Answers(log, p, RequestFor(log, p)) /\ log[p].value # "none"
             /\ log[p].parents = {RequestFor(log, p)}
  <2>1. PICK i \in Seen : at[i] = p /\ Returned(i, at)
    BY <1>2, <1>4, ReturnedFrom
  <2>2. /\ EchoedAnswer(i, p) /\ Answers(log, p, at[RequestFor(trace, i)])
        /\ log[p].parents = {at[RequestFor(trace, i)]}
    BY <1>4, <2>1 DEF Returned
  <2> QED
    BY <2>2 DEF Answers, EchoedAnswer
<1>5. ASSUME NEW p \in DOMAIN log, ReplayableCall(log[p]) PROVE RecordedOutcome(log, p) # "none"
  <2>1. PICK i \in Seen : at[i] = p /\ Returned(i, at)
    BY <1>2, <1>5, ReturnedFrom DEF ReplayableCall
  <2>2. Requested(trace[i]) /\ i \in 1..Len(trace) /\ ResumeSequence < i
    BY <1>1, <1>5, <2>1 DEF Returned, ReplayableCall
  <2>3. PICK j \in 1..Len(trace) : Answers(trace, j, i)
    BY <1>1, <2>2 DEF ScheduleSound, Answered
  <2>4. Responded(trace[j]) /\ RequestFor(trace, j) = i
    BY <2>3 DEF Answers
  <2>5. ResumeSequence < j
    <3>1. i \in 1..(j - 1)
      BY <1>1, <2>4 DEF ScheduleSound, Asked
    <3> QED
      BY <1>1, <2>2, <3>1
  <2>6. j \in Seen
    BY <1>1, <2>4, <2>5 DEF Mirrored
  <2>7. Answers(log, at[j], p) /\ at[j] \in 1..Len(log)
    BY <1>1, <1>2, <2>1, <2>4, <2>6 DEF Returns, Returned, Entries
  <2>8. PICK q \in 1..Len(log) : Answers(log, q, p) /\ RecordedOutcome(log, p) = log[q].value
    BY <1>1, <2>7, OutcomeReads
  <2> QED
    BY <1>1, <1>4, <2>8 DEF Answers
<1>6. ScheduleFaults(log) = {}
  BY <1>3, <1>4, <1>5 DEF ScheduleFaults
<1>7. ASSUME NEW p \in DOMAIN log, log[p].type = "decision.recorded"
      PROVE  /\ Cardinality(log[p].parents) = 1
             /\ \A r \in log[p].parents : Requested(log[r]) /\ SameCall(log[r], log[p])
  <2>1. PICK r \in DOMAIN log :
          log[p].parents = {r} /\ Requested(log[r]) /\ SameCall(log[r], log[p])
    BY <1>1, <1>7 DEF Deciding
  <2> QED
    BY <2>1, FS_Singleton
<1>8. /\ Len(executed) \in Nat /\ DOMAIN executed = 1..Len(executed)
      /\ \A k \in 1..Len(executed) :
           executed[k].after \in 1..Len(log) /\ Voiced(executed[k], log)
      /\ \A k, m \in 1..Len(executed) : k < m => executed[k].after < executed[m].after
      /\ \A p \in 1..Len(log) : Responded(log[p]) =>
           \E k \in 1..Len(executed) : executed[k].after + 1 = p
  BY <1>1, SeqFacts DEF PolicyInv, Recalls, Unvoiced
<1>9. ASSUME NEW p \in DOMAIN log, Responded(log[p])
      PROVE  \E k \in DOMAIN executed :
               /\ executed[k].after = p - 1 /\ executed[k].outcome = log[p].value
               /\ log[executed[k].after].parents = log[p].parents
  <2>1. PICK k \in 1..Len(executed) : executed[k].after + 1 = p
    BY <1>1, <1>8, <1>9
  <2>2. executed[k].after = p - 1 /\ Voiced(executed[k], log)
    BY <1>1, <1>8, <2>1
  <2> QED
    BY <1>8, <2>1, <2>2 DEF Voiced
<1>10. ASSUME NEW r \in DOMAIN log, Requested(log[r])
       PROVE  \E k \in DOMAIN executed :
                /\ log[executed[k].after].parents = {r}
                /\ RecordedOutcome(log, r) = executed[k].outcome
                /\ \A m \in DOMAIN executed : m > k => log[executed[m].after].parents # {r}
  <2>1. PICK p \in 1..Len(log) : /\ Answers(log, p, r) /\ RecordedOutcome(log, r) = log[p].value
                                 /\ \A q \in 1..Len(log) : Answers(log, q, r) => q <= p
    BY <1>1, <1>3, <1>5, <1>10, OutcomeReads
  <2>2. Responded(log[p]) /\ RequestFor(log, p) = r
    BY <2>1 DEF Answers
  <2>3. PICK k \in DOMAIN executed :
          /\ executed[k].after = p - 1 /\ executed[k].outcome = log[p].value
          /\ log[executed[k].after].parents = log[p].parents
    BY <1>1, <1>9, <2>2
  <2>4. ASSUME NEW m \in DOMAIN executed, m > k, log[executed[m].after].parents = {r}
        PROVE  FALSE
    <3> DEFINE q == executed[m].after + 1
    <3>1. q \in 1..Len(log) /\ Responded(log[q]) /\ log[q].parents = {r}
      BY <1>8, <2>4 DEF Voiced
    <3>2. Answers(log, q, RequestFor(log, q)) /\ log[q].parents = {RequestFor(log, q)}
      BY <1>1, <1>4, <3>1
    <3>3. RequestFor(log, q) = r
      BY <3>1, <3>2
    <3>4. q <= p
      BY <2>1, <3>1, <3>2, <3>3
    <3>5. executed[k].after < executed[m].after /\ executed[k].after \in Nat
          /\ executed[m].after \in Nat
      BY <1>8, <2>4
    <3> QED
      BY <2>3, <3>4, <3>5
  <2> QED
    BY <1>1, <1>4, <2>1, <2>2, <2>3, <2>4
<1> QED
  BY <1>6, <1>7, <1>9, <1>10 DEF ReplayIsReplayable

-----------------------------------------------------------------------------
(* What a replay is to bring about, and what it has, entry by entry.       *)
Told(i) == IF Responded(trace[i])
           THEN [Entry(trace[i]) EXCEPT !.value = RecordedOutcome(trace, RequestFor(trace, i))]
           ELSE Entry(trace[i])
Matching(at) ==
  /\ Cardinality(Seen) \in Nat
  /\ Brought = [k \in 1..Cardinality(Seen) |-> Entry(log[at[Position(Seen, k)]])]
  /\ Expected(ResumeSequence) = [k \in 1..Cardinality(Seen) |-> Told(Position(Seen, k))]
  /\ \A k \in 1..Cardinality(Seen) : Position(Seen, k) \in Seen

(* The entries a completed replay has brought about and those its source   *)
(* has behind the resume point are as many, and go with one another.       *)
LEMMA EntriesMatch ==
  ASSUME TraceInv, PolicyInv, CallsKnown, Walked, runStatus = "completed", NEW at, Returns(at)
  PROVE  Matching(at)
<1>1. /\ Seen = {i \in 1..Len(trace) : ResumeSequence < i /\ Mirrored(trace[i])}
      /\ DOMAIN trace = 1..Len(trace) /\ Len(trace) \in Nat
      /\ DOMAIN log = 1..Len(log) /\ Len(log) \in Nat /\ ResumeSequence \in Nat
  BY WalkReturns
<1>2. InStep(at, Seen, Entries)
  BY DEF Returns
<1>3. Within(Seen, Len(trace)) /\ Within(Entries, Len(log))
  BY <1>1 DEF Entries, Within
<1>4. /\ Cardinality(Seen) \in Nat /\ Cardinality(Entries) = Cardinality(Seen)
      /\ \A k \in 1..Cardinality(Seen) :
           Position(Seen, k) \in Seen /\ Position(Entries, k) = at[Position(Seen, k)]
  BY <1>2, <1>3, InStepFacts
<1>5. {i \in DOMAIN trace : i > ResumeSequence /\ Mirrored(trace[i])} = Seen
  <2>1. \A i \in 1..Len(trace) : i > ResumeSequence <=> ResumeSequence < i
    BY <1>1
  <2> QED
    BY <1>1, <2>1
<1>6. Expected(ResumeSequence) = [k \in 1..Cardinality(Seen) |-> Told(Position(Seen, k))]
  BY <1>5, Zenon DEF Expected, Told
<1>7. Brought = [k \in 1..Cardinality(Entries) |-> Entry(log[Position(Entries, k)])]
  BY DEF Brought, Entries
<1>8. Brought = [k \in 1..Cardinality(Seen) |-> Entry(log[at[Position(Seen, k)]])]
  BY <1>4, <1>7
<1> QED
  BY <1>4, <1>6, <1>8 DEF Matching

(* What a verified replay repeats.                                         *)
LEMMA VerifiedRepeats ==
  ASSUME TraceInv, PolicyInv, CallsKnown, mode = "verified", Walked
  PROVE  VerifiedRepeatsSuffix
<1> DEFINE behind == {i \in DOMAIN trace : i > ResumeSequence /\ Responded(trace[i])}
<1>1. /\ DOMAIN trace = 1..Len(trace) /\ Len(trace) \in Nat
      /\ DOMAIN executed = 1..Len(executed) /\ Len(executed) \in Nat /\ ResumeSequence \in Nat
  BY SeqFacts DEF TraceInv, PolicyInv, Walked, Sourced
<1>2. PICK ran : InOrder(ran)
  BY DEF Walked, Running
<1>3. behind \subseteq 1..Len(trace) /\ \A i : i \in behind <=> Behind(i)
  BY <1>1 DEF Behind
<1> HIDE DEF behind
<1>4. /\ ran \in [1..Len(executed) -> behind]
      /\ \A k, m \in 1..Len(executed) : k < m => ran[k] < ran[m]
      /\ \A k \in 1..Len(executed) : ActsFor(executed[k].action, ran[k])
  BY <1>2, <1>3 DEF InOrder
<1>5. /\ \A k \in 1..Len(executed) : RankIn(behind, ran[k]) \in k..Cardinality(behind)
      /\ (\A i \in behind : \E k \in 1..Len(executed) : ran[k] = i)
           => Len(executed) = Cardinality(behind)
  BY <1>1, <1>3, <1>4, TakenInOrder
<1>6. ASSUME NEW k \in DOMAIN executed
      PROVE  \E m \in k..Cardinality(behind) :
               /\ executed[k].action.key = trace[Position(behind, m)].key
               /\ executed[k].action.attempt
                    = AttemptAt(trace, RequestFor(trace, Position(behind, m)))
  <2>1. ran[k] \in behind /\ ActsFor(executed[k].action, ran[k])
    BY <1>1, <1>4
  <2>2. Position(behind, RankIn(behind, ran[k])) = ran[k]
    BY <1>1, <1>3, <2>1, PositionFacts
  <2> QED
    BY <1>1, <1>5, <2>1, <2>2 DEF ActsFor, SameCall
<1>7. ASSUME runStatus = "completed"
      PROVE  /\ Executable /\ Len(executed) = Cardinality(behind)
             /\ differences = {} =>
                  /\ Len(Brought) = Len(Expected(ResumeSequence))
                  /\ \A k \in DOMAIN Brought :
                       LET old == Expected(ResumeSequence)[k] IN
                       /\ SameCall(old, Brought[k]) /\ Alike(old.value, Brought[k].value)
                       /\ IF Responded(old) THEN Responded(Brought[k])
                          ELSE old.type = Brought[k].type
  <2>1. Executable /\ issues = {} /\ position = Len(trace) + 1
    BY <1>7, WalkReturns
  <2>2. ASSUME NEW i \in behind PROVE \E k \in 1..Len(executed) : ran[k] = i
    <3>1. Behind(i) /\ i \in 1..Len(trace) /\ i < position
      BY <1>1, <1>3, <2>1
    <3> QED
      BY <1>2, <2>1, <3>1 DEF InOrder
  <2>3. PICK at : Returns(at)
    BY <1>7, WalkReturns
  <2>4. /\ Cardinality(Seen) \in Nat
        /\ Brought = [k \in 1..Cardinality(Seen) |-> Entry(log[at[Position(Seen, k)]])]
        /\ Expected(ResumeSequence) = [k \in 1..Cardinality(Seen) |-> Told(Position(Seen, k))]
        /\ \A k \in 1..Cardinality(Seen) : Position(Seen, k) \in Seen
    BY <1>7, <2>3, EntriesMatch DEF Matching
  <2>5. ASSUME NEW i \in Seen, differences = {}
        PROVE  /\ SameCall(Told(i), Entry(log[at[i]]))
               /\ Alike(Told(i).value, Entry(log[at[i]]).value)
               /\ IF Responded(Told(i)) THEN Responded(Entry(log[at[i]]))
                  ELSE Told(i).type = Entry(log[at[i]]).type
    <3>1. Returned(i, at)
      BY <2>3 DEF Returns
    <3>2. CASE Responded(trace[i])
      <4>1. /\ Responded(log[at[i]]) /\ SameCall(log[at[i]], trace[i]) /\ i \notin differences
            /\ EchoedAnswer(i, at[i])
        BY <2>5, <3>1, <3>2 DEF Returned
      <4>2. Alike(RecordedOutcome(trace, RequestFor(trace, i)), log[at[i]].value)
        BY <4>1 DEF EchoedAnswer
      <4>3. /\ Told(i).kind = trace[i].kind /\ Told(i).key = trace[i].key
            /\ Told(i).type = trace[i].type
            /\ Told(i).value = RecordedOutcome(trace, RequestFor(trace, i))
        BY <3>2 DEF Told, Entry
      <4> QED
        BY <3>2, <4>1, <4>2, <4>3 DEF Entry, SameCall, Responded
    <3>3. CASE ~Responded(trace[i])
      <4>1. Told(i) = Entry(log[at[i]])
        BY <3>1, <3>3 DEF Returned, Told
      <4>2. ~Responded(Told(i))
        BY <3>3 DEF Told, Entry, Responded
      <4> QED
        BY <4>1, <4>2 DEF SameCall, Alike
    <3> QED
      BY <3>2, <3>3
  <2>6. ASSUME differences = {}
        PROVE  /\ Len(Brought) = Len(Expected(ResumeSequence))
               /\ \A k \in DOMAIN Brought :
                    /\ SameCall(Expected(ResumeSequence)[k], Brought[k])
                    /\ Alike(Expected(ResumeSequence)[k].value, Brought[k].value)
                    /\ IF Responded(Expected(ResumeSequence)[k]) THEN Responded(Brought[k])
                       ELSE Expected(ResumeSequence)[k].type = Brought[k].type
    <3>1. Len(Brought) = Cardinality(Seen) /\ Len(Expected(ResumeSequence)) = Cardinality(Seen)
      BY <2>4
    <3>2. ASSUME NEW k \in DOMAIN Brought
          PROVE  /\ SameCall(Expected(ResumeSequence)[k], Brought[k])
                 /\ Alike(Expected(ResumeSequence)[k].value, Brought[k].value)
                 /\ IF Responded(Expected(ResumeSequence)[k]) THEN Responded(Brought[k])
                    ELSE Expected(ResumeSequence)[k].type = Brought[k].type
      <4>1. k \in 1..Cardinality(Seen)
        BY <2>4, <3>2
      <4>2. PICK i \in Seen : i = Position(Seen, k)
        BY <2>4, <4>1
      <4>3. Expected(ResumeSequence)[k] = Told(i) /\ Brought[k] = Entry(log[at[i]])
        BY <2>4, <4>1, <4>2
      <4> QED
        BY <2>5, <2>6, <4>2, <4>3
    <3> QED
      BY <3>1, <3>2
  <2> QED
    BY <1>5, <2>1, <2>2, <2>6
<1> QED
  BY <1>6, <1>7 DEF VerifiedRepeatsSuffix, behind

(* How often a call has been asked for, before and in a completed replay.  *)
LEMMA AttemptsMatch ==
  ASSUME TraceInv, PolicyInv, CallsKnown, Walked, runStatus = "completed", ResumeSequence = 0,
         NEW at, Returns(at), NEW i \in Seen
  PROVE  AttemptAt(log, at[i]) = AttemptAt(trace, i)
<1>1. /\ Seen = {j \in 1..Len(trace) : ResumeSequence < j /\ Mirrored(trace[j])}
      /\ Len(trace) \in Nat /\ DOMAIN log = 1..Len(log) /\ Len(log) \in Nat
  BY WalkReturns
<1>2. /\ \A j \in Seen : Returned(j, at) /\ at[j] \in Entries /\ j \in 1..Len(trace)
      /\ \A j, k \in Seen : j < k => at[j] < at[k]
  BY <1>1 DEF Returns, InStep
<1>3. \A j \in Seen : at[j] \in 1..Len(log)
  BY <1>1, <1>2 DEF Entries
<1>4. \A j, k \in Seen : (at[j] <= at[k] <=> j <= k) /\ (at[j] = at[k] => j = k)
  <2>1. ASSUME NEW j \in Seen, NEW k \in Seen
        PROVE  (at[j] <= at[k] <=> j <= k) /\ (at[j] = at[k] => j = k)
    <3>1. /\ j \in Nat /\ k \in Nat /\ at[j] \in Nat /\ at[k] \in Nat
          /\ (j < k => at[j] < at[k]) /\ (k < j => at[k] < at[j])
      BY <1>2, <1>3
    <3> QED
      BY <3>1
  <2> QED
    BY <2>1
<1> DEFINE A == {j \in 1..i : Requested(trace[j]) /\ SameCall(trace[i], trace[j])}
           B == {q \in 1..at[i] : Requested(log[q]) /\ SameCall(log[at[i]], log[q])}
           f == [j \in A |-> at[j]]
<1>5. ASSUME NEW j \in A
      PROVE  j \in Seen /\ at[j] \in B
  <2>1. j \in 1..Len(trace) /\ 0 < j /\ j <= i
    BY <1>1, <1>2
  <2>2. j \in Seen
    BY <1>1, <2>1 DEF Mirrored
  <2>3. at[j] \in 1..at[i]
    BY <1>3, <1>4, <2>1, <2>2
  <2> QED
    BY <1>2, <2>2, <2>3 DEF Returned, SameCall
<1>6. ASSUME NEW q \in B PROVE \E j \in A : at[j] = q
  <2>1. q \in DOMAIN log /\ q <= at[i]
    BY <1>1, <1>3
  <2>2. PICK j \in Seen : at[j] = q /\ Returned(j, at)
    BY <2>1, ReturnedFrom
  <2>3. j <= i
    BY <1>4, <2>1, <2>2
  <2>4. j \in 1..i
    BY <1>2, <2>3
  <2>5. Requested(trace[j]) /\ SameCall(trace[i], trace[j])
    BY <1>2, <2>2 DEF Returned, SameCall
  <2> QED
    BY <2>2, <2>4, <2>5
<1>7. IsFiniteSet(B)
  <2>1. at[i] \in Nat
    BY <1>3
  <2>2. IsFiniteSet(1..at[i]) /\ B \subseteq 1..at[i]
    BY <2>1, FS_Interval
  <2> HIDE DEF B
  <2> QED
    BY <2>2, FS_Subset
<1>8. AttemptAt(log, at[i]) = Cardinality(B) /\ AttemptAt(trace, i) = Cardinality(A)
  BY DEF AttemptAt
<1> HIDE DEF A, B
<1>9. f \in [A -> B] /\ (\A a, b \in A : f[a] = f[b] => a = b) /\ \A q \in B : \E a \in A : f[a] = q
  BY <1>4, <1>5, <1>6
<1> HIDE DEF f
<1> QED
  BY <1>7, <1>8, <1>9, SameCount

(* The calls of a completed replay of the whole source are the source's.   *)
LEMMA CallsMatch ==
  ASSUME TraceInv, PolicyInv, CallsKnown, Walked, runStatus = "completed", ResumeSequence = 0,
         NEW at, Returns(at)
  PROVE  SourceCalls(log) = SourceCalls(trace)
<1> DEFINE S == {i \in DOMAIN trace : ReplayableCall(trace[i])}
           T == {p \in DOMAIN log : ReplayableCall(log[p])}
           f == [i \in S |-> at[i]]
           call(events, i) == [call |-> CallFor(events[i]), attempt |-> AttemptAt(events, i),
                               input |-> events[i].value]
<1>1. /\ Seen = {j \in 1..Len(trace) : ResumeSequence < j /\ Mirrored(trace[j])}
      /\ DOMAIN trace = 1..Len(trace) /\ ScheduleSound
      /\ Len(trace) \in Nat /\ DOMAIN log = 1..Len(log) /\ Len(log) \in Nat
  BY WalkReturns
<1>2. /\ \A j \in Seen : Returned(j, at) /\ at[j] \in Entries /\ j \in 1..Len(trace)
      /\ \A j, k \in Seen : j < k => at[j] < at[k]
  BY <1>1 DEF Returns, InStep
<1>3. ASSUME NEW i \in S
      PROVE  i \in Seen /\ Requested(trace[i]) /\ at[i] \in T /\ log[at[i]].value = trace[i].value
  <2>1. Requested(trace[i]) /\ i \in 1..Len(trace) /\ 0 < i
    BY <1>1 DEF ReplayableCall
  <2>2. i \in Seen
    BY <1>1, <2>1 DEF Mirrored
  <2>3. Entry(log[at[i]]) = Entry(trace[i])
    BY <1>2, <2>1, <2>2 DEF Returned, Requested, Responded
  <2> QED
    BY <1>2, <2>1, <2>2, <2>3 DEF Returned, Entries, Entry
<1>4. ASSUME NEW p \in T PROVE \E i \in S : at[i] = p
  <2>1. PICK i \in Seen : at[i] = p /\ Returned(i, at)
    BY ReturnedFrom DEF ReplayableCall
  <2>2. Requested(trace[i]) /\ i \in 1..Len(trace)
    BY <1>1, <2>1 DEF Returned, ReplayableCall
  <2>3. ReplayableCall(trace[i])
    BY <1>1, <2>2 DEF ScheduleSound, Answered
  <2> QED
    BY <1>1, <2>1, <2>2, <2>3
<1>5. ASSUME NEW i \in S PROVE call(log, at[i]) = call(trace, i)
  <2>1. i \in Seen /\ log[at[i]].value = trace[i].value
    BY <1>3
  <2>2. AttemptAt(log, at[i]) = AttemptAt(trace, i)
    BY <2>1, AttemptsMatch
  <2>3. SameCall(log[at[i]], trace[i])
    BY <1>2, <2>1 DEF Returned
  <2>4. CallFor(log[at[i]]) = CallFor(trace[i])
    <3>1. \A c \in Calls : SameCall(c, log[at[i]]) <=> SameCall(c, trace[i])
      BY <2>3 DEF SameCall
    <3> QED
      BY <3>1, Zenon DEF CallFor
  <2> QED
    BY <2>1, <2>2, <2>4
<1>6. Within(S, Len(trace)) /\ Within(T, Len(log))
  BY <1>1 DEF Within
<1>7. SourceCalls(trace) = [k \in 1..Cardinality(S) |-> call(trace, Position(S, k))]
  BY DEF SourceCalls
<1>8. SourceCalls(log) = [k \in 1..Cardinality(T) |-> call(log, Position(T, k))]
  BY DEF SourceCalls
<1> HIDE DEF S, T, call
<1>9. InStep(f, S, T)
  BY <1>2, <1>3, <1>4 DEF InStep
<1>10. /\ Cardinality(T) = Cardinality(S)
       /\ \A k \in 1..Cardinality(S) : Position(S, k) \in S /\ Position(T, k) = f[Position(S, k)]
  <2> HIDE DEF f
  <2> QED
    BY <1>6, <1>9, InStepFacts
<1>11. \A k \in 1..Cardinality(S) : call(log, Position(T, k)) = call(trace, Position(S, k))
  BY <1>5, <1>10
<1> QED
  BY <1>7, <1>8, <1>10, <1>11

(* What a mock replay reproduces.                                          *)
LEMMA MockReproduces ==
  ASSUME TraceInv, PolicyInv, CallsKnown, mode = "mock", Walked
  PROVE  MockReproducesSource
<1>1. PICK ran : InOrder(ran)
  BY DEF Walked, Running
<1>2. ASSUME NEW k \in DOMAIN executed PROVE executed[k].action.mode = "recorded"
  <2>1. k \in 1..Len(executed)
    BY SeqFacts DEF PolicyInv
  <2> QED
    BY <1>1, <2>1 DEF InOrder, ActsFor, CallMode
<1>3. ASSUME runStatus = "completed"
      PROVE  /\ Executable /\ Brought = Expected(0) /\ SourceCalls(log) = SourceCalls(trace)
             /\ Reconstructed(log, {}) =
                  [ok |-> TRUE, state |-> Reconstructed(trace, Checkpoints).state, missed |-> FALSE]
  <2>1. Executable /\ issues = {} /\ Restored
    BY <1>3, WalkReturns DEF Walked
  <2>2. ResumeSequence = 0
    BY DEF Walked, Sourced, ResumeSequence
  <2>3. PICK at : Returns(at)
    BY <1>3, WalkReturns
  <2>4. ASSUME NEW i \in Seen PROVE Entry(log[at[i]]) = Told(i)
    <3>1. Returned(i, at)
      BY <2>3 DEF Returns
    <3>2. CASE Responded(trace[i])
      <4>1. /\ log[at[i]].type = trace[i].type /\ SameCall(log[at[i]], trace[i])
            /\ log[at[i]].value = RecordedOutcome(trace, RequestFor(trace, i))
        BY <2>1, <3>1, <3>2 DEF Returned, EchoedAnswer
      <4> QED
        BY <3>2, <4>1 DEF Told, Entry, SameCall
    <3>3. CASE ~Responded(trace[i])
      BY <3>1, <3>3 DEF Returned, Told
    <3> QED
      BY <3>2, <3>3
  <2>5. Brought = Expected(0)
    BY <1>3, <2>2, <2>3, <2>4, EntriesMatch DEF Matching
  <2>6. SourceCalls(log) = SourceCalls(trace)
    BY <1>3, <2>2, <2>3, CallsMatch
  <2> QED
    BY <1>3, <2>1, <2>5, <2>6 DEF Restored
<1> QED
  BY <1>2, <1>3 DEF MockReproducesSource

-----------------------------------------------------------------------------
(* Everything a session keeps true about a walk.                           *)
TraceWalkInv == SessionInv /\ SavedInv /\ CallsKnown /\ WalkInv

(* It holds throughout.                                                    *)
LEMMA TraceWalkAlways == Spec => []TraceWalkInv
<1>1. Init => TraceWalkInv
  BY SessionStarts, WalkStarts DEF TraceWalkInv
<1>2. TraceWalkInv /\ [Next]_vars => TraceWalkInv'
  <2> SUFFICES ASSUME TraceWalkInv, [Next]_vars PROVE TraceWalkInv'
    OBVIOUS
  <2>1. TraceInv /\ SessionInv /\ SavedInv /\ CallsKnown /\ WalkInv
    BY DEF TraceWalkInv, SessionInv
  <2> QED
    BY <2>1, SessionKept, SavedKept, KnownKept, WalkKept DEF TraceWalkInv
<1> QED
  BY <1>1, <1>2, PTL DEF Spec

(* What it says of a runner that has got past its start.                   *)
LEMMA WalkStands ==
  ASSUME TraceWalkInv
  PROVE  /\ TraceInv /\ PolicyInv /\ CallsKnown
         /\ runStatus = "none" => executed = <<>>
         /\ TraceRunner => \/ runStatus \in {"none", "failed"} /\ executed = <<>>
                           \/ Walked
BY DEF TraceWalkInv, SessionInv, RunnerInv, WalkInv, Unwalked

(* A completed mock or verified replay leaves a run that can be replayed in*)
(* its turn: it has no schedule faults, each of its decisions hangs on the *)
(* request of its call, every response says what its own execution came to,*)
(* right behind its decision, and each request gets the outcome of the last*)
(* execution for it (TraceReplay, invokeRecorded() and invokeLive()).      *)
THEOREM ReplayIsASource == Spec => []ReplayIsReplayable
<1>1. TraceWalkInv => ReplayIsReplayable
  <2> SUFFICES ASSUME TraceWalkInv, TraceRunner, runStatus = "completed" PROVE ReplayIsReplayable
    BY DEF ReplayIsReplayable
  <2>1. TraceInv /\ PolicyInv /\ CallsKnown /\ Walked
    BY WalkStands
  <2> QED
    BY <2>1, ReplayedIsSource
<1> QED
  BY <1>1, TraceWalkAlways, PTL

(* The k-th operation of a verified replay is for the k-th or a later      *)
(* response behind its resume point, and when it completes there are as    *)
(* many as responses; then what it records is what the source says there,  *)
(* in order, save for the differences it reports (VerifiedReplayRunner.run)*)
THEOREM VerifiedReplayRepeats == Spec => []VerifiedRepeatsSuffix
<1>1. TraceWalkInv => VerifiedRepeatsSuffix
  <2> SUFFICES ASSUME TraceWalkInv, mode = "verified" PROVE VerifiedRepeatsSuffix
    BY DEF VerifiedRepeatsSuffix
  <2>1. CASE Walked
    BY <2>1, WalkStands, VerifiedRepeats
  <2>2. CASE ~Walked
    <3>1. runStatus \in {"none", "failed"} /\ executed = <<>>
      BY <2>2, WalkStands DEF TraceRunner
    <3> QED
      BY <3>1 DEF VerifiedRepeatsSuffix
  <2> QED
    BY <2>1, <2>2
<1> QED
  BY <1>1, TraceWalkAlways, PTL

(* A completed mock replay has made the same calls, as often and with the  *)
(* same results, as its source, and has come to the same state; and nothing*)
(* but recorded results has answered it (MockReplayRunner.run).            *)
THEOREM MockReplayReproduces == Spec => []MockReproducesSource
<1>1. TraceWalkInv => MockReproducesSource
  <2> SUFFICES ASSUME TraceWalkInv, mode = "mock" PROVE MockReproducesSource
    BY DEF MockReproducesSource
  <2>1. CASE Walked
    BY <2>1, WalkStands, MockReproduces
  <2>2. CASE ~Walked
    <3>1. runStatus \in {"none", "failed"} /\ executed = <<>>
      BY <2>2, WalkStands DEF TraceRunner
    <3>2. DOMAIN executed = {}
      BY <3>1
    <3> QED
      BY <3>1, <3>2 DEF MockReproducesSource
  <2> QED
    BY <2>1, <2>2
<1> QED
  BY <1>1, TraceWalkAlways, PTL

-----------------------------------------------------------------------------
(* A list of one thing.                                                     *)
LEMMA OneLong == ASSUME NEW S, NEW x \in S PROVE <<x>> \in Seq(S)
OBVIOUS

(* What the recorder is given is an event, if its value is one.             *)
LEMMA EventsTyped ==
  ASSUME NEW type \in EventType, NEW value \in Values, NEW parents \in SUBSET Nat
  PROVE  /\ RunEvent(type, parents) \in Event
         /\ \A call \in Calls : CallEvent(type, call, value, parents) \in Event
         /\ \A e \in Event : StateEvent(e.kind, e.key, value, parents) \in Event
         /\ \A action \in Action : EventOf(type, action, value, parents) \in Event
<1>1. RunEvent(type, parents) \in Event
  <2>1. "" \in Values
    BY DEF Values
  <2>2. <<>> \in Seq(STRING)
    OBVIOUS
  <2> QED
    BY <2>1, <2>2 DEF RunEvent, Event
<1>2. ASSUME NEW call \in Calls PROVE CallEvent(type, call, value, parents) \in Event
  <2>1. call.kind \in Kinds /\ call.key \in Seq(STRING)
    BY CallsAssumption DEF Kinds
  <2> QED
    BY <2>1 DEF CallEvent, Event
<1>3. ASSUME NEW e \in Event PROVE StateEvent(e.kind, e.key, value, parents) \in Event
  <2>1. "state.changed" \in EventType
    BY DEF EventType
  <2> QED
    BY <2>1 DEF StateEvent, Event
<1>4. ASSUME NEW action \in Action PROVE EventOf(type, action, value, parents) \in Event
  <2>1. action.kind \in Kinds /\ action.key \in Seq(STRING) /\ action.attempt \in Nat
    BY DEF Action
  <2> QED
    BY <2>1 DEF EventOf, Event
<1> QED
  BY <1>1, <1>2, <1>3, <1>4

(* The state of a run, and whether the changes so far could be applied.     *)
Stateful == [ok : BOOLEAN, state : State]

(* It stays that, whatever event comes.                                     *)
LEMMA AfterEventTyped ==
  ASSUME NEW before \in Stateful, NEW e \in Event
  PROVE  AfterEvent(before, e) \in Stateful
<1> DEFINE applies == before.ok /\ Applies(before.state, e)
           path == e.key[1]
           old == before.state[path]
           now == Applied(before.state, e)
<1>1. before.ok \in BOOLEAN /\ before.state \in State
  BY DEF Stateful
<1>2. ASSUME applies PROVE now \in State
  <2>1. path \in Paths /\ old \in Json /\ e.value \in Values
    BY <1>1, <1>2 DEF Applies, State, Event
  <2>2. /\ Fresh("absent") \in Json
        /\ e.value \in Shapes => Fresh(e.value) \in Json
        /\ [shape |-> "object", content |-> <<"merged">>] \in Json
    <3>1. <<>> \in Seq({"merged"} \cup Values) /\ <<"merged">> \in Seq({"merged"} \cup Values)
      OBVIOUS
    <3> QED
      BY <3>1 DEF Fresh, Json, Shapes
  <2>3. [old EXCEPT !.content = Append(old.content, e.value)] \in Json
    <3>1. Append(old.content, e.value) \in Seq({"merged"} \cup Values)
      BY <2>1 DEF Json
    <3> QED
      BY <2>1, <3>1 DEF Json
  <2>4. e.kind = "set" => e.value \in Shapes
    BY <1>2 DEF Applies
  <2>5. CASE e.kind = "set"
    BY <1>1, <2>1, <2>2, <2>4, <2>5 DEF Applied, State
  <2>6. CASE e.kind = "merge"
    BY <1>1, <2>1, <2>2, <2>6 DEF Applied, State
  <2>7. CASE e.kind = "delete"
    BY <1>1, <2>1, <2>2, <2>7 DEF Applied, State
  <2>8. CASE e.kind = "append"
    BY <1>1, <2>1, <2>3, <2>8 DEF Applied, State
  <2>9. CASE e.kind \notin {"set", "merge", "delete", "append"}
    BY <1>1, <2>1, <2>9 DEF Applied, State
  <2> QED
    BY <2>5, <2>6, <2>7, <2>8, <2>9
<1>3. applies \in BOOLEAN
  OBVIOUS
<1> HIDE DEF now, applies
<1>4. AfterEvent(before, e)
        = IF e.type # "state.changed" THEN before
          ELSE [ok |-> applies, state |-> IF applies THEN now ELSE before.state]
  BY DEF AfterEvent, now, applies
<1> QED
  BY <1>1, <1>2, <1>3, <1>4 DEF Stateful

(* And so it is in the end.                                                 *)
LEMMA ReplayedTyped ==
  ASSUME NEW state \in State, NEW events \in Seq(Event), NEW from \in 0..Len(events)
  PROVE  Replayed(state, events, from) \in Stateful
<1> DEFINE n == Len(events)
<1>1. n \in Nat /\ from \in Nat /\ from <= n /\ IsSeq(events) /\ n \in from..n /\ from \in from..n
  BY DEF IsSeq
<1>2. PICK f : IsReplay(f, state, events, from, n) /\ Replayed(state, events, from) = f[n]
  BY <1>1, ReplayedIsReplay
<1>3. f[from] = Began(state) /\ GoesOn(f, events, from, n)
  BY <1>1, <1>2, ReplaySteps
<1> DEFINE S == {i \in from..n : f[i] \in Stateful}
<1>4. from \in S
  <2>1. Began(state) \in Stateful
    BY DEF Began, Stateful
  <2> QED
    BY <1>1, <1>3, <2>1
<1>5. ASSUME NEW i \in from..n, i # n, i \in S PROVE i + 1 \in S
  <2>1. i + 1 \in from..n /\ i + 1 \in 1..n /\ events[i + 1] \in Event
    BY <1>1, <1>5
  <2>2. f[i + 1] = AfterEvent(f[i], events[i + 1])
    BY <1>3, <1>5 DEF GoesOn
  <2> QED
    BY <1>5, <2>1, <2>2, AfterEventTyped
<1> HIDE DEF S
<1>6. \A i \in from..n : i \in S
  BY <1>1, <1>4, <1>5, Climb
<1> QED
  BY <1>1, <1>2, <1>6 DEF S

(* An event is recorded.                                                    *)
LEMMA RecordTyped ==
  ASSUME SnapshotTypeOK, NEW e \in Event, Record(e)
  PROVE  trace' \in Seq(Event) /\ UNCHANGED <<manifest, phase>>
BY DEF Record, SnapshotTypeOK

(* The recorder and the reader keep the types of the snapshot.              *)
LEMMA SnapshotTyped ==
  ASSUME TraceInv, TraceInv', SnapshotTypeOK, RecordSnapshot PROVE SnapshotTypeOK'
<1>1. /\ lines' \in Seq(Nat) /\ tail' \in {"whole", "torn"} /\ Len(trace) \in Nat
      /\ DOMAIN trace = 1..Len(trace) /\ trace \in Seq(Event) /\ saved \in Seq(Checkpoint)
  BY DEF TraceInv, SnapshotTypeOK
<1>2. /\ {} \in SUBSET Nat /\ {Len(trace)} \in SUBSET Nat /\ {1} \in SUBSET Nat
      /\ \A i \in DOMAIN trace : {i} \in SUBSET Nat
  BY <1>1
<1>3. /\ {"run.started", "run.completed", "requested", "completed", "failed", "log.note",
          "checkpoint.created"} \subseteq EventType
      /\ "" \in Values /\ "input" \in Values
  BY DEF EventType, Values
<1>4. Recorded \subseteq Values
  BY CallsAssumption, SnapshotAssumption DEF Values
<1>5. Ended \in Seq(Event)
  <2>1. RunEvent("run.completed", {Len(trace)}) \in Event
    BY <1>2, <1>3, EventsTyped
  <2> QED
    BY <1>1, <2>1 DEF Ended
<1>6. CASE StartTrace \/ RecordNote
  <2>1. PICK type \in {"run.started", "log.note"}, parents \in SUBSET Nat :
          Record(RunEvent(type, parents)) /\ UNCHANGED saved
    BY <1>2, <1>6 DEF StartTrace, RecordNote
  <2>2. RunEvent(type, parents) \in Event
    BY <1>3, EventsTyped
  <2> QED
    BY <1>1, <2>1, <2>2, RecordTyped DEF SnapshotTypeOK
<1>7. CASE RecordRequest
  <2>1. PICK call \in Calls, parent \in {1, Len(trace)} :
          Record(CallEvent("requested", call, "input", {parent}))
    BY <1>7 DEF RecordRequest
  <2>2. CallEvent("requested", call, "input", {parent}) \in Event
    BY <1>2, <1>3, EventsTyped
  <2> QED
    BY <1>1, <1>7, <2>1, <2>2, RecordTyped DEF SnapshotTypeOK, RecordRequest
<1>8. CASE RecordResponse
  <2>1. PICK request \in DOMAIN trace, call \in Calls, value \in Recorded :
          Record(CallEvent(IF value \in Outputs THEN "completed" ELSE "failed", call, value,
                           {request}))
    BY <1>8 DEF RecordResponse
  <2>2. CallEvent(IF value \in Outputs THEN "completed" ELSE "failed", call, value, {request})
          \in Event
    BY <1>2, <1>3, <1>4, EventsTyped
  <2> QED
    BY <1>1, <1>8, <2>1, <2>2, RecordTyped DEF SnapshotTypeOK, RecordResponse
<1>9. CASE RecordStateChange
  <2>1. PICK change \in StateChanges :
          Record(StateEvent(change[1], <<ChangedPath>>, change[2], {Len(trace)}))
    BY <1>9 DEF RecordStateChange
  <2>2. StateEvent(change[1], <<ChangedPath>>, change[2], {Len(trace)}) \in Event
    <3>3. change \in STRING \X STRING /\ ChangedPath \in STRING
      BY SnapshotAssumption
    <3>4. change[1] \in STRING /\ change[2] \in STRING
      BY <3>3
    <3>5. <<ChangedPath>> \in Seq(STRING)
      BY <3>3, OneLong
    <3>1. change[1] \in STRING /\ change[2] \in STRING /\ <<ChangedPath>> \in Seq(STRING)
      BY <3>4, <3>5
    <3>2. change[2] \in Values /\ "state.changed" \in EventType
      BY <3>1 DEF Values, EventType
    <3> QED
      BY <1>2, <3>1, <3>2 DEF StateEvent, Event
  <2> QED
    BY <1>1, <1>9, <2>1, <2>2, RecordTyped DEF SnapshotTypeOK, RecordStateChange
<1>10. CASE RecordCheckpoint
  <2>1. RunEvent("checkpoint.created", {Len(trace)}) \in Event
    BY <1>2, <1>3, EventsTyped
  <2>2. trace' \in Seq(Event) /\ UNCHANGED <<manifest, phase>>
    BY <1>10, <2>1, RecordTyped DEF RecordCheckpoint
  <2>3. LiveState \in State
    <3>1. EmptyState \in State
      <4>1. <<>> \in Seq({"merged"} \cup Values)
        OBVIOUS
      <4> QED
        BY <4>1 DEF EmptyState, State, Fresh, Json
    <3>2. 0 \in 0..Len(trace)
      BY <1>1
    <3>3. Replayed(EmptyState, trace, 0) \in Stateful
      BY <1>1, <3>1, <3>2, ReplayedTyped
    <3> QED
      BY <3>3 DEF LiveState, Stateful
  <2>4. PICK state \in {LiveState} \cup Unrecorded :
          saved' = Append(saved, [sequence |-> Len(trace), state |-> state, damage |-> "none"])
    BY <1>10 DEF RecordCheckpoint
  <2>5. state \in State /\ Len(trace) # 0
    BY <1>1, <1>10, <2>3, SnapshotAssumption DEF RecordCheckpoint, Recording
  <2>6. [sequence |-> Len(trace), state |-> state, damage |-> "none"] \in Checkpoint
    BY <1>1, <2>5 DEF Checkpoint
  <2>7. saved' \in Seq(Checkpoint)
    BY <1>1, <2>4, <2>6
  <2> QED
    BY <1>1, <2>2, <2>7 DEF SnapshotTypeOK
<1> DEFINE Manifest == [present : BOOLEAN, parses : BOOLEAN, count : Nat, complete : BOOLEAN]
<1>11. /\ NoManifest \in Manifest /\ [NoManifest EXCEPT !.present = TRUE] \in Manifest
       /\ \A count \in Nat, complete \in BOOLEAN : Declares(count, complete) \in Manifest
  BY DEF NoManifest, Declares
<1>12. manifest \in [{"manifest.json.tmp", "manifest.json"} -> Manifest]
  BY DEF SnapshotTypeOK
<1> HIDE DEF Manifest
<1>13. CASE EndTrace
  <2>1. Len(Ended) \in Nat /\ TRUE \in BOOLEAN
    BY <1>5
  <2>2. Declares(Len(Ended), TRUE) \in Manifest
    BY <1>11, <2>1
  <2>3. manifest' \in [{"manifest.json.tmp", "manifest.json"} -> Manifest]
    BY <1>12, <1>13, <2>2 DEF EndTrace
  <2> QED
    BY <1>1, <1>5, <1>13, <2>3 DEF EndTrace, SnapshotTypeOK, Manifest
<1>14. CASE CutOff
  <2>1. trace' \in Seq(Event) /\ Len(trace') \in Nat
    BY <1>1, <1>5, <1>14 DEF CutOff
  <2>2. PICK count \in 0..Len(trace),
             temporary \in {NoManifest, [NoManifest EXCEPT !.present = TRUE],
                            Declares(Len(trace'), trace' = Ended)} :
          manifest' = [manifest EXCEPT
            !["manifest.json"] = IF count = 0 THEN NoManifest ELSE Declares(count, FALSE),
            !["manifest.json.tmp"] = temporary]
    BY <1>14 DEF CutOff
  <2>3. (trace' = Ended) \in BOOLEAN /\ FALSE \in BOOLEAN /\ count \in Nat
    OBVIOUS
  <2>4. temporary \in Manifest /\ Declares(count, FALSE) \in Manifest
    BY <1>11, <2>1, <2>3
  <2>5. manifest' \in [{"manifest.json.tmp", "manifest.json"} -> Manifest]
    BY <1>11, <1>12, <2>2, <2>4
  <2> QED
    BY <1>1, <1>14, <2>1, <2>5 DEF CutOff, SnapshotTypeOK, Manifest
<1>15. CASE HarmFiles
  <2>1. saved' \in Seq(Checkpoint)
    <3>1. CASE UNCHANGED saved
      BY <1>1, <3>1
    <3>2. CASE HarmCheckpoint
      <4>1. PICK i \in DOMAIN saved, damage \in Damages \cap Harm :
              saved' = [saved EXCEPT ![i].damage = damage]
        BY <3>2 DEF HarmCheckpoint
      <4>4. saved[i] \in Checkpoint /\ damage \in Damages \cup {"none"}
        BY <1>1, <4>1
      <4>2. [saved[i] EXCEPT !.damage = damage] \in Checkpoint
        BY <4>4 DEF Checkpoint
      <4>3. saved' = [saved EXCEPT ![i] = [saved[i] EXCEPT !.damage = damage]]
        BY <4>1
      <4> QED
        BY <1>1, <4>2, <4>3
    <3> QED
      BY <1>15, <3>1, <3>2 DEF HarmFiles, LosePower, HarmLine
  <2> QED
    BY <1>1, <1>15, <2>1 DEF HarmFiles, SnapshotTypeOK
<1>16. CASE Load
  BY <1>1, <1>16 DEF Load, SnapshotTypeOK
<1> QED
  BY <1>6, <1>7, <1>8, <1>9, <1>10, <1>13, <1>14, <1>15, <1>16 DEF RecordSnapshot

(* What is submitted to the policy, and what has been run.                  *)
Job == [step : {"idle", "deciding", "operating", "returned"}, action : Action,
        needsApproval : BOOLEAN, request : Nat, outcome : Values]
Executions == Seq([action : Action, needsApproval : BOOLEAN, after : Nat, outcome : Values])

(* Lists of two.                                                            *)
LEMMA TwoLong ==
  ASSUME NEW S, NEW x \in S, NEW y \in S
  PROVE  <<x>> \in Seq(S) /\ <<y>> \in Seq(S) /\ <<x, y>> \in Seq(S)
OBVIOUS

(* The words that the code writes are values.                               *)
LEMMA WordsTyped ==
  /\ "read_only" \in Effects /\ "none" \in Values /\ "blocked" \in Values
  /\ "" \in Values /\ "completed" \in Values /\ Decisions \subseteq Values
  /\ {"good", "bad", "completed", "failed"} \subseteq Values
  /\ Outputs \cup Errors \cup {"undefined"} \subseteq Values
<1>1. 1 \in DOMAIN SideEffects /\ SideEffects[1] = "read_only"
  BY DEF SideEffects
<1> QED
  BY <1>1, CallsAssumption DEF Effects, Values, NotAnswers

(* The stages of a submission.                                              *)
LEMMA JobsTyped ==
  /\ Idle \in Job
  /\ \A action \in Action, needsApproval \in BOOLEAN, request \in Nat :
       Submitted(action, needsApproval, request) \in Job
  /\ \A j \in Job : [j EXCEPT !.step = "operating"] \in Job
  /\ \A j \in Job : \A outcome \in Values :
       [j EXCEPT !.step = "returned", !.outcome = outcome] \in Job
<1>1. NoAction \in Action
  <2>1. <<>> \in Seq(STRING)
    OBVIOUS
  <2>2. "live" \in Modes /\ "agent" \in Kinds
    BY DEF Modes, Kinds
  <2>3. "" \in {""} \cup STRING
    OBVIOUS
  <2>4. "read_only" \in Effects
    BY WordsTyped
  <2>5. 1 \in Nat \ {0}
    OBVIOUS
  <2> QED
    BY <2>1, <2>2, <2>3, <2>4, <2>5 DEF NoAction, Action
<1> QED
  BY <1>1, WordsTyped DEF Idle, Submitted, Job

(* The types of the policy and the new run, in these words.                 *)
LEMMA PolicyTyped ==
  PolicyTypeOK <=>
    /\ rules \in Seq(Rule) /\ approved \subseteq Seq(STRING)
    /\ runStatus \in {"none", "running", "completed", "failed", "rejected"}
    /\ log \in Seq(Event) /\ job \in Job /\ executed \in Executions
BY DEF PolicyTypeOK, Job, Executions

(* The same after a step.                                                   *)
LEMMA PolicyTypedNext ==
  PolicyTypeOK' <=>
    /\ rules' \in Seq(Rule) /\ approved' \subseteq Seq(STRING)
    /\ runStatus' \in {"none", "running", "completed", "failed", "rejected"}
    /\ log' \in Seq(Event) /\ job' \in Job /\ executed' \in Executions
BY DEF PolicyTypeOK, Job, Executions

(* The event before is an event.                                            *)
LEMMA LatestTyped == ASSUME log \in Seq(Event) PROVE Latest \in SUBSET Nat
BY DEF Latest

(* A decision is recorded.                                                  *)
LEMMA DecisionTyped ==
  ASSUME PolicyTypeOK, RecordDecision PROVE PolicyTypeOK'
<1>1. log \in Seq(Event) /\ job \in Job
  BY PolicyTyped
<1>2. PICK decision \in Decisions, parents \in SUBSET Nat :
        log' = Append(log, EventOf("decision.recorded", job.action, decision, parents))
  <2>1. {job.request} \in SUBSET Nat
    BY <1>1 DEF Job
  <2> QED
    BY <1>1, <2>1, LatestTyped, DecisionWords DEF RecordDecision
<1>3. "decision.recorded" \in EventType /\ decision \in Values /\ job.action \in Action
  BY <1>1, WordsTyped DEF EventType, Job
<1>4. EventOf("decision.recorded", job.action, decision, parents) \in Event
  BY <1>3, EventsTyped
<1>5. log' \in Seq(Event)
  BY <1>1, <1>2, <1>4
<1>6. job' \in Job
  <2>1. \/ job' = [job EXCEPT !.step = "operating"]
        \/ job' = [job EXCEPT !.step = "returned", !.outcome = "blocked"]
    BY Zenon DEF RecordDecision
  <2> QED
    BY <1>1, <2>1, JobsTyped, WordsTyped
<1> QED
  BY <1>5, <1>6, PolicyTyped, PolicyTypedNext DEF RecordDecision

(* An operation is run.                                                     *)
LEMMA RunTyped ==
  ASSUME PolicyTypeOK, NEW outcome \in Values
  PROVE  Append(executed, Execution(outcome)) \in Executions
<1>1. log \in Seq(Event) /\ job \in Job /\ executed \in Executions
  BY PolicyTyped
<1>2. Execution(outcome) \in [action : Action, needsApproval : BOOLEAN, after : Nat, outcome : Values]
  BY <1>1 DEF Execution, Job
<1> QED
  BY <1>1, <1>2 DEF Executions

(* An operation answers.                                                    *)
LEMMA OperationTyped ==
  ASSUME PolicyTypeOK, NEW outcomes, outcomes \subseteq Values, Operate(outcomes)
  PROVE  PolicyTypeOK'
<1>1. job' \in Job
  BY PolicyTyped, JobsTyped DEF Operate
<1>2. executed' \in Executions
  <2>1. PICK outcome \in Values : executed' = Append(executed, Execution(outcome))
    BY Zenon DEF Operate
  <2> QED
    BY <2>1, RunTyped
<1> QED
  BY <1>1, <1>2, PolicyTyped, PolicyTypedNext DEF Operate

(* It throws, or the recorder refuses an event.                             *)
LEMMA ThrowTyped ==
  ASSUME PolicyTypeOK, OperationThrows \/ RecorderRefuses PROVE PolicyTypeOK'
BY JobsTyped, RunTyped, WordsTyped, PolicyTyped, PolicyTypedNext DEF OperationThrows, RecorderRefuses

(* The events a run can start with.                                         *)
LEMMA OpeningTyped ==
  /\ <<RunEvent("run.started", {})>> \in Seq(Event)
  /\ <<RunEvent("run.started", {}), RunEvent("checkpoint.created", {1})>> \in Seq(Event)
  /\ <<RunEvent("run.started", {}), RunEvent("run.failed", {1})>> \in Seq(Event)
<1>1. {"run.started", "checkpoint.created", "run.failed"} \subseteq EventType
  BY DEF EventType
<1>2. {} \in SUBSET Nat /\ {1} \in SUBSET Nat
  OBVIOUS
<1>3. \A type \in EventType, parents \in SUBSET Nat : RunEvent(type, parents) \in Event
  BY WordsTyped, EventsTyped
<1>4. /\ RunEvent("run.started", {}) \in Event /\ RunEvent("checkpoint.created", {1}) \in Event
      /\ RunEvent("run.failed", {1}) \in Event
  BY <1>1, <1>2, <1>3
<1> QED
  BY <1>4, TwoLong

(* The policy the caller brings.                                            *)
LEMMA ConfigureTyped ==
  ASSUME NEW approvals, approvals \in {ApprovalSets, {{}}}, Configure(approvals)
  PROVE  rules' \in Seq(Rule) /\ approved' \subseteq Seq(STRING)
BY PolicyAssumption DEF Configure

(* A run starts, or fails at once.                                          *)
LEMMA StartTyped ==
  ASSUME PolicyTypeOK, NEW approvals, approvals \in {ApprovalSets, {{}}},
         StartRun(approvals) \/ FailAtStart, UNCHANGED <<job, executed>>
  PROVE  PolicyTypeOK'
BY OpeningTyped, ConfigureTyped, PolicyTyped, PolicyTypedNext DEF StartRun, FailAtStart

(* A run ends.                                                              *)
LEMMA EndTyped ==
  ASSUME PolicyTypeOK, NEW status \in {"completed", "failed"}, EndRun(status)
  PROVE  log' \in Seq(Event) /\ runStatus' \in {"completed", "failed"}
<1>1. log \in Seq(Event) /\ Latest \in SUBSET Nat
  BY PolicyTyped, LatestTyped
<1>2. Ending[status] \in EventType
  BY DEF Ending, EventType
<1>3. RunEvent(Ending[status], Latest) \in Event
  BY <1>1, <1>2, WordsTyped, EventsTyped
<1> QED
  BY <1>1, <1>3 DEF EndRun

(* What the semantic runner submits is an action.                           *)
LEMMA ActionsTyped ==
  ASSUME agent \in Agent, NEW node \in Node, NEW n \in Nat \ {0}
  PROVE  /\ AgentAction(node, n) \in Action
         /\ \A v \in Verifiers \cap STRING : VerifierAction(node, v, n) \in Action
<1>1. node.id \in STRING /\ node.sideEffect \in Effects /\ agent.sideEffect \in Effects
  BY DEF Node, Agent
<1>2. "live" \in Modes /\ "agent" \in Kinds /\ "verifier" \in Kinds
  BY DEF Modes, Kinds
<1>3. MostRestrictive(node.sideEffect, agent.sideEffect) \in Effects
  BY <1>1 DEF MostRestrictive
<1>4. AgentAction(node, n) \in Action
  <2>1. <<node.id>> \in Seq(STRING)
    BY <1>1, OneLong
  <2> QED
    BY <1>1, <1>2, <1>3, <2>1 DEF AgentAction, Action
<1>5. ASSUME NEW v \in Verifiers \cap STRING PROVE VerifierAction(node, v, n) \in Action
  <2>1. <<node.id, v>> \in Seq(STRING)
    BY <1>1, TwoLong
  <2>2. VerifierSideEffect[v] \in Effects
    BY SemanticAssumption
  <2> QED
    BY <1>1, <1>2, <2>1, <2>2 DEF VerifierAction, Action
<1> QED
  BY <1>4, <1>5

(* The verifiers that are left.                                             *)
Checking == [on : BOOLEAN, left : Seq(STRING), rejected : BOOLEAN]

(* The semantic runner at work keeps the types.                             *)
LEMMA SemanticTyped ==
  ASSUME Work, PolicyTypeOK, SemanticTypeOK PROVE PolicyTypeOK' /\ SemanticTypeOK'
<1>1. /\ runStatus = "running" /\ workflow \in Workflow /\ agent \in Agent /\ checking \in Checking
      /\ diagnostics \subseteq SemanticCodes /\ inputsValid \in BOOLEAN
      /\ report \in [process : {"none", "matched", "diverged"},
                     result : {"none", "equivalent", "not_equivalent"}]
      /\ cursor \in Nat \ {0} /\ attempt \in Nat /\ progressed \in BOOLEAN
  BY WorkFacts DEF SemanticTypeOK, Checking
<1>2. /\ rules \in Seq(Rule) /\ approved \subseteq Seq(STRING)
      /\ runStatus \in {"none", "running", "completed", "failed", "rejected"}
      /\ log \in Seq(Event) /\ job \in Job /\ executed \in Executions
  BY PolicyTyped
<1>3. results' \in Seq([node : STRING, status : Statuses, attempts : Nat])
  <2>4. \A i \in DOMAIN workflow.nodes : workflow.nodes[i].id \in STRING
    BY WorkFacts DEF Node
  <2>1. Ids(workflow) \subseteq STRING
    BY <2>4 DEF Ids
  <2>2. Result(workflow) \subseteq [node : STRING, status : Statuses, attempts : Nat]
    BY <2>1 DEF Result
  <2>3. results' \in Seq(Result(workflow))
    BY ResultsMove
  <2> QED
    BY <2>2, <2>3, SeqMonotonic
<1>4. workflow' = workflow /\ agent' = agent /\ inputsValid' = inputsValid
  BY WorkFacts, MovesStay DEF Work, SemInv
<1> DEFINE Walks == /\ cursor' \in Nat \ {0} /\ attempt' \in Nat /\ progressed' \in BOOLEAN
                    /\ checking' \in Checking /\ diagnostics' \subseteq SemanticCodes
                    /\ report' \in [process : {"none", "matched", "diverged"},
                                    result : {"none", "equivalent", "not_equivalent"}]
           Judged == /\ rules' \in Seq(Rule) /\ approved' \subseteq Seq(STRING)
                      /\ runStatus' \in {"none", "running", "completed", "failed", "rejected"}
                      /\ log' \in Seq(Event) /\ job' \in Job /\ executed' \in Executions
<1>5. SUFFICES Walks /\ Judged
  BY <1>1, <1>3, <1>4, PolicyTypedNext DEF SemanticTypeOK, Checking
<1>6. /\ cursor + 1 \in Nat \ {0} /\ attempt + 1 \in Nat \ {0} /\ TRUE \in BOOLEAN
      /\ NotChecking \in Checking /\ Idle \in Job
      /\ {"UNRESOLVED_DEPENDENCY", "POLICY_BLOCKED", "SUCCESS_CONDITION_FAILED",
          "OUTPUT_MISSING", "OUTPUT_SCHEMA_MISMATCH"} \subseteq SemanticCodes
  <2>1. NotChecking \in Checking
    <3>1. <<>> \in Seq(STRING)
      OBVIOUS
    <3> QED
      BY <3>1 DEF NotChecking, Checking
  <2>2. {"UNRESOLVED_DEPENDENCY", "POLICY_BLOCKED", "SUCCESS_CONDITION_FAILED",
         "OUTPUT_MISSING", "OUTPUT_SCHEMA_MISMATCH"} \subseteq SemanticCodes
    BY DEF SemanticCodes
  <2>3. cursor + 1 \in Nat \ {0} /\ attempt + 1 \in Nat \ {0} /\ TRUE \in BOOLEAN
    BY <1>1
  <2> QED
    BY <2>1, <2>2, <2>3, JobsTyped
<1>7. ASSUME UNCHANGED policyVars PROVE Judged
  BY <1>2, <1>7 DEF policyVars
<1>8. ASSUME UNCHANGED semanticVars PROVE Walks
  BY <1>1, <1>8 DEF semanticVars
<1>9. Visiting \/ attempt > 0 => Current \in Node
  <2>1. ASSUME Visiting PROVE cursor \in DOMAIN workflow.nodes
    BY <1>1, <2>1, WorkFacts DEF Visiting
  <2> QED
    BY <2>1, WorkFacts, WorkStands DEF Current
<1>10. \A n \in Nat \ {0} : Visiting \/ attempt > 0 =>
         Submitted(AgentAction(Current, n), Current.needsApproval, 0) \in Job
  <2>1. ASSUME Visiting \/ attempt > 0 PROVE Current \in Node /\ Current.needsApproval \in BOOLEAN
    BY <1>9, <2>1 DEF Node
  <2> QED
    BY <1>1, <2>1, ActionsTyped, JobsTyped
<1> HIDE DEF Walks, Judged
<1>11. CASE PassOver
  BY <1>1, <1>6, <1>7, <1>11 DEF PassOver, Walks
<1>12. CASE BlockOrSkip
  BY <1>1, <1>6, <1>7, <1>12 DEF BlockOrSkip, Settle, Walks
<1>13. CASE BeginNode
  <2>1. Judged
    BY <1>2, <1>10, <1>13 DEF BeginNode, Judged
  <2>2. Walks
    BY <1>1, <1>13 DEF BeginNode, Walks
  <2> QED
    BY <2>1, <2>2
<1>14. CASE RecordDecision /\ UNCHANGED semanticVars
  BY <1>8, <1>14, DecisionTyped, PolicyTypedNext DEF Judged
<1>15. CASE OperateSemantic
  <2>1. PICK outcomes \in SUBSET Values : Operate(outcomes) /\ UNCHANGED semanticVars
    BY <1>15, WordsTyped DEF OperateSemantic
  <2> QED
    BY <1>8, <2>1, OperationTyped, PolicyTypedNext DEF Judged
<1>16. ASSUME attempt > 0, TryAgain
       PROVE  /\ job' \in Job /\ cursor' \in Nat \ {0} /\ attempt' \in Nat
              /\ progressed' \in BOOLEAN
              /\ diagnostics' \subseteq SemanticCodes
  <2>1. job' \in Job
    BY <1>6, <1>10, <1>16 DEF TryAgain, FailNode
  <2>2. diagnostics' \subseteq SemanticCodes
    <3>1. UNCHANGED diagnostics
            \/ diagnostics' = diagnostics \cup {"SUCCESS_CONDITION_FAILED"}
      BY <1>16 DEF TryAgain, FailNode
    <3> QED
      BY <1>1, <1>6, <3>1
  <2>3. cursor' \in Nat \ {0} /\ attempt' \in Nat /\ progressed' \in BOOLEAN
    <3>1. /\ UNCHANGED cursor \/ cursor' = cursor + 1
          /\ attempt' = attempt + 1 \/ attempt' = 0
      BY <1>16 DEF TryAgain, FailNode, Settle
    <3>2. cursor' \in Nat \ {0} /\ attempt' \in Nat
      BY <1>1, <3>1
    <3>3. progressed' \in BOOLEAN
      BY <1>1, <1>16, Zenon DEF TryAgain, FailNode, Settle
    <3> QED
      BY <3>2, <3>3
  <2> QED
    BY <2>1, <2>2, <2>3
<1>17. CASE AgentAnswered
  <2>0. attempt > 0
    BY <1>1, <1>17, WorkStands DEF AgentAnswered
  <2>1. CASE job.outcome \in {"blocked", "undefined"} /\ FailNode("POLICY_BLOCKED") /\ UNCHANGED checking
    BY <1>1, <1>2, <1>6, <1>17, <2>1 DEF AgentAnswered, FailNode, Settle, Walks, Judged
  <2>2. CASE TryAgain /\ UNCHANGED checking
    BY <1>1, <1>2, <1>16, <1>17, <2>0, <2>2 DEF AgentAnswered, Walks, Judged
  <2>3. CASE /\ checking' = [on |-> TRUE, left |-> Current.verifiers,
                             rejected |-> job.outcome = "bad"]
             /\ job' = Idle /\ UNCHANGED <<results, cursor, progressed, attempt, diagnostics>>
    <3>1. Current.verifiers \in Seq(STRING) /\ (job.outcome = "bad") \in BOOLEAN
      BY <1>9, <2>0 DEF Node
    <3>2. checking' \in Checking
      BY <2>3, <3>1 DEF Checking
    <3> QED
      BY <1>1, <1>2, <1>6, <1>17, <2>3, <3>2 DEF AgentAnswered, Walks, Judged
  <2> QED
    BY <1>17, <2>1, <2>2, <2>3 DEF AgentAnswered
<1>18. \A rejected \in BOOLEAN : checking.left # <<>> =>
         [checking EXCEPT !.left = Tail(checking.left), !.rejected = rejected] \in Checking
  <2>1. checking.left \in Seq(STRING)
    BY <1>1 DEF Checking
  <2>2. checking.left # <<>> => Tail(checking.left) \in Seq(STRING)
    BY <2>1, HeadTailProperties
  <2> QED
    BY <1>1, <2>2 DEF Checking
<1>19. CASE CheckNext
  <2>0. attempt > 0 /\ checking.on /\ checking.left # <<>> /\ checking.left \in Seq(STRING)
    BY <1>1, <1>19, WorkStands DEF CheckNext, Checking
  <2>1. CASE /\ Head(checking.left) \in Verifiers /\ UNCHANGED checking
             /\ job' = Submitted(VerifierAction(Current, Head(checking.left), attempt), FALSE, 0)
    <3>1. Head(checking.left) \in Verifiers \cap STRING /\ attempt \in Nat \ {0}
      BY <1>1, <2>0, <2>1
    <3>2. job' \in Job
      BY <1>1, <1>9, <2>0, <2>1, <3>1, ActionsTyped, JobsTyped
    <3> QED
      BY <1>1, <1>2, <1>19, <2>1, <3>2 DEF CheckNext, Walks, Judged
  <2>2. CASE /\ UNCHANGED job
             /\ checking' = [checking EXCEPT !.left = Tail(checking.left), !.rejected = TRUE]
    BY <1>1, <1>2, <1>18, <1>19, <2>0, <2>2 DEF CheckNext, Walks, Judged
  <2> QED
    BY <1>19, <2>1, <2>2 DEF CheckNext
<1>20. CASE VerifierAnswered
  <2>1. checking.left # <<>>
    BY <1>1, <1>20, WorkStands, ActionParts DEF VerifierAnswered
  <2>2. (checking.rejected \/ job.outcome # "completed") \in BOOLEAN
    OBVIOUS
  <2>3. checking' \in Checking
    BY <1>18, <1>20, <2>1, <2>2 DEF VerifierAnswered
  <2> QED
    BY <1>1, <1>2, <1>6, <1>20, <2>3 DEF VerifierAnswered, Walks, Judged
<1>21. CASE Conclude
  <2>0. attempt > 0 /\ Current \in Node
    BY <1>1, <1>9, <1>21, WorkStands DEF Conclude
  <2>1. CASE TryAgain /\ UNCHANGED log
    BY <1>1, <1>2, <1>6, <1>16, <1>21, <2>0, <2>1 DEF Conclude, Walks, Judged
  <2>2. CASE /\ log' = Append(log, [RunEvent("decision.recorded", Latest) EXCEPT
                                      !.key = <<Current.id>>, !.value = "completed"])
             /\ Settle("completed", attempt) /\ attempt' = 0 /\ UNCHANGED <<job, diagnostics>>
    <3>1. RunEvent("decision.recorded", Latest) \in Event
      BY <1>2, LatestTyped, EventsTyped, WordsTyped DEF EventType
    <3>2. <<Current.id>> \in Seq(STRING)
      BY <2>0, OneLong DEF Node
    <3>3. [RunEvent("decision.recorded", Latest) EXCEPT
             !.key = <<Current.id>>, !.value = "completed"] \in Event
      BY <3>1, <3>2, WordsTyped DEF Event
    <3>4. log' \in Seq(Event)
      BY <1>2, <2>2, <3>3
    <3> QED
      BY <1>1, <1>2, <1>6, <1>21, <2>2, <3>4 DEF Conclude, Settle, Walks, Judged
  <2> QED
    BY <1>21, <2>1, <2>2 DEF Conclude
<1>22. CASE EndPass \/ StopRest
  <2>1. Judged
    BY <1>7, <1>22 DEF EndPass, StopRest
  <2>2. CASE EndPass
    <3>1. /\ UNCHANGED <<attempt, checking, report>>
          /\ \/ cursor' = 1 /\ progressed' = FALSE /\ UNCHANGED diagnostics
             \/ /\ diagnostics' = diagnostics \cup {"UNRESOLVED_DEPENDENCY"}
                /\ UNCHANGED <<cursor, progressed>>
      BY <2>2 DEF EndPass
    <3>2. diagnostics' \subseteq SemanticCodes
      BY <1>1, <1>6, <3>1
    <3>3. progressed' \in BOOLEAN
      BY <1>1, <3>1, Zenon
    <3>4. cursor' \in Nat \ {0}
      <4>1. cursor' = cursor \/ cursor' = 1
        BY <3>1
      <4> QED
        BY <1>1, <4>1
    <3> QED
      BY <1>1, <2>1, <3>1, <3>2, <3>3, <3>4 DEF Walks
  <2>3. CASE StopRest
    BY <1>1, <2>1, <2>3 DEF StopRest, Walks
  <2> QED
    BY <1>22, <2>2, <2>3
<1>23. CASE Finish
  <2>1. PICK status \in {"completed", "failed"}, p \in {"matched", "diverged"},
             r \in {"equivalent", "not_equivalent"} :
          EndRun(status) /\ report' = [process |-> p, result |-> r]
    BY <1>23 DEF Finish
  <2>2. log' \in Seq(Event) /\ runStatus' \in {"completed", "failed"}
    BY <2>1, EndTyped
  <2>3. diagnostics' \subseteq diagnostics \cup {"OUTPUT_MISSING", "OUTPUT_SCHEMA_MISMATCH"}
    BY <1>23 DEF Finish
  <2>4. Judged
    BY <1>2, <1>23, <2>2 DEF Finish, Judged
  <2>5. Walks
    BY <1>1, <1>6, <1>23, <2>1, <2>3 DEF Finish, Walks
  <2> QED
    BY <2>4, <2>5
<1>24. CASE StartSemantic
  BY <1>1, <1>24 DEF StartSemantic, StartRun, FailAtStart
<1> QED
  BY <1>11, <1>12, <1>13, <1>14, <1>15, <1>17, <1>19, <1>20, <1>21, <1>22, <1>23, <1>24
     DEF Work, SemanticStep

(* So it does when it starts.                                               *)
LEMMA SemanticStartTyped ==
  ASSUME PolicyTypeOK, SemanticTypeOK, StartSemantic PROVE PolicyTypeOK' /\ SemanticTypeOK'
<1>1. PolicyTypeOK'
  <2>1. StartRun(ApprovalSets) \/ FailAtStart
    BY DEF StartSemantic
  <2> QED
    BY <2>1, StartTyped DEF StartSemantic
<1>2. /\ UNCHANGED <<workflow, agent, inputsValid, results, cursor, progressed, attempt, checking>>
      /\ \/ UNCHANGED <<diagnostics, report>>
         \/ /\ diagnostics' = {Refusal} /\ Refusal # "none"
            /\ report' = [process |-> "diverged", result |-> "not_equivalent"]
  BY DEF StartSemantic
<1>3. Refusal \in SemanticCodes \cup {"none"}
  BY DEF Refusal, SemanticCodes
<1> QED
  BY <1>1, <1>2, <1>3 DEF SemanticTypeOK

(* The calls a mock replay may be given to follow.                          *)
PlannedCall == [call : Calls, attempt : Nat, input : Values]
Plans == Seq(PlannedCall)

(* The diagnostics of a start.                                              *)
LEMMA CodesTyped ==
  /\ SourceFaults \subseteq ReplayCodes /\ ResumeFaults \subseteq ReplayCodes
  /\ PlanFaults \subseteq ReplayCodes
  /\ \A C : {code \in {"POLICY_BLOCKED"} : C} \subseteq ReplayCodes
<1> DEFINE raised == {"SOURCE_TRACE_INVALID", "SOURCE_TRACE_OBSERVATION_ONLY", "INVALID_REQUEST",
                      "INVALID_RESPONSE", "MISSING_RESPONSE", "CALL_PLAN_MISMATCH",
                      "CHECKPOINT_NOT_FOUND", "CHECKPOINT_INVALID", "POLICY_BLOCKED"}
<1>1. raised \subseteq ReplayCodes
  BY DEF ReplayCodes
<1>2. ScheduleFaults(Events) \subseteq raised
  BY Zenon DEF ScheduleFaults
<1>3. SourceFaults \subseteq raised
  BY <1>2 DEF SourceFaults
<1>4. ResumeFaults \subseteq raised
  BY DEF ResumeFaults
<1>5. PlanFaults \subseteq raised /\ \A C : {code \in {"POLICY_BLOCKED"} : C} \subseteq raised
  BY DEF PlanFaults
<1> HIDE DEF raised
<1> QED
  BY <1>1, <1>3, <1>4, <1>5

(* Attempts are counted from one.                                           *)
LEMMA AttemptTyped ==
  ASSUME NEW events, NEW n \in Nat, NEW i \in 1..n
  PROVE  /\ AttemptAt(events, i) \in Nat
         /\ Requested(events[i]) => AttemptAt(events, i) \in Nat \ {0}
<1> DEFINE S == {j \in 1..i : Requested(events[j]) /\ SameCall(events[i], events[j])}
<1>1. i \in Nat /\ S \subseteq 1..i /\ AttemptAt(events, i) = Cardinality(S)
  BY DEF AttemptAt
<1>2. Cardinality(S) \in Nat /\ \A T : T \subseteq S => Cardinality(T) <= Cardinality(S)
  <2> HIDE DEF S
  <2> QED
    BY <1>1, Counting
<1>3. ASSUME Requested(events[i]) PROVE Cardinality(S) # 0
  <2>1. {i} \subseteq S
    BY <1>1, <1>3 DEF SameCall
  <2>2. Cardinality({i}) = 1
    BY FS_Singleton
  <2> HIDE DEF S
  <2> QED
    BY <1>2, <2>1, <2>2
<1> QED
  BY <1>1, <1>2, <1>3

(* The calls of a source make up a plan.                                    *)
LEMMA PlanTyped ==
  ASSUME TraceInv, CallsKnown, trace \in Seq(Event), Executable
  PROVE  SourceCalls(Events) \in Plans
<1> DEFINE S == {i \in DOMAIN trace : ReplayableCall(trace[i])}
           n == Len(trace)
           call(i) == [call |-> CallFor(trace[i]), attempt |-> AttemptAt(trace, i),
                       input |-> trace[i].value]
<1>1. Events = trace /\ DOMAIN trace = 1..n /\ n \in Nat
  BY ExecutableWhole
<1>2. S \subseteq 1..n /\ Cardinality(S) \in Nat
      /\ \A k \in 1..Cardinality(S) : Position(S, k) \in S
  <2>1. S \subseteq 1..n
    BY <1>1
  <2> HIDE DEF S
  <2> QED
    BY <1>1, <2>1, PositionFacts
<1>3. ASSUME NEW i \in S PROVE call(i) \in PlannedCall
  <2>1. i \in 1..n /\ Requested(trace[i]) /\ trace[i] \in Event
    BY <1>1, <1>3 DEF ReplayableCall
  <2>2. CallFor(trace[i]) \in Calls
    BY <1>1, <2>1, CallFound DEF CallsKnown
  <2>3. AttemptAt(trace, i) \in Nat
    BY <1>1, <2>1, AttemptTyped
  <2>4. trace[i].value \in Values
    BY <2>1 DEF Event
  <2> QED
    BY <2>2, <2>3, <2>4 DEF PlannedCall
<1>4. SourceCalls(Events) = [k \in 1..Cardinality(S) |-> call(Position(S, k))]
  BY <1>1 DEF SourceCalls
<1> HIDE DEF S, call
<1>5. SourceCalls(Events) \in [1..Cardinality(S) -> PlannedCall]
  BY <1>2, <1>3, <1>4
<1> QED
  BY <1>2, <1>5 DEF Plans

(* The caller's choice of a runner keeps the types.                         *)
LEMMA ChoiceTyped ==
  ASSUME TraceInv, CallsKnown, SessionTypeOK, NewRunner PROVE SessionTypeOK'
<1>1. SnapshotTypeOK /\ PolicyTypeOK /\ SemanticTypeOK /\ ReplayTypeOK
  BY DEF SessionTypeOK
<1>2. SnapshotTypeOK' /\ PolicyTypeOK'
  BY <1>1 DEF NewRunner, snapshotVars, policyVars, SnapshotTypeOK, PolicyTypeOK
<1>3. ASSUME UNCHANGED semanticVars PROVE SemanticTypeOK'
  BY <1>1, <1>3 DEF semanticVars, SemanticTypeOK
<1>4. ASSUME UNCHANGED replayVars PROVE ReplayTypeOK'
  BY <1>1, <1>4 DEF replayVars, ReplayTypeOK
<1>5. ASSUME NEW documents \in SUBSET Workflow, NewSemanticRunner(documents)
      PROVE  SemanticTypeOK'
  BY <1>1, <1>5, SemanticAssumption DEF NewSemanticRunner, SemanticTypeOK
<1>6. CASE mode' = "semantic" /\ UNCHANGED replayVars /\ NewSemanticRunner(Workflows)
  <2>1. Workflows \in SUBSET Workflow
    BY SemanticAssumption
  <2> QED
    BY <1>2, <1>4, <1>5, <1>6, <2>1 DEF SessionTypeOK
<1>7. CASE /\ mode' = "semantic" /\ UNCHANGED replayVars /\ CompilerDiagnostic = "none"
           /\ NewSemanticRunner({Generated(Events)})
  <2>1. Executable /\ Grouped(Events) # {}
    BY <1>7 DEF CompilerDiagnostic, Executable
  <2>2. Len(lines) \in Nat /\ Earlier(Events, Len(lines))
    BY <2>1, ValidEvents DEF Executable, Earlier
  <2>3. {Generated(Events)} \in SUBSET Workflow
    BY <2>1, <2>2, GeneratedTyped
  <2> QED
    BY <1>2, <1>4, <1>5, <1>7, <2>3 DEF SessionTypeOK
<1>8. CASE mode' = "mock" /\ NewMockRunner /\ UNCHANGED semanticVars
  <2>1. plan' \in Plans
    <3>1. CASE Executable
      <4>1. SourceCalls(Events) \in Plans
        BY <1>1, <3>1, PlanTyped DEF SnapshotTypeOK
      <4>2. SubSeq(SourceCalls(Events), 2, Len(SourceCalls(Events))) \in Plans
        <5> DEFINE s == SourceCalls(Events)
        <5>1. s \in Seq(PlannedCall)
          BY <4>1 DEF Plans
        <5> HIDE DEF s
        <5>2. 2 \in Int /\ Len(s) \in Int /\ \A i \in 2..Len(s) : s[i] \in PlannedCall
          BY <5>1
        <5>3. SubSeq(s, 2, Len(s)) \in Seq(PlannedCall)
          BY <5>2, SubSeqProperties
        <5> QED
          BY <5>3 DEF Plans, s
      <4> QED
        BY <1>8, <3>1, <4>1, <4>2 DEF NewMockRunner
    <3>2. CASE ~Executable
      <4>1. plan' = <<>>
        BY <1>8, <3>2 DEF NewMockRunner
      <4>2. <<>> \in Plans
        BY DEF Plans
      <4> QED
        BY <4>1, <4>2
    <3> QED
      BY <3>1, <3>2
  <2>2. ReplayTypeOK'
    BY <1>1, <1>8, <2>1 DEF NewMockRunner, ReplayTypeOK, Plans, PlannedCall
  <2> QED
    BY <1>2, <1>3, <1>8, <2>2 DEF SessionTypeOK
<1>9. CASE mode' = "verified" /\ NewVerifiedRunner /\ UNCHANGED semanticVars
  <2>1. resume' \in Nat
    <3>1. Len(saved) \in Nat
      BY <1>1 DEF SnapshotTypeOK
    <3> QED
      BY <1>9, <3>1 DEF NewVerifiedRunner
  <2>2. ReplayTypeOK'
    BY <1>1, <1>9, <2>1 DEF NewVerifiedRunner, ReplayTypeOK
  <2> QED
    BY <1>2, <1>3, <1>9, <2>2 DEF SessionTypeOK
<1> QED
  BY <1>6, <1>7, <1>8, <1>9 DEF NewRunner

(* So does the start of a mock or a verified replay.                        *)
LEMMA TraceStartTyped ==
  ASSUME TraceInv, SnapshotTypeOK, PolicyTypeOK, ReplayTypeOK, StartMock \/ StartVerified
  PROVE  PolicyTypeOK' /\ ReplayTypeOK'
<1>1. ASSUME NEW faults, faults \subseteq ReplayCodes, RefuseSource(faults),
             UNCHANGED <<job, executed>>
      PROVE  PolicyTypeOK' /\ ReplayTypeOK'
  <2>1. PolicyTypeOK'
    BY <1>1, StartTyped DEF RefuseSource
  <2> QED
    BY <1>1, <2>1 DEF RefuseSource, ReplayTypeOK
<1>2. ASSUME NEW from \in Nat, EnterLoop(from), adapters' \subseteq Adapter PROVE ReplayTypeOK'
  <2>1. requests' \in Seq(Nat)
    <3>1. Len(lines) \in Nat /\ DOMAIN Events = 1..Len(lines)
      BY DEF SnapshotTypeOK, Events
    <3>2. requests' = [i \in 1..Len(lines) |-> 0] /\ 0 \in Nat
      BY <1>2, <3>1 DEF EnterLoop
    <3> QED
      BY <3>1, <3>2
  <2>2. position' \in Nat \ {0}
    BY <1>2 DEF EnterLoop
  <2> QED
    BY <1>2, <2>1, <2>2 DEF EnterLoop, ReplayTypeOK
<1>3. CASE StartMock
  <2>1. CASE StartRun({{}}) /\ EnterLoop(0) /\ UNCHANGED adapters
    <3>1. PolicyTypeOK'
      BY <1>3, <2>1, StartTyped DEF StartMock
    <3>2. 0 \in Nat /\ adapters' \subseteq Adapter
      BY <2>1 DEF ReplayTypeOK
    <3> QED
      BY <1>2, <2>1, <3>1, <3>2
  <2>2. CASE \E faults \in {SourceFaults, PlanFaults} : RefuseSource(faults)
    BY <1>1, <1>3, <2>2, CodesTyped DEF StartMock
  <2> QED
    BY <1>3, <2>1, <2>2 DEF StartMock
<1>4. CASE StartVerified
  <2>1. CASE ResumeFaults = {} /\ SourceFaults = {}
    <3>1. /\ EnterLoop(ResumeSequence) /\ runStatus' = "running" /\ UNCHANGED <<job, executed>>
          /\ Configure(ApprovalSets) /\ adapters' \in LiveAdapters
          /\ log' = IF resume = 0 THEN <<RunEvent("run.started", {})>>
                    ELSE <<RunEvent("run.started", {}), RunEvent("checkpoint.created", {1})>>
      BY <1>4, <2>1 DEF StartVerified
    <3>2. PolicyTypeOK'
      BY <3>1, OpeningTyped, ConfigureTyped, PolicyTyped, PolicyTypedNext
    <3>3. ResumeSequence \in Nat
      <4>1. CASE resume = 0
        BY <4>1 DEF ResumeSequence
      <4>2. CASE resume # 0
        <5>1. ~(resume > Len(saved))
          BY <2>1, <4>2 DEF ResumeFaults
        <5>2. resume \in Nat /\ saved \in Seq(Checkpoint)
          BY DEF ReplayTypeOK, SnapshotTypeOK
        <5>3. resume \in 1..Len(saved)
          BY <4>2, <5>1, <5>2
        <5>4. saved[resume] \in Checkpoint
          BY <5>2, <5>3
        <5> QED
          BY <4>2, <5>4 DEF ResumeSequence, Checkpoint
      <4> QED
        BY <4>1, <4>2
    <3>4. adapters' \subseteq Adapter
      BY <3>1, VerifiedAssumption
    <3> QED
      BY <1>2, <3>1, <3>2, <3>3, <3>4
  <2>2. CASE \E faults \in {ResumeFaults, SourceFaults} : RefuseSource(faults)
    BY <1>1, <1>4, <2>2, CodesTyped DEF StartVerified
  <2> QED
    BY <1>4, <2>1, <2>2 DEF StartVerified
<1> QED
  BY <1>3, <1>4

(* What they submit is an action.                                           *)
LEMMA LiveActionTyped ==
  ASSUME WalkStep, AtWalk, Responded(trace[position]), NEW m \in Modes, NEW sideEffect \in Effects
  PROVE  CallAction(m, sideEffect) \in Action
<1>1. /\ Events = trace /\ ScheduleSound /\ position \in 1..Len(trace) /\ Len(trace) \in Nat
  BY WalkFacts DEF AtWalk
<1>2. CallFor(Here) \in Calls
  BY <1>1 DEF ScheduleSound, Here
<1>3. /\ SourceRequest \in 1..Len(trace) /\ Requested(trace[SourceRequest])
  BY <1>1, RequestAtHand DEF SourceRequest
<1>4. AttemptAt(Events, SourceRequest) \in Nat \ {0}
  BY <1>1, <1>3, AttemptTyped
<1>5. LET call == CallFor(Here)
      IN call.kind \in Kinds /\ call.key \in Seq(STRING) /\ call.target \in {""} \cup STRING
  BY <1>2, CallsAssumption DEF Kinds
<1> QED
  BY <1>4, <1>5 DEF CallAction, Action

(* What they record of an answer is an event.                               *)
LEMMA ResponseTyped ==
  ASSUME WalkStep, position \in 1..Len(trace), Responded(trace[position]), log \in Seq(Event),
         job \in Job, NEW value \in Values, AppendResponse(value)
  PROVE  log' \in Seq(Event)
<1>1. CallFor(Here) \in Calls
  BY WalkFacts DEF ScheduleSound, Here
<1>2. {job.request} \in SUBSET Nat
  BY DEF Job
<1>3. (IF value \in Outputs THEN "completed" ELSE "failed") \in EventType
  BY DEF EventType
<1>4. CallEvent(IF value \in Outputs THEN "completed" ELSE "failed", CallFor(Here), value,
                {job.request}) \in Event
  BY <1>1, <1>2, <1>3, EventsTyped
<1> QED
  BY <1>4 DEF AppendResponse

(* And their steps keep the types.                                          *)
LEMMA TraceTyped ==
  ASSUME WalkStep, SnapshotTypeOK, PolicyTypeOK, ReplayTypeOK PROVE PolicyTypeOK' /\ ReplayTypeOK'
<1>1. /\ plan \in Plans /\ resume \in Nat /\ adapters \subseteq Adapter /\ position \in Nat \ {0}
      /\ requests \in Seq(Nat) /\ halted \in BOOLEAN /\ issues \subseteq ReplayCodes
      /\ differences \subseteq Nat
  BY DEF ReplayTypeOK, Plans, PlannedCall
<1>2. /\ rules \in Seq(Rule) /\ approved \subseteq Seq(STRING) /\ log \in Seq(Event)
      /\ runStatus \in {"none", "running", "completed", "failed", "rejected"}
      /\ job \in Job /\ executed \in Executions
  BY PolicyTyped
<1>3. /\ Events = trace /\ DOMAIN trace = 1..Len(trace) /\ Len(trace) \in Nat
      /\ runStatus = "running" /\ ScheduleSound /\ trace \in Seq(Event) /\ Answering
      /\ requests \in [1..Len(trace) -> Nat]
  BY WalkFacts DEF SnapshotTypeOK
<1>4. /\ AtEvent => AtWalk
      /\ AtWalk => Here \in Event /\ Here = trace[position] /\ position \in 1..Len(trace)
      /\ job.step = "returned" =>
           Here \in Event /\ Here = trace[position] /\ position \in 1..Len(trace) /\ Responded(Here)
  BY <1>1, <1>3 DEF AtEvent, AtWalk, Here, Answering
<1>5. position + 1 \in Nat \ {0} /\ Latest \in SUBSET Nat /\ Idle \in Job
  <2>1. position + 1 \in Nat \ {0}
    BY <1>1
  <2> QED
    BY <1>2, <2>1, LatestTyped, JobsTyped
<1>6. {"SOURCE_ARTIFACT_INVALID", "CHECKPOINT_CUTS_ACTIVE_CALL", "MISSING_LIVE_ADAPTER",
       "RECORDED_OUTCOME_MISMATCH", "SOURCE_STATE_UNAVAILABLE", "FINAL_STATE_MISMATCH"}
        \subseteq ReplayCodes
  BY DEF ReplayCodes
<1> DEFINE Judged == /\ rules' \in Seq(Rule) /\ approved' \subseteq Seq(STRING)
                      /\ runStatus' \in {"none", "running", "completed", "failed", "rejected"}
                      /\ log' \in Seq(Event) /\ job' \in Job /\ executed' \in Executions
           Walks == /\ plan' \in Plans /\ resume' \in Nat /\ adapters' \subseteq Adapter
                    /\ position' \in Nat \ {0} /\ requests' \in Seq(Nat) /\ halted' \in BOOLEAN
                    /\ issues' \subseteq ReplayCodes /\ differences' \subseteq Nat
<1>7. SUFFICES Judged /\ Walks
  BY PolicyTypedNext DEF ReplayTypeOK, Plans, PlannedCall
<1>8. ASSUME UNCHANGED replayVars PROVE Walks
  BY <1>1, <1>8 DEF replayVars
<1>9. ASSUME PolicyTypeOK' PROVE Judged
  BY <1>9, PolicyTypedNext
<1>10. ASSUME UNCHANGED policyVars PROVE Judged
  BY <1>2, <1>10 DEF policyVars
<1>11. \A code : Halt(code) /\ code \in ReplayCodes =>
         halted' \in BOOLEAN /\ issues' \subseteq ReplayCodes /\ position' \in Nat \ {0}
  <2>1. \A code : code \in ReplayCodes => issues \cup {code} \subseteq ReplayCodes
    BY <1>1
  <2> QED
    BY <1>1, <2>1 DEF Halt
<1>12. Advance => halted' \in BOOLEAN /\ issues' \subseteq ReplayCodes /\ position' \in Nat \ {0}
  BY <1>1, <1>5 DEF Advance
<1> HIDE DEF Judged, Walks
<1>13. CASE MirrorState
  <2>1. AtWalk /\ "SOURCE_ARTIFACT_INVALID" \in ReplayCodes
    BY <1>4, <1>6, <1>13 DEF MirrorState
  <2>2. StateEvent(Here.kind, Here.key, Here.value, Latest) \in Event
    <3>1. Here \in Event /\ Here.value \in Values
      BY <1>4, <2>1 DEF Event
    <3> QED
      BY <1>5, <3>1, EventsTyped DEF EventType
  <2>3. log' \in Seq(Event)
    BY <1>2, <1>13, <2>2 DEF MirrorState
  <2>4. halted' \in BOOLEAN /\ issues' \subseteq ReplayCodes /\ position' \in Nat \ {0}
    BY <1>11, <1>12, <1>13, <2>1 DEF MirrorState
  <2>5. Judged
    BY <1>2, <1>13, <2>3 DEF MirrorState, Judged
  <2>6. Walks
    BY <1>1, <1>13, <2>4 DEF MirrorState, Walks
  <2> QED
    BY <2>5, <2>6
<1>14. CASE MirrorRequest
  <2>1. AtWalk /\ Requested(Here) /\ CallFor(Here) \in Calls /\ Here.value \in Values
    BY <1>3, <1>4, <1>14 DEF MirrorRequest, ReplayableCall, ScheduleSound, Event
  <2>2. CallEvent("requested", CallFor(Here), Here.value, Latest) \in Event
    BY <1>5, <2>1, EventsTyped DEF EventType
  <2>3. log' \in Seq(Event)
    BY <1>2, <1>14, <2>2 DEF MirrorRequest
  <2>4. requests' \in Seq(Nat)
    <3>1. Len(log) + 1 \in Nat /\ position \in 1..Len(requests)
      BY <1>1, <1>2, <1>3, <1>4, <2>1
    <3> QED
      BY <1>1, <1>14, <3>1, ExceptSeq DEF MirrorRequest
  <2>5. halted' \in BOOLEAN /\ issues' \subseteq ReplayCodes /\ position' \in Nat \ {0}
    BY <1>12, <1>14 DEF MirrorRequest
  <2>6. Judged
    BY <1>2, <1>14, <2>3 DEF MirrorRequest, Judged
  <2>7. Walks
    BY <1>1, <1>14, <2>4, <2>5 DEF MirrorRequest, Walks
  <2> QED
    BY <2>6, <2>7
<1>15. CASE PassEvent
  <2>1. Judged
    BY <1>10, <1>15 DEF PassEvent
  <2>2. halted' \in BOOLEAN /\ issues' \subseteq ReplayCodes /\ position' \in Nat \ {0}
    BY <1>12, <1>15 DEF PassEvent
  <2> QED
    BY <1>1, <1>15, <2>1, <2>2 DEF PassEvent, Walks
<1>16. CASE RecordDecision /\ UNCHANGED replayVars
  BY <1>8, <1>9, <1>16, DecisionTyped
<1>17. CASE AppendRefused
  BY <1>8, <1>9, <1>17, ThrowTyped DEF AppendRefused
<1>18. ASSUME AtWalk, Responded(Here), NEW m \in Modes, NEW sideEffect \in Effects
       PROVE  Submitted(CallAction(m, sideEffect), FALSE, requests[SourceRequest]) \in Job
  <2>1. SourceRequest \in 1..Len(trace)
    BY <1>3, <1>4, <1>18, RequestAtHand DEF SourceRequest
  <2>2. requests[SourceRequest] \in Nat /\ FALSE \in BOOLEAN
    BY <1>3, <2>1
  <2>3. CallAction(m, sideEffect) \in Action
    BY <1>4, <1>18, LiveActionTyped
  <2> QED
    BY <2>2, <2>3, JobsTyped
<1>19. "recorded" \in Modes /\ "live" \in Modes
  BY DEF Modes
<1>20. CASE SubmitRecorded
  <2>1. PICK adapter \in Resolve(RecordedAdapters(Events), CallFor(Here)) :
          job' = Submitted(CallAction("recorded", adapter.sideEffect), FALSE,
                           requests[SourceRequest])
    BY <1>20 DEF SubmitRecorded
  <2>2. adapter.sideEffect = "read_only"
    <3>1. adapter \in RecordedAdapters(Events)
      BY <2>1 DEF Resolve
    <3> QED
      BY <3>1 DEF RecordedAdapters
  <2>3. job' \in Job
    BY <1>4, <1>18, <1>19, <1>20, <2>1, <2>2, WordsTyped DEF SubmitRecorded
  <2>4. Judged
    BY <1>2, <1>20, <2>3 DEF SubmitRecorded, Judged
  <2> QED
    BY <1>8, <1>20, <2>4 DEF SubmitRecorded
<1>21. CASE OperateRecorded
  <2>1. RecordedOutcome(Events, SourceRequest) \in Values
    <3>1. \A i \in 1..Len(trace) : trace[i] \in Event
      BY <1>3
    <3>2. \A i \in 1..Len(trace) : trace[i].value \in Values
      BY <3>1 DEF Event
    <3> QED
      BY <1>3, <3>2, OutcomeReads, WordsTyped
  <2> QED
    BY <1>8, <1>9, <1>21, <2>1, OperationTyped DEF OperateRecorded
<1>22. CASE MockAnswered
  <2>1. job.step = "returned" /\ job.outcome \in Values
    BY <1>2, <1>22 DEF MockAnswered, Job
  <2>2. log' \in Seq(Event)
    BY <1>2, <1>4, <1>22, <2>1, ResponseTyped DEF MockAnswered
  <2>3. Judged
    BY <1>2, <1>5, <1>22, <2>2 DEF MockAnswered, Judged
  <2>4. issues' \subseteq ReplayCodes
    <3>1. PICK blocked \in SUBSET ReplayCodes :
            issues' = issues \cup blocked
              \/ issues' = issues \cup blocked \cup {"RECORDED_OUTCOME_MISMATCH"}
      BY <1>22, CodesTyped DEF MockAnswered
    <3> QED
      BY <1>1, <1>6, <3>1
  <2>5. halted' \in BOOLEAN /\ position' \in Nat \ {0}
    <3>1. halted' \in BOOLEAN
      BY <1>1, <1>22, Zenon DEF MockAnswered
    <3>2. position' = position \/ position' = position + 1
      BY <1>22 DEF MockAnswered
    <3> QED
      BY <1>1, <1>5, <3>1, <3>2
  <2>6. Walks
    BY <1>1, <1>22, <2>4, <2>5 DEF MockAnswered, Walks
  <2> QED
    BY <2>3, <2>6
<1>23. ASSUME NEW status \in {"completed", "failed"}, EndRun(status),
              UNCHANGED <<rules, approved, job, executed>>
       PROVE  Judged
  <2>1. log' \in Seq(Event) /\ runStatus' \in {"completed", "failed"}
    BY <1>23, EndTyped
  <2> QED
    BY <1>2, <1>23, <2>1 DEF Judged
<1>24. CASE FinishMock
  <2>1. CASE \E code \in ReplayCodes \cup {"none"} :
               EndRun("failed") /\ issues' \subseteq issues \cup ({code} \ {"none"})
    <3>1. issues' \subseteq ReplayCodes
      BY <1>1, <2>1
    <3>2. Walks
      BY <1>1, <1>24, <3>1 DEF FinishMock, Walks
    <3> QED
      BY <1>23, <1>24, <2>1, <3>2 DEF FinishMock
  <2>2. CASE /\ runStatus' = "completed" /\ UNCHANGED issues
             /\ log' = log \o <<RunEvent("checkpoint.created", Latest),
                                RunEvent("run.completed", {Len(log) + 1})>>
    <3>1. {Len(log) + 1} \in SUBSET Nat
      BY <1>2
    <3>2. "checkpoint.created" \in EventType /\ "run.completed" \in EventType
      BY DEF EventType
    <3>3. /\ RunEvent("checkpoint.created", Latest) \in Event
          /\ RunEvent("run.completed", {Len(log) + 1}) \in Event
      BY <1>5, <3>1, <3>2, EventsTyped, WordsTyped
    <3>4. log' \in Seq(Event)
      BY <1>2, <2>2, <3>3, TwoLong, ConcatProperties
    <3>5. Judged
      BY <1>2, <1>24, <2>2, <3>4 DEF FinishMock, Judged
    <3>6. Walks
      BY <1>1, <1>24, <2>2 DEF FinishMock, Walks
    <3> QED
      BY <3>5, <3>6
  <2> QED
    BY <1>6, <1>24, <2>1, <2>2 DEF FinishMock, FailMock
<1>25. CASE MirrorThrows
  <2>1. Judged
    BY <1>2, <1>25 DEF MirrorThrows, Judged
  <2> QED
    BY <1>8, <1>25, <2>1 DEF MirrorThrows
<1>26. CASE SubmitLive
  <2>1. AtWalk /\ Responded(Here)
    BY <1>4, <1>26 DEF SubmitLive
  <2>2. CASE /\ \E code \in {"CHECKPOINT_CUTS_ACTIVE_CALL", "MISSING_LIVE_ADAPTER"} : Halt(code)
             /\ UNCHANGED job
    <3>1. halted' \in BOOLEAN /\ issues' \subseteq ReplayCodes /\ position' \in Nat \ {0}
      BY <1>6, <1>11, <2>2
    <3>2. Judged
      BY <1>2, <1>26, <2>2 DEF SubmitLive, Judged
    <3>3. Walks
      BY <1>1, <1>26, <3>1 DEF SubmitLive, Walks
    <3> QED
      BY <3>2, <3>3
  <2>3. CASE /\ UNCHANGED <<position, halted, issues>>
             /\ \E adapter \in Resolve(adapters, CallFor(Here)) :
                  job' = Submitted(CallAction("live", adapter.sideEffect), FALSE,
                                   requests[SourceRequest])
    <3>1. \A adapter \in Resolve(adapters, CallFor(Here)) : adapter.sideEffect \in Effects
      <4>1. Resolve(adapters, CallFor(Here)) \subseteq Adapter
        BY <1>1 DEF Resolve
      <4> QED
        BY <4>1 DEF Adapter
    <3>2. job' \in Job
      BY <1>18, <1>19, <2>1, <2>3, <3>1
    <3>3. Judged
      BY <1>2, <1>26, <3>2 DEF SubmitLive, Judged
    <3>4. Walks
      BY <1>1, <1>26, <2>3 DEF SubmitLive, Walks
    <3> QED
      BY <3>3, <3>4
  <2> QED
    BY <1>26, <2>2, <2>3 DEF SubmitLive
<1>27. CASE OperateLive
  <2>1. LiveAnswers \subseteq Values
    BY VerifiedAssumption, WordsTyped
  <2> QED
    BY <1>8, <1>9, <1>27, <2>1, OperationTyped DEF OperateLive
<1>28. CASE LiveAnswered
  <2>1. job.step = "returned" /\ Answer \in Values
    BY <1>2, <1>28, WordsTyped DEF LiveAnswered, Job, Answer
  <2>2. log' \in Seq(Event)
    BY <1>2, <1>4, <1>28, <2>1, ResponseTyped DEF LiveAnswered
  <2>3. Judged
    BY <1>2, <1>5, <1>28, <2>2 DEF LiveAnswered, Judged
  <2>4. issues' \subseteq ReplayCodes
    <3>1. issues' = issues \cup {code \in {"POLICY_BLOCKED"} : Refused}
      BY <1>28 DEF LiveAnswered
    <3> QED
      BY <1>1, <3>1, CodesTyped
  <2>5. differences' \subseteq Nat
    <3>1. differences' \subseteq differences \cup {position}
      BY <1>28 DEF LiveAnswered
    <3> QED
      BY <1>1, <3>1
  <2>6. Walks
    BY <1>1, <1>5, <1>28, <2>4, <2>5 DEF LiveAnswered, Walks
  <2> QED
    BY <2>3, <2>6
<1>29. CASE FinishVerified
  <2>1. UNCHANGED <<rules, approved, job, executed, replayVars>>
    BY <1>29 DEF FinishVerified
  <2>2. CASE EndRun("failed") \/ EndRun("completed")
    BY <1>8, <1>23, <2>1, <2>2
  <2>3. CASE runStatus' = "rejected" /\ UNCHANGED log
    <3>1. Judged
      BY <1>2, <2>1, <2>3 DEF Judged
    <3> QED
      BY <1>8, <2>1, <3>1
  <2> QED
    BY <1>29, <2>2, <2>3 DEF FinishVerified
<1>30. ~StartMock /\ ~StartVerified
  BY <1>3 DEF StartMock, StartVerified, StartRun, RefuseSource, FailAtStart
<1> QED
  BY <1>13, <1>14, <1>15, <1>16, <1>17, <1>20, <1>21, <1>22, <1>24, <1>25, <1>26, <1>27, <1>28,
     <1>29, <1>30 DEF WalkStep, MockStep, VerifiedStep

(* Every step of a session does.                                            *)
LEMMA SessionTyped ==
  ASSUME TraceWalkInv, TraceWalkInv', SessionTypeOK, [Next]_vars PROVE SessionTypeOK'
<1>1. /\ SnapshotTypeOK /\ PolicyTypeOK /\ SemanticTypeOK /\ ReplayTypeOK
      /\ mode \in {"none", "semantic", "mock", "verified"}
  BY DEF SessionTypeOK
<1>2. /\ TraceInv /\ TraceInv' /\ PolicyInv /\ AuditInv /\ RunnerInv /\ SemInv /\ CallsKnown
      /\ SavedInv /\ WalkInv
  BY DEF TraceWalkInv, SessionInv
<1>3. UNCHANGED snapshotVars => SnapshotTypeOK'
  BY <1>1 DEF snapshotVars, SnapshotTypeOK
<1>4. UNCHANGED policyVars => PolicyTypeOK'
  BY <1>1 DEF policyVars, PolicyTypeOK
<1>5. UNCHANGED semanticVars => SemanticTypeOK'
  BY <1>1 DEF semanticVars, SemanticTypeOK
<1>6. UNCHANGED replayVars => ReplayTypeOK'
  BY <1>1 DEF replayVars, ReplayTypeOK
<1>7. CASE RecordSnapshot /\ UNCHANGED <<mode, policyVars, semanticVars, replayVars>>
  BY <1>1, <1>2, <1>4, <1>5, <1>6, <1>7, SnapshotTyped DEF SessionTypeOK
<1>8. CASE NewRunner
  BY <1>2, <1>8, ChoiceTyped
<1>9. CASE /\ mode = "semantic" /\ (SemanticStep \/ SemanticThrows)
           /\ UNCHANGED <<mode, snapshotVars, replayVars>>
  <2>1. PolicyTypeOK' /\ SemanticTypeOK'
    <3>1. CASE SemanticThrows
      <4>1. UNCHANGED semanticVars /\ (OperationThrows \/ RecorderRefuses)
        BY <3>1 DEF SemanticThrows
      <4> QED
        BY <1>1, <1>5, <4>1, ThrowTyped
    <3>2. CASE SemanticStep /\ runStatus = "running"
      <4>1. Work
        BY <1>2, <1>9, <3>2 DEF Work, SemanticRuns
      <4> QED
        BY <1>1, <4>1, SemanticTyped
    <3>3. CASE SemanticStep /\ runStatus # "running"
      <4>1. StartSemantic
        BY <3>3, RunOver
      <4> QED
        BY <1>1, <4>1, SemanticStartTyped
    <3> QED
      BY <1>9, <3>1, <3>2, <3>3
  <2> QED
    BY <1>1, <1>3, <1>6, <1>9, <2>1 DEF SessionTypeOK
<1>10. CASE /\ mode \in {"mock", "verified"} /\ UNCHANGED <<mode, snapshotVars, semanticVars>>
            /\ \/ mode = "mock" /\ MockStep
               \/ mode = "verified" /\ VerifiedStep
               \/ AppendRefused
  <2>1. PolicyTypeOK' /\ ReplayTypeOK'
    <3>1. CASE runStatus = "running"
      <4>1. TraceRunner /\ Walked
        BY <1>10, <3>1, WalkStands DEF TraceRunner
      <4>2. WalkStep
        BY <1>2, <1>10, <3>1, <4>1 DEF WalkStep
      <4> QED
        BY <1>1, <4>2, TraceTyped
    <3>2. CASE runStatus # "running"
      <4>1. StartMock \/ StartVerified
        BY <1>10, <3>2, OnlyStarts
      <4> QED
        BY <1>1, <1>2, <4>1, TraceStartTyped
    <3> QED
      BY <3>1, <3>2
  <2> QED
    BY <1>1, <1>3, <1>5, <1>10, <2>1 DEF SessionTypeOK
<1>11. CASE UNCHANGED vars
  BY <1>1, <1>3, <1>4, <1>5, <1>6, <1>11 DEF vars, SessionTypeOK
<1> QED
  BY <1>7, <1>8, <1>9, <1>10, <1>11 DEF Next, RunnerStep

(* A session starts with them.                                              *)
LEMMA InitTyped == ASSUME Init PROVE SessionTypeOK
<1>1. /\ <<>> \in Seq(Event) /\ <<>> \in Seq(Checkpoint) /\ <<>> \in Seq(Nat) /\ <<>> \in Seq(Rule)
      /\ <<>> \in Executions /\ <<>> \in Plans /\ <<>> \in Seq(STRING) /\ <<>> \in Seq(Node)
      /\ <<>> \in Seq([node : STRING, status : Statuses, attempts : Nat])
  BY DEF Executions, Plans
<1>6. 1 \in Nat \ {0} /\ 0 \in Nat
  OBVIOUS
<1>2. SnapshotTypeOK
  BY <1>1 DEF Init, SnapshotInit, SnapshotTypeOK, NoManifest
<1>3. PolicyTypeOK
  BY <1>1, JobsTyped, PolicyTyped DEF Init, PolicyInit
<1>4. SemanticTypeOK
  <2>1. NoWorkflow \in Workflow
    BY <1>1 DEF NoWorkflow, Workflow
  <2>2. NoAgent \in Agent
    BY WordsTyped DEF NoAgent, Agent
  <2>3. NotChecking \in Checking
    BY <1>1 DEF NotChecking, Checking
  <2> QED
    BY <1>1, <1>6, <2>1, <2>2, <2>3 DEF Init, SemanticInit, SemanticTypeOK, Checking, NoReport
<1>5. ReplayTypeOK
  BY <1>1, <1>6 DEF Init, ReplayInit, ReplayTypeOK, Plans, PlannedCall
<1> QED
  BY <1>2, <1>3, <1>4, <1>5 DEF Init, SessionTypeOK

(* Every variable of a session stays within the values the code can give  *)
(* it: snapshot, policy, log, document and walk (ReplaySession, all of the *)
(* replay package).                                                        *)
THEOREM SessionTypeCorrect == Spec => []SessionTypeOK
<1>1. Init => SessionTypeOK
  BY InitTyped
<1>2. TraceWalkInv /\ TraceWalkInv' /\ SessionTypeOK /\ [Next]_vars => SessionTypeOK'
  BY SessionTyped
<1> QED
  BY <1>1, <1>2, TraceWalkAlways, PTL DEF Spec

-----------------------------------------------------------------------------
(* How far a session with a runner still is from its end: what the runner  *)
(* goes on with most slowly comes first.  A semantic runner has nodes to   *)
(* settle, perhaps another pass to make, nodes left to look at, attempts   *)
(* left at the node, and checks left of the attempt; the others have events*)
(* to walk over; and an operation goes through the steps of its job.       *)
Phase == IF runStatus = "none" THEN 2 ELSE IF runStatus = "running" THEN 1 ELSE 0
StepsLeft ==
  CASE job.step = "idle" -> 3 [] job.step = "deciding" -> 2 [] job.step = "operating" -> 1
    [] OTHER -> 0
OneIf(p) == IF p THEN 1 ELSE 0
Upto(i, n) == IF i <= n THEN n + 1 - i ELSE 0
AtNode == cursor \in DOMAIN workflow.nodes
TriesLeft == IF AtNode THEN Upto(attempt, Current.attempts) ELSE 0
ChecksLeft ==
  IF checking.on THEN Len(checking.left)
  ELSE IF AtNode THEN Len(Current.verifiers) + 1 ELSE 0

SemanticDistance ==
  <<Phase, Cardinality(Pending), OneIf(progressed), Upto(cursor, Len(workflow.nodes)),
    TriesLeft, 4 * ChecksLeft + StepsLeft>>
TraceDistance == <<Phase, Upto(position, Len(trace)), OneIf(~halted), StepsLeft, 0, 0>>
Distance == IF mode = "semantic" THEN SemanticDistance ELSE TraceDistance

(* A distance is nearer if it is less in the first place where it differs. *)
Distances == [1..6 -> Nat]
Fewer == {pair \in Nat \X Nat : pair[1] < pair[2]}
Nearer == LexProductOrdering(Fewer, Nat, 6)

(* One cannot come nearer for ever.                                        *)
LEMMA NearerEnds == IsWellFoundedOn(Nearer, Distances)
<1>1. IsWellFoundedOn(Fewer, Nat)
  BY NatLessThanWellFounded, Zenon DEF OpToRel, Fewer
<1>2. IsWellFoundedOn(LexProductOrdering(Fewer, Nat, 6), [1..6 -> Nat])
  BY <1>1, WFLexProductOrdering
<1> QED
  BY <1>2 DEF Nearer, Distances

(* When a distance is nearer.                                              *)
LEMMA NearerReads ==
  ASSUME NEW a1 \in Nat, NEW a2 \in Nat, NEW a3 \in Nat, NEW a4 \in Nat, NEW a5 \in Nat,
         NEW a6 \in Nat, NEW b1 \in Nat, NEW b2 \in Nat, NEW b3 \in Nat, NEW b4 \in Nat,
         NEW b5 \in Nat, NEW b6 \in Nat,
         \/ b1 < a1
         \/ b1 = a1 /\ b2 < a2
         \/ b1 = a1 /\ b2 = a2 /\ b3 < a3
         \/ b1 = a1 /\ b2 = a2 /\ b3 = a3 /\ b4 < a4
         \/ b1 = a1 /\ b2 = a2 /\ b3 = a3 /\ b4 = a4 /\ b5 < a5
         \/ b1 = a1 /\ b2 = a2 /\ b3 = a3 /\ b4 = a4 /\ b5 = a5 /\ b6 < a6
  PROVE  <<<<b1, b2, b3, b4, b5, b6>>, <<a1, a2, a3, a4, a5, a6>>>> \in Nearer
<1> DEFINE a == <<a1, a2, a3, a4, a5, a6>>
           b == <<b1, b2, b3, b4, b5, b6>>
<1>1. /\ a \in [1..6 -> Nat] /\ b \in [1..6 -> Nat]
      /\ a[1] = a1 /\ a[2] = a2 /\ a[3] = a3 /\ a[4] = a4 /\ a[5] = a5 /\ a[6] = a6
      /\ b[1] = b1 /\ b[2] = b2 /\ b[3] = b3 /\ b[4] = b4 /\ b[5] = b5 /\ b[6] = b6
  OBVIOUS
<1> HIDE DEF a, b
<1>2. \E j \in 1..6 : b[j] < a[j] /\ \A i \in 1..(j - 1) : b[i] = a[i]
  BY <1>1
<1>3. PICK j \in 1..6 : b[j] < a[j] /\ \A i \in 1..(j - 1) : b[i] = a[i]
  BY <1>2
<1>4. <<b[j], a[j]>> \in Fewer
  BY <1>1, <1>3 DEF Fewer
<1>5. <<b, a>> \in [1..6 -> Nat] \X [1..6 -> Nat] /\ <<b, a>>[1] = b /\ <<b, a>>[2] = a
  BY <1>1
<1>6. <<b, a>> \in Nearer
  BY <1>3, <1>4, <1>5 DEF Nearer, LexProductOrdering
<1> QED
  BY <1>6 DEF a, b

(* The counts are natural numbers.                                         *)
LEMMA CountsTyped ==
  /\ Phase \in 0..2 /\ StepsLeft \in 0..3 /\ \A p : OneIf(p) \in 0..1
  /\ \A i, n \in Nat : Upto(i, n) \in Nat
  /\ \A i, m, n \in Nat : i < m /\ i <= n => Upto(m, n) < Upto(i, n)
BY DEF Phase, StepsLeft, OneIf, Upto

(* Those of a document, too.                                               *)
LEMMA DocumentCounts ==
  ASSUME SemanticTypeOK
  PROVE  /\ IsFiniteSet(Pending) /\ Cardinality(Pending) \in Nat
         /\ Upto(cursor, Len(workflow.nodes)) \in Nat /\ TriesLeft \in Nat /\ ChecksLeft \in Nat
         /\ 4 * ChecksLeft + StepsLeft \in Nat
<1>1. /\ workflow.nodes \in Seq(Node) /\ DOMAIN workflow.nodes = 1..Len(workflow.nodes)
      /\ Len(workflow.nodes) \in Nat /\ cursor \in Nat /\ attempt \in Nat
      /\ checking \in [on : BOOLEAN, left : Seq(STRING), rejected : BOOLEAN]
  BY DEF SemanticTypeOK, Workflow
<1>2. IsFiniteSet(Pending) /\ Cardinality(Pending) \in Nat
  <2>1. IsFiniteSet(1..Len(workflow.nodes))
    BY <1>1, FS_Interval
  <2>2. Pending \subseteq 1..Len(workflow.nodes)
    BY <1>1 DEF Pending
  <2> QED
    BY <2>1, <2>2, FS_Subset, FS_CardinalityType
<1>3. AtNode => Current.attempts \in Nat /\ Len(Current.verifiers) \in Nat
  <2>1. AtNode => Current \in Node
    BY <1>1 DEF AtNode, Current
  <2>2. AtNode => Current.attempts \in Nat /\ Current.verifiers \in Seq(STRING)
    BY <2>1 DEF Node
  <2>3. \A s \in Seq(STRING) : Len(s) \in Nat
    OBVIOUS
  <2> QED
    BY <2>2, <2>3
<1>4. Upto(cursor, Len(workflow.nodes)) \in Nat /\ TriesLeft \in Nat
  BY <1>1, <1>3, CountsTyped DEF TriesLeft
<1>5. ChecksLeft \in Nat
  BY <1>1, <1>3 DEF ChecksLeft
<1>6. 4 * ChecksLeft + StepsLeft \in Nat
  BY <1>5, CountsTyped
<1> QED
  BY <1>2, <1>4, <1>5, <1>6

(* All of them, before a step and after it.                                *)
Counted ==
  /\ Cardinality(Pending) \in Nat /\ Upto(cursor, Len(workflow.nodes)) \in Nat
  /\ TriesLeft \in Nat /\ ChecksLeft \in Nat /\ 4 * ChecksLeft + StepsLeft \in Nat
  /\ Phase \in Nat /\ StepsLeft \in 0..3 /\ OneIf(progressed) \in Nat
LEMMA CountedAlways == SemanticTypeOK => Counted
<1>1. Phase \in Nat /\ StepsLeft \in 0..3 /\ OneIf(progressed) \in Nat
  BY CountsTyped
<1> QED
  BY <1>1, DocumentCounts DEF Counted
LEMMA CountedNext == SemanticTypeOK' => Counted'
BY CountedAlways, PTL

-----------------------------------------------------------------------------
(* Settling nodes leaves fewer of them.                                    *)
LEMMA FewerPending ==
  ASSUME SemanticTypeOK, workflow' = workflow, Settled \subseteq Settled',
         NEW i \in Pending, workflow.nodes[i].id \in Settled'
  PROVE  Cardinality(Pending') \in Nat /\ Cardinality(Pending') < Cardinality(Pending)
<1>1. IsFiniteSet(Pending) /\ Cardinality(Pending) \in Nat
  BY DocumentCounts
<1>2. Pending' \subseteq Pending \ {i}
  BY DEF Pending
<1> HIDE DEF Pending
<1>3. IsFiniteSet(Pending \ {i}) /\ Cardinality(Pending \ {i}) = Cardinality(Pending) - 1
  BY <1>1, FS_RemoveElement
<1>4. Pending' \in SUBSET (Pending \ {i})
  BY <1>2
<1>5. IsFiniteSet(Pending') /\ Cardinality(Pending') <= Cardinality(Pending \ {i})
  BY <1>3, <1>4, FS_Subset
<1>6. Cardinality(Pending') \in Nat
  BY <1>5, FS_CardinalityType
<1> QED
  BY <1>1, <1>3, <1>5, <1>6

(* What a semantic runner comes nearer by, the slowest first.              *)
Approaches ==
  \/ Phase' < Phase
  \/ Phase' = Phase /\ Cardinality(Pending') < Cardinality(Pending)
  \/ /\ Phase' = Phase /\ Pending' = Pending
     /\ \/ OneIf(progressed)' < OneIf(progressed)
        \/ /\ progressed' = progressed
           /\ \/ Upto(cursor, Len(workflow.nodes))' < Upto(cursor, Len(workflow.nodes))
              \/ /\ UNCHANGED <<cursor, workflow>>
                 /\ \/ TriesLeft' < TriesLeft
                    \/ /\ TriesLeft' = TriesLeft
                       /\ 4 * ChecksLeft' + StepsLeft' < 4 * ChecksLeft + StepsLeft

(* Which makes its distance nearer.                                        *)
LEMMA ApproachIsNearer ==
  ASSUME SemanticTypeOK, SemanticTypeOK', mode = "semantic", mode' = mode, Approaches
  PROVE  <<Distance', Distance>> \in Nearer
<1>1. Counted /\ Counted'
  BY CountedAlways, CountedNext
<1>2. OneIf(progressed)' = OneIf(progressed) \/ progressed' # progressed
  BY DEF OneIf
<1>3. Upto(cursor, Len(workflow.nodes))' = Upto(cursor, Len(workflow.nodes))
      \/ ~UNCHANGED <<cursor, workflow>>
  BY DEF Upto
<1>4. Cardinality(Pending)' = Cardinality(Pending) \/ Pending' # Pending
  OBVIOUS
<1>5. Distance = SemanticDistance /\ Distance' = SemanticDistance'
  BY DEF Distance
<1>6. LET n == Len(workflow.nodes) IN
      \/ Phase' < Phase
      \/ Phase' = Phase /\ Cardinality(Pending)' < Cardinality(Pending)
      \/ /\ Phase' = Phase /\ Cardinality(Pending)' = Cardinality(Pending)
         /\ \/ OneIf(progressed)' < OneIf(progressed)
            \/ /\ OneIf(progressed)' = OneIf(progressed)
               /\ \/ Upto(cursor, n)' < Upto(cursor, n)
                  \/ /\ Upto(cursor, n)' = Upto(cursor, n)
                     /\ \/ TriesLeft' < TriesLeft
                        \/ /\ TriesLeft' = TriesLeft
                           /\ (4 * ChecksLeft + StepsLeft)' < 4 * ChecksLeft + StepsLeft
  BY <1>2, <1>3, <1>4 DEF Approaches
<1>7. <<SemanticDistance', SemanticDistance>> \in Nearer
  BY <1>1, <1>6, NearerReads, ZenonT(60) DEF Counted, SemanticDistance
<1> QED
  BY <1>5, <1>7

(* Every step of a semantic runner at work.                                *)
LEMMA WorkApproaches ==
  ASSUME Work, SemanticTypeOK, SemanticTypeOK' PROVE Approaches
<1>0. /\ workflow' = workflow /\ workflow \in Workflow /\ runStatus = "running"
      /\ DOMAIN workflow.nodes = 1..Len(workflow.nodes) /\ Len(workflow.nodes) \in Nat
      /\ cursor \in Nat \ {0} /\ attempt \in Nat /\ Phase = 1
      /\ attempt = 0 => job = Idle /\ checking = NotChecking /\ ~checking.on
      /\ Counted /\ Counted'
  BY WorkFacts, WorkStands, CountedAlways, CountedNext DEF Phase
<1>1. CASE Finish
  <2>1. runStatus' \in {"completed", "failed"}
    BY <1>1 DEF Finish, EndRun
  <2> QED
    BY <1>0, <2>1 DEF Approaches, Phase
<1>2. ASSUME UNCHANGED results PROVE Pending' = Pending
  BY <1>0, <1>2 DEF Pending, Settled
<1>3. CASE UNCHANGED runStatus /\ PassOver
  <2>1. /\ Pending' = Pending /\ UNCHANGED progressed /\ cursor' = cursor + 1
        /\ cursor <= Len(workflow.nodes)
    BY <1>2, <1>3 DEF PassOver
  <2>2. Upto(cursor, Len(workflow.nodes))' < Upto(cursor, Len(workflow.nodes))
    <3>1. Upto(cursor, Len(workflow.nodes))' = Upto(cursor + 1, Len(workflow.nodes))
      BY <1>0, <2>1 DEF Upto
    <3> QED
      BY <1>0, <2>1, <3>1, CountsTyped, cursor \in Nat, cursor + 1 \in Nat, cursor < cursor + 1
  <2> QED
    BY <1>3, <2>1, <2>2 DEF Approaches, Phase
<1>4. CASE UNCHANGED runStatus /\ results' = BlockedRest /\ Pending # {}
  <2>1. ResultsInv
    BY DEF Work, SemInv
  <2>2. SettledIn(BlockedRest) = Ids(workflow)
    BY <2>1, WorkFacts, RestBlocked
  <2>3. Settled' = Ids(workflow)
    BY <1>4, <2>2, StatusReads
  <2>4. PICK i \in Pending : TRUE
    BY <1>4
  <2>5. workflow.nodes[i].id \in Settled'
    BY <2>3, <2>4 DEF Pending, Ids
  <2>6. Settled \subseteq Settled'
    BY SettledKept
  <2>7. Cardinality(Pending') < Cardinality(Pending)
    BY <1>0, <2>5, <2>6, FewerPending
  <2> QED
    BY <1>4, <2>7 DEF Approaches, Phase
<1>5. CASE UNCHANGED runStatus /\ (EndPass \/ StopRest)
  <2>1. CASE progressed /\ progressed' = FALSE /\ UNCHANGED results
    BY <1>2, <1>5, <2>1 DEF Approaches, Phase, OneIf
  <2> QED
    BY <1>4, <1>5, <2>1 DEF EndPass, StopRest
<1>6. ASSUME NEW status, NEW n, Settles(status, n), UNCHANGED runStatus PROVE Approaches
  <2>1. /\ cursor \in Pending /\ Settled \subseteq Settled'
    BY <1>6, SettledKept DEF Settles, Pending, Current
  <2>2. workflow.nodes[cursor].id \in Settled'
    <3>1. results' = Append(results, [node |-> Current.id, status |-> status, attempts |-> n])
      BY <1>6 DEF Settles, Settle
    <3>2. results \in Seq(Result(workflow))
      BY WorkFacts
    <3>3. /\ Len(results) + 1 \in DOMAIN results' /\ results'[Len(results) + 1].node = Current.id
      BY <3>1, <3>2
    <3> QED
      BY <3>3 DEF Settled, Current
  <2>3. Cardinality(Pending') < Cardinality(Pending)
    BY <1>0, <2>1, <2>2, FewerPending
  <2> QED
    BY <1>6, <2>3 DEF Approaches, Phase
<1>7. CASE UNCHANGED runStatus /\ (Blocks \/ Skips \/ Fails \/ Completes)
  BY <1>6, <1>7 DEF Blocks, Skips, Fails, Completes
<1>8. CASE UNCHANGED runStatus /\ Asks
  <2>1. /\ Pending' = Pending /\ UNCHANGED <<progressed, cursor>> /\ AtNode
        /\ attempt < Current.attempts /\ attempt' = attempt + 1
    BY <1>2, <1>8 DEF Asks, AtNode
  <2>2. Current \in Node
    BY <1>0, <2>1 DEF AtNode, Current, Workflow
  <2>3. Current.attempts \in Nat
    BY <2>2 DEF Node
  <2>4. AtNode' /\ Current' = Current
    BY <1>0, <2>1 DEF AtNode, Current
  <2>5. TriesLeft' < TriesLeft
    BY <1>0, <2>1, <2>3, <2>4 DEF TriesLeft, Upto
  <2> QED
    BY <1>0, <1>8, <2>1, <2>5 DEF Approaches, Phase
<1>9. ASSUME UNCHANGED <<runStatus, results, progressed, cursor, attempt>>,
             4 * ChecksLeft' + StepsLeft' < 4 * ChecksLeft + StepsLeft
      PROVE  Approaches
  <2>1. TriesLeft' = TriesLeft
    BY <1>0, <1>9 DEF TriesLeft, AtNode, Current
  <2> QED
    BY <1>0, <1>2, <1>9, <2>1 DEF Approaches, Phase
<1>10. CASE TakesAnswer
  <2>1. /\ AtNode /\ Current \in Node /\ ~checking.on
        /\ checking' = [on |-> TRUE, left |-> Current.verifiers, rejected |-> job.outcome = "bad"]
        /\ UNCHANGED <<runStatus, results, progressed, cursor, attempt>>
    BY <1>10, WorkStands DEF TakesAnswer, AtNode
  <2>2. Len(Current.verifiers) \in Nat
    <3>1. Current.verifiers \in Seq(STRING)
      BY <2>1 DEF Node
    <3> QED
      BY <3>1
  <2>3. ChecksLeft = Len(Current.verifiers) + 1 /\ ChecksLeft' = Len(Current.verifiers)
    BY <2>1 DEF ChecksLeft
  <2>4. StepsLeft' \in 0..3 /\ StepsLeft = 0
    BY <1>0, <1>10 DEF TakesAnswer, StepsLeft, Counted
  <2> QED
    BY <1>9, <2>1, <2>2, <2>3, <2>4
<1>11. CASE Checks
  <2>1. /\ checking.on /\ checking.left # <<>> /\ checking.left \in Seq(STRING)
        /\ DOMAIN checking = {"on", "left", "rejected"}
        /\ UNCHANGED <<runStatus, results, progressed, cursor, attempt>>
    BY <1>11, WorkStands DEF Checks, CheckNext, VerifierAnswered
  <2>2. ASSUME checking'.on, checking'.left = Tail(checking.left), job'.step = "idle"
               \/ UNCHANGED job
        PROVE  Approaches
    <3>1. Len(Tail(checking.left)) = Len(checking.left) - 1 /\ Len(checking.left) \in Nat
      BY <2>1
    <3>2. ChecksLeft = Len(checking.left) /\ ChecksLeft' = Len(checking.left) - 1
      BY <2>1, <2>2, <3>1 DEF ChecksLeft
    <3> QED
      BY <1>0, <1>9, <2>1, <3>1, <3>2 DEF Counted
  <2>3. CASE CheckNext /\ UNCHANGED checking
               /\ job' = Submitted(VerifierAction(Current, Head(checking.left), attempt), FALSE, 0)
    <3>1. job.step = "idle" /\ job'.step = "deciding"
      BY <2>3 DEF CheckNext, Submitted
    <3>2. StepsLeft = 3 /\ StepsLeft' = 2 /\ ChecksLeft' = ChecksLeft
      BY <2>1, <2>3, <3>1 DEF StepsLeft, ChecksLeft
    <3> QED
      BY <1>0, <1>9, <2>1, <3>2 DEF Counted
  <2>4. CASE CheckNext /\ UNCHANGED job
               /\ checking' = [checking EXCEPT !.left = Tail(checking.left), !.rejected = TRUE]
    BY <2>1, <2>2, <2>4
  <2>5. CASE VerifierAnswered
    BY <2>1, <2>2, <2>5, ActionParts DEF VerifierAnswered
  <2> QED
    BY <1>11, <2>3, <2>4, <2>5 DEF Checks, CheckNext
<1>12. CASE Works
  <2>1. UNCHANGED <<runStatus, results, progressed, cursor, attempt>>
    BY <1>12 DEF Works, RecordDecision, OperateSemantic, Operate, semanticVars
  <2>2. ChecksLeft' = ChecksLeft
    BY <1>0, <1>12 DEF Works, RecordDecision, OperateSemantic, Operate, semanticVars, ChecksLeft,
                       AtNode, Current
  <2>3. StepsLeft' < StepsLeft
    <3>1. JobShape(job)
      BY WorkFacts
    <3>2. \/ job.step = "deciding" /\ job'.step \in {"operating", "returned"}
          \/ job.step = "operating" /\ job'.step = "returned"
      BY <1>12, <3>1 DEF Works, RecordDecision, OperateSemantic, Operate, JobShape
    <3> QED
      BY <3>2 DEF StepsLeft
  <2>4. 4 * ChecksLeft' + StepsLeft' < 4 * ChecksLeft + StepsLeft
    <3>1. \A c, s, t \in Nat : t < s => 4 * c + t < 4 * c + s
      OBVIOUS
    <3>2. ChecksLeft \in Nat /\ StepsLeft \in Nat /\ StepsLeft' \in Nat
      BY <1>0 DEF Counted
    <3> QED
      BY <2>2, <2>3, <3>1, <3>2
  <2> QED
    BY <1>9, <2>1, <2>4
<1> QED
  BY <1>1, <1>3, <1>5, <1>7, <1>8, <1>10, <1>11, <1>12, WorkMoves

-----------------------------------------------------------------------------
(* What a mock or a verified runner comes nearer by.                       *)
WalksOn ==
  \/ Phase' < Phase
  \/ Phase' = Phase /\ Upto(position, Len(trace))' < Upto(position, Len(trace))
  \/ /\ Phase' = Phase /\ UNCHANGED <<position, trace>>
     /\ \/ OneIf(~halted)' < OneIf(~halted)
        \/ UNCHANGED halted /\ StepsLeft' < StepsLeft

(* Its distance is one, and gets nearer by that.                           *)
Walking ==
  /\ Phase \in Nat /\ Upto(position, Len(trace)) \in Nat /\ OneIf(~halted) \in Nat
  /\ StepsLeft \in Nat
LEMMA WalkingAlways == SnapshotTypeOK /\ ReplayTypeOK => Walking
<1>1. Phase \in Nat /\ OneIf(~halted) \in Nat /\ StepsLeft \in Nat
  BY DEF Phase, OneIf, StepsLeft
<1>2. ASSUME SnapshotTypeOK, ReplayTypeOK PROVE position \in Nat /\ Len(trace) \in Nat
  BY <1>2 DEF SnapshotTypeOK, ReplayTypeOK
<1> QED
  BY <1>1, <1>2, CountsTyped DEF Walking
LEMMA WalkingNext == (SnapshotTypeOK /\ ReplayTypeOK)' => Walking'
BY WalkingAlways, PTL

LEMMA WalkIsNearer ==
  ASSUME SessionTypeOK, SessionTypeOK', mode # "semantic", mode' = mode, WalksOn
  PROVE  <<Distance', Distance>> \in Nearer
<1>1. Walking /\ Walking'
  BY WalkingAlways, WalkingNext DEF SessionTypeOK
<1>2. Distance = TraceDistance /\ Distance' = TraceDistance'
  BY DEF Distance
<1>3. \/ Phase' < Phase
      \/ Phase' = Phase /\ Upto(position, Len(trace))' < Upto(position, Len(trace))
      \/ /\ Phase' = Phase /\ Upto(position, Len(trace))' = Upto(position, Len(trace))
         /\ \/ OneIf(~halted)' < OneIf(~halted)
            \/ OneIf(~halted)' = OneIf(~halted) /\ StepsLeft' < StepsLeft
  <2>1. UNCHANGED <<position, trace>> =>
          Upto(position, Len(trace))' = Upto(position, Len(trace))
    BY DEF Upto
  <2>2. UNCHANGED halted => OneIf(~halted)' = OneIf(~halted)
    BY DEF OneIf
  <2> QED
    BY <2>1, <2>2 DEF WalksOn
<1>4. <<TraceDistance', TraceDistance>> \in Nearer
  BY <1>1, <1>3, NearerReads DEF Walking, TraceDistance
<1> QED
  BY <1>2, <1>4

(* Every step of a walk.                                                   *)
LEMMA WalkApproaches == ASSUME WalkStep PROVE WalksOn
<1>0. /\ trace' = trace /\ Len(trace) \in Nat /\ runStatus = "running" /\ Phase = 1
      /\ Answering /\ Standing /\ position \in Nat /\ halted \in BOOLEAN
  BY WalkFacts, ResumeStays DEF snapshotVars, WalkStep, Walked, Standing, Phase
<1>1. ASSUME position <= Len(trace), position' = position + 1, UNCHANGED runStatus PROVE WalksOn
  <2>1. Upto(position, Len(trace))' = Upto(position + 1, Len(trace))
    BY <1>0, <1>1 DEF Upto
  <2>2. Upto(position + 1, Len(trace)) < Upto(position, Len(trace))
    BY <1>0, <1>1, CountsTyped, position + 1 \in Nat, position < position + 1
  <2> QED
    BY <1>1, <2>1, <2>2 DEF WalksOn, Phase
<1>2. ASSUME ~halted, halted' = TRUE, UNCHANGED <<runStatus, position>> PROVE WalksOn
  BY <1>0, <1>2 DEF WalksOn, Phase, OneIf
<1>3. ASSUME UNCHANGED <<runStatus, position, halted>>,
             \/ job.step = "idle" /\ job'.step = "deciding"
             \/ job.step = "deciding" /\ job'.step \in {"operating", "returned"}
             \/ job.step = "operating" /\ job'.step = "returned"
      PROVE  WalksOn
  <2>1. StepsLeft' < StepsLeft
    BY <1>3 DEF StepsLeft
  <2> QED
    BY <1>0, <1>3, <2>1 DEF WalksOn, Phase
<1>4. CASE Passes \/ Copies
  BY <1>0, <1>1, <1>4 DEF Passes, Copies, AtWalk
<1>5. CASE BreaksOff
  BY <1>2, <1>5 DEF BreaksOff
<1>6. CASE CallsAgain \/ Decides \/ Performs
  BY <1>3, <1>6 DEF CallsAgain, Decides, Performs, AtWalk
<1>7. CASE Hears
  <2>1. ~halted /\ position <= Len(trace)
    BY <1>0, <1>7 DEF Hears, Answering
  <2> QED
    BY <1>1, <1>2, <1>7, <2>1 DEF Hears
<1>8. CASE Leaves
  BY <1>0, <1>8 DEF Leaves, WalksOn, Phase
<1> QED
  BY <1>4, <1>5, <1>6, <1>7, <1>8, WalkMoves DEF Moves

(* Whatever a session does once it has a runner.                           *)
LEMMA SessionApproaches ==
  ASSUME TraceWalkInv, SessionTypeOK, SessionTypeOK', Next, mode # "none"
  PROVE  <<Distance', Distance>> \in Nearer
<1>0. mode \in {"semantic", "mock", "verified"} /\ SemanticTypeOK /\ SemanticTypeOK'
  BY DEF SessionTypeOK
<1>1. CASE mode = "semantic" /\ (SemanticStep \/ SemanticThrows) /\ UNCHANGED mode
  <2>1. CASE runStatus # "running"
    <3>1. runStatus = "none" /\ runStatus' \in {"running", "failed"}
      BY <1>1, <2>1, RunOver DEF StartSemantic, StartRun, FailAtStart
    <3>2. Approaches
      BY <3>1 DEF Approaches, Phase
    <3> QED
      BY <1>0, <1>1, <3>2, ApproachIsNearer
  <2>2. CASE runStatus = "running" /\ SemanticStep
    <3>1. Work
      BY <1>1, <2>2 DEF TraceWalkInv, SessionInv, Work, SemanticRuns
    <3> QED
      BY <1>0, <1>1, <3>1, WorkApproaches, ApproachIsNearer
  <2>3. CASE runStatus = "running" /\ SemanticThrows
    <3>1. runStatus' = "rejected"
      BY <2>3 DEF SemanticThrows, OperationThrows, RecorderRefuses
    <3>2. Approaches
      BY <2>3, <3>1 DEF Approaches, Phase
    <3> QED
      BY <1>0, <1>1, <3>2, ApproachIsNearer
  <2> QED
    BY <1>1, <2>1, <2>2, <2>3
<1>2. CASE /\ mode \in {"mock", "verified"} /\ UNCHANGED <<mode, snapshotVars, semanticVars>>
           /\ (mode = "mock" /\ MockStep) \/ (mode = "verified" /\ VerifiedStep) \/ AppendRefused
  <2>1. CASE runStatus # "running"
    <3>1. StartMock \/ StartVerified
      BY <1>2, <2>1, OnlyStarts
    <3>2. runStatus = "none" /\ runStatus' \in {"running", "failed"}
      BY <3>1 DEF StartMock, StartVerified, StartRun, RefuseSource, FailAtStart
    <3>3. WalksOn
      BY <3>2 DEF WalksOn, Phase
    <3> QED
      BY <1>2, <3>3, WalkIsNearer
  <2>2. CASE runStatus = "running"
    <3>1. Walked /\ TraceInv /\ PolicyInv /\ CallsKnown
      BY <1>2, <2>2, WalkStands DEF TraceRunner
    <3>2. WalkStep
      BY <1>2, <2>2, <3>1 DEF WalkStep, TraceRunner
    <3> QED
      BY <1>2, <3>2, WalkApproaches, WalkIsNearer
  <2> QED
    BY <2>1, <2>2
<1>3. ~NewRunner
  BY DEF NewRunner
<1> QED
  BY <1>0, <1>1, <1>2, <1>3, Zenon DEF Next, RunnerStep

(* A session cannot go on for ever once it has a runner: every step brings *)
(* it nearer to its end, whatever the agent, the adapters, the policy and  *)
(* the recorder say, and one cannot come nearer for ever (run() of the     *)
(* three runners).                                                         *)
THEOREM RunnersComeNearer ==
  /\ IsWellFoundedOn(Nearer, Distances)
  /\ Spec => [][mode # "none" => <<Distance', Distance>> \in Nearer]_vars
<1>1. TraceWalkInv /\ SessionTypeOK /\ SessionTypeOK' /\ [Next]_vars
        => [mode # "none" => <<Distance', Distance>> \in Nearer]_vars
  BY SessionApproaches
<1> QED
  BY <1>1, NearerEnds, TraceWalkAlways, SessionTypeCorrect, PTL DEF Spec
=============================================================================
