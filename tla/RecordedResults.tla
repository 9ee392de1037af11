--------------------------- MODULE RecordedResults ---------------------------
(***************************************************************************)
(* The call schedule of a source trace and the adapters that answer it:    *)
(* which requests and responses there are, what a recorded result is, and  *)
(* which adapter a call resolves to.                                       *)
(***************************************************************************)
EXTENDS TraceEvents

(* A request counts as replayable when its payload is; its attempt is its  *)
(* place among the requests with its kind and key.                         *)
ReplayableCall(e) == Requested(e) /\ e.value # "invalid"

(* Fault: attempts are counted from zero.                                  *)
AttemptFromZero(events, i) ==
  Cardinality({j \in 1..(i - 1) : Requested(events[j]) /\ SameCall(events[i], events[j])})

AttemptAt(events, i) ==
  Cardinality({j \in 1..i : Requested(events[j]) /\ SameCall(events[i], events[j])})
CallFor(e) == CHOOSE c \in Calls : SameCall(c, e)

(* sourceCalls(): the plan that a mock replay follows.                     *)
SourceCalls(events) ==
  LET requests == {i \in DOMAIN events : ReplayableCall(events[i])}
      at(k) == Position(requests, k)
  IN [k \in 1..Cardinality(requests) |->
        [call |-> CallFor(events[at(k)]), attempt |-> AttemptAt(events, at(k)),
         input |-> events[at(k)].value]]

(* The request a response hangs on, 0 if it hangs on none.                 *)
RequestFor(events, i) ==
  LET requests == {p \in events[i].parents : p < i /\ ReplayableCall(events[p])} IN
  IF requests = {} THEN 0 ELSE CHOOSE p \in requests : \A q \in requests : p <= q

(* A response that belongs to its request; the last one is its outcome.    *)
Answers(events, i, request) ==
  /\ Responded(events[i]) /\ events[i].value # "invalid" /\ RequestFor(events, i) = request
  /\ request # 0 /\ SameCall(events[i], events[request])

RecordedOutcome(events, request) ==
  LET answers == {i \in DOMAIN events : Answers(events, i, request)} IN
  IF answers = {} THEN "none" ELSE events[CHOOSE i \in answers : \A j \in answers : j <= i].value

(* The diagnostics of createRecordedReplayAdapterSet(), of sourceCalls()   *)
(* and of callsAndResponses(), which object to the same traces.            *)
ScheduleFaults(events) ==
  {code \in {"INVALID_REQUEST"} :
     \E i \in DOMAIN events : Requested(events[i]) /\ ~ReplayableCall(events[i])}
  \cup {code \in {"INVALID_RESPONSE"} :
          \E i \in DOMAIN events :
            Responded(events[i]) /\ ~Answers(events, i, RequestFor(events, i))}
  \cup {code \in {"MISSING_RESPONSE"} :
          \E i \in DOMAIN events : ReplayableCall(events[i]) /\ RecordedOutcome(events, i) = "none"}

-----------------------------------------------------------------------------
Adapter == [kind : {"model", "tool"}, name : STRING, capable : BOOLEAN, sideEffect : Effects]

(* One read-only adapter for the models, one for every tool in the trace.  *)
RecordedAdapters(events) ==
  LET called == {CallFor(events[i]) : i \in {j \in DOMAIN events : ReplayableCall(events[j])}} IN
  {[kind |-> "model", name |-> "recorded-model-results", capable |-> TRUE,
    sideEffect |-> "read_only"]}
  \cup {[kind |-> "tool", name |-> c.target, capable |-> TRUE, sideEffect |-> "read_only"]
          : c \in {d \in called : d.kind = "tool"}}

(* resolveModel() and resolveTool(): nothing when no adapter matches, when *)
(* several do, or when the one that does lacks the capability.             *)
Resolve(adapters, call) ==
  LET matching == {a \in adapters : a.kind = call.kind /\ (call.kind = "tool" => a.name = call.target)}
  IN {a \in matching : Cardinality(matching) = 1 /\ a.capable}
=============================================================================
