---------------------------- MODULE TraceCompiler ----------------------------
(***************************************************************************)
(* compileTraceToWorkflow(): one workflow node per logical call, whose     *)
(* dependencies are the calls its requests causally follow.  events are    *)
(* those of a whole trace, so that a position is a sequence number.        *)
(***************************************************************************)
EXTENDS TraceEvents

(* nodeId() numbers the nodes.  Their names are the calls' keys here, which*)
(* the recording code makes different for calls of different kinds.        *)
ASSUME NamesAssumption == \A c, d \in Calls : c.key = d.key => c = d

(* collectGroups(): a response before the first request of its call has no *)
(* target and is left out.                                                 *)
RequestsOf(events, call) == {i \in DOMAIN events : Requested(events[i]) /\ SameCall(events[i], call)}
ResponsesOf(events, call) ==
  {i \in DOMAIN events : /\ Responded(events[i]) /\ SameCall(events[i], call)
                         /\ \E j \in RequestsOf(events, call) : j < i}
Grouped(events) == {c \in Calls : RequestsOf(events, c) # {}}

FirstRequest(events, call) ==
  CHOOSE i \in RequestsOf(events, call) : \A j \in RequestsOf(events, call) : i <= j
Index(events, call) ==
  Cardinality({c \in Grouped(events) : FirstRequest(events, c) <= FirstRequest(events, call)})
CallAt(events, index) == CHOOSE c \in Grouped(events) : Index(events, c) = index

NodeCalls(events, i) ==
  {c \in Grouped(events) : i \in RequestsOf(events, c) \cup ResponsesOf(events, c)}

(* Fault: only the first request of a call is followed back.               *)
DependenciesOfFirst(events, call) ==
  LET nearest[i \in DOMAIN events] ==
        UNION {IF NodeCalls(events, p) # {} THEN NodeCalls(events, p) ELSE nearest[p]
                 : p \in events[i].parents}
  IN nearest[FirstRequest(events, call)] \ {call}

(* requestParentDependencies(): from a request back to the nearest events  *)
(* of calls, the call's own included, which are then left out.             *)
Dependencies(events, call) ==
  LET nearest[i \in DOMAIN events] ==
        UNION {IF NodeCalls(events, p) # {} THEN NodeCalls(events, p) ELSE nearest[p]
                 : p \in events[i].parents}
  IN (UNION {nearest[i] : i \in RequestsOf(events, call)}) \ {call}

(* The ids sort by kind first; then as texts do, which is this order for   *)
(* up to nine calls of a kind.                                             *)
SortsBefore(events, c, d) ==
  IF c.kind = d.kind THEN Index(events, c) <= Index(events, d) ELSE c.kind = "model"

SortedDependencies(events, call) ==
  LET all == Dependencies(events, call)
      at(k) == CHOOSE c \in all : Cardinality({d \in all : SortsBefore(events, d, c)}) = k
  IN [k \in 1..Cardinality(all) |-> [of |-> at(k).key[1], on |-> "success"]]

CompiledNode(events, call) ==
  [id |-> call.key[1], kind |-> IF call.kind = "model" THEN "agent_task" ELSE "tool_call",
   deps |-> SortedDependencies(events, call), when |-> "", absent |-> FALSE,
   sideEffect |-> call.sideEffect, needsApproval |-> FALSE,
   attempts |-> Cardinality(RequestsOf(events, call)),
   onFailure |-> IF \E i \in ResponsesOf(events, call) : events[i].type = "completed"
                 THEN "stop" ELSE "continue",
   verifiers |-> <<>>]

(* The generated document, before it is validated: the last node's output  *)
(* is the workflow's.                                                      *)
Generated(events) ==
  LET size == Cardinality(Grouped(events))
      node(k) == CompiledNode(events, CallAt(events, k))
  IN [nodes |-> [k \in 1..size |-> node(k)], verifiers |-> {}, outputs |-> {node(size).id}]
=============================================================================
