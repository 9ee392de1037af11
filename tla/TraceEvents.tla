----------------------------- MODULE TraceEvents -----------------------------
(***************************************************************************)
(* The events of a run, as far as replay and the tools that read traces    *)
(* can tell them apart.  An event is identified with its sequence number.  *)
(***************************************************************************)
EXTENDS Naturals, Sequences, FiniteSets

CONSTANTS
  Calls,    \* logical model and tool calls: their correlation key names kind and target
  Outputs,  \* what a completed call may answer
  Errors    \* what a failed call may answer

SideEffects == <<"read_only", "workspace_write", "external_write", "destructive">>
Effects == {SideEffects[i] : i \in DOMAIN SideEffects}

EventType ==
  {"run.started", "run.completed", "run.failed", "requested", "completed", "failed",
   "state.changed", "log.note", "checkpoint.created", "decision.recorded"}
Kinds == {"agent", "verifier", "model", "tool"}
Decisions == {"allow", "deny", "dry_run", "require_approval"}

(* Words for something other than what a call has answered.                *)
NotAnswers == {"invalid", "none", "blocked", "undefined"}

(* What events may say and operations may come to: any text, of which the  *)
(* code itself writes these words.                                         *)
Values ==
  STRING \cup NotAnswers \cup Decisions \cup {"", "input", "good", "bad", "completed", "failed"}

ASSUME CallsAssumption ==
  /\ \A c \in Calls :
       c \in [kind : {"model", "tool"}, key : Seq(STRING), target : STRING,
              sideEffect : Effects]
  /\ \A c \in Calls : Len(c.key) = 1
  /\ \A c, d \in Calls : c.kind = d.kind /\ c.key = d.key => c = d
  /\ Outputs \subseteq STRING /\ Errors \subseteq STRING /\ Outputs \cap Errors = {}
  /\ NotAnswers \cap (Outputs \cup Errors) = {}

(* kind and key are the call's or - for a state.changed event - operation  *)
(* and path.  value is what the event says; "invalid" when its payload has *)
(* not the form its type calls for.                                        *)
Event == [type : EventType, kind : {"run"} \cup Kinds \cup STRING, key : Seq(STRING),
          attempt : Nat, value : Values, parents : SUBSET Nat]

RunEvent(type, parents) ==
  [type |-> type, kind |-> "run", key |-> <<>>, attempt |-> 0, value |-> "", parents |-> parents]
CallEvent(type, call, value, parents) ==
  [type |-> type, kind |-> call.kind, key |-> call.key, attempt |-> 0, value |-> value,
   parents |-> parents]
StateEvent(operation, path, value, parents) ==
  [type |-> "state.changed", kind |-> operation, key |-> path, attempt |-> 0, value |-> value,
   parents |-> parents]

Requested(e) == e.type = "requested"
Responded(e) == e.type \in {"completed", "failed"}
SameCall(e, f) == e.kind = f.kind /\ e.key = f.key

(* Where a list that is filtered down to some of its positions has the k-th*)
(* of them.                                                                *)
Position(S, k) == CHOOSE i \in S : Cardinality({j \in S : j <= i}) = k
=============================================================================
