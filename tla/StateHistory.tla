---------------------------- MODULE StateHistory ----------------------------
(***************************************************************************)
(* The recoverable state of a run: what state.changed events do to it, and *)
(* reconstructState(), which starts from the newest usable checkpoint.     *)
(***************************************************************************)
EXTENDS TraceEvents

CONSTANT Paths  \* members of the state that events may change

(* A member is absent, a scalar, a list of what was appended, or an object.*)
Json == [shape : {"absent", "scalar", "list", "object"}, content : Seq({"merged"} \cup Values)]
State == [Paths -> Json]
Fresh(shape) == [shape |-> shape, content |-> <<>>]
EmptyState == [path \in Paths |-> Fresh("absent")]

Shapes == {"scalar", "list", "object"}

(* applyStateChanged() throws when it cannot apply an operation, and so    *)
(* does the reading of a payload whose artifact is lost.                   *)
Applies(state, e) ==
  /\ e.value # "lost" /\ Len(e.key) = 1 /\ e.key[1] \in Paths
  /\ LET now == state[e.key[1]].shape IN
     CASE e.kind = "set" -> e.value \in Shapes
       [] e.kind = "merge" -> e.value = "object" /\ now \in {"absent", "object"}
       [] e.kind = "delete" -> now # "absent"
       [] e.kind = "append" -> e.value \in Shapes /\ now = "list"
       [] OTHER -> TRUE

Applied(state, e) ==
  LET old == state[e.key[1]]
      new == CASE e.kind = "set" -> Fresh(e.value)
               [] e.kind = "merge" -> [shape |-> "object", content |-> <<"merged">>]
               [] e.kind = "delete" -> Fresh("absent")
               [] e.kind = "append" -> [old EXCEPT !.content = Append(old.content, e.value)]
               [] OTHER -> old
  IN [state EXCEPT ![e.key[1]] = new]

(* replayStateChanges(): the first change that cannot be applied ends it.  *)
AfterEvent(before, e) ==
  LET applies == before.ok /\ Applies(before.state, e) IN
  IF e.type # "state.changed" THEN before
  ELSE [ok |-> applies, state |-> IF applies THEN Applied(before.state, e) ELSE before.state]

(* state with the events after position from applied in order.             *)
Replayed(state, events, from) ==
  LET upTo[i \in from..Len(events)] ==
        IF i = from THEN [ok |-> TRUE, state |-> state] ELSE AfterEvent(upTo[i - 1], events[i])
  IN upTo[Len(events)]

-----------------------------------------------------------------------------
(* What may have become of a checkpoint file: its run id, its last event   *)
(* or its hash does not match, or its artifact's content does not match    *)
(* its digest; the artifact is gone, or the file cannot be parsed.         *)
Damages == {"run", "event", "hash", "content", "gone", "file"}
Checkpoint == [sequence : Nat \ {0}, state : State, damage : Damages \cup {"none"}]

(* Checkpoint.state can be read, inline or from its artifact.              *)
Available(c) == c.damage \notin {"content", "gone", "file"}

(* validCheckpointBase()                                                   *)
UsableBase(events, c) ==
  Available(c) /\ c.damage \notin {"run", "event", "hash"} /\ c.sequence <= Len(events)

(* Fault: replay goes on from the newest checkpoint, whatever the base is. *)
ReconstructedFromNewest(events, checkpoints) ==
  LET usable == {c \in checkpoints : UsableBase(events, c)}
      newest(S) == CHOOSE c \in S : \A d \in S : d.sequence <= c.sequence
      from == IF checkpoints = {} THEN 0 ELSE newest(checkpoints).sequence
      start == IF usable = {} THEN EmptyState ELSE newest(usable).state
      end == Replayed(start, events, from)
  IN [ok |-> end.ok, state |-> end.state, missed |-> FALSE]

(* validateEventStream() has passed.  missed: a newer checkpoint than the  *)
(* base matched its event but its state was unavailable.                   *)
Reconstructed(events, checkpoints) ==
  LET usable == {c \in checkpoints : UsableBase(events, c)}
      base == CHOOSE c \in usable : \A d \in usable : d.sequence <= c.sequence
      from == IF usable = {} THEN 0 ELSE base.sequence
      start == IF usable = {} THEN EmptyState ELSE base.state
      end == Replayed(start, events, from)
  IN [ok |-> end.ok, state |-> end.state,
      missed |-> \E c \in checkpoints :
                   c.damage \in {"content", "gone"} /\ c.sequence > from]
=============================================================================
