----------------------------- MODULE TraceGraph -----------------------------
(***************************************************************************)
(* The projections of a trace: runs of adjacent low-level events are folded*)
(* into one node, nodes are filtered, and causal links become edges.  The  *)
(* clock is taken never to step back, so timestamps order like sequences.  *)
(***************************************************************************)
EXTENDS TraceEvents

StatusForType(type) ==
  CASE type \in {"failed", "run.failed"} -> "failed"
    [] type \in {"completed", "run.completed"} -> "completed"
    [] type = "state.changed" -> "changed"
    [] type = "decision.recorded" -> "recorded"
    [] type = "checkpoint.created" -> "checkpointed"
    [] type \in {"requested", "run.started"} -> "started"
    [] OTHER -> "unknown"

Foldable(e) == e.type = "log.note"

(* groupEvents(): the first positions of the groups.                       *)
GroupStarts(events, folding) ==
  {i \in DOMAIN events :
     i = 1 \/ ~folding \/ ~Foldable(events[i]) \/ ~Foldable(events[i - 1])}

(* createNode(): a group is known by its first event.                      *)
GroupOf(events, folding, i) ==
  CHOOSE g \in GroupStarts(events, folding) :
    g <= i /\ \A h \in GroupStarts(events, folding) : h <= i => h <= g
Members(events, folding, g) == {i \in DOMAIN events : GroupOf(events, folding, i) = g}

AggregateStatus(events, members) ==
  LET statuses == {StatusForType(events[i].type) : i \in members} IN
  IF "failed" \in statuses THEN "failed"
  ELSE IF "completed" \in statuses THEN "completed"
  ELSE StatusForType(events[CHOOSE i \in members : \A j \in members : i <= j].type)

(* matchesFilter(): "any" matches everything.                              *)
Shows(filter, events, members) ==
  /\ filter.type = "any" \/ \E i \in members : events[i].type = filter.type
  /\ filter.status \in {"any", AggregateStatus(events, members)}
  /\ \E i \in members : i >= filter.from
  /\ \E i \in members : i <= filter.to

VisibleNodes(events, folding, filter) ==
  {g \in GroupStarts(events, folding) : Shows(filter, events, Members(events, folding, g))}

(* Fault: an edge may come from a node that the filter hides.              *)
ParentNodesHidden(events, folding, filter, g) ==
  {GroupOf(events, folding, p) :
     p \in UNION {events[i].parents : i \in Members(events, folding, g)}}

(* The visible nodes a node's parents belong to, itself included.          *)
ParentNodes(events, folding, filter, g) ==
  LET parents == UNION {events[i].parents : i \in Members(events, folding, g)} IN
  {GroupOf(events, folding, p) : p \in parents} \cap VisibleNodes(events, folding, filter)

(* causalEdges(): all parents for the DAG, the first one for the tree; an  *)
(* edge from a node to itself is dropped.                                  *)
CausalDag(events, folding, filter) ==
  {edge \in UNION {{<<p, g>> : p \in ParentNodes(events, folding, filter, g)}
                     : g \in VisibleNodes(events, folding, filter)} : edge[1] # edge[2]}

CallTree(events, folding, filter) ==
  LET selected(g) == {p \in ParentNodes(events, folding, filter, g) :
                        \A q \in ParentNodes(events, folding, filter, g) : p <= q}
  IN {edge \in UNION {{<<p, g>> : p \in selected(g)} : g \in VisibleNodes(events, folding, filter)} :
        edge[1] # edge[2]}
=============================================================================
