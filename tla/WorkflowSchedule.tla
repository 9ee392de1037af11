-------------------------- MODULE WorkflowSchedule --------------------------
(***************************************************************************)
(* What a workflow document promises about the order of its nodes: one     *)
(* node is at work at a time, a node settles once, it works only after     *)
(* every dependency has settled with the outcome the dependency names, and *)
(* it is blocked only because one of them settled otherwise or a failed    *)
(* node stops the workflow.                                                *)
(***************************************************************************)
VARIABLES
  dependencies,  \* [node, of, on]: node waits for of to end as on says
  stopping,      \* nodes whose failure stops the workflow
  outcome,       \* per node: "open", "completed", "failed", "skipped" or "blocked"
  working        \* the nodes at work: none or one

documentVars == <<dependencies, stopping>>
scheduleVars == <<documentVars, outcome, working>>

Wanted == [success |-> {"completed"}, failure |-> {"failed"},
           always |-> {"completed", "failed", "skipped"}]

Nodes == DOMAIN outcome
Open == \A n \in Nodes : outcome[n] = "open"

Init == Open /\ working = {}

Settled(n) == outcome[n] # "open"
Met(d) == outcome[d.of] \in Wanted[d.on]
Of(n) == {d \in dependencies : d.node = n}
Stopped == \E n \in stopping : outcome[n] = "failed"

Begin(n) ==
  /\ working = {} /\ ~Settled(n) /\ ~Stopped
  /\ \A d \in Of(n) : Met(d)
  /\ working' = {n} /\ UNCHANGED outcome

End(n) ==
  /\ working = {n} /\ working' = {}
  /\ \E result \in {"completed", "failed"} : outcome' = [outcome EXCEPT ![n] = result]

Skip(n) ==
  /\ working = {} /\ ~Settled(n) /\ ~Stopped
  /\ \A d \in Of(n) : Met(d)
  /\ outcome' = [outcome EXCEPT ![n] = "skipped"] /\ UNCHANGED working

Block(n) ==
  /\ working = {} /\ ~Settled(n) /\ ~Stopped
  /\ \E d \in Of(n) : Settled(d.of) /\ ~Met(d)
  /\ outcome' = [outcome EXCEPT ![n] = "blocked"] /\ UNCHANGED working

BlockRest ==
  /\ working = {} /\ Stopped
  /\ outcome' = [n \in Nodes |-> IF Settled(n) THEN outcome[n] ELSE "blocked"]
  /\ UNCHANGED working

(* Another document, while no node of this one has been looked at.         *)
Adopt == Open /\ working = {} /\ Open' /\ working' = {}

Next ==
  \/ Adopt
  \/ /\ BlockRest \/ \E n \in Nodes : Begin(n) \/ End(n) \/ Skip(n) \/ Block(n)
     /\ UNCHANGED documentVars

Spec == Init /\ [][Next]_scheduleVars
=============================================================================
