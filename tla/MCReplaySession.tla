-------------------------- MODULE MCReplaySession --------------------------
(* Instances of ReplaySession for TLC.                                      *)
EXTENDS ReplaySession, TLC

R == "read_only"
W == "workspace_write"

ModelCall == [kind |-> "model", key |-> <<"m">>, target |-> "gpt", sideEffect |-> R]
ToolCall == [kind |-> "tool", key |-> <<"t">>, target |-> "edit", sideEffect |-> W]
OtherCall == [kind |-> "tool", key |-> <<"n">>, target |-> "gpt", sideEffect |-> R]
MCCalls == {ModelCall, ToolCall, OtherCall}

Live(kind, name, sideEffect) ==
  [kind |-> kind, name |-> name, capable |-> TRUE, sideEffect |-> sideEffect]
MCLiveAdapters ==
  {{Live("model", "any", R), Live("tool", "edit", W)}, {Live("model", "any", R)}}

MCAccepted == {<<"good", "fine">>}

MCRule(kind, target, sideEffect, decision) ==
  [mode |-> "any", kind |-> kind, target |-> target, sideEffect |-> sideEffect,
   decision |-> decision]
MCRuleLists ==
  {<<MCRule("any", "any", W, "require_approval")>>,
   <<MCRule("verifier", "v", "any", "deny"), MCRule("tool", "any", R, "dry_run"),
     MCRule("any", "any", "any", "allow")>>}
MCApprovalSets == {{}, {<<"t">>, <<"b">>}}

MCStateChanges == {<<"set", "list">>, <<"append", "scalar">>, <<"set", "lost">>}

MCNode(id, deps, when, absent, sideEffect, needsApproval, attempts, onFailure, verifiers) ==
  [id |-> id, kind |-> IF verifiers = <<>> THEN "agent_task" ELSE "verification",
   deps |-> deps, when |-> when, absent |-> absent, sideEffect |-> sideEffect, needsApproval |-> needsApproval,
   attempts |-> attempts, onFailure |-> onFailure, verifiers |-> verifiers]
On(of, on) == [of |-> of, on |-> on]

MCUnrecorded == {[p |-> Fresh("object")]}

(* Calls that are retried, in parallel or answered twice, a call with log  *)
(* events around it, one among state changes and a checkpoint, and a state *)
(* that is checkpointed twice.                                             *)
MCExtent(asked, completed, failed, notes, changes, checkpoints) ==
  "run.started" :> 1 @@ "requested" :> asked @@ "completed" :> completed
    @@ "failed" :> failed @@ "log.note" :> notes @@ "state.changed" :> changes
    @@ "checkpoint.created" :> checkpoints
MCExtents ==
  {MCExtent(2, 1, 1, 0, 0, 0), MCExtent(3, 0, 0, 0, 0, 0), MCExtent(1, 1, 0, 2, 0, 0),
   MCExtent(2, 0, 0, 1, 0, 0),
   MCExtent(1, 1, 0, 0, 1, 1), MCExtent(0, 0, 0, 0, 2, 2)}

(* Three nodes: how b and c depend on a and on one another varies; once c   *)
(* runs only without an output of b.                                        *)
MCWorkflows ==
  {[nodes |-> <<MCNode("b", b, "", FALSE, W, FALSE, 1, "stop", <<"v">>),
                MCNode("a", <<>>, a, FALSE, R, FALSE, 2, "continue", <<"v", "u">>),
                MCNode("c", c.deps, c.when, TRUE, W, TRUE, 1, "continue", <<>>)>>,
    verifiers |-> {"v", "u"}, outputs |-> {"b"}]
     : a \in {"", "false"},
       b \in {<<>>, <<On("a", "success")>>, <<On("c", "always")>>},
       c \in {[deps |-> <<On("a", "failure")>>, when |-> "b"],
              [deps |-> <<On("b", "success"), On("a", "always")>>, when |-> ""]}}
MCAgents == {[executes |-> TRUE, kinds |-> {}, sideEffect |-> R],
             [executes |-> TRUE, kinds |-> {"agent_task"}, sideEffect |-> R],
             [executes |-> FALSE, kinds |-> {}, sideEffect |-> R]}
MCVerifierSideEffect == [v |-> R]

MCGraphFilters ==
  {[type |-> "any", status |-> "any", from |-> 1, to |-> 9],
   [type |-> "any", status |-> "started", from |-> 1, to |-> 4]}
=============================================================================
