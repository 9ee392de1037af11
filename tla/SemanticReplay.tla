--------------------------- MODULE SemanticReplay ---------------------------
(***************************************************************************)
(* SemanticReplayRunner.run(): validates a workflow document and what it   *)
(* was given, runs the nodes in passes over the declared order as their    *)
(* dependencies settle, each attempt through the policy, verifies every    *)
(* output, and reports whether process and result match the document.      *)
(***************************************************************************)
EXTENDS ReplayPolicy

CONSTANTS
  Workflows,   \* workflow documents
  Agents,      \* semantic agent adapters
  Verifiers,   \* verifier adapters the caller has configured
  VerifierSideEffect

Statuses == {"completed", "failed", "skipped", "blocked"}

(* Fault: "always" includes nodes that never ran.                          *)
WantedWhatever == [success |-> {"completed"}, failure |-> {"failed"},
                   always |-> {"completed", "failed", "skipped", "blocked"}]

Wanted == [success |-> {"completed"}, failure |-> {"failed"},
           always |-> {"completed", "failed", "skipped"}]

NodeKinds == {"agent_task", "tool_call", "verification", "human_approval"}

(* A document node: when it runs only if a condition holds, the condition  *)
(* is the input's (false) or that the output of another node exists or -   *)
(* falsy and not_equals hold of an absent output - does not.               *)
Node == [id : STRING, kind : NodeKinds, deps : Seq([of : STRING, on : DOMAIN Wanted]),
         when : {"", "false"} \cup STRING, absent : BOOLEAN, sideEffect : Effects,
         needsApproval : BOOLEAN,
         attempts : Nat \ {0}, onFailure : {"stop", "continue"}, verifiers : Seq(STRING)]
Workflow == [nodes : Seq(Node), verifiers : SUBSET STRING, outputs : SUBSET STRING]

Agent == [executes : BOOLEAN, kinds : SUBSET NodeKinds, sideEffect : Effects]
NoWorkflow == [nodes |-> <<>>, verifiers |-> {}, outputs |-> {}]
NoAgent == [executes |-> FALSE, kinds |-> {}, sideEffect |-> "read_only"]

ASSUME SemanticAssumption ==
  /\ \A w \in Workflows : w \in Workflow
  /\ \A a \in Agents : a \in Agent
  /\ VerifierSideEffect \in [Verifiers -> Effects]

VARIABLES
  workflow,     \* the document
  agent,        \* the semantic agent adapter's descriptor
  inputsValid,  \* the inputs given match the document's
  results,      \* nodeResults: in the order nodes settled
  cursor,       \* position of the pass over workflow.nodes
  progressed,   \* this pass has settled a node
  attempt,      \* executeNode: current attempt, 0 outside
  checking,     \* verifyNode: verifiers left, and whether a check has failed
  diagnostics,  \* codes of the diagnostics
  report        \* SemanticReplayReport

semanticVars == <<workflow, agent, inputsValid, results, cursor, progressed, attempt,
                  checking, diagnostics, report>>

SemanticCodes ==
  {"INVALID_WORKFLOW", "AGENT_CAPABILITY_MISSING", "INPUT_MISSING", "AGENT_FAILED",
   "SUCCESS_CONDITION_FAILED", "POLICY_BLOCKED", "UNRESOLVED_DEPENDENCY", "OUTPUT_MISSING",
   "OUTPUT_SCHEMA_MISMATCH"}

NotChecking == [on |-> FALSE, left |-> <<>>, rejected |-> FALSE]
NoReport == [process |-> "none", result |-> "none"]

SemanticTypeOK ==
  /\ workflow \in Workflow /\ agent \in Agent /\ inputsValid \in BOOLEAN
  /\ results \in Seq([node : STRING, status : Statuses, attempts : Nat])
  /\ cursor \in Nat \ {0} /\ progressed \in BOOLEAN /\ attempt \in Nat
  /\ checking \in [on : BOOLEAN, left : Seq(STRING), rejected : BOOLEAN]
  /\ diagnostics \subseteq SemanticCodes
  /\ report \in [process : {"none", "matched", "diverged"},
                 result : {"none", "equivalent", "not_equivalent"}]

SemanticInit ==
  /\ workflow = NoWorkflow /\ agent = NoAgent /\ inputsValid = FALSE
  /\ results = <<>> /\ cursor = 1 /\ progressed = FALSE /\ attempt = 0
  /\ checking = NotChecking /\ diagnostics = {} /\ report = NoReport

-----------------------------------------------------------------------------
Ids(w) == {w.nodes[i].id : i \in DOMAIN w.nodes}
DependsOn(w, id) ==
  UNION {{w.nodes[i].deps[d].of : d \in DOMAIN w.nodes[i].deps}
           : i \in {j \in DOMAIN w.nodes : w.nodes[j].id = id}}

(* The depth-first search for WORKFLOW_DEPENDENCY_CYCLE finds one exactly  *)
(* when some nodes all depend on one of themselves.                        *)
Cyclic(w) ==
  \E S \in SUBSET Ids(w) : S # {} /\ \A id \in S : DependsOn(w, id) \cap S # {}

ValidWorkflow(w) ==
  /\ \A i, j \in DOMAIN w.nodes : w.nodes[i].id = w.nodes[j].id => i = j
  /\ \A i \in DOMAIN w.nodes :
       /\ DependsOn(w, w.nodes[i].id) \subseteq Ids(w)
       /\ w.nodes[i].when \in {"", "false"} \cup Ids(w)
       /\ \A v \in DOMAIN w.nodes[i].verifiers : w.nodes[i].verifiers[v] \in w.verifiers
  /\ w.outputs \subseteq Ids(w)
  /\ ~Cyclic(w)

(* An agent that names no node kinds takes them all.                       *)
Compatible(w, a) ==
  a.kinds = {} \/ {w.nodes[i].kind : i \in DOMAIN w.nodes} \subseteq a.kinds

Refusal ==
  CASE ~ValidWorkflow(workflow) -> "INVALID_WORKFLOW"
    [] ~agent.executes -> "AGENT_FAILED"
    [] ~Compatible(workflow, agent) -> "AGENT_CAPABILITY_MISSING"
    [] ~inputsValid -> "INPUT_MISSING"
    [] OTHER -> "none"

Rank(sideEffect) == CHOOSE i \in DOMAIN SideEffects : SideEffects[i] = sideEffect
MostRestrictive(a, b) == IF Rank(a) >= Rank(b) THEN a ELSE b

AgentAction(node, n) ==
  [mode |-> "live", kind |-> "agent", target |-> node.id,
   sideEffect |-> MostRestrictive(node.sideEffect, agent.sideEffect),
   key |-> <<node.id>>, attempt |-> n]
VerifierAction(node, v, n) ==
  [mode |-> "live", kind |-> "verifier", target |-> v, sideEffect |-> VerifierSideEffect[v],
   key |-> <<node.id, v>>, attempt |-> n]

Settled == {results[i].node : i \in DOMAIN results}
StatusOf(id) ==
  IF id \in Settled
  THEN results[CHOOSE i \in DOMAIN results : results[i].node = id].status ELSE "open"

Pending == {i \in DOMAIN workflow.nodes : workflow.nodes[i].id \notin Settled}
Current == workflow.nodes[cursor]
Scheduling == runStatus = "running" /\ job.step = "idle" /\ attempt = 0
Stopped ==
  \E i \in DOMAIN workflow.nodes :
    workflow.nodes[i].onFailure = "stop" /\ StatusOf(workflow.nodes[i].id) = "failed"
Visiting ==
  Scheduling /\ ~Stopped /\ cursor <= Len(workflow.nodes) /\ Current.id \notin Settled

(* The first dependency that is not met makes a node wait or blocks it.    *)
DependencyState(node) ==
  LET unmet == {d \in DOMAIN node.deps :
                  StatusOf(node.deps[d].of) \notin Wanted[node.deps[d].on]}
      first == CHOOSE d \in unmet : \A e \in unmet : d <= e
  IN IF unmet = {} THEN "ready"
     ELSE IF StatusOf(node.deps[first].of) = "open" THEN "waiting" ELSE "blocked"

ConditionPasses(node) ==
  \/ node.when = ""
  \/ node.when # "false" /\ (StatusOf(node.when) = "completed") = ~node.absent

-----------------------------------------------------------------------------
(* The caller makes a runner for one of the documents, and runs it with or *)
(* without the inputs the document wants.                                  *)
NewSemanticRunner(documents) ==
  /\ workflow = NoWorkflow /\ workflow' \in documents /\ agent' \in Agents
  /\ inputsValid' \in BOOLEAN
  /\ UNCHANGED <<results, cursor, progressed, attempt, checking, diagnostics, report>>

StartSemantic ==
  /\ IF Refusal = "none"
     THEN StartRun(ApprovalSets) /\ UNCHANGED <<diagnostics, report>>
     ELSE /\ FailAtStart /\ diagnostics' = {Refusal}
          /\ report' = [process |-> "diverged", result |-> "not_equivalent"]
  /\ UNCHANGED <<job, executed>>
  /\ UNCHANGED <<workflow, agent, inputsValid, results, cursor, progressed, attempt, checking>>

Settle(status, attempts) ==
  /\ results' = Append(results, [node |-> Current.id, status |-> status,
                                 attempts |-> attempts])
  /\ cursor' = cursor + 1 /\ progressed' = TRUE

(* Fault: a pass does not go beyond a node that waits.                     *)
PassOverSettled ==
  /\ Scheduling /\ ~Stopped /\ cursor <= Len(workflow.nodes) /\ Pending # {}
  /\ Current.id \in Settled
  /\ cursor' = cursor + 1
  /\ UNCHANGED policyVars
  /\ UNCHANGED <<workflow, agent, inputsValid, results, progressed, attempt, checking,
                 diagnostics, report>>

(* One turn of the for loop.                                               *)
PassOver ==
  /\ Scheduling /\ ~Stopped /\ cursor <= Len(workflow.nodes) /\ Pending # {}
  /\ Current.id \in Settled \/ DependencyState(Current) = "waiting"
  /\ cursor' = cursor + 1
  /\ UNCHANGED policyVars
  /\ UNCHANGED <<workflow, agent, inputsValid, results, progressed, attempt, checking,
                 diagnostics, report>>

BlockOrSkip ==
  /\ Visiting
  /\ \/ DependencyState(Current) = "blocked" /\ Settle("blocked", 0)
     \/ /\ DependencyState(Current) = "ready" /\ ~ConditionPasses(Current)
        /\ Settle("skipped", 0)
  /\ UNCHANGED policyVars
  /\ UNCHANGED <<workflow, agent, inputsValid, attempt, checking, diagnostics, report>>

BeginNode ==
  /\ Visiting /\ DependencyState(Current) = "ready" /\ ConditionPasses(Current)
  /\ attempt' = 1
  /\ job' = Submitted(AgentAction(Current, 1), Current.needsApproval, 0)
  /\ UNCHANGED <<rules, approved, runStatus, log, executed>>
  /\ UNCHANGED <<workflow, agent, inputsValid, results, cursor, progressed, checking,
                 diagnostics, report>>

(* The agent answers an output that meets the node's schemas and conditions*)
(* or one that does not, an error, or nothing; a verifier completes or     *)
(* fails.                                                                  *)
OperateSemantic ==
  /\ Operate(IF job.action.kind = "agent" THEN {"good", "bad", "failed", "undefined"}
             ELSE {"completed", "failed"})
  /\ UNCHANGED semanticVars

-----------------------------------------------------------------------------
(* Fault: a failure with on_failure "continue" leaves no diagnostic.       *)
FailNodeQuietly(code) ==
  /\ Settle("failed", attempt) /\ attempt' = 0 /\ job' = Idle
  /\ diagnostics' = diagnostics \cup {c \in {code} : Current.onFailure = "stop"}

(* executeNode() after an attempt that did not complete the node: try it   *)
(* again, or give up at once when the policy has blocked it or the agent   *)
(* has answered nothing.                                                   *)
FailNode(code) ==
  /\ Settle("failed", attempt) /\ attempt' = 0 /\ job' = Idle
  /\ diagnostics' = diagnostics \cup {code}
TryAgain ==
  \/ /\ attempt < Current.attempts /\ attempt' = attempt + 1
     /\ job' = Submitted(AgentAction(Current, attempt + 1), Current.needsApproval, 0)
     /\ UNCHANGED <<results, cursor, progressed, diagnostics>>
  \/ attempt = Current.attempts /\ FailNode("SUCCESS_CONDITION_FAILED")

AgentAnswered ==
  /\ runStatus = "running" /\ job.step = "returned" /\ job.action.kind = "agent"
  /\ \/ job.outcome \in {"blocked", "undefined"} /\ FailNode("POLICY_BLOCKED") /\ UNCHANGED checking
     \/ job.outcome = "failed" /\ TryAgain /\ UNCHANGED checking
     \/ /\ job.outcome \in {"good", "bad"}
        /\ checking' = [on |-> TRUE, left |-> Current.verifiers,
                        rejected |-> job.outcome = "bad"]
        /\ job' = Idle /\ UNCHANGED <<results, cursor, progressed, attempt, diagnostics>>
  /\ UNCHANGED <<rules, approved, runStatus, log, executed>>
  /\ UNCHANGED <<workflow, agent, inputsValid, report>>

(* verifyNode() goes through every verifier, whatever the ones before say; *)
(* one without an adapter rejects the output.                              *)
CheckNext ==
  /\ runStatus = "running" /\ checking.on /\ job.step = "idle" /\ checking.left # <<>>
  /\ LET v == Head(checking.left) IN
       \/ /\ v \in Verifiers /\ UNCHANGED checking
          /\ job' = Submitted(VerifierAction(Current, v, attempt), FALSE, 0)
       \/ /\ v \notin Verifiers /\ UNCHANGED job
          /\ checking' = [checking EXCEPT !.left = Tail(checking.left), !.rejected = TRUE]
  /\ UNCHANGED <<rules, approved, runStatus, log, executed>>
  /\ UNCHANGED <<workflow, agent, inputsValid, results, cursor, progressed, attempt,
                 diagnostics, report>>

(* Fault: a verifier that has run counts as satisfied, whatever it says.   *)
VerifierAnsweredAnyhow ==
  /\ runStatus = "running" /\ job.step = "returned" /\ job.action.kind = "verifier"
  /\ checking' = [checking EXCEPT !.left = Tail(checking.left),
                    !.rejected = checking.rejected \/ job.outcome = "blocked"]
  /\ job' = Idle
  /\ UNCHANGED <<rules, approved, runStatus, log, executed>>
  /\ UNCHANGED <<workflow, agent, inputsValid, results, cursor, progressed, attempt,
                 diagnostics, report>>

VerifierAnswered ==
  /\ runStatus = "running" /\ job.step = "returned" /\ job.action.kind = "verifier"
  /\ checking' = [checking EXCEPT !.left = Tail(checking.left),
                    !.rejected = checking.rejected \/ job.outcome # "completed"]
  /\ job' = Idle
  /\ UNCHANGED <<rules, approved, runStatus, log, executed>>
  /\ UNCHANGED <<workflow, agent, inputsValid, results, cursor, progressed, attempt,
                 diagnostics, report>>

Conclude ==
  /\ runStatus = "running" /\ checking.on /\ job.step = "idle" /\ checking.left = <<>>
  /\ checking' = NotChecking
  /\ \/ /\ ~checking.rejected
        /\ log' = Append(log, [RunEvent("decision.recorded", Latest) EXCEPT
                                 !.key = <<Current.id>>, !.value = "completed"])
        /\ Settle("completed", attempt) /\ attempt' = 0 /\ UNCHANGED <<job, diagnostics>>
     \/ checking.rejected /\ TryAgain /\ UNCHANGED log
  /\ UNCHANGED <<rules, approved, runStatus, executed>>
  /\ UNCHANGED <<workflow, agent, inputsValid, report>>

-----------------------------------------------------------------------------
(* All that are left are blocked, in the declared order.                   *)
BlockedRest ==
  results \o [k \in 1..Cardinality(Pending) |->
    [node |-> workflow.nodes[Position(Pending, k)].id, status |-> "blocked", attempts |-> 0]]

(* The end of a pass: another one, or no node can be scheduled any more.   *)
EndPass ==
  /\ Scheduling /\ ~Stopped /\ cursor > Len(workflow.nodes) /\ Pending # {}
  /\ \/ progressed /\ cursor' = 1 /\ progressed' = FALSE /\ UNCHANGED <<results, diagnostics>>
     \/ /\ ~progressed /\ results' = BlockedRest
        /\ diagnostics' = diagnostics \cup {"UNRESOLVED_DEPENDENCY"}
        /\ UNCHANGED <<cursor, progressed>>
  /\ UNCHANGED policyVars
  /\ UNCHANGED <<workflow, agent, inputsValid, attempt, checking, report>>

StopRest ==
  /\ Scheduling /\ Stopped /\ Pending # {}
  /\ results' = BlockedRest
  /\ UNCHANGED policyVars
  /\ UNCHANGED <<workflow, agent, inputsValid, cursor, progressed, attempt, checking,
                 diagnostics, report>>

(* The outputs are collected (a node's output may miss the output's        *)
(* schema), the run is ended and the report made.                          *)
Finish ==
  /\ Scheduling /\ Pending = {}
  /\ \E schemasHold \in BOOLEAN :
       LET missing == \E id \in workflow.outputs : StatusOf(id) # "completed"
           complete == diagnostics = {} /\ ~missing /\ (schemasHold \/ workflow.outputs = {})
           matched == \A i \in DOMAIN results :
                        /\ results[i].status = "completed" /\ results[i].attempts = 1
                        /\ results[i].node = workflow.nodes[i].id
       IN /\ EndRun(IF complete THEN "completed" ELSE "failed")
          /\ diagnostics' = diagnostics \cup
               {code \in {"OUTPUT_MISSING"} : missing}
               \cup {code \in {"OUTPUT_SCHEMA_MISMATCH"} : ~schemasHold /\ workflow.outputs # {}}
          /\ report' = [process |-> IF matched THEN "matched" ELSE "diverged",
                        result |-> IF complete THEN "equivalent" ELSE "not_equivalent"]
  /\ UNCHANGED <<rules, approved, job, executed>>
  /\ UNCHANGED <<workflow, agent, inputsValid, results, cursor, progressed, attempt, checking>>

SemanticStep ==
  \/ StartSemantic \/ PassOver \/ BlockOrSkip \/ BeginNode
  \/ RecordDecision /\ UNCHANGED semanticVars
  \/ OperateSemantic \/ AgentAnswered \/ CheckNext \/ VerifierAnswered \/ Conclude
  \/ EndPass \/ StopRest \/ Finish

(* run() throws when the agent or a verifier does, or when an append of a  *)
(* decision, of a completed node or of the run's ending is refused.        *)
SemanticThrows ==
  /\ \/ OperationThrows
     \/ /\ \/ job.step = "deciding"
           \/ checking.on /\ job.step = "idle" /\ checking.left = <<>> /\ ~checking.rejected
           \/ Scheduling /\ Pending = {}
        /\ RecorderRefuses
  /\ UNCHANGED semanticVars

-----------------------------------------------------------------------------
AgentRuns == {i \in DOMAIN executed : executed[i].action.kind = "agent"}

(* What the two words of the report may be relied on for.  "matched": the  *)
(* agent ran once for every node, in the declared order, and never for a   *)
(* retry.  "equivalent": the run is completed, every output comes from a   *)
(* completed node, and a node that did not complete was left out by its    *)
(* condition or by what its dependencies came to, never by a failure.      *)
ReportMeans ==
  /\ report.process = "matched" =>
       /\ Cardinality(AgentRuns) = Len(workflow.nodes)
       /\ \A k \in DOMAIN workflow.nodes :
            executed[Position(AgentRuns, k)].action.target = workflow.nodes[k].id
  /\ report.result = "equivalent" =>
       /\ runStatus = "completed"
       /\ \A id \in workflow.outputs : StatusOf(id) = "completed"
       /\ \A id \in Ids(workflow) :
            \/ StatusOf(id) \in {"completed", "skipped"}
            \/ /\ StatusOf(id) = "blocked"
               /\ \E of \in DependsOn(workflow, id) :
                    StatusOf(of) \in {"completed", "skipped", "blocked"}

(* A node the log calls completed got a good output from the agent, which  *)
(* every one of its verifiers then accepted at that same attempt - it ran, *)
(* and came to "completed" -, and the agent never runs for it again        *)
(* (semantic.ts:542-575, 633-680).                                         *)
CompletionVerified ==
  \A p \in DOMAIN log : log[p].type = "decision.recorded" /\ log[p].value = "completed" =>
    \E i \in DOMAIN executed :
      LET action == executed[i].action
          node == workflow.nodes[CHOOSE k \in DOMAIN workflow.nodes :
                                   workflow.nodes[k].id = action.target]
      IN /\ action.kind = "agent" /\ action.key = log[p].key /\ executed[i].after < p
         /\ executed[i].outcome = "good"
         /\ \A j \in DOMAIN executed :
              j > i => executed[j].action.key # action.key
         /\ \A v \in DOMAIN node.verifiers :
              \E j \in DOMAIN executed :
                /\ j > i /\ executed[j].after < p
                /\ executed[j].action.key = <<node.id, node.verifiers[v]>>
                /\ executed[j].action.attempt = action.attempt
                /\ executed[j].outcome = "completed"

(* The runner implements the schedule; in particular a document that has   *)
(* passed validation is never left with nodes that cannot be scheduled.    *)
Schedule == INSTANCE WorkflowSchedule WITH
  dependencies <- UNION {{[node |-> workflow.nodes[i].id, of |-> workflow.nodes[i].deps[d].of,
                           on |-> workflow.nodes[i].deps[d].on]
                            : d \in DOMAIN workflow.nodes[i].deps}
                           : i \in DOMAIN workflow.nodes},
  stopping <- {workflow.nodes[i].id : i \in {k \in DOMAIN workflow.nodes :
                                               workflow.nodes[k].onFailure = "stop"}},
  outcome <- [id \in Ids(workflow) |-> StatusOf(id)],
  working <- {workflow.nodes[i].id : i \in {k \in DOMAIN workflow.nodes :
                                              k = cursor /\ attempt > 0}}
ScheduleSpec == Schedule!Spec
=============================================================================
