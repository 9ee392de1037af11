---------------------------- MODULE ReplayPolicy ----------------------------
(***************************************************************************)
(* ReplayPolicyEngine and its audit sink, as every replay runner uses them *)
(* in the one run it records: an action is evaluated against the caller's  *)
(* current rules and approvals, the decision is appended to the new run as *)
(* decision.recorded, and only then may the operation run.                 *)
(***************************************************************************)
EXTENDS TraceEvents

CONSTANTS
  RuleLists,    \* lists of policy rules the caller may configure
  ApprovalSets  \* sets of keys whose first attempt the caller may approve

Modes == {"live", "recorded"}

(* A rule leaves out a field ("any") to match every action.                *)
Rule == [mode : Modes \cup {"any"}, kind : Kinds \cup {"any"}, target : STRING,
         sideEffect : Effects \cup {"any"}, decision : Decisions]

ASSUME PolicyAssumption ==
  /\ \A list \in RuleLists : list \in Seq(Rule)
  /\ \A approvals \in ApprovalSets : \A key \in approvals : key \in Seq(STRING)

VARIABLES
  rules,      \* ReplayPolicyEngine.rules
  approved,   \* keys of the calls the caller has approved, at attempt 1
  runStatus,  \* the new run: RecorderRunStatus, "rejected" once run() has thrown
  log,        \* events of the new run
  job,        \* the policy.execute() call in flight
  executed    \* history: operations run, with the length of log at that time and
              \* what they came to, "none" when they threw

policyVars == <<rules, approved, runStatus, log, job, executed>>

Action == [mode : Modes, kind : Kinds, target : {""} \cup STRING, sideEffect : Effects,
           key : Seq(STRING), attempt : Nat \ {0}]
NoAction == [mode |-> "live", kind |-> "agent", target |-> "", sideEffect |-> "read_only",
             key |-> <<>>, attempt |-> 1]

Idle == [step |-> "idle", action |-> NoAction, needsApproval |-> FALSE, request |-> 0,
         outcome |-> "none"]

PolicyTypeOK ==
  /\ rules \in Seq(Rule) /\ approved \subseteq Seq(STRING)
  /\ runStatus \in {"none", "running", "completed", "failed", "rejected"}
  /\ log \in Seq(Event)
  /\ job \in [step : {"idle", "deciding", "operating", "returned"}, action : Action,
              needsApproval : BOOLEAN, request : Nat, outcome : Values]
  /\ executed \in Seq([action : Action, needsApproval : BOOLEAN, after : Nat, outcome : Values])

PolicyInit ==
  /\ rules = <<>> /\ approved = {}
  /\ runStatus = "none" /\ log = <<>> /\ job = Idle /\ executed = <<>>

(* The policy the caller made the runner with; nothing asks for it before  *)
(* the run has started, so it is picked then.                              *)
Configure(approvals) == rules' \in RuleLists /\ approved' \in approvals

-----------------------------------------------------------------------------
Matches(rule, action) ==
  /\ rule.mode \in {"any", action.mode} /\ rule.kind \in {"any", action.kind}
  /\ rule.target \in {"any", action.target}
  /\ rule.sideEffect \in {"any", action.sideEffect}

Default(action) ==
  IF action.mode = "recorded" \/ action.sideEffect = "read_only" THEN "allow" ELSE "deny"

(* The first matching rule decides.                                        *)
Configured(action) ==
  LET matching == {i \in DOMAIN rules : Matches(rules[i], action)}
      first == CHOOSE i \in matching : \A j \in matching : i <= j
  IN IF matching = {} THEN Default(action) ELSE rules[first].decision

(* Fault: an approval is good for every attempt of its call.               *)
SuppliedForCall(action) == {action : key \in approved \cap {action.key}}

(* The approval the caller comes up with: it is kept per call, and its     *)
(* actionId is that of the call's first attempt.                           *)
Supplied(action) == {[action EXCEPT !.attempt = 1] : key \in approved \cap {action.key}}

Evaluate(action, needsApproval) ==
  LET configured == Configured(action) IN
  CASE configured \in {"deny", "dry_run"} -> configured
    [] configured = "allow" /\ ~needsApproval -> "allow"
    [] OTHER -> IF action \in Supplied(action) THEN "allow" ELSE "require_approval"

-----------------------------------------------------------------------------
EventOf(type, action, value, parents) ==
  [type |-> type, kind |-> action.kind, key |-> action.key, attempt |-> action.attempt,
   value |-> value, parents |-> parents]

(* A run starts with its run.started event and ends with a terminal one;   *)
(* the default context of an event is the one before it.                   *)
Latest == IF log = <<>> THEN {} ELSE {Len(log)}
StartRun(approvals) ==
  /\ runStatus = "none" /\ runStatus' = "running" /\ Configure(approvals)
  /\ log' = <<RunEvent("run.started", {})>>
Ending == [completed |-> "run.completed", failed |-> "run.failed"]
EndRun(status) ==
  /\ runStatus' = status /\ log' = Append(log, RunEvent(Ending[status], Latest))

(* A run that fails before its first operation.                            *)
FailAtStart ==
  /\ runStatus = "none" /\ runStatus' = "failed"
  /\ log' = <<RunEvent("run.started", {}), RunEvent("run.failed", {1})>>
  /\ UNCHANGED <<rules, approved>>

(* policy.execute(action): the decision's event hangs on the event request *)
(* (0: the latest).                                                        *)
Submitted(action, needsApproval, request) ==
  [step |-> "deciding", action |-> action, needsApproval |-> needsApproval,
   request |-> request, outcome |-> "none"]

(* Fault: only refusals are recorded.                                      *)
RecordRefusal ==
  /\ runStatus = "running" /\ job.step = "deciding"
  /\ LET decision == Evaluate(job.action, job.needsApproval) IN
       /\ log' = IF decision = "allow" THEN log
                 ELSE Append(log, EventOf("decision.recorded", job.action, decision,
                                          IF job.request = 0 THEN Latest ELSE {job.request}))
       /\ job' = IF decision = "allow" THEN [job EXCEPT !.step = "operating"]
                 ELSE [job EXCEPT !.step = "returned", !.outcome = "blocked"]
  /\ UNCHANGED <<rules, approved, runStatus, executed>>

RecordDecision ==
  /\ runStatus = "running" /\ job.step = "deciding"
  /\ LET decision == Evaluate(job.action, job.needsApproval) IN
       /\ log' = Append(log, EventOf("decision.recorded", job.action, decision,
                             IF job.request = 0 THEN Latest ELSE {job.request}))
       /\ job' = IF decision = "allow" THEN [job EXCEPT !.step = "operating"]
                 ELSE [job EXCEPT !.step = "returned", !.outcome = "blocked"]
  /\ UNCHANGED <<rules, approved, runStatus, executed>>

Execution(outcome) ==
  [action |-> job.action, needsApproval |-> job.needsApproval, after |-> Len(log),
   outcome |-> outcome]

(* The operation runs and answers.                                         *)
Operate(outcomes) ==
  /\ runStatus = "running" /\ job.step = "operating"
  /\ \E outcome \in outcomes :
       /\ executed' = Append(executed, Execution(outcome))
       /\ job' = [job EXCEPT !.step = "returned", !.outcome = outcome]
  /\ UNCHANGED <<rules, approved, runStatus, log>>

(* The operation throws, and nothing catches it before run() does.         *)
OperationThrows ==
  /\ runStatus = "running" /\ job.step = "operating"
  /\ executed' = Append(executed, Execution("none"))
  /\ runStatus' = "rejected" /\ job' = Idle
  /\ UNCHANGED <<rules, approved, log>>

(* The recorder refuses an event: appendEvent, completeRun or failRun      *)
(* rejects, and so does run().  The new run stays without an ending.       *)
RecorderRefuses ==
  /\ runStatus = "running" /\ job.step # "operating"
  /\ runStatus' = "rejected" /\ job' = Idle
  /\ UNCHANGED <<rules, approved, log, executed>>

-----------------------------------------------------------------------------
(* No operation runs without an allow decision of its own that was in the  *)
(* new run's log before it: each execution of an action has one decision   *)
(* more than the executions of that very action, attempt included, before. *)
EveryOperationAudited ==
  \A i \in DOMAIN executed :
    LET action == executed[i].action IN
    Cardinality({k \in 1..i : executed[k].action = action})
      <= Cardinality({k \in 1..executed[i].after :
                        log[k] = EventOf("decision.recorded", action, "allow", log[k].parents)})

(* A live operation that can change anything, or that its workflow node    *)
(* reserves for approval, runs only by an authority of this caller: the    *)
(* first rule that matches it, and - where the rule or the node asks for   *)
(* one - an approval given for this very attempt.                          *)
AuthorityIsCurrent ==
  \A i \in DOMAIN executed :
    LET action == executed[i].action
        matching == {r \in DOMAIN rules : Matches(rules[r], action)}
        ruled(decision) == \E r \in matching :
                             rules[r].decision = decision /\ \A q \in matching : r <= q
    IN /\ \/ ruled("allow") \/ ruled("require_approval")
          \/ matching = {} /\ (action.mode = "recorded" \/ action.sideEffect = "read_only")
       /\ ruled("require_approval") \/ executed[i].needsApproval =>
            action.attempt = 1 /\ action.key \in approved
=============================================================================
