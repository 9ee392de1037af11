------------------------- MODULE ReplayPolicyProofs -------------------------
(***************************************************************************)
(* Theorems on what a replay may do, for every trace, document, runner,    *)
(* policy and adapter: each operation that runs has a recorded decision of *)
(* its own, and an authority its caller has given for this very attempt.   *)
(***************************************************************************)
EXTENDS ReplaySession, FiniteSetTheorems, WellFoundedInduction, TLAPS

(* What the entries of a list are does not matter here, so the invariant   *)
(* asks for no types: the log and the history are sequences of something.  *)
IsSeq(s) == \E S : s \in Seq(S)
Extends(s, t) == IsSeq(t) /\ Len(s) <= Len(t) /\ \A k \in 1..Len(s) : t[k] = s[k]

JobShape(j) ==
  /\ DOMAIN j = {"step", "action", "needsApproval", "request", "outcome"}
  /\ "attempt" \in DOMAIN j.action

PolicyInv ==
  /\ IsSeq(log) /\ IsSeq(executed) /\ rules \in Seq(Rule) /\ JobShape(job)
  /\ runStatus = "none" => executed = <<>> /\ job.step = "idle"

(* Sequences of something behave like sequences.                           *)
LEMMA SeqFacts ==
  ASSUME NEW s, IsSeq(s)
  PROVE  Len(s) \in Nat /\ DOMAIN s = 1..Len(s) /\ Extends(s, s)
BY DEF IsSeq, Extends

(* Append adds one entry and keeps the others.                             *)
LEMMA AppendFacts ==
  ASSUME NEW s, NEW e, IsSeq(s)
  PROVE  /\ Extends(s, Append(s, e)) /\ Len(Append(s, e)) = Len(s) + 1
         /\ Append(s, e)[Len(s) + 1] = e
<1>1. PICK S : s \in Seq(S)
  BY DEF IsSeq
<1>2. s \in Seq(S \cup {e}) /\ e \in S \cup {e}
  BY <1>1
<1>3. Append(s, e) \in Seq(S \cup {e})
  BY <1>2
<1> QED
  BY <1>2, <1>3 DEF IsSeq, Extends

(* A set of natural numbers that is not empty has a least element.         *)
LEMMA LeastNatural ==
  ASSUME NEW S, S \subseteq Nat, S # {}
  PROVE  \E m \in S : \A j \in S : m <= j
<1> DEFINE Less == {pair \in Nat \X Nat : pair[1] < pair[2]}
<1>1. IsWellFoundedOn(Less, Nat)
  BY NatLessThanWellFounded, Zenon DEF OpToRel
<1> HIDE DEF Less
<1>2. \E m \in S : \A j \in S : ~(<<j, m>> \in Less)
  BY <1>1, WFMin, Zenon
<1>3. \A j, m \in S : ~(<<j, m>> \in Less) => m <= j
  BY DEF Less
<1> QED
  BY <1>2, <1>3

-----------------------------------------------------------------------------
(* The ways a step can touch the policy: not at all, apart from the log    *)
(* and from what is asked of it; by starting the run; and by running an    *)
(* operation.  The remaining one is RecordDecision.                        *)
Untouched ==
  /\ UNCHANGED <<rules, approved, executed>> /\ Extends(log, log') /\ JobShape(job')
  /\ job' = job \/ job'.step # "operating"
  /\ runStatus' = "none" => runStatus = "none" /\ job' = job
Begun ==
  /\ runStatus = "none" /\ runStatus' # "none"
  /\ IsSeq(log') /\ rules' \in Seq(Rule) /\ UNCHANGED <<job, executed>>
Performed ==
  /\ runStatus = "running" /\ job.step = "operating"
  /\ UNCHANGED <<rules, approved, log>> /\ \E outcome : executed' = Append(executed, Execution(outcome))
  /\ JobShape(job') /\ job'.step # "operating" /\ runStatus' # "none"

(* Every policy.execute() call, and every state of one, is a job.          *)
LEMMA JobShapes ==
  /\ JobShape(Idle) /\ Idle.step = "idle"
  /\ \A action, needsApproval, request :
       "attempt" \in DOMAIN action =>
         /\ JobShape(Submitted(action, needsApproval, request))
         /\ Submitted(action, needsApproval, request).step = "deciding"
<1>1. Idle.step = "idle" /\ Idle.action = NoAction
  BY DEF Idle
<1>2. "attempt" \in DOMAIN NoAction
  BY DEF NoAction
<1>3. JobShape(Idle)
  BY <1>1, <1>2 DEF JobShape, Idle
<1>4. ASSUME NEW action, NEW needsApproval, NEW request, "attempt" \in DOMAIN action
      PROVE  /\ JobShape(Submitted(action, needsApproval, request))
             /\ Submitted(action, needsApproval, request).step = "deciding"
  BY <1>4 DEF JobShape, Submitted
<1> QED
  BY <1>1, <1>3, <1>4

(* A job that goes on stays the same action.                               *)
LEMMA JobMoves ==
  ASSUME JobShape(job), NEW step, NEW outcome,
         \/ job' = [job EXCEPT !.step = step]
         \/ job' = [job EXCEPT !.step = step, !.outcome = outcome]
  PROVE  /\ JobShape(job') /\ job'.step = step
         /\ job'.action = job.action /\ job'.needsApproval = job.needsApproval
BY DEF JobShape

(* Lists of one or two entries are sequences.                              *)
LEMMA ShortSeqs ==
  ASSUME NEW d, NEW e PROVE IsSeq(<<d>>) /\ IsSeq(<<d, e>>)
<1>1. <<d>> \in Seq({d, e}) /\ <<d, e>> \in Seq({d, e})
  OBVIOUS
<1> QED
  BY <1>1 DEF IsSeq

(* Whatever a runner submits says which attempt it is.                     *)
LEMMA ActionShapes ==
  /\ \A node, n : "attempt" \in DOMAIN AgentAction(node, n)
  /\ \A node, v, n : "attempt" \in DOMAIN VerifierAction(node, v, n)
  /\ \A m, sideEffect : "attempt" \in DOMAIN CallAction(m, sideEffect)
BY DEF AgentAction, VerifierAction, CallAction

(* The semantic runner.                                                    *)
LEMMA SemanticEffect ==
  ASSUME PolicyInv, SemanticStep \/ SemanticThrows
  PROVE  Untouched \/ Begun \/ RecordDecision \/ Performed
<1>0. /\ IsSeq(log) /\ rules \in Seq(Rule) /\ JobShape(job) /\ Extends(log, log)
      /\ IsSeq(executed)
  BY SeqFacts DEF PolicyInv
<1>1. ASSUME StartSemantic PROVE Begun
  <2>1. CASE Refusal = "none"
    BY <1>0, <1>1, <2>1, ShortSeqs, PolicyAssumption DEF StartSemantic, StartRun, Configure, Begun
  <2>2. CASE Refusal # "none"
    BY <1>0, <1>1, <2>2, ShortSeqs DEF StartSemantic, FailAtStart, Begun
  <2> QED
    BY <2>1, <2>2
<1>2. ASSUME PassOver \/ BlockOrSkip \/ EndPass \/ StopRest PROVE Untouched
  BY <1>0, <1>2 DEF PassOver, BlockOrSkip, EndPass, StopRest, policyVars, Untouched
<1>3. ASSUME BeginNode PROVE Untouched
  BY <1>0, <1>3, JobShapes, ActionShapes DEF BeginNode, Visiting, Scheduling, Untouched
<1>4. ASSUME OperateSemantic PROVE Performed
  <2>1. PICK outcome : job' = [job EXCEPT !.step = "returned", !.outcome = outcome]
    BY <1>4, Zenon DEF OperateSemantic, Operate
  <2>3. JobShape(job') /\ job'.step = "returned"
    BY <1>0, <2>1, JobMoves
  <2> QED
    BY <1>4, <2>3 DEF OperateSemantic, Operate, Performed
<1>5. ASSUME TryAgain, runStatus = "running", runStatus' # "none"
      PROVE  JobShape(job') /\ job'.step # "operating"
  BY <1>5, JobShapes, ActionShapes DEF TryAgain, FailNode
<1>6. ASSUME AgentAnswered PROVE Untouched
  <2>1. JobShape(job') /\ job'.step # "operating"
    BY <1>5, <1>6, JobShapes DEF AgentAnswered, FailNode
  <2> QED
    BY <1>0, <1>6, <2>1 DEF AgentAnswered, Untouched
<1>7. ASSUME CheckNext PROVE Untouched
  <2>1. JobShape(job') /\ (job' = job \/ job'.step # "operating")
    BY <1>0, <1>7, JobShapes, ActionShapes DEF CheckNext
  <2> QED
    BY <1>0, <1>7, <2>1 DEF CheckNext, Untouched
<1>8. ASSUME VerifierAnswered PROVE Untouched
  BY <1>0, <1>8, JobShapes DEF VerifierAnswered, Untouched
<1>9. ASSUME Conclude PROVE Untouched
  <2>1. JobShape(job') /\ (job' = job \/ job'.step # "operating")
    BY <1>0, <1>5, <1>9, JobShapes DEF Conclude
  <2>2. log' = log \/ \E e : log' = Append(log, e)
    BY <1>9, Zenon DEF Conclude
  <2>3. Extends(log, log')
    BY <1>0, <2>2, AppendFacts
  <2> QED
    BY <1>0, <1>9, <2>1, <2>3 DEF Conclude, Untouched
<1>10. ASSUME Finish PROVE Untouched
  <2>1. Extends(log, log')
    BY <1>0, <1>10, AppendFacts DEF Finish, EndRun
  <2>2. runStatus' # "none"
    BY <1>10 DEF Finish, EndRun
  <2> QED
    BY <1>0, <1>10, <2>1, <2>2 DEF Finish, Untouched
<1>11. ASSUME SemanticThrows PROVE Untouched \/ Performed
  <2>1. CASE OperationThrows
    BY <1>0, <2>1, JobShapes DEF OperationThrows, Performed
  <2>2. CASE RecorderRefuses
    BY <1>0, <2>2, JobShapes DEF RecorderRefuses, Untouched
  <2> QED
    BY <1>11, <2>1, <2>2 DEF SemanticThrows
<1> QED
  BY <1>1, <1>2, <1>3, <1>4, <1>6, <1>7, <1>8, <1>9, <1>10, <1>11 DEF SemanticStep

(* The two runners that walk a trace.                                      *)
LEMMA TraceEffect ==
  ASSUME PolicyInv, MockStep \/ VerifiedStep \/ AppendRefused
  PROVE  Untouched \/ Begun \/ RecordDecision \/ Performed
<1>0. /\ IsSeq(log) /\ rules \in Seq(Rule) /\ JobShape(job) /\ Extends(log, log)
      /\ IsSeq(executed)
  BY SeqFacts DEF PolicyInv
<1>1. ASSUME StartMock PROVE Begun
  <2>1. ASSUME NEW faults, RefuseSource(faults), UNCHANGED <<job, executed>> PROVE Begun
    BY <1>0, <2>1, ShortSeqs DEF RefuseSource, FailAtStart, Begun
  <2>2. ASSUME StartRun({{}}), UNCHANGED <<job, executed>> PROVE Begun
    BY <1>0, <2>2, ShortSeqs, PolicyAssumption DEF StartRun, Configure, Begun
  <2> QED
    BY <1>1, <2>1, <2>2 DEF StartMock
<1>2. ASSUME StartVerified PROVE Begun
  <2>1. ASSUME NEW faults, RefuseSource(faults), UNCHANGED <<job, executed>> PROVE Begun
    BY <1>0, <2>1, ShortSeqs DEF RefuseSource, FailAtStart, Begun
  <2>2. ASSUME runStatus = "none", runStatus' = "running", Configure(ApprovalSets),
               log' = (IF resume = 0 THEN <<RunEvent("run.started", {})>>
                       ELSE <<RunEvent("run.started", {}), RunEvent("checkpoint.created", {1})>>),
               UNCHANGED <<job, executed>>
        PROVE  Begun
    BY <1>0, <2>2, ShortSeqs, PolicyAssumption DEF Configure, Begun
  <2> QED
    BY <1>2, <2>1, <2>2 DEF StartVerified
<1>3. ASSUME UNCHANGED <<rules, approved, runStatus, job, executed>>,
             log' = log \/ \E e : log' = Append(log, e)
      PROVE  Untouched
  <2>1. Extends(log, log')
    BY <1>0, <1>3, AppendFacts
  <2> QED
    BY <1>0, <1>3, <2>1 DEF Untouched
<1>4. ASSUME MirrorState \/ MirrorRequest \/ PassEvent PROVE Untouched
  BY <1>3, <1>4, Zenon DEF MirrorState, MirrorRequest, PassEvent, policyVars
<1>5. ASSUME SubmitRecorded PROVE Untouched
  BY <1>0, <1>5, JobShapes, ActionShapes DEF SubmitRecorded, AtEvent, Untouched
<1>6. ASSUME SubmitLive PROVE Untouched
  <2>1. JobShape(job') /\ (job' = job \/ job'.step # "operating")
    BY <1>0, <1>6, JobShapes, ActionShapes DEF SubmitLive
  <2> QED
    BY <1>0, <1>6, <2>1 DEF SubmitLive, AtEvent, Untouched
<1>7. ASSUME OperateRecorded \/ OperateLive PROVE Performed
  <2>1. PICK outcome : job' = [job EXCEPT !.step = "returned", !.outcome = outcome]
    BY <1>7, Zenon DEF OperateRecorded, OperateLive, Operate
  <2>2. JobShape(job') /\ job'.step = "returned"
    BY <1>0, <2>1, JobMoves
  <2> QED
    BY <1>7, <2>2 DEF OperateRecorded, OperateLive, Operate, Performed
<1>8. ASSUME UNCHANGED <<rules, approved, executed>>, runStatus' # "none",
             job' = job \/ job' = Idle,
             log' = log \/ (\E e : log' = Append(log, e))
      PROVE  Untouched
  <2>1. Extends(log, log')
    BY <1>0, <1>8, AppendFacts
  <2>2. JobShape(job') /\ (job' = job \/ job'.step # "operating")
    BY <1>0, <1>8, JobShapes
  <2> QED
    BY <1>0, <1>8, <2>1, <2>2 DEF Untouched
<1>9. ASSUME MockAnswered \/ LiveAnswered PROVE Untouched
  <2>1. \E e : log' = Append(log, e)
    BY <1>9, Zenon DEF MockAnswered, LiveAnswered, AppendResponse
  <2> QED
    BY <1>8, <1>9, <2>1 DEF MockAnswered, LiveAnswered
<1>10. ASSUME FinishMock PROVE Untouched
  <2>1. ASSUME log' = log \o <<RunEvent("checkpoint.created", Latest),
                               RunEvent("run.completed", {Len(log) + 1})>>
        PROVE  Extends(log, log')
    <3> DEFINE one == RunEvent("checkpoint.created", Latest)
               two == RunEvent("run.completed", {Len(log) + 1})
    <3>1. PICK S : log \in Seq(S)
      BY <1>0 DEF IsSeq
    <3>2. log \in Seq(S \cup {one, two}) /\ <<one, two>> \in Seq(S \cup {one, two})
      BY <3>1
    <3> HIDE DEF one, two
    <3>3. log \o <<one, two>> \in Seq(S \cup {one, two})
      BY <3>2
    <3>4. Len(log) <= Len(log \o <<one, two>>)
          /\ \A k \in 1..Len(log) : (log \o <<one, two>>)[k] = log[k]
      BY <3>2
    <3> QED
      BY <2>1, <3>3, <3>4 DEF IsSeq, Extends, one, two
  <2>2. Extends(log, log') /\ runStatus' # "none"
    <3>1. ASSUME NEW status, EndRun(status) PROVE Extends(log, log')
      BY <1>0, <3>1, AppendFacts DEF EndRun
    <3> QED
      BY <1>10, <2>1, <3>1 DEF FinishMock, FailMock, EndRun
  <2> QED
    BY <1>0, <1>10, <2>2 DEF FinishMock, Untouched
<1>11. ASSUME MirrorThrows PROVE Untouched
  BY <1>8, <1>11 DEF MirrorThrows
<1>12. ASSUME FinishVerified PROVE Untouched
  <2>1. runStatus' # "none" /\ (log' = log \/ (\E e : log' = Append(log, e)))
    BY <1>12 DEF FinishVerified, EndRun
  <2> QED
    BY <1>8, <1>12, <2>1 DEF FinishVerified
<1>13. ASSUME AppendRefused PROVE Untouched
  BY <1>8, <1>13 DEF AppendRefused, RecorderRefuses
<1> QED
  BY <1>1, <1>2, <1>4, <1>5, <1>6, <1>7, <1>9, <1>10, <1>11, <1>12, <1>13
     DEF MockStep, VerifiedStep

(* Whatever happens in a session.                                          *)
LEMMA PolicyEffect ==
  ASSUME PolicyInv, [Next]_vars
  PROVE  Untouched \/ Begun \/ RecordDecision \/ Performed
<1>1. ASSUME UNCHANGED policyVars PROVE Untouched
  BY <1>1, SeqFacts DEF PolicyInv, policyVars, Untouched
<1> QED
  BY <1>1, SemanticEffect, TraceEffect DEF Next, NewRunner, RunnerStep, vars

-----------------------------------------------------------------------------
(* How often an action has been run by the n-th execution, and how often it*)
(* has been allowed by the n-th event.                                     *)
Runs(runs, action, n) == {k \in 1..n : runs[k].action = action}
Allows(events, action, n) ==
  {k \in 1..n : events[k] = EventOf("decision.recorded", action, "allow", events[k].parents)}

(* The allow decision of an operation about to run is still to be used.    *)
Due(j, action) == IF j.step = "operating" /\ j.action = action THEN 1 ELSE 0

AuditInv ==
  /\ \A i \in DOMAIN executed : executed[i].after \in 0..Len(log)
  /\ \A action : Cardinality(Runs(executed, action, Len(executed))) + Due(job, action)
                   <= Cardinality(Allows(log, action, Len(log)))
  /\ EveryOperationAudited

(* Counting positions: a set of positions is finite, and one more position *)
(* counts once.                                                            *)
LEMMA Counting ==
  ASSUME NEW n \in Nat, NEW S, S \subseteq 1..n
  PROVE  /\ Cardinality(S) \in Nat
         /\ Cardinality(S \cup {n + 1}) = Cardinality(S) + 1
         /\ \A T : T \subseteq S => Cardinality(T) <= Cardinality(S) /\ Cardinality(T) \in Nat
<1>1. IsFiniteSet(1..n)
  BY FS_Interval
<1>2. IsFiniteSet(S)
  BY <1>1, FS_Subset
<1>3. n + 1 \notin S
  OBVIOUS
<1>4. \A T : T \subseteq S => IsFiniteSet(T) /\ Cardinality(T) <= Cardinality(S)
  BY <1>2, FS_Subset
<1> QED
  BY <1>2, <1>3, <1>4, FS_AddElement, FS_CardinalityType

(* What has been run or allowed stays so when a list is extended.          *)
LEMMA CountsKept ==
  ASSUME NEW s, NEW t, IsSeq(s), Extends(s, t), NEW action
  PROVE  /\ \A n \in 0..Len(s) : /\ Allows(t, action, n) = Allows(s, action, n)
                                 /\ Runs(t, action, n) = Runs(s, action, n)
         /\ Cardinality(Allows(s, action, Len(s))) <= Cardinality(Allows(t, action, Len(t)))
         /\ Cardinality(Allows(s, action, Len(s))) \in Nat
         /\ Cardinality(Allows(t, action, Len(t))) \in Nat
<1>0. Len(s) \in Nat /\ Len(t) \in Nat /\ Len(s) <= Len(t)
      /\ \A k \in 1..Len(s) : t[k] = s[k]
  BY SeqFacts DEF Extends
<1>1. \A n \in 0..Len(s) : /\ Allows(t, action, n) = Allows(s, action, n)
                           /\ Runs(t, action, n) = Runs(s, action, n)
  BY <1>0 DEF Allows, Runs
<1>2. Allows(s, action, Len(s)) \subseteq Allows(t, action, Len(t))
  BY <1>0 DEF Allows
<1>3. Allows(t, action, Len(t)) \subseteq 1..Len(t)
  BY DEF Allows
<1> QED
  BY <1>0, <1>1, <1>2, <1>3, Counting

(* One more execution of an action.                                        *)
LEMMA OneMoreRun ==
  ASSUME NEW s, NEW e, IsSeq(s), NEW action
  PROVE  LET n == Len(s)
             t == Append(s, e)
         IN /\ Cardinality(Runs(s, action, n)) \in Nat
            /\ Cardinality(Runs(t, action, n + 1))
                 = Cardinality(Runs(s, action, n)) + (IF e.action = action THEN 1 ELSE 0)
<1> DEFINE n == Len(s)
           t == Append(s, e)
<1>1. n \in Nat /\ t[n + 1] = e /\ \A k \in 1..n : t[k] = s[k]
  BY SeqFacts, AppendFacts DEF Extends
<1>2. Runs(s, action, n) \subseteq 1..n
  BY DEF Runs
<1> HIDE DEF t, n
<1>3. Runs(t, action, n + 1) = Runs(s, action, n) \cup {k \in {n + 1} : e.action = action}
  BY <1>1 DEF Runs
<1>4. Cardinality(Runs(s, action, n)) \in Nat
      /\ Cardinality(Runs(s, action, n) \cup {n + 1}) = Cardinality(Runs(s, action, n)) + 1
  BY <1>1, <1>2, Counting
<1>5. CASE e.action = action
  <2>1. Runs(t, action, n + 1) = Runs(s, action, n) \cup {n + 1}
    BY <1>3, <1>5
  <2> QED
    BY <1>4, <1>5, <2>1 DEF n, t
<1>6. CASE e.action # action
  <2>1. Runs(t, action, n + 1) = Runs(s, action, n)
    BY <1>3, <1>6
  <2> QED
    BY <1>4, <1>6, <2>1 DEF n, t
<1> QED
  BY <1>5, <1>6

(* An allow decision counts for its action.                                *)
LEMMA OneMoreAllow ==
  ASSUME NEW s, IsSeq(s), NEW action, NEW parents
  PROVE  LET t == Append(s, EventOf("decision.recorded", action, "allow", parents)) IN
         Cardinality(Allows(t, action, Len(t))) = Cardinality(Allows(s, action, Len(s))) + 1
<1> DEFINE n == Len(s)
           e == EventOf("decision.recorded", action, "allow", parents)
           t == Append(s, e)
<1>1. n \in Nat /\ Len(t) = n + 1 /\ t[n + 1] = e /\ \A k \in 1..n : t[k] = s[k]
  BY SeqFacts, AppendFacts DEF Extends
<1>2. Allows(s, action, n) \subseteq 1..n
  BY DEF Allows
<1>3. e.parents = parents
  BY DEF EventOf
<1> HIDE DEF t, n, e
<1>4. t[n + 1] = EventOf("decision.recorded", action, "allow", t[n + 1].parents)
  BY <1>1, <1>3 DEF e
<1>5. Allows(t, action, n + 1) = Allows(s, action, n) \cup {n + 1}
  BY <1>1, <1>4 DEF Allows
<1> QED
  BY <1>1, <1>2, <1>5, Counting DEF n, e, t

-----------------------------------------------------------------------------
(* EveryOperationAudited in these words.                                   *)
LEMMA AuditedMeans ==
  EveryOperationAudited <=>
    \A i \in DOMAIN executed :
      Cardinality(Runs(executed, executed[i].action, i))
        <= Cardinality(Allows(log, executed[i].action, executed[i].after))
BY DEF EveryOperationAudited, Runs, Allows

(* The same of the state after a step.                                     *)
LEMMA AuditedMeansNext ==
  EveryOperationAudited' <=>
    \A i \in DOMAIN executed' :
      Cardinality(Runs(executed', executed'[i].action, i))
        <= Cardinality(Allows(log', executed'[i].action, executed'[i].after))
BY DEF EveryOperationAudited, Runs, Allows

(* A session starts without a run.                                         *)
LEMMA PolicyStart ==
  ASSUME Init PROVE PolicyInv /\ AuditInv
<1>1. log = <<>> /\ executed = <<>> /\ rules = <<>> /\ job = Idle
  BY DEF Init, PolicyInit
<1>2. IsSeq(log) /\ IsSeq(executed) /\ rules \in Seq(Rule) /\ Len(log) = 0 /\ Len(executed) = 0
  <2>1. <<>> \in Seq({}) /\ <<>> \in Seq(Rule) /\ Len(<<>>) = 0
    OBVIOUS
  <2> QED
    BY <1>1, <2>1 DEF IsSeq
<1>3. PolicyInv
  BY <1>1, <1>2, JobShapes DEF PolicyInv
<1>4. DOMAIN executed = {}
  BY <1>1
<1>5. ASSUME NEW action PROVE /\ Runs(executed, action, Len(executed)) = {}
                              /\ Allows(log, action, Len(log)) = {} /\ Due(job, action) = 0
  BY <1>1, <1>2, JobShapes DEF Runs, Allows, Due
<1>6. AuditInv
  BY <1>4, <1>5, FS_EmptySet, AuditedMeans DEF AuditInv
<1> QED
  BY <1>3, <1>6

(* The shapes are kept.                                                    *)
LEMMA PolicyKept ==
  ASSUME PolicyInv, [Next]_vars PROVE PolicyInv'
<1>1. ASSUME Untouched PROVE PolicyInv'
  BY <1>1 DEF Untouched, PolicyInv, Extends
<1>2. ASSUME Begun PROVE PolicyInv'
  BY <1>2 DEF Begun, PolicyInv
<1>3. ASSUME RecordDecision PROVE PolicyInv'
  <2>1. PICK e : log' = Append(log, e)
    BY <1>3 DEF RecordDecision
  <2>2. IsSeq(log')
    BY <2>1, AppendFacts DEF PolicyInv, Extends
  <2>3. JobShape(job')
    BY <1>3, JobMoves DEF RecordDecision, PolicyInv
  <2> QED
    BY <1>3, <2>2, <2>3 DEF RecordDecision, PolicyInv
<1>4. ASSUME Performed PROVE PolicyInv'
  <2>1. IsSeq(executed')
    BY <1>4, AppendFacts DEF Performed, PolicyInv, Extends
  <2> QED
    BY <1>4, <2>1 DEF Performed, PolicyInv
<1> QED
  BY <1>1, <1>2, <1>3, <1>4, PolicyEffect

(* An operation that becomes due has just been allowed.                    *)
DueIsAllowed ==
  \A action :
    \/ Due(job', action) \in {0, Due(job, action)}
    \/ /\ Due(job, action) = 0 /\ Due(job', action) = 1
       /\ Cardinality(Allows(log', action, Len(log')))
            = Cardinality(Allows(log, action, Len(log))) + 1

(* The counts are kept: while the list of executions stays as it is, a log *)
(* that grows can only allow more.                                         *)
LEMMA AuditKeptByLog ==
  ASSUME IsSeq(log), IsSeq(executed), AuditInv, Extends(log, log'), executed' = executed,
         DueIsAllowed
  PROVE  AuditInv'
<1>0. /\ Len(log) \in Nat /\ Len(log') \in Nat /\ Len(log) <= Len(log')
      /\ Len(executed) \in Nat /\ DOMAIN executed = 1..Len(executed)
  BY SeqFacts DEF Extends
<1>1. \A i \in DOMAIN executed' : executed'[i].after \in 0..Len(log')
  BY <1>0 DEF AuditInv
<1>2. ASSUME NEW action
      PROVE  Cardinality(Runs(executed', action, Len(executed'))) + Due(job', action)
               <= Cardinality(Allows(log', action, Len(log')))
  <2>1. Cardinality(Runs(executed, action, Len(executed))) + Due(job, action)
          <= Cardinality(Allows(log, action, Len(log)))
    BY DEF AuditInv
  <2>2. Runs(executed, action, Len(executed)) \subseteq 1..Len(executed)
    BY DEF Runs
  <2>3. Cardinality(Runs(executed, action, Len(executed))) \in Nat
    BY <1>0, <2>2, Counting
  <2>4. /\ Cardinality(Allows(log, action, Len(log))) <= Cardinality(Allows(log', action, Len(log')))
        /\ Cardinality(Allows(log, action, Len(log))) \in Nat
        /\ Cardinality(Allows(log', action, Len(log'))) \in Nat
    BY CountsKept
  <2>5. Due(job, action) \in {0, 1}
    BY DEF Due
  <2> QED
    BY <2>1, <2>3, <2>4, <2>5 DEF DueIsAllowed
<1>3. EveryOperationAudited'
  <2>1. ASSUME NEW i \in DOMAIN executed
        PROVE  Cardinality(Runs(executed, executed[i].action, i))
                 <= Cardinality(Allows(log', executed[i].action, executed[i].after))
    <3>1. executed[i].after \in 0..Len(log)
      BY DEF AuditInv
    <3>2. Allows(log', executed[i].action, executed[i].after)
            = Allows(log, executed[i].action, executed[i].after)
      BY <3>1, CountsKept
    <3> QED
      BY <3>2, AuditedMeans DEF AuditInv
  <2> QED
    BY <2>1, AuditedMeansNext
<1> QED
  BY <1>1, <1>2, <1>3 DEF AuditInv

(* Every step keeps the counts.                                            *)
LEMMA AuditKept ==
  ASSUME PolicyInv, AuditInv, [Next]_vars PROVE AuditInv'
<1>0. IsSeq(log) /\ IsSeq(executed)
  BY DEF PolicyInv
<1>1. ASSUME Untouched PROVE AuditInv'
  <2>1. DueIsAllowed
    BY <1>1 DEF Untouched, Due, DueIsAllowed
  <2>2. Extends(log, log') /\ executed' = executed
    BY <1>1 DEF Untouched
  <2> QED
    BY <1>0, <2>1, <2>2, AuditKeptByLog, Zenon
<1>2. ASSUME Begun PROVE AuditInv'
  <2>1. executed' = <<>> /\ job' = job /\ job.step = "idle"
    BY <1>2 DEF Begun, PolicyInv
  <2>2. ASSUME NEW action PROVE /\ Cardinality(Runs(executed', action, Len(executed'))) = 0
                                /\ Due(job', action) = 0
                                /\ Cardinality(Allows(log', action, Len(log'))) \in Nat
    <3>1. Runs(executed', action, Len(executed')) = {}
      BY <2>1 DEF Runs
    <3>2. Allows(log', action, Len(log')) \subseteq 1..Len(log') /\ Len(log') \in Nat
      BY <1>2, SeqFacts DEF Allows, Begun
    <3> QED
      BY <2>1, <3>1, <3>2, FS_EmptySet, Counting DEF Due
  <2>3. DOMAIN executed' = {}
    BY <2>1
  <2> QED
    BY <2>2, <2>3, AuditedMeansNext DEF AuditInv
<1>3. ASSUME RecordDecision PROVE AuditInv'
  <2> DEFINE decision == Evaluate(job.action, job.needsApproval)
  <2>1. PICK parents :
          log' = Append(log, EventOf("decision.recorded", job.action, decision, parents))
    BY <1>3, Zenon DEF RecordDecision
  <2>2. Extends(log, log')
    BY <1>0, <2>1, AppendFacts
  <2>3. /\ job.step = "deciding" /\ executed' = executed
        /\ decision = "allow" => job'.step = "operating"
        /\ decision # "allow" => job'.step = "returned"
        /\ job'.action = job.action
    BY <1>3, JobMoves DEF RecordDecision, PolicyInv
  <2>4. ASSUME NEW action, Due(job', action) # 0
        PROVE  /\ Due(job, action) = 0 /\ Due(job', action) = 1
               /\ Cardinality(Allows(log', action, Len(log')))
                    = Cardinality(Allows(log, action, Len(log))) + 1
    <3>1. action = job.action /\ decision = "allow" /\ Due(job, action) = 0 /\ Due(job', action) = 1
      BY <2>3, <2>4 DEF Due
    <3> QED
      BY <1>0, <2>1, <3>1, OneMoreAllow
  <2> QED
    <3>1. DueIsAllowed
      BY <2>4 DEF DueIsAllowed
    <3> QED
      BY <1>0, <2>2, <2>3, <3>1, AuditKeptByLog, Zenon
<1>4. ASSUME Performed PROVE AuditInv'
  <2>0. PICK outcome : executed' = Append(executed, Execution(outcome))
    BY <1>4 DEF Performed
  <2> DEFINE n == Len(executed)
             latest == Execution(outcome)
  <2>1. /\ n \in Nat /\ DOMAIN executed = 1..n /\ DOMAIN executed' = 1..(n + 1)
        /\ Len(executed') = n + 1 /\ executed' = Append(executed, latest)
        /\ executed'[n + 1] = latest /\ \A i \in 1..n : executed'[i] = executed[i]
    BY <1>0, <1>4, <2>0, SeqFacts, AppendFacts DEF Performed, Extends
  <2>2. latest.action = job.action /\ latest.after = Len(log) /\ Len(log) \in Nat
        /\ log' = log
    BY <1>0, <1>4, SeqFacts DEF Execution, Performed
  <2>3. Due(job, job.action) = 1 /\ (\A action : action # job.action => Due(job, action) = 0)
        /\ (\A action : Due(job', action) = 0)
    BY <1>4 DEF Performed, Due
  <2>4. ASSUME NEW action
        PROVE  Cardinality(Runs(executed', action, n + 1)) <= Cardinality(Allows(log, action, Len(log)))
    <3>1. Cardinality(Runs(executed, action, n)) + Due(job, action)
            <= Cardinality(Allows(log, action, Len(log)))
      BY DEF AuditInv
    <3>2. /\ Cardinality(Runs(executed, action, n)) \in Nat
          /\ Cardinality(Runs(executed', action, n + 1))
               = Cardinality(Runs(executed, action, n))
                 + (IF latest.action = action THEN 1 ELSE 0)
      BY <1>0, <2>1, OneMoreRun
    <3> QED
      BY <2>2, <2>3, <3>1, <3>2
  <2>5. Extends(executed, executed')
    BY <1>0, <2>1, AppendFacts
  <2>6. ASSUME NEW i \in 1..(n + 1)
        PROVE  /\ executed'[i].after \in 0..Len(log)
               /\ Cardinality(Runs(executed', executed'[i].action, i))
                    <= Cardinality(Allows(log, executed'[i].action, executed'[i].after))
    <3>1. CASE i = n + 1
      BY <2>1, <2>2, <2>4, <3>1
    <3>2. CASE i \in 1..n
      <4>1. Runs(executed', executed[i].action, i) = Runs(executed, executed[i].action, i)
        <5>1. i \in 0..Len(executed)
          BY <2>1, <3>2
        <5> QED
          BY <1>0, <2>5, <5>1, CountsKept
      <4> QED
        BY <2>1, <3>2, <4>1, AuditedMeans DEF AuditInv
    <3> QED
      BY <2>1, <3>1, <3>2
  <2>7. ASSUME NEW action
        PROVE  Cardinality(Runs(executed', action, Len(executed'))) + Due(job', action)
                 <= Cardinality(Allows(log', action, Len(log')))
    <3>1. Cardinality(Runs(executed', action, n + 1)) \in Nat
      <4>1. Runs(executed', action, n + 1) \subseteq 1..(n + 1) /\ n + 1 \in Nat
        BY <2>1 DEF Runs
      <4> HIDE DEF n
      <4> QED
        BY <4>1, Counting
    <3> QED
      BY <2>1, <2>2, <2>3, <2>4, <3>1
  <2> QED
    BY <2>1, <2>2, <2>6, <2>7, AuditedMeansNext DEF AuditInv
<1> QED
  BY <1>1, <1>2, <1>3, <1>4, PolicyEffect

(* No operation runs without an allow decision of its own that was in the  *)
(* new run's log before it (ReplayPolicyEngine.execute awaits the audit    *)
(* sink before it calls the operation), whatever the runner.               *)
THEOREM OperationsAudited == Spec => []EveryOperationAudited
<1>1. Init => PolicyInv /\ AuditInv
  BY PolicyStart
<1>2. PolicyInv /\ AuditInv /\ [Next]_vars => (PolicyInv /\ AuditInv)'
  BY PolicyKept, AuditKept
<1>3. PolicyInv /\ AuditInv => EveryOperationAudited
  BY DEF AuditInv
<1> QED
  BY <1>1, <1>2, <1>3, PTL DEF Spec

-----------------------------------------------------------------------------
(* What AuthorityIsCurrent asks of one execution, of the rules list and the*)
(* approvals given.                                                        *)
MatchedIn(list, action) == {r \in DOMAIN list : Matches(list[r], action)}
RuledIn(list, action, decision) ==
  \E r \in MatchedIn(list, action) :
    list[r].decision = decision /\ \A q \in MatchedIn(list, action) : r <= q
Authorized(list, approvals, action, needsApproval) ==
  /\ \/ RuledIn(list, action, "allow") \/ RuledIn(list, action, "require_approval")
     \/ /\ MatchedIn(list, action) = {}
        /\ action.mode = "recorded" \/ action.sideEffect = "read_only"
  /\ RuledIn(list, action, "require_approval") \/ needsApproval =>
       action.attempt = 1 /\ action.key \in approvals

AuthorityInv ==
  /\ job.step = "operating" => Authorized(rules, approved, job.action, job.needsApproval)
  /\ \A i \in DOMAIN executed :
       Authorized(rules, approved, executed[i].action, executed[i].needsApproval)

(* An action the policy allows is authorized: of the rules that match it,  *)
(* the one Configured chooses is the first, and Supplied has the action    *)
(* itself only if this is the attempt that was approved.                   *)
LEMMA AllowedIsAuthorized ==
  ASSUME rules \in Seq(Rule), NEW action, "attempt" \in DOMAIN action, NEW needsApproval,
         Evaluate(action, needsApproval) = "allow"
  PROVE  Authorized(rules, approved, action, needsApproval)
<1> DEFINE matching == MatchedIn(rules, action)
           first == CHOOSE i \in matching : \A j \in matching : i <= j
<1>1. matching \subseteq Nat
  BY DEF MatchedIn
<1>2. Configured(action) = IF matching = {} THEN Default(action) ELSE rules[first].decision
  BY DEF Configured, MatchedIn
<1>3. matching # {} => first \in matching /\ \A j \in matching : first <= j
  BY <1>1, LeastNatural
<1>4. \/ Configured(action) = "allow" /\ (needsApproval => action \in Supplied(action))
      \/ /\ Configured(action) \notin {"allow", "deny", "dry_run"}
         /\ action \in Supplied(action)
  BY DEF Evaluate
<1>5. action \in Supplied(action) => action.attempt = 1 /\ action.key \in approved
  <2>1. ASSUME action \in Supplied(action)
        PROVE  action = [action EXCEPT !.attempt = 1] /\ action.key \in approved
    BY <2>1 DEF Supplied
  <2> QED
    BY <2>1
<1>6. CASE matching = {}
  <2>1. Configured(action) = "allow" \/ Configured(action) = "deny"
    BY <1>2, <1>6 DEF Default
  <2>2. Default(action) = "allow" => action.mode = "recorded" \/ action.sideEffect = "read_only"
    BY DEF Default
  <2>3. ~RuledIn(rules, action, "require_approval")
    BY <1>6 DEF RuledIn
  <2> QED
    BY <1>2, <1>4, <1>5, <1>6, <2>1, <2>2, <2>3 DEF Authorized
<1>7. CASE matching # {}
  <2>1. first \in DOMAIN rules /\ rules[first] \in Rule
    BY <1>3, <1>7 DEF MatchedIn
  <2>2. rules[first].decision \in Decisions
    BY <2>1 DEF Rule
  <2>3. \A decision : RuledIn(rules, action, decision) <=> rules[first].decision = decision
    <3> HIDE DEF first
    <3>1. first \in matching /\ \A j \in matching : first <= j
      BY <1>3, <1>7
    <3>2. ASSUME NEW r \in matching, \A q \in matching : r <= q PROVE r = first
      BY <1>1, <3>1, <3>2
    <3> QED
      BY <3>1, <3>2 DEF RuledIn
  <2> HIDE DEF first
  <2> QED
    BY <1>2, <1>4, <1>5, <1>7, <2>2, <2>3 DEF Authorized, Decisions
<1> QED
  BY <1>6, <1>7

(* Every step keeps the authorities: rules and approvals are the caller's  *)
(* and stay as they are while the run goes on.                             *)
LEMMA AuthorityStays ==
  ASSUME PolicyInv, AuthorityInv, [Next]_vars PROVE AuthorityInv'
<1>1. ASSUME Untouched PROVE AuthorityInv'
  BY <1>1 DEF Untouched, AuthorityInv
<1>2. ASSUME Begun PROVE AuthorityInv'
  BY <1>2 DEF Begun, PolicyInv, AuthorityInv
<1>3. ASSUME RecordDecision PROVE AuthorityInv'
  <2> DEFINE decision == Evaluate(job.action, job.needsApproval)
  <2>1. /\ rules' = rules /\ approved' = approved /\ executed' = executed
        /\ decision # "allow" => job'.step = "returned"
        /\ job'.action = job.action /\ job'.needsApproval = job.needsApproval
    BY <1>3, JobMoves DEF RecordDecision, PolicyInv
  <2>2. decision = "allow" => Authorized(rules, approved, job.action, job.needsApproval)
    BY AllowedIsAuthorized DEF PolicyInv, JobShape
  <2> HIDE DEF decision
  <2> QED
    BY <2>1, <2>2 DEF AuthorityInv
<1>4. ASSUME Performed PROVE AuthorityInv'
  <2>0. PICK outcome : executed' = Append(executed, Execution(outcome))
    BY <1>4 DEF Performed
  <2>1. /\ DOMAIN executed = 1..Len(executed) /\ Len(executed) \in Nat
        /\ DOMAIN executed' = 1..(Len(executed) + 1)
        /\ executed'[Len(executed) + 1] = Execution(outcome)
        /\ \A i \in 1..Len(executed) : executed'[i] = executed[i]
    BY <1>4, <2>0, SeqFacts, AppendFacts DEF Performed, PolicyInv, Extends
  <2>2. /\ Execution(outcome).action = job.action
        /\ Execution(outcome).needsApproval = job.needsApproval
    BY DEF Execution
  <2>3. ASSUME NEW i \in DOMAIN executed'
        PROVE  Authorized(rules, approved, executed'[i].action, executed'[i].needsApproval)
    <3>1. CASE i = Len(executed) + 1
      BY <1>4, <2>1, <2>2, <3>1 DEF Performed, AuthorityInv
    <3>2. CASE i \in 1..Len(executed)
      BY <2>1, <3>2 DEF AuthorityInv
    <3> QED
      BY <2>1, <3>1, <3>2
  <2> QED
    BY <1>4, <2>3 DEF Performed, AuthorityInv
<1> QED
  BY <1>1, <1>2, <1>3, <1>4, PolicyEffect

(* An operation runs only by an authority its caller has given: the first  *)
(* rule that matches, and an approval for this very attempt where the rule *)
(* or the workflow node asks for one (ReplayPolicyEngine.evaluate).        *)
THEOREM AuthorityIsTheCallers == Spec => []AuthorityIsCurrent
<1>1. Init => PolicyInv /\ AuthorityInv
  BY PolicyStart, JobShapes DEF Init, PolicyInit, AuthorityInv
<1>2. PolicyInv /\ AuthorityInv /\ [Next]_vars => (PolicyInv /\ AuthorityInv)'
  BY PolicyKept, AuthorityStays
<1>3. PolicyInv /\ AuthorityInv => AuthorityIsCurrent
  BY DEF AuthorityInv, AuthorityIsCurrent, Authorized, RuledIn, MatchedIn
<1> QED
  BY <1>1, <1>2, <1>3, PTL DEF Spec
=============================================================================
