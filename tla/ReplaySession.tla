---------------------------- MODULE ReplaySession ----------------------------
(***************************************************************************)
(* From a recorded run to a replay: the snapshot is recorded and read, the *)
(* caller makes one runner, and the runner records a run of its own.       *)
(***************************************************************************)
EXTENDS SemanticReplay, MockReplay, VerifiedReplay, TraceCompiler, TraceGraph

CONSTANT GraphFilters  \* filters for the projections

VARIABLE mode  \* the runner the caller has made

vars == <<mode, snapshotVars, policyVars, semanticVars, replayVars>>

(* The diagnostic compileTraceToWorkflow() ends with.                      *)
CompilerDiagnostic ==
  CASE ~Valid -> "SOURCE_TRACE_INVALID"
    [] Valid /\ ObservationOnly -> "SOURCE_TRACE_OBSERVATION_ONLY"
    [] Executable /\ Grouped(Events) = {} -> "NO_COMPILABLE_CALLS"
    [] Executable /\ Grouped(Events) # {} ->
         IF ValidWorkflow(Generated(Events)) THEN "none" ELSE "GENERATED_WORKFLOW_INVALID"

SessionTypeOK ==
  /\ mode \in {"none", "semantic", "mock", "verified"}
  /\ SnapshotTypeOK /\ PolicyTypeOK /\ SemanticTypeOK /\ ReplayTypeOK

Init == mode = "none" /\ SnapshotInit /\ PolicyInit /\ SemanticInit /\ ReplayInit

(* A workflow document is written by hand, or compiled from the trace.     *)
NewRunner ==
  /\ mode = "none" /\ UNCHANGED <<snapshotVars, policyVars>>
  /\ \/ /\ mode' = "semantic" /\ UNCHANGED replayVars
        /\ \/ trace = <<>> /\ NewSemanticRunner(Workflows)
           \/ /\ phase = "read" /\ CompilerDiagnostic = "none"
              /\ NewSemanticRunner({Generated(Events)})
     \/ /\ mode' = "mock" /\ phase = "read" /\ NewMockRunner /\ UNCHANGED semanticVars
     \/ /\ mode' = "verified" /\ phase = "read" /\ NewVerifiedRunner /\ UNCHANGED semanticVars

RunnerStep ==
  \/ mode = "semantic" /\ SemanticStep /\ UNCHANGED <<mode, snapshotVars, replayVars>>
  \/ mode = "mock" /\ MockStep /\ UNCHANGED <<mode, snapshotVars, semanticVars>>
  \/ mode = "verified" /\ VerifiedStep /\ UNCHANGED <<mode, snapshotVars, semanticVars>>

Next ==
  \/ mode = "none" /\ RecordSnapshot /\ UNCHANGED <<mode, policyVars, semanticVars, replayVars>>
  \/ NewRunner
  \/ RunnerStep
  \/ mode = "semantic" /\ SemanticThrows /\ UNCHANGED <<mode, snapshotVars, replayVars>>
  \/ mode \in {"mock", "verified"} /\ AppendRefused /\ UNCHANGED <<mode, snapshotVars, semanticVars>>

(* A runner is one chain of awaits: it goes on as long as the adapters and *)
(* the recorder answer.                                                    *)
Spec == Init /\ [][Next]_vars /\ WF_vars(RunnerStep)

-----------------------------------------------------------------------------
Read == phase = "read" /\ mode = "none"

(* What passes for executable evidence is the whole run: no line is        *)
(* missing, doubled or torn, and every checkpoint that is left belongs to  *)
(* it.                                                                     *)
EligibleTraceIsWhole ==
  Read /\ Executable =>
    /\ Events = trace /\ tail = "whole" /\ trace[Len(trace)].type = "run.completed"
    /\ \A i \in DOMAIN saved : saved[i].damage \notin {"run", "gone", "file"}

(* Whatever has become of the checkpoints, reconstruction ends in the state*)
(* the whole history leads to, if it leads to one and was what the caller  *)
(* checkpointed: a harmed checkpoint only costs the detour over an older   *)
(* one.                                                                    *)
ReconstructionAgrees ==
  Read /\ Executable =>
    LET history == Replayed(EmptyState, trace, 0)
        upTo(sequence) == Replayed(EmptyState, SubSeq(trace, 1, sequence), 0)
        rebuilt == Reconstructed(Events, Checkpoints)
    IN history.ok /\ (\A i \in DOMAIN saved : saved[i].state = upTo(saved[i].sequence).state) =>
         rebuilt.ok /\ rebuilt.state = history.state

(* Causal order between calls, over any number of other events.            *)
Follows(i) ==
  LET before[k \in DOMAIN trace] == UNION {{p} \cup before[p] : p \in trace[k].parents}
  IN before[i]

(* The other calls that some request of a call follows.                    *)
Preceding(call) ==
  {c \in Grouped(trace) \ {call} :
     \E i \in RequestsOf(trace, call) : RequestsOf(trace, c) \cap Follows(i) # {}}

(* A compiled workflow orders calls as the trace does: the sets of nodes   *)
(* that need no other node are those that causality closes.  The compiler  *)
(* gives up exactly if calls follow one another round, for which one must  *)
(* have been retried.  Without a retry a node waits for what its request   *)
(* follows, and only for that.                                             *)
CompiledOrder ==
  Read /\ Executable /\ Grouped(trace) # {} =>
    LET nodes == Grouped(trace)
        retried == {c \in nodes : Cardinality(RequestsOf(trace, c)) > 1}
    IN /\ \A S \in SUBSET nodes :
            (\A c \in S : Dependencies(trace, c) \subseteq S)
              <=> (\A c \in S : Preceding(c) \subseteq S)
       /\ CompilerDiagnostic = "none"
            <=> \A S \in SUBSET nodes : S # {} => \E c \in S : Preceding(c) \cap S = {}
       /\ retried = {} =>
            /\ CompilerDiagnostic = "none"
            /\ \A c \in nodes : \A d \in Preceding(c) :
                 Index(trace, d) < Index(trace, c) /\ Preceding(d) \subseteq Preceding(c)

(* Folding and filtering never invent, lose or turn round causality.       *)
GraphKeepsCausality ==
  Read /\ Valid =>
    \A folding \in BOOLEAN, filter \in GraphFilters :
      LET dag == CausalDag(Events, folding, filter)
          tree == CallTree(Events, folding, filter)
          visible == VisibleNodes(Events, folding, filter)
          group(i) == GroupOf(Events, folding, i)
      IN /\ dag \subseteq visible \X visible /\ \A edge \in dag : edge[1] < edge[2]
         /\ \A i \in DOMAIN Events, p \in DOMAIN Events :
              p \in Events[i].parents /\ {group(p), group(i)} \subseteq visible =>
                group(p) = group(i) \/ <<group(p), group(i)>> \in dag
         /\ tree \subseteq dag
         /\ \A g \in visible :
              Cardinality({edge \in tree : edge[2] = g})
                = IF \E edge \in dag : edge[2] = g THEN 1 ELSE 0

-----------------------------------------------------------------------------
TraceRunner == mode \in {"mock", "verified"}
Mirrored(e) == Requested(e) \/ Responded(e) \/ e.type = "state.changed"
Entry(e) == [type |-> e.type, kind |-> e.kind, key |-> e.key, value |-> e.value]

(* The entries of a trace behind a position that a replay is to bring      *)
(* about again; every response says what its call last answered.           *)
Expected(from) ==
  LET said(i) == IF Responded(trace[i])
                 THEN [Entry(trace[i]) EXCEPT
                         !.value = RecordedOutcome(trace, RequestFor(trace, i))]
                 ELSE Entry(trace[i])
      behind == {i \in DOMAIN trace : i > from /\ Mirrored(trace[i])}
  IN [k \in 1..Cardinality(behind) |-> said(Position(behind, k))]
Brought ==
  LET mirrored == {i \in DOMAIN log : Mirrored(log[i])}
  IN [k \in 1..Cardinality(mirrored) |-> Entry(log[Position(mirrored, k)])]

(* A mock replay that completes has reproduced its source: the same calls  *)
(* in the same order, as often, with the recorded results, the same state  *)
(* changes and the same final state, and no live operation for any of it.  *)
MockReproducesSource ==
  mode = "mock" =>
    /\ \A i \in DOMAIN executed : executed[i].action.mode = "recorded"
    /\ runStatus = "completed" =>
         /\ Executable /\ Brought = Expected(0) /\ SourceCalls(log) = SourceCalls(trace)
         /\ Reconstructed(log, {}) =
              [ok |-> TRUE, state |-> Reconstructed(trace, Checkpoints).state, missed |-> FALSE]

(* A verified replay runs nothing before its resume point - its k-th       *)
(* operation is for the k-th or a later response behind that point - and,  *)
(* completed, as many as there are; and when it completes without differences*)
(* or issues, everything the source says behind that point has happened    *)
(* again, but for what the verification rules accept.                      *)
VerifiedRepeatsSuffix ==
  mode = "verified" =>
    LET behind == {i \in DOMAIN trace : i > ResumeSequence /\ Responded(trace[i])}
        at(k) == Position(behind, k)
    IN /\ executed # <<>> =>
            \A k \in DOMAIN executed :
              \E m \in k..Cardinality(behind) :
                /\ executed[k].action.key = trace[at(m)].key
                /\ executed[k].action.attempt = AttemptAt(trace, RequestFor(trace, at(m)))
       /\ runStatus = "completed" =>
            /\ Executable /\ Len(executed) = Cardinality(behind)
            /\ differences = {} =>
                 /\ Len(Brought) = Len(Expected(ResumeSequence))
                 /\ \A k \in DOMAIN Brought :
                      LET old == Expected(ResumeSequence)[k] IN
                      /\ SameCall(old, Brought[k]) /\ Alike(old.value, Brought[k].value)
                      /\ IF Responded(old) THEN Responded(Brought[k])
                         ELSE old.type = Brought[k].type

(* The run a replay records is itself a source.  Once it is completed,     *)
(* every response says what an execution of its own came to, right behind  *)
(* the decision that allowed it; and reading the run as a source finds no  *)
(* fault with its calls and, for each request, the outcome of the last     *)
(* execution decided on for it - not of another request of the same call   *)
(* (mock.ts:678-760, verified.ts:856-960).                                 *)
ReplayIsReplayable ==
  TraceRunner /\ runStatus = "completed" =>
    /\ ScheduleFaults(log) = {}
    /\ \A i \in DOMAIN log : log[i].type = "decision.recorded" =>
         /\ Cardinality(log[i].parents) = 1
         /\ \A r \in log[i].parents : Requested(log[r]) /\ SameCall(log[r], log[i])
    /\ \A i \in DOMAIN log : Responded(log[i]) =>
         \E k \in DOMAIN executed :
           executed[k].after = i - 1 /\ executed[k].outcome = log[i].value
    /\ \A r \in DOMAIN log : Requested(log[r]) =>
         \E k \in DOMAIN executed :
           /\ log[executed[k].after].parents = {r}
           /\ RecordedOutcome(log, r) = executed[k].outcome
           /\ \A m \in DOMAIN executed : m > k => log[executed[m].after].parents # {r}

(* A runner whose adapters and recorder answer comes to an end.            *)
ReplayEnds == runStatus = "running" ~> runStatus # "running"
=============================================================================
