--------------------------- MODULE TraceSnapshot ---------------------------
(***************************************************************************)
(* A snapshot directory on its way to a reader: the run it was recorded    *)
(* from, what became of its files, and loadTraceSnapshot() with the        *)
(* validator and the evidence gate that every replay asks.                 *)
(***************************************************************************)
EXTENDS StateHistory

CONSTANTS
  StateChanges,  \* the <<operation, value>> pairs a run records, all on one path
  ChangedPath,
  Recorded,      \* the answers that calls are recorded with
  Harm,          \* what may happen to the files before they are read
  Unrecorded,    \* states that a caller has checkpointed without having recorded them
  Extents,       \* bounds: how many events of each type a run has before it ends
  MaxHarmed      \* bound: events of a run whose files come to harm

ASSUME SnapshotAssumption ==
  /\ StateChanges \subseteq STRING \X STRING /\ ChangedPath \in STRING
  /\ Recorded \subseteq Outputs \cup Errors /\ Unrecorded \subseteq State

VARIABLES
  trace,      \* events of the run, as recorded
  saved,      \* checkpoints of the run
  manifest,   \* candidate file |-> what it declares
  lines,      \* events.jsonl: the sequence of the event on each line
  tail,       \* events.jsonl ends "whole" or in a "torn" line
  phase       \* the directory is "recording", "written" or "read"

snapshotVars == <<trace, saved, manifest, lines, tail, phase>>

NoManifest == [present |-> FALSE, parses |-> FALSE, count |-> 0, complete |-> FALSE]
Declares(count, complete) ==
  [present |-> TRUE, parses |-> TRUE, count |-> count, complete |-> complete]

SnapshotTypeOK ==
  /\ trace \in Seq(Event) /\ saved \in Seq(Checkpoint)
  /\ manifest \in [{"manifest.json.tmp", "manifest.json"} ->
                     [present : BOOLEAN, parses : BOOLEAN, count : Nat, complete : BOOLEAN]]
  /\ lines \in Seq(Nat) /\ tail \in {"whole", "torn"}
  /\ phase \in {"recording", "written", "read"}

SnapshotInit ==
  /\ trace = <<>> /\ saved = <<>> /\ lines = <<>> /\ tail = "whole" /\ phase = "recording"
  /\ manifest = [file \in {"manifest.json.tmp", "manifest.json"} |-> NoManifest]

-----------------------------------------------------------------------------
(* The recorded run.  An event hangs on the one before it (the default     *)
(* context), on the first one (a parallel branch) or, for a response, on   *)
(* its request; a call may be requested again, and answered twice.         *)
Recording == phase = "recording" /\ trace # <<>>
Record(e) ==
  /\ trace' = Append(trace, e) /\ lines' = Append(lines, Len(trace) + 1)
  /\ UNCHANGED <<manifest, tail, phase>>
  /\ \E extent \in Extents : \A type \in DOMAIN extent :
       Cardinality({i \in DOMAIN trace' : trace'[i].type = type}) <= extent[type]

StartTrace == phase = "recording" /\ trace = <<>> /\ Record(RunEvent("run.started", {})) /\ UNCHANGED saved

RecordRequest ==
  /\ Recording
  /\ \E call \in Calls, parent \in {1, Len(trace)} :
       Record(CallEvent("requested", call, "input", {parent}))
  /\ UNCHANGED saved

RecordResponse ==
  /\ Recording
  /\ \E request \in DOMAIN trace, call \in Calls, value \in Recorded :
       /\ Requested(trace[request]) /\ SameCall(trace[request], call)
       /\ Record(CallEvent(IF value \in Outputs THEN "completed" ELSE "failed", call, value,
                           {request}))
  /\ UNCHANGED saved

RecordStateChange ==
  /\ Recording
  /\ \E change \in StateChanges :
       Record(StateEvent(change[1], <<ChangedPath>>, change[2], {Len(trace)}))
  /\ UNCHANGED saved

(* An extension records an event of a type the reader does not know.       *)
RecordNote == Recording /\ Record(RunEvent("log.note", {Len(trace)})) /\ UNCHANGED saved

(* Recorder.checkpoint(): the caller supplies the state; the checkpoint    *)
(* pins the event before its own.                                          *)
LiveState == Replayed(EmptyState, trace, 0).state
RecordCheckpoint ==
  /\ Recording /\ Record(RunEvent("checkpoint.created", {Len(trace)}))
  /\ \E state \in {LiveState} \cup Unrecorded :
       saved' = Append(saved, [sequence |-> Len(trace), state |-> state, damage |-> "none"])

(* The run ends with a terminal event and a final manifest.                *)
Ended == Append(trace, RunEvent("run.completed", {Len(trace)}))
EndTrace ==
  /\ phase = "recording" /\ trace # <<>> /\ phase' = "written"
  /\ trace' = Ended /\ lines' = Append(lines, Len(trace) + 1)
  /\ manifest' = [manifest EXCEPT !["manifest.json"] = Declares(Len(Ended), TRUE)]
  /\ UNCHANGED <<saved, tail>>

(* Or it is cut off, before or after that event, with the manifest that was*)
(* committed earlier, if any, a temporary one that was being written, and a*)
(* line that was.                                                          *)
CutOff ==
  /\ phase = "recording" /\ trace # <<>> /\ Len(trace) < MaxHarmed
  /\ "crash" \in Harm /\ phase' = "written"
  /\ trace' \in {trace, Ended} /\ lines' = [i \in DOMAIN trace' |-> i]
  /\ tail' \in {"whole"} \cup {end \in {"torn"} : trace' = trace}
  /\ \E count \in 0..Len(trace),
        temporary \in {NoManifest, [NoManifest EXCEPT !.present = TRUE],
                       Declares(Len(trace'), trace' = Ended)} :
       manifest' = [manifest EXCEPT
         !["manifest.json"] = IF count = 0 THEN NoManifest ELSE Declares(count, FALSE),
         !["manifest.json.tmp"] = temporary]
  /\ UNCHANGED saved

(* The files of a finished run come to harm: lines that were never synced  *)
(* are lost with the power, a line is dropped or doubled on the way, or a  *)
(* checkpoint is harmed.                                                   *)
LosePower ==
  /\ "power" \in Harm
  /\ \E kept \in 0..(Len(lines) - 1) : lines' = SubSeq(lines, 1, kept)
  /\ tail' \in {"whole", "torn"} /\ UNCHANGED saved
HarmLine ==
  /\ "lines" \in Harm
  /\ \E i \in DOMAIN lines :
       lines' \in {SubSeq(lines, 1, i - 1) \o SubSeq(lines, i + 1, Len(lines)),
                   SubSeq(lines, 1, i) \o SubSeq(lines, i, Len(lines))}
  /\ UNCHANGED <<saved, tail>>
HarmCheckpoint ==
  /\ \E i \in DOMAIN saved, damage \in Damages \cap Harm :
       saved' = [saved EXCEPT ![i].damage = damage]
  /\ UNCHANGED <<lines, tail>>
HarmFiles ==
  /\ phase = "written" /\ manifest["manifest.json"] = Declares(Len(lines), TRUE)
  /\ lines = [i \in DOMAIN trace |-> i] /\ \A i \in DOMAIN saved : saved[i].damage = "none"
  /\ \/ Len(trace) <= MaxHarmed /\ (LosePower \/ HarmLine)
     \/ Len(trace) <= MaxHarmed + 1 /\ HarmCheckpoint
  /\ UNCHANGED <<trace, manifest, phase>>

Load == phase = "written" /\ phase' = "read" /\ UNCHANGED <<trace, saved, manifest, lines, tail>>

RecordSnapshot ==
  \/ StartTrace \/ RecordRequest \/ RecordResponse \/ RecordStateChange \/ RecordNote
  \/ RecordCheckpoint \/ EndTrace \/ CutOff \/ HarmFiles \/ Load

-----------------------------------------------------------------------------
(* TraceSnapshot.events and .checkpoints                                   *)
Events == [k \in DOMAIN lines |-> trace[lines[k]]]
Checkpoints == {saved[i] : i \in {j \in DOMAIN saved : saved[j].damage # "file"}}
OnDisk == {lines[k] : k \in DOMAIN lines}

(* readManifest(): the first candidate that parses.                        *)
Candidates == <<manifest["manifest.json.tmp"], manifest["manifest.json"]>>
Readable == {i \in DOMAIN Candidates : Candidates[i].parses}
Declared ==
  IF Readable = {} THEN NoManifest
  ELSE Candidates[CHOOSE i \in Readable : \A j \in Readable : i <= j]

ManifestErrors ==
  {code \in {"MISSING_MANIFEST"} : \A i \in DOMAIN Candidates : ~Candidates[i].present}
  \cup {code \in {"INVALID_JSON"} :
          \E i \in DOMAIN Candidates : /\ Candidates[i].present /\ ~Candidates[i].parses
                                       /\ \A j \in Readable : i < j}

(* semanticDiagnostics() of the validator.  A checkpoint whose last event  *)
(* is another one, or whose hash is wrong, is none of its business.        *)
SequenceErrors ==
  {code \in {"SEQUENCE_NOT_INCREASING", "SEQUENCE_GAP"} :
     \E k \in DOMAIN lines :
       LET previous == IF k = 1 THEN 0 ELSE lines[k - 1] IN
       IF lines[k] <= previous THEN code = "SEQUENCE_NOT_INCREASING"
       ELSE lines[k] # previous + 1 /\ code = "SEQUENCE_GAP"}

ValidationErrors ==
  SequenceErrors
  \cup {code \in {"DUPLICATE_EVENT_ID"} :
          \E k, m \in DOMAIN lines : k < m /\ lines[k] = lines[m]}
  \cup {code \in {"MISSING_PARENT_EVENT"} :
          \E k \in DOMAIN lines :
            ~(Events[k].parents \subseteq {lines[m] : m \in 1..(k - 1)})}
  \cup {code \in {"INVALID_MANIFEST"} : ~Declared.parses}
  \cup {code \in {"EVENT_COUNT_MISMATCH"} : Declared.parses /\ Declared.count # Len(lines)}
  \cup {code \in {"LAST_SEQUENCE_MISMATCH"} :
          Declared.parses /\ Declared.count # (IF lines = <<>> THEN 0 ELSE lines[Len(lines)])}
  \cup {code \in {"MISSING_CHECKPOINT_EVENT"} :
          \E c \in Checkpoints : c.damage # "event" /\ c.sequence \notin OnDisk}
  \cup {code \in {"CHECKPOINT_RUN_ID_MISMATCH"} :
          \E c \in Checkpoints : Declared.parses /\ c.damage = "run"}

(* buildStructuralDiagnostics(): the peeling of events without parents is  *)
(* left with those that lie behind a causal cycle.                         *)
CausallyStuck(S) == S # {} /\ \A id \in S : trace[id].parents \cap S # {}
StructuralErrors ==
  {code \in {"BROKEN_PARENT_REFERENCE"} : \E k \in DOMAIN lines : ~(Events[k].parents \subseteq OnDisk)}
  \cup {code \in {"EVENT_CYCLE"} : \E S \in SUBSET OnDisk : CausallyStuck(S)}
  \cup {code \in {"MISSING_ROOT_EVENT"} : Declared.parses /\ 1 \notin OnDisk}

FileErrors ==
  {code \in {"PARTIAL_JSONL_TAIL"} : tail = "torn"}
  \cup {code \in {"MISSING_ARTIFACT"} : \E i \in DOMAIN saved : saved[i].damage = "gone"}
  \cup {code \in {"INVALID_JSON"} : \E i \in DOMAIN saved : saved[i].damage = "file"}

LoadErrors == ManifestErrors \cup ValidationErrors \cup StructuralErrors \cup FileErrors
Valid == LoadErrors = {}

(* Fault: whatever has a manifest is executable.                           *)
WithoutManifest == ~Declared.present

(* readSnapshotObservationMetadata() and assessSnapshotExecution()         *)
ObservationOnly == ~Declared.complete
Executable == Valid /\ ~ObservationOnly
=============================================================================
