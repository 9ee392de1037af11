------------------------- MODULE TraceReadingProofs -------------------------
(***************************************************************************)
(* Theorems on what a reader of a snapshot directory may rely on, for runs *)
(* of any length, whatever has happened to their files.                    *)
(***************************************************************************)
EXTENDS ReplayPolicyProofs, SequenceTheorems

ManifestFiles == {"manifest.json.tmp", "manifest.json"}

TraceInv ==
  /\ IsSeq(trace) /\ lines \in Seq(1..Len(trace)) /\ tail \in {"whole", "torn"}
  /\ \A i \in 1..Len(trace) : trace[i].parents \subseteq 1..(i - 1)
  /\ DOMAIN manifest = ManifestFiles
  /\ phase = "recording" => \A file \in ManifestFiles : manifest[file] = NoManifest
  /\ \A file \in ManifestFiles : manifest[file].complete =>
       /\ manifest[file].count = Len(trace)
       /\ trace # <<>> /\ trace[Len(trace)].type = "run.completed"

(* The events of a run hang on earlier ones.                               *)
LEMMA EventParents ==
  ASSUME NEW type, NEW call, NEW value, NEW operation, NEW path, NEW parents
  PROVE  /\ RunEvent(type, parents).parents = parents
         /\ RunEvent(type, parents).type = type
         /\ CallEvent(type, call, value, parents).parents = parents
         /\ StateEvent(operation, path, value, parents).parents = parents
BY DEF RunEvent, CallEvent, StateEvent

(* An event more is a line more.                                           *)
LEMMA TraceGrows ==
  ASSUME TraceInv, NEW e, e.parents \subseteq 1..Len(trace)
  PROVE  /\ IsSeq(Append(trace, e)) /\ Len(Append(trace, e)) = Len(trace) + 1
         /\ Append(lines, Len(trace) + 1) \in Seq(1..(Len(trace) + 1))
         /\ \A i \in 1..(Len(trace) + 1) : Append(trace, e)[i].parents \subseteq 1..(i - 1)
         /\ Append(trace, e)[Len(trace) + 1] = e /\ Append(trace, e) # <<>>
         /\ [i \in DOMAIN Append(trace, e) |-> i] \in Seq(1..(Len(trace) + 1))
         /\ [i \in DOMAIN trace |-> i] \in Seq(1..Len(trace))
<1> DEFINE longer == Append(trace, e)
           n == Len(trace)
<1>1. n \in Nat /\ IsSeq(longer) /\ Len(longer) = n + 1 /\ longer[n + 1] = e
      /\ (\A i \in 1..n : longer[i] = trace[i]) /\ DOMAIN longer = 1..(n + 1)
      /\ DOMAIN trace = 1..n
  BY SeqFacts, AppendFacts DEF TraceInv, Extends
<1>2. lines \in Seq(1..n)
  BY DEF TraceInv
<1>3. \A i \in 1..n : trace[i].parents \subseteq 1..(i - 1)
  BY DEF TraceInv
<1>4. longer # <<>>
  BY <1>1
<1> HIDE DEF longer, n
<1>5. Append(lines, n + 1) \in Seq(1..(n + 1))
  <2>1. lines \in Seq(1..(n + 1)) /\ n + 1 \in 1..(n + 1)
    BY <1>1, <1>2
  <2> QED
    BY <2>1
<1>6. \A i \in 1..(n + 1) : longer[i].parents \subseteq 1..(i - 1)
  <2>1. e.parents \subseteq 1..n
    BY DEF n
  <2> QED
    BY <1>1, <1>3, <2>1
<1>7. [i \in 1..(n + 1) |-> i] \in Seq(1..(n + 1)) /\ [i \in 1..n |-> i] \in Seq(1..n)
  BY <1>1
<1> QED
  BY <1>1, <1>4, <1>5, <1>6, <1>7 DEF longer, n

(* A run starts, is recorded, and comes to harm; the invariant stays.      *)
LEMMA TraceStarts ==
  ASSUME Init PROVE TraceInv
<1>1. trace = <<>> /\ lines = <<>> /\ tail = "whole"
      /\ manifest = [file \in ManifestFiles |-> NoManifest]
  BY DEF Init, SnapshotInit, ManifestFiles
<1>2. IsSeq(<<>>) /\ Len(<<>>) = 0 /\ <<>> \in Seq(1..Len(<<>>))
  <2>1. <<>> \in Seq({}) /\ Len(<<>>) = 0 /\ <<>> \in Seq(1..0)
    OBVIOUS
  <2> QED
    BY <2>1 DEF IsSeq
<1>3. ~NoManifest.complete
  BY DEF NoManifest
<1> QED
  BY <1>1, <1>2, <1>3 DEF TraceInv

(* Every event that is recorded.                                           *)
LEMMA RecordKeeps ==
  ASSUME TraceInv, NEW e, e.parents \subseteq 1..Len(trace), Record(e), phase = "recording"
  PROVE  TraceInv'
<1>1. /\ trace' = Append(trace, e) /\ lines' = Append(lines, Len(trace) + 1)
      /\ manifest' = manifest /\ phase' = phase /\ tail' = tail
  BY DEF Record
<1>2. \A file \in ManifestFiles : manifest[file] = NoManifest
  BY DEF TraceInv
<1>3. ~NoManifest.complete
  BY DEF NoManifest
<1>4. /\ IsSeq(trace') /\ lines' \in Seq(1..Len(trace'))
      /\ \A i \in 1..Len(trace') : trace'[i].parents \subseteq 1..(i - 1)
  BY <1>1, TraceGrows
<1> QED
  BY <1>1, <1>2, <1>3, <1>4 DEF TraceInv

(* Everything that is recorded before a run ends.                          *)
LEMMA RecordingKeeps ==
  ASSUME TraceInv,
         StartTrace \/ RecordRequest \/ RecordResponse \/ RecordStateChange
           \/ RecordNote \/ RecordCheckpoint
  PROVE  TraceInv'
<1>1. Len(trace) \in Nat /\ DOMAIN trace = 1..Len(trace) /\ (trace # <<>> => Len(trace) > 0)
      /\ (trace # <<>> => 1 \in 1..Len(trace) /\ Len(trace) \in 1..Len(trace))
  <2>1. PICK S : trace \in Seq(S)
    BY DEF TraceInv, IsSeq
  <2> QED
    BY <2>1
<1>2. CASE StartTrace
  <2>1. RunEvent("run.started", {}).parents \subseteq 1..Len(trace)
    BY EventParents
  <2> QED
    BY <1>2, <2>1, RecordKeeps DEF StartTrace
<1>3. CASE RecordRequest
  <2>1. PICK call \in Calls, parent \in {1, Len(trace)} :
          Record(CallEvent("requested", call, "input", {parent}))
    BY <1>3 DEF RecordRequest
  <2>2. CallEvent("requested", call, "input", {parent}).parents \subseteq 1..Len(trace)
    <3>1. trace # <<>>
      BY <1>3 DEF RecordRequest, Recording
    <3>2. parent \in 1..Len(trace)
      BY <1>1, <3>1, Zenon
    <3> QED
      BY <3>2, EventParents
  <2> QED
    BY <1>3, <2>1, <2>2, RecordKeeps DEF RecordRequest, Recording
<1>4. CASE RecordResponse
  <2>1. PICK request \in DOMAIN trace, call \in Calls, value \in Recorded :
          Record(CallEvent(IF value \in Outputs THEN "completed" ELSE "failed", call, value,
                           {request}))
    BY <1>4 DEF RecordResponse
  <2>2. CallEvent(IF value \in Outputs THEN "completed" ELSE "failed", call, value,
                  {request}).parents \subseteq 1..Len(trace)
    BY <1>1, EventParents
  <2> QED
    BY <1>4, <2>1, <2>2, RecordKeeps DEF RecordResponse, Recording
<1>5. CASE RecordStateChange
  <2>1. PICK change \in StateChanges :
          Record(StateEvent(change[1], <<ChangedPath>>, change[2], {Len(trace)}))
    BY <1>5 DEF RecordStateChange
  <2>2. StateEvent(change[1], <<ChangedPath>>, change[2], {Len(trace)}).parents
          \subseteq 1..Len(trace)
    <3>1. {Len(trace)} \subseteq 1..Len(trace)
      BY <1>1, <1>5 DEF RecordStateChange, Recording
    <3> QED
      BY <3>1, EventParents
  <2> QED
    BY <1>5, <2>1, <2>2, RecordKeeps DEF RecordStateChange, Recording
<1>6. ASSUME NEW type, Recording, Record(RunEvent(type, {Len(trace)})) PROVE TraceInv'
  <2>1. RunEvent(type, {Len(trace)}).parents \subseteq 1..Len(trace)
    BY <1>1, <1>6, EventParents DEF Recording
  <2> QED
    BY <1>6, <2>1, RecordKeeps DEF Recording
<1> QED
  BY <1>2, <1>3, <1>4, <1>5, <1>6 DEF RecordNote, RecordCheckpoint

(* A run ends well or is cut off: a manifest that calls it complete counts *)
(* all of it.                                                              *)
LEMMA EndingKeeps ==
  ASSUME TraceInv, EndTrace \/ CutOff PROVE TraceInv'
<1> DEFINE last == RunEvent("run.completed", {Len(trace)})
<1>1. /\ Len(trace) \in Nat /\ phase = "recording" /\ phase' = "written"
      /\ last.parents \subseteq 1..Len(trace) /\ last.type = "run.completed"
      /\ Ended = Append(trace, last) /\ tail' \in {"whole", "torn"}
  <2>1. PICK S : trace \in Seq(S)
    BY DEF TraceInv, IsSeq
  <2>2. trace # <<>> /\ phase = "recording" /\ phase' = "written"
    BY DEF EndTrace, CutOff
  <2>3. tail' \in {"whole", "torn"}
    BY DEF EndTrace, CutOff, TraceInv
  <2> QED
    BY <2>1, <2>2, <2>3, EventParents DEF Ended
<1>2. /\ IsSeq(Ended) /\ Len(Ended) = Len(trace) + 1 /\ Ended # <<>>
      /\ Append(lines, Len(trace) + 1) \in Seq(1..Len(Ended))
      /\ \A i \in 1..Len(Ended) : Ended[i].parents \subseteq 1..(i - 1)
      /\ Ended[Len(Ended)].type = "run.completed"
      /\ [i \in DOMAIN Ended |-> i] \in Seq(1..Len(Ended))
      /\ [i \in DOMAIN trace |-> i] \in Seq(1..Len(trace))
  <2> HIDE DEF last
  <2> QED
    BY <1>1, TraceGrows
<1>3. DOMAIN manifest = ManifestFiles /\ \A file \in ManifestFiles : manifest[file] = NoManifest
  BY <1>1 DEF TraceInv
<1>4. /\ ~NoManifest.complete
      /\ \A count, complete : /\ Declares(count, complete).complete = complete
                              /\ Declares(count, complete).count = count
      /\ ~[NoManifest EXCEPT !.present = TRUE].complete
  BY DEF NoManifest, Declares
<1>5. CASE EndTrace
  <2>1. /\ trace' = Ended /\ lines' = Append(lines, Len(trace) + 1)
        /\ manifest' = [manifest EXCEPT !["manifest.json"] = Declares(Len(Ended), TRUE)]
    BY <1>5 DEF EndTrace
  <2> QED
    BY <1>1, <1>2, <1>3, <1>4, <2>1 DEF TraceInv, ManifestFiles
<1>6. CASE CutOff
  <2>1. PICK count \in 0..Len(trace),
            temporary \in {NoManifest, [NoManifest EXCEPT !.present = TRUE],
                           Declares(Len(trace'), trace' = Ended)} :
          manifest' = [manifest EXCEPT
            !["manifest.json"] = IF count = 0 THEN NoManifest ELSE Declares(count, FALSE),
            !["manifest.json.tmp"] = temporary]
    BY <1>6 DEF CutOff
  <2> DEFINE earlier == IF count = 0 THEN NoManifest ELSE Declares(count, FALSE)
  <2>5. ~earlier.complete
    BY <1>4
  <2>6. temporary.complete => trace' = Ended /\ temporary.count = Len(trace')
    <3>1. CASE temporary = Declares(Len(trace'), trace' = Ended)
      <4>1. temporary.complete = (trace' = Ended) /\ temporary.count = Len(trace')
        BY <3>1 DEF Declares
      <4> QED
        BY <4>1
    <3>2. CASE temporary \in {NoManifest, [NoManifest EXCEPT !.present = TRUE]}
      BY <1>4, <3>2
    <3> QED
      BY <3>1, <3>2
  <2>7. manifest' = [manifest EXCEPT !["manifest.json"] = earlier,
                                     !["manifest.json.tmp"] = temporary]
    BY <2>1
  <2> HIDE DEF earlier
  <2>2. /\ DOMAIN manifest' = ManifestFiles
        /\ ~manifest'["manifest.json"].complete
        /\ manifest'["manifest.json.tmp"].complete =>
             trace' = Ended /\ manifest'["manifest.json.tmp"].count = Len(trace')
    BY <1>3, <2>5, <2>6, <2>7 DEF ManifestFiles
  <2>3. trace' \in {trace, Ended} /\ lines' = [i \in DOMAIN trace' |-> i]
    BY <1>6 DEF CutOff
  <2>4. IsSeq(trace') /\ lines' \in Seq(1..Len(trace'))
        /\ \A i \in 1..Len(trace') : trace'[i].parents \subseteq 1..(i - 1)
    BY <1>2, <2>3 DEF TraceInv
  <2> QED
    BY <1>1, <1>2, <2>2, <2>4 DEF TraceInv, ManifestFiles
<1> QED
  BY <1>5, <1>6

(* Files that come to harm keep no line that was not recorded.             *)
LEMMA HarmKeeps ==
  ASSUME TraceInv, HarmFiles PROVE TraceInv'
<1>1. UNCHANGED <<trace, manifest, phase>>
  BY DEF HarmFiles
<1> DEFINE S == 1..Len(trace)
<1>2. lines \in Seq(S)
  BY DEF TraceInv
<1> HIDE DEF S
<1>3. ASSUME LosePower PROVE lines' \in Seq(S)
  <2>1. PICK kept \in 0..(Len(lines) - 1) : lines' = SubSeq(lines, 1, kept)
    BY <1>3 DEF LosePower
  <2>2. \A i \in 1..kept : lines[i] \in S
    BY <1>2
  <2> QED
    BY <1>2, <2>1, <2>2, SubSeqProperties
<1>4. ASSUME HarmLine PROVE lines' \in Seq(S)
  <2>1. PICK i \in DOMAIN lines :
          lines' \in {SubSeq(lines, 1, i - 1) \o SubSeq(lines, i + 1, Len(lines)),
                     SubSeq(lines, 1, i) \o SubSeq(lines, i, Len(lines))}
    BY <1>4 DEF HarmLine
  <2>2. i \in 1..Len(lines) /\ Len(lines) \in Nat
    BY <1>2
  <2>3. /\ SubSeq(lines, 1, i - 1) \in Seq(S) /\ SubSeq(lines, i + 1, Len(lines)) \in Seq(S)
        /\ SubSeq(lines, 1, i) \in Seq(S) /\ SubSeq(lines, i, Len(lines)) \in Seq(S)
    BY <1>2, <2>2
  <2>4. \A s, t \in Seq(S) : s \o t \in Seq(S)
    OBVIOUS
  <2> QED
    BY <2>1, <2>3, <2>4
<1>5. ASSUME HarmCheckpoint PROVE lines' \in Seq(S)
  BY <1>2, <1>5 DEF HarmCheckpoint
<1>6. lines' \in Seq(S)
  BY <1>3, <1>4, <1>5 DEF HarmFiles
<1>7. tail' \in {"whole", "torn"}
  BY DEF HarmFiles, LosePower, HarmLine, HarmCheckpoint, TraceInv
<1> QED
  BY <1>1, <1>6, <1>7 DEF TraceInv, S

(* Whatever happens in a session.                                          *)
LEMMA TraceKept ==
  ASSUME TraceInv, [Next]_vars PROVE TraceInv'
<1>1. ASSUME UNCHANGED snapshotVars PROVE TraceInv'
  BY <1>1 DEF TraceInv, snapshotVars
<1>2. ASSUME RecordSnapshot PROVE TraceInv'
  BY <1>2, RecordingKeeps, EndingKeeps, HarmKeeps DEF RecordSnapshot, Load, TraceInv
<1> QED
  BY <1>1, <1>2 DEF Next, NewRunner, RunnerStep, vars

-----------------------------------------------------------------------------
(* Lines whose sequences the validator does not object to are numbered     *)
(* from one, without a gap: the first that is not would be noticed.        *)
LEMMA LinesInOrder ==
  ASSUME TraceInv, SequenceErrors = {}
  PROVE  /\ Len(lines) \in Nat /\ DOMAIN lines = 1..Len(lines)
         /\ \A k \in 1..Len(lines) : lines[k] = k
<1>1. Len(lines) \in Nat /\ DOMAIN lines = 1..Len(lines)
      /\ \A k \in 1..Len(lines) : lines[k] \in Nat
  BY DEF TraceInv
<1> DEFINE wrong == {k \in 1..Len(lines) : lines[k] # k}
<1>2. ASSUME NEW k \in 1..Len(lines)
      PROVE  lines[k] = (IF k = 1 THEN 0 ELSE lines[k - 1]) + 1
  <2> DEFINE previous == IF k = 1 THEN 0 ELSE lines[k - 1]
  <2>1. previous \in Nat
    BY <1>1
  <2>2. ~(lines[k] <= previous)
    <3>1. "SEQUENCE_NOT_INCREASING" \notin SequenceErrors
      OBVIOUS
    <3> QED
      BY <1>1, <3>1 DEF SequenceErrors
  <2>3. lines[k] <= previous \/ lines[k] = previous + 1
    <3>1. "SEQUENCE_GAP" \notin SequenceErrors
      OBVIOUS
    <3> QED
      BY <1>1, <3>1 DEF SequenceErrors
  <2> QED
    BY <2>2, <2>3
<1>3. ASSUME wrong # {} PROVE FALSE
  <2>1. PICK m \in wrong : \A j \in wrong : m <= j
    <3>1. wrong \subseteq Nat
      OBVIOUS
    <3> HIDE DEF wrong
    <3> QED
      BY <1>3, <3>1, LeastNatural
  <2>2. m \in 1..Len(lines) /\ lines[m] # m /\ (m # 1 => lines[m - 1] = m - 1)
    BY <1>1, <2>1
  <2> QED
    BY <1>1, <1>2, <2>2
<1> QED
  BY <1>1, <1>3

(* What a reader sees of a trace without errors is its beginning.          *)
LEMMA ValidEvents ==
  ASSUME TraceInv, Valid
  PROVE  /\ Len(lines) \in 0..Len(trace) /\ DOMAIN Events = 1..Len(lines)
         /\ \A k \in 1..Len(lines) : /\ Events[k] = trace[k] /\ lines[k] = k
                                     /\ Events[k].parents \subseteq 1..(k - 1)
<1>1. SequenceErrors = {}
  BY DEF Valid, LoadErrors, ValidationErrors
<1>2. /\ Len(lines) \in Nat /\ DOMAIN lines = 1..Len(lines)
      /\ \A k \in 1..Len(lines) : lines[k] = k
  BY <1>1, LinesInOrder
<1>3. Len(trace) \in Nat /\ \A k \in 1..Len(lines) : lines[k] \in 1..Len(trace)
  BY <1>2, SeqFacts DEF TraceInv
<1>4. Len(lines) \in 0..Len(trace)
  BY <1>2, <1>3
<1> QED
  BY <1>2, <1>3, <1>4 DEF Events, TraceInv

(* Whatever crash, power loss, harm to a file or leftover manifest came     *)
(* before the reader: a manifest that says complete counts everything.     *)
LEMMA ExecutableWhole ==
  ASSUME TraceInv, Executable
  PROVE  /\ Events = trace /\ tail = "whole" /\ trace[Len(trace)].type = "run.completed"
         /\ \A i \in DOMAIN saved : saved[i].damage \notin {"run", "gone", "file"}
<1>1. Valid /\ Declared.complete
  BY DEF Executable, ObservationOnly
<1>2. PICK file \in ManifestFiles : Declared = manifest[file]
  <2>1. Readable # {}
    BY <1>1 DEF Declared, NoManifest
  <2>2. Readable \subseteq Nat
    BY DEF Readable, Candidates
  <2>3. \E i \in Readable : Declared = Candidates[i]
    BY <2>1, <2>2, LeastNatural DEF Declared
  <2> QED
    BY <2>3 DEF Readable, Candidates, ManifestFiles
<1>3. /\ Declared.count = Len(trace) /\ trace # <<>>
      /\ trace[Len(trace)].type = "run.completed"
  BY <1>1, <1>2 DEF TraceInv
<1>4. Declared.parses
  <2>1. "INVALID_MANIFEST" \notin ValidationErrors
    BY <1>1 DEF Valid, LoadErrors
  <2> QED
    BY <2>1 DEF ValidationErrors
<1>5. Declared.count = Len(lines)
  <2>1. "EVENT_COUNT_MISMATCH" \notin ValidationErrors
    BY <1>1 DEF Valid, LoadErrors
  <2> QED
    BY <1>4, <2>1 DEF ValidationErrors
<1>6. Events = trace
  <2>1. PICK S : trace \in Seq(S)
    BY DEF TraceInv, IsSeq
  <2>2. Events = [k \in 1..Len(trace) |-> trace[k]]
    BY <1>1, <1>3, <1>5, ValidEvents DEF Events
  <2> QED
    BY <2>1, <2>2
<1>7. tail = "whole"
  <2>1. "PARTIAL_JSONL_TAIL" \notin FileErrors
    BY <1>1 DEF Valid, LoadErrors
  <2> QED
    BY <2>1 DEF FileErrors, TraceInv
<1>8. ASSUME NEW i \in DOMAIN saved PROVE saved[i].damage \notin {"run", "gone", "file"}
  <2>1. /\ "MISSING_ARTIFACT" \notin FileErrors /\ "INVALID_JSON" \notin FileErrors
        /\ "CHECKPOINT_RUN_ID_MISMATCH" \notin ValidationErrors
    BY <1>1 DEF Valid, LoadErrors
  <2>2. saved[i].damage \notin {"gone", "file"}
    BY <2>1 DEF FileErrors
  <2>3. saved[i] \in Checkpoints
    BY <2>2 DEF Checkpoints
  <2> QED
    BY <1>4, <2>1, <2>2, <2>3 DEF ValidationErrors
<1> QED
  BY <1>3, <1>6, <1>7, <1>8

(* What passes for executable evidence is the whole run (loadTraceSnapshot,*)
(* assessSnapshotExecution).                                               *)
THEOREM ExecutableIsWhole == Spec => []EligibleTraceIsWhole
<1>1. Init => TraceInv
  BY TraceStarts
<1>2. TraceInv /\ [Next]_vars => TraceInv'
  BY TraceKept
<1>3. TraceInv => EligibleTraceIsWhole
  BY ExecutableWhole DEF EligibleTraceIsWhole
<1> QED
  BY <1>1, <1>2, <1>3, PTL DEF Spec

-----------------------------------------------------------------------------
(* A set of natural numbers below a bound has a greatest element, too.     *)
LEMMA GreatestNatural ==
  ASSUME NEW n \in Nat, NEW S, S \subseteq 1..n, S # {}
  PROVE  \E m \in S : \A j \in S : j <= m
<1> DEFINE bounds == {b \in Nat : \A j \in S : j <= b}
<1>1. n \in bounds /\ bounds \subseteq Nat
  OBVIOUS
<1>2. PICK m \in bounds : \A b \in bounds : m <= b
  <2> HIDE DEF bounds
  <2> QED
    BY <1>1, LeastNatural
<1>3. m \in S
  <2>1. ASSUME m \notin S PROVE FALSE
    <3>1. \A j \in S : j <= m - 1 /\ 1 <= j
      BY <2>1
    <3>2. m - 1 \in Nat
      <4>1. m \in Nat
        OBVIOUS
      <4>2. PICK j : j \in S
        OBVIOUS
      <4>3. j \in 1..n /\ j <= m - 1
        BY <3>1, <4>2
      <4> QED
        BY <4>1, <4>3
    <3>3. m - 1 \in bounds
      BY <3>1, <3>2
    <3> QED
      BY <1>2, <3>3
  <2> QED
    BY <2>1
<1> QED
  BY <1>2, <1>3

(* Every event belongs to a group, known by an event at or before it; and  *)
(* groups follow one another like their events.                            *)
LEMMA GroupFacts ==
  ASSUME NEW events, NEW n \in Nat, DOMAIN events = 1..n, NEW folding
  PROVE  /\ GroupStarts(events, folding) \subseteq 1..n
         /\ \A i \in 1..n : /\ GroupOf(events, folding, i) \in GroupStarts(events, folding)
                             /\ GroupOf(events, folding, i) <= i
         /\ \A i, j \in 1..n : i <= j =>
              GroupOf(events, folding, i) <= GroupOf(events, folding, j)
<1> DEFINE starts == GroupStarts(events, folding)
           group(i) == GroupOf(events, folding, i)
           below(i) == {h \in starts : h <= i}
<1>1. starts \subseteq 1..n
  BY DEF GroupStarts
<1>2. ASSUME NEW i \in 1..n
      PROVE  group(i) \in starts /\ group(i) <= i /\ \A h \in starts : h <= i => h <= group(i)
  <2>1. 1 \in starts
    BY DEF GroupStarts
  <2>2. below(i) \subseteq 1..n /\ below(i) # {}
    BY <1>1, <2>1
  <2>3. PICK m \in below(i) : \A h \in below(i) : h <= m
    <3> HIDE DEF below
    <3> QED
      BY <2>2, GreatestNatural
  <2>4. m \in starts /\ m <= i /\ \A h \in starts : h <= i => h <= m
    BY <2>3
  <2> HIDE DEF starts
  <2> QED
    BY <2>4 DEF GroupOf, starts
<1> HIDE DEF starts, group
<1>3. ASSUME NEW i \in 1..n, NEW j \in 1..n, i <= j PROVE group(i) <= group(j)
  <2>3. group(i) \in starts /\ group(i) <= i
    BY <1>2
  <2>4. group(i) \in 1..n
    BY <1>1, <2>3, Zenon
  <2>1. group(i) \in Nat
    BY <2>4
  <2>2. group(i) <= j
    BY <1>3, <2>1, <2>3
  <2> QED
    BY <1>2, <2>2, <2>3
<1> QED
  BY <1>1, <1>2, <1>3 DEF starts, group

(* Causality of a projection of a list of events that hang on earlier ones.*)
LEMMA ProjectionKeepsCausality ==
  ASSUME NEW events, NEW n \in Nat, DOMAIN events = 1..n,
         \A k \in 1..n : events[k].parents \subseteq 1..(k - 1),
         NEW folding, NEW filter
  PROVE  LET dag == CausalDag(events, folding, filter)
             tree == CallTree(events, folding, filter)
             visible == VisibleNodes(events, folding, filter)
             group(i) == GroupOf(events, folding, i)
         IN /\ dag \subseteq visible \X visible /\ \A edge \in dag : edge[1] < edge[2]
            /\ \A i \in DOMAIN events, p \in DOMAIN events :
                 p \in events[i].parents /\ {group(p), group(i)} \subseteq visible =>
                   group(p) = group(i) \/ <<group(p), group(i)>> \in dag
            /\ tree \subseteq dag
            /\ \A g \in visible :
                 Cardinality({edge \in tree : edge[2] = g})
                   = IF \E edge \in dag : edge[2] = g THEN 1 ELSE 0
<1> DEFINE dag == CausalDag(events, folding, filter)
           tree == CallTree(events, folding, filter)
           visible == VisibleNodes(events, folding, filter)
           group(i) == GroupOf(events, folding, i)
           above(g) == ParentNodes(events, folding, filter, g)
           into(g) == {edge \in tree : edge[2] = g}
<1>1. visible \subseteq 1..n
  BY GroupFacts DEF VisibleNodes
<1>2. ASSUME NEW g \in visible, NEW p \in above(g)
      PROVE  p \in visible /\ p <= g
  <2>1. PICK i \in Members(events, folding, g) :
          \E q \in events[i].parents : p = group(q)
    BY <1>2 DEF ParentNodes
  <2>5. PICK q \in events[i].parents : p = group(q)
    BY <2>1
  <2>2. i \in 1..n /\ group(i) = g
    BY <2>1 DEF Members
  <2>3. q \in 1..n /\ q <= i
    BY <2>2
  <2>4. group(q) <= group(i)
    BY <2>2, <2>3, GroupFacts
  <2> QED
    BY <1>2, <2>5, <2>2, <2>4 DEF ParentNodes
<1>3. \A edge : edge \in dag <=>
        \E g \in visible : \E p \in above(g) : edge = <<p, g>> /\ p # g
  BY DEF CausalDag
<1>4. \A edge : edge \in tree <=>
        \E g \in visible : \E p \in above(g) :
          edge = <<p, g>> /\ p # g /\ \A q \in above(g) : p <= q
  BY DEF CallTree
<1>5. ASSUME NEW i \in 1..n, NEW p \in 1..n, p \in events[i].parents,
             {group(p), group(i)} \subseteq visible
      PROVE  group(p) \in above(group(i))
  <2>1. i \in Members(events, folding, group(i))
    BY DEF Members
  <2> QED
    BY <1>5, <2>1 DEF ParentNodes
<1> HIDE DEF dag, tree, visible, above, group
<1>6. ASSUME NEW g \in visible
      PROVE  Cardinality(into(g)) = IF \E edge \in dag : edge[2] = g THEN 1 ELSE 0
  <2>1. CASE \E edge \in dag : edge[2] = g
    <3>1. PICK other \in above(g) : other # g
      BY <1>3, <2>1
    <3>2. above(g) \subseteq Nat
      <4>1. \A q \in above(g) : q \in visible
        BY <1>2
      <4>2. \A q \in above(g) : q \in 1..n
        BY <1>1, <4>1, Zenon
      <4> QED
        BY <4>2
    <3>3. PICK least \in above(g) : \A q \in above(g) : least <= q
      BY <3>1, <3>2, LeastNatural
    <3>4. least # g
      BY <1>1, <1>2, <1>6, <3>1, <3>2, <3>3
    <3>5. into(g) = {<<least, g>>}
      <4>1. <<least, g>> \in tree /\ <<least, g>>[2] = g
        BY <1>4, <3>3, <3>4
      <4>2. ASSUME NEW edge \in tree, edge[2] = g PROVE edge = <<least, g>>
        <5>1. \E p \in above(g) : edge = <<p, g>> /\ \A q \in above(g) : p <= q
          BY <1>4, <4>2
        <5> QED
          BY <3>2, <3>3, <5>1
      <4> QED
        BY <4>1, <4>2
    <3> QED
      BY <2>1, <3>5, FS_Singleton
  <2>2. CASE ~\E edge \in dag : edge[2] = g
    <3>1. into(g) = {}
      BY <1>3, <1>4, <2>2
    <3> QED
      BY <2>2, <3>1, FS_EmptySet
  <2> QED
    BY <2>1, <2>2
<1>7. dag \subseteq visible \X visible /\ \A edge \in dag : edge[1] < edge[2]
  <2>1. ASSUME NEW edge \in dag PROVE edge \in visible \X visible /\ edge[1] < edge[2]
    <3>1. PICK g \in visible : \E p \in above(g) : edge = <<p, g>> /\ p # g
      BY <1>3
    <3>2. PICK p \in above(g) : edge = <<p, g>> /\ p # g
      BY <3>1
    <3>3. p \in visible /\ p <= g
      BY <1>2
    <3> QED
      BY <1>1, <3>2, <3>3
  <2> QED
    BY <2>1
<1>8. tree \subseteq dag
  BY <1>3, <1>4
<1>9. \A i \in DOMAIN events, p \in DOMAIN events :
        p \in events[i].parents /\ {group(p), group(i)} \subseteq visible =>
          group(p) = group(i) \/ <<group(p), group(i)>> \in dag
  BY <1>3, <1>5
<1> QED
  BY <1>6, <1>7, <1>8, <1>9 DEF dag, tree, visible, group

(* No folding and no filter invents, loses or turns round causality in the *)
(* graph of any trace without errors (groupEvents, causalEdges).           *)
THEOREM GraphIsCausal == Spec => []GraphKeepsCausality
<1>1. Init => TraceInv
  BY TraceStarts
<1>2. TraceInv /\ [Next]_vars => TraceInv'
  BY TraceKept
<1>3. TraceInv => GraphKeepsCausality
  <2> SUFFICES ASSUME TraceInv, Valid, NEW folding \in BOOLEAN, NEW filter \in GraphFilters
               PROVE  LET dag == CausalDag(Events, folding, filter)
                          tree == CallTree(Events, folding, filter)
                          visible == VisibleNodes(Events, folding, filter)
                          group(i) == GroupOf(Events, folding, i)
                      IN /\ dag \subseteq visible \X visible /\ \A edge \in dag : edge[1] < edge[2]
                         /\ \A i \in DOMAIN Events, p \in DOMAIN Events :
                              p \in Events[i].parents /\ {group(p), group(i)} \subseteq visible =>
                                group(p) = group(i) \/ <<group(p), group(i)>> \in dag
                         /\ tree \subseteq dag
                         /\ \A g \in visible :
                              Cardinality({edge \in tree : edge[2] = g})
                                = IF \E edge \in dag : edge[2] = g THEN 1 ELSE 0
    BY DEF GraphKeepsCausality
  <2>1. Len(lines) \in Nat /\ DOMAIN Events = 1..Len(lines)
        /\ \A k \in 1..Len(lines) : Events[k].parents \subseteq 1..(k - 1)
    BY ValidEvents
  <2> QED
    BY <2>1, ProjectionKeepsCausality
<1> QED
  BY <1>1, <1>2, <1>3, PTL DEF Spec

-----------------------------------------------------------------------------
(* The states that a replay of state changes goes through.                 *)
Began(state) == [ok |-> TRUE, state |-> state]
IsReplay(f, state, events, from, to) ==
  f = [i \in from..to |-> IF i = from THEN Began(state) ELSE AfterEvent(f[i - 1], events[i])]

(* A replay goes as far as there are events: the first position it could   *)
(* not reach would be reached from the one before.                         *)
LEMMA ReplayExists ==
  ASSUME NEW state, NEW events, NEW from \in Nat, NEW to \in Nat, from <= to
  PROVE  \E f : IsReplay(f, state, events, from, to)
<1> DEFINE missed == {n \in Nat : n >= from /\ ~\E f : IsReplay(f, state, events, from, n)}
<1>1. ASSUME missed # {} PROVE FALSE
  <2>1. PICK m \in missed : \A j \in missed : m <= j
    <3>1. missed \subseteq Nat
      OBVIOUS
    <3> HIDE DEF missed
    <3> QED
      BY <1>1, <3>1, LeastNatural
  <2>2. m \in Nat /\ m >= from /\ ~\E f : IsReplay(f, state, events, from, m)
    OBVIOUS
  <2>3. CASE m = from
    <3> DEFINE one == [i \in from..from |-> Began(state)]
    <3>1. IsReplay(one, state, events, from, from)
      BY DEF IsReplay
    <3> QED
      BY <2>2, <2>3, <3>1
  <2>4. CASE m # from
    <3>1. m - 1 \in Nat /\ m - 1 >= from
      BY <2>2, <2>4
    <3>2. m - 1 \notin missed
      BY <2>1, <3>1
    <3>3. PICK f : IsReplay(f, state, events, from, m - 1)
      BY <3>1, <3>2
    <3> DEFINE g == [i \in from..m |-> IF i = m THEN AfterEvent(f[m - 1], events[m]) ELSE f[i]]
               h == [i \in from..m |-> IF i = from THEN Began(state)
                                       ELSE AfterEvent(g[i - 1], events[i])]
    <3>4. ASSUME NEW i \in from..m PROVE g[i] = h[i]
      <4>1. CASE i = m
        BY <2>2, <2>4, <3>1, <4>1
      <4>2. CASE i # m /\ i = from
        BY <3>1, <3>3, <4>2 DEF IsReplay
      <4>3. CASE i # m /\ i # from
        <5>1. i \in from..(m - 1) /\ i - 1 \in from..(m - 1) /\ i - 1 # m
          BY <2>2, <4>3
        <5>2. f[i] = AfterEvent(f[i - 1], events[i])
          BY <3>3, <4>3, <5>1 DEF IsReplay
        <5>3. g[i] = f[i] /\ g[i - 1] = f[i - 1]
          BY <4>3, <5>1
        <5>4. h[i] = AfterEvent(g[i - 1], events[i])
          BY <4>3
        <5> QED
          BY <5>2, <5>3, <5>4
      <4> QED
        BY <4>1, <4>2, <4>3
    <3>5. g = h
      BY <3>4
    <3> HIDE DEF g
    <3>6. IsReplay(g, state, events, from, m)
      BY <3>5 DEF IsReplay
    <3> QED
      BY <2>2, <3>6
  <2> QED
    BY <2>3, <2>4
<1> QED
  BY <1>1

(* Replayed is where that ends.                                            *)
LEMMA ReplayedIsReplay ==
  ASSUME NEW state, NEW events, IsSeq(events), NEW from \in 0..Len(events)
  PROVE  \E f : /\ IsReplay(f, state, events, from, Len(events))
                /\ Replayed(state, events, from) = f[Len(events)]
<1> DEFINE upTo == CHOOSE f : IsReplay(f, state, events, from, Len(events))
<1>1. IsReplay(upTo, state, events, from, Len(events))
  <2>1. Len(events) \in Nat /\ from \in Nat /\ from <= Len(events)
    BY SeqFacts
  <2> QED
    BY <2>1, ReplayExists, Zenon
<1>2. Replayed(state, events, from) = upTo[Len(events)]
  BY Zenon DEF Replayed, IsReplay, Began
<1> QED
  BY <1>1, <1>2

(* What holds at first and then at the next position, holds at all of them.*)
LEMMA Climb ==
  ASSUME NEW from \in Nat, NEW to \in Nat, NEW S, from \in S,
         \A i \in from..to : i # to /\ i \in S => i + 1 \in S
  PROVE  \A i \in from..to : i \in S
<1> DEFINE missed == {i \in from..to : i \notin S}
<1>1. ASSUME missed # {} PROVE FALSE
  <2>1. PICK m \in missed : \A j \in missed : m <= j
    <3>1. missed \subseteq Nat
      OBVIOUS
    <3> HIDE DEF missed
    <3> QED
      BY <1>1, <3>1, LeastNatural
  <2>2. m \in from..to /\ m \notin S /\ m # from
    BY <2>1
  <2>3. m - 1 \in from..to /\ m - 1 # to /\ m - 1 \notin missed /\ (m - 1) + 1 = m
    BY <2>1, <2>2
  <2>4. m - 1 \in S
    BY <2>3
  <2> QED
    BY <2>2, <2>3, <2>4
<1> QED
  BY <1>1

(* One position after the other.                                           *)
IsOutcome(x) == x.ok \in BOOLEAN /\ x = [ok |-> x.ok, state |-> x.state]
GoesOn(f, events, from, to) ==
  \A i \in from..to : i # to => f[i + 1] = AfterEvent(f[i], events[i + 1])
Outcomes(f, from, to) == \A i \in from..to : IsOutcome(f[i])

LEMMA ReplaySteps ==
  ASSUME NEW f, NEW state, NEW events, NEW from \in Nat, NEW to \in Nat, from <= to,
         IsReplay(f, state, events, from, to)
  PROVE  /\ f[from] = Began(state)
         /\ GoesOn(f, events, from, to) /\ Outcomes(f, from, to)
<1>1. f[from] = Began(state)
  BY DEF IsReplay
<1>2. ASSUME NEW i \in from..to, i # to PROVE f[i + 1] = AfterEvent(f[i], events[i + 1])
  <2>1. i + 1 \in from..to /\ i + 1 # from /\ (i + 1) - 1 = i
    BY <1>2
  <2> QED
    BY <2>1 DEF IsReplay
<1>3. \A before, e : IsOutcome(before) => IsOutcome(AfterEvent(before, e))
  BY DEF AfterEvent, IsOutcome
<1> DEFINE S == {i \in from..to : IsOutcome(f[i])}
<1>4. from \in S
  <2>1. IsOutcome(Began(state)) /\ from \in from..to
    BY DEF Began, IsOutcome
  <2> QED
    BY <1>1, <2>1
<1>5. \A i \in from..to : i # to /\ i \in S => i + 1 \in S
  <2>1. ASSUME NEW i \in from..to, i # to, i \in S PROVE i + 1 \in S
    BY <1>2, <1>3, <2>1
  <2> QED
    BY <2>1
<1>6. \A i \in from..to : i \in S
  <2> HIDE DEF S
  <2> QED
    BY <1>4, <1>5, Climb
<1> QED
  BY <1>1, <1>2, <1>6 DEF GoesOn, Outcomes

(* Once a change could not be applied, the replay has failed.              *)
LEMMA FailedForGood ==
  ASSUME NEW f, NEW state, NEW events, NEW from \in Nat, NEW to \in Nat,
         IsReplay(f, state, events, from, to), NEW s \in from..to, f[to].ok
  PROVE  f[s].ok
<1> SUFFICES ASSUME ~f[s].ok PROVE FALSE
  OBVIOUS
<1>0. GoesOn(f, events, from, to)
  <2>1. from <= to
    OBVIOUS
  <2> QED
    BY <2>1, ReplaySteps
<1> DEFINE S == {i \in s..to : ~f[i].ok}
<1>1. s \in S
  OBVIOUS
<1>2. \A i \in s..to : i # to /\ i \in S => i + 1 \in S
  <2>1. ASSUME NEW i \in s..to, i # to, ~f[i].ok PROVE ~f[i + 1].ok
    <3>1. f[i + 1] = AfterEvent(f[i], events[i + 1])
      BY <1>0, <2>1 DEF GoesOn
    <3>2. \A before, e : ~before.ok => ~AfterEvent(before, e).ok
      BY DEF AfterEvent
    <3> QED
      BY <2>1, <3>1, <3>2
  <2>2. \A i \in s..to : i # to => i + 1 \in s..to
    OBVIOUS
  <2> QED
    BY <2>1, <2>2
<1>3. to \in S
  <2> HIDE DEF S
  <2>1. s \in Nat /\ to \in s..to
    OBVIOUS
  <2> QED
    BY <1>1, <1>2, <2>1, Climb
<1> QED
  BY <1>3

(* Replays of lists that begin alike lead to the same.                     *)
LEMMA SamePrefix ==
  ASSUME NEW f, NEW g, NEW state, NEW events, NEW more,
         NEW from \in Nat, NEW s \in Nat, NEW to \in Nat,
         from <= s, s <= to,
         IsReplay(f, state, events, from, s), IsReplay(g, state, more, from, to),
         \A k \in (from + 1)..s : events[k] = more[k]
  PROVE  f[s] = g[s]
<1>0. /\ f[from] = Began(state) /\ g[from] = Began(state)
      /\ GoesOn(f, events, from, s) /\ GoesOn(g, more, from, to)
  <2>1. from <= to
    OBVIOUS
  <2>2. f[from] = Began(state) /\ GoesOn(f, events, from, s)
    BY ReplaySteps
  <2>3. g[from] = Began(state) /\ GoesOn(g, more, from, to)
    BY <2>1, ReplaySteps
  <2> QED
    BY <2>2, <2>3
<1> DEFINE S == {i \in from..s : f[i] = g[i]}
<1>1. from \in S
  BY <1>0
<1>2. \A i \in from..s : i # s /\ i \in S => i + 1 \in S
  <2>1. ASSUME NEW i \in from..s, i # s, f[i] = g[i] PROVE f[i + 1] = g[i + 1]
    <3>1. i \in from..to /\ i # to /\ i + 1 \in (from + 1)..s
      BY <2>1
    <3>2. f[i + 1] = AfterEvent(f[i], events[i + 1])
      BY <1>0, <2>1 DEF GoesOn
    <3>3. g[i + 1] = AfterEvent(g[i], more[i + 1])
      BY <1>0, <3>1 DEF GoesOn
    <3> QED
      BY <2>1, <3>1, <3>2, <3>3
  <2>2. \A i \in from..s : i # s => i + 1 \in from..s
    OBVIOUS
  <2> QED
    BY <2>1, <2>2
<1>3. s \in S
  <2> HIDE DEF S
  <2>1. from \in Nat /\ s \in from..s
    OBVIOUS
  <2> QED
    BY <1>1, <1>2, <2>1, Climb
<1> QED
  BY <1>3

(* The same of a replay that takes over where another one has got to.      *)
LEMMA TakesOver ==
  ASSUME NEW f, NEW g, NEW state, NEW events, NEW from \in Nat, NEW s \in Nat, NEW to \in Nat,
         from <= s, s <= to,
         IsReplay(g, state, events, from, to), g[s].ok,
         IsReplay(f, g[s].state, events, s, to)
  PROVE  f[to] = g[to]
<1>0. /\ IsOutcome(g[s])
      /\ GoesOn(f, events, s, to) /\ GoesOn(g, events, from, to)
  <2>1. from <= to /\ s \in from..to
    OBVIOUS
  <2>2. GoesOn(g, events, from, to) /\ Outcomes(g, from, to)
    BY <2>1, ReplaySteps
  <2>3. GoesOn(f, events, s, to)
    BY ReplaySteps
  <2> QED
    BY <2>1, <2>2, <2>3 DEF Outcomes
<1> DEFINE S == {i \in s..to : f[i] = g[i]}
<1>1. s \in S
  <2>1. f[s] = Began(g[s].state)
    BY ReplaySteps
  <2>2. g[s] = Began(g[s].state)
    BY <1>0 DEF Began, IsOutcome
  <2> QED
    BY <2>1, <2>2
<1>2. \A i \in s..to : i # to /\ i \in S => i + 1 \in S
  <2>1. ASSUME NEW i \in s..to, i # to, f[i] = g[i] PROVE f[i + 1] = g[i + 1]
    <3>1. i \in from..to
      BY <2>1
    <3>2. f[i + 1] = AfterEvent(f[i], events[i + 1])
      BY <1>0, <2>1 DEF GoesOn
    <3>3. g[i + 1] = AfterEvent(g[i], events[i + 1])
      BY <1>0, <2>1, <3>1 DEF GoesOn
    <3> QED
      BY <2>1, <3>2, <3>3
  <2>2. \A i \in s..to : i # to => i + 1 \in s..to
    OBVIOUS
  <2> QED
    BY <2>1, <2>2
<1>3. to \in S
  <2> HIDE DEF S
  <2>1. \A i \in s..to : i \in S
    BY <1>1, <1>2, Climb
  <2> QED
    BY <2>1
<1> QED
  BY <1>3

(* Replaying from where a part of the events leads is replaying them all.  *)
LEMMA Detour ==
  ASSUME NEW state, NEW events, IsSeq(events), NEW s \in 1..Len(events),
         Replayed(state, events, 0).ok
  PROVE  Replayed(Replayed(state, SubSeq(events, 1, s), 0).state, events, s)
           = Replayed(state, events, 0)
<1> DEFINE n == Len(events)
           part == SubSeq(events, 1, s)
<1>1. n \in Nat /\ s \in Nat /\ s <= n /\ 0 \in 0..n /\ s \in 0..n
  BY SeqFacts
<1>2. IsSeq(part) /\ Len(part) = s /\ 0 \in 0..Len(part)
      /\ \A k \in (0 + 1)..s : part[k] = events[k]
  <2>1. PICK S : events \in Seq(S)
    BY DEF IsSeq
  <2>2. part \in Seq(S) /\ Len(part) = s /\ \A k \in 1..s : part[k] = events[k]
    BY <1>1, <2>1, SubSeqProperties
  <2> HIDE DEF part
  <2>3. IsSeq(part)
    BY <2>2 DEF IsSeq
  <2>4. 0 \in 0..s /\ (0 + 1)..s = 1..s
    BY <1>1
  <2> QED
    BY <2>2, <2>3, <2>4
<1> HIDE DEF n, part
<1>3. PICK g : IsReplay(g, state, events, 0, n) /\ Replayed(state, events, 0) = g[n]
  BY <1>1, ReplayedIsReplay DEF n
<1>4. PICK f : IsReplay(f, state, part, 0, s) /\ Replayed(state, part, 0) = f[s]
  BY <1>2, ReplayedIsReplay
<1>5. PICK h : IsReplay(h, f[s].state, events, s, n) /\ Replayed(f[s].state, events, s) = h[n]
  BY <1>1, ReplayedIsReplay DEF n
<1> DEFINE from == 0
<1>6. /\ from \in Nat /\ from <= s /\ s \in from..n
      /\ IsReplay(g, state, events, from, n) /\ IsReplay(f, state, part, from, s)
      /\ \A k \in (from + 1)..s : part[k] = events[k]
  BY <1>1, <1>2, <1>3, <1>4
<1> HIDE DEF from
<1>7. f[s] = g[s]
  BY <1>1, <1>6, SamePrefix
<1>8. g[s].ok
  <2>1. g[n].ok
    BY <1>3 DEF n
  <2> QED
    BY <1>1, <1>6, <2>1, FailedForGood
<1>9. h[n] = g[n]
  <2>1. IsReplay(h, g[s].state, events, s, n)
    BY <1>5, <1>7
  <2> QED
    BY <1>1, <1>6, <1>8, <2>1, TakesOver
<1> QED
  BY <1>3, <1>4, <1>5, <1>9 DEF part, n

(* The checkpoints of a run pin events that it has recorded.               *)
SavedInv ==
  /\ IsSeq(saved)
  /\ \A i \in 1..Len(saved) :
       /\ saved[i] = [sequence |-> saved[i].sequence, state |-> saved[i].state,
                      damage |-> saved[i].damage]
       /\ saved[i].sequence \in 1..Len(trace)

(* They are only added to and harmed.                                      *)
LEMMA SavedKept ==
  ASSUME TraceInv, SavedInv, [Next]_vars PROVE SavedInv'
<1>0. /\ Len(trace) \in Nat /\ (trace # <<>> => Len(trace) \in 1..Len(trace))
      /\ \A e : Len(Append(trace, e)) = Len(trace) + 1
      /\ DOMAIN saved = 1..Len(saved) /\ Len(saved) \in Nat
  <2>1. PICK S : trace \in Seq(S)
    BY DEF TraceInv, IsSeq
  <2>2. \A e : Len(Append(trace, e)) = Len(trace) + 1
    BY AppendFacts DEF TraceInv
  <2> QED
    BY <2>1, <2>2, SeqFacts DEF SavedInv
<1>1. ASSUME saved' = saved, Len(trace') \in {Len(trace), Len(trace) + 1} PROVE SavedInv'
  BY <1>0, <1>1 DEF SavedInv
<1>2. ASSUME StartTrace \/ RecordRequest \/ RecordResponse \/ RecordStateChange
               \/ RecordNote \/ EndTrace
      PROVE  saved' = saved /\ \E e : trace' = Append(trace, e)
  BY <1>2 DEF StartTrace, RecordRequest, RecordResponse, RecordStateChange, RecordNote,
              EndTrace, Record, Ended
<1>3. ASSUME CutOff \/ Load \/ (HarmFiles /\ (LosePower \/ HarmLine))
      PROVE  saved' = saved /\ (trace' = trace \/ \E e : trace' = Append(trace, e))
  BY <1>3 DEF CutOff, Load, HarmFiles, LosePower, HarmLine, Ended
<1>4. ASSUME RecordCheckpoint PROVE SavedInv'
  <2>1. PICK state : saved' = Append(saved, [sequence |-> Len(trace), state |-> state,
                                             damage |-> "none"])
    BY <1>4 DEF RecordCheckpoint
  <2>2. Len(trace') = Len(trace) + 1 /\ Len(trace) \in 1..Len(trace)
    BY <1>0, <1>4 DEF RecordCheckpoint, Record, Recording
  <2> DEFINE new == [sequence |-> Len(trace), state |-> state, damage |-> "none"]
  <2>3. /\ IsSeq(saved') /\ Len(saved') = Len(saved) + 1 /\ saved'[Len(saved) + 1] = new
        /\ \A i \in 1..Len(saved) : saved'[i] = saved[i]
    BY <2>1, AppendFacts DEF SavedInv, Extends
  <2>4. new = [sequence |-> new.sequence, state |-> new.state, damage |-> new.damage]
        /\ new.sequence = Len(trace)
    OBVIOUS
  <2> HIDE DEF new
  <2>5. ASSUME NEW i \in 1..Len(saved')
        PROVE  /\ saved'[i] = [sequence |-> saved'[i].sequence, state |-> saved'[i].state,
                               damage |-> saved'[i].damage]
               /\ saved'[i].sequence \in 1..Len(trace')
    <3>1. CASE i = Len(saved) + 1
      BY <1>0, <2>2, <2>3, <2>4, <3>1
    <3>2. CASE i # Len(saved) + 1
      <4>1. i \in 1..Len(saved) /\ saved'[i] = saved[i]
        BY <1>0, <2>3, <3>2
      <4> QED
        BY <1>0, <2>2, <4>1 DEF SavedInv
    <3> QED
      BY <3>1, <3>2
  <2> QED
    BY <2>3, <2>5 DEF SavedInv
<1>5. ASSUME HarmFiles, HarmCheckpoint PROVE SavedInv'
  <2>1. PICK i \in DOMAIN saved, damage \in Damages \cap Harm :
          saved' = [saved EXCEPT ![i].damage = damage]
    BY <1>5 DEF HarmCheckpoint
  <2>2. trace' = trace
    BY <1>5 DEF HarmFiles
  <2> DEFINE new == [saved[i] EXCEPT !.damage = damage]
  <2>3. i \in 1..Len(saved) /\ saved' = [saved EXCEPT ![i] = new]
    BY <1>0, <2>1
  <2>4. new = [sequence |-> new.sequence, state |-> new.state, damage |-> new.damage]
        /\ new.sequence \in 1..Len(trace)
    <3>1. saved[i] = [sequence |-> saved[i].sequence, state |-> saved[i].state,
                      damage |-> saved[i].damage] /\ saved[i].sequence \in 1..Len(trace)
      BY <2>3 DEF SavedInv
    <3>2. new = [sequence |-> saved[i].sequence, state |-> saved[i].state, damage |-> damage]
      BY <3>1
    <3> QED
      BY <3>1, <3>2
  <2> HIDE DEF new
  <2>5. IsSeq(saved') /\ Len(saved') = Len(saved)
    <3>1. PICK S : saved \in Seq(S)
      BY DEF SavedInv, IsSeq
    <3>2. saved \in Seq(S \cup {new}) /\ new \in S \cup {new}
      BY <3>1
    <3>3. saved' \in Seq(S \cup {new}) /\ Len(saved') = Len(saved)
      BY <2>3, <3>2
    <3> QED
      BY <3>3 DEF IsSeq
  <2>6. \A k \in 1..Len(saved) : saved'[k] = IF k = i THEN new ELSE saved[k]
    BY <1>0, <2>3
  <2> QED
    BY <2>2, <2>4, <2>5, <2>6 DEF SavedInv
<1>6. ASSUME RecordSnapshot \/ UNCHANGED snapshotVars PROVE SavedInv'
  <2>1. CASE saved' = saved /\ (trace' = trace \/ \E e : trace' = Append(trace, e))
    BY <1>0, <1>1, <2>1
  <2>2. ASSUME HarmFiles PROVE SavedInv'
    <3>1. LosePower \/ HarmLine \/ HarmCheckpoint
      BY <2>2 DEF HarmFiles
    <3> QED
      BY <1>3, <1>5, <2>1, <2>2, <3>1
  <2>3. ASSUME UNCHANGED snapshotVars PROVE SavedInv'
    <3>1. saved' = saved /\ trace' = trace
      BY <2>3 DEF snapshotVars
    <3> QED
      BY <2>1, <3>1
  <2>4. ASSUME RecordSnapshot PROVE SavedInv'
    <3>1. CASE CutOff \/ Load
      <4>1. saved' = saved /\ (trace' = trace \/ \E e : trace' = Append(trace, e))
        BY <1>3, <3>1
      <4> QED
        BY <2>1, <4>1
    <3>2. CASE StartTrace \/ RecordRequest \/ RecordResponse \/ RecordStateChange
                 \/ RecordNote \/ EndTrace
      BY <1>2, <2>1, <3>2
    <3> QED
      BY <1>4, <2>2, <2>4, <3>1, <3>2 DEF RecordSnapshot
  <2> QED
    BY <1>6, <2>3, <2>4
<1> QED
  BY <1>6 DEF Next, NewRunner, RunnerStep, vars

(* Reconstruction comes to the state of the whole history, whichever       *)
(* checkpoint it can start from (reconstructState).                        *)
LEMMA Rebuilt ==
  ASSUME TraceInv, SavedInv, Events = trace,
         Replayed(EmptyState, trace, 0).ok,
         \A i \in DOMAIN saved :
           saved[i].state = Replayed(EmptyState, SubSeq(trace, 1, saved[i].sequence), 0).state
  PROVE  LET rebuilt == Reconstructed(Events, Checkpoints)
         IN rebuilt.ok /\ rebuilt.state = Replayed(EmptyState, trace, 0).state
<1> DEFINE usable == {c \in Checkpoints : UsableBase(trace, c)}
           base == CHOOSE c \in usable : \A d \in usable : d.sequence <= c.sequence
           from == IF usable = {} THEN 0 ELSE base.sequence
           start == IF usable = {} THEN EmptyState ELSE base.state
           end == Replayed(start, trace, from)
<1>1. LET rebuilt == Reconstructed(Events, Checkpoints)
      IN rebuilt.ok = end.ok /\ rebuilt.state = end.state
  BY DEF Reconstructed
<1>2. end = Replayed(EmptyState, trace, 0)
  <2>1. CASE usable = {}
    BY <2>1
  <2>2. CASE usable # {}
    <3>1. \A c \in usable : \E i \in DOMAIN saved : c = saved[i]
      BY DEF Checkpoints
    <3>2. DOMAIN saved = 1..Len(saved) /\ Len(trace) \in Nat
      BY SeqFacts DEF SavedInv, TraceInv
    <3> DEFINE positions == {c.sequence : c \in usable}
    <3>3. positions \subseteq 1..Len(trace) /\ positions # {}
      BY <2>2, <3>1, <3>2 DEF SavedInv
    <3>4. PICK m \in positions : \A j \in positions : j <= m
      <4> HIDE DEF positions
      <4> QED
        BY <3>2, <3>3, GreatestNatural
    <3>5. PICK c \in usable : c.sequence = m
      OBVIOUS
    <3>6. \A d \in usable : d.sequence <= c.sequence
      BY <3>4, <3>5
    <3>7. base \in usable
      <4> HIDE DEF usable
      <4> QED
        BY <3>6
    <3>8. PICK i \in DOMAIN saved : base = saved[i]
      BY <3>1, <3>7
    <3>9. base.sequence \in 1..Len(trace)
          /\ base.state = Replayed(EmptyState, SubSeq(trace, 1, base.sequence), 0).state
      BY <3>2, <3>8 DEF SavedInv
    <3>10. end = Replayed(base.state, trace, base.sequence)
      BY <2>2
    <3> HIDE DEF base, end
    <3> QED
      BY <3>9, <3>10, Detour DEF TraceInv
  <2> QED
    BY <2>1, <2>2
<1> QED
  BY <1>1, <1>2

(* An executable trace is rebuilt as its history was.                      *)
THEOREM ReconstructionIsHistory == Spec => []ReconstructionAgrees
<1>1. Init => TraceInv /\ SavedInv
  <2>1. ASSUME Init PROVE SavedInv
    <3>1. saved = <<>> /\ Len(<<>>) = 0 /\ <<>> \in Seq({})
      BY <2>1 DEF Init, SnapshotInit
    <3> QED
      BY <3>1 DEF SavedInv, IsSeq
  <2> QED
    BY <2>1, TraceStarts
<1>2. TraceInv /\ SavedInv /\ [Next]_vars => TraceInv' /\ SavedInv'
  BY TraceKept, SavedKept
<1>3. TraceInv /\ SavedInv => ReconstructionAgrees
  <2> SUFFICES ASSUME TraceInv, SavedInv, Executable, Replayed(EmptyState, trace, 0).ok,
                      \A i \in DOMAIN saved :
                        saved[i].state
                          = Replayed(EmptyState, SubSeq(trace, 1, saved[i].sequence), 0).state
               PROVE  LET rebuilt == Reconstructed(Events, Checkpoints)
                      IN rebuilt.ok /\ rebuilt.state = Replayed(EmptyState, trace, 0).state
    BY DEF ReconstructionAgrees
  <2>1. Events = trace
    BY ExecutableWhole
  <2> QED
    BY <2>1, Rebuilt
<1> QED
  BY <1>1, <1>2, <1>3, PTL DEF Spec

-----------------------------------------------------------------------------
(* The way back from an event to those it hangs on, over any number of     *)
(* others: what every event on it adds, up to the ones where it ends.      *)
IsGathered(f, n, events, own, ends) ==
  f = [i \in 1..n |->
         UNION {own[p] \cup (IF p \in ends THEN {} ELSE f[p]) : p \in events[i].parents}]

(* Earlier events come first, so that the gathering reaches every event.   *)
LEMMA GatheringExists ==
  ASSUME NEW n \in Nat, NEW events, \A i \in 1..n : events[i].parents \subseteq 1..(i - 1),
         NEW own, NEW ends
  PROVE  \E f : IsGathered(f, n, events, own, ends)
<1> DEFINE missed == {m \in 0..n : ~\E f : IsGathered(f, m, events, own, ends)}
<1>1. ASSUME missed # {} PROVE FALSE
  <2>1. PICK m \in missed : \A j \in missed : m <= j
    <3>1. missed \subseteq Nat
      OBVIOUS
    <3> HIDE DEF missed
    <3> QED
      BY <1>1, <3>1, LeastNatural
  <2>2. m \in 0..n /\ ~\E f : IsGathered(f, m, events, own, ends)
    OBVIOUS
  <2>3. m # 0
    <3> DEFINE none == [i \in 1..0 |-> {}]
    <3>1. IsGathered(none, 0, events, own, ends)
      BY DEF IsGathered
    <3> QED
      BY <2>2, <3>1
  <2>4. PICK f : IsGathered(f, m - 1, events, own, ends)
    BY <2>1, <2>2, <2>3
  <2> DEFINE part(h, p) == own[p] \cup (IF p \in ends THEN {} ELSE h[p])
             g == [i \in 1..m |-> IF i = m THEN UNION {part(f, p) : p \in events[m].parents}
                                  ELSE f[i]]
             h == [i \in 1..m |-> UNION {part(g, p) : p \in events[i].parents}]
  <2>5. ASSUME NEW i \in 1..m PROVE g[i] = h[i]
    <3>1. \A p \in events[i].parents : p \in 1..(m - 1) /\ p # m
      BY <2>2
    <3>2. \A p \in events[i].parents : part(g, p) = part(f, p)
      BY <3>1
    <3>3. h[i] = UNION {part(f, p) : p \in events[i].parents}
      BY <3>2
    <3>4. ASSUME i # m PROVE f[i] = UNION {part(f, p) : p \in events[i].parents}
      <4>1. i \in 1..(m - 1)
        BY <2>2, <3>4
      <4> QED
        BY <2>4, <4>1, Zenon DEF IsGathered
    <3> QED
      BY <3>3, <3>4
  <2>6. g = h
    BY <2>5
  <2> HIDE DEF g
  <2>7. IsGathered(g, m, events, own, ends)
    BY <2>6 DEF IsGathered
  <2> QED
    BY <2>2, <2>7
<1>2. n \in 0..n
  OBVIOUS
<1>3. n \notin missed
  BY <1>1
<1> QED
  BY <1>2, <1>3

(* All that an event follows, and the calls it follows most closely.       *)
IsBefore(f, n) == f = [k \in 1..n |-> UNION {{p} \cup f[p] : p \in trace[k].parents}]
NearestParts(f, p) == IF NodeCalls(trace, p) # {} THEN NodeCalls(trace, p) ELSE f[p]
IsNearestCalls(f, n) == f = [i \in 1..n |-> UNION {NearestParts(f, p) : p \in trace[i].parents}]
Nearest == CHOOSE f : IsNearestCalls(f, Len(trace))

(* The causes of an event are its parents and theirs.                      *)
LEMMA BeforeSteps ==
  ASSUME TraceInv, NEW i \in 1..Len(trace)
  PROVE  Follows(i) = UNION {{p} \cup Follows(p) : p \in trace[i].parents}
<1> DEFINE n == Len(trace)
           before == CHOOSE f : IsBefore(f, n)
<1>1. n \in Nat /\ DOMAIN trace = 1..n /\ \A k \in 1..n : trace[k].parents \subseteq 1..(k - 1)
  BY SeqFacts DEF TraceInv
<1>2. \E f : IsBefore(f, n)
  <2> DEFINE own == [p \in 1..n |-> {p}]
             ends == {p \in 1..n : FALSE}
  <2>1. PICK f : IsGathered(f, n, trace, own, ends)
    <3> HIDE DEF own, ends, n
    <3> QED
      BY <1>1, GatheringExists
  <2>2. \A k \in 1..n : \A p \in trace[k].parents :
          own[p] \cup (IF p \in ends THEN {} ELSE f[p]) = {p} \cup f[p]
    BY <1>1
  <2>3. \A k \in 1..n :
          UNION {own[p] \cup (IF p \in ends THEN {} ELSE f[p]) : p \in trace[k].parents}
            = UNION {{p} \cup f[p] : p \in trace[k].parents}
    <3> HIDE DEF own, ends
    <3> QED
      BY <2>2
  <2> HIDE DEF own, ends, n
  <2>4. IsBefore(f, n)
    BY <2>1, <2>3 DEF IsGathered, IsBefore
  <2> QED
    BY <2>4
<1>3. IsBefore(before, n)
  BY <1>2
<1>4. \A k : Follows(k) = before[k]
  BY <1>1, Zenon DEF Follows, IsBefore
<1> HIDE DEF before
<1>5. before[i] = UNION {{p} \cup before[p] : p \in trace[i].parents}
  BY <1>3 DEF IsBefore
<1> QED
  BY <1>4, <1>5

(* The nearest calls of an event are those of its parents, or theirs.      *)
LEMMA NearestSteps ==
  ASSUME TraceInv
  PROVE  /\ \A i \in 1..Len(trace) :
              Nearest[i] = UNION {NearestParts(Nearest, p) : p \in trace[i].parents}
         /\ \A c : Dependencies(trace, c)
                     = (UNION {Nearest[i] : i \in RequestsOf(trace, c)}) \ {c}
<1> DEFINE n == Len(trace)
<1>1. n \in Nat /\ DOMAIN trace = 1..n /\ \A k \in 1..n : trace[k].parents \subseteq 1..(k - 1)
  BY SeqFacts DEF TraceInv
<1>2. \E f : IsNearestCalls(f, n)
  <2> DEFINE own == [p \in 1..n |-> NodeCalls(trace, p)]
             ends == {p \in 1..n : NodeCalls(trace, p) # {}}
  <2>1. PICK f : IsGathered(f, n, trace, own, ends)
    <3> HIDE DEF own, ends, n
    <3> QED
      BY <1>1, GatheringExists
  <2>2. \A k \in 1..n : \A p \in trace[k].parents :
          own[p] \cup (IF p \in ends THEN {} ELSE f[p]) = NearestParts(f, p)
    BY <1>1 DEF NearestParts
  <2>3. \A k \in 1..n :
          UNION {own[p] \cup (IF p \in ends THEN {} ELSE f[p]) : p \in trace[k].parents}
            = UNION {NearestParts(f, p) : p \in trace[k].parents}
    <3> HIDE DEF own, ends
    <3> QED
      BY <2>2
  <2> HIDE DEF own, ends, n
  <2>4. IsNearestCalls(f, n)
    BY <2>1, <2>3 DEF IsGathered, IsNearestCalls
  <2> QED
    BY <2>4
<1>3. IsNearestCalls(Nearest, n)
  BY <1>2 DEF Nearest
<1>4. \A c : Dependencies(trace, c) = (UNION {Nearest[i] : i \in RequestsOf(trace, c)}) \ {c}
  BY <1>1, Zenon DEF Dependencies, Nearest, IsNearestCalls, NearestParts
<1>5. \A i \in 1..n : Nearest[i] = UNION {NearestParts(Nearest, p) : p \in trace[i].parents}
  BY <1>3 DEF IsNearestCalls
<1> QED
  BY <1>4, <1>5

(* Causality goes back in time, and on from each event it reaches.         *)
LEMMA FollowsFacts ==
  ASSUME TraceInv
  PROVE  \A i \in 1..Len(trace) :
           /\ \A p \in trace[i].parents : p \in Follows(i) /\ Follows(p) \subseteq Follows(i)
           /\ \A q \in Follows(i) : q \in 1..(i - 1) /\ Follows(q) \subseteq Follows(i)
<1> DEFINE n == Len(trace)
           bad == {i \in 1..n : \E q \in Follows(i) :
                                  ~(q \in 1..(i - 1) /\ Follows(q) \subseteq Follows(i))}
<1>1. n \in Nat /\ \A k \in 1..n : trace[k].parents \subseteq 1..(k - 1)
  BY SeqFacts DEF TraceInv
<1>2. \A i \in 1..n : Follows(i) = UNION {{p} \cup Follows(p) : p \in trace[i].parents}
  BY BeforeSteps
<1>3. ASSUME bad # {} PROVE FALSE
  <2>1. PICK m \in bad : \A j \in bad : m <= j
    <3>1. bad \subseteq Nat
      OBVIOUS
    <3> HIDE DEF bad
    <3> QED
      BY <1>3, <3>1, LeastNatural
  <2>2. PICK q \in Follows(m) : ~(q \in 1..(m - 1) /\ Follows(q) \subseteq Follows(m))
    OBVIOUS
  <2>3. PICK p \in trace[m].parents : q \in {p} \cup Follows(p)
    BY <1>2, <2>2
  <2>4. p \in 1..(m - 1) /\ p \in 1..n /\ Follows(p) \subseteq Follows(m)
    BY <1>1, <1>2
  <2>5. p \notin bad
    BY <2>1, <2>4
  <2>6. q # p => q \in 1..(p - 1) /\ Follows(q) \subseteq Follows(p)
    BY <2>3, <2>4, <2>5
  <2> QED
    BY <2>2, <2>4, <2>6
<1>4. \A i \in 1..n : i \notin bad
  BY <1>3
<1>5. \A i \in 1..n : \A q \in Follows(i) : q \in 1..(i - 1) /\ Follows(q) \subseteq Follows(i)
  BY <1>4
<1>6. \A i \in 1..n : \A p \in trace[i].parents :
        p \in Follows(i) /\ Follows(p) \subseteq Follows(i)
  BY <1>2
<1> QED
  BY <1>5, <1>6

(* A response hangs on its request, whatever else is recorded meanwhile.   *)
AnswersInv ==
  \A i \in 1..Len(trace) : Responded(trace[i]) =>
    \E r \in 1..(i - 1) : /\ trace[i].parents = {r} /\ Requested(trace[r])
                          /\ SameCall(trace[r], trace[i])

(* It stays so when an event is added that is no response or hangs on its  *)
(* request.                                                                *)
LEMMA AnswerAdded ==
  ASSUME TraceInv, AnswersInv, NEW e, trace' = Append(trace, e),
         Responded(e) => \E r \in 1..Len(trace) : /\ e.parents = {r} /\ Requested(trace[r])
                                                  /\ SameCall(trace[r], e)
  PROVE  AnswersInv'
<1>1. /\ Len(trace) \in Nat /\ Len(trace') = Len(trace) + 1 /\ trace'[Len(trace) + 1] = e
      /\ \A i \in 1..Len(trace) : trace'[i] = trace[i]
  BY SeqFacts, AppendFacts DEF TraceInv, Extends
<1>2. ASSUME NEW i \in 1..Len(trace'), Responded(trace'[i])
      PROVE  \E r \in 1..(i - 1) : /\ trace'[i].parents = {r} /\ Requested(trace'[r])
                                   /\ SameCall(trace'[r], trace'[i])
  <2>1. CASE i \in 1..Len(trace)
    BY <1>1, <1>2, <2>1 DEF AnswersInv
  <2>2. CASE i = Len(trace) + 1
    BY <1>1, <1>2, <2>2
  <2> QED
    BY <1>1, <2>1, <2>2
<1> QED
  BY <1>2 DEF AnswersInv

(* So it stays whatever is recorded, and nothing that is recorded changes. *)
LEMMA AnswersKept ==
  ASSUME TraceInv, AnswersInv, [Next]_vars PROVE AnswersInv'
<1>1. ASSUME trace' = trace PROVE AnswersInv'
  BY <1>1 DEF AnswersInv
<1>2. ASSUME NEW type, NEW parents, ~(type \in {"completed", "failed"}),
             trace' = Append(trace, RunEvent(type, parents))
      PROVE  AnswersInv'
  <2>1. ~Responded(RunEvent(type, parents))
    BY <1>2 DEF Responded, RunEvent
  <2> QED
    BY <1>2, <2>1, AnswerAdded
<1>3. ASSUME StartTrace \/ RecordNote \/ RecordCheckpoint \/ EndTrace \/ CutOff PROVE AnswersInv'
  <2>1. \/ trace' = trace
        \/ trace' = Append(trace, RunEvent("run.started", {}))
        \/ trace' = Append(trace, RunEvent("log.note", {Len(trace)}))
        \/ trace' = Append(trace, RunEvent("checkpoint.created", {Len(trace)}))
        \/ trace' = Append(trace, RunEvent("run.completed", {Len(trace)}))
    BY <1>3 DEF StartTrace, RecordNote, RecordCheckpoint, EndTrace, CutOff, Record, Ended
  <2> QED
    BY <1>1, <1>2, <2>1
<1>4. ASSUME RecordRequest PROVE AnswersInv'
  <2>1. PICK call, parent : trace' = Append(trace, CallEvent("requested", call, "input", {parent}))
    BY <1>4 DEF RecordRequest, Record
  <2>2. ~Responded(CallEvent("requested", call, "input", {parent}))
    BY DEF Responded, CallEvent
  <2> QED
    BY <2>1, <2>2, AnswerAdded
<1>5. ASSUME RecordStateChange PROVE AnswersInv'
  <2>1. PICK change :
          trace' = Append(trace, StateEvent(change[1], <<ChangedPath>>, change[2], {Len(trace)}))
    BY <1>5 DEF RecordStateChange, Record
  <2>2. ~Responded(StateEvent(change[1], <<ChangedPath>>, change[2], {Len(trace)}))
    BY DEF Responded, StateEvent
  <2> QED
    BY <2>1, <2>2, AnswerAdded
<1>6. ASSUME RecordResponse PROVE AnswersInv'
  <2>1. PICK r, call, value :
          /\ r \in DOMAIN trace /\ Requested(trace[r]) /\ SameCall(trace[r], call)
          /\ trace' = Append(trace, CallEvent(IF value \in Outputs THEN "completed" ELSE "failed",
                                              call, value, {r}))
    BY <1>6 DEF RecordResponse, Record
  <2> DEFINE e == CallEvent(IF value \in Outputs THEN "completed" ELSE "failed", call, value, {r})
  <2>2. e.parents = {r} /\ SameCall(trace[r], e)
    BY <2>1 DEF CallEvent, SameCall
  <2>3. r \in 1..Len(trace)
    BY <2>1, SeqFacts DEF TraceInv
  <2> QED
    BY <2>1, <2>2, <2>3, AnswerAdded
<1>7. ASSUME RecordSnapshot PROVE AnswersInv'
  BY <1>1, <1>3, <1>4, <1>5, <1>6, <1>7 DEF RecordSnapshot, HarmFiles, Load
<1> QED
  BY <1>1, <1>7 DEF Next, NewRunner, RunnerStep, vars, snapshotVars

(* Whose event an event is.                                                *)
LEMMA NodeFacts ==
  ASSUME TraceInv, AnswersInv
  PROVE  /\ DOMAIN trace = 1..Len(trace)
         /\ \A c : RequestsOf(trace, c) \subseteq 1..Len(trace)
         /\ \A c, d \in Calls : \A p :
              p \in RequestsOf(trace, c) /\ p \in RequestsOf(trace, d) => c = d
         /\ \A p, c : c \in NodeCalls(trace, p) <=>
              c \in Grouped(trace) /\ p \in RequestsOf(trace, c) \cup ResponsesOf(trace, c)
         /\ \A c \in Grouped(trace) : \A p \in ResponsesOf(trace, c) :
              \E r \in RequestsOf(trace, c) : p \in 1..Len(trace) /\ trace[p].parents = {r}
         /\ \A c \in Grouped(trace) :
              c \in Calls /\ \A r \in RequestsOf(trace, c) : NodeCalls(trace, r) = {c}
<1>1. DOMAIN trace = 1..Len(trace) /\ \A c : RequestsOf(trace, c) \subseteq 1..Len(trace)
  BY SeqFacts DEF TraceInv, RequestsOf
<1>2. ASSUME NEW c \in Calls, NEW d \in Calls, NEW p, SameCall(trace[p], c), SameCall(trace[p], d)
      PROVE  c = d
  BY <1>2, CallsAssumption DEF SameCall
<1>3. \A p, c : c \in NodeCalls(trace, p) <=>
        c \in Grouped(trace) /\ p \in RequestsOf(trace, c) \cup ResponsesOf(trace, c)
  BY DEF NodeCalls
<1>4. \A c \in Grouped(trace) : c \in Calls
  BY DEF Grouped
<1>5. \A c, p : p \in RequestsOf(trace, c) \cup ResponsesOf(trace, c) => SameCall(trace[p], c)
  BY DEF RequestsOf, ResponsesOf
<1>6. ASSUME NEW c \in Grouped(trace), NEW p \in ResponsesOf(trace, c)
      PROVE  \E r \in RequestsOf(trace, c) : p \in 1..Len(trace) /\ trace[p].parents = {r}
  <2>1. p \in 1..Len(trace) /\ Responded(trace[p]) /\ SameCall(trace[p], c)
    BY <1>1 DEF ResponsesOf
  <2>2. PICK r \in 1..(p - 1) : /\ trace[p].parents = {r} /\ Requested(trace[r])
                                /\ SameCall(trace[r], trace[p])
    BY <2>1 DEF AnswersInv
  <2>3. r \in DOMAIN trace /\ SameCall(trace[r], c)
    <3>1. r \in 1..Len(trace)
      BY <2>1, SeqFacts DEF TraceInv
    <3> QED
      BY <1>1, <2>1, <2>2, <3>1 DEF SameCall
  <2> QED
    BY <2>1, <2>2, <2>3 DEF RequestsOf
<1>7. \A c \in Grouped(trace) : \A r \in RequestsOf(trace, c) : NodeCalls(trace, r) = {c}
  BY <1>2, <1>3, <1>4, <1>5
<1>8. \A c, d \in Calls : \A p : p \in RequestsOf(trace, c) /\ p \in RequestsOf(trace, d) => c = d
  BY <1>2, <1>5
<1> QED
  BY <1>1, <1>3, <1>4, <1>6, <1>7, <1>8

(* Sets of nodes that wait for no other node, and those of calls that      *)
(* follow no other call.                                                   *)
Closed(S) == \A c \in S : Dependencies(trace, c) \subseteq S
Causal(S) == \A c \in S : Preceding(c) \subseteq S

(* The nearest calls lie on the way back.                                  *)
LEMMA NearestFollowed ==
  ASSUME TraceInv, NEW i \in 1..Len(trace), NEW c \in Nearest[i]
  PROVE  \E p \in Follows(i) : c \in NodeCalls(trace, p)
<1> DEFINE n == Len(trace)
           bad == {j \in 1..n : \E d \in Nearest[j] :
                                  ~\E p \in Follows(j) : d \in NodeCalls(trace, p)}
<1>1. n \in Nat /\ \A k \in 1..n : trace[k].parents \subseteq 1..(k - 1)
  BY SeqFacts DEF TraceInv
<1>2. ASSUME bad # {} PROVE FALSE
  <2>1. PICK m \in bad : \A j \in bad : m <= j
    <3>1. bad \subseteq Nat
      OBVIOUS
    <3> HIDE DEF bad
    <3> QED
      BY <1>2, <3>1, LeastNatural
  <2>2. PICK d \in Nearest[m] : ~\E p \in Follows(m) : d \in NodeCalls(trace, p)
    OBVIOUS
  <2>3. PICK p \in trace[m].parents : d \in NearestParts(Nearest, p)
    BY <2>2, NearestSteps
  <2>4. p \in 1..n /\ p < m /\ p \in Follows(m) /\ Follows(p) \subseteq Follows(m)
    BY <1>1, <2>3, FollowsFacts
  <2>5. p \notin bad
    BY <2>1, <2>4
  <2>6. d \notin NodeCalls(trace, p) /\ d \in Nearest[p]
    BY <2>2, <2>3, <2>4 DEF NearestParts
  <2> QED
    BY <2>2, <2>4, <2>5, <2>6
<1> QED
  BY <1>2

(* A node depends on calls that its requests follow.                       *)
LEMMA DependenciesPrecede ==
  ASSUME TraceInv, AnswersInv, NEW c \in Grouped(trace)
  PROVE  Dependencies(trace, c) \subseteq Preceding(c)
<1> SUFFICES ASSUME NEW d \in Dependencies(trace, c) PROVE d \in Preceding(c)
  OBVIOUS
<1>1. PICK i \in RequestsOf(trace, c) : d \in Nearest[i]
  BY NearestSteps
<1>2. d # c /\ i \in 1..Len(trace)
  BY NearestSteps, NodeFacts
<1>3. PICK p \in Follows(i) : d \in NodeCalls(trace, p)
  BY <1>1, <1>2, NearestFollowed
<1>4. d \in Grouped(trace) /\ p \in RequestsOf(trace, d) \cup ResponsesOf(trace, d)
  BY <1>3, NodeFacts
<1>5. \E r \in RequestsOf(trace, d) : r \in Follows(i)
  <2>1. CASE p \in RequestsOf(trace, d)
    BY <1>3, <2>1
  <2>2. CASE p \in ResponsesOf(trace, d)
    <3>1. PICK r \in RequestsOf(trace, d) : p \in 1..Len(trace) /\ trace[p].parents = {r}
      BY <1>4, <2>2, NodeFacts
    <3>2. r \in Follows(p) /\ Follows(p) \subseteq Follows(i)
      BY <1>2, <1>3, <3>1, FollowsFacts
    <3> QED
      BY <3>2
  <2> QED
    BY <1>4, <2>1, <2>2
<1> QED
  BY <1>2, <1>4, <1>5 DEF Preceding

(* From an event whose nearest calls lie in a closed set, the way back     *)
(* never leaves it: it goes on from an event of one of its calls either    *)
(* through what that call depends on, or through the call's own request.   *)
LEMMA ClosedBehind ==
  ASSUME TraceInv, AnswersInv, NEW S, S \subseteq Grouped(trace), Closed(S),
         NEW i \in 1..Len(trace), Nearest[i] \subseteq S, NEW q \in Follows(i)
  PROVE  NodeCalls(trace, q) \subseteq S
<1> DEFINE n == Len(trace)
           bad == {j \in 1..n : Nearest[j] \subseteq S /\
                                \E p \in Follows(j) : ~(NodeCalls(trace, p) \subseteq S)}
<1>1. n \in Nat /\ \A k \in 1..n : trace[k].parents \subseteq 1..(k - 1)
  BY SeqFacts DEF TraceInv
<1>2. ASSUME bad # {} PROVE FALSE
  <2>1. PICK m \in bad : \A j \in bad : m <= j
    <3>1. bad \subseteq Nat
      OBVIOUS
    <3> HIDE DEF bad
    <3> QED
      BY <1>2, <3>1, LeastNatural
  <2>2. m \in 1..n /\ Nearest[m] \subseteq S
    OBVIOUS
  <2>3. PICK r \in Follows(m) : ~(NodeCalls(trace, r) \subseteq S)
    OBVIOUS
  <2>4. PICK p \in trace[m].parents : r \in {p} \cup Follows(p)
    BY <2>2, <2>3, BeforeSteps
  <2>5. p \in 1..n /\ p < m /\ NearestParts(Nearest, p) \subseteq S
    BY <1>1, <2>2, <2>4, NearestSteps
  <2>6. NodeCalls(trace, p) \subseteq S
    BY <2>5 DEF NearestParts
  <2>7. Nearest[p] \subseteq S
    <3>1. CASE NodeCalls(trace, p) = {}
      BY <2>5, <3>1 DEF NearestParts
    <3>2. CASE NodeCalls(trace, p) # {}
      <4>1. PICK c \in NodeCalls(trace, p) : TRUE
        BY <3>2
      <4>2. /\ c \in S /\ c \in Grouped(trace)
            /\ p \in RequestsOf(trace, c) \cup ResponsesOf(trace, c)
        BY <2>6, <4>1, NodeFacts
      <4>3. CASE p \in RequestsOf(trace, c)
        <5>1. Nearest[p] \subseteq Dependencies(trace, c) \cup {c}
          BY <4>3, NearestSteps
        <5> QED
          BY <4>2, <5>1 DEF Closed
      <4>4. CASE p \in ResponsesOf(trace, c)
        <5>1. PICK s \in RequestsOf(trace, c) : trace[p].parents = {s}
          BY <4>2, <4>4, NodeFacts
        <5>2. NodeCalls(trace, s) = {c}
          BY <4>2, <5>1, NodeFacts
        <5>3. NearestParts(Nearest, s) = {c}
          BY <5>2 DEF NearestParts
        <5>4. Nearest[p] = UNION {NearestParts(Nearest, r1) : r1 \in {s}}
          BY <2>5, <5>1, NearestSteps
        <5> QED
          BY <4>2, <5>3, <5>4
      <4> QED
        BY <4>2, <4>3, <4>4
    <3> QED
      BY <3>1, <3>2
  <2>8. p \notin bad
    BY <2>1, <2>2, <2>5
  <2> QED
    BY <2>3, <2>4, <2>5, <2>6, <2>7, <2>8
<1> QED
  BY <1>2

(* So the same sets are closed and causal.                                 *)
LEMMA ClosedIsCausal ==
  ASSUME TraceInv, AnswersInv, NEW S, S \subseteq Grouped(trace)
  PROVE  Closed(S) <=> Causal(S)
<1>1. ASSUME Causal(S) PROVE Closed(S)
  BY <1>1, DependenciesPrecede DEF Closed, Causal
<1>2. ASSUME Closed(S), NEW c \in S, NEW d \in Preceding(c) PROVE d \in S
  <2>1. d \in Grouped(trace) /\ \E i \in RequestsOf(trace, c) :
          RequestsOf(trace, d) \cap Follows(i) # {}
    BY DEF Preceding
  <2>2. PICK i \in RequestsOf(trace, c) : RequestsOf(trace, d) \cap Follows(i) # {}
    BY <2>1
  <2>3. PICK q \in Follows(i) : q \in RequestsOf(trace, d)
    BY <2>2
  <2>4. Nearest[i] \subseteq Dependencies(trace, c) \cup {c} /\ i \in 1..Len(trace)
    BY <2>2, NearestSteps, NodeFacts
  <2>5. Nearest[i] \subseteq S
    BY <1>2, <2>4 DEF Closed
  <2>6. NodeCalls(trace, q) \subseteq S
    BY <1>2, <2>3, <2>4, <2>5, ClosedBehind
  <2> QED
    BY <2>1, <2>3, <2>6, NodeFacts
<1> QED
  BY <1>1, <1>2 DEF Causal

(* Calls follow one another round exactly if nodes depend on one another   *)
(* so: whatever waits, in however many steps, for a call of the round is   *)
(* itself waited for by such a one.                                        *)
LEMMA SameRounds ==
  ASSUME TraceInv, AnswersInv
  PROVE  (\A S \in SUBSET Grouped(trace) :
            S # {} => \E c \in S : Dependencies(trace, c) \cap S = {})
         <=> (\A S \in SUBSET Grouped(trace) : S # {} => \E c \in S : Preceding(c) \cap S = {})
<1> DEFINE nodes == Grouped(trace)
<1>1. \A c \in nodes : Dependencies(trace, c) \subseteq Preceding(c)
  BY DependenciesPrecede
<1>2. \A c \in nodes : c \notin Preceding(c) /\ Preceding(c) \subseteq nodes
  BY DEF Preceding
<1>3. \A Z \in SUBSET nodes : Closed(Z) => Causal(Z)
  BY ClosedIsCausal
<1>4. ASSUME \A S \in SUBSET nodes : S # {} => \E c \in S : Dependencies(trace, c) \cap S = {},
             NEW S \in SUBSET nodes, S # {}, \A c \in S : Preceding(c) \cap S # {}
      PROVE  FALSE
  <2> DEFINE Meets(c) == \A Z \in SUBSET nodes :
                           Closed(Z) /\ Dependencies(trace, c) \subseteq Z => Z \cap S # {}
             waiting == {c \in nodes : Meets(c)}
             rest == nodes \ waiting
  <2>1. ASSUME NEW c \in S, NEW Z \in SUBSET nodes, Closed(Z), Dependencies(trace, c) \subseteq Z
        PROVE  Z \cap S # {}
    <3>1. Closed(Z \cup {c})
      BY <2>1 DEF Closed
    <3>2. Preceding(c) \subseteq Z \cup {c}
      BY <1>3, <3>1 DEF Causal
    <3>3. PICK d \in Preceding(c) : d \in S
      BY <1>4
    <3> QED
      BY <1>2, <3>2, <3>3
  <2>2. S \subseteq waiting
    BY <2>1
  <2>3. PICK e \in waiting : Dependencies(trace, e) \cap waiting = {}
    <3>1. waiting \in SUBSET nodes /\ waiting # {}
      BY <1>4, <2>2
    <3> HIDE DEF waiting
    <3> QED
      BY <1>4, <3>1
  <2>4. ASSUME NEW f \in rest, NEW g \in Dependencies(trace, f) PROVE g \in rest
    <3>1. PICK Z \in SUBSET nodes :
            Closed(Z) /\ Dependencies(trace, f) \subseteq Z /\ Z \cap S = {}
      OBVIOUS
    <3>2. g \in Z /\ Dependencies(trace, g) \subseteq Z /\ g \in nodes
      BY <3>1 DEF Closed
    <3> QED
      BY <3>1, <3>2
  <2>5. Closed(rest) /\ rest \in SUBSET nodes
    BY <2>4 DEF Closed
  <2>6. Dependencies(trace, e) \subseteq rest
    BY <1>1, <1>2, <2>3
  <2>7. rest \cap S # {}
    BY <2>5, <2>6
  <2> QED
    BY <2>2, <2>7
<1>5. ASSUME \A S \in SUBSET nodes : S # {} => \E c \in S : Preceding(c) \cap S = {}
      PROVE  \A S \in SUBSET nodes : S # {} => \E c \in S : Dependencies(trace, c) \cap S = {}
  BY <1>1, <1>5
<1> QED
  BY <1>4, <1>5

(* The place of one among things that are numbered.                        *)
Place(S, f, c) == Cardinality({d \in S : f[d] <= f[c]})

(* Numbered apart, every one has a place of its own, from one to how many  *)
(* there are.                                                              *)
LEMMA Ranked ==
  ASSUME NEW S, NEW n \in Nat, NEW f \in [S -> 1..n], \A c, d \in S : f[c] = f[d] => c = d
  PROVE  /\ IsFiniteSet(S) /\ Cardinality(S) \in Nat
         /\ \A c \in S : Place(S, f, c) \in 1..Cardinality(S)
         /\ \A c, d \in S : f[c] < f[d] => Place(S, f, c) < Place(S, f, d)
         /\ \A c, d \in S : Place(S, f, c) = Place(S, f, d) => c = d
         /\ \A k \in 1..Cardinality(S) : \E c \in S : Place(S, f, c) = k
<1> DEFINE low(c) == {d \in S : f[d] <= f[c]}
           m == Cardinality(S)
           rank == [c \in S |-> Cardinality(low(c))]
<1>1. IsFiniteSet(S) /\ m \in Nat
  <2>1. f \in Injection(S, 1..n)
    BY DEF Injection, IsInjective
  <2>2. IsFiniteSet(1..n)
    BY FS_Interval
  <2>3. IsFiniteSet(S)
    BY <2>1, <2>2, FS_Injection
  <2> QED
    BY <2>3, FS_CardinalityType
<1>2. ASSUME NEW c \in S
      PROVE  IsFiniteSet(low(c)) /\ Cardinality(low(c)) \in 1..m
  <2>1. IsFiniteSet(low(c)) /\ Cardinality(low(c)) <= m
    BY <1>1, FS_Subset
  <2>2. Cardinality(low(c)) \in Nat
    BY <2>1, FS_CardinalityType
  <2>3. Cardinality(low(c)) # 0
    <3>1. c \in low(c)
      OBVIOUS
    <3> HIDE DEF low
    <3> QED
      BY <2>1, <3>1, FS_EmptySet
  <2> QED
    BY <1>1, <2>1, <2>2, <2>3
<1>3. ASSUME NEW c \in S, NEW d \in S, f[c] < f[d]
      PROVE  Cardinality(low(c)) < Cardinality(low(d))
  <2>1. low(c) \in SUBSET low(d) /\ d \in low(d) /\ d \notin low(c)
    BY <1>3
  <2> HIDE DEF low
  <2>2. Cardinality(low(c)) <= Cardinality(low(d)) /\ Cardinality(low(c)) # Cardinality(low(d))
    BY <1>2, <2>1, FS_Subset
  <2> QED
    BY <1>2, <2>2
<1>4. ASSUME NEW c \in S, NEW d \in S, Cardinality(low(c)) = Cardinality(low(d)) PROVE c = d
  <2>1. Cardinality(low(c)) \in Int
    BY <1>2
  <2>2. ~(f[c] < f[d]) /\ ~(f[d] < f[c])
    BY <1>3, <1>4, <2>1
  <2>3. f[c] \in 1..n /\ f[d] \in 1..n
    OBVIOUS
  <2> QED
    BY <2>2, <2>3
<1>5. rank \in Injection(S, 1..m)
  <2> HIDE DEF low, m
  <2>1. rank \in [S -> 1..m]
    BY <1>2
  <2> QED
    BY <1>4, <2>1 DEF Injection, IsInjective
<1>6. IsFiniteSet(1..m) /\ Cardinality(1..m) = m
  BY <1>1, FS_Interval
<1>7. rank \in Surjection(S, 1..m)
  <2> HIDE DEF rank, low
  <2> QED
    BY <1>5, <1>6, FS_Injection
<1>8. \A k \in 1..m : \E c \in S : rank[c] = k
  <2> HIDE DEF rank, low, m
  <2> QED
    BY <1>7 DEF Surjection
<1>9. \A c : Place(S, f, c) = Cardinality(low(c))
  BY DEF Place
<1> QED
  <2> HIDE DEF low
  <2> QED
    BY <1>1, <1>2, <1>3, <1>4, <1>8, <1>9

(* The calls are numbered in the order of their first requests.            *)
LEMMA CallsNumbered ==
  ASSUME TraceInv, AnswersInv
  PROVE  LET nodes == Grouped(trace) IN
         /\ IsFiniteSet(nodes) /\ Cardinality(nodes) \in Nat
         /\ \A c \in nodes : /\ FirstRequest(trace, c) \in RequestsOf(trace, c)
                             /\ \A i \in RequestsOf(trace, c) : FirstRequest(trace, c) <= i
                             /\ Index(trace, c) \in 1..Cardinality(nodes)
                             /\ CallAt(trace, Index(trace, c)) = c
         /\ \A c, d \in nodes : /\ FirstRequest(trace, c) < FirstRequest(trace, d)
                                     => Index(trace, c) < Index(trace, d)
                                /\ Index(trace, c) = Index(trace, d) => c = d
         /\ \A k \in 1..Cardinality(nodes) :
              CallAt(trace, k) \in nodes /\ Index(trace, CallAt(trace, k)) = k
<1> DEFINE nodes == Grouped(trace)
           n == Len(trace)
           first == [c \in nodes |-> FirstRequest(trace, c)]
<1>1. n \in Nat
  BY SeqFacts DEF TraceInv
<1>2. ASSUME NEW c \in nodes
      PROVE  /\ FirstRequest(trace, c) \in RequestsOf(trace, c)
             /\ \A i \in RequestsOf(trace, c) : FirstRequest(trace, c) <= i
             /\ FirstRequest(trace, c) \in 1..n
  <2>1. RequestsOf(trace, c) \subseteq 1..n /\ RequestsOf(trace, c) # {}
    BY NodeFacts DEF Grouped
  <2>2. \E i \in RequestsOf(trace, c) : \A j \in RequestsOf(trace, c) : i <= j
    BY <2>1, LeastNatural
  <2> QED
    BY <2>1, <2>2 DEF FirstRequest
<1>3. first \in [nodes -> 1..n] /\ \A c, d \in nodes : first[c] = first[d] => c = d
  BY <1>2, NodeFacts
<1>4. \A c \in nodes : Index(trace, c) = Place(nodes, first, c)
  <2>1. \A c \in nodes : {d \in nodes : FirstRequest(trace, d) <= FirstRequest(trace, c)}
                           = {d \in nodes : first[d] <= first[c]}
    OBVIOUS
  <2> HIDE DEF first
  <2> QED
    BY <2>1 DEF Index, Place
<1>5. \A c \in nodes : first[c] = FirstRequest(trace, c)
  OBVIOUS
<1> HIDE DEF first, nodes, n
<1>6. /\ IsFiniteSet(nodes) /\ Cardinality(nodes) \in Nat
      /\ \A c \in nodes : Place(nodes, first, c) \in 1..Cardinality(nodes)
      /\ \A c, d \in nodes : first[c] < first[d] => Place(nodes, first, c) < Place(nodes, first, d)
      /\ \A c, d \in nodes : Place(nodes, first, c) = Place(nodes, first, d) => c = d
      /\ \A k \in 1..Cardinality(nodes) : \E c \in nodes : Place(nodes, first, c) = k
  BY <1>1, <1>3, Ranked
<1>7. /\ \A c \in nodes : Index(trace, c) \in 1..Cardinality(nodes)
      /\ \A c, d \in nodes : first[c] < first[d] => Index(trace, c) < Index(trace, d)
      /\ \A c, d \in nodes : Index(trace, c) = Index(trace, d) => c = d
      /\ \A k \in 1..Cardinality(nodes) : \E c \in nodes : Index(trace, c) = k
  BY <1>4, <1>6
<1>8. \A c \in nodes : CallAt(trace, Index(trace, c)) = c
  BY <1>7 DEF CallAt, nodes
<1>9. \A k \in 1..Cardinality(nodes) :
         CallAt(trace, k) \in nodes /\ Index(trace, CallAt(trace, k)) = k
  BY <1>7 DEF CallAt, nodes
<1> QED
  BY <1>2, <1>5, <1>6, <1>7, <1>8, <1>9 DEF nodes

(* A node's list of dependencies lists them all.                           *)
LEMMA EveryDependencyListed ==
  ASSUME TraceInv, AnswersInv, NEW c \in Grouped(trace)
  PROVE  LET deps == SortedDependencies(trace, c) IN
         {deps[d].of : d \in DOMAIN deps} = {e.key[1] : e \in Dependencies(trace, c)}
<1> DEFINE nodes == Grouped(trace)
           size == Cardinality(nodes)
           all == Dependencies(trace, c)
           place(e) == Cardinality({d \in all : SortsBefore(trace, d, e)})
           at(k) == CHOOSE e \in all : place(e) = k
           num == [e \in all |-> IF e.kind = "model" THEN Index(trace, e)
                                 ELSE size + Index(trace, e)]
<1>1. size \in Nat /\ all \subseteq nodes /\ \A e \in nodes : Index(trace, e) \in 1..size
  BY CallsNumbered, DependenciesPrecede DEF Preceding
<1>2. \A d, e \in nodes : Index(trace, d) = Index(trace, e) => d = e
  BY CallsNumbered
<1>3. \A e \in nodes : e.kind \in {"model", "tool"}
  BY CallsAssumption DEF Grouped
<1> HIDE DEF all, size, nodes
<1>4. num \in [all -> 1..(size + size)]
  BY <1>1
<1>5. \A d, e \in all : num[d] = num[e] => d = e
  BY <1>1, <1>2, <1>3
<1>6. \A d, e \in all : SortsBefore(trace, d, e) <=> num[d] <= num[e]
  BY <1>1, <1>3 DEF SortsBefore
<1>7. \A e \in all : place(e) = Place(all, num, e)
  <2>1. \A e \in all : {d \in all : SortsBefore(trace, d, e)} = {d \in all : num[d] <= num[e]}
    BY <1>6
  <2> HIDE DEF num
  <2> QED
    BY <2>1 DEF Place
<1> HIDE DEF num, place
<1>8. /\ Cardinality(all) \in Nat
      /\ \A e \in all : place(e) \in 1..Cardinality(all)
      /\ \A d, e \in all : place(d) = place(e) => d = e
      /\ \A k \in 1..Cardinality(all) : \E e \in all : place(e) = k
  <2>1. size + size \in Nat
    BY <1>1
  <2>2. /\ Cardinality(all) \in Nat
        /\ \A e \in all : Place(all, num, e) \in 1..Cardinality(all)
        /\ \A d, e \in all : Place(all, num, d) = Place(all, num, e) => d = e
        /\ \A k \in 1..Cardinality(all) : \E e \in all : Place(all, num, e) = k
    BY <1>4, <1>5, <2>1, Ranked
  <2> QED
    BY <1>7, <2>2
<1>9. /\ \A k \in 1..Cardinality(all) : at(k) \in all
      /\ \A e \in all : at(place(e)) = e
  BY <1>8
<1>10. SortedDependencies(trace, c)
         = [k \in 1..Cardinality(all) |-> [of |-> at(k).key[1], on |-> "success"]]
  BY Zenon DEF SortedDependencies, all, place
<1> HIDE DEF at
<1> DEFINE deps == SortedDependencies(trace, c)
<1>11. DOMAIN deps = 1..Cardinality(all) /\ \A k \in 1..Cardinality(all) : deps[k].of = at(k).key[1]
  BY <1>10
<1> HIDE DEF deps
<1>12. {deps[d].of : d \in DOMAIN deps} = {e.key[1] : e \in all}
  BY <1>8, <1>9, <1>11
<1> QED
  BY <1>12 DEF deps, all

(* A node is known by its call's key, so that the document is valid unless *)
(* nodes depend on one another round.                                      *)
LEMMA GeneratedValid ==
  ASSUME TraceInv, AnswersInv, Grouped(trace) # {}
  PROVE  ValidWorkflow(Generated(trace)) <=>
           \A S \in SUBSET Grouped(trace) :
             S # {} => \E c \in S : Dependencies(trace, c) \cap S = {}
<1> DEFINE nodes == Grouped(trace)
           size == Cardinality(nodes)
           name(c) == c.key[1]
           deps(c) == Dependencies(trace, c)
           w == Generated(trace)
           at(k) == CallAt(trace, k)
<1>1. /\ size \in Nat /\ size # 0
      /\ \A k \in 1..size : at(k) \in nodes /\ Index(trace, at(k)) = k
      /\ \A c \in nodes : Index(trace, c) \in 1..size /\ at(Index(trace, c)) = c
  <2>1. size # 0
    BY CallsNumbered, FS_EmptySet
  <2> QED
    BY <2>1, CallsNumbered
<1>2. \A c, d \in nodes : name(c) = name(d) => c = d
  <2>1. \A c \in nodes : c \in Calls
    BY DEF Grouped
  <2>2. \A c \in Calls : c.key \in Seq(STRING) /\ Len(c.key) = 1
    BY CallsAssumption
  <2>3. ASSUME NEW c \in Calls, NEW d \in Calls, c.key[1] = d.key[1] PROVE c.key = d.key
    BY <2>2, <2>3
  <2> QED
    BY <2>1, <2>3, NamesAssumption
<1>3. /\ DOMAIN w.nodes = 1..size /\ w.outputs = {name(at(size))}
      /\ \A k \in 1..size : /\ w.nodes[k].id = name(at(k)) /\ w.nodes[k].when = ""
                            /\ w.nodes[k].deps = SortedDependencies(trace, at(k))
                            /\ w.nodes[k].verifiers = <<>>
  BY DEF Generated, CompiledNode
<1>4. \A c \in nodes : deps(c) \subseteq nodes
  BY DependenciesPrecede DEF Preceding
<1>5. \A k \in 1..size : {w.nodes[k].deps[d].of : d \in DOMAIN w.nodes[k].deps}
                           = {name(e) : e \in deps(at(k))}
  BY <1>1, <1>3, EveryDependencyListed
<1> HIDE DEF nodes, size, deps, w, at
<1>6. /\ \A k \in 1..size : at(k) \in nodes /\ w.nodes[k].id = name(at(k))
      /\ \A c \in nodes : Index(trace, c) \in 1..size /\ w.nodes[Index(trace, c)].id = name(c)
  BY <1>1, <1>3
<1>7. Ids(w) = {name(c) : c \in nodes}
  <2>1. Ids(w) = {w.nodes[k].id : k \in 1..size}
    BY <1>3 DEF Ids
  <2> QED
    BY <1>6, <2>1
<1>8. ASSUME NEW c \in nodes PROVE DependsOn(w, name(c)) = {name(e) : e \in deps(c)}
  <2>1. {j \in 1..size : w.nodes[j].id = name(c)} = {Index(trace, c)}
    <3>1. ASSUME NEW j \in 1..size, w.nodes[j].id = name(c) PROVE j = Index(trace, c)
      BY <1>1, <1>2, <1>6, <3>1
    <3> QED
      BY <1>6, <3>1
  <2> DEFINE listed(i) == {w.nodes[i].deps[d].of : d \in DOMAIN w.nodes[i].deps}
  <2>2. DependsOn(w, name(c)) = UNION {listed(i) : i \in {j \in 1..size : w.nodes[j].id = name(c)}}
    BY <1>3 DEF DependsOn
  <2>3. listed(Index(trace, c)) = {name(e) : e \in deps(c)}
    BY <1>1, <1>5
  <2> HIDE DEF listed, name
  <2>4. DependsOn(w, name(c)) = UNION {listed(i) : i \in {Index(trace, c)}}
    BY <2>1, <2>2
  <2>5. DependsOn(w, name(c)) = listed(Index(trace, c))
    BY <2>4
  <2> QED
    BY <2>3, <2>5
<1> HIDE DEF name
<1>9. ValidWorkflow(w) <=> ~Cyclic(w)
  <2>1. \A i, j \in 1..size : w.nodes[i].id = w.nodes[j].id => i = j
    BY <1>1, <1>2, <1>6
  <2>2. \A k \in 1..size : DependsOn(w, w.nodes[k].id) \subseteq Ids(w)
    BY <1>1, <1>4, <1>7, <1>8, <1>6
  <2>3. ASSUME NEW k \in 1..size PROVE w.nodes[k].when = "" /\ DOMAIN w.nodes[k].verifiers = {}
    <3>1. w.nodes[k].when = "" /\ w.nodes[k].verifiers = <<>>
      BY <1>3
    <3>2. DOMAIN <<>> = {}
      OBVIOUS
    <3> QED
      BY <3>1, <3>2
  <2>4. w.outputs \subseteq Ids(w)
    <3>1. w.outputs = {name(at(size))}
      BY <1>3
    <3>2. size \in 1..size
      BY <1>1
    <3> QED
      BY <1>7, <1>6, <3>1, <3>2
  <2>5. DOMAIN w.nodes = 1..size
    BY <1>3
  <2> QED
    BY <2>1, <2>2, <2>3, <2>4, <2>5 DEF ValidWorkflow
<1>10. ASSUME NEW S \in SUBSET nodes, S # {}, \A c \in S : deps(c) \cap S # {} PROVE Cyclic(w)
  <2> DEFINE T == {name(c) : c \in S}
  <2>1. T \in SUBSET Ids(w) /\ T # {}
    BY <1>7, <1>10
  <2>2. ASSUME NEW id \in T PROVE DependsOn(w, id) \cap T # {}
    <3>1. PICK c \in S : id = name(c)
      OBVIOUS
    <3>2. PICK d \in deps(c) : d \in S
      BY <1>10
    <3>3. name(d) \in DependsOn(w, id) /\ name(d) \in T
      BY <1>8, <3>1, <3>2
    <3> QED
      BY <3>3
  <2> QED
    BY <2>1, <2>2 DEF Cyclic
<1>11. ASSUME Cyclic(w), \A S \in SUBSET nodes : S # {} => \E c \in S : deps(c) \cap S = {}
       PROVE  FALSE
  <2>1. PICK T \in SUBSET Ids(w) : T # {} /\ \A id \in T : DependsOn(w, id) \cap T # {}
    BY <1>11 DEF Cyclic
  <2> DEFINE S == {c \in nodes : name(c) \in T}
  <2>2. S \in SUBSET nodes /\ S # {}
    BY <1>7, <2>1
  <2>3. ASSUME NEW c \in S PROVE deps(c) \cap S # {}
    <3>1. PICK id \in DependsOn(w, name(c)) : id \in T
      BY <2>1
    <3>2. PICK d \in deps(c) : id = name(d)
      BY <1>8, <3>1
    <3>3. d \in S
      BY <1>4, <3>1, <3>2
    <3> QED
      BY <3>3
  <2> HIDE DEF S
  <2> QED
    BY <1>11, <2>2, <2>3
<1> QED
  BY <1>9, <1>10, <1>11 DEF nodes, deps, w

(* Calls that were made once are ordered as their requests.                *)
LEMMA OnceOrdered ==
  ASSUME TraceInv, AnswersInv, \A c \in Grouped(trace) : ~(Cardinality(RequestsOf(trace, c)) > 1),
         NEW c \in Grouped(trace), NEW d \in Preceding(c)
  PROVE  Index(trace, d) < Index(trace, c) /\ Preceding(d) \subseteq Preceding(c)
<1>1. ASSUME NEW e \in Grouped(trace) PROVE RequestsOf(trace, e) = {FirstRequest(trace, e)}
  <2> DEFINE R == RequestsOf(trace, e)
             n == Len(trace)
  <2>1. R \subseteq 1..n /\ n \in Nat /\ FirstRequest(trace, e) \in R
    BY NodeFacts, CallsNumbered, SeqFacts DEF TraceInv
  <2>2. IsFiniteSet(R)
    <3>1. IsFiniteSet(1..n) /\ R \in SUBSET (1..n)
      BY <2>1, FS_Interval
    <3> HIDE DEF R, n
    <3> QED
      BY <3>1, FS_Subset
  <2>3. Cardinality(R) \in Nat /\ Cardinality(R) # 0
    <3> HIDE DEF R
    <3> QED
      BY <2>1, <2>2, FS_CardinalityType, FS_EmptySet
  <2>4. Cardinality(R) = 1
    BY <2>3
  <2>5. \E x : R = {x}
    <3> HIDE DEF R
    <3> QED
      BY <2>2, <2>4, FS_Singleton
  <2> QED
    BY <2>1, <2>5
<1>2. d \in Grouped(trace) /\ d # c
  BY DEF Preceding
<1>3. FirstRequest(trace, d) \in Follows(FirstRequest(trace, c))
  BY <1>1, <1>2 DEF Preceding
<1>4. FirstRequest(trace, c) \in 1..Len(trace) /\ FirstRequest(trace, d) \in 1..Len(trace)
  BY <1>2, NodeFacts, CallsNumbered
<1>5. /\ FirstRequest(trace, d) < FirstRequest(trace, c)
      /\ Follows(FirstRequest(trace, d)) \subseteq Follows(FirstRequest(trace, c))
  BY <1>3, <1>4, FollowsFacts
<1>6. ASSUME NEW e \in Preceding(d) PROVE e \in Preceding(c)
  <2>1. e \in Grouped(trace) /\ FirstRequest(trace, e) \in Follows(FirstRequest(trace, d))
    BY <1>1, <1>2 DEF Preceding
  <2>2. FirstRequest(trace, e) < FirstRequest(trace, d)
    BY <1>4, <2>1, FollowsFacts
  <2>3. e # c
    BY <1>4, <1>5, <2>2
  <2>4. FirstRequest(trace, e) \in RequestsOf(trace, e) \cap Follows(FirstRequest(trace, c))
    BY <1>1, <1>5, <2>1
  <2>5. FirstRequest(trace, c) \in RequestsOf(trace, c)
    BY CallsNumbered
  <2> QED
    BY <2>1, <2>3, <2>4, <2>5 DEF Preceding
<1> QED
  BY <1>2, <1>5, <1>6, CallsNumbered

(* A compiled workflow orders calls as the trace does.                     *)
THEOREM CompilerKeepsOrder == Spec => []CompiledOrder
<1>1. Init => TraceInv /\ AnswersInv
  <2>1. ASSUME Init PROVE AnswersInv
    <3>1. trace = <<>> /\ Len(<<>>) = 0
      BY <2>1 DEF Init, SnapshotInit
    <3> QED
      BY <3>1 DEF AnswersInv
  <2> QED
    BY <2>1, TraceStarts
<1>2. TraceInv /\ AnswersInv /\ [Next]_vars => TraceInv' /\ AnswersInv'
  BY TraceKept, AnswersKept
<1>3. TraceInv /\ AnswersInv => CompiledOrder
  <2> DEFINE nodes == Grouped(trace)
             NoRound == \A S \in SUBSET nodes : S # {} => \E c \in S : Preceding(c) \cap S = {}
             once == \A c \in nodes : ~(Cardinality(RequestsOf(trace, c)) > 1)
  <2> SUFFICES ASSUME TraceInv, AnswersInv, Executable, nodes # {}
               PROVE  /\ \A S \in SUBSET nodes :
                           (\A c \in S : Dependencies(trace, c) \subseteq S)
                             <=> (\A c \in S : Preceding(c) \subseteq S)
                      /\ CompilerDiagnostic = "none" <=> NoRound
                      /\ once =>
                           /\ NoRound
                           /\ \A c \in nodes : \A d \in Preceding(c) :
                                /\ Index(trace, d) < Index(trace, c)
                                /\ Preceding(d) \subseteq Preceding(c)
    <3>1. {c \in nodes : Cardinality(RequestsOf(trace, c)) > 1} = {} <=> once
      OBVIOUS
    <3> QED
      BY <3>1 DEF CompiledOrder
  <2>1. \A S \in SUBSET nodes : (\A c \in S : Dependencies(trace, c) \subseteq S)
                                  <=> (\A c \in S : Preceding(c) \subseteq S)
    BY ClosedIsCausal DEF Closed, Causal
  <2>2. CompilerDiagnostic = "none" <=> NoRound
    <3>1. Events = trace /\ Valid /\ ~ObservationOnly
      BY ExecutableWhole DEF Executable
    <3>2. CompilerDiagnostic
            = IF ValidWorkflow(Generated(trace)) THEN "none" ELSE "GENERATED_WORKFLOW_INVALID"
      BY <3>1 DEF CompilerDiagnostic, Executable
    <3>3. ValidWorkflow(Generated(trace)) <=> NoRound
      BY GeneratedValid, SameRounds
    <3> QED
      BY <3>2, <3>3
  <2>3. ASSUME once, NEW S \in SUBSET nodes, S # {} PROVE \E c \in S : Preceding(c) \cap S = {}
    <3> DEFINE places == {Index(trace, c) : c \in S}
    <3>1. places \subseteq Nat /\ places # {}
      BY <2>3, CallsNumbered
    <3>2. PICK m \in places : \A k \in places : m <= k
      <4> HIDE DEF places
      <4> QED
        BY <3>1, LeastNatural
    <3>3. PICK c \in S : m = Index(trace, c)
      OBVIOUS
    <3>4. ASSUME NEW d \in Preceding(c), d \in S PROVE FALSE
      <4>1. Index(trace, d) < Index(trace, c) /\ Index(trace, c) <= Index(trace, d)
        BY <2>3, <3>2, <3>3, <3>4, OnceOrdered
      <4>2. Index(trace, d) \in Nat /\ Index(trace, c) \in Nat
        BY <3>1, <3>4
      <4> QED
        BY <4>1, <4>2
    <3> QED
      BY <3>4
  <2> QED
    BY <2>1, <2>2, <2>3, OnceOrdered
<1> QED
  BY <1>1, <1>2, <1>3, PTL DEF Spec
=============================================================================
