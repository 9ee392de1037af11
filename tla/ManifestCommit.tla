--------------------------- MODULE ManifestCommit ---------------------------
(***************************************************************************)
(* SnapshotWriter's manifest half: writeManifest() and commit() chained on *)
(* manifestQueue.  A manifest is captured by its caller, written to        *)
(* manifest.json.tmp (truncate, write, sync) and, for a commit, renamed    *)
(* over manifest.json.                                                     *)
(***************************************************************************)
EXTENDS Recorder

VARIABLES
  manifestQueue,  \* the promise chain: [op, manifest], the head running
  renaming,       \* the running commit has written its temporary file
  tmpManifest, finalManifest

manifestVars == <<manifestQueue, renaming, tmpManifest, finalManifest>>

Manifest == [run : Runs \cup {NoRun}, status : Status \cup {"absent", "torn"},
             count : Nat, completeness : {"complete", "partial"}]
Absent == [run |-> NoRun, status |-> "absent", count |-> 0, completeness |-> "partial"]
Torn == [Absent EXCEPT !.status = "torn"]   \* truncated, not valid JSON

ManifestTypeOK ==
  /\ manifestQueue \in Seq([op : {"write", "commit"}, manifest : Manifest])
  /\ renaming \in BOOLEAN
  /\ tmpManifest \in Manifest
  /\ finalManifest \in Manifest

ManifestInit ==
  /\ manifestQueue = <<>> /\ renaming = FALSE
  /\ tmpManifest = Absent /\ finalManifest = Absent

CurrentManifest == Head(manifestQueue).manifest
Finished(manifest) == manifest.status \in TerminalStatus

(* Fault: a refused commit() blocks the chain behind it.                   *)
RejectCommitStuck ==
  /\ manifestQueue # <<>> /\ ~renaming
  /\ Head(manifestQueue).op = "commit" /\ ~Finished(CurrentManifest)
  /\ UNCHANGED <<manifestQueue, renaming, tmpManifest, finalManifest>>

(* MANIFEST_NOT_TERMINAL.                                                  *)
RejectCommit ==
  /\ manifestQueue # <<>> /\ ~renaming
  /\ Head(manifestQueue).op = "commit" /\ ~Finished(CurrentManifest)
  /\ manifestQueue' = Tail(manifestQueue)
  /\ UNCHANGED <<renaming, tmpManifest, finalManifest>>

WritableManifest ==
  /\ manifestQueue # <<>> /\ ~renaming
  /\ Head(manifestQueue).op = "commit" => Finished(CurrentManifest)

(* writeManifestTemporary(): complete and synced, or refused before or     *)
(* after the file was truncated.                                           *)
WriteTmpManifest ==
  /\ WritableManifest
  /\ tmpManifest' = CurrentManifest
  /\ IF Head(manifestQueue).op = "commit"
       THEN renaming' = TRUE /\ UNCHANGED manifestQueue
       ELSE manifestQueue' = Tail(manifestQueue) /\ UNCHANGED renaming
  /\ UNCHANGED finalManifest

FailTmpManifest ==
  /\ WritableManifest
  /\ tmpManifest' \in {tmpManifest, Torn}
  /\ manifestQueue' = Tail(manifestQueue)
  /\ UNCHANGED <<renaming, finalManifest>>

(* The rename of commit(), which may be refused: MANIFEST_COMMIT_FAILED.   *)
RenameManifest ==
  /\ renaming /\ renaming' = FALSE
  /\ manifestQueue' = Tail(manifestQueue)
  /\ \/ finalManifest' = tmpManifest /\ tmpManifest' = Absent
     \/ UNCHANGED <<tmpManifest, finalManifest>>

ManifestStep == RejectCommit \/ WriteTmpManifest \/ FailTmpManifest \/ RenameManifest

(* The process dies: a temporary file being written may be left truncated. *)
(* commit() does not sync the directory, so a power loss may undo a rename. *)
LoseManifestWork ==
  /\ manifestQueue' = <<>> /\ renaming' = FALSE
  /\ \/ /\ tmpManifest' \in {tmpManifest} \cup (IF WritableManifest THEN {Torn} ELSE {})
        /\ UNCHANGED finalManifest
     \/ /\ finalManifest # Absent
        /\ tmpManifest' = finalManifest /\ finalManifest' = Absent

-----------------------------------------------------------------------------
(* inspectSnapshotDirectory(): the temporary manifest is preferred, and    *)
(* its presence alone means the run is unfinished.                         *)
InspectedManifest ==
  IF tmpManifest \notin {Absent, Torn} THEN tmpManifest ELSE finalManifest

InspectedUnfinished ==
  \/ tmpManifest # Absent
  \/ InspectedManifest # Absent /\ ~Finished(InspectedManifest)
  \/ finalManifest = Absent /\ lines # <<>>
=============================================================================
