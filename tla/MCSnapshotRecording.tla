------------------------ MODULE MCSnapshotRecording ------------------------
EXTENDS SnapshotRecording, TLC

Symmetry == Permutations(Runs)
=============================================================================
