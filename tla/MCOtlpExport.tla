---------------------------- MODULE MCOtlpExport ----------------------------
EXTENDS OtlpExport, TLC

Symmetry == Permutations(Exporters)
=============================================================================
