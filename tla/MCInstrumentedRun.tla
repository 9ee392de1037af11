-------------------------- MODULE MCInstrumentedRun --------------------------
(* Instances of InstrumentedRun for TLC.                                   *)
EXTENDS InstrumentedRun
=============================================================================
