-------------------------- MODULE MCStandingFaults --------------------------
(* Small instances of StandingFaults for TLC.                              *)
EXTENDS MCStandingRuntime, StandingFaults
=============================================================================
