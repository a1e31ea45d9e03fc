--------------------------- MODULE StandingFaults ---------------------------
(***************************************************************************)
(* The standing-query runtime with faults: sinks that raise, and restarts  *)
(* over a graph that was saved before, at any point of a call.             *)
(***************************************************************************)
EXTENDS StandingRuntime

VARIABLE failed   \* history: a sink has raised

FaultInit == RuntimeInit /\ failed = FALSE

FaultNext ==
  \/ (PinnedNext \/ Snapshot \/ Restart) /\ UNCHANGED failed
  \/ SinkFails /\ failed' = TRUE

FaultSpec == FaultInit /\ [][FaultNext]_<<vars, failed>>

\* As long as no sink raises, every reader has all the trends the runtime
\* holds once a call is over, although restarts empty the dictionary active
\* and bring back an older graph.
NoLostPositiveUnlessFailed == failed \/ NoLostPositive
=============================================================================
