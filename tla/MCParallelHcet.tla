--------------------------- MODULE MCParallelHcet ---------------------------
(* A small instance of ParallelHcet for TLC.                               *)
EXTENDS ParallelHcet

\* Few enough for the result, or too many for it or for one worker.
FewOrMany == {[v \in 1..NVertices |-> IF v = 2 THEN 0 ELSE 1],
              [v \in 1..NVertices |-> IF v = 2 THEN 2 ELSE 1],
              [v \in 1..NVertices |-> IF v = 1 THEN 5 ELSE 0]}
=============================================================================
