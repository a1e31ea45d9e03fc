---------------------------- MODULE ChainSearch ----------------------------
(***************************************************************************)
(* What the native kernel finds in the rows of one (query, partition)      *)
(* bucket: process_partition, build_temporal_edges and trend_id of         *)
(* src/notebooks/0xDSI_CET_Databricks_prod.py, and the same functions of   *)
(* src/jobs/recompute_trends_prod.py.                                      *)
(*                                                                         *)
(* The rows are sorted and only neighbours are linked, so the graph is a   *)
(* chain and a path a stretch of it: an event between two steps is part of *)
(* the path.  The window given to every edge is the span of the bucket and *)
(* never refuses one.  A pattern is a sequence of steps                    *)
(* [name, kleene_plus].  Readings repeats the definition CetKernel checks  *)
(* the search engines against.                                             *)
(*                                                                         *)
(* Abstractions.  The bounds of the kernel (CetKernel) are not reached:    *)
(* both programs leave raise_on_overflow off, so paths of CET_MAX_PATH_LEN *)
(* events and results beyond CET_MAX_PATHS would be cut off silently.  Ids *)
(* are C ints.  The hash that names a trend is its argument: query,        *)
(* partition and ids of the path; the version is part of the query.        *)
(***************************************************************************)
EXTENDS Integers, Sequences, FiniteSets, SequencesExt

\* The order of the rows of a bucket: by time, then by id.
Precedes(a, b) ==
  \/ a.event_time_ms < b.event_time_ms
  \/ a.event_time_ms = b.event_time_ms /\ a.event_id < b.event_id

Ordered(rows) ==
  [i \in 1..Cardinality(rows) |->
     CHOOSE r \in rows : Cardinality({s \in rows : Precedes(s, r)}) = i - 1]

\* The stretch of the chain from a to b.
Between(view, a, b) == {r \in view : ~Precedes(r, a) /\ ~Precedes(b, r)}
Segment(view, a, b) == Ordered(Between(view, a, b))

\* The ways of reading a path as a match of the pattern: the first event is
\* the first step; an event that can be the next step is that step or, where
\* the step repeats, a repetition before it; any other is skipped; the last
\* event completes the pattern.
Readings(seq, path) ==
  {reached \in [1..Len(path) -> 1..Len(seq)] :
     /\ reached[1] = 1
     /\ reached[Len(path)] = Len(seq)
     /\ \A k \in 1..Len(path) - 1 :
          /\ reached[k] < Len(seq)
          /\ LET step == seq[reached[k] + 1]
                 gain == reached[k + 1] - reached[k]
             IN  \/ gain = 1 /\ path[k + 1].event_type = step.name
                 \/ gain = 0 /\ (path[k + 1].event_type # step.name \/ step.kleene_plus)}

\* The stretch from a to b is found; a negative time allowed is no limit.
IsMatch(seq, within, view, a, b) ==
  /\ ~Precedes(b, a)
  /\ a.event_type = seq[1].name
  /\ within >= 0 => b.event_time_ms - a.event_time_ms <= within
  /\ Readings(seq, Segment(view, a, b)) # {}

\* The result row of a path, and how often the kernel emits the path.
Result(seq, view, a, b) ==
  LET path == Segment(view, a, b)
  IN  [path   |-> [i \in DOMAIN path |-> path[i].event_id],
       start  |-> a.event_time_ms,
       end    |-> b.event_time_ms,
       copies |-> Cardinality(Readings(seq, path))]

Search(seq, within, view) ==
  {Result(seq, view, e[1], e[2]) :
     e \in {f \in view \X view : IsMatch(seq, within, view, f[1], f[2])}}
=============================================================================
