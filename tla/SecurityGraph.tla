--------------------------- MODULE SecurityGraph ---------------------------
(***************************************************************************)
(* The graph the batch runtime gives to the native kernel: the method      *)
(* SecurityGraphBuilder.build of src/bindings/python/security_graph.py.    *)
(*                                                                         *)
(* Abstractions.  An event's attributes are a function from field names to *)
(* values; NoValue is a missing field or None, EmptyValue the empty        *)
(* string.  Partition keys are ranks in their sort order.  The order in    *)
(* which edges are listed decides only the order of the kernel's results,  *)
(* so the edges are built as a set and listed in some order; the code's    *)
(* set of seen (source, destination, relation) triples is that set.  The   *)
(* evidence of an edge is left out, and its relation too once the edges    *)
(* are listed, as native_edges drops it.                                   *)
(***************************************************************************)
EXTENDS Integers, FiniteSets

CONSTANTS
  EntityKeys,     \* the field names that relate events (entity_keys)
  NoValue,        \* a field that is missing or None
  EmptyValue,     \* a field that is ""
  MaxGap,         \* max_gap_ms: a number, or Unlimited for None
  Unlimited

\* Events of one group in order; ids are unique (validate_events).
Before(a, b) ==
  \/ a.event_time_ms < b.event_time_ms
  \/ a.event_time_ms = b.event_time_ms /\ a.event_id < b.event_id

\* Pairs of neighbours of a group in that order: zip(group, group[1:]).
Neighbours(group) ==
  {p \in group \X group :
     /\ Before(p[1], p[2])
     /\ ~\E c \in group : Before(p[1], c) /\ Before(c, p[2])}

\* _add_edge: nothing for an event and itself or for events too far apart;
\* otherwise an edge from the earlier event, a when their times are equal.
EdgeOf(a, b, relation) ==
  LET src == IF a.event_time_ms <= b.event_time_ms THEN a ELSE b
      dst == IF src = a THEN b ELSE a
  IN  IF \/ a.event_id = b.event_id
         \/ /\ MaxGap # Unlimited
            /\ dst.event_time_ms - src.event_time_ms > MaxGap
        THEN {}
        ELSE {[src             |-> src.event_id,
               dst             |-> dst.event_id,
               relation        |-> relation,
               window_start_ms |-> src.event_time_ms,
               window_end_ms   |-> dst.event_time_ms]}

Linked(pairs, relation) == UNION {EdgeOf(p[1], p[2], relation) : p \in pairs}

\* Neighbours in time of each partition.
TemporalEdges(events) ==
  UNION {Linked(Neighbours({e \in events : e.partition_key = k}), "temporal_next") :
           k \in {e.partition_key : e \in events}}

\* Neighbours in time among the events of one value of one key, whatever
\* their partitions.
EntityEdges(events) ==
  UNION {Linked(Neighbours({e \in events : e.field[key] = v}), key) :
           key \in EntityKeys,
           v \in {e.field[key2] : e \in events, key2 \in EntityKeys} \ {NoValue, EmptyValue}}

\* The latest event of the parent process that is not after the child.
Candidates(events, child) ==
  {e \in events : /\ e.field["process_id"] # NoValue
                  /\ e.field["process_id"] = child.field["parent_process_id"]
                  /\ e.event_time_ms <= child.event_time_ms}

ParentEdges(events) ==
  UNION {Linked({<<e, child>> : e \in {c \in Candidates(events, child) :
                   \A d \in Candidates(events, child) : ~Before(c, d)}}, "parent_process") :
           child \in {c \in events : c.field["parent_process_id"] # NoValue}}

\* The vertices are the events in order of partition, time and id.
VertexOrder(a, b) ==
  \/ a.partition_key < b.partition_key
  \/ a.partition_key = b.partition_key /\ Before(a, b)

\* The sequences that list the members of a finite set, each once.
Listings(S) == {s \in [1..Cardinality(S) -> S] : \A x \in S : \E i \in DOMAIN s : s[i] = x}

Edges(events) == TemporalEdges(events) \cup EntityEdges(events) \cup ParentEdges(events)

Build(events) ==
  [order  |-> LET sorted == CHOOSE s \in Listings(events) :
                              \A i, j \in DOMAIN s : i < j => VertexOrder(s[i], s[j])
              IN  [i \in DOMAIN sorted |-> sorted[i].event_id],
   vertex |-> [id \in {e.event_id : e \in events} |->
                 LET e == CHOOSE x \in events : x.event_id = id
                 IN  [event_type |-> e.event_type, event_time_ms |-> e.event_time_ms]],
   edges  |-> LET listed == CHOOSE s \in Listings(Edges(events)) : TRUE
              IN  [i \in DOMAIN listed |-> [src             |-> listed[i].src,
                                            dst             |-> listed[i].dst,
                                            window_start_ms |-> listed[i].window_start_ms,
                                            window_end_ms   |-> listed[i].window_end_ms]]]
=============================================================================
