--------------------------- MODULE TemporalGraph ---------------------------
(***************************************************************************)
(* The mutable temporal graph of the standing-query runtime: the class     *)
(* TemporalGraphState of src/bindings/python/standing/runtime.py.          *)
(*                                                                         *)
(* It stores events by id, an index of event ids by partition key, and     *)
(* the edges between events twice: by source and by destination.  Events   *)
(* are inserted or replaced (upsert_event), removed (remove_event), and    *)
(* the whole state is exported (snapshot) and restored (load_snapshot).    *)
(*                                                                         *)
(* Abstractions.  An event's attributes are a function from field names to *)
(* values, NoValue standing for a missing field, None and, where only the  *)
(* graph reads it, the empty string, which relates no events either.  An   *)
(* edge keeps its end points, relation and time; its evidence dictionary   *)
(* is left out, and so are the features and the risk of an event, which    *)
(* the graph only carries along.  The lists of edges are sets: the code    *)
(* keeps at most one edge per source, destination and relation.  The       *)
(* relation derived from an entity key is named by the key (the table      *)
(* RELATION_BY_KEY is injective).  mutation_log, which nothing reads, is   *)
(* left out; the counter it is numbered by is kept.                        *)
(***************************************************************************)
EXTENDS Integers, FiniteSets

CONSTANTS
  EventIds,       \* integers an event may use as event_id
  Partitions,     \* the partition keys that occur
  EmptyKey,       \* the partition key "" (a member of Partitions or not)
  DefaultKey,     \* the partition key "default"
  EventTypes,     \* the values of event_type
  EntityKeys,     \* the field names that relate events (entity_keys)
  Values,         \* the values a field may hold
  NoValue,        \* a field that is missing, None or ""
  Payloads,       \* the event bodies the callers send
  MaxGap,         \* max_gap_ms: a number, or Unlimited for None
  Unlimited,
  NoSnapshot,     \* no snapshot has been taken
  MaxRevision     \* bound of the model: number of mutations

FieldNames == EntityKeys \cup {"process_id", "parent_process_id"}

\* An event without its id, which is the key it is stored under.
Event ==
  [partition_key : Partitions,
   event_type    : EventTypes,
   event_time_ms : Nat,
   field         : [FieldNames -> Values \cup {NoValue}]]

Relations == EntityKeys \cup {"temporal_next", "parent_process"}

Edge ==
  [src : EventIds, dst : EventIds, relation : Relations, event_time_ms : Nat]

\* Event ids are compared by the code (ties of equal time), so they are
\* integers; the key "default" is where remove_event looks for the key "".
ASSUME GraphAssumption ==
  /\ EventIds \subseteq Int
  /\ DefaultKey \in Partitions
  /\ DefaultKey # EmptyKey
  /\ NoValue \notin Values
  /\ EntityKeys \cap {"temporal_next", "parent_process"} = {}
  /\ Payloads \subseteq Event
  /\ MaxGap \in Nat \/ MaxGap = Unlimited
  /\ Unlimited \notin Int
  /\ MaxRevision \in Nat

VARIABLES
  events,        \* event id -> event, defined on the ids that are stored
  byPartition,   \* by_partition
  edgesBySrc,    \* edges_by_src
  edgesByDst,    \* edges_by_dst
  revision,
  saved          \* the last snapshot taken, kept outside the object

graphVars == <<events, byPartition, edgesBySrc, edgesByDst, revision, saved>>

----------------------------------------------------------------------------
(* Order and distance of events.                                           *)

\* The sort key (event_time_ms, event_id), compared with <=.
Precedes(evts, a, b) ==
  \/ evts[a].event_time_ms < evts[b].event_time_ms
  \/ evts[a].event_time_ms = evts[b].event_time_ms /\ a <= b

Distance(evts, a, b) ==
  IF evts[a].event_time_ms <= evts[b].event_time_ms
    THEN evts[b].event_time_ms - evts[a].event_time_ms
    ELSE evts[a].event_time_ms - evts[b].event_time_ms

WithinGap(evts, a, b) == MaxGap = Unlimited \/ Distance(evts, a, b) <= MaxGap

\* The ids events_for_partition returns: indexed and still stored.
Members(evts, index, p) == index[p] \cap DOMAIN evts

\* No event of M lies between the two in the sort order.
Adjacent(evts, M, a, b) ==
  \A c \in M \ {a, b} :
    \/ Precedes(evts, c, a) /\ Precedes(evts, c, b)
    \/ Precedes(evts, a, c) /\ Precedes(evts, b, c)

----------------------------------------------------------------------------
(* Edges.                                                                  *)

\* Mutant of EdgeBetween: the edge carries how much earlier its source is.
EdgeBetweenAged(evts, a, b, rel) ==
  LET s == IF Precedes(evts, a, b) THEN a ELSE b
      d == IF Precedes(evts, a, b) THEN b ELSE a
  IN  [src |-> s, dst |-> d, relation |-> rel,
       event_time_ms |-> evts[s].event_time_ms - evts[d].event_time_ms]

\* The edge of _ordered_pair: from the earlier event to the later one.
EdgeBetween(evts, a, b, rel) ==
  LET s == IF Precedes(evts, a, b) THEN a ELSE b
      d == IF Precedes(evts, a, b) THEN b ELSE a
  IN  [src |-> s, dst |-> d, relation |-> rel,
       event_time_ms |-> evts[d].event_time_ms]

\* Mutant of TemporalEdges: the neighbours among all stored events.
TemporalEdgesAnywhere(evts, index, x) ==
  {EdgeBetween(evts, x, n, "temporal_next") :
     n \in {n \in DOMAIN evts \ {x} : /\ Adjacent(evts, DOMAIN evts, x, n)
                                      /\ WithinGap(evts, x, n)}}

\* Mutant of TemporalEdges: only the edge from the neighbour before x.
TemporalEdgesBackward(evts, index, x) ==
  LET M == Members(evts, index, evts[x].partition_key)
  IN  {EdgeBetween(evts, n, x, "temporal_next") :
         n \in {n \in M \ {x} : /\ Adjacent(evts, M, x, n)
                                /\ Precedes(evts, n, x)
                                /\ WithinGap(evts, x, n)}}

\* temporal_next edges to the neighbours of x in its own partition.
TemporalEdges(evts, index, x) ==
  LET p == evts[x].partition_key
      M == Members(evts, index, p)
  IN  {EdgeBetween(evts, x, n, "temporal_next") :
         n \in {n \in M \ {x} : /\ Adjacent(evts, M, x, n)
                                /\ evts[n].partition_key = p
                                /\ WithinGap(evts, x, n)}}

\* Mutant of EntityEdges: only earlier events are looked at.
EntityEdgesToEarlier(evts, x) ==
  UNION {{EdgeBetween(evts, x, n, key) :
            n \in {n \in DOMAIN evts \ {x} :
                     /\ Precedes(evts, n, x)
                     /\ evts[n].field[key] = evts[x].field[key]
                     /\ WithinGap(evts, x, n)}} :
         key \in {k \in EntityKeys : evts[x].field[k] # NoValue}}

\* One edge per entity key and other event with the same value under it.
EntityEdges(evts, x) ==
  UNION {{EdgeBetween(evts, x, n, key) :
            n \in {n \in DOMAIN evts \ {x} :
                     /\ evts[n].field[key] = evts[x].field[key]
                     /\ WithinGap(evts, x, n)}} :
         key \in {k \in EntityKeys : evts[x].field[k] # NoValue}}

\* Mutant of ParentCandidates: without the condition on the times.
ParentCandidatesAnyTime(evts, x) ==
  {n \in DOMAIN evts :
     /\ evts[x].field["parent_process_id"] # NoValue
     /\ evts[n].field["process_id"] = evts[x].field["parent_process_id"]}

\* The stored events that run the process x names as its parent and that
\* are not later than x; x itself may be one of them.
ParentCandidates(evts, x) ==
  {n \in DOMAIN evts :
     /\ evts[x].field["parent_process_id"] # NoValue
     /\ evts[n].field["process_id"] = evts[x].field["parent_process_id"]
     /\ evts[n].event_time_ms <= evts[x].event_time_ms}

\* The edge from the latest candidate, if it is near enough.
ParentEdges(evts, x) ==
  {EdgeBetween(evts, n, x, "parent_process") :
     n \in {n \in ParentCandidates(evts, x) :
              /\ \A c \in ParentCandidates(evts, x) : Precedes(evts, c, n)
              /\ WithinGap(evts, n, x)}}

RebuiltEdges(evts, index, x) ==
  TemporalEdges(evts, index, x) \cup EntityEdges(evts, x) \cup ParentEdges(evts, x)

\* _add_edge_only for every edge of a set: no loop, and no second edge with
\* the source, destination and relation of one that is there.
NewEdges(bySrc, edges) ==
  {e \in edges :
     /\ e.src # e.dst
     /\ ~ \E f \in bySrc[e.src] : f.dst = e.dst /\ f.relation = e.relation}

AddBySrc(bySrc, edges) ==
  [i \in EventIds |-> bySrc[i] \cup {e \in NewEdges(bySrc, edges) : e.src = i}]

AddByDst(bySrc, byDst, edges) ==
  [i \in EventIds |-> byDst[i] \cup {e \in NewEdges(bySrc, edges) : e.dst = i}]

\* Mutant of RemoveByDst: only the list of x itself is dropped.
RemoveByDstOwnList(bySrc, byDst, x) == [byDst EXCEPT ![x] = {}]

\* Mutant of RemoveBySrc: an edge is recognised by its relation alone.
RemoveBySrcByRelation(bySrc, byDst, x) ==
  [i \in EventIds |->
     IF i = x THEN {}
     ELSE {e \in bySrc[i] : ~ \E f \in byDst[x] : f.src = i /\ e.relation = f.relation}]

\* _remove_edges_touching: the edges out of x are looked up by source and
\* erased from the lists of their destinations, the edges into x the other
\* way round, then the two lists of x itself are dropped.
RemoveByDst(bySrc, byDst, x) ==
  [i \in EventIds |->
     IF i = x THEN {}
     ELSE {e \in byDst[i] : ~ \E f \in bySrc[x] :
             f.dst = i /\ e.src = f.src /\ e.relation = f.relation}]

RemoveBySrc(bySrc, byDst, x) ==
  [i \in EventIds |->
     IF i = x THEN {}
     ELSE {e \in bySrc[i] : ~ \E f \in byDst[x] :
             f.src = i /\ e.dst = f.dst /\ e.relation = f.relation}]

----------------------------------------------------------------------------
(* Operations.                                                             *)

Init ==
  /\ events = [i \in {} |-> 0]
  /\ byPartition = [p \in Partitions |-> {}]
  /\ edgesBySrc = [i \in EventIds |-> {}]
  /\ edgesByDst = [i \in EventIds |-> {}]
  /\ revision = 0
  /\ saved = NoSnapshot

\* Mutant of Reindexed: x stays in the partition it was in.
ReindexedKeepsOld(x, p) ==
  [q \in Partitions |-> byPartition[q] \cup (IF q = p THEN {x} ELSE {})]

\* The index after x left the partition it was in, if it was stored, and
\* entered partition p.
Reindexed(x, p) ==
  [q \in Partitions |->
     ((IF x \in DOMAIN events /\ events[x].partition_key = q
         THEN byPartition[q] \ {x}
         ELSE byPartition[q])
      \cup (IF q = p THEN {x} ELSE {}))]

Stored(x, ev) == [i \in DOMAIN events \cup {x} |-> IF i = x THEN ev ELSE events[i]]

\* Mutant of KeptBySrc: a replaced event keeps its edges.
KeptBySrcOfReplaced(x) == edgesBySrc

\* The lists of edges an upsert starts to add to: those of a replaced event
\* are gone, a new event has none.
KeptBySrc(x) ==
  IF x \in DOMAIN events THEN RemoveBySrc(edgesBySrc, edgesByDst, x) ELSE edgesBySrc
KeptByDst(x) ==
  IF x \in DOMAIN events THEN RemoveByDst(edgesBySrc, edgesByDst, x) ELSE edgesByDst

UpsertEvent(x, ev) ==
  /\ revision < MaxRevision
  /\ events' = Stored(x, ev)
  /\ byPartition' = Reindexed(x, ev.partition_key)
  /\ LET edges == RebuiltEdges(events', byPartition', x)
     IN  /\ edgesBySrc' = AddBySrc(KeptBySrc(x), edges)
         /\ edgesByDst' = AddByDst(KeptBySrc(x), KeptByDst(x), edges)
  /\ revision' = revision + 1
  /\ UNCHANGED saved

\* partition_key or "default": the bucket a removed event is erased from.
RemovalBucket(p) == IF p = EmptyKey THEN DefaultKey ELSE p

\* An id that is not stored still makes a mutation and a revision.
RemoveEvent(x) ==
  /\ revision < MaxRevision
  /\ IF x \in DOMAIN events
       THEN /\ byPartition' =
                 [byPartition EXCEPT ![RemovalBucket(events[x].partition_key)] = @ \ {x}]
            /\ events' = [i \in DOMAIN events \ {x} |-> events[i]]
            /\ edgesBySrc' = RemoveBySrc(edgesBySrc, edgesByDst, x)
            /\ edgesByDst' = RemoveByDst(edgesBySrc, edgesByDst, x)
       ELSE UNCHANGED <<events, byPartition, edgesBySrc, edgesByDst>>
  /\ revision' = revision + 1
  /\ UNCHANGED saved

TakeSnapshot ==
  /\ saved' = [revision |-> revision,
               events   |-> events,
               edges    |-> UNION {edgesBySrc[i] : i \in EventIds}]
  /\ UNCHANGED <<events, byPartition, edgesBySrc, edgesByDst, revision>>

\* Everything is cleared, then events and edges are added one by one.
LoadSnapshot ==
  /\ saved # NoSnapshot
  /\ events' = saved.events
  /\ byPartition' = [p \in Partitions |->
       {i \in DOMAIN saved.events : saved.events[i].partition_key = p}]
  /\ LET none == [i \in EventIds |-> {}]
     IN  /\ edgesBySrc' = AddBySrc(none, saved.edges)
         /\ edgesByDst' = AddByDst(none, none, saved.edges)
  /\ revision' = saved.revision
  /\ UNCHANGED saved

Next ==
  \/ \E x \in EventIds, ev \in Payloads : UpsertEvent(x, ev)
  \/ \E x \in EventIds : RemoveEvent(x)
  \/ TakeSnapshot
  \/ LoadSnapshot

Spec == Init /\ [][Next]_graphVars

----------------------------------------------------------------------------
(* Properties.                                                             *)

AllEdges == UNION {edgesBySrc[i] : i \in EventIds}

IsSnapshot(s) ==
  /\ s = [revision |-> s.revision, events |-> s.events, edges |-> s.edges]
  /\ s.revision \in Nat
  /\ DOMAIN s.events \subseteq EventIds
  /\ s.events \in [DOMAIN s.events -> Event]
  /\ s.edges \subseteq Edge

\* Every variable has the shape its uses in the class rely on: events are
\* stored under known ids, the index and both edge maps are total.
TypeOK ==
  /\ DOMAIN events \subseteq EventIds
  /\ events \in [DOMAIN events -> Event]
  /\ byPartition \in [Partitions -> SUBSET EventIds]
  /\ edgesBySrc \in [EventIds -> SUBSET Edge]
  /\ edgesByDst \in [EventIds -> SUBSET Edge]
  /\ revision \in Nat
  /\ saved = NoSnapshot \/ IsSnapshot(saved)

\* The two edge maps describe one set of edges: an edge is listed under its
\* source exactly when it is listed under its destination, and nowhere else.
\* _remove_edges_touching depends on it, since it finds what to erase in one
\* map through the other.
MapsAgree ==
  /\ \A i \in EventIds : \A e \in edgesBySrc[i] : e.src = i /\ e \in edgesByDst[e.dst]
  /\ \A i \in EventIds : \A e \in edgesByDst[i] : e.dst = i /\ e \in edgesBySrc[e.src]

\* No edge outlives an event it touches, and every edge points forward in the
\* order (event_time_ms, event_id) of the events as they are stored now,
\* carries the time of its later end and spans at most max_gap_ms: removing an
\* event, or replacing it with one at another time, leaves no edge of its
\* former self behind, so evidence never names what is gone.
EdgesForward ==
  \A e \in AllEdges :
    /\ e.src # e.dst
    /\ e.src \in DOMAIN events /\ e.dst \in DOMAIN events
    /\ Precedes(events, e.src, e.dst)
    /\ e.event_time_ms = events[e.dst].event_time_ms
    /\ WithinGap(events, e.src, e.dst)

\* The entity edges maintained one event at a time are exactly those a
\* rebuild from all stored events would give, whatever was replaced, removed
\* or restored in between.
EntityEdgesExact ==
  \A key \in EntityKeys :
    {<<e.src, e.dst>> : e \in {f \in AllEdges : f.relation = key}} =
    {d \in (DOMAIN events) \X (DOMAIN events) :
       /\ d[1] # d[2]
       /\ Precedes(events, d[1], d[2])
       /\ WithinGap(events, d[1], d[2])
       /\ events[d[1]].field[key] # NoValue
       /\ events[d[1]].field[key] = events[d[2]].field[key]}

\* A temporal edge joins two events of one partition, even after one of them
\* was moved to another partition by an upsert.
TemporalEdgesLocal ==
  \A e \in AllEdges : e.relation = "temporal_next" =>
    events[e.src].partition_key = events[e.dst].partition_key

\* A parent edge joins an event with one that runs the process it names as
\* its parent.  The earlier of the two is the parent unless both have the
\* same time: then _ordered_pair decides by id and may turn the edge round.
ParentEdgesSound ==
  \A e \in AllEdges : e.relation = "parent_process" =>
    LET runsParentOf(p, c) ==
          /\ events[c].field["parent_process_id"] # NoValue
          /\ events[p].field["process_id"] = events[c].field["parent_process_id"]
    IN  \/ runsParentOf(e.src, e.dst)
        \/ /\ events[e.src].event_time_ms = events[e.dst].event_time_ms
           /\ runsParentOf(e.dst, e.src)

\* The partition index is exact, except for the key "": remove_event erases
\* an event of that partition from the bucket "default" instead.  There the
\* index may keep ids that are gone, but it never loses one.
IndexExact ==
  \A p \in Partitions :
    LET stored == {i \in DOMAIN events : events[i].partition_key = p}
    IN  /\ stored \subseteq byPartition[p]
        /\ p # EmptyKey => byPartition[p] = stored

\* Every two neighbours of a partition are joined by a temporal edge when
\* they are near enough.
NeighboursLinked ==
  \A p \in Partitions : \A a, b \in Members(events, byPartition, p) :
    /\ a # b
    /\ Precedes(events, a, b)
    /\ Adjacent(events, Members(events, byPartition, p), a, b)
    /\ WithinGap(events, a, b)
    => \E e \in edgesBySrc[a] : e.dst = b /\ e.relation = "temporal_next"

\* The edges that do not touch event x.
EdgesWithout(x) == {e \in AllEdges : x \notin {e.src, e.dst}}

Mutates(x) == (\E ev \in Payloads : UpsertEvent(x, ev)) \/ RemoveEvent(x)

\* Storing, replacing or removing an event leaves alone every edge between
\* two other events; only a restore replaces them.
OtherEdgesKept ==
  [][\A x \in EventIds : EdgesWithout(x)' = EdgesWithout(x) \/ ~Mutates(x)]_graphVars
============================================================================
