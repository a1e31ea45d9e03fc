----------------------- MODULE StandingRuntime_proofs -----------------------
(***************************************************************************)
(* Theorems about TemporalGraph, for any set of events, partitions, entity *)
(* keys and any gap, and about StandingRuntime and StandingFaults, for any *)
(* queries, partitions, sinks and limits.                                  *)
(*                                                                         *)
(* The graph: every edge satisfies a condition that reads only its two end *)
(* points (GoodEdge); an operation on event x erases all edges touching x, *)
(* which is possible because the two maps agree, and adds edges that       *)
(* satisfy the condition in the new state.                                 *)
(*                                                                         *)
(* The deliveries: the arguments need only that the trends of a partition  *)
(* are a function of the events stored in it and carry its key; what those *)
(* trends are comes from the theorems of TrendMatch_proofs.                *)
(***************************************************************************)
EXTENDS StandingFaults, TemporalFeed, FiniteSetTheorems, TLAPS

-----------------------------------------------------------------------------
(* The graph.                                                              *)

TypedEvents(evts) ==
  /\ DOMAIN evts \subseteq EventIds
  /\ evts \in [DOMAIN evts -> Event]

\* Event p runs the process that c names as its parent.
RunsParentOf(evts, p, c) ==
  /\ evts[c].field["parent_process_id"] # NoValue
  /\ evts[p].field["process_id"] = evts[c].field["parent_process_id"]

\* The condition of ParentEdgesSound on one edge.
ParentLink(evts, e) ==
  \/ RunsParentOf(evts, e.src, e.dst)
  \/ /\ evts[e.src].event_time_ms = evts[e.dst].event_time_ms
     /\ RunsParentOf(evts, e.dst, e.src)

\* The condition of EdgesForward, TemporalEdgesLocal and ParentEdgesSound on
\* one edge.
ForwardEdge(evts, e) ==
  /\ e.src \in DOMAIN evts /\ e.dst \in DOMAIN evts
  /\ Precedes(evts, e.src, e.dst)
  /\ e.event_time_ms = evts[e.dst].event_time_ms
  /\ WithinGap(evts, e.src, e.dst)
  /\ e.relation = "temporal_next" =>
       evts[e.src].partition_key = evts[e.dst].partition_key
  /\ e.relation = "parent_process" => ParentLink(evts, e)

GoodEdge(evts, e) == e.src # e.dst /\ ForwardEdge(evts, e)

Agree(bySrc, byDst) ==
  /\ \A i \in EventIds : \A e \in bySrc[i] : e.src = i /\ e \in byDst[e.dst]
  /\ \A i \in EventIds : \A e \in byDst[i] : e.dst = i /\ e \in bySrc[e.src]

TypedMaps(bySrc, byDst) ==
  /\ bySrc \in [EventIds -> SUBSET Edge]
  /\ byDst \in [EventIds -> SUBSET Edge]

GraphInv ==
  /\ TypeOK
  /\ MapsAgree
  /\ \A i \in EventIds : \A e \in edgesBySrc[i] : GoodEdge(events, e)
  /\ saved # NoSnapshot => \A e \in saved.edges : GoodEdge(saved.events, e)

-----------------------------------------------------------------------------
(* Edges.                                                                  *)

\* _ordered_pair: the edge between two events near enough points forward.
LEMMA EdgeBetweenForward ==
  ASSUME NEW evts, TypedEvents(evts), NEW a \in DOMAIN evts, NEW b \in DOMAIN evts,
         NEW rel \in Relations, WithinGap(evts, a, b),
         rel = "temporal_next" => evts[a].partition_key = evts[b].partition_key,
         rel = "parent_process" =>
           /\ evts[a].event_time_ms <= evts[b].event_time_ms
           /\ RunsParentOf(evts, a, b)
  PROVE  EdgeBetween(evts, a, b, rel) \in Edge /\ ForwardEdge(evts, EdgeBetween(evts, a, b, rel))
<1> DEFINE e == EdgeBetween(evts, a, b, rel)
<1>1. a \in EventIds /\ b \in EventIds /\ a \in Int /\ b \in Int
      /\ evts[a].event_time_ms \in Nat /\ evts[b].event_time_ms \in Nat
  BY GraphAssumption DEF TypedEvents, Event
<1>2. Distance(evts, a, b) = Distance(evts, b, a)
  BY <1>1 DEF Distance
<1>3. CASE Precedes(evts, a, b)
  <2>1. e = [src |-> a, dst |-> b, relation |-> rel, event_time_ms |-> evts[b].event_time_ms]
    BY <1>3 DEF EdgeBetween
  <2>2. rel = "parent_process" => ParentLink(evts, e)
    BY <2>1 DEF ParentLink
  <2> QED BY <2>1, <2>2, <1>1, <1>3 DEF Edge, ForwardEdge
<1>4. CASE ~Precedes(evts, a, b)
  <2>1. e = [src |-> b, dst |-> a, relation |-> rel, event_time_ms |-> evts[a].event_time_ms]
    BY <1>4 DEF EdgeBetween
  <2>2. Precedes(evts, b, a)
    BY <1>1, <1>4 DEF Precedes
  <2>3. WithinGap(evts, b, a)
    BY <1>2 DEF WithinGap
  <2>4. rel = "parent_process" => ParentLink(evts, e)
    BY <2>1, <2>2, <1>1 DEF ParentLink, Precedes
  <2> QED BY <2>1, <2>2, <2>3, <2>4, <1>1 DEF Edge, ForwardEdge
<1> QED BY <1>3, <1>4

\* The edges an upsert adds are edges of the graph that point forward.
LEMMA RebuiltForward ==
  ASSUME NEW evts, TypedEvents(evts), NEW index, NEW x \in DOMAIN evts
  PROVE  \A e \in RebuiltEdges(evts, index, x) : e \in Edge /\ ForwardEdge(evts, e)
<1> SUFFICES ASSUME NEW e \in RebuiltEdges(evts, index, x)
             PROVE  e \in Edge /\ ForwardEdge(evts, e)
  OBVIOUS
<1>1. CASE e \in TemporalEdges(evts, index, x)
  <2>1. PICK n \in DOMAIN evts : /\ e = EdgeBetween(evts, x, n, "temporal_next")
                                 /\ evts[n].partition_key = evts[x].partition_key
                                 /\ WithinGap(evts, x, n)
    BY <1>1 DEF TemporalEdges, Members
  <2> QED BY <2>1, EdgeBetweenForward DEF Relations
<1>2. CASE e \in EntityEdges(evts, x)
  <2>1. PICK key \in EntityKeys : \E n \in DOMAIN evts :
               e = EdgeBetween(evts, x, n, key) /\ WithinGap(evts, x, n)
    BY <1>2 DEF EntityEdges
  <2>2. PICK n \in DOMAIN evts : e = EdgeBetween(evts, x, n, key) /\ WithinGap(evts, x, n)
    BY <2>1
  <2>3. key # "temporal_next" /\ key # "parent_process" /\ key \in Relations
    BY GraphAssumption DEF Relations
  <2> QED BY <2>2, <2>3, EdgeBetweenForward
<1>3. CASE e \in ParentEdges(evts, x)
  <2>1. PICK n \in DOMAIN evts : e = EdgeBetween(evts, n, x, "parent_process")
                                 /\ WithinGap(evts, n, x)
                                 /\ evts[n].event_time_ms <= evts[x].event_time_ms
                                 /\ RunsParentOf(evts, n, x)
    BY <1>3 DEF ParentEdges, ParentCandidates, RunsParentOf
  <2> QED BY <2>1, EdgeBetweenForward DEF Relations
<1> QED BY <1>1, <1>2, <1>3 DEF RebuiltEdges

\* Two event maps that agree on the ends of an edge agree on the edge.
LEMMA ForwardIsLocal ==
  ASSUME NEW evts, NEW after, NEW e, ForwardEdge(evts, e),
         e.src \in DOMAIN after, e.dst \in DOMAIN after,
         after[e.src] = evts[e.src], after[e.dst] = evts[e.dst]
  PROVE  ForwardEdge(after, e)
BY DEF ForwardEdge, Precedes, WithinGap, Distance, ParentLink, RunsParentOf

\* _add_edge_only keeps the two maps in agreement.
LEMMA AddKeepsAgreement ==
  ASSUME NEW bySrc, NEW byDst, TypedMaps(bySrc, byDst), Agree(bySrc, byDst),
         NEW edges \in SUBSET Edge
  PROVE  /\ TypedMaps(AddBySrc(bySrc, edges), AddByDst(bySrc, byDst, edges))
         /\ Agree(AddBySrc(bySrc, edges), AddByDst(bySrc, byDst, edges))
         /\ \A i \in EventIds : \A e \in AddBySrc(bySrc, edges)[i] :
              e \in bySrc[i] \/ (e \in edges /\ e.src # e.dst)
<1> DEFINE new == NewEdges(bySrc, edges)
           src == AddBySrc(bySrc, edges)
           dst == AddByDst(bySrc, byDst, edges)
<1>1. new \subseteq edges /\ \A e \in new : e.src # e.dst
  BY DEF NewEdges
<1>2. \A e \in edges : e.src \in EventIds /\ e.dst \in EventIds
  BY DEF Edge
<1>3. /\ src = [i \in EventIds |-> bySrc[i] \cup {e \in new : e.src = i}]
      /\ dst = [i \in EventIds |-> byDst[i] \cup {e \in new : e.dst = i}]
  BY DEF AddBySrc, AddByDst
<1> HIDE DEF new, src, dst
<1>4. TypedMaps(src, dst)
  BY <1>1, <1>3 DEF TypedMaps
<1>5. Agree(src, dst)
  <2>1. ASSUME NEW i \in EventIds, NEW e \in src[i]
        PROVE  e.src = i /\ e \in dst[e.dst]
    <3>1. e \in bySrc[i] \/ (e \in new /\ e.src = i)
      BY <1>3
    <3>2. e \in Edge
      BY <3>1, <1>1 DEF TypedMaps
    <3>3. e.dst \in EventIds
      BY <3>2 DEF Edge
    <3> QED BY <3>1, <3>3, <1>3 DEF Agree
  <2>2. ASSUME NEW i \in EventIds, NEW e \in dst[i]
        PROVE  e.dst = i /\ e \in src[e.src]
    <3>1. e \in byDst[i] \/ (e \in new /\ e.dst = i)
      BY <1>3
    <3>2. e \in Edge
      BY <3>1, <1>1 DEF TypedMaps
    <3>3. e.src \in EventIds
      BY <3>2 DEF Edge
    <3> QED BY <3>1, <3>3, <1>3 DEF Agree
  <2> QED BY <2>1, <2>2 DEF Agree
<1>6. \A i \in EventIds : \A e \in src[i] : e \in bySrc[i] \/ (e \in edges /\ e.src # e.dst)
  BY <1>1, <1>3
<1> QED BY <1>4, <1>5, <1>6 DEF src, dst

\* _remove_edges_touching erases exactly the edges touching x, from both maps.
LEMMA RemoveErasesTouching ==
  ASSUME NEW bySrc, NEW byDst, TypedMaps(bySrc, byDst), Agree(bySrc, byDst),
         NEW x \in EventIds
  PROVE  /\ TypedMaps(RemoveBySrc(bySrc, byDst, x), RemoveByDst(bySrc, byDst, x))
         /\ Agree(RemoveBySrc(bySrc, byDst, x), RemoveByDst(bySrc, byDst, x))
         /\ \A i \in EventIds :
              RemoveBySrc(bySrc, byDst, x)[i] = {e \in bySrc[i] : x \notin {e.src, e.dst}}
<1> DEFINE src == RemoveBySrc(bySrc, byDst, x)
           dst == RemoveByDst(bySrc, byDst, x)
<1>1. \A i \in EventIds : \A e \in bySrc[i] \cup byDst[i] :
        e.src \in EventIds /\ e.dst \in EventIds
  BY DEF TypedMaps, Edge
<1>2. ASSUME NEW i \in EventIds
      PROVE  src[i] = {e \in bySrc[i] : x \notin {e.src, e.dst}}
  <2>1. ASSUME NEW e \in bySrc[i], i # x
        PROVE  (\E f \in byDst[x] : f.src = i /\ e.dst = f.dst /\ e.relation = f.relation)
               <=> e.dst = x
    BY <2>1, <1>1 DEF Agree
  <2> QED BY <2>1 DEF RemoveBySrc, Agree
<1>3. ASSUME NEW i \in EventIds
      PROVE  dst[i] = {e \in byDst[i] : x \notin {e.src, e.dst}}
  <2>1. ASSUME NEW e \in byDst[i], i # x
        PROVE  (\E f \in bySrc[x] : f.dst = i /\ e.src = f.src /\ e.relation = f.relation)
               <=> e.src = x
    BY <2>1, <1>1 DEF Agree
  <2> QED BY <2>1 DEF RemoveByDst, Agree
<1>4. TypedMaps(src, dst)
  BY DEF TypedMaps, RemoveBySrc, RemoveByDst
<1>5. Agree(src, dst)
  BY <1>1, <1>2, <1>3 DEF Agree
<1> QED BY <1>2, <1>4, <1>5

-----------------------------------------------------------------------------
(* The invariant.                                                          *)

\* The empty graph satisfies the invariant.
LEMMA InitGraphInv == Init => GraphInv
<1> SUFFICES ASSUME Init PROVE GraphInv
  OBVIOUS
<1>1. TypeOK
  BY DEF Init, TypeOK
<1> QED BY <1>1 DEF Init, GraphInv, MapsAgree

\* upsert_event keeps the invariant.
LEMMA UpsertKeepsInv ==
  ASSUME GraphInv, NEW x \in EventIds, NEW ev \in Payloads, UpsertEvent(x, ev)
  PROVE  GraphInv'
<1> DEFINE edges == RebuiltEdges(events', byPartition', x)
<1>1. TypedEvents(events) /\ ev \in Event
  BY GraphAssumption DEF GraphInv, TypeOK, TypedEvents
<1>2. /\ events' = [i \in DOMAIN events \cup {x} |-> IF i = x THEN ev ELSE events[i]]
      /\ DOMAIN events' = DOMAIN events \cup {x}
  BY DEF UpsertEvent, Stored
<1>3. TypedEvents(events')
  BY <1>1, <1>2 DEF TypedEvents
<1>4. \A e \in edges : e \in Edge /\ ForwardEdge(events', e)
  BY <1>2, <1>3, RebuiltForward
<1>5. /\ TypedMaps(edgesBySrc, edgesByDst)
      /\ Agree(edgesBySrc, edgesByDst)
  BY DEF GraphInv, TypeOK, MapsAgree, TypedMaps, Agree
<1>6. /\ TypedMaps(KeptBySrc(x), KeptByDst(x))
      /\ Agree(KeptBySrc(x), KeptByDst(x))
      /\ \A i \in EventIds : \A e \in KeptBySrc(x)[i] :
           e \in edgesBySrc[i] /\ x \notin {e.src, e.dst}
  <2>1. CASE x \in DOMAIN events
    BY <2>1, <1>5, RemoveErasesTouching DEF KeptBySrc, KeptByDst
  <2>2. CASE x \notin DOMAIN events
    BY <2>2, <1>5 DEF KeptBySrc, KeptByDst, GraphInv, GoodEdge, ForwardEdge
  <2> QED BY <2>1, <2>2
<1>7. /\ edgesBySrc' = AddBySrc(KeptBySrc(x), edges)
      /\ edgesByDst' = AddByDst(KeptBySrc(x), KeptByDst(x), edges)
  BY DEF UpsertEvent
<1> HIDE DEF edges
<1>8. /\ TypedMaps(edgesBySrc', edgesByDst')
      /\ Agree(edgesBySrc', edgesByDst')
      /\ \A i \in EventIds : \A e \in edgesBySrc'[i] :
           e \in KeptBySrc(x)[i] \/ (e \in edges /\ e.src # e.dst)
  <2>1. edges \in SUBSET Edge
    BY <1>4
  <2> QED BY <2>1, <1>6, <1>7, AddKeepsAgreement
<1>9. ASSUME NEW i \in EventIds, NEW e \in edgesBySrc'[i]
      PROVE  GoodEdge(events', e)
  <2>1. CASE e \in KeptBySrc(x)[i]
    <3>1. GoodEdge(events, e) /\ x \notin {e.src, e.dst}
      BY <2>1, <1>6 DEF GraphInv
    <3> QED BY <3>1, <1>2, ForwardIsLocal DEF GoodEdge, ForwardEdge
  <2>2. CASE e \in edges /\ e.src # e.dst
    BY <2>2, <1>4 DEF GoodEdge
  <2> QED BY <2>1, <2>2, <1>8
<1>10. TypeOK'
  <2>1. byPartition' \in [Partitions -> SUBSET EventIds]
    BY DEF GraphInv, TypeOK, UpsertEvent, Reindexed
  <2>2. revision' \in Nat /\ saved' = saved
    BY DEF GraphInv, TypeOK, UpsertEvent
  <2>3. saved' = NoSnapshot \/ IsSnapshot(saved')
    BY <2>2 DEF GraphInv, TypeOK
  <2> QED BY <2>1, <2>2, <2>3, <1>3, <1>8 DEF TypeOK, TypedEvents, TypedMaps, IsSnapshot
<1>11. MapsAgree'
  BY <1>8 DEF MapsAgree, Agree
<1>12. saved' = saved
  BY DEF UpsertEvent
<1> QED BY <1>9, <1>10, <1>11, <1>12 DEF GraphInv

\* remove_event keeps the invariant.
LEMMA RemoveKeepsInv ==
  ASSUME GraphInv, NEW x \in EventIds, RemoveEvent(x)
  PROVE  GraphInv'
<1>0. saved' = saved /\ revision' \in Nat
  BY DEF GraphInv, TypeOK, RemoveEvent
<1>1. CASE x \notin DOMAIN events
  <2>1. UNCHANGED <<events, byPartition, edgesBySrc, edgesByDst, saved>>
    BY <1>1 DEF RemoveEvent
  <2> QED BY <2>1, <1>0 DEF GraphInv, TypeOK, MapsAgree, IsSnapshot
<1>2. CASE x \in DOMAIN events
  <2>1. /\ events' = [i \in DOMAIN events \ {x} |-> events[i]]
        /\ DOMAIN events' = DOMAIN events \ {x}
        /\ edgesBySrc' = RemoveBySrc(edgesBySrc, edgesByDst, x)
        /\ edgesByDst' = RemoveByDst(edgesBySrc, edgesByDst, x)
        /\ byPartition' =
             [byPartition EXCEPT ![RemovalBucket(events[x].partition_key)] = @ \ {x}]
    BY <1>2 DEF RemoveEvent
  <2>2. /\ TypedMaps(edgesBySrc, edgesByDst)
        /\ Agree(edgesBySrc, edgesByDst)
    BY DEF GraphInv, TypeOK, MapsAgree, TypedMaps, Agree
  <2>3. /\ TypedMaps(edgesBySrc', edgesByDst')
        /\ Agree(edgesBySrc', edgesByDst')
        /\ \A i \in EventIds :
             edgesBySrc'[i] = {e \in edgesBySrc[i] : x \notin {e.src, e.dst}}
    BY <2>1, <2>2, RemoveErasesTouching
  <2>4. ASSUME NEW i \in EventIds, NEW e \in edgesBySrc'[i]
        PROVE  GoodEdge(events', e)
    <3>1. GoodEdge(events, e) /\ x \notin {e.src, e.dst}
      BY <2>3 DEF GraphInv
    <3> QED BY <3>1, <2>1, ForwardIsLocal DEF GoodEdge, ForwardEdge
  <2>5. TypeOK'
    <3>1. byPartition' \in [Partitions -> SUBSET EventIds]
      BY <2>1 DEF GraphInv, TypeOK
    <3>2. DOMAIN events' \subseteq EventIds /\ events' \in [DOMAIN events' -> Event]
      BY <2>1 DEF GraphInv, TypeOK
    <3>3. saved' = NoSnapshot \/ IsSnapshot(saved')
      BY <1>0 DEF GraphInv, TypeOK
    <3> QED BY <3>1, <3>2, <3>3, <2>3, <1>0 DEF TypeOK, TypedMaps, IsSnapshot
  <2>6. MapsAgree'
    BY <2>3 DEF MapsAgree, Agree
  <2> QED BY <2>4, <2>5, <2>6, <1>0 DEF GraphInv
<1> QED BY <1>1, <1>2

\* snapshot keeps the invariant.
LEMMA SnapshotKeepsInv ==
  ASSUME GraphInv, TakeSnapshot
  PROVE  GraphInv'
<1>1. /\ saved' = [revision |-> revision, events |-> events,
                   edges |-> UNION {edgesBySrc[i] : i \in EventIds}]
      /\ UNCHANGED <<events, byPartition, edgesBySrc, edgesByDst, revision>>
  BY DEF TakeSnapshot
<1>2. IsSnapshot(saved')
  BY <1>1 DEF GraphInv, TypeOK, IsSnapshot
<1>3. \A e \in saved'.edges : GoodEdge(saved'.events, e)
  BY <1>1 DEF GraphInv
<1> QED BY <1>1, <1>2, <1>3 DEF GraphInv, TypeOK, MapsAgree

\* load_snapshot establishes the invariant from what the snapshot satisfies.
LEMMA LoadKeepsInv ==
  ASSUME GraphInv, LoadSnapshot
  PROVE  /\ GraphInv'
         /\ \A e \in saved.edges : e.src # e.dst
<1> DEFINE none == [i \in EventIds |-> {}]
<1>1. /\ saved # NoSnapshot /\ saved' = saved
      /\ events' = saved.events /\ revision' = saved.revision
      /\ edgesBySrc' = AddBySrc(none, saved.edges)
      /\ edgesByDst' = AddByDst(none, none, saved.edges)
      /\ byPartition' = [p \in Partitions |->
           {i \in DOMAIN saved.events : saved.events[i].partition_key = p}]
  BY DEF LoadSnapshot
<1>2. IsSnapshot(saved)
  BY <1>1 DEF GraphInv, TypeOK
<1>3. TypedMaps(none, none) /\ Agree(none, none)
  BY DEF TypedMaps, Agree
<1>4. \A i \in EventIds : none[i] = {}
  OBVIOUS
<1> HIDE DEF none
<1>5. /\ TypedMaps(edgesBySrc', edgesByDst')
      /\ Agree(edgesBySrc', edgesByDst')
      /\ \A i \in EventIds : \A e \in edgesBySrc'[i] : e \in saved.edges
  <2>1. saved.edges \in SUBSET Edge
    BY <1>2 DEF IsSnapshot
  <2> QED BY <2>1, <1>1, <1>3, <1>4, AddKeepsAgreement
<1>6. \A e \in saved.edges : GoodEdge(saved.events, e)
  BY <1>1 DEF GraphInv
<1>7. TypeOK'
  BY <1>1, <1>2, <1>5 DEF TypeOK, IsSnapshot, TypedMaps
<1>8. MapsAgree'
  BY <1>5 DEF MapsAgree, Agree
<1> QED BY <1>1, <1>5, <1>6, <1>7, <1>8 DEF GraphInv, GoodEdge

\* Every operation keeps the invariant.
LEMMA NextKeepsInv == GraphInv /\ [Next]_graphVars => GraphInv'
<1> SUFFICES ASSUME GraphInv, [Next]_graphVars PROVE GraphInv'
  OBVIOUS
<1>1. CASE UNCHANGED graphVars
  BY <1>1 DEF graphVars, GraphInv, TypeOK, MapsAgree, IsSnapshot
<1>2. CASE Next
  BY <1>2, UpsertKeepsInv, RemoveKeepsInv, SnapshotKeepsInv, LoadKeepsInv DEF Next
<1> QED BY <1>1, <1>2

\* The graph's invariant holds in every reachable state.
LEMMA GraphInvariant == Spec => []GraphInv
<1>1. Init => GraphInv
  BY InitGraphInv
<1> QED BY <1>1, NextKeepsInv, PTL DEF Spec

\* The variables keep their shape: events are stored under known ids, the
\* index and the edge maps are total.
THEOREM TypeCorrect == Spec => []TypeOK
<1>1. GraphInv => TypeOK
  BY DEF GraphInv
<1> QED BY <1>1, GraphInvariant, PTL

\* The two edge maps of TemporalGraphState always describe one set of edges.
THEOREM MapsAlwaysAgree == Spec => []MapsAgree
<1>1. GraphInv => MapsAgree
  BY DEF GraphInv
<1> QED BY <1>1, GraphInvariant, PTL

\* Every edge has stored ends, points forward in the order of the events as
\* they are now, and spans at most the gap; so no edge dangles and the graph
\* has no cycle.
THEOREM EdgesAlwaysForward == Spec => [](EdgesForward /\ TemporalEdgesLocal)
<1>1. GraphInv => EdgesForward /\ TemporalEdgesLocal
  BY DEF GraphInv, GoodEdge, ForwardEdge, EdgesForward, TemporalEdgesLocal, AllEdges
<1> QED BY <1>1, GraphInvariant, PTL

\* A parent edge joins an event with one that runs the process it names as its
\* parent, still after either of them was replaced; only between events of one
\* time may it point from the child to the parent.
THEOREM ParentEdgesAlwaysSound == Spec => []ParentEdgesSound
<1>1. GraphInv => ParentEdgesSound
  BY DEF GraphInv, GoodEdge, ForwardEdge, ParentLink, RunsParentOf, ParentEdgesSound, AllEdges
<1> QED BY <1>1, GraphInvariant, PTL

-----------------------------------------------------------------------------
(* The partition index.                                                    *)

\* An operation keeps the index exact, except for the key "".
LEMMA NextKeepsIndex == GraphInv /\ IndexExact /\ [Next]_graphVars => IndexExact'
<1> SUFFICES ASSUME GraphInv, IndexExact, [Next]_graphVars PROVE IndexExact'
  OBVIOUS
<1>0. TypeOK
  BY DEF GraphInv
<1>1. CASE UNCHANGED graphVars
  BY <1>1 DEF graphVars, IndexExact
<1>2. ASSUME NEW x \in EventIds, NEW ev \in Payloads, UpsertEvent(x, ev)
      PROVE  IndexExact'
  <2>1. /\ events' = [i \in DOMAIN events \cup {x} |-> IF i = x THEN ev ELSE events[i]]
        /\ byPartition' = Reindexed(x, ev.partition_key)
    BY <1>2 DEF UpsertEvent, Stored
  <2> QED BY <2>1, <1>0 DEF IndexExact, Reindexed, TypeOK
<1>3. ASSUME NEW x \in EventIds, RemoveEvent(x)
      PROVE  IndexExact'
  <2>1. CASE x \notin DOMAIN events
    BY <2>1, <1>3 DEF RemoveEvent, IndexExact
  <2>2. CASE x \in DOMAIN events
    <3>1. /\ events' = [i \in DOMAIN events \ {x} |-> events[i]]
          /\ byPartition' =
               [byPartition EXCEPT ![RemovalBucket(events[x].partition_key)] = @ \ {x}]
      BY <2>2, <1>3 DEF RemoveEvent
    <3>2. events[x].partition_key \in Partitions
      BY <2>2, <1>0 DEF TypeOK, Event
    <3>3. CASE events[x].partition_key = EmptyKey
      <4>1. byPartition' = [byPartition EXCEPT ![DefaultKey] = @ \ {x}]
        BY <3>1, <3>3 DEF RemovalBucket
      <4>2. x \notin byPartition[DefaultKey]
        BY <3>3, GraphAssumption DEF IndexExact
      <4> QED BY <4>1, <4>2, <3>1, <3>3, <1>0, GraphAssumption DEF IndexExact, TypeOK
    <3>4. CASE events[x].partition_key # EmptyKey
      <4>1. byPartition' = [byPartition EXCEPT ![events[x].partition_key] = @ \ {x}]
        BY <3>1, <3>4 DEF RemovalBucket
      <4> QED BY <4>1, <3>1, <3>2, <3>4, <1>0 DEF IndexExact, TypeOK
    <3> QED BY <3>3, <3>4
  <2> QED BY <2>1, <2>2
<1>4. CASE TakeSnapshot
  BY <1>4 DEF TakeSnapshot, IndexExact
<1>5. CASE LoadSnapshot
  BY <1>5 DEF LoadSnapshot, IndexExact
<1> QED BY <1>1, <1>2, <1>3, <1>4, <1>5 DEF Next

\* by_partition lists exactly the stored events of each partition key; for
\* the empty key it lists at least them.
THEOREM IndexAlwaysExact == Spec => []IndexExact
<1>1. Init => IndexExact
  BY DEF Init, IndexExact
<1> QED BY <1>1, GraphInvariant, NextKeepsIndex, PTL DEF Spec

-----------------------------------------------------------------------------
(* Entity edges: the incremental graph equals the rebuilt one.             *)

\* A rebuild would give an edge from s to d under this key.
Related(evts, key, s, d) ==
  /\ s \in DOMAIN evts /\ d \in DOMAIN evts /\ s # d
  /\ Precedes(evts, s, d)
  /\ WithinGap(evts, s, d)
  /\ evts[s].field[key] # NoValue
  /\ evts[s].field[key] = evts[d].field[key]

HasEdge(edges, key, s, d) ==
  \E e \in edges : e.src = s /\ e.dst = d /\ e.relation = key

Exact(evts, edges) ==
  \A key \in EntityKeys, s \in EventIds, d \in EventIds :
    HasEdge(edges, key, s, d) <=> Related(evts, key, s, d)

EntityInv ==
  /\ GraphInv
  /\ Exact(events, AllEdges)
  /\ saved # NoSnapshot => Exact(saved.events, saved.edges)

\* The entity edges an upsert of x adds are the related pairs with x in them.
LEMMA RebuiltExact ==
  ASSUME NEW evts, TypedEvents(evts), NEW index, NEW x \in DOMAIN evts,
         NEW key \in EntityKeys, NEW s \in EventIds, NEW d \in EventIds,
         s # d, x \in {s, d}
  PROVE  HasEdge(RebuiltEdges(evts, index, x), key, s, d) <=> Related(evts, key, s, d)
<1>1. x \in EventIds /\ EventIds \subseteq Int /\ \A i \in DOMAIN evts :
        i \in EventIds /\ i \in Int /\ evts[i].event_time_ms \in Nat
  BY GraphAssumption DEF TypedEvents, Event
<1>2. ASSUME NEW n \in DOMAIN evts
      PROVE  /\ ~Precedes(evts, x, n) => Precedes(evts, n, x)
             /\ Precedes(evts, x, n) /\ Precedes(evts, n, x) => n = x
             /\ WithinGap(evts, x, n) <=> WithinGap(evts, n, x)
  BY <1>1 DEF Precedes, WithinGap, Distance
<1>3. ASSUME HasEdge(RebuiltEdges(evts, index, x), key, s, d)
      PROVE  Related(evts, key, s, d)
  <2>1. PICK e \in RebuiltEdges(evts, index, x) : e.src = s /\ e.dst = d /\ e.relation = key
    BY <1>3 DEF HasEdge
  <2>2. ASSUME NEW a, NEW b, NEW rel, e = EdgeBetween(evts, a, b, rel)
        PROVE  rel = key
    BY <2>1, <2>2 DEF EdgeBetween
  <2>3. e \notin TemporalEdges(evts, index, x) /\ e \notin ParentEdges(evts, x)
    BY <2>2, GraphAssumption DEF TemporalEdges, ParentEdges
  <2>4. PICK n \in DOMAIN evts \ {x} :
               /\ e = EdgeBetween(evts, x, n, key)
               /\ evts[n].field[key] = evts[x].field[key]
               /\ evts[x].field[key] # NoValue
               /\ WithinGap(evts, x, n)
    BY <2>1, <2>2, <2>3 DEF RebuiltEdges, EntityEdges
  <2>5. CASE Precedes(evts, x, n)
    <3>1. s = x /\ d = n
      BY <2>1, <2>4, <2>5 DEF EdgeBetween
    <3> QED BY <3>1, <2>4, <2>5 DEF Related
  <2>6. CASE ~Precedes(evts, x, n)
    <3>1. s = n /\ d = x
      BY <2>1, <2>4, <2>6 DEF EdgeBetween
    <3> QED BY <3>1, <2>4, <2>6, <1>2 DEF Related
  <2> QED BY <2>5, <2>6
<1>4. ASSUME Related(evts, key, s, d)
      PROVE  HasEdge(RebuiltEdges(evts, index, x), key, s, d)
  <2>1. PICK n \in DOMAIN evts \ {x} : {s, d} = {x, n}
    BY <1>4 DEF Related
  <2>2. /\ evts[n].field[key] = evts[x].field[key]
        /\ evts[x].field[key] # NoValue
        /\ WithinGap(evts, x, n)
    BY <1>2, <1>4, <2>1 DEF Related
  <2>3. EdgeBetween(evts, x, n, key) \in RebuiltEdges(evts, index, x)
    BY <2>1, <2>2 DEF RebuiltEdges, EntityEdges
  <2>4. /\ EdgeBetween(evts, x, n, key).src = s
        /\ EdgeBetween(evts, x, n, key).dst = d
        /\ EdgeBetween(evts, x, n, key).relation = key
    BY <1>2, <1>4, <2>1 DEF Related, EdgeBetween
  <2> QED BY <2>3, <2>4 DEF HasEdge
<1> QED BY <1>3, <1>4

\* An edge a rebuild of x gives has x as one of its ends.
LEMMA RebuiltTouches ==
  ASSUME NEW evts, NEW index, NEW x, NEW e \in RebuiltEdges(evts, index, x)
  PROVE  x \in {e.src, e.dst}
BY DEF RebuiltEdges, TemporalEdges, EntityEdges, ParentEdges, EdgeBetween

\* A pair that does not involve x is related after x was stored or removed
\* exactly when it was before.
LEMMA RelatedIsLocal ==
  ASSUME NEW evts, NEW after, NEW key, NEW s, NEW d,
         s \in DOMAIN evts <=> s \in DOMAIN after,
         d \in DOMAIN evts <=> d \in DOMAIN after,
         after[s] = evts[s], after[d] = evts[d]
  PROVE  Related(evts, key, s, d) <=> Related(after, key, s, d)
BY DEF Related, Precedes, WithinGap, Distance

\* Storing an event keeps the entity edges exact.
LEMMA UpsertKeepsExact ==
  ASSUME EntityInv, NEW x \in EventIds, NEW ev \in Payloads, UpsertEvent(x, ev)
  PROVE  Exact(events', AllEdges')
<1> DEFINE edges == RebuiltEdges(events', byPartition', x)
<1>1. TypedEvents(events) /\ ev \in Event
  BY GraphAssumption DEF EntityInv, GraphInv, TypeOK, TypedEvents
<1>2. /\ events' = [i \in DOMAIN events \cup {x} |-> IF i = x THEN ev ELSE events[i]]
      /\ DOMAIN events' = DOMAIN events \cup {x}
  BY DEF UpsertEvent, Stored
<1>3. TypedEvents(events')
  BY <1>1, <1>2 DEF TypedEvents
<1>4. /\ TypedMaps(edgesBySrc, edgesByDst)
      /\ Agree(edgesBySrc, edgesByDst)
  BY DEF EntityInv, GraphInv, TypeOK, MapsAgree, TypedMaps, Agree
<1>5. \A i \in EventIds : KeptBySrc(x)[i] = {e \in edgesBySrc[i] : x \notin {e.src, e.dst}}
  <2>1. CASE x \in DOMAIN events
    BY <2>1, <1>4, RemoveErasesTouching DEF KeptBySrc
  <2>2. CASE x \notin DOMAIN events
    BY <2>2 DEF KeptBySrc, EntityInv, GraphInv, GoodEdge, ForwardEdge
  <2> QED BY <2>1, <2>2
<1>6. edgesBySrc' = AddBySrc(KeptBySrc(x), edges)
  BY DEF UpsertEvent
<1>7. \A e \in edges : x \in {e.src, e.dst} /\ e.src \in EventIds
  BY <1>2, <1>3, RebuiltTouches, RebuiltForward DEF ForwardEdge, TypedEvents
<1> HIDE DEF edges
<1>8. NewEdges(KeptBySrc(x), edges) = {e \in edges : e.src # e.dst}
  <2>1. ASSUME NEW e \in edges, NEW f \in KeptBySrc(x)[e.src], f.dst = e.dst
        PROVE  FALSE
    <3>1. f.src = e.src /\ x \notin {f.src, f.dst}
      BY <2>1, <1>4, <1>5, <1>7 DEF Agree
    <3> QED BY <2>1, <3>1, <1>7
  <2> QED BY <2>1 DEF NewEdges
<1>9. ASSUME NEW key \in EntityKeys, NEW s \in EventIds, NEW d \in EventIds
      PROVE  HasEdge(AllEdges', key, s, d) <=> Related(events', key, s, d)
  <2>0. edgesBySrc' = [i \in EventIds |-> KeptBySrc(x)[i] \cup
                         {e \in edges : e.src # e.dst /\ e.src = i}]
    BY <1>6, <1>8 DEF AddBySrc
  <2>a. \A e \in AllEdges' : (\E i \in EventIds : e \in KeptBySrc(x)[i])
                              \/ (e \in edges /\ e.src # e.dst)
    BY <2>0 DEF AllEdges
  <2>b. \A i \in EventIds : KeptBySrc(x)[i] \subseteq AllEdges'
    BY <2>0 DEF AllEdges
  <2>c. {e \in edges : e.src # e.dst} \subseteq AllEdges'
    BY <2>0, <1>7 DEF AllEdges
  <2>1. CASE x \notin {s, d}
    <3>1. HasEdge(AllEdges', key, s, d) <=> HasEdge(AllEdges, key, s, d)
      BY <2>1, <2>a, <2>b, <1>5, <1>7 DEF HasEdge, AllEdges
    <3>2. HasEdge(AllEdges, key, s, d) <=> Related(events, key, s, d)
      BY DEF EntityInv, Exact
    <3>3. Related(events, key, s, d) <=> Related(events', key, s, d)
      <4>1. CASE s \in DOMAIN events /\ d \in DOMAIN events
        BY <4>1, <2>1, <1>2, RelatedIsLocal
      <4>2. CASE ~(s \in DOMAIN events /\ d \in DOMAIN events)
        BY <4>2, <2>1, <1>2 DEF Related
      <4> QED BY <4>1, <4>2
    <3> QED BY <3>1, <3>2, <3>3
  <2>2. CASE x \in {s, d} /\ s # d
    <3>1. HasEdge(AllEdges', key, s, d) <=> HasEdge(edges, key, s, d)
      BY <2>2, <2>a, <2>c, <1>5 DEF HasEdge
    <3>2. HasEdge(edges, key, s, d) <=> Related(events', key, s, d)
      BY <2>2, <1>2, <1>3, RebuiltExact DEF edges
    <3> QED BY <3>1, <3>2
  <2>3. CASE x \in {s, d} /\ s = d
    BY <2>3, <2>a, <1>5 DEF HasEdge, Related
  <2> QED BY <2>1, <2>2, <2>3
<1> QED BY <1>9 DEF Exact

\* Removing an event keeps them exact.
LEMMA RemoveKeepsExact ==
  ASSUME EntityInv, NEW x \in EventIds, RemoveEvent(x)
  PROVE  Exact(events', AllEdges')
<1>1. CASE x \notin DOMAIN events
  <2>1. events' = events /\ AllEdges' = AllEdges
    BY <1>1 DEF RemoveEvent, AllEdges
  <2> QED BY <2>1 DEF EntityInv
<1>2. CASE x \in DOMAIN events
  <2>1. /\ events' = [i \in DOMAIN events \ {x} |-> events[i]]
        /\ edgesBySrc' = RemoveBySrc(edgesBySrc, edgesByDst, x)
    BY <1>2 DEF RemoveEvent
  <2>2. /\ TypedMaps(edgesBySrc, edgesByDst)
        /\ Agree(edgesBySrc, edgesByDst)
    BY DEF EntityInv, GraphInv, TypeOK, MapsAgree, TypedMaps, Agree
  <2>3. \A i \in EventIds :
          edgesBySrc'[i] = {e \in edgesBySrc[i] : x \notin {e.src, e.dst}}
    BY <2>1, <2>2, RemoveErasesTouching
  <2>4. ASSUME NEW key \in EntityKeys, NEW s \in EventIds, NEW d \in EventIds
        PROVE  HasEdge(AllEdges', key, s, d) <=> Related(events', key, s, d)
    <3>1. CASE x \notin {s, d}
      <4>1. HasEdge(AllEdges', key, s, d) <=> HasEdge(AllEdges, key, s, d)
        BY <3>1, <2>3 DEF HasEdge, AllEdges
      <4>2. HasEdge(AllEdges, key, s, d) <=> Related(events, key, s, d)
        BY DEF EntityInv, Exact
      <4>3. Related(events, key, s, d) <=> Related(events', key, s, d)
        <5>1. CASE s \in DOMAIN events /\ d \in DOMAIN events
          BY <5>1, <3>1, <2>1, RelatedIsLocal
        <5>2. CASE ~(s \in DOMAIN events /\ d \in DOMAIN events)
          BY <5>2, <2>1 DEF Related
        <5> QED BY <5>1, <5>2
      <4> QED BY <4>1, <4>2, <4>3
    <3>2. CASE x \in {s, d}
      BY <3>2, <2>1, <2>3 DEF HasEdge, AllEdges, Related
    <3> QED BY <3>1, <3>2
  <2> QED BY <2>4 DEF Exact
<1> QED BY <1>1, <1>2

\* Restoring a snapshot keeps them exact.
LEMMA LoadKeepsExact ==
  ASSUME EntityInv, LoadSnapshot
  PROVE  Exact(events', AllEdges')
<1>1. \A e \in saved.edges : e.src # e.dst /\ e.src \in EventIds
  BY LoadKeepsInv DEF EntityInv, GraphInv, TypeOK, IsSnapshot, Edge, LoadSnapshot
<1>2. edgesBySrc' = [i \in EventIds |-> {e \in saved.edges : e.src = i}]
  BY <1>1 DEF LoadSnapshot, AddBySrc, NewEdges
<1>3. AllEdges' = saved.edges
  BY <1>1, <1>2 DEF AllEdges
<1> QED BY <1>3 DEF EntityInv, LoadSnapshot

\* Every step keeps the entity edges exact.
LEMMA NextKeepsEntityInv == EntityInv /\ [Next]_graphVars => EntityInv'
<1> SUFFICES ASSUME EntityInv, [Next]_graphVars PROVE EntityInv'
  OBVIOUS
<1>1. GraphInv'
  BY NextKeepsInv DEF EntityInv
<1>2. CASE UNCHANGED graphVars
  BY <1>1, <1>2 DEF graphVars, EntityInv, AllEdges
<1>3. ASSUME NEW x \in EventIds, NEW ev \in Payloads, UpsertEvent(x, ev)
      PROVE  EntityInv'
  BY <1>1, <1>3, UpsertKeepsExact DEF EntityInv, UpsertEvent
<1>4. ASSUME NEW x \in EventIds, RemoveEvent(x)
      PROVE  EntityInv'
  BY <1>1, <1>4, RemoveKeepsExact DEF EntityInv, RemoveEvent
<1>5. CASE TakeSnapshot
  BY <1>1, <1>5 DEF EntityInv, TakeSnapshot, AllEdges
<1>6. CASE LoadSnapshot
  BY <1>1, <1>6, LoadKeepsExact DEF EntityInv, LoadSnapshot
<1> QED BY <1>2, <1>3, <1>4, <1>5, <1>6 DEF Next

\* The entity edges kept up one event at a time are at every moment the ones
\* a rebuild from all stored events would give.
THEOREM EntityEdgesAlwaysExact == Spec => []EntityEdgesExact
<1>1. Init => EntityInv
  <2>1. Init => Exact(events, AllEdges)
    BY DEF Init, Exact, HasEdge, Related, AllEdges
  <2> QED BY <2>1, InitGraphInv DEF EntityInv, Init
<1>2. EntityInv => EntityEdgesExact
  <2> SUFFICES ASSUME EntityInv, NEW key \in EntityKeys
               PROVE  {<<e.src, e.dst>> : e \in {f \in AllEdges : f.relation = key}} =
                      {d \in (DOMAIN events) \X (DOMAIN events) :
                         /\ d[1] # d[2]
                         /\ Precedes(events, d[1], d[2])
                         /\ WithinGap(events, d[1], d[2])
                         /\ events[d[1]].field[key] # NoValue
                         /\ events[d[1]].field[key] = events[d[2]].field[key]}
    BY DEF EntityEdgesExact
  <2>1. DOMAIN events \subseteq EventIds
    BY DEF EntityInv, GraphInv, TypeOK
  <2>2. ASSUME NEW e \in AllEdges, e.relation = key
        PROVE  Related(events, key, e.src, e.dst)
    <3>1. e.src \in EventIds /\ e.dst \in EventIds
      BY <2>1 DEF EntityInv, GraphInv, AllEdges, GoodEdge, ForwardEdge
    <3> QED BY <2>2, <3>1 DEF EntityInv, Exact, HasEdge
  <2>3. ASSUME NEW s \in DOMAIN events, NEW d \in DOMAIN events, Related(events, key, s, d)
        PROVE  \E e \in AllEdges : e.relation = key /\ e.src = s /\ e.dst = d
    BY <2>1, <2>3 DEF EntityInv, Exact, HasEdge
  <2> QED BY <2>2, <2>3 DEF Related
<1> QED BY <1>1, <1>2, NextKeepsEntityInv, PTL DEF Spec

-----------------------------------------------------------------------------
(* Edges between other events.                                             *)

\* Storing an event keeps the edges between the others.
LEMMA UpsertKeepsOthers ==
  ASSUME GraphInv, NEW x \in EventIds, NEW ev \in Payloads, UpsertEvent(x, ev)
  PROVE  EdgesWithout(x)' = EdgesWithout(x)
<1> DEFINE edges == RebuiltEdges(events', byPartition', x)
           new == NewEdges(KeptBySrc(x), edges)
<1>1. TypedMaps(edgesBySrc, edgesByDst) /\ Agree(edgesBySrc, edgesByDst)
  BY DEF GraphInv, TypeOK, MapsAgree, TypedMaps, Agree
<1>2. \A i \in EventIds : KeptBySrc(x)[i] = {e \in edgesBySrc[i] : x \notin {e.src, e.dst}}
  <2>1. CASE x \in DOMAIN events
    BY <2>1, <1>1, RemoveErasesTouching DEF KeptBySrc
  <2>2. CASE x \notin DOMAIN events
    BY <2>2 DEF KeptBySrc, GraphInv, GoodEdge, ForwardEdge
  <2> QED BY <2>1, <2>2
<1>3. edgesBySrc' = [i \in EventIds |-> KeptBySrc(x)[i] \cup {e \in new : e.src = i}]
  BY DEF UpsertEvent, AddBySrc
<1>4. \A e \in new : x \in {e.src, e.dst}
  BY RebuiltTouches DEF NewEdges
<1> HIDE DEF new
<1> QED BY <1>2, <1>3, <1>4 DEF AllEdges, EdgesWithout

\* Removing an event keeps them.
LEMMA RemoveKeepsOthers ==
  ASSUME GraphInv, NEW x \in EventIds, RemoveEvent(x)
  PROVE  EdgesWithout(x)' = EdgesWithout(x)
<1>1. TypedMaps(edgesBySrc, edgesByDst) /\ Agree(edgesBySrc, edgesByDst)
  BY DEF GraphInv, TypeOK, MapsAgree, TypedMaps, Agree
<1>2. CASE x \in DOMAIN events
  <2>1. edgesBySrc' = RemoveBySrc(edgesBySrc, edgesByDst, x)
    BY <1>2 DEF RemoveEvent
  <2>2. \A i \in EventIds : edgesBySrc'[i] = {e \in edgesBySrc[i] : x \notin {e.src, e.dst}}
    BY <2>1, <1>1, RemoveErasesTouching
  <2> QED BY <2>2 DEF AllEdges, EdgesWithout
<1>3. CASE x \notin DOMAIN events
  BY <1>3 DEF RemoveEvent, AllEdges, EdgesWithout
<1> QED BY <1>2, <1>3

\* A mutation of one event leaves the edges between all other events alone.
THEOREM OtherEdgesAlwaysKept == Spec => OtherEdgesKept
<1>1. GraphInv =>
        \A x \in EventIds : EdgesWithout(x)' = EdgesWithout(x) \/ ~Mutates(x)
  BY UpsertKeepsOthers, RemoveKeepsOthers DEF Mutates
<1> QED BY <1>1, GraphInvariant, PTL DEF Spec, OtherEdgesKept

-----------------------------------------------------------------------------
(* Late arrival.                                                           *)

\* A feed of new events: nothing is replaced, removed, saved or restored.
ArrivalNext == \E x \in EventIds \ DOMAIN events, ev \in Payloads : UpsertEvent(x, ev)
ArrivalSpec == Init /\ [][ArrivalNext]_graphVars

ArrivalInv ==
  /\ GraphInv
  /\ \A p \in Partitions : byPartition[p] = {i \in DOMAIN events : events[i].partition_key = p}
  /\ NeighboursLinked

\* A new event is linked to both its neighbours, and the events it does not
\* come between stay linked.
LEMMA ArrivalKeepsInv == ArrivalInv /\ [ArrivalNext]_graphVars => ArrivalInv'
<1> SUFFICES ASSUME ArrivalInv, [ArrivalNext]_graphVars PROVE ArrivalInv'
  OBVIOUS
<1>1. CASE UNCHANGED graphVars
  <2>1. GraphInv'
    BY <1>1, NextKeepsInv DEF ArrivalInv
  <2> QED BY <1>1, <2>1 DEF graphVars, ArrivalInv, NeighboursLinked, Members, Adjacent,
                            Precedes, WithinGap, Distance
<1>2. ASSUME NEW x \in EventIds, x \notin DOMAIN events, NEW ev \in Payloads, UpsertEvent(x, ev)
      PROVE  ArrivalInv'
  <2> DEFINE edges == RebuiltEdges(events', byPartition', x)
  <2>1. GraphInv' /\ TypedEvents(events')
    BY <1>2, UpsertKeepsInv DEF ArrivalInv, GraphInv, TypeOK, TypedEvents
  <2>2. /\ DOMAIN events' = DOMAIN events \cup {x}
        /\ events'[x] = ev
        /\ \A i \in DOMAIN events : events'[i] = events[i]
    BY <1>2 DEF UpsertEvent, Stored
  <2>3. \A p \in Partitions :
          byPartition'[p] = {i \in DOMAIN events' : events'[i].partition_key = p}
    BY <1>2, <2>2 DEF ArrivalInv, UpsertEvent, Reindexed
  <2>4. \A p \in Partitions :
          /\ Members(events, byPartition, p) = {i \in DOMAIN events : events[i].partition_key = p}
          /\ Members(events', byPartition', p) = {i \in DOMAIN events' : events'[i].partition_key = p}
    BY <2>3 DEF ArrivalInv, Members
  <2>5. /\ \A i \in EventIds : edgesBySrc[i] \subseteq edgesBySrc'[i]
        /\ \A e \in edges : e.src # e.dst => e \in edgesBySrc'[e.src]
    <3>1. edgesBySrc' = AddBySrc(edgesBySrc, edges)
      BY <1>2 DEF UpsertEvent, KeptBySrc
    <3>2. \A e \in edges : x \in {e.src, e.dst} /\ e.src \in EventIds
      BY <2>1, <2>2, RebuiltTouches, RebuiltForward DEF Edge
    <3>3. \A i \in EventIds : \A f \in edgesBySrc[i] :
            f.src = i /\ x \notin {f.src, f.dst}
      BY <1>2 DEF ArrivalInv, GraphInv, MapsAgree, GoodEdge, ForwardEdge
    <3> HIDE DEF edges
    <3>4. \A e \in edges : e.src # e.dst => e \in NewEdges(edgesBySrc, edges)
      BY <3>2, <3>3 DEF NewEdges
    <3> QED BY <3>1, <3>2, <3>4 DEF AddBySrc
  <2>6. ASSUME NEW p \in Partitions,
               NEW a \in Members(events', byPartition', p),
               NEW b \in Members(events', byPartition', p),
               a # b, Precedes(events', a, b),
               Adjacent(events', Members(events', byPartition', p), a, b),
               WithinGap(events', a, b)
        PROVE  \E e \in edgesBySrc'[a] : e.dst = b /\ e.relation = "temporal_next"
    <3> DEFINE M == Members(events', byPartition', p)
    <3>1. /\ a \in DOMAIN events' /\ b \in DOMAIN events' /\ a \in EventIds
          /\ events'[a].partition_key = p /\ events'[b].partition_key = p
          /\ a \in Int /\ b \in Int
          /\ events'[a].event_time_ms \in Nat /\ events'[b].event_time_ms \in Nat
      BY <2>1, <2>4, GraphAssumption DEF TypedEvents, Event
    <3>2. CASE x \in {a, b}
      <4>1. PICK n : n \in M \ {x} /\ {a, b} = {x, n}
        BY <2>6, <3>2
      <4>2. WithinGap(events', x, n) /\ Adjacent(events', M, x, n)
        <5>1. WithinGap(events', b, a)
          BY <2>6, <3>1 DEF WithinGap, Distance
        <5>2. Adjacent(events', M, b, a)
          BY <2>6 DEF Adjacent
        <5> QED BY <2>6, <4>1, <5>1, <5>2
      <4>3. EdgeBetween(events', x, n, "temporal_next") \in edges
        BY <3>1, <3>2, <4>1, <4>2 DEF RebuiltEdges, TemporalEdges
      <4>4. ~Precedes(events', b, a)
        BY <2>6, <3>1 DEF Precedes
      <4>5. LET e == EdgeBetween(events', x, n, "temporal_next")
            IN  e.src = a /\ e.dst = b /\ e.relation = "temporal_next"
        BY <2>6, <4>1, <4>4 DEF EdgeBetween
      <4> QED BY <2>5, <2>6, <4>3, <4>5
    <3>3. CASE x \notin {a, b}
      <4>1. /\ a \in Members(events, byPartition, p) /\ b \in Members(events, byPartition, p)
            /\ Members(events, byPartition, p) \subseteq M
        BY <3>1, <3>3, <2>2, <2>4
      <4>2. \A i \in Members(events, byPartition, p) : events'[i] = events[i]
        BY <2>2, <2>4
      <4>3. Precedes(events, a, b) /\ WithinGap(events, a, b)
        BY <2>6, <4>1, <4>2 DEF Precedes, WithinGap, Distance
      <4>4. Adjacent(events, Members(events, byPartition, p), a, b)
        BY <2>6, <4>1, <4>2 DEF Adjacent, Precedes
      <4>5. \E e \in edgesBySrc[a] : e.dst = b /\ e.relation = "temporal_next"
        BY <2>6, <4>1, <4>3, <4>4 DEF ArrivalInv, NeighboursLinked
      <4> QED BY <4>5, <3>1, <2>5
    <3> QED BY <3>2, <3>3
  <2>7. NeighboursLinked'
    BY <2>6 DEF NeighboursLinked
  <2> QED BY <2>1, <2>3, <2>7 DEF ArrivalInv
<1> QED BY <1>1, <1>2 DEF ArrivalNext

\* In whatever order new events arrive, every two neighbours of a partition
\* that are near enough are joined: a late event is linked on both sides.
THEOREM ArrivalsAlwaysLinked == ArrivalSpec => []NeighboursLinked
<1>1. Init => ArrivalInv
  BY InitGraphInv DEF Init, ArrivalInv, NeighboursLinked, Members
<1>2. ArrivalInv => NeighboursLinked
  BY DEF ArrivalInv
<1> QED BY <1>1, <1>2, ArrivalKeepsInv, PTL DEF ArrivalSpec

\* The same of TemporalFeed, whose history tells whether all was new.
THEOREM LateEventsAlwaysLinked == FeedSpec => []LateEventsLinked
<1> DEFINE Inv == GraphInv /\ (feed => ArrivalInv)
<1>1. FeedInit => Inv
  BY InitGraphInv DEF FeedInit, Init, ArrivalInv, NeighboursLinked, Members
<1>2. Inv /\ [FeedNext]_<<graphVars, feed>> => Inv'
  <2> SUFFICES ASSUME Inv, [FeedNext]_<<graphVars, feed>>
               PROVE  Inv'
    OBVIOUS
  <2>1. GraphInv'
    <3>1. [Next]_graphVars
      BY DEF FeedNext, FeedUpsert, FeedRemove, FeedSave, FeedRestore, Next
    <3> QED BY <3>1, NextKeepsInv
  <2>2. ASSUME feed' PROVE ArrivalInv'
    <3>1. CASE \E x \in EventIds, ev \in Payloads : FeedUpsert(x, ev)
      <4>1. ArrivalNext /\ feed
        BY <2>2, <3>1 DEF FeedUpsert, ArrivalNext
      <4> QED BY <4>1, ArrivalKeepsInv
    <3>2. CASE FeedSave \/ UNCHANGED <<graphVars, feed>>
      <4>1. /\ feed
            /\ UNCHANGED <<events, byPartition, edgesBySrc>>
        BY <2>2, <3>2 DEF FeedSave, TakeSnapshot, graphVars
      <4> QED BY <2>1, <4>1 DEF ArrivalInv, NeighboursLinked, Members, Adjacent,
                                Precedes, WithinGap, Distance
    <3> QED BY <2>2, <3>1, <3>2 DEF FeedNext, FeedRemove, FeedRestore
  <2> QED BY <2>1, <2>2
<1>3. Inv => LateEventsLinked
  BY DEF ArrivalInv, LateEventsLinked
<1> QED BY <1>1, <1>2, <1>3, PTL DEF FeedSpec

-----------------------------------------------------------------------------
(* The deliveries.                                                         *)

\* During a call the waiting positive matches are active and the waiting
\* cancellations are not; the event in delivery has reached exactly the
\* sinks before the next one; no reader misses a positive match.
CoreInv ==
  /\ sink \in Sinks
  /\ DOMAIN view = Sinks
  /\ positives \subseteq active
  /\ cancels \cap active = {}
  /\ \/ sink = 1 /\ current = {}
     \/ sink > 1 /\ \E t \in positives \cup cancels : current = {t}
  /\ \A s \in Sinks : s < sink =>
       /\ current \cap positives \subseteq view[s]
       /\ current \cap cancels \cap view[s] = {}
  /\ \A s \in Sinks : active \subseteq view[s] \cup positives

\* Without faults the readers catch up in both respects.
DeliveryInv == CoreInv /\ ReadersCatchUp

\* An event that waits has reached no sink but those it was delivered to.
FreshInv ==
  \A s \in Sinks :
    /\ \A t \in positives : t \in view[s] => t \in current /\ s < sink
    /\ \A t \in cancels : t \notin view[s] => t \in current /\ s < sink

-----------------------------------------------------------------------------
(* Evaluation and delivery.                                                *)

\* Between calls no delivery is under way.
LEMMA IdleMeansNothingInDelivery ==
  DeliveryInv /\ Idle => sink = 1 /\ current = {} /\ ReadersCatchUp
BY DEF DeliveryInv, CoreInv, Idle

\* The trends computed for a partition carry its key.
LEMMA TrendsCarryPartition ==
  ASSUME NEW stored, NEW p
  PROVE  \A t \in CurrentTrends(stored, p) : t.partition_key = p
BY DEF CurrentTrends

\* A re-evaluation sets up its deliveries.
LEMMA ReevaluateKeepsCore ==
  ASSUME CoreInv, Idle, NEW p, Reevaluate(p)
  PROVE  CoreInv' /\ (ReadersCatchUp => ReadersCatchUp')
<1> DEFINE now == CurrentTrends(StoredIn(events', byPartition', p), p)
           previous == {t \in active : t.partition_key = p}
<1>1. /\ positives' = now \ previous
      /\ cancels' = IF EmitCancellations THEN previous \ now ELSE {}
      /\ active' = (active \ previous) \cup now
      /\ current' = current /\ sink' = sink /\ view' = view
  BY DEF Reevaluate
<1>2. /\ sink = 1 /\ current = {} /\ positives = {} /\ cancels = {}
      /\ sink \in Sinks /\ DOMAIN view = Sinks
      /\ \A s \in Sinks : active \subseteq view[s]
  BY DEF Idle, CoreInv
<1>3. previous \subseteq active
  OBVIOUS
<1> HIDE DEF now, previous
<1>4. positives' \subseteq active' /\ cancels' \cap active' = {}
  BY <1>1
<1>5. \A s \in Sinks : active' \subseteq view'[s] \cup positives'
  BY <1>1, <1>2, <1>3
<1>6. ASSUME ReadersCatchUp, EmitCancellations, NEW s \in Sinks
      PROVE  (view'[s] \cup positives') \ cancels' = active'
  <2>1. view[s] = active
    BY <1>2, <1>6 DEF ReadersCatchUp
  <2> QED BY <2>1, <1>1, <1>3, <1>6
<1>7. ReadersCatchUp => ReadersCatchUp'
  BY <1>5, <1>6 DEF ReadersCatchUp, Sinks
<1> QED BY <1>1, <1>2, <1>4, <1>5, <1>7 DEF CoreInv, Sinks

\* A re-evaluation announces only what a reader does not have.
LEMMA ReevaluateKeepsFresh ==
  ASSUME DeliveryInv, Idle, NEW p, Reevaluate(p), EmitCancellations
  PROVE  FreshInv'
<1> DEFINE now == CurrentTrends(StoredIn(events', byPartition', p), p)
           previous == {t \in active : t.partition_key = p}
<1>1. positives' = now \ previous /\ cancels' = previous \ now /\ view' = view
  BY DEF Reevaluate
<1>2. \A s \in Sinks : view[s] = active
  BY DEF DeliveryInv, CoreInv, ReadersCatchUp, Idle
<1>3. \A t \in now : t.partition_key = p
  BY TrendsCarryPartition
<1> HIDE DEF now
<1> QED BY <1>1, <1>2, <1>3 DEF FreshInv, Sinks

\* One positive match reaching one sink.
LEMMA PositiveKeepsCore ==
  ASSUME CoreInv, DeliverPositive
  PROVE  CoreInv' /\ (ReadersCatchUp => ReadersCatchUp')
<1>0. NSinks \in Nat \ {0} /\ sink \in 1..NSinks
  BY RuntimeAssumption DEF CoreInv, Sinks
<1>1. PICK t \in NextPositives :
        /\ view' = [view EXCEPT ![sink] = @ \cup {t}]
        /\ positives' = IF sink = NSinks THEN positives \ {t} ELSE positives
        /\ Advance(t)
        /\ UNCHANGED <<cancels, active>>
  BY DEF DeliverPositive
<1>2. t \in positives /\ t \in active /\ t \notin cancels
  BY <1>1 DEF NextPositives, CoreInv
<1>3. sink > 1 => current = {t}
  BY <1>1 DEF NextPositives, CoreInv
<1>4. \A s \in Sinks : view'[s] = IF s = sink THEN view[s] \cup {t} ELSE view[s]
  BY <1>1 DEF CoreInv
<1>5. \A s \in Sinks : s < sink => t \in view[s]
  BY <1>2, <1>3, <1>0 DEF CoreInv, Sinks
<1>6. ASSUME NEW s \in Sinks, s <= sink
      PROVE  t \in view'[s]
  <2>1. CASE s = sink
    BY <2>1, <1>4
  <2>2. CASE s # sink
    <3>1. s < sink
      BY <2>2, <1>0, <1>6 DEF Sinks
    <3> QED BY <3>1, <2>2, <1>4, <1>5
  <2> QED BY <2>1, <2>2
<1>a. sink = NSinks => \A s \in Sinks : t \in view'[s]
  BY <1>0, <1>6 DEF Sinks
<1>7. /\ \A s \in Sinks : active' \subseteq view'[s] \cup positives'
      /\ ReadersCatchUp => ReadersCatchUp'
  <2>1. ASSUME NEW s \in Sinks
        PROVE  /\ active' \subseteq view'[s] \cup positives'
               /\ (EmitCancellations => (view[s] \cup positives) \ cancels = active) =>
                    (EmitCancellations => (view'[s] \cup positives') \ cancels' = active')
    <3>1. active \subseteq view[s] \cup positives
      BY DEF CoreInv
    <3>2. view'[s] \cup positives' = view[s] \cup positives
      BY <1>1, <1>2, <1>4, <1>a
    <3> QED BY <3>1, <3>2, <1>1
  <2> QED BY <2>1 DEF ReadersCatchUp, Sinks
<1>8. DOMAIN view' = Sinks /\ positives' \subseteq active' /\ cancels' \cap active' = {}
  BY <1>1 DEF CoreInv
<1>9. CASE sink = NSinks
  <2>1. sink' = 1 /\ current' = {}
    BY <1>9, <1>1 DEF Advance
  <2> QED BY <2>1, <1>7, <1>8, <1>0 DEF CoreInv, Sinks
<1>10. CASE sink # NSinks
  <2>1. sink' = sink + 1 /\ current' = {t} /\ positives' = positives
    BY <1>10, <1>1 DEF Advance
  <2>2. sink' \in Sinks /\ sink' > 1
    BY <2>1, <1>0, <1>10 DEF Sinks
  <2>3. \A s \in Sinks : s < sink' => t \in view'[s]
    BY <2>1, <1>0, <1>6 DEF Sinks
  <2> QED BY <2>1, <2>2, <2>3, <1>1, <1>2, <1>7, <1>8 DEF CoreInv, Sinks
<1> QED BY <1>9, <1>10

\* One cancellation reaching one sink.
LEMMA CancelKeepsCore ==
  ASSUME CoreInv, DeliverCancel
  PROVE  CoreInv' /\ (ReadersCatchUp => ReadersCatchUp')
<1>0. NSinks \in Nat \ {0} /\ sink \in 1..NSinks
  BY RuntimeAssumption DEF CoreInv, Sinks
<1>1. PICK t \in NextCancels :
        /\ view' = [view EXCEPT ![sink] = @ \ {t}]
        /\ cancels' = IF sink = NSinks THEN cancels \ {t} ELSE cancels
        /\ Advance(t)
        /\ UNCHANGED <<positives, active>>
  BY DEF DeliverCancel
<1>2. t \in cancels /\ t \notin active /\ t \notin positives
  BY <1>1 DEF NextCancels, CoreInv
<1>3. sink > 1 => current = {t}
  BY <1>1 DEF NextCancels, CoreInv
<1>4. \A s \in Sinks : view'[s] = IF s = sink THEN view[s] \ {t} ELSE view[s]
  BY <1>1 DEF CoreInv
<1>5. \A s \in Sinks : s < sink => t \notin view[s]
  BY <1>2, <1>3, <1>0 DEF CoreInv, Sinks
<1>6. ASSUME NEW s \in Sinks, s <= sink
      PROVE  t \notin view'[s]
  <2>1. CASE s = sink
    BY <2>1, <1>4
  <2>2. CASE s # sink
    <3>1. s < sink
      BY <2>2, <1>0, <1>6 DEF Sinks
    <3> QED BY <3>1, <2>2, <1>4, <1>5
  <2> QED BY <2>1, <2>2
<1>a. sink = NSinks => \A s \in Sinks : t \notin view'[s]
  BY <1>0, <1>6 DEF Sinks
<1>7. /\ \A s \in Sinks : active' \subseteq view'[s] \cup positives'
      /\ ReadersCatchUp => ReadersCatchUp'
  <2>1. ASSUME NEW s \in Sinks
        PROVE  /\ active' \subseteq view'[s] \cup positives'
               /\ (EmitCancellations => (view[s] \cup positives) \ cancels = active) =>
                    (EmitCancellations => (view'[s] \cup positives') \ cancels' = active')
    <3>1. active \subseteq view[s] \cup positives
      BY DEF CoreInv
    <3>2. /\ view'[s] \subseteq view[s] /\ view[s] \subseteq view'[s] \cup {t}
          /\ cancels' \subseteq cancels /\ cancels \subseteq cancels' \cup {t}
          /\ t \in cancels' \/ t \notin view'[s]
      BY <1>1, <1>2, <1>4, <1>a
    <3> QED BY <3>1, <3>2, <1>1, <1>2
  <2> QED BY <2>1 DEF ReadersCatchUp, Sinks
<1>8. DOMAIN view' = Sinks /\ positives' \subseteq active' /\ cancels' \cap active' = {}
  BY <1>1 DEF CoreInv
<1>9. CASE sink = NSinks
  <2>1. sink' = 1 /\ current' = {}
    BY <1>9, <1>1 DEF Advance
  <2> QED BY <2>1, <1>7, <1>8, <1>0 DEF CoreInv, Sinks
<1>10. CASE sink # NSinks
  <2>1. sink' = sink + 1 /\ current' = {t} /\ cancels' = cancels
    BY <1>10, <1>1 DEF Advance
  <2>2. sink' \in Sinks /\ sink' > 1
    BY <2>1, <1>0, <1>10 DEF Sinks
  <2>3. \A s \in Sinks : s < sink' => t \notin view'[s]
    BY <2>1, <1>0, <1>6 DEF Sinks
  <2> QED BY <2>1, <2>2, <2>3, <1>1, <1>2, <1>7, <1>8 DEF CoreInv, Sinks
<1> QED BY <1>9, <1>10

\* Nothing is in delivery at first.
LEMMA InitDelivery == RuntimeInit => DeliveryInv
BY RuntimeAssumption DEF RuntimeInit, DeliveryInv, CoreInv, ReadersCatchUp, Sinks

\* Every step of a runtime without faults keeps the delivery invariant.
LEMMA NextKeepsDelivery ==
  DeliveryInv /\ [ProcessAny \/ RemoveAny \/ Deliver]_vars => DeliveryInv'
<1> SUFFICES ASSUME DeliveryInv, [ProcessAny \/ RemoveAny \/ Deliver]_vars
             PROVE  DeliveryInv'
  OBVIOUS
<1>1. CASE ProcessAny
  BY <1>1, ReevaluateKeepsCore DEF ProcessAny, ProcessEvent, DeliveryInv
<1>2. CASE RemoveAny
  <2>1. PICK x \in EventIds : RemoveAndEvaluate(x)
    BY <1>2 DEF RemoveAny
  <2>2. CASE Reevaluate(events[x].partition_key)
    BY <2>1, <2>2, ReevaluateKeepsCore DEF RemoveAndEvaluate, DeliveryInv
  <2>3. CASE UNCHANGED runtimeVars
    BY <2>3 DEF runtimeVars, DeliveryInv, CoreInv, ReadersCatchUp, Sinks
  <2> QED BY <2>1, <2>2, <2>3 DEF RemoveAndEvaluate
<1>3. CASE Deliver
  BY <1>3, PositiveKeepsCore, CancelKeepsCore DEF Deliver, DeliveryInv
<1>4. CASE UNCHANGED vars
  BY <1>4 DEF vars, runtimeVars, DeliveryInv, CoreInv, ReadersCatchUp, Sinks
<1> QED BY <1>1, <1>2, <1>3, <1>4

\* The invariant of deliveries holds in every reachable state.
LEMMA DeliveryInvariant == ReliableSpec => []DeliveryInv
BY InitDelivery, NextKeepsDelivery, PTL DEF ReliableSpec

\* Events that keep their partition are a case of events that may move.
LEMMA PinnedIsReliable == PinnedSpec => ReliableSpec
<1>1. PinnedNext => ProcessAny \/ RemoveAny \/ Deliver
  BY DEF PinnedNext, ProcessPinned, ProcessAny
<1> QED BY <1>1, PTL DEF PinnedSpec, ReliableSpec

\* At every moment of every call, what each reader has plus what still waits
\* is what the runtime holds as active, even when events change partition.
THEOREM ReadersAlwaysCatchUp == ReliableSpec => []ReadersCatchUp
<1>1. DeliveryInv => ReadersCatchUp
  BY DEF DeliveryInv, CoreInv
<1> QED BY <1>1, DeliveryInvariant, PTL

\* What waits fits the state of the call: at most one event is in delivery, it
\* is one of those waiting, and it is exactly then that sinks are half done.
THEOREM RuntimeAlwaysTypeOK == ReliableSpec => []RuntimeTypeOK
<1>1. DeliveryInv => RuntimeTypeOK
  <2> SUFFICES ASSUME DeliveryInv PROVE RuntimeTypeOK
    OBVIOUS
  <2>1. sink \in Nat
    BY RuntimeAssumption DEF DeliveryInv, CoreInv, Sinks
  <2>2. CASE sink = 1 /\ current = {}
    BY <2>2, FS_EmptySet DEF DeliveryInv, CoreInv, RuntimeTypeOK
  <2>3. CASE sink > 1 /\ \E t \in positives \cup cancels : current = {t}
    <3>1. IsFiniteSet(current) /\ Cardinality(current) = 1
      BY <2>3, FS_Singleton
    <3> QED BY <2>1, <2>3, <3>1 DEF DeliveryInv, CoreInv, RuntimeTypeOK
  <2> QED BY <2>2, <2>3 DEF DeliveryInv, CoreInv
<1> QED BY <1>1, DeliveryInvariant, PTL

-----------------------------------------------------------------------------
(* Deliveries alternate.                                                   *)

\* Cancellations start only when no positive match waits any more.
OrderInv == current \cap cancels # {} => positives = {}

AlternationInv == DeliveryInv /\ OrderInv /\ FreshInv

\* A positive match delivered keeps readers in step.
LEMMA PositiveKeepsAlternation ==
  ASSUME AlternationInv, DeliverPositive
  PROVE  /\ OrderInv' /\ FreshInv'
         /\ view' # view
         /\ \E t \in active : /\ t \notin view[sink]
                              /\ view' = [view EXCEPT ![sink] = @ \cup {t}]
<1>0. NSinks \in Nat \ {0} /\ sink \in 1..NSinks
  BY RuntimeAssumption DEF AlternationInv, DeliveryInv, CoreInv, Sinks
<1>1. PICK t \in NextPositives :
        /\ view' = [view EXCEPT ![sink] = @ \cup {t}]
        /\ positives' = IF sink = NSinks THEN positives \ {t} ELSE positives
        /\ Advance(t)
        /\ UNCHANGED <<cancels, active>>
  BY DEF DeliverPositive
<1>2. t \in positives /\ t \in active /\ t \notin cancels
  BY <1>1 DEF NextPositives, AlternationInv, DeliveryInv, CoreInv
<1>3. current = {} \/ current = {t}
  BY <1>1 DEF NextPositives, AlternationInv, DeliveryInv, CoreInv
<1>4. t \notin view[sink]
  BY <1>0, <1>2 DEF AlternationInv, FreshInv, Sinks
<1>5. \A s \in Sinks : view'[s] = IF s = sink THEN view[s] \cup {t} ELSE view[s]
  BY <1>1 DEF AlternationInv, DeliveryInv, CoreInv
<1>6. view' # view
  BY <1>4, <1>5, <1>0 DEF Sinks
<1>7. OrderInv'
  BY <1>1, <1>2 DEF OrderInv, Advance
<1>8. FreshInv'
  <2>1. CASE sink = NSinks
    <3>1. sink' = 1 /\ current' = {} /\ positives' = positives \ {t} /\ cancels' = cancels
      BY <2>1, <1>1 DEF Advance
    <3>2. ASSUME NEW s \in Sinks, NEW u \in positives' PROVE u \notin view'[s]
      BY <3>1, <3>2, <1>3, <1>5 DEF AlternationInv, FreshInv
    <3>3. ASSUME NEW s \in Sinks, NEW u \in cancels' PROVE u \in view'[s]
      BY <3>1, <3>3, <1>2, <1>3, <1>5 DEF AlternationInv, FreshInv
    <3> QED BY <3>2, <3>3 DEF FreshInv, Sinks
  <2>2. CASE sink # NSinks
    <3>1. /\ sink' = sink + 1 /\ current' = {t}
          /\ positives' = positives /\ cancels' = cancels
      BY <2>2, <1>1 DEF Advance
    <3>2. ASSUME NEW s \in Sinks, NEW u \in positives', u \in view'[s]
          PROVE  u \in current' /\ s < sink'
      <4>1. s \in Nat /\ sink \in Nat
        BY <1>0 DEF Sinks
      <4>2. (u = t /\ s = sink) \/ u \in view[s]
        BY <3>2, <1>5
      <4>3. u \in view[s] => u \in current /\ s < sink
        BY <3>1, <3>2 DEF AlternationInv, FreshInv
      <4>4. u = t /\ s <= sink
        BY <4>1, <4>2, <4>3, <1>3
      <4>5. s < sink + 1
        BY <4>1, <4>4
      <4> QED BY <4>4, <4>5, <3>1
    <3>3. ASSUME NEW s \in Sinks, NEW u \in cancels' PROVE u \in view'[s]
      BY <3>1, <3>3, <1>2, <1>3, <1>5 DEF AlternationInv, FreshInv
    <3> QED BY <3>2, <3>3 DEF FreshInv, Sinks
  <2> QED BY <2>1, <2>2
<1> QED BY <1>1, <1>2, <1>4, <1>6, <1>7, <1>8

\* A cancellation delivered keeps readers in step.
LEMMA CancelKeepsAlternation ==
  ASSUME AlternationInv, DeliverCancel
  PROVE  /\ OrderInv' /\ FreshInv'
         /\ view' # view /\ positives = {}
         /\ \E t : /\ t \notin active /\ t \in view[sink]
                   /\ view' = [view EXCEPT ![sink] = @ \ {t}]
<1>0. NSinks \in Nat \ {0} /\ sink \in 1..NSinks
  BY RuntimeAssumption DEF AlternationInv, DeliveryInv, CoreInv, Sinks
<1>1. PICK t \in NextCancels :
        /\ view' = [view EXCEPT ![sink] = @ \ {t}]
        /\ cancels' = IF sink = NSinks THEN cancels \ {t} ELSE cancels
        /\ Advance(t)
        /\ UNCHANGED <<positives, active>>
  BY DEF DeliverCancel
<1>2. t \in cancels /\ t \notin active
  BY <1>1 DEF NextCancels, AlternationInv, DeliveryInv, CoreInv
<1>3. (current = {} \/ current = {t}) /\ positives = {}
  BY <1>1 DEF NextCancels, AlternationInv, DeliveryInv, CoreInv, OrderInv
<1>4. t \in view[sink]
  BY <1>0, <1>2 DEF AlternationInv, FreshInv, Sinks
<1>5. \A s \in Sinks : view'[s] = IF s = sink THEN view[s] \ {t} ELSE view[s]
  BY <1>1 DEF AlternationInv, DeliveryInv, CoreInv
<1>6. view' # view
  BY <1>4, <1>5, <1>0 DEF Sinks
<1>7. OrderInv'
  BY <1>1, <1>3 DEF OrderInv
<1>8. FreshInv'
  <2>1. CASE sink = NSinks
    <3>1. sink' = 1 /\ current' = {} /\ cancels' = cancels \ {t} /\ positives' = {}
      BY <2>1, <1>1, <1>3 DEF Advance
    <3>2. ASSUME NEW s \in Sinks, NEW u \in cancels' PROVE u \in view'[s]
      BY <3>1, <3>2, <1>3, <1>5 DEF AlternationInv, FreshInv
    <3> QED BY <3>1, <3>2 DEF FreshInv, Sinks
  <2>2. CASE sink # NSinks
    <3>1. sink' = sink + 1 /\ current' = {t} /\ positives' = {} /\ cancels' = cancels
      BY <2>2, <1>1, <1>3 DEF Advance
    <3>2. ASSUME NEW s \in Sinks, NEW u \in cancels', u \notin view'[s]
          PROVE  u \in current' /\ s < sink'
      <4>1. s \in Nat /\ sink \in Nat
        BY <1>0 DEF Sinks
      <4>2. (u = t /\ s = sink) \/ u \notin view[s]
        BY <3>2, <1>5
      <4>3. u \notin view[s] => u \in current /\ s < sink
        BY <3>1, <3>2 DEF AlternationInv, FreshInv
      <4>4. u = t /\ s <= sink
        BY <4>1, <4>2, <4>3, <1>3
      <4>5. s < sink + 1
        BY <4>1, <4>4
      <4> QED BY <4>4, <4>5, <3>1
    <3> QED BY <3>1, <3>2 DEF FreshInv, Sinks
  <2> QED BY <2>1, <2>2
<1> QED BY <1>1, <1>2, <1>3, <1>4, <1>6, <1>7, <1>8

\* Every step keeps readers in step.
LEMMA NextKeepsAlternation ==
  ASSUME EmitCancellations
  PROVE  AlternationInv /\ [ProcessAny \/ RemoveAny \/ Deliver]_vars => AlternationInv'
<1> SUFFICES ASSUME AlternationInv, [ProcessAny \/ RemoveAny \/ Deliver]_vars
             PROVE  AlternationInv'
  OBVIOUS
<1>0. DeliveryInv'
  BY NextKeepsDelivery DEF AlternationInv
<1>1. ASSUME NEW p, Idle, Reevaluate(p) PROVE AlternationInv'
  <2>1. FreshInv'
    BY <1>1, ReevaluateKeepsFresh DEF AlternationInv
  <2>2. current' = {}
    BY <1>1, IdleMeansNothingInDelivery DEF Reevaluate, AlternationInv
  <2> QED BY <1>0, <2>1, <2>2 DEF AlternationInv, OrderInv
<1>2. CASE ProcessAny
  BY <1>1, <1>2 DEF ProcessAny, ProcessEvent
<1>3. CASE UNCHANGED runtimeVars
  BY <1>0, <1>3 DEF runtimeVars, AlternationInv, OrderInv, FreshInv, Sinks
<1>4. CASE RemoveAny
  <2>1. PICK x \in EventIds : RemoveAndEvaluate(x)
    BY <1>4 DEF RemoveAny
  <2> QED BY <2>1, <1>1, <1>3 DEF RemoveAndEvaluate
<1>5. CASE Deliver
  BY <1>0, <1>5, PositiveKeepsAlternation, CancelKeepsAlternation DEF Deliver, AlternationInv
<1>6. CASE UNCHANGED vars
  BY <1>3, <1>6 DEF vars
<1> QED BY <1>2, <1>4, <1>5, <1>6

\* Readers are in step in every reachable state.
LEMMA AlternationInvariant ==
  ASSUME EmitCancellations
  PROVE  ReliableSpec => []AlternationInv
<1>1. RuntimeInit => AlternationInv
  BY InitDelivery DEF RuntimeInit, AlternationInv, OrderInv, FreshInv
<1>2. AlternationInv /\ [ProcessAny \/ RemoveAny \/ Deliver]_vars => AlternationInv'
  BY NextKeepsAlternation
<1> QED BY <1>1, <1>2, PTL DEF ReliableSpec

\* Every delivery changes what its reader holds: positive matches and
\* cancellations of one trend alternate at every sink.
THEOREM DeliveriesAlwaysAlternate ==
  ASSUME EmitCancellations
  PROVE  ReliableSpec => DeliveriesAlternate
<1>1. AlternationInv => [/\ DeliverPositive => view' # view
                         /\ DeliverCancel => view' # view]_vars
  BY PositiveKeepsAlternation, CancelKeepsAlternation
<1> QED BY <1>1, AlternationInvariant, PTL DEF DeliveriesAlternate

-----------------------------------------------------------------------------
(* What the search finds.                                                  *)

Search == INSTANCE TrendMatch_proofs
            WITH Inputs <- {}, input <- 0, called <- FALSE, found <- <<>>, raised <- FALSE,
                 trends <- {}

\* The search of the theorems is that of the runtime, operator by operator.
LEMMA SameQueries == \A q : IsQuery(q) <=> Search!IsQuery(q)
BY DEF IsQuery, Search!IsQuery

LEMMA SameListing ==
  ASSUME NEW q, NEW evts, NEW ids
  PROVE  Listing(q, evts, ids) = Search!Listing(q, evts, ids)
BY DEF Listing, Appended, Points, Point, MayTake, MayRepeat, Optional,
       Search!Listing, Search!Appended, Search!Points, Search!Point, Search!MayTake,
       Search!MayRepeat, Search!Optional

LEMMA SameRanked ==
  ASSUME NEW S, NEW less
  PROVE  Ranked(S, less) = Search!Ranked(S, less)
BY DEF Ranked, Search!Ranked, Cardinality, Search!Cardinality, IsFiniteSet, Search!IsFiniteSet

LEMMA SameTypes ==
  ASSUME NEW q
  PROVE  ReferencedTypes(q) = Search!ReferencedTypes(q)
BY DEF ReferencedTypes, Search!ReferencedTypes

LEMMA SameCandidates ==
  ASSUME NEW q, NEW evts, NEW ids
  PROVE  Candidates(q, evts, ids) = Search!Candidates(q, evts, ids)
<1> DEFINE types == ReferencedTypes(q)
           kept == {i \in DOMAIN ids : evts[ids[i]].event_type \in types}
           less == {p \in kept \X kept : p[1] < p[2]}
           place == Ranked(kept, less)
           other == Search!Ranked(kept, less)
<1>1. Candidates(q, evts, ids) = [j \in DOMAIN place |-> ids[place[j]]]
  BY DEF Candidates
<1>2. Search!Candidates(q, evts, ids) = [j \in DOMAIN other |-> ids[other[j]]]
  BY SameTypes DEF Search!Candidates
<1>3. place = other
  BY SameRanked
<1> HIDE DEF place, other
<1> QED BY <1>1, <1>2, <1>3

LEMMA SameValid ==
  ASSUME NEW q, NEW evts, NEW ids, NEW path
  PROVE  ValidatePath(q, evts, ids, path) <=> Search!ValidatePath(q, evts, ids, path)
BY DEF ValidatePath, ValidateAbsence, ValidateRelation, Held, ToSet, Last, Search!ToSet,
       Search!Last, Search!ValidatePath, Search!ValidateAbsence, Search!ValidateRelation,
       Search!Held

LEMMA SamePaths ==
  ASSUME NEW q, NEW evts, NEW ids, NEW n
  PROVE  QueryPaths(q, evts, ids, n) = Search!QueryPaths(q, evts, ids, n)
<1> DEFINE cand == Candidates(q, evts, ids)
           list == Listing(q, evts, cand)
           kept == SubSeq(list, 1, IF Len(list) < n THEN Len(list) ELSE n)
<1>1. QueryPaths(q, evts, ids, n) = {path \in ToSet(kept) : ValidatePath(q, evts, cand, path)}
  BY DEF QueryPaths, MatchQueryPaths
<1>2. Search!QueryPaths(q, evts, ids, n)
        = {path \in ToSet(kept) : Search!ValidatePath(q, evts, cand, path)}
  <2>1. cand = Search!Candidates(q, evts, ids) /\ list = Search!Listing(q, evts, cand)
    BY SameCandidates, SameListing
  <2>2. kept = Search!MatchQueryPaths(q, evts, cand, n)
    BY <2>1 DEF Search!MatchQueryPaths
  <2>3. ToSet(kept) = Search!ToSet(kept)
    BY DEF ToSet, Search!ToSet
  <2> HIDE DEF cand, list, kept
  <2> QED BY <2>1, <2>2, <2>3 DEF Search!QueryPaths
<1> HIDE DEF cand, list, kept
<1> QED BY <1>1, <1>2, SameValid

\* The order in which the events of a partition are sorted.
SortLess(stored) ==
  {p \in (DOMAIN stored) \X (DOMAIN stored) : p[1] # p[2] /\ Precedes(stored, p[1], p[2])}

\* Finitely many events, with times.
TimedEvents(stored) ==
  /\ IsFiniteSet(DOMAIN stored) /\ DOMAIN stored \subseteq Int
  /\ \A i \in DOMAIN stored : stored[i].event_time_ms \in Int

\* Times and ids put the events of a partition in an order.
LEMMA SortLessIsOrder ==
  ASSUME NEW stored, TimedEvents(stored)
  PROVE  Search!IsOrder(DOMAIN stored, SortLess(stored))
<1> DEFINE ids == DOMAIN stored
           less == SortLess(stored)
<1>1. \A x, y : <<x, y>> \in less <=> x \in ids /\ y \in ids /\ x # y /\ Precedes(stored, x, y)
  <2> SUFFICES ASSUME NEW x, NEW y
               PROVE  <<x, y>> \in less <=> x \in ids /\ y \in ids /\ x # y /\ Precedes(stored, x, y)
    OBVIOUS
  <2> DEFINE pair == <<x, y>>
  <2>1. pair \in less <=> pair \in ids \X ids /\ pair[1] # pair[2] /\ Precedes(stored, pair[1], pair[2])
    BY DEF SortLess
  <2>2. pair[1] = x /\ pair[2] = y /\ (pair \in ids \X ids <=> x \in ids /\ y \in ids)
    OBVIOUS
  <2> HIDE DEF pair, less, ids
  <2>3. pair \in less <=> x \in ids /\ y \in ids /\ x # y /\ Precedes(stored, x, y)
    BY <2>1, <2>2
  <2> QED BY <2>3 DEF pair
<1>2. ASSUME NEW x \in ids, NEW y \in ids PROVE Precedes(stored, x, y) \/ Precedes(stored, y, x)
  BY DEF TimedEvents, Precedes
<1>3. ASSUME NEW x \in ids, NEW y \in ids, NEW z \in ids,
             Precedes(stored, x, y), Precedes(stored, y, z), x # y, y # z
      PROVE  x # z /\ Precedes(stored, x, z)
  BY <1>3 DEF TimedEvents, Precedes
<1> HIDE DEF less
<1>4. \A x \in ids : <<x, x>> \notin less
  BY <1>1
<1>5. \A x, y, z \in ids : <<x, y>> \in less /\ <<y, z>> \in less => <<x, z>> \in less
  BY <1>1, <1>3
<1>6. \A x, y \in ids : x = y \/ <<x, y>> \in less \/ <<y, x>> \in less
  BY <1>1, <1>2
<1> QED BY <1>4, <1>5, <1>6 DEF Search!IsOrder, less

\* Every stored event has its place in the sorted ids.
LEMMA SortedInTime ==
  ASSUME NEW stored, TimedEvents(stored)
  PROVE  /\ Search!InTime(stored, SortedIds(stored))
         /\ \A i \in DOMAIN stored : \E j \in DOMAIN SortedIds(stored) : SortedIds(stored)[j] = i
<1> DEFINE S == DOMAIN stored
           less == SortLess(stored)
           R == SortedIds(stored)
           n == Search!Cardinality(S)
<1>1. R = Search!Ranked(S, less)
  <2>1. R = Ranked(S, less)
    BY DEF SortedIds, SortLess
  <2> HIDE DEF R, less
  <2> QED BY <2>1, SameRanked
<1>2. Search!IsFiniteSet(S)
  BY DEF TimedEvents, IsFiniteSet, Search!IsFiniteSet
<1>3. Search!IsOrder(S, less)
  BY SortLessIsOrder
<1> HIDE DEF R, less, n
<1>4. /\ n \in Nat /\ R \in [1..n -> S]
      /\ \A x \in S : \E j \in 1..n : R[j] = x
      /\ \A j, k \in 1..n : j < k => <<R[j], R[k]>> \in less
  BY <1>1, <1>2, <1>3, GraphAssumption, Search!RankedInOrder DEF n
<1>5. Len(R) = n /\ DOMAIN R = 1..n /\ R \in Seq(S)
  BY <1>4
<1>6. \A j, k \in 1..n : j < k => stored[R[j]].event_time_ms <= stored[R[k]].event_time_ms
  <2> SUFFICES ASSUME NEW j \in 1..n, NEW k \in 1..n, j < k
               PROVE  stored[R[j]].event_time_ms <= stored[R[k]].event_time_ms
    OBVIOUS
  <2>1. <<R[j], R[k]>> \in less /\ R[j] \in S /\ R[k] \in S
    BY <1>4
  <2>2. Precedes(stored, R[j], R[k])
    BY <2>1 DEF less, SortLess
  <2> QED BY <2>1, <2>2 DEF Precedes, TimedEvents
<1>7. \A j \in 1..n : R[j] \in S /\ stored[R[j]].event_time_ms \in Int
  BY <1>4 DEF TimedEvents
<1> QED BY <1>4, <1>5, <1>6, <1>7 DEF Search!InTime, R

\* So have the last of them.
LEMMA WindowInTime ==
  ASSUME NEW stored, NEW ids, Search!InTime(stored, ids), NEW n \in Nat
  PROVE  Search!InTime(stored, Window(ids, n))
<1> DEFINE len == Len(ids)
           from == len - n + 1
           last == SubSeq(ids, from, len)
<1>1. len \in Nat /\ DOMAIN ids = 1..len /\ \A i \in 1..len : ids[i] \in DOMAIN stored
  BY DEF Search!InTime
<1>2. CASE ~(len > n)
  BY <1>2 DEF Window
<1>3. CASE len > n
  <2>1. from \in Int /\ from >= 1 /\ from <= len + 1 /\ len - from + 1 = n
    BY <1>1, <1>3
  <2> HIDE DEF len, from
  <2>2. \A i \in 1..n : from + i - 1 \in 1..len
    BY <1>1, <2>1
  <2>3. Len(last) = n /\ DOMAIN last = 1..n /\ \A i \in 1..n : last[i] = ids[from + i - 1]
    BY <1>1, <2>1
  <2>4. last \in Seq(DOMAIN stored)
    <3>1. last = [i \in 1..n |-> ids[from + i - 1]]
      BY <1>1, <2>1
    <3>2. \A i \in 1..n : ids[from + i - 1] \in DOMAIN stored
      BY <1>1, <2>2
    <3> QED BY <3>1, <3>2
  <2> HIDE DEF last
  <2>5. \A i \in 1..n : stored[last[i]].event_time_ms \in Int
    BY <1>1, <2>2, <2>3 DEF Search!InTime
  <2>6. \A i, j \in 1..n : i < j => stored[last[i]].event_time_ms <= stored[last[j]].event_time_ms
    <3> SUFFICES ASSUME NEW i \in 1..n, NEW j \in 1..n, i < j
                 PROVE  stored[last[i]].event_time_ms <= stored[last[j]].event_time_ms
      OBVIOUS
    <3>1. from + i - 1 < from + j - 1 /\ from + i - 1 \in 1..len /\ from + j - 1 \in 1..len
      BY <2>1, <2>2
    <3> QED BY <1>1, <2>3, <3>1 DEF Search!InTime
  <2>7. Window(ids, n) = last
    BY <1>3 DEF Window, last, from, len
  <2> QED BY <2>3, <2>4, <2>5, <2>6, <2>7 DEF Search!InTime
<1> QED BY <1>2, <1>3

\* What the pattern of the query means, as TrendSearch says it.
ValidPaths(q, stored, ids) ==
  {path \in Search!Meaning(q, stored, ids) :
     Search!Undisturbed(q, stored, ids, path) /\ Search!Related(q, stored, path)}

\* How many paths the search of q stops with.
MatchCount(q, stored, ids) ==
  Len(MatchQueryPaths(q, stored, Candidates(q, stored, ids), MaxMatches))

\* The search of a query in the window of a partition's events.
LEMMA PathsAreValid ==
  ASSUME NEW q \in Queries, NEW stored, TimedEvents(stored),
         NEW ids, ids = Window(SortedIds(stored), MaxWindow)
  PROVE  /\ QueryPaths(q, stored, ids, MaxMatches) \subseteq ValidPaths(q, stored, ids)
         /\ MatchCount(q, stored, ids) < MaxMatches =>
              QueryPaths(q, stored, ids, MaxMatches) = ValidPaths(q, stored, ids)
<1> DEFINE kept == MatchQueryPaths(q, stored, Candidates(q, stored, ids), MaxMatches)
           valid == ValidPaths(q, stored, ids)
<1>1. Search!InTime(stored, ids)
  BY SortedInTime, WindowInTime, RuntimeAssumption
<1>2. Search!IsQuery(q)
  BY SameQueries, RuntimeAssumption
<1>3. kept = Search!MatchQueryPaths(q, stored, Search!Candidates(q, stored, ids), MaxMatches)
  <2>1. Candidates(q, stored, ids) = Search!Candidates(q, stored, ids)
    BY SameCandidates
  <2> QED BY <2>1, SameListing DEF MatchQueryPaths, Search!MatchQueryPaths
<1>4. valid = {path \in Search!Meaning(q, stored, ids) :
                 Search!Undisturbed(q, stored, ids, path) /\ Search!Related(q, stored, path)}
  BY DEF ValidPaths
<1>5. QueryPaths(q, stored, ids, MaxMatches) = Search!QueryPaths(q, stored, ids, MaxMatches)
  BY SamePaths
<1>6. MatchCount(q, stored, ids) = Len(kept)
  BY DEF MatchCount
<1>7. \A k \in DOMAIN q.relations : Search!Supported(q.relations[k])
  BY RuntimeAssumption DEF Supported, Search!Supported
<1> HIDE DEF kept, valid
<1>8. /\ ~Search!QueryRaises(q, stored, ids, MaxMatches) =>
           /\ Search!QueryPaths(q, stored, ids, MaxMatches) \subseteq valid
           /\ Len(kept) < MaxMatches => Search!QueryPaths(q, stored, ids, MaxMatches) = valid
      /\ Search!QueryRaises(q, stored, ids, MaxMatches) =>
           \E k \in DOMAIN q.relations : ~Search!Supported(q.relations[k])
  <2>1. MaxMatches \in Nat  BY RuntimeAssumption
  <2> QED BY <1>1, <1>2, <1>3, <1>4, <2>1, GraphAssumption, Search!AnswersOfCall
<1>9. /\ Search!QueryPaths(q, stored, ids, MaxMatches) \subseteq valid
      /\ Len(kept) < MaxMatches => Search!QueryPaths(q, stored, ids, MaxMatches) = valid
  BY <1>7, <1>8
<1> QED BY <1>5, <1>6, <1>9 DEF valid

\* The trend of a query, a partition and a path.
TrendOf(q, p, path) == [query |-> q.id, partition_key |-> p, path |-> path]

\* The trends of a partition are those of each query.
LEMMA TrendsAreOfQueries ==
  ASSUME NEW stored, NEW p, NEW ids, ids = Window(SortedIds(stored), MaxWindow)
  PROVE  \A t : t \in CurrentTrends(stored, p) <=>
           \E q \in Queries : \E path \in QueryPaths(q, stored, ids, MaxMatches) :
             t = TrendOf(q, p, path)
<1> DEFINE TrendsFrom(q, i) == {TrendOf(q, p, path) : path \in QueryPaths(q, stored, i, MaxMatches)}
<1>1. CurrentTrends(stored, p) = UNION {TrendsFrom(q, i) : q \in Queries, i \in {ids}}
  BY DEF CurrentTrends, TrendOf
<1>2. \A q, t : t \in TrendsFrom(q, ids) <=>
        \E path \in QueryPaths(q, stored, ids, MaxMatches) : t = TrendOf(q, p, path)
  OBVIOUS
<1> HIDE DEF TrendsFrom
<1>3. \A t : t \in CurrentTrends(stored, p) <=> \E q \in Queries : t \in TrendsFrom(q, ids)
  BY <1>1
<1> QED BY <1>2, <1>3

\* Without events there are no trends.
LEMMA NoEventsNoTrends == \A p : CurrentTrends([i \in {} |-> 0], p) = {}
<1> SUFFICES ASSUME NEW p PROVE CurrentTrends([i \in {} |-> 0], p) = {}
  OBVIOUS
<1> DEFINE stored == [i \in {} |-> 0]
           ids == Window(SortedIds(stored), MaxWindow)
<1>1. DOMAIN stored = {} /\ TimedEvents(stored)
  BY FS_EmptySet DEF TimedEvents
<1> HIDE DEF stored
<1>2. Search!InTime(stored, ids)
  BY <1>1, SortedInTime, WindowInTime, RuntimeAssumption
<1>3. DOMAIN ids = {}
  BY <1>1, <1>2 DEF Search!InTime
<1> HIDE DEF ids
<1>4. \A q : Search!Meaning(q, stored, ids) = {}
  BY <1>3 DEF Search!Meaning, Search!Chains
<1>5. \A q \in Queries : QueryPaths(q, stored, ids, MaxMatches) = {}
  BY <1>1, <1>4, PathsAreValid DEF ValidPaths, ids
<1>6. \A t : t \notin CurrentTrends(stored, p)
  BY <1>5, TrendsAreOfQueries DEF ids
<1> QED BY <1>6 DEF stored

-----------------------------------------------------------------------------
(* What is active is what the graph shows.                                 *)

LiveInv ==
  /\ GraphInv
  /\ IndexExact
  /\ \A p \in Partitions : Shown(p) = TrendsOf(p)
  /\ \A t \in active : t.partition_key \in Partitions

\* The invariant implies the property.
LEMMA LiveInvIsActiveIsLive == LiveInv => ActiveIsLive
BY DEF LiveInv, ActiveIsLive, LiveTrends, Shown

\* No events, no trends.
LEMMA InitLive == RuntimeInit => LiveInv
<1> SUFFICES ASSUME RuntimeInit PROVE LiveInv
  OBVIOUS
<1>1. GraphInv
  BY InitGraphInv DEF RuntimeInit
<1>2. events = [i \in {} |-> 0] /\ DOMAIN events = {} /\ active = {}
      /\ \A p \in Partitions : byPartition[p] = {}
  BY DEF RuntimeInit, Init
<1>3. IndexExact
  BY <1>2 DEF IndexExact
<1>4. ASSUME NEW p \in Partitions PROVE Shown(p) = TrendsOf(p)
  <2>1. StoredIn(events, byPartition, p) = [i \in {} |-> 0]
    BY <1>2 DEF StoredIn, Members
  <2>2. TrendsOf(p) = {}
    BY <2>1, NoEventsNoTrends DEF TrendsOf
  <2> QED BY <2>2, <1>2 DEF Shown
<1> QED BY <1>1, <1>2, <1>3, <1>4 DEF LiveInv

\* After the step p shows its trends, and the other partitions have and show
\* what they had and showed.
Evaluated(p) ==
  /\ Shown(p)' = TrendsOf(p)'
  /\ \A q \in Partitions \ {p} : Shown(q)' = Shown(q) /\ TrendsOf(q)' = TrendsOf(q)
  /\ (\A t \in active : t.partition_key \in Partitions) =>
        \A t \in active' : t.partition_key \in Partitions

\* The evaluation of p makes it exact and leaves the others as they were.
LEMMA ReevaluateIsLocal ==
  ASSUME NEW p \in Partitions, Reevaluate(p),
         \A q \in Partitions \ {p} :
           StoredIn(events', byPartition', q) = StoredIn(events, byPartition, q)
  PROVE  Evaluated(p)
<1> DEFINE now == CurrentTrends(StoredIn(events', byPartition', p), p)
<1>1. active' = (active \ {t \in active : t.partition_key = p}) \cup now
  BY DEF Reevaluate
<1>2. \A t \in now : t.partition_key = p
  BY TrendsCarryPartition
<1>3. now = TrendsOf(p)'
  BY DEF TrendsOf
<1> HIDE DEF now
<1>4. Shown(p)' = TrendsOf(p)'
  BY <1>1, <1>2, <1>3 DEF Shown
<1>5. ASSUME NEW q \in Partitions \ {p}
      PROVE  Shown(q)' = Shown(q) /\ TrendsOf(q)' = TrendsOf(q)
  <2>1. Shown(q)' = Shown(q)
    BY <1>1, <1>2 DEF Shown
  <2>2. TrendsOf(q)' = TrendsOf(q)
    BY DEF TrendsOf
  <2> QED BY <2>1, <2>2
<1>6. (\A t \in active : t.partition_key \in Partitions) =>
        \A t \in active' : t.partition_key \in Partitions
  BY <1>1, <1>2
<1> QED BY <1>4, <1>5, <1>6 DEF Evaluated

\* A processed event changes the trends of no other partition.
LEMMA ProcessIsLocal ==
  ASSUME EmptyKey \notin Partitions, IndexExact, ProcessPinned
  PROVE  \E p \in Partitions : Evaluated(p)
<1>1. PICK x \in EventIds, ev \in Payloads :
        /\ x \in DOMAIN events => events[x].partition_key = ev.partition_key
        /\ ProcessEvent(x, ev)
  BY DEF ProcessPinned
<1> DEFINE p == ev.partition_key
<1>2. p \in Partitions
  BY GraphAssumption DEF Event
<1>3. events' = Stored(x, ev) /\ byPartition' = Reindexed(x, p) /\ Reevaluate(p)
  BY <1>1 DEF ProcessEvent, UpsertEvent
<1>4. ASSUME NEW q \in Partitions \ {p}
      PROVE  StoredIn(events', byPartition', q) = StoredIn(events, byPartition, q)
  <2>1. byPartition[q] = {i \in DOMAIN events : events[i].partition_key = q}
    BY DEF IndexExact
  <2>2. x \notin byPartition[q]
    BY <2>1, <1>1
  <2>3. byPartition'[q] = byPartition[q]
    BY <1>3, <2>2 DEF Reindexed
  <2>4. DOMAIN events' = DOMAIN events \cup {x}
        /\ \A i \in DOMAIN events \ {x} : events'[i] = events[i]
    BY <1>3 DEF Stored
  <2>5. Members(events', byPartition', q) = Members(events, byPartition, q)
        /\ \A i \in Members(events, byPartition, q) : events'[i] = events[i]
    BY <2>2, <2>3, <2>4 DEF Members
  <2> QED BY <2>5 DEF StoredIn
<1> QED BY <1>2, <1>3, <1>4, ReevaluateIsLocal

\* Nor does a removed one.
LEMMA RemoveIsLocal ==
  ASSUME EmptyKey \notin Partitions, GraphInv, IndexExact, RemoveAny
  PROVE  \/ UNCHANGED <<events, byPartition, active>>
         \/ \E p \in Partitions : Evaluated(p)
<1>1. PICK x \in EventIds : RemoveAndEvaluate(x)
  BY DEF RemoveAny
<1>2. CASE x \notin DOMAIN events
  BY <1>1, <1>2 DEF RemoveAndEvaluate, RemoveEvent, runtimeVars
<1>3. CASE x \in DOMAIN events
  <2> DEFINE p == events[x].partition_key
  <2>1. p \in Partitions /\ p # EmptyKey
    BY <1>3 DEF GraphInv, TypeOK, Event
  <2>2. /\ events' = [i \in DOMAIN events \ {x} |-> events[i]]
        /\ byPartition' = [byPartition EXCEPT ![p] = @ \ {x}]
        /\ Reevaluate(p)
    BY <1>1, <1>3, <2>1 DEF RemoveAndEvaluate, RemoveEvent, RemovalBucket
  <2>3. ASSUME NEW q \in Partitions \ {p}
        PROVE  StoredIn(events', byPartition', q) = StoredIn(events, byPartition, q)
    <3>1. byPartition[q] = {i \in DOMAIN events : events[i].partition_key = q}
      BY DEF IndexExact
    <3>2. x \notin byPartition[q] /\ byPartition'[q] = byPartition[q]
      BY <3>1, <2>2 DEF GraphInv, TypeOK
    <3>3. Members(events', byPartition', q) = Members(events, byPartition, q)
          /\ \A i \in Members(events, byPartition, q) : events'[i] = events[i]
      BY <3>2, <2>2 DEF Members
    <3> QED BY <3>3 DEF StoredIn
  <2> QED BY <2>1, <2>2, <2>3, ReevaluateIsLocal
<1> QED BY <1>2, <1>3

\* Steps that leave events and active alone leave what is shown alone.
LEMMA UnchangedShows ==
  ASSUME UNCHANGED <<events, byPartition, active>>
  PROVE  \A p \in Partitions : Shown(p)' = Shown(p) /\ TrendsOf(p)' = TrendsOf(p)
BY DEF Shown, TrendsOf

\* A step of a runtime without faults evaluates one partition, or changes
\* neither the events nor what is active.
LEMMA PinnedNextIsLocal ==
  ASSUME EmptyKey \notin Partitions, GraphInv, IndexExact, [PinnedNext]_vars
  PROVE  \/ UNCHANGED <<events, byPartition, active>>
         \/ \E p \in Partitions : Evaluated(p)
<1>1. CASE Deliver
  BY <1>1 DEF Deliver, DeliverPositive, DeliverCancel, graphVars
<1>2. CASE UNCHANGED vars
  BY <1>2 DEF vars, graphVars, runtimeVars
<1> QED BY <1>1, <1>2, ProcessIsLocal, RemoveIsLocal DEF PinnedNext

\* A step of the runtime is one of the graph, or none.
LEMMA PinnedNextIsGraphNext == [PinnedNext]_vars => [Next]_graphVars
BY DEF PinnedNext, ProcessPinned, ProcessEvent, RemoveAny, RemoveAndEvaluate,
       Deliver, DeliverPositive, DeliverCancel, Next, vars

\* Every step keeps active the graph's trends.
LEMMA NextKeepsLive ==
  ASSUME EmptyKey \notin Partitions
  PROVE  LiveInv /\ [PinnedNext]_vars => LiveInv'
<1> SUFFICES ASSUME LiveInv, [PinnedNext]_vars PROVE LiveInv'
  OBVIOUS
<1>1. GraphInv' /\ IndexExact'
  BY PinnedNextIsGraphNext, NextKeepsInv, NextKeepsIndex DEF LiveInv
<1>2. CASE UNCHANGED <<events, byPartition, active>>
  BY <1>1, <1>2, UnchangedShows DEF LiveInv
<1>3. ASSUME NEW p \in Partitions, Evaluated(p) PROVE LiveInv'
  BY <1>1, <1>3 DEF Evaluated, LiveInv
<1> QED BY <1>2, <1>3, PinnedNextIsLocal DEF LiveInv

\* Active is the graph's trends in every reachable state.
LEMMA LiveInvariant ==
  ASSUME EmptyKey \notin Partitions
  PROVE  PinnedSpec => []LiveInv
<1>1. RuntimeInit => LiveInv
  BY InitLive
<1>2. LiveInv /\ [PinnedNext]_vars => LiveInv'
  BY NextKeepsLive
<1> QED BY <1>1, <1>2, PTL DEF PinnedSpec

\* Although a call evaluates one partition only, the runtime holds exactly
\* the trends of the whole graph, as long as no event changes its partition
\* and none has an empty partition key.
THEOREM ActiveIsAlwaysLive ==
  ASSUME EmptyKey \notin Partitions
  PROVE  PinnedSpec => []ActiveIsLive
<1>1. PinnedSpec => []LiveInv
  BY LiveInvariant
<1>2. LiveInv => ActiveIsLive
  BY LiveInvIsActiveIsLive
<1> QED BY <1>1, <1>2, PTL

-----------------------------------------------------------------------------
(* What is active is what the patterns mean.                               *)

FiniteEvents == IsFiniteSet(DOMAIN events)

\* A step stores one event more at most.
LEMMA StepKeepsFinite ==
  ASSUME FiniteEvents, [PinnedNext]_vars
  PROVE  FiniteEvents'
<1>1. CASE ProcessPinned
  <2>1. PICK x \in EventIds : DOMAIN events' = DOMAIN events \cup {x}
    BY <1>1 DEF ProcessPinned, ProcessEvent, UpsertEvent, Stored
  <2> QED BY <2>1, FS_AddElement DEF FiniteEvents
<1>2. CASE RemoveAny
  <2>1. DOMAIN events' \subseteq DOMAIN events
    BY <1>2 DEF RemoveAny, RemoveAndEvaluate, RemoveEvent
  <2> QED BY <2>1, FS_Subset DEF FiniteEvents
<1>3. CASE Deliver
  BY <1>3 DEF Deliver, DeliverPositive, DeliverCancel, graphVars, FiniteEvents
<1>4. CASE UNCHANGED vars
  BY <1>4 DEF vars, graphVars, FiniteEvents
<1> QED BY <1>1, <1>2, <1>3, <1>4 DEF PinnedNext

\* What the runtime shows of a partition are paths that the patterns of the
\* queries mean over the window of its stored events, undisturbed and related
\* as the queries ask; of a query that reaches no limit on matches, all.
ActiveIsMeant ==
  \A p \in Partitions :
    LET stored == StoredIn(events, byPartition, p)
        ids    == Window(SortedIds(stored), MaxWindow)
    IN  /\ \A t \in Shown(p) :
             \E q \in Queries : \E path \in ValidPaths(q, stored, ids) : t = TrendOf(q, p, path)
        /\ \A q \in Queries :
             MatchCount(q, stored, ids) < MaxMatches =>
               \A path \in ValidPaths(q, stored, ids) : TrendOf(q, p, path) \in Shown(p)

LEMMA LiveIsMeant == LiveInv /\ FiniteEvents => ActiveIsMeant
<1> SUFFICES ASSUME LiveInv, FiniteEvents PROVE ActiveIsMeant
  OBVIOUS
<1> SUFFICES ASSUME NEW p \in Partitions,
                    NEW stored, stored = StoredIn(events, byPartition, p),
                    NEW ids, ids = Window(SortedIds(stored), MaxWindow)
             PROVE  /\ \A t \in Shown(p) : \E q \in Queries :
                         \E path \in ValidPaths(q, stored, ids) : t = TrendOf(q, p, path)
                    /\ \A q \in Queries :
                         MatchCount(q, stored, ids) < MaxMatches =>
                           \A path \in ValidPaths(q, stored, ids) : TrendOf(q, p, path) \in Shown(p)
  BY DEF ActiveIsMeant
<1>1. TimedEvents(stored)
  <2>1. DOMAIN stored \subseteq DOMAIN events /\ DOMAIN stored \subseteq EventIds
        /\ \A i \in DOMAIN stored : stored[i] = events[i] /\ events[i] \in Event
    BY DEF LiveInv, GraphInv, TypeOK, StoredIn, Members
  <2>2. IsFiniteSet(DOMAIN stored)
    BY <2>1, FS_Subset DEF FiniteEvents
  <2>3. \A e \in Event : e.event_time_ms \in Int
    BY DEF Event
  <2>4. DOMAIN stored \subseteq Int
    BY <2>1, GraphAssumption
  <2> QED BY <2>1, <2>2, <2>3, <2>4 DEF TimedEvents
<1>2. \A t : t \in Shown(p) <=>
        \E q \in Queries : \E path \in QueryPaths(q, stored, ids, MaxMatches) : t = TrendOf(q, p, path)
  <2>1. Shown(p) = CurrentTrends(stored, p)
    BY DEF LiveInv, TrendsOf
  <2> QED BY <2>1, TrendsAreOfQueries
<1>3. \A q \in Queries :
        /\ QueryPaths(q, stored, ids, MaxMatches) \subseteq ValidPaths(q, stored, ids)
        /\ MatchCount(q, stored, ids) < MaxMatches =>
             QueryPaths(q, stored, ids, MaxMatches) = ValidPaths(q, stored, ids)
  BY <1>1, PathsAreValid
<1>4. ASSUME NEW t \in Shown(p)
      PROVE  \E q \in Queries : \E path \in ValidPaths(q, stored, ids) : t = TrendOf(q, p, path)
  BY <1>2, <1>3
<1>5. ASSUME NEW q \in Queries, MatchCount(q, stored, ids) < MaxMatches,
             NEW path \in ValidPaths(q, stored, ids)
      PROVE  TrendOf(q, p, path) \in Shown(p)
  <2>1. path \in QueryPaths(q, stored, ids, MaxMatches)
    BY <1>3, <1>5
  <2> QED BY <1>2, <2>1
<1> QED BY <1>4, <1>5

\* The runtime and the meaning of its queries, from the events to the
\* dictionary active: incremental evaluation, the sorted window, the search
\* and the validation of its paths together lose no trend and invent none.
THEOREM ActiveIsAlwaysMeant ==
  ASSUME EmptyKey \notin Partitions
  PROVE  PinnedSpec => []ActiveIsMeant
<1>1. PinnedSpec => []LiveInv
  BY LiveInvariant
<1>2. RuntimeInit => FiniteEvents
  BY FS_EmptySet DEF RuntimeInit, Init, FiniteEvents
<1>3. FiniteEvents /\ [PinnedNext]_vars => FiniteEvents'
  BY StepKeepsFinite
<1>4. LiveInv /\ FiniteEvents => ActiveIsMeant
  BY LiveIsMeant
<1> QED BY <1>1, <1>2, <1>3, <1>4, PTL DEF PinnedSpec

-----------------------------------------------------------------------------
(* Refinement.                                                             *)

\* Every step of the runtime changes the graph while the last reader is up
\* to date, brings that reader one delivery nearer, or is not seen by it.
LEMMA StepImplementsReader ==
  ASSUME EmitCancellations, AlternationInv, ActiveIsLive, ActiveIsLive', [PinnedNext]_vars
  PROVE  [Reader!Next]_<<LiveTrends, view[NSinks]>>
<1>0. NSinks \in Sinks /\ sink \in Sinks /\ DOMAIN view = Sinks
  BY RuntimeAssumption DEF AlternationInv, DeliveryInv, CoreInv, Sinks
<1>1. LiveTrends = active /\ LiveTrends' = active'
  BY DEF ActiveIsLive
<1>2. ASSUME Idle, view' = view PROVE Reader!Change
  <2>1. view[NSinks] = active
    BY <1>0, <1>2 DEF AlternationInv, DeliveryInv, ReadersCatchUp, Idle
  <2> QED BY <2>1, <1>1, <1>2 DEF Reader!Change
<1>3. CASE ProcessPinned
  BY <1>2, <1>3 DEF ProcessPinned, ProcessEvent, Reevaluate, Reader!Next
<1>4. CASE RemoveAny
  <2>1. Idle /\ view' = view
    BY <1>4 DEF RemoveAny, RemoveAndEvaluate, Reevaluate, runtimeVars
  <2> QED BY <2>1, <1>2 DEF Reader!Next
<1>5. CASE DeliverPositive
  <2>1. PICK t \in active : /\ t \notin view[sink]
                            /\ view' = [view EXCEPT ![sink] = @ \cup {t}]
    BY <1>5, PositiveKeepsAlternation
  <2>2. active' = active
    BY <1>5 DEF DeliverPositive
  <2>3. CASE sink = NSinks
    <3>1. t \in LiveTrends \ view[NSinks] /\ view'[NSinks] = view[NSinks] \cup {t}
      BY <2>1, <2>3, <1>0, <1>1
    <3> QED BY <3>1, <2>2, <1>1 DEF Reader!Next, Reader!Announce
  <2>4. CASE sink # NSinks
    <3>1. view'[NSinks] = view[NSinks]
      BY <2>1, <2>4, <1>0
    <3> QED BY <3>1, <2>2, <1>1
  <2> QED BY <2>3, <2>4
<1>6. CASE DeliverCancel
  <2>1. PICK t : /\ t \notin active /\ t \in view[sink]
                 /\ view' = [view EXCEPT ![sink] = @ \ {t}]
    BY <1>6, CancelKeepsAlternation
  <2>2. active' = active /\ positives = {}
    BY <1>6, CancelKeepsAlternation DEF DeliverCancel
  <2>3. CASE sink = NSinks
    <3>1. t \in view[NSinks] \ LiveTrends /\ view'[NSinks] = view[NSinks] \ {t}
      BY <2>1, <2>3, <1>0, <1>1
    <3>2. LiveTrends \subseteq view[NSinks]
      BY <1>0, <1>1, <2>2 DEF AlternationInv, DeliveryInv, CoreInv, ReadersCatchUp
    <3> QED BY <3>1, <3>2, <2>2, <1>1 DEF Reader!Next, Reader!Retract
  <2>4. CASE sink # NSinks
    <3>1. view'[NSinks] = view[NSinks]
      BY <2>1, <2>4, <1>0
    <3> QED BY <3>1, <2>2, <1>1
  <2> QED BY <2>3, <2>4
<1>7. CASE UNCHANGED vars
  BY <1>7, <1>1 DEF vars, runtimeVars
<1> QED BY <1>3, <1>4, <1>5, <1>6, <1>7 DEF PinnedNext, Deliver

\* The runtime implements the safety part of StandingView for the reader of
\* its last sink, which is the last to hear of everything.
THEOREM RuntimeImplementsReader ==
  ASSUME EmptyKey \notin Partitions, EmitCancellations
  PROVE  PinnedSpec => Reader!Safety
<1>1. PinnedSpec => []ActiveIsLive
  BY ActiveIsAlwaysLive
<1>2. PinnedSpec => []AlternationInv
  BY AlternationInvariant, PinnedIsReliable, PTL
<1>3. RuntimeInit /\ ActiveIsLive => Reader!Init
  <2> SUFFICES ASSUME RuntimeInit, ActiveIsLive PROVE Reader!Init
    OBVIOUS
  <2>1. active = {} /\ view[NSinks] = {}
    BY RuntimeAssumption DEF RuntimeInit, Sinks
  <2> QED BY <2>1 DEF ActiveIsLive, Reader!Init
<1>4. AlternationInv /\ ActiveIsLive /\ ActiveIsLive' /\ [PinnedNext]_vars
        => [Reader!Next]_<<LiveTrends, view[NSinks]>>
  BY StepImplementsReader
<1> QED BY <1>1, <1>2, <1>3, <1>4, PTL DEF PinnedSpec, Reader!Safety

-----------------------------------------------------------------------------
(* Calls repair what was missed.                                           *)

\* After the deliveries of a re-evaluation a reader has exactly the trends of
\* the partition.
LEMMA ReevaluateRepairs ==
  ASSUME EmitCancellations, DeliveryInv, Idle, NEW p, Reevaluate(p), NEW s \in Sinks
  PROVE  {t \in (view[s] \cup positives') \ cancels' : t.partition_key = p} =
         CurrentTrends(StoredIn(events', byPartition', p), p)
<1> DEFINE now == CurrentTrends(StoredIn(events', byPartition', p), p)
<1>1. /\ positives' = now \ {t \in active : t.partition_key = p}
      /\ cancels' = {t \in active : t.partition_key = p} \ now
  BY DEF Reevaluate
<1>2. view[s] = active
  BY DEF DeliveryInv, CoreInv, ReadersCatchUp, Idle
<1>3. \A t \in now : t.partition_key = p
  BY TrendsCarryPartition
<1> HIDE DEF now
<1>4. {t \in (view[s] \cup positives') \ cancels' : t.partition_key = p} = now
  BY <1>1, <1>2, <1>3
<1> QED BY <1>4 DEF now

\* The partition a step touches is the one it evaluates.
LEMMA TouchedIsEvaluated ==
  ASSUME NEW p \in Partitions, Touches(p), [ProcessAny \/ RemoveAny \/ Deliver]_vars, TypeOK
  PROVE  Idle /\ Reevaluate(p)
<1>1. revision' # revision
  <2>1. revision \in Nat /\ revision' > revision
    BY DEF Touches, TypeOK
  <2> QED BY <2>1
<1>2. ~Deliver /\ ~UNCHANGED vars
  BY <1>1 DEF Deliver, DeliverPositive, DeliverCancel, vars, graphVars
<1>3. CASE ProcessAny
  <2>1. PICK x \in EventIds, ev \in Payloads : ProcessEvent(x, ev)
    BY <1>3 DEF ProcessAny
  <2>2. events' = Stored(x, ev) /\ Idle /\ Reevaluate(ev.partition_key)
    BY <2>1 DEF ProcessEvent, UpsertEvent
  <2>3. /\ DOMAIN events' = DOMAIN events \cup {x}
        /\ events'[x] = ev
        /\ \A i \in DOMAIN events \ {x} : events'[i] = events[i]
    BY <2>2 DEF Stored
  <2>4. ev.partition_key = p
    BY <2>3 DEF Touches
  <2> QED BY <2>2, <2>4
<1>4. CASE RemoveAny
  <2>1. PICK x \in EventIds : RemoveAndEvaluate(x)
    BY <1>4 DEF RemoveAny
  <2>2. x \in DOMAIN events /\ events' = [i \in DOMAIN events \ {x} |-> events[i]]
    BY <2>1 DEF RemoveAndEvaluate, RemoveEvent, Touches
  <2>3. events[x].partition_key = p /\ p # EmptyKey
    BY <2>2 DEF Touches
  <2> QED BY <2>1, <2>2, <2>3 DEF RemoveAndEvaluate
<1> QED BY <1>2, <1>3, <1>4

\* The graph keeps its types.
LEMMA ReliableTypes == ReliableSpec => []TypeOK
<1>1. [ProcessAny \/ RemoveAny \/ Deliver]_vars => [Next]_graphVars
  BY DEF ProcessAny, ProcessEvent, RemoveAny, RemoveAndEvaluate,
         Deliver, DeliverPositive, DeliverCancel, Next, vars
<1>2. RuntimeInit => Init
  BY DEF RuntimeInit
<1> QED BY <1>1, <1>2, TypeCorrect, PTL DEF ReliableSpec, Spec

\* A call brings every reader to the trends of the partition it touches, even
\* when earlier calls moved events between partitions unnoticed.
THEOREM CallsAlwaysRepairView ==
  ASSUME EmitCancellations
  PROVE  ReliableSpec => CallsRepairView
<1> DEFINE Repaired ==
      \A p \in Partitions : Touches(p) =>
        LET trends == CurrentTrends(StoredIn(events', byPartition', p), p)
        IN  \A s \in Sinks :
              {t \in (view[s] \cup positives') \ cancels' : t.partition_key = p} = trends
<1>1. TypeOK /\ DeliveryInv /\ [ProcessAny \/ RemoveAny \/ Deliver]_vars => [Repaired]_vars
  BY TouchedIsEvaluated, ReevaluateRepairs
<1> QED BY <1>1, ReliableTypes, DeliveryInvariant, PTL DEF ReliableSpec, CallsRepairView

-----------------------------------------------------------------------------
(* Cancellations.                                                          *)

\* Partition p as it is reaches neither the limit on its window nor that on
\* matches.
LimitsNotReached(p) ==
  LET stored == StoredIn(events, byPartition, p)
      ids    == SortedIds(stored)
  IN  /\ ~(Len(ids) > MaxWindow)
      /\ \A q \in Queries : Len(Listing(q, stored, Candidates(q, stored, ids))) < MaxMatches

\* What waits to be cancelled is no trend of its partition.
CancelInv ==
  \A t \in cancels : t.partition_key \in Partitions /\ t \notin TrendsOf(t.partition_key)

\* Where no limit is reached, the limits make no difference.
LEMMA UnlimitedIsCurrent ==
  ASSUME NEW p, LimitsNotReached(p)
  PROVE  UnlimitedTrends(StoredIn(events, byPartition, p), p) = TrendsOf(p)
<1> DEFINE stored == StoredIn(events, byPartition, p)
           ids == SortedIds(stored)
           length(q) == Len(Listing(q, stored, Candidates(q, stored, ids)))
<1>1. Window(ids, MaxWindow) = ids
  BY DEF LimitsNotReached, Window
<1>2. ASSUME NEW q \in Queries
      PROVE  QueryPaths(q, stored, ids, length(q)) = QueryPaths(q, stored, ids, MaxMatches)
  <2> DEFINE cand == Candidates(q, stored, ids)
             all == Listing(q, stored, cand)
  <2>1. Len(all) < MaxMatches
    BY DEF LimitsNotReached
  <2> HIDE DEF all
  <2>2. (IF Len(all) < MaxMatches THEN Len(all) ELSE MaxMatches)
          = (IF Len(all) < Len(all) THEN Len(all) ELSE Len(all))
    BY <2>1
  <2>3. MatchQueryPaths(q, stored, cand, Len(all)) = MatchQueryPaths(q, stored, cand, MaxMatches)
    BY <2>2 DEF MatchQueryPaths, all
  <2>4. length(q) = Len(all)
    BY DEF all
  <2> HIDE DEF length, stored, ids
  <2> QED BY <2>3, <2>4 DEF QueryPaths
<1> HIDE DEF stored, ids, length
<1>3. \A t : t \in TrendsOf(p) <=>
        \E q \in Queries : \E path \in QueryPaths(q, stored, ids, MaxMatches) : t = TrendOf(q, p, path)
  BY <1>1, TrendsAreOfQueries DEF TrendsOf, stored, ids
<1>4. \A t : t \in UnlimitedTrends(stored, p) <=>
        \E q \in Queries : \E path \in QueryPaths(q, stored, ids, length(q)) : t = TrendOf(q, p, path)
  <2> DEFINE size(q, i) == Len(Listing(q, stored, Candidates(q, stored, i)))
             TrendsFrom(q, i) == {TrendOf(q, p, path) : path \in QueryPaths(q, stored, i, size(q, i))}
  <2>1. UnlimitedTrends(stored, p) = UNION {TrendsFrom(q, i) : q \in Queries, i \in {ids}}
    BY DEF UnlimitedTrends, ids, TrendOf
  <2>2. \A q, t : t \in TrendsFrom(q, ids) <=>
          \E path \in QueryPaths(q, stored, ids, length(q)) : t = TrendOf(q, p, path)
    BY DEF length
  <2> HIDE DEF TrendsFrom
  <2>3. \A t : t \in UnlimitedTrends(stored, p) <=> \E q \in Queries : t \in TrendsFrom(q, ids)
    BY <2>1
  <2> QED BY <2>2, <2>3
<1>5. \A t : t \in UnlimitedTrends(stored, p) <=> t \in TrendsOf(p)
  BY <1>2, <1>3, <1>4
<1>6. UnlimitedTrends(stored, p) = TrendsOf(p)
  <2> DEFINE left == UnlimitedTrends(stored, p)
             right == TrendsOf(p)
  <2>1. \A t : t \in left <=> t \in right
    BY <1>5
  <2> HIDE DEF left, right
  <2>2. left = right
    BY <2>1
  <2> QED BY <2>2 DEF left, right
<1> QED BY <1>6 DEF stored

\* An evaluation cancels only what the partition no longer has.
LEMMA ReevaluateCancels ==
  ASSUME NEW p \in Partitions, Reevaluate(p)
  PROVE  CancelInv'
<1> DEFINE now == CurrentTrends(StoredIn(events', byPartition', p), p)
<1>1. \A t \in cancels' : t.partition_key = p /\ t \notin now
  BY DEF Reevaluate
<1>2. TrendsOf(p)' = now
  BY DEF TrendsOf
<1> HIDE DEF now
<1>3. \A t \in cancels' : t.partition_key \in Partitions /\ t \notin TrendsOf(t.partition_key)'
  BY <1>1, <1>2
<1> QED BY <1>3 DEF CancelInv

\* So it is until the cancellations are delivered.
LEMMA NextKeepsCancels ==
  TypeOK /\ CancelInv /\ [ProcessAny \/ RemoveAny \/ Deliver]_vars => CancelInv'
<1> SUFFICES ASSUME TypeOK, CancelInv, [ProcessAny \/ RemoveAny \/ Deliver]_vars
             PROVE  CancelInv'
  OBVIOUS
<1>1. CASE ProcessAny
  <2>1. PICK x \in EventIds, ev \in Payloads : ProcessEvent(x, ev)
    BY <1>1 DEF ProcessAny
  <2>2. ev.partition_key \in Partitions
    BY GraphAssumption DEF Event
  <2> QED BY <2>1, <2>2, ReevaluateCancels DEF ProcessEvent
<1>2. CASE RemoveAny
  <2>1. PICK x \in EventIds : RemoveAndEvaluate(x)
    BY <1>2 DEF RemoveAny
  <2>2. CASE x \in DOMAIN events /\ events[x].partition_key # EmptyKey
    <3>1. events[x].partition_key \in Partitions
      BY <2>2 DEF TypeOK, Event
    <3> QED BY <2>1, <2>2, <3>1, ReevaluateCancels DEF RemoveAndEvaluate
  <2>3. CASE ~(x \in DOMAIN events /\ events[x].partition_key # EmptyKey)
    <3>1. cancels' = {}
      BY <2>1, <2>3 DEF RemoveAndEvaluate, runtimeVars, Idle
    <3> QED BY <3>1 DEF CancelInv
  <2> QED BY <2>2, <2>3
<1>3. ASSUME UNCHANGED <<events, byPartition>>, cancels' \subseteq cancels
      PROVE  CancelInv'
  BY <1>3 DEF CancelInv, TrendsOf
<1>4. CASE Deliver
  BY <1>3, <1>4 DEF Deliver, DeliverPositive, DeliverCancel, graphVars
<1>5. CASE UNCHANGED vars
  BY <1>3, <1>5 DEF vars, graphVars, runtimeVars
<1> QED BY <1>1, <1>2, <1>4, <1>5

\* Whatever is cancelled is no valid match any more, provided the partitions
\* reach neither limit now: then nothing is cancelled for being pushed out of
\* the window or of the first matches, even when events change partition.
THEOREM CancelsAlwaysInvalid ==
  ReliableSpec => []((\A p \in Partitions : LimitsNotReached(p)) => CancelsAreInvalid)
<1>1. RuntimeInit => CancelInv
  BY DEF RuntimeInit, CancelInv
<1>2. CancelInv => ((\A p \in Partitions : LimitsNotReached(p)) => CancelsAreInvalid)
  BY UnlimitedIsCurrent DEF CancelInv, CancelsAreInvalid
<1> QED BY <1>1, <1>2, ReliableTypes, NextKeepsCancels, PTL DEF ReliableSpec

-----------------------------------------------------------------------------
(* Faults.                                                                 *)

\* What a runtime without failing sinks does, with restarts over a graph that
\* was saved before, at any time, also in the middle of a call.
RestartNext == ProcessAny \/ RemoveAny \/ Deliver \/ Snapshot \/ Restart
RestartSpec == RuntimeInit /\ [][RestartNext]_vars

\* A restart forgets what is active and what waits, and no reader misses it.
LEMMA RestartKeepsCore == CoreInv /\ [RestartNext]_vars => CoreInv'
<1> SUFFICES ASSUME CoreInv, [RestartNext]_vars PROVE CoreInv'
  OBVIOUS
<1>1. CASE ProcessAny
  BY <1>1, ReevaluateKeepsCore DEF ProcessAny, ProcessEvent
<1>2. CASE UNCHANGED runtimeVars
  BY <1>2 DEF runtimeVars, CoreInv, Sinks
<1>3. CASE RemoveAny
  <2>1. PICK x \in EventIds : RemoveAndEvaluate(x)
    BY <1>3 DEF RemoveAny
  <2> QED BY <2>1, <1>2, ReevaluateKeepsCore DEF RemoveAndEvaluate
<1>4. CASE Deliver
  BY <1>4, PositiveKeepsCore, CancelKeepsCore DEF Deliver
<1>5. CASE Restart
  BY <1>5, RuntimeAssumption DEF Restart, AbandonCall, CoreInv, Sinks
<1>6. CASE UNCHANGED vars
  BY <1>2, <1>6 DEF vars
<1> QED BY <1>1, <1>2, <1>3, <1>4, <1>5, <1>6 DEF RestartNext, Snapshot

\* As long as no sink raises, every reader has, between calls, all the trends
\* the runtime holds, whatever restarts forgot, and although events move.
THEOREM RestartsLoseNoPositive == RestartSpec => []NoLostPositive
<1>1. RuntimeInit => CoreInv
  BY RuntimeAssumption DEF RuntimeInit, CoreInv, Sinks
<1>2. CoreInv => NoLostPositive
  BY DEF CoreInv, NoLostPositive, Idle
<1> QED BY <1>1, <1>2, RestartKeepsCore, PTL DEF RestartSpec

\* The same of StandingFaults, whose history tells whether a sink has raised.
THEOREM NoPositiveLostUnlessFailed == FaultSpec => []NoLostPositiveUnlessFailed
<1> DEFINE Inv == failed \/ CoreInv
<1>1. FaultInit => Inv
  BY RuntimeAssumption DEF FaultInit, RuntimeInit, CoreInv, Sinks
<1>2. Inv /\ [FaultNext]_<<vars, failed>> => Inv'
  <2> SUFFICES ASSUME failed \/ CoreInv, [FaultNext]_<<vars, failed>>
               PROVE  failed' \/ CoreInv'
    OBVIOUS
  <2>1. CASE SinkFails /\ failed' = TRUE
    BY <2>1
  <2>2. CASE ~(SinkFails /\ failed' = TRUE)
    <3>1. failed' = failed
      BY <2>2 DEF FaultNext
    <3>2. [RestartNext]_vars
      BY <2>2 DEF FaultNext, PinnedNext, ProcessPinned, ProcessAny, RestartNext
    <3>3. CoreInv => CoreInv'
      BY <3>2, RestartKeepsCore
    <3> QED BY <3>1, <3>3, Zenon
  <2> QED BY <2>1, <2>2
<1>3. Inv => NoLostPositiveUnlessFailed
  BY DEF CoreInv, NoLostPositive, Idle, NoLostPositiveUnlessFailed
<1> QED BY <1>1, <1>2, <1>3, PTL DEF FaultSpec

\* The steps of StandingFaults without the history.
FaultyNext == PinnedNext \/ Snapshot \/ Restart \/ SinkFails

ForgottenInv == GraphInv /\ IndexExact /\ ShownOrForgotten

\* Every step keeps what is held for a partition all or nothing.
LEMMA FaultyNextKeepsForgotten ==
  ASSUME EmptyKey \notin Partitions
  PROVE  ForgottenInv /\ [FaultyNext]_vars => ForgottenInv'
<1> SUFFICES ASSUME ForgottenInv, [FaultyNext]_vars PROVE ForgottenInv'
  OBVIOUS
<1>1. GraphInv' /\ IndexExact'
  <2>1. [Next]_graphVars
    BY PinnedNextIsGraphNext DEF FaultyNext, Snapshot, Restart, SinkFails, Next, vars
  <2> QED BY <2>1, NextKeepsInv, NextKeepsIndex DEF ForgottenInv
<1>2. CASE UNCHANGED <<events, byPartition, active>>
  BY <1>1, <1>2, UnchangedShows DEF ForgottenInv, ShownOrForgotten
<1>3. ASSUME NEW p \in Partitions, Evaluated(p) PROVE ForgottenInv'
  BY <1>1, <1>3 DEF Evaluated, ForgottenInv, ShownOrForgotten
<1>4. CASE [PinnedNext]_vars
  BY <1>2, <1>3, <1>4, PinnedNextIsLocal DEF ForgottenInv
<1>5. CASE Restart
  <2>1. \A p \in Partitions : Shown(p)' = {}
    BY <1>5 DEF Restart, Shown
  <2> QED BY <1>1, <2>1 DEF ForgottenInv, ShownOrForgotten
<1>6. CASE Snapshot \/ SinkFails
  BY <1>2, <1>6 DEF Snapshot, TakeSnapshot, SinkFails, graphVars, runtimeVars
<1> QED BY <1>4, <1>5, <1>6 DEF FaultyNext

\* With sinks that raise and restarts at any time, the runtime holds for each
\* partition either exactly its trends or, after a restart and until it is
\* evaluated again, nothing.
THEOREM AlwaysShownOrForgotten ==
  ASSUME EmptyKey \notin Partitions
  PROVE  FaultSpec => []ShownOrForgotten
<1>1. FaultInit => ForgottenInv
  <2> SUFFICES ASSUME RuntimeInit PROVE ForgottenInv
    BY DEF FaultInit
  <2>1. GraphInv
    BY InitGraphInv DEF RuntimeInit
  <2>2. IndexExact
    BY DEF RuntimeInit, Init, IndexExact
  <2>3. ShownOrForgotten
    BY DEF RuntimeInit, Shown, ShownOrForgotten
  <2> QED BY <2>1, <2>2, <2>3 DEF ForgottenInv
<1>2. ForgottenInv /\ [FaultNext]_<<vars, failed>> => ForgottenInv'
  <2>1. [FaultNext]_<<vars, failed>> => [FaultyNext]_vars
    BY DEF FaultNext, FaultyNext
  <2> QED BY <2>1, FaultyNextKeepsForgotten
<1>3. ForgottenInv => ShownOrForgotten
  BY DEF ForgottenInv
<1> QED BY <1>1, <1>2, <1>3, PTL DEF FaultSpec
=============================================================================
