------------------------ MODULE BatchRuntime_proofs ------------------------
(***************************************************************************)
(* Lemmas about the batch runtime: its graph, the kernel's search in it,   *)
(* and the trends it makes of what the kernel finds.                       *)
(***************************************************************************)
EXTENDS BatchRuntime, SequenceTheorems, FiniteSetTheorems, TLAPS

Search == INSTANCE TrendMatch_proofs
            WITH Inputs <- {}, input <- 0, called <- FALSE, found <- <<>>, raised <- FALSE, trends <- {}

-----------------------------------------------------------------------------
(* Listings of finite sets.                                                *)

\* A finite set has a listing.
LEMMA FiniteListed ==
  ASSUME NEW S, IsFiniteSet(S)
  PROVE  Graph!Listings(S) # {}
<1>1. PICK f : f \in Bijection(1..Cardinality(S), S)
  BY FS_CardinalityType DEF ExistsBijection
<1>2. f \in [1..Cardinality(S) -> S] /\ \A x \in S : \E i \in 1..Cardinality(S) : f[i] = x
  BY <1>1 DEF Bijection, Surjection
<1>3. f \in Graph!Listings(S)
  BY <1>2 DEF Graph!Listings, Graph!Cardinality, Cardinality, IsFiniteSet, Graph!IsFiniteSet
<1> QED
  BY <1>3

\* One with an order has a listing in that order.
LEMMA ListedInOrder ==
  ASSUME NEW S, IsFiniteSet(S), NEW less, Search!IsOrder(S, less)
  PROVE  \E s \in Graph!Listings(S) :
           \A i, j \in 1..Cardinality(S) : i < j => <<s[i], s[j]>> \in less
<1> DEFINE n == Cardinality(S)
           R == Search!Ranked(S, less)
<1>1. Search!IsFiniteSet(S) /\ n = Search!Cardinality(S)
  BY DEF IsFiniteSet, Search!IsFiniteSet, Cardinality, Search!Cardinality
<1> HIDE DEF n, R
<1>2. /\ R \in [1..n -> S]
      /\ \A x \in S : \E j \in 1..n : R[j] = x
      /\ \A j, k \in 1..n : j < k => <<R[j], R[k]>> \in less
  BY <1>1, MatchAssumption, Search!RankedInOrder DEF R
<1>3. R \in Graph!Listings(S)
  BY <1>2 DEF n, Graph!Listings, Graph!Cardinality, Cardinality, IsFiniteSet, Graph!IsFiniteSet
<1> QED
  BY <1>2, <1>3 DEF n

\* A finite set of numbers has a least and a greatest one.
LEMMA Bounds ==
  ASSUME NEW S, IsFiniteSet(S), S # {}, S \subseteq Int
  PROVE  /\ \E least \in S : \A x \in S : least <= x
         /\ \E most \in S : \A x \in S : x <= most
<1> DEFINE n == Cardinality(S)
           less == {p \in S \X S : p[1] < p[2]}
<1>1. Search!IsOrder(S, less)
  BY DEF Search!IsOrder
<1> HIDE DEF less
<1>2. PICK s \in Graph!Listings(S) : \A i, j \in 1..n : i < j => <<s[i], s[j]>> \in less
  BY <1>1, ListedInOrder
<1>3. /\ s \in [1..n -> S] /\ \A x \in S : \E i \in 1..n : s[i] = x
  BY DEF Graph!Listings, Graph!Cardinality, Cardinality, IsFiniteSet, Graph!IsFiniteSet
<1>4. n \in Nat /\ n # 0
  BY FS_CardinalityType, FS_EmptySet
<1> HIDE DEF n
<1>5. 1 \in 1..n /\ n \in 1..n
  BY <1>4
<1>6. \A i, j \in 1..n : i < j => s[i] < s[j]
  BY <1>2 DEF less
<1>7. \A i \in 1..n : s[i] \in Int
  BY <1>3
<1>8. ASSUME NEW i \in 1..n PROVE s[1] <= s[i]
  <2>1. CASE i = 1
    BY <1>5, <1>7, <2>1
  <2>2. CASE 1 < i
    BY <1>5, <1>6, <1>7, <2>2
  <2> QED BY <2>1, <2>2
<1>9. ASSUME NEW i \in 1..n PROVE s[i] <= s[n]
  <2>1. CASE i = n
    BY <1>5, <1>7, <2>1
  <2>2. CASE i < n
    BY <1>5, <1>6, <1>7, <2>2
  <2> QED BY <1>4, <2>1, <2>2
<1> QED
  BY <1>3, <1>5, <1>8, <1>9

-----------------------------------------------------------------------------
(* The graph of a set of events, and of some of them.                      *)

\* Events of a list that validate_events lets through.
Listable(E) ==
  /\ IsFiniteSet(E)
  /\ \A e \in E : e.partition_key \in Int /\ e.event_time_ms \in Int /\ e.event_id \in Int
  /\ \A a, b \in E : a.event_id = b.event_id => a = b

IdsOf(E) == {e.event_id : e \in E}

\* An edge as the kernel gets it.
Native(x) == [src             |-> x.src,
              dst             |-> x.dst,
              window_start_ms |-> x.window_start_ms,
              window_end_ms   |-> x.window_end_ms]

LEMMA EventsOrdered ==
  ASSUME NEW E, Listable(E)
  PROVE  Search!IsOrder(E, {p \in E \X E : Graph!VertexOrder(p[1], p[2])})
<1> DEFINE less == {p \in E \X E : Graph!VertexOrder(p[1], p[2])}
<1>1. \A x, y \in E : <<x, y>> \in less <=> Graph!VertexOrder(x, y)
  OBVIOUS
<1>2. \A e \in E : e.partition_key \in Int /\ e.event_time_ms \in Int /\ e.event_id \in Int
  BY DEF Listable
<1>3. \A x \in E : ~Graph!VertexOrder(x, x)
  BY <1>2 DEF Graph!VertexOrder, Graph!Before
<1>4. \A x, y, z \in E : Graph!VertexOrder(x, y) /\ Graph!VertexOrder(y, z)
                           => Graph!VertexOrder(x, z)
  BY <1>2 DEF Graph!VertexOrder, Graph!Before
<1>5. \A x, y \in E : x.event_id = y.event_id \/ Graph!VertexOrder(x, y) \/ Graph!VertexOrder(y, x)
  BY <1>2 DEF Graph!VertexOrder, Graph!Before
<1>6. \A x, y \in E : x = y \/ Graph!VertexOrder(x, y) \/ Graph!VertexOrder(y, x)
  BY <1>5 DEF Listable
<1> HIDE DEF less
<1> QED
  BY <1>1, <1>3, <1>4, <1>6 DEF Search!IsOrder

LEMMA GraphOrder ==
  ASSUME NEW E, Listable(E), NEW order, order = Graph!Build(E).order
  PROVE  /\ Cardinality(E) \in Nat /\ DOMAIN order = 1..Cardinality(E)
         /\ \A i \in 1..Cardinality(E) : order[i] \in IdsOf(E)
         /\ \A e \in E : \E i \in 1..Cardinality(E) : order[i] = e.event_id
<1> DEFINE n == Cardinality(E)
           less == {p \in E \X E : Graph!VertexOrder(p[1], p[2])}
           InOrder(s) == \A i, j \in DOMAIN s : i < j => Graph!VertexOrder(s[i], s[j])
           sorted == CHOOSE s \in Graph!Listings(E) : InOrder(s)
<1>1. IsFiniteSet(E) /\ n \in Nat
  BY FS_CardinalityType DEF Listable
<1>2. PICK s \in Graph!Listings(E) : \A i, j \in 1..n : i < j => <<s[i], s[j]>> \in less
  <2> HIDE DEF less
  <2> QED
    BY <1>1, EventsOrdered, ListedInOrder DEF less
<1>3. \A t \in Graph!Listings(E) : t \in [1..n -> E] /\ \A x \in E : \E i \in 1..n : t[i] = x
  BY DEF Graph!Listings, Graph!Cardinality, Cardinality, IsFiniteSet, Graph!IsFiniteSet
<1>4. InOrder(s)
  BY <1>2, <1>3
<1>5. sorted \in Graph!Listings(E)
  <2> HIDE DEF InOrder
  <2> QED BY <1>4
<1>6. order = [i \in DOMAIN sorted |-> sorted[i].event_id]
  BY DEF Graph!Build
<1> HIDE DEF sorted, n
<1>7. sorted \in [1..n -> E] /\ \A x \in E : \E i \in 1..n : sorted[i] = x
  BY <1>3, <1>5
<1> QED
  BY <1>1, <1>6, <1>7 DEF IdsOf, n

LEMMA GraphVertices ==
  ASSUME NEW E, Listable(E), NEW vertex, vertex = Graph!Build(E).vertex
  PROVE  /\ DOMAIN vertex = IdsOf(E)
         /\ \A e \in E : vertex[e.event_id] = [event_type    |-> e.event_type,
                                                event_time_ms |-> e.event_time_ms]
<1>1. vertex = [id \in IdsOf(E) |->
                 LET e == CHOOSE x \in E : x.event_id = id
                 IN  [event_type |-> e.event_type, event_time_ms |-> e.event_time_ms]]
  BY DEF Graph!Build, IdsOf
<1>2. ASSUME NEW e \in E
      PROVE  (CHOOSE x \in E : x.event_id = e.event_id) = e
  BY DEF Listable
<1>3. ASSUME NEW e \in E
      PROVE  vertex[e.event_id] = [event_type |-> e.event_type, event_time_ms |-> e.event_time_ms]
  <2>1. e.event_id \in IdsOf(E)
    BY DEF IdsOf
  <2> QED
    BY <1>1, <1>2, <2>1
<1>4. DOMAIN vertex = IdsOf(E)
  BY <1>1
<1> QED
  BY <1>3, <1>4

\* The edges are between the events, with their times.
EdgeBetween(E, x) ==
  \E a, b \in E : \E r \in EntityKeys \cup {"temporal_next", "parent_process"} :
    x \in Graph!EdgeOf(a, b, r)

LEMMA EdgesBetween ==
  ASSUME NEW E, NEW x \in Graph!Edges(E)
  PROVE  EdgeBetween(E, x)
<1>1. CASE x \in Graph!TemporalEdges(E)
  <2>1. PICK k : x \in Graph!Linked(Graph!Neighbours({e \in E : e.partition_key = k}), "temporal_next")
    BY <1>1 DEF Graph!TemporalEdges
  <2>2. PICK p \in Graph!Neighbours({e \in E : e.partition_key = k}) :
               x \in Graph!EdgeOf(p[1], p[2], "temporal_next")
    BY <2>1 DEF Graph!Linked
  <2>3. p[1] \in E /\ p[2] \in E
    BY <2>2 DEF Graph!Neighbours
  <2> QED
    BY <2>2, <2>3 DEF EdgeBetween
<1>2. CASE x \in Graph!EntityEdges(E)
  <2>0. PICK key \in EntityKeys :
               \E v : x \in Graph!Linked(Graph!Neighbours({e \in E : e.field[key] = v}), key)
    BY <1>2 DEF Graph!EntityEdges
  <2>1. PICK v : x \in Graph!Linked(Graph!Neighbours({e \in E : e.field[key] = v}), key)
    BY <2>0
  <2>2. PICK p \in Graph!Neighbours({e \in E : e.field[key] = v}) :
               x \in Graph!EdgeOf(p[1], p[2], key)
    BY <2>1 DEF Graph!Linked
  <2>3. p[1] \in E /\ p[2] \in E
    BY <2>2 DEF Graph!Neighbours
  <2> QED
    BY <2>2, <2>3 DEF EdgeBetween
<1>3. CASE x \in Graph!ParentEdges(E)
  <2>1. PICK child \in E :
          x \in Graph!Linked({<<e, child>> : e \in {c \in Graph!Candidates(E, child) :
                   \A d \in Graph!Candidates(E, child) : ~Graph!Before(c, d)}}, "parent_process")
    BY <1>3 DEF Graph!ParentEdges
  <2>2. PICK e \in Graph!Candidates(E, child) : x \in Graph!EdgeOf(e, child, "parent_process")
    BY <2>1 DEF Graph!Linked
  <2>3. e \in E
    BY <2>2 DEF Graph!Candidates
  <2> QED
    BY <2>1, <2>2, <2>3 DEF EdgeBetween
<1> QED
  BY <1>1, <1>2, <1>3 DEF Graph!Edges

LEMMA EdgesFinite ==
  ASSUME NEW E, IsFiniteSet(E)
  PROVE  IsFiniteSet(Graph!Edges(E))
<1> DEFINE Rel == EntityKeys \cup {"temporal_next", "parent_process"}
           D == (E \X E) \X Rel
           Make(a, b, r) == [src |-> a.event_id, dst |-> b.event_id, relation |-> r,
                             window_start_ms |-> a.event_time_ms, window_end_ms |-> b.event_time_ms]
           f == [d \in D |-> Make(d[1][1], d[1][2], d[2])]
           T == {f[d] : d \in D}
<1>1. IsFiniteSet({"temporal_next", "parent_process"})
  <2>1. {"temporal_next", "parent_process"} = {"temporal_next"} \cup {"parent_process"}
    OBVIOUS
  <2>2. IsFiniteSet({"temporal_next"})
    BY FS_Singleton
  <2> QED
    BY <2>1, <2>2, FS_AddElement
<1>2. IsFiniteSet(Rel)
  BY <1>1, BatchAssumption, FS_Union
<1> HIDE DEF Rel
<1>3. IsFiniteSet(E \X E)
  BY FS_Product
<1>4. IsFiniteSet(D)
  BY <1>2, <1>3, FS_Product
<1>5. IsFiniteSet(T)
  <2> HIDE DEF D
  <2>1. f \in Surjection(D, T)
    BY DEF Surjection
  <2> HIDE DEF f, T
  <2> QED
    BY <1>4, <2>1, FS_Surjection
<1>6. Graph!Edges(E) \subseteq T
  <2> SUFFICES ASSUME NEW x \in Graph!Edges(E) PROVE x \in T
    OBVIOUS
  <2>1. PICK a \in E, b \in E, r \in Rel : x \in Graph!EdgeOf(a, b, r)
    BY EdgesBetween DEF EdgeBetween, Rel
  <2>2. x \in {Make(a, b, r), Make(b, a, r)}
    BY <2>1 DEF Graph!EdgeOf
  <2>3. <<<<a, b>>, r>> \in D /\ <<<<b, a>>, r>> \in D
    OBVIOUS
  <2>4. f[<<<<a, b>>, r>>] = Make(a, b, r) /\ f[<<<<b, a>>, r>>] = Make(b, a, r)
    BY <2>3
  <2> QED
    BY <2>2, <2>3, <2>4
<1> QED
  BY <1>5, <1>6, FS_Subset

LEMMA GraphEdges ==
  ASSUME NEW E, Listable(E), NEW edges, edges = Graph!Build(E).edges
  PROVE  /\ \A i \in DOMAIN edges : \E x \in Graph!Edges(E) : edges[i] = Native(x)
         /\ \A x \in Graph!Edges(E) : \E i \in DOMAIN edges : edges[i] = Native(x)
<1> DEFINE S == Graph!Edges(E)
           listed == CHOOSE s \in Graph!Listings(S) : TRUE
<1>1. Graph!Listings(S) # {}
  BY EdgesFinite, FiniteListed DEF Listable
<1>2. listed \in Graph!Listings(S)
  BY <1>1
<1>3. edges = [i \in DOMAIN listed |-> Native(listed[i])]
  BY DEF Graph!Build, Native
<1> HIDE DEF listed, S
<1>4. PICK n : listed \in [1..n -> S] /\ \A x \in S : \E i \in DOMAIN listed : listed[i] = x
  BY <1>2 DEF Graph!Listings
<1> QED
  BY <1>3, <1>4 DEF S

LEMMA LinkedBy ==
  ASSUME NEW pairs, NEW p \in pairs, NEW r, NEW x \in Graph!EdgeOf(p[1], p[2], r)
  PROVE  x \in Graph!Linked(pairs, r)
BY DEF Graph!Linked

\* An edge between two events that are kept is still there when others are
\* left out: neighbours stay neighbours and the latest candidate the latest.
LEMMA EdgeKept ==
  ASSUME NEW E, Listable(E), NEW H, H \subseteq E,
         NEW x \in Graph!Edges(E), x.src \in IdsOf(H), x.dst \in IdsOf(H)
  PROVE  x \in Graph!Edges(H)
<1>1. ASSUME NEW a \in E, NEW b \in E, NEW r, x \in Graph!EdgeOf(a, b, r)
      PROVE  a \in H /\ b \in H
  <2>1. {x.src, x.dst} = {a.event_id, b.event_id}
    BY <1>1 DEF Graph!EdgeOf
  <2>2. a.event_id \in IdsOf(H) /\ b.event_id \in IdsOf(H)
    BY <2>1
  <2> QED
    BY <2>2 DEF IdsOf, Listable
<1>2. CASE x \in Graph!TemporalEdges(E)
  <2> DEFINE group(F, k) == {e \in F : e.partition_key = k}
  <2>1. PICK k : x \in Graph!Linked(Graph!Neighbours(group(E, k)), "temporal_next")
    BY <1>2 DEF Graph!TemporalEdges
  <2>2. PICK p \in Graph!Neighbours(group(E, k)) : x \in Graph!EdgeOf(p[1], p[2], "temporal_next")
    BY <2>1 DEF Graph!Linked
  <2>3. p[1] \in group(E, k) /\ p[2] \in group(E, k) /\ p = <<p[1], p[2]>>
    BY <2>2 DEF Graph!Neighbours
  <2>4. p[1] \in group(H, k) /\ p[2] \in group(H, k)
    BY <1>1, <2>2, <2>3
  <2>5. p \in Graph!Neighbours(group(H, k))
    <3>1. group(H, k) \subseteq group(E, k)
      OBVIOUS
    <3> HIDE DEF group
    <3> QED
      BY <2>2, <2>3, <2>4, <3>1 DEF Graph!Neighbours
  <2>6. x \in Graph!Linked(Graph!Neighbours(group(H, k)), "temporal_next")
    BY <2>2, <2>5 DEF Graph!Linked
  <2>7. k \in {e.partition_key : e \in H}
    BY <2>4
  <2> QED
    BY <2>6, <2>7 DEF Graph!TemporalEdges, Graph!Edges
<1>3. CASE x \in Graph!EntityEdges(E)
  <2> DEFINE group(F, key, v) == {e \in F : e.field[key] = v}
  <2>1. PICK key \in EntityKeys,
             v \in {e.field[key2] : e \in E, key2 \in EntityKeys} \ {NoValue, EmptyValue} :
               x \in Graph!Linked(Graph!Neighbours(group(E, key, v)), key)
    BY <1>3 DEF Graph!EntityEdges
  <2>2. PICK p \in Graph!Neighbours(group(E, key, v)) : x \in Graph!EdgeOf(p[1], p[2], key)
    BY <2>1 DEF Graph!Linked
  <2>3. p[1] \in group(E, key, v) /\ p[2] \in group(E, key, v) /\ p = <<p[1], p[2]>>
    BY <2>2 DEF Graph!Neighbours
  <2>4. p[1] \in group(H, key, v) /\ p[2] \in group(H, key, v)
    BY <1>1, <2>2, <2>3
  <2>5. p \in Graph!Neighbours(group(H, key, v))
    <3>1. group(H, key, v) \subseteq group(E, key, v)
      OBVIOUS
    <3> HIDE DEF group
    <3> QED
      BY <2>2, <2>3, <2>4, <3>1 DEF Graph!Neighbours
  <2>6. x \in Graph!Linked(Graph!Neighbours(group(H, key, v)), key)
    <3> HIDE DEF group
    <3> QED BY <2>2, <2>5, LinkedBy
  <2> DEFINE values(F) == {e.field[key2] : e \in F, key2 \in EntityKeys} \ {NoValue, EmptyValue}
  <2>7. v \in values(H)
    BY <2>1, <2>4
  <2>8. Graph!EntityEdges(H) =
          UNION {Graph!Linked(Graph!Neighbours(group(H, k, w)), k) : k \in EntityKeys, w \in values(H)}
    BY DEF Graph!EntityEdges
  <2> HIDE DEF group, values
  <2>9. Graph!Linked(Graph!Neighbours(group(H, key, v)), key)
          \in {Graph!Linked(Graph!Neighbours(group(H, k, w)), k) : k \in EntityKeys, w \in values(H)}
    BY <2>1, <2>7
  <2>10. x \in Graph!EntityEdges(H)
    BY <2>6, <2>8, <2>9
  <2> QED
    BY <2>10 DEF Graph!Edges
<1>4. CASE x \in Graph!ParentEdges(E)
  <2> DEFINE latest(F, child) == {c \in Graph!Candidates(F, child) :
                   \A d \in Graph!Candidates(F, child) : ~Graph!Before(c, d)}
  <2>1. PICK child \in E :
          /\ child.field["parent_process_id"] # NoValue
          /\ x \in Graph!Linked({<<e, child>> : e \in latest(E, child)}, "parent_process")
    BY <1>4 DEF Graph!ParentEdges
  <2>2. PICK e \in latest(E, child) : x \in Graph!EdgeOf(e, child, "parent_process")
    BY <2>1 DEF Graph!Linked
  <2>3. e \in E
    BY <2>2 DEF Graph!Candidates
  <2>4. e \in H /\ child \in H
    BY <1>1, <2>2, <2>3
  <2>5. Graph!Candidates(H, child) \subseteq Graph!Candidates(E, child)
    BY DEF Graph!Candidates
  <2>6. e \in Graph!Candidates(H, child)
    BY <2>2, <2>4 DEF Graph!Candidates
  <2>7. e \in latest(H, child)
    BY <2>2, <2>5, <2>6
  <2>8. x \in Graph!Linked({<<f, child>> : f \in latest(H, child)}, "parent_process")
    <3> DEFINE pairs == {<<f, child>> : f \in latest(H, child)}
    <3> HIDE DEF latest
    <3>1. <<e, child>> \in pairs
      BY <2>7
    <3>2. x \in Graph!EdgeOf(<<e, child>>[1], <<e, child>>[2], "parent_process")
      BY <2>2
    <3> HIDE DEF pairs
    <3>3. x \in Graph!Linked(pairs, "parent_process")
      BY <3>1, <3>2, LinkedBy
    <3> QED BY <3>3 DEF pairs
  <2>9. Graph!ParentEdges(H) =
          UNION {Graph!Linked({<<f, c>> : f \in latest(H, c)}, "parent_process") :
                   c \in {d \in H : d.field["parent_process_id"] # NoValue}}
    BY DEF Graph!ParentEdges
  <2> HIDE DEF latest
  <2>10. Graph!Linked({<<f, child>> : f \in latest(H, child)}, "parent_process")
           \in {Graph!Linked({<<f, c>> : f \in latest(H, c)}, "parent_process") :
                   c \in {d \in H : d.field["parent_process_id"] # NoValue}}
    BY <2>1, <2>4
  <2>11. x \in Graph!ParentEdges(H)
    BY <2>8, <2>9, <2>10
  <2> QED
    BY <2>11 DEF Graph!Edges
<1> QED
  BY <1>2, <1>3, <1>4 DEF Graph!Edges

-----------------------------------------------------------------------------
(* The search of the kernel over some of the events.                       *)

\* The path of a walk the kernel considers.
Walked(c, v, es, path) ==
  /\ \E i \in Kernel(c)!StartPositions : v = c.graph.order[i]
  /\ es \in Kernel(c)!Walks(v)
  /\ path = Kernel(c)!Route(v, es)

LEMMA MatchesWalked ==
  ASSUME NEW q, NEW E, NEW c, c = HcetCall(q, E), NEW path
  PROVE  (\E m \in NativeMatches(q, E) : m.path = path)
           <=> /\ \E v, es : Walked(c, v, es, path)
               /\ Kernel(c)!Readings(path) # {}
<1> DEFINE starts == {c.graph.order[i] : i \in Kernel(c)!StartPositions}
           routed == UNION {{<<v, es>> : es \in Kernel(c)!Walks(v)} : v \in starts}
           paths  == {Kernel(c)!Route(w[1], w[2]) : w \in routed}
           copies(p) == Cardinality({w \in routed : Kernel(c)!Route(w[1], w[2]) = p})
                          * Cardinality(Kernel(c)!Readings(p))
<1>1. NativeMatches(q, E) =
        {[path |-> p, copies |-> copies(p)] : p \in {r \in paths : Kernel(c)!Readings(r) # {}}}
  BY DEF NativeMatches, HcetCall
<1>2. ASSUME NEW v, NEW es, Walked(c, v, es, path)
      PROVE  path \in paths
  <2>1. v \in starts /\ es \in Kernel(c)!Walks(v)
    BY <1>2 DEF Walked
  <2>2. <<v, es>> \in routed
    BY <2>1
  <2>3. path = Kernel(c)!Route(<<v, es>>[1], <<v, es>>[2])
    BY <1>2 DEF Walked
  <2> HIDE DEF routed
  <2> QED
    BY <2>2, <2>3
<1>3. ASSUME path \in paths
      PROVE  \E v, es : Walked(c, v, es, path)
  <2>1. PICK w \in routed : path = Kernel(c)!Route(w[1], w[2])
    BY <1>3
  <2>2. PICK v \in starts : w \in {<<v, es>> : es \in Kernel(c)!Walks(v)}
    BY <2>1
  <2>3. PICK es \in Kernel(c)!Walks(v) : w = <<v, es>>
    BY <2>2
  <2> QED
    BY <2>1, <2>2, <2>3 DEF Walked
<1> DEFINE read == {r \in paths : Kernel(c)!Readings(r) # {}}
<1>4. (\E m \in NativeMatches(q, E) : m.path = path) <=> path \in read
  <2>1. NativeMatches(q, E) = {[path |-> p, copies |-> copies(p)] : p \in read}
    BY <1>1
  <2> HIDE DEF read, copies
  <2>2. \A p \in read : [path |-> p, copies |-> copies(p)] \in NativeMatches(q, E)
    BY <2>1
  <2>3. \A m \in NativeMatches(q, E) : \E p \in read : m = [path |-> p, copies |-> copies(p)]
    BY <2>1
  <2>4. \A m \in NativeMatches(q, E) : m.path \in read
    BY <2>3
  <2>5. \A p \in read : [path |-> p, copies |-> copies(p)].path = p
    OBVIOUS
  <2> QED
    BY <2>2, <2>4, <2>5
<1>5. path \in read <=> path \in paths /\ Kernel(c)!Readings(path) # {}
  <2> HIDE DEF paths
  <2> QED OBVIOUS
<1> QED
  BY <1>2, <1>3, <1>4, <1>5

\* What a walk is, in terms of the events.
Follows(E, v, n, es, path) ==
  /\ n \in Nat /\ es \in [1..n -> DOMAIN Graph!Build(E).edges]
  /\ path \in [1..n + 1 -> IdsOf(E)] /\ path[1] = v
  /\ \A k \in 1..n : /\ Graph!Build(E).edges[es[k]].src = path[k]
                     /\ Graph!Build(E).edges[es[k]].dst = path[k + 1]

\* A step of the kernel is in time.
StepInTime(q, vertex, x, start) ==
  LET time(id) == vertex[id].event_time_ms IN
    /\ time(x.dst) >= start /\ time(x.dst) >= time(x.src)
    /\ q.within_ms >= 0 => time(x.dst) - start <= q.within_ms
    /\ x.window_end_ms > x.window_start_ms =>
         /\ x.window_start_ms <= time(x.src) /\ time(x.src) <= x.window_end_ms
         /\ x.window_start_ms <= time(x.dst) /\ time(x.dst) <= x.window_end_ms

LEMMA KernelOperators ==
  ASSUME NEW q, NEW E, Listable(E), NEW c, c = HcetCall(q, E)
  PROVE  /\ c.graph = Graph!Build(E) /\ c.seq = NativePattern(q) /\ c.within_ms = q.within_ms
         /\ Kernel(c)!Vertices = IdsOf(E)
         /\ \A v : Kernel(c)!Type(v) = Graph!Build(E).vertex[v].event_type
         /\ \A v : Kernel(c)!Time(v) = Graph!Build(E).vertex[v].event_time_ms
         /\ \A v : (\E i \in Kernel(c)!StartPositions : v = c.graph.order[i])
                     <=> v \in IdsOf(E) /\ Kernel(c)!Type(v) = c.seq[1].name
<1>1. /\ c.graph = Graph!Build(E) /\ c.seq = NativePattern(q) /\ c.within_ms = q.within_ms
      /\ c.engine = "hcet" /\ c.begin = 0 /\ c.end = Cardinality(E)
  BY DEF HcetCall
<1> DEFINE order == Graph!Build(E).order
           n == Cardinality(E)
<1> HIDE DEF order
<1>2. /\ n \in Nat /\ DOMAIN order = 1..n
      /\ \A i \in 1..n : order[i] \in IdsOf(E)
      /\ \A e \in E : \E i \in 1..n : order[i] = e.event_id
  BY GraphOrder DEF order
<1>3. DOMAIN Graph!Build(E).vertex = IdsOf(E)
  BY GraphVertices
<1>4. c.graph.order = order
  BY <1>1 DEF order
<1> HIDE DEF n
<1>5. Kernel(c)!StartPositions = {i \in 1..n : Kernel(c)!Type(order[i]) = c.seq[1].name}
  BY <1>1, <1>2, <1>4 DEF Kernel!StartPositions, n
<1>6. ASSUME NEW v
      PROVE  (\E i \in Kernel(c)!StartPositions : v = c.graph.order[i])
               <=> v \in IdsOf(E) /\ Kernel(c)!Type(v) = c.seq[1].name
  <2>1. (\E i \in Kernel(c)!StartPositions : v = c.graph.order[i])
          <=> \E i \in 1..n : v = order[i] /\ Kernel(c)!Type(v) = c.seq[1].name
    BY <1>4, <1>5
  <2>2. (\E i \in 1..n : v = order[i]) <=> v \in IdsOf(E)
    BY <1>2 DEF IdsOf
  <2> QED
    BY <2>1, <2>2
<1> QED
  BY <1>1, <1>3, <1>6 DEF Kernel!Vertices, Kernel!Type, Kernel!Time

\* A walk follows the graph in time from an event of the first type.
LEMMA WalkFollows ==
  ASSUME NEW q, NEW E, Listable(E), NEW c, c = HcetCall(q, E),
         NEW v, NEW es, NEW path, NEW n, n = Len(es)
  PROVE  Walked(c, v, es, path)
           <=> /\ Follows(E, v, n, es, path) /\ n \in 0..MaxPathLen
               /\ Kernel(c)!Type(v) = c.seq[1].name
               /\ \A k \in 1..n : StepInTime(q, Graph!Build(E).vertex, Graph!Build(E).edges[es[k]],
                                         Kernel(c)!Time(v))
<1> DEFINE edges == Graph!Build(E).edges
           vertex == Graph!Build(E).vertex
           route == Kernel(c)!Route(v, es)
           Ok(x) == Kernel(c)!EdgeTemporalOk(x.src, x.dst, Kernel(c)!Time(v), x)
<1>1. /\ c.graph = Graph!Build(E) /\ c.within_ms = q.within_ms
      /\ Kernel(c)!Vertices = IdsOf(E)
      /\ \A u : Kernel(c)!Time(u) = vertex[u].event_time_ms
      /\ (\E i \in Kernel(c)!StartPositions : v = c.graph.order[i])
           <=> v \in IdsOf(E) /\ Kernel(c)!Type(v) = c.seq[1].name
  BY KernelOperators
<1>2. \A x : Ok(x) <=> x.dst \in IdsOf(E) /\ StepInTime(q, vertex, x, Kernel(c)!Time(v))
  BY <1>1 DEF Kernel!EdgeTemporalOk, StepInTime
<1>3. route = [k \in 1..n + 1 |-> IF k = 1 THEN v ELSE edges[es[k - 1]].dst]
  BY <1>1 DEF Kernel!Route
<1>4. es \in Kernel(c)!Walks(v)
        <=> /\ es \in UNION {[1..m -> DOMAIN edges] : m \in 0..MaxPathLen}
            /\ \A k \in DOMAIN es : edges[es[k]].src = route[k] /\ Ok(edges[es[k]])
  BY <1>1 DEF Kernel!Walks
<1> HIDE DEF edges, vertex, route, Ok
<1>5. ASSUME NEW m \in 0..MaxPathLen, es \in [1..m -> DOMAIN edges]
      PROVE  m = n /\ n \in Nat /\ DOMAIN es = 1..n
  BY <1>5
<1>6. ASSUME Walked(c, v, es, path)
      PROVE  /\ Follows(E, v, n, es, path) /\ n \in 0..MaxPathLen
             /\ Kernel(c)!Type(v) = c.seq[1].name
             /\ \A k \in 1..n : StepInTime(q, vertex, edges[es[k]], Kernel(c)!Time(v))
  <2>1. PICK m \in 0..MaxPathLen : es \in [1..m -> DOMAIN edges]
    BY <1>4, <1>6 DEF Walked
  <2>2. m = n /\ n \in Nat /\ DOMAIN es = 1..n
    BY <1>5, <2>1
  <2>3. path = route /\ \A k \in 1..n : edges[es[k]].src = route[k] /\ Ok(edges[es[k]])
    BY <1>4, <1>6, <2>2 DEF Walked, route
  <2>4. v \in IdsOf(E) /\ Kernel(c)!Type(v) = c.seq[1].name
    BY <1>1, <1>6 DEF Walked
  <2>5. \A k \in 1..n : /\ edges[es[k]].dst \in IdsOf(E)
                        /\ StepInTime(q, vertex, edges[es[k]], Kernel(c)!Time(v))
    BY <1>2, <2>3
  <2>6. path \in [1..n + 1 -> IdsOf(E)] /\ path[1] = v
    BY <1>3, <2>2, <2>3, <2>4, <2>5
  <2>7. \A k \in 1..n : edges[es[k]].src = path[k] /\ edges[es[k]].dst = path[k + 1]
    <3> TAKE k \in 1..n
    <3>1. k + 1 \in 1..n + 1 /\ k + 1 # 1 /\ (k + 1) - 1 = k
      BY <2>2
    <3>2. route[k + 1] = edges[es[k]].dst
      BY <1>3, <3>1
    <3> QED
      BY <2>3, <3>2
  <2> QED
    BY <2>1, <2>2, <2>4, <2>5, <2>6, <2>7 DEF Follows, edges
<1>7. ASSUME Follows(E, v, n, es, path), n \in 0..MaxPathLen,
             Kernel(c)!Type(v) = c.seq[1].name,
             \A k \in 1..n : StepInTime(q, vertex, edges[es[k]], Kernel(c)!Time(v))
      PROVE  Walked(c, v, es, path)
  <2>1. /\ n \in Nat /\ es \in [1..n -> DOMAIN edges]
        /\ path \in [1..n + 1 -> IdsOf(E)] /\ path[1] = v
        /\ \A k \in 1..n : edges[es[k]].src = path[k] /\ edges[es[k]].dst = path[k + 1]
    BY <1>7 DEF Follows, edges
  <2>2. \A k \in 1..n : k + 1 \in 1..n + 1 /\ k \in 1..n + 1
    BY <2>1
  <2>3. path = route
    <3>1. \A k \in 1..n + 1 : path[k] = route[k]
      <4> TAKE k \in 1..n + 1
      <4>1. CASE k = 1
        BY <1>3, <2>1, <4>1
      <4>2. CASE k # 1
        <5>1. k - 1 \in 1..n /\ (k - 1) + 1 = k
          BY <2>1, <4>2
        <5> QED
          BY <1>3, <2>1, <4>2, <5>1
      <4> QED
        BY <4>1, <4>2
    <3> QED
      BY <1>3, <2>1, <3>1
  <2>4. \A k \in 1..n : Ok(edges[es[k]])
    BY <1>2, <1>7, <2>1, <2>2
  <2>5. es \in Kernel(c)!Walks(v)
    BY <1>4, <1>7, <2>1, <2>3, <2>4
  <2>6. v \in IdsOf(E)
    BY <2>1
  <2> QED
    BY <1>1, <1>7, <2>3, <2>5, <2>6 DEF Walked, route
<1> QED
  BY <1>6, <1>7 DEF edges, vertex

LEMMA ListableSubset ==
  ASSUME NEW E, Listable(E), NEW H, H \subseteq E
  PROVE  Listable(H)
<1>1. IsFiniteSet(H)
  BY FS_Subset DEF Listable
<1> QED
  BY <1>1 DEF Listable

\* What the kernel finds among all events it finds among some, if these are
\* the ones it has found.
LEMMA WalkKept ==
  ASSUME NEW q, NEW E, Listable(E), NEW H, H \subseteq E,
         NEW v, NEW es, NEW path, Walked(HcetCall(q, E), v, es, path),
         \A k \in DOMAIN path : path[k] \in IdsOf(H)
  PROVE  \E w : Walked(HcetCall(q, H), v, w, path)
<1> DEFINE c == HcetCall(q, E)
           d == HcetCall(q, H)
           n == Len(es)
           gE == Graph!Build(E)
           gH == Graph!Build(H)
<1>1. Listable(H)
  BY ListableSubset
<1>2. /\ Follows(E, v, n, es, path) /\ n \in 0..MaxPathLen
      /\ Kernel(c)!Type(v) = c.seq[1].name
      /\ \A k \in 1..n : StepInTime(q, gE.vertex, gE.edges[es[k]], Kernel(c)!Time(v))
  BY WalkFollows
<1>3. /\ n \in Nat /\ es \in [1..n -> DOMAIN gE.edges]
      /\ path \in [1..n + 1 -> IdsOf(E)] /\ path[1] = v
      /\ \A k \in 1..n : gE.edges[es[k]].src = path[k] /\ gE.edges[es[k]].dst = path[k + 1]
  BY <1>2 DEF Follows
<1>4. /\ \A u : Kernel(c)!Time(u) = gE.vertex[u].event_time_ms
      /\ \A u : Kernel(d)!Time(u) = gH.vertex[u].event_time_ms
      /\ \A u : Kernel(c)!Type(u) = gE.vertex[u].event_type
      /\ \A u : Kernel(d)!Type(u) = gH.vertex[u].event_type
      /\ c.seq = d.seq
  BY <1>1, KernelOperators DEF HcetCall
<1>5. /\ \A x \in Graph!Edges(H) : \E i \in DOMAIN gH.edges : gH.edges[i] = Native(x)
      /\ \A i \in DOMAIN gE.edges : \E x \in Graph!Edges(E) : gE.edges[i] = Native(x)
  BY <1>1, GraphEdges
<1>6. \A id \in IdsOf(H) : gE.vertex[id] = gH.vertex[id]
  <2> SUFFICES ASSUME NEW e \in H PROVE gE.vertex[e.event_id] = gH.vertex[e.event_id]
    BY DEF IdsOf
  <2>1. e \in E
    OBVIOUS
  <2>2. gE.vertex[e.event_id] = [event_type |-> e.event_type, event_time_ms |-> e.event_time_ms]
    BY <2>1, GraphVertices
  <2>3. gH.vertex[e.event_id] = [event_type |-> e.event_type, event_time_ms |-> e.event_time_ms]
    BY <1>1, GraphVertices
  <2> QED
    BY <2>2, <2>3
<1> HIDE DEF gE, gH, c, d, n
<1>7. \A k \in 1..n + 1 : path[k] \in IdsOf(H)
  BY <1>3
<1>8. \A k \in 1..n : k \in 1..n + 1 /\ k + 1 \in 1..n + 1
  BY <1>3
<1>9. ASSUME NEW k \in 1..n
      PROVE  \E j \in DOMAIN gH.edges : gH.edges[j] = gE.edges[es[k]]
  <2>1. PICK x \in Graph!Edges(E) : gE.edges[es[k]] = Native(x)
    BY <1>3, <1>5
  <2>2. x.src = path[k] /\ x.dst = path[k + 1]
    BY <1>3, <2>1 DEF Native
  <2>3. x.src \in IdsOf(H) /\ x.dst \in IdsOf(H)
    BY <1>7, <1>8, <2>2
  <2>4. x \in Graph!Edges(H)
    BY <2>3, EdgeKept
  <2> QED
    BY <1>5, <2>1, <2>4
<1> DEFINE w == [k \in 1..n |-> CHOOSE j \in DOMAIN gH.edges : gH.edges[j] = gE.edges[es[k]]]
<1>10. w \in [1..n -> DOMAIN gH.edges] /\ \A k \in 1..n : gH.edges[w[k]] = gE.edges[es[k]]
  BY <1>9
<1> HIDE DEF w
<1>11. Len(w) = n
  BY <1>3, <1>10
<1>12. 1 \in 1..n + 1
  BY <1>3
<1>13. v \in IdsOf(H) /\ path \in [1..n + 1 -> IdsOf(H)]
  BY <1>3, <1>7, <1>12
<1>14. Follows(H, v, n, w, path)
  BY <1>3, <1>10, <1>13 DEF Follows, gH
<1>15. Kernel(d)!Type(v) = d.seq[1].name /\ Kernel(d)!Time(v) = Kernel(c)!Time(v)
  BY <1>2, <1>4, <1>6, <1>13 DEF c
<1>16. \A k \in 1..n : StepInTime(q, gH.vertex, gH.edges[w[k]], Kernel(d)!Time(v))
  <2> TAKE k \in 1..n
  <2>1. StepInTime(q, gE.vertex, gE.edges[es[k]], Kernel(c)!Time(v))
    BY <1>2 DEF gE, c, n
  <2>2. gE.edges[es[k]].src \in IdsOf(H) /\ gE.edges[es[k]].dst \in IdsOf(H)
    BY <1>3, <1>7, <1>8
  <2>3. gH.edges[w[k]] = gE.edges[es[k]]
    BY <1>10
  <2>4. /\ gE.vertex[gE.edges[es[k]].src] = gH.vertex[gE.edges[es[k]].src]
        /\ gE.vertex[gE.edges[es[k]].dst] = gH.vertex[gE.edges[es[k]].dst]
    BY <1>6, <2>2
  <2> QED
    BY <1>15, <2>1, <2>3, <2>4 DEF StepInTime
<1>17. Walked(d, v, w, path)
  BY <1>1, <1>2, <1>11, <1>14, <1>15, <1>16, WalkFollows DEF d, n, gH
<1> QED
  BY <1>17 DEF d

LEMMA ReadingsKept ==
  ASSUME NEW q, NEW E, Listable(E), NEW H, H \subseteq E,
         NEW n \in Nat, NEW path \in [1..n + 1 -> IdsOf(H)]
  PROVE  Kernel(HcetCall(q, E))!Readings(path) = Kernel(HcetCall(q, H))!Readings(path)
<1> DEFINE c == HcetCall(q, E)
           d == HcetCall(q, H)
<1>1. Listable(H)
  BY ListableSubset
<1>2. \A e \in H : Kernel(c)!Type(e.event_id) = Kernel(d)!Type(e.event_id)
  <2> TAKE e \in H
  <2>1. Graph!Build(E).vertex[e.event_id]
          = [event_type |-> e.event_type, event_time_ms |-> e.event_time_ms]
    BY GraphVertices
  <2>2. Graph!Build(H).vertex[e.event_id]
          = [event_type |-> e.event_type, event_time_ms |-> e.event_time_ms]
    BY <1>1, GraphVertices
  <2>3. /\ Kernel(c)!Type(e.event_id) = Graph!Build(E).vertex[e.event_id].event_type
        /\ Kernel(d)!Type(e.event_id) = Graph!Build(H).vertex[e.event_id].event_type
    BY <1>1, KernelOperators
  <2> QED
    BY <2>1, <2>2, <2>3
<1>3. \A id \in IdsOf(H) : Kernel(c)!Type(id) = Kernel(d)!Type(id)
  BY <1>2 DEF IdsOf
<1>4. c.seq = d.seq
  BY DEF HcetCall
<1>5. Len(path) = n + 1
  BY SMT
<1>6. \A k \in 1..Len(path) - 1 : Kernel(c)!Type(path[k + 1]) = Kernel(d)!Type(path[k + 1])
  <2> TAKE k \in 1..Len(path) - 1
  <2>1. k + 1 \in 1..n + 1
    BY <1>5
  <2> QED
    BY <1>3, <2>1
<1> HIDE DEF c, d
<1>7. Kernel(c)!Readings(path) = Kernel(d)!Readings(path)
  BY <1>4, <1>6 DEF Kernel!Readings, Kernel!Progress
<1> QED
  BY <1>7 DEF c, d

\* A match over all events, of some of them, is a match over those.
LEMMA MatchKept ==
  ASSUME NEW q, NEW E, Listable(E), NEW H, H \subseteq E,
         NEW m \in NativeMatches(q, E), \A k \in DOMAIN m.path : m.path[k] \in IdsOf(H)
  PROVE  \E w \in NativeMatches(q, H) : w.path = m.path
<1> DEFINE path == m.path
<1>1. PICK v, es : Walked(HcetCall(q, E), v, es, path)
  BY MatchesWalked
<1>2. Kernel(HcetCall(q, E))!Readings(path) # {}
  BY MatchesWalked
<1>3. Len(es) \in Nat /\ path \in [1..Len(es) + 1 -> IdsOf(E)]
  BY <1>1, WalkFollows DEF Follows
<1> HIDE DEF path
<1>4. path \in [1..Len(es) + 1 -> IdsOf(H)]
  BY <1>3 DEF path
<1>5. PICK w : Walked(HcetCall(q, H), v, w, path)
  BY <1>1, WalkKept DEF path
<1>6. Kernel(HcetCall(q, H))!Readings(path) # {}
  BY <1>2, <1>3, <1>4, ReadingsKept
<1> QED
  BY <1>5, <1>6, MatchesWalked DEF path

\* A match begins with its first event and ends within the time allowed.
LEMMA MatchInTime ==
  ASSUME NEW q, NEW E, Listable(E), NEW m \in NativeMatches(q, E)
  PROVE  /\ \E n \in Nat : m.path \in [1..n + 1 -> IdsOf(E)]
         /\ \A a, b \in E : \A k \in DOMAIN m.path :
              a.event_id = m.path[1] /\ b.event_id = m.path[k] =>
                /\ a.event_time_ms <= b.event_time_ms
                /\ q.within_ms >= 0 => b.event_time_ms - a.event_time_ms <= q.within_ms
<1> DEFINE path == m.path
           c == HcetCall(q, E)
           g == Graph!Build(E)
<1>1. PICK v, es : Walked(c, v, es, path)
  BY MatchesWalked
<1> DEFINE n == Len(es)
<1>2. /\ Follows(E, v, n, es, path)
      /\ \A k \in 1..n : StepInTime(q, g.vertex, g.edges[es[k]], Kernel(c)!Time(v))
  BY <1>1, WalkFollows
<1>3. /\ n \in Nat /\ path \in [1..n + 1 -> IdsOf(E)] /\ path[1] = v
      /\ \A k \in 1..n : g.edges[es[k]].dst = path[k + 1]
  BY <1>2 DEF Follows
<1>4. \A e \in E : g.vertex[e.event_id].event_time_ms = e.event_time_ms
  <2> TAKE e \in E
  <2>1. g.vertex[e.event_id] = [event_type |-> e.event_type, event_time_ms |-> e.event_time_ms]
    BY GraphVertices
  <2> QED BY <2>1
<1>5. Kernel(c)!Time(v) = g.vertex[v].event_time_ms
  BY KernelOperators
<1> HIDE DEF g, c, n, path
<1>6. ASSUME NEW a \in E, NEW b \in E, NEW k \in DOMAIN path,
             a.event_id = path[1], b.event_id = path[k]
      PROVE  /\ a.event_time_ms <= b.event_time_ms
             /\ q.within_ms >= 0 => b.event_time_ms - a.event_time_ms <= q.within_ms
  <2>1. /\ a.event_time_ms \in Int /\ b.event_time_ms \in Int
        /\ a.event_id = b.event_id => a = b
    BY DEF Listable
  <2>2. Kernel(c)!Time(v) = a.event_time_ms
    BY <1>3, <1>4, <1>5, <1>6
  <2>3. CASE k = 1
    <3>1. b.event_time_ms = a.event_time_ms
      BY <1>6, <2>1, <2>3
    <3>2. b.event_time_ms - a.event_time_ms = 0
      BY <2>1, <3>1
    <3>3. q.within_ms >= 0 => 0 <= q.within_ms
      OBVIOUS
    <3> QED BY <2>1, <3>1, <3>2, <3>3
  <2>4. CASE k # 1
    <3>1. k - 1 \in 1..n /\ (k - 1) + 1 = k
      BY <1>3, <2>4
    <3>2. g.edges[es[k - 1]].dst = b.event_id
      BY <1>3, <1>6, <3>1
    <3>3. g.vertex[g.edges[es[k - 1]].dst].event_time_ms = b.event_time_ms
      BY <1>4, <3>2
    <3>4. StepInTime(q, g.vertex, g.edges[es[k - 1]], a.event_time_ms)
      BY <1>2, <2>2, <3>1 DEF g, c, n
    <3> QED
      BY <2>1, <3>3, <3>4 DEF StepInTime
  <2> QED
    BY <2>3, <2>4
<1> QED
  BY <1>3, <1>6 DEF path, n

LEMMA ListedSet ==
  ASSUME NEW S, IsFiniteSet(S)
  PROVE  ToSet(SetToSeq(S)) = S
<1> DEFINE n == Cardinality(S)
           f == SetToSeq(S)
<1>1. n \in Nat /\ IsFiniteSet(1..n) /\ Cardinality(1..n) = n
  BY FS_CardinalityType, FS_Interval
<1>2. PICK g : g \in Bijection(1..n, S)
  BY FS_CardinalityType DEF ExistsBijection
<1>3. g \in [1..n -> S] /\ IsInjective(g)
  BY <1>2 DEF Bijection, Injection, IsInjective
<1>4. f \in [1..n -> S] /\ IsInjective(f)
  BY <1>3 DEF SetToSeq
<1> HIDE DEF f
<1>5. f \in Injection(1..n, S)
  BY <1>4 DEF Injection, IsInjective
<1>6. f \in Surjection(1..n, S)
  BY <1>1, <1>5, FS_Injection
<1> HIDE DEF n
<1>7. ToSet(f) = S
  BY <1>4, <1>6 DEF ToSet, Surjection
<1> QED
  BY <1>7 DEF f

\* What a path is validated against: the events at its ids, and others.
LEMMA ValidKept ==
  ASSUME NEW q, IsQuery(q), NEW n \in Nat, NEW I, NEW path \in [1..n + 1 -> I],
         NEW evts, NEW ids, NEW less, NEW few,
         \A i \in I : less[i] = evts[i],
         \A i \in ToSet(few) : i \in ToSet(ids) /\ less[i] = evts[i],
         ValidatePath(q, evts, ids, path)
  PROVE  ValidatePath(q, less, few, path)
<1>1. Len(path) = n + 1 /\ path # <<>>
  BY SMT
<1>2. Head(path) = path[1] /\ Last(path) = path[n + 1] /\ 1 \in 1..n + 1 /\ n + 1 \in 1..n + 1
  BY <1>1 DEF Last
<1>3. less[Head(path)] = evts[Head(path)] /\ less[Last(path)] = evts[Last(path)]
  BY <1>2
<1>4. ValidateAbsence(q, less, few, path)
  <2>1. ValidateAbsence(q, evts, ids, path)
    BY DEF ValidatePath
  <2> QED
    BY <1>3, <2>1 DEF ValidateAbsence
<1>5. ASSUME NEW i \in DOMAIN q.relations
      PROVE  ValidateRelation(q.relations[i], less, path)
  <2> DEFINE r == q.relations[i]
  <2>1. ValidateRelation(r, evts, path)
    BY DEF ValidatePath
  <2>2. \A k \in DOMAIN path : less[path[k]].field[r.field] = evts[path[k]].field[r.field]
    OBVIOUS
  <2> HIDE DEF r
  <2>3. Held(r, less, path) = Held(r, evts, path) /\ Held(r, evts, path) \subseteq DOMAIN path
    BY <2>2 DEF Held
  <2>4. ValidateRelation(r, less, path)
    BY <2>1, <2>2, <2>3 DEF ValidateRelation
  <2> QED
    BY <2>4 DEF r
<1> QED
  BY <1>1, <1>4, <1>5 DEF ValidatePath

LEMMA ByIdIs ==
  ASSUME NEW E, Listable(E)
  PROVE  \A e \in E : EventsById(E)[e.event_id] = e
<1> TAKE e \in E
<1>1. (CHOOSE f \in E : f.event_id = e.event_id) = e
  BY DEF Listable
<1> QED
  BY <1>1 DEF EventsById

LEMMA QueryRuns ==
  ASSUME NEW q, NEW E, NEW F, F = FilterEvents(q, E), NEW t
  PROVE  t \in WholeTrends(q, E) <=>
           \E m \in NativeMatches(q, F) :
             /\ ValidatePath(q, EventsById(F), SetToSeq(DOMAIN EventsById(F)), m.path)
             /\ t = [query |-> q.id, partition |-> EventsById(F)[m.path[1]].partition_key,
                     path |-> m.path, copies |-> m.copies]
<1> QED
  BY DEF WholeTrends, Validated

\* A trend of some of the events is among those of these events alone.
LEMMA TrendKept ==
  ASSUME NEW q, IsQuery(q), NEW E, Listable(E), NEW H, H \subseteq E,
         NEW t \in WholeTrends(q, E), \A k \in DOMAIN t.path : t.path[k] \in IdsOf(H)
  PROVE  \E u \in WholeTrends(q, H) :
           u.query = t.query /\ u.partition = t.partition /\ u.path = t.path
<1> DEFINE F == FilterEvents(q, E)
           G == FilterEvents(q, H)
           idsF == SetToSeq(DOMAIN EventsById(F))
           idsG == SetToSeq(DOMAIN EventsById(G))
<1>1. F \subseteq E /\ G \subseteq F /\ G = F \cap H
  BY DEF FilterEvents
<1>2. Listable(F) /\ Listable(G)
  BY <1>1, ListableSubset
<1>3. PICK m \in NativeMatches(q, F) :
        /\ ValidatePath(q, EventsById(F), idsF, m.path)
        /\ t = [query |-> q.id, partition |-> EventsById(F)[m.path[1]].partition_key,
                path |-> m.path, copies |-> m.copies]
  BY QueryRuns
<1> HIDE DEF F, G
<1>4. t.path = m.path /\ t.query = q.id /\ t.partition = EventsById(F)[m.path[1]].partition_key
  BY <1>3
<1>5. PICK n \in Nat : m.path \in [1..n + 1 -> IdsOf(F)]
  BY <1>2, MatchInTime
<1>6. \A k \in 1..n + 1 : m.path[k] \in IdsOf(G)
  <2> TAKE k \in 1..n + 1
  <2>1. PICK e \in F : e.event_id = m.path[k]
    BY <1>5 DEF IdsOf
  <2>2. PICK h \in H : h.event_id = m.path[k]
    BY <1>4, <1>5 DEF IdsOf
  <2>3. e = h
    BY <1>1, <2>1, <2>2 DEF Listable
  <2> QED
    BY <1>1, <2>1, <2>3 DEF IdsOf
<1>7. m.path \in [1..n + 1 -> IdsOf(G)]
  BY <1>5, <1>6
<1>8. PICK w \in NativeMatches(q, G) : w.path = m.path
  <2>1. \A k \in DOMAIN m.path : m.path[k] \in IdsOf(G)
    BY <1>5, <1>6
  <2>2. G \subseteq F /\ Listable(F)
    BY <1>1, <1>2
  <2> QED
    BY <2>1, <2>2, MatchKept
<1>9. \A i \in IdsOf(G) : EventsById(G)[i] = EventsById(F)[i]
  BY <1>1, <1>2, ByIdIs DEF IdsOf
<1>10. ToSet(idsF) = IdsOf(F) /\ ToSet(idsG) = IdsOf(G)
  <2>1. ASSUME NEW D, Listable(D) PROVE ToSet(SetToSeq(DOMAIN EventsById(D))) = IdsOf(D)
    <3>1. DOMAIN EventsById(D) = IdsOf(D)
      BY DEF EventsById, IdsOf
    <3>2. IsFiniteSet(IdsOf(D))
      <4> DEFINE f == [e \in D |-> e.event_id]
      <4>1. f \in Surjection(D, IdsOf(D))
        BY DEF Surjection, IdsOf
      <4>2. IsFiniteSet(D)
        BY <2>1 DEF Listable
      <4> HIDE DEF f
      <4> QED BY <4>1, <4>2, FS_Surjection
    <3> QED BY <3>1, <3>2, ListedSet
  <2> QED BY <1>2, <2>1
<1>11. IdsOf(G) \subseteq IdsOf(F)
  BY <1>1 DEF IdsOf
<1> HIDE DEF idsF, idsG
<1>12. ValidatePath(q, EventsById(G), idsG, m.path)
  <2>1. \A i \in ToSet(idsG) : i \in ToSet(idsF) /\ EventsById(G)[i] = EventsById(F)[i]
    BY <1>9, <1>10, <1>11
  <2>2. ValidatePath(q, EventsById(F), idsF, m.path)
    BY <1>3
  <2> QED
    BY <1>7, <1>9, <2>1, <2>2, ValidKept
<1>13. m.path[1] \in IdsOf(G)
  BY <1>6
<1>14. EventsById(G)[w.path[1]].partition_key = t.partition
  BY <1>4, <1>8, <1>9, <1>13 DEF IdsOf
<1> DEFINE u == [query |-> q.id, partition |-> EventsById(G)[w.path[1]].partition_key,
                 path |-> w.path, copies |-> w.copies]
<1>15. u \in WholeTrends(q, H)
  BY <1>8, <1>12, <1>14, QueryRuns DEF G, idsG
<1> QED
  BY <1>4, <1>8, <1>14, <1>15

\* The events of a trend are of the list and within the time allowed.
LEMMA TrendInTime ==
  ASSUME NEW q, NEW E, Listable(E), NEW t \in WholeTrends(q, E)
  PROVE  /\ \E n \in Nat : t.path \in [1..n + 1 -> IdsOf(E)]
         /\ \A a, b \in E : \A j, k \in DOMAIN t.path :
              a.event_id = t.path[j] /\ b.event_id = t.path[k] /\ q.within_ms \in Nat =>
                a.event_time_ms - b.event_time_ms <= q.within_ms
<1> DEFINE F == FilterEvents(q, E)
<1>1. F \subseteq E
  BY DEF FilterEvents
<1>2. Listable(F)
  BY <1>1, ListableSubset
<1>3. PICK m \in NativeMatches(q, F) : t.path = m.path
  BY QueryRuns
<1>4. PICK n \in Nat : m.path \in [1..n + 1 -> IdsOf(F)]
  BY <1>2, MatchInTime
<1> HIDE DEF F
<1>5. t.path \in [1..n + 1 -> IdsOf(E)]
  BY <1>1, <1>3, <1>4 DEF IdsOf
<1>6. ASSUME NEW a \in E, NEW b \in E, NEW j \in 1..n + 1, NEW k \in 1..n + 1,
             a.event_id = t.path[j], b.event_id = t.path[k], q.within_ms \in Nat
      PROVE  a.event_time_ms - b.event_time_ms <= q.within_ms
  <2>1. a \in F /\ b \in F
    <3>1. ASSUME NEW e \in E, NEW i \in 1..n + 1, e.event_id = t.path[i] PROVE e \in F
      <4>1. PICK f \in F : f.event_id = t.path[i]
        BY <1>3, <1>4 DEF IdsOf
      <4> QED BY <1>1, <3>1, <4>1 DEF Listable
    <3> QED BY <1>6, <3>1
  <2>2. PICK c \in F : c.event_id = t.path[1]
    BY <1>3, <1>4 DEF IdsOf
  <2>3. /\ c.event_time_ms <= b.event_time_ms
        /\ a.event_time_ms - c.event_time_ms <= q.within_ms
    BY <1>2, <1>3, <1>4, <1>6, <2>1, <2>2, MatchInTime
  <2>4. a.event_time_ms \in Int /\ b.event_time_ms \in Int /\ c.event_time_ms \in Int
    BY <1>2, <2>1 DEF Listable
  <2> QED
    BY <1>6, <2>3, <2>4
<1> QED
  BY <1>5, <1>6

\* What has been searched without an overflow is found, if the bridge leaves
\* the ids as they are.
LEMMA ExactRuns ==
  ASSUME NEW q, NEW E, Listable(E), NEW F, F = FilterEvents(q, E),
         NEW r \in RunQuery(q, E), ~r.raised, ~r.overflow
  PROVE  /\ F # {} => ~Kernel(HcetCall(q, F))!Exceeds
         /\ \A t \in WholeTrends(q, E) : ToSet(t.path) \subseteq CInts => t \in r.trends
<1>1. Listable(F)
  <2>1. F \subseteq E
    BY DEF FilterEvents
  <2> QED BY <2>1, ListableSubset
<1>2. CASE F = {}
  <2>1. WholeTrends(q, E) = {}
    <3> SUFFICES ASSUME NEW t \in WholeTrends(q, E) PROVE FALSE
      OBVIOUS
    <3>1. PICK m \in NativeMatches(q, F) : t.path = m.path
      BY QueryRuns
    <3>2. PICK n \in Nat : m.path \in [1..n + 1 -> IdsOf(F)]
      BY <1>1, MatchInTime
    <3> QED
      BY <1>2, <3>2 DEF IdsOf
  <2> QED
    BY <1>2, <2>1
<1>3. CASE F # {}
  <2> DEFINE all == NativeMatches(q, F)
             found(k) == Returned(F, k.matches)
             Of(k) == IF ValidationRaises(q, F, found(k)) THEN Raised
                      ELSE Result(FALSE, k.overflow, Validated(q, F, found(k)))
  <2>1. Raised.raised
    BY DEF Raised, Result
  <2>2. RunQuery(q, E) = {Raised} \/ RunQuery(q, E) = {Of(k) : k \in RunHcet(q, F)}
    BY <1>3 DEF RunQuery
  <2> HIDE DEF Of
  <2>3. PICK k \in RunHcet(q, F) : r = Of(k)
    BY <2>1, <2>2
  <2>4. r = Result(FALSE, k.overflow, Validated(q, F, found(k)))
    BY <2>1, <2>3 DEF Of
  <2>5. ~k.overflow /\ r.trends = Validated(q, F, found(k))
    BY <2>4 DEF Result
  <2>6. ~Kernel(HcetCall(q, F))!Exceeds /\ k.matches = all
    <3> DEFINE none == [overflow |-> TRUE, matches |-> {}]
               parts == [overflow : {TRUE}, matches : Parts({m \in all : Len(m.path) <= MaxPathLen})]
               whole == {[overflow |-> FALSE, matches |-> all]}
    <3>1. RunHcet(q, F) = {none} \cup IF Kernel(HcetCall(q, F))!Exceeds THEN parts ELSE whole
      BY DEF RunHcet
    <3>2. k # none /\ k \notin parts
      <4>1. none.overflow
        OBVIOUS
      <4>2. \A x \in parts : x.overflow = TRUE
        OBVIOUS
      <4> HIDE DEF none, parts
      <4>3. ~k.overflow
        BY <2>5
      <4> QED
        BY <4>1, <4>2, <4>3
    <3> HIDE DEF none, parts
    <3>3. ~Kernel(HcetCall(q, F))!Exceeds /\ k \in whole
      BY <3>1, <3>2
    <3> QED
      BY <3>3
  <2>7. ASSUME NEW t \in WholeTrends(q, E), ToSet(t.path) \subseteq CInts
        PROVE  t \in r.trends
    <3>1. PICK m \in all :
            /\ ValidatePath(q, EventsById(F), SetToSeq(DOMAIN EventsById(F)), m.path)
            /\ t = [query |-> q.id, partition |-> EventsById(F)[m.path[1]].partition_key,
                    path |-> m.path, copies |-> m.copies]
      BY QueryRuns
    <3>2. PICK n \in Nat : m.path \in [1..n + 1 -> IdsOf(F)]
      BY <1>1, MatchInTime
    <3> DEFINE narrowed == [m EXCEPT !.path = [i \in DOMAIN m.path |-> Narrow(m.path[i])]]
    <3>3. narrowed = m
      <4>1. \A i \in DOMAIN m.path : Narrow(m.path[i]) = m.path[i]
        <5> TAKE i \in DOMAIN m.path
        <5>1. m.path[i] \in CInts
          BY <2>7, <3>1, <3>2 DEF ToSet
        <5> QED
          BY <5>1 DEF Narrow
      <4>2. [i \in DOMAIN m.path |-> Narrow(m.path[i])] = m.path
        BY <3>2, <4>1
      <4>3. \E p, c : m = [path |-> p, copies |-> c]
        <5> DEFINE c == HcetCall(q, F)
        <5> QED BY DEF NativeMatches
      <4> QED
        BY <4>2, <4>3
    <3>4. m \in found(k)
      <4>1. ToSet(m.path) \subseteq IdsOf(F)
        BY <3>2 DEF ToSet
      <4> HIDE DEF all
      <4> QED
        BY <2>6, <3>3, <4>1 DEF Returned, IdsOf
    <3> QED
      BY <2>5, <3>1, <3>4 DEF Validated
  <2> QED
    BY <2>6, <2>7
<1> QED
  BY <1>2, <1>3

\* The events of a list.
EventsAt(list, at) == {at[i] : i \in list}

\* What a run over several queries comes to.
LEMMA RunAnswers ==
  ASSUME NEW Q, NEW list, NEW at, NEW E, E = EventsAt(list, at), NEW b \in Run(Q, list, at)
  PROVE  /\ b.raised => \/ ~ValidEvents(list, at)
                        \/ \E q \in Q : \E r \in RunQuery(q, E) : r.raised
         /\ ~b.raised /\ ~b.overflow =>
              /\ ValidEvents(list, at)
              /\ \A q \in Q : \E r \in RunQuery(q, E) :
                   ~r.raised /\ ~r.overflow /\ r.trends \subseteq b.trends
<1> DEFINE possible == UNION {{q} \X RunQuery(q, E) : q \in Q}
           together(f) == IF \E q \in Q : f[q].raised THEN Raised
                          ELSE Result(FALSE, \E q \in Q : f[q].overflow,
                                      UNION {f[q].trends : q \in Q})
           answers == {g \in [Q -> {o[2] : o \in possible}] : \A q \in Q : <<q, g[q]>> \in possible}
<1>1. Run(Q, list, at) = IF ~ValidEvents(list, at) THEN {Raised} ELSE {together(f) : f \in answers}
  BY DEF Run, EventsAt
<1>2. \A g \in answers : \A q \in Q : g[q] \in RunQuery(q, E)
  <2>1. \A q, r : <<q, r>> \in possible => r \in RunQuery(q, E)
    OBVIOUS
  <2> HIDE DEF possible
  <2> QED BY <2>1
<1>3. Raised.raised
  BY DEF Raised, Result
<1> HIDE DEF answers, together
<1>4. CASE ~ValidEvents(list, at)
  BY <1>1, <1>3, <1>4
<1>5. CASE ValidEvents(list, at)
  <2>1. PICK f \in answers : b = together(f)
    BY <1>1, <1>5
  <2>2. CASE \E q \in Q : f[q].raised
    <3>1. b = Raised
      BY <2>1, <2>2 DEF together
    <3> QED
      BY <1>2, <1>3, <2>2, <3>1
  <2>3. CASE ~\E q \in Q : f[q].raised
    <3>1. b = Result(FALSE, \E q \in Q : f[q].overflow, UNION {f[q].trends : q \in Q})
      BY <2>1, <2>3 DEF together
    <3>2. /\ b.raised = FALSE /\ b.trends = UNION {f[q].trends : q \in Q}
          /\ b.overflow = \E q \in Q : f[q].overflow
      BY <3>1 DEF Result
    <3>3. ~b.raised
      BY <3>2
    <3>4. ASSUME ~b.overflow, NEW q \in Q
          PROVE  \E r \in RunQuery(q, E) : ~r.raised /\ ~r.overflow /\ r.trends \subseteq b.trends
      <4>1. f[q] \in RunQuery(q, E) /\ ~f[q].raised
        BY <1>2, <2>3
      <4>2. ~f[q].overflow
        BY <3>2, <3>4
      <4>3. f[q].trends \subseteq b.trends
        BY <3>2
      <4> QED BY <4>1, <4>2, <4>3
    <3> QED
      BY <1>5, <3>3, <3>4
  <2> QED
    BY <2>2, <2>3
<1> QED
  BY <1>4, <1>5

\* Why a query raises.
LEMMA QueryRaisesFor ==
  ASSUME NEW q, NEW E, NEW r \in RunQuery(q, E), r.raised
  PROVE  \/ NativePattern(q) = <<>>
         \/ \E k \in DOMAIN q.where : q.where[k].op \notin PredicateOps
         \/ \E k \in DOMAIN q.relations : ~Supported(q.relations[k])
         \/ \E F \in SUBSET E : TooLarge(F)
<1> DEFINE F == FilterEvents(q, E)
           found(k) == Returned(F, k.matches)
           Of(k) == IF ValidationRaises(q, F, found(k)) THEN Raised
                    ELSE Result(FALSE, k.overflow, Validated(q, F, found(k)))
<1>1. F \subseteq E
  BY DEF FilterEvents
<1>2. CASE FilterRaises(q, E)
  BY <1>2 DEF FilterRaises, EvaluateRaises
<1>3. CASE NativePattern(q) = <<>> \/ TooLarge(F)
  BY <1>1, <1>3
<1>4. CASE ~FilterRaises(q, E) /\ F # {} /\ ~(NativePattern(q) = <<>> \/ TooLarge(F))
  <2>1. RunQuery(q, E) = {Of(k) : k \in RunHcet(q, F)}
    BY <1>4 DEF RunQuery
  <2> HIDE DEF Of
  <2>2. PICK k \in RunHcet(q, F) : r = Of(k)
    BY <2>1
  <2>3. ValidationRaises(q, F, found(k))
    BY <2>2 DEF Of, Result
  <2> QED
    BY <2>3 DEF ValidationRaises, PathRaises, RelationRaises
<1>5. CASE ~FilterRaises(q, E) /\ F = {}
  <2>1. r = Result(FALSE, FALSE, {})
    BY <1>5 DEF RunQuery
  <2> QED
    BY <2>1 DEF Result
<1> HIDE DEF F
<1> QED
  BY <1>2, <1>3, <1>4, <1>5

-----------------------------------------------------------------------------
(* What the kernel finds where the events of a partition are in order.     *)

\* A reading of the first m types as a match of a sequence of tokens, each
\* event that can be the next step taken as that step.
IsReading(seq, type, m, r) ==
  /\ r \in [1..m -> 1..Len(seq)] /\ r[1] = 1
  /\ \A k \in 1..m - 1 :
       /\ r[k] < Len(seq)
       /\ \/ r[k + 1] = r[k] + 1 /\ type[k + 1] = seq[r[k] + 1].name
          \/ r[k + 1] = r[k] /\ type[k + 1] # seq[r[k] + 1].name

\* It is at least as far at every event as the tokens found at the places at.
NotBehind(at, steps, m, r) ==
  \A k \in 1..m : \A j \in 1..steps : at[j] <= k => j <= r[k]

\* The M tokens are found at the places at among the first n types.
Occurs(seq, M, type, n, at) ==
  /\ M \in Nat \ {0} /\ Len(seq) = M /\ n \in Nat
  /\ at \in [1..M -> 1..n] /\ at[1] = 1
  /\ \A i, j \in 1..M : i < j => at[i] < at[j]
  /\ \A i \in 1..M : type[at[i]] = seq[i].name

\* Where the tokens are found in order, the first of them first, a reading
\* that takes every event it can is complete no later.
LEMMA GreedyReading ==
  ASSUME NEW seq, NEW M, NEW type, NEW n, NEW at, Occurs(seq, M, type, n, at)
  PROVE  \E m \in 1..at[M] : \E r : IsReading(seq, type, m, r) /\ r[m] = M
<1>0. /\ M \in Nat \ {0} /\ Len(seq) = M /\ n \in Nat
      /\ at \in [1..M -> 1..n] /\ at[1] = 1
      /\ \A i, j \in 1..M : i < j => at[i] < at[j]
      /\ \A i \in 1..M : type[at[i]] = seq[i].name
  BY DEF Occurs
<1> USE <1>0
<1> DEFINE G == {m \in 1..n : \E r : IsReading(seq, type, m, r) /\ NotBehind(at, M, m, r)}
<1>1. 1 \in G
  <2> DEFINE r == [k \in 1..1 |-> 1]
  <2>1. 1 \in 1..n /\ 1 \in 1..M
    OBVIOUS
  <2>2. IsReading(seq, type, 1, r)
    BY <2>1 DEF IsReading
  <2>3. NotBehind(at, M, 1, r)
    <3> SUFFICES ASSUME NEW k \in 1..1, NEW j \in 1..M, at[j] <= k PROVE j <= r[k]
      BY DEF NotBehind
    <3>1. j = 1
      <4>1. at[1] < at[j] \/ j = 1
        BY <2>1
      <4> QED BY <4>1
    <3> QED BY <3>1
  <2> QED BY <2>1, <2>2, <2>3
<1>2. PICK m \in G : \A x \in G : x <= m
  <2>1. IsFiniteSet(G) /\ G \subseteq Int
    <3>1. IsFiniteSet(1..n)
      BY FS_Interval
    <3> QED BY <3>1, FS_Subset
  <2> HIDE DEF G
  <2> QED
    BY <1>1, <2>1, Bounds
<1>3. PICK r : IsReading(seq, type, m, r) /\ NotBehind(at, M, m, r)
  BY <1>2
<1>4. m \in 1..n /\ r \in [1..m -> 1..M] /\ M \in 1..M /\ at[M] \in 1..n /\ m \in 1..m
  BY <1>2, <1>3 DEF IsReading
<1>5. r[m] = M
  <2> SUFFICES ASSUME r[m] # M PROVE FALSE
    OBVIOUS
  <2>1. r[m] \in 1..M - 1
    BY <1>4
  <2>2. m < at[M]
    <3> SUFFICES ASSUME at[M] <= m PROVE FALSE
      BY <1>4
    <3>1. M <= r[m]
      BY <1>3, <1>4 DEF NotBehind
    <3> QED BY <2>1, <3>1
  <2> DEFINE x == r[m]
             next == IF type[m + 1] = seq[x + 1].name THEN x + 1 ELSE x
             s == [k \in 1..m + 1 |-> IF k <= m THEN r[k] ELSE next]
  <2>3. next \in 1..M /\ x <= next /\ x \in Int
    BY <2>1
  <2>4. s \in [1..m + 1 -> 1..M] /\ s[m + 1] = next /\ \A k \in 1..m : s[k] = r[k]
    BY <1>4, <2>3
  <2>5. m + 1 \in 1..n
    BY <1>4, <2>2
  <2> HIDE DEF s
  <2>6. IsReading(seq, type, m + 1, s)
    <3>1. ASSUME NEW k \in 1..m + 1 - 1
          PROVE  /\ s[k] < M
                 /\ \/ s[k + 1] = s[k] + 1 /\ type[k + 1] = seq[s[k] + 1].name
                    \/ s[k + 1] = s[k] /\ type[k + 1] # seq[s[k] + 1].name
      <4>1. CASE k = m
        <5>1. s[k] = x /\ s[k + 1] = next /\ x < M
          BY <1>4, <2>1, <2>4, <4>1
        <5>2. next = IF type[k + 1] = seq[x + 1].name THEN x + 1 ELSE x
          BY <4>1
        <5> HIDE DEF next, x
        <5> QED BY <5>1, <5>2
      <4>2. CASE k < m
        <5>1. k \in 1..m - 1 /\ k \in 1..m /\ k + 1 \in 1..m
          BY <1>4, <4>2
        <5>2. s[k] = r[k] /\ s[k + 1] = r[k + 1]
          BY <2>4, <5>1
        <5> QED
          BY <1>3, <5>1, <5>2 DEF IsReading
      <4> QED BY <1>4, <4>1, <4>2
    <3>2. s[1] = 1
      BY <1>3, <1>4, <2>4 DEF IsReading
    <3>3. s \in [1..m + 1 -> 1..Len(seq)] /\ Len(seq) = M
      BY <2>4
    <3> QED
      BY ONLY <3>1, <3>2, <3>3 DEF IsReading
  <2>7. NotBehind(at, M, m + 1, s)
    <3> SUFFICES ASSUME NEW k \in 1..m + 1, NEW j \in 1..M, at[j] <= k PROVE j <= s[k]
      BY DEF NotBehind
    <3>1. CASE k <= m
      BY <1>3, <1>4, <2>4, <3>1 DEF NotBehind
    <3>2. CASE k = m + 1
      <4>1. at[j] <= m => j <= x
        BY <1>3, <1>4 DEF NotBehind
      <4>2. CASE at[j] <= m
        <5>1. s[k] = next /\ j <= x
          BY <2>4, <3>2, <4>1, <4>2
        <5> HIDE DEF next, x
        <5> QED BY <2>3, <5>1
      <4>3. CASE at[j] = m + 1
        <5>1. j # 1
          BY <1>4, <4>3
        <5>2. j - 1 \in 1..M /\ at[j - 1] < at[j] /\ at[j - 1] \in 1..n
          BY <5>1
        <5>3. j - 1 <= x
          BY <1>3, <1>4, <4>3, <5>2 DEF NotBehind
        <5>4. type[m + 1] = seq[j].name
          BY <4>3
        <5>5. CASE j - 1 = x
          <6>1. j = x + 1
            BY <5>5, <2>1
          <6> QED BY <2>1, <2>4, <3>2, <5>4, <6>1
        <5>6. CASE j - 1 < x
          <6>1. s[k] = next /\ j <= x
            <7>1. j <= x
              BY <2>1, <5>6
            <7>2. s[k] = next
              BY <2>4, <3>2
            <7> QED BY <7>1, <7>2
          <6> HIDE DEF next, x
          <6> QED BY <2>3, <6>1
        <5> QED BY <2>1, <5>3, <5>5, <5>6
      <4> QED BY <1>4, <3>2, <4>2, <4>3
    <3> QED BY <1>4, <3>1, <3>2
  <2>8. m + 1 \in G
    BY <2>5, <2>6, <2>7
  <2> QED
    BY <1>2, <1>4, <2>8
<1>6. m <= at[M]
  <2> SUFFICES ASSUME at[M] < m PROVE FALSE
    BY <1>4
  <2>1. at[M] \in 1..m - 1 /\ at[M] \in 1..m
    BY <1>4
  <2>2. M <= r[at[M]]
    BY <1>3, <1>4, <2>1 DEF NotBehind
  <2>3. r[at[M]] < M
    BY <1>3, <2>1 DEF IsReading
  <2>4. r[at[M]] \in 1..M
    BY <1>4, <2>1
  <2> QED
    BY <2>2, <2>3, <2>4
<1> QED
  BY <1>3, <1>4, <1>5, <1>6

\* The events of a set, each once, in order.
EventsInOrder(F, n, e) ==
  /\ e \in [1..n -> F] /\ \A f \in F : \E i \in 1..n : f = e[i]
  /\ \A i, j \in 1..n : i < j => Graph!Before(e[i], e[j])

\* The edge from one event to the next.
Link(a, b) == [src             |-> a.event_id,
               dst             |-> b.event_id,
               window_start_ms |-> a.event_time_ms,
               window_end_ms   |-> b.event_time_ms]

\* Two events of a partition that follow each other have an edge, unless they
\* are too far apart.
LEMMA NextLinked ==
  ASSUME NEW F, Listable(F), \A a, b \in F : a.partition_key = b.partition_key,
         NEW n \in Nat, NEW e, EventsInOrder(F, n, e), NEW k \in 1..n - 1,
         NEW a, a = e[k], NEW b, b = e[k + 1],
         MaxGap = Unlimited \/ b.event_time_ms - a.event_time_ms <= MaxGap
  PROVE  \E i \in DOMAIN Graph!Build(F).edges : Graph!Build(F).edges[i] = Link(a, b)
<1>1. /\ k \in 1..n /\ k + 1 \in 1..n /\ a \in F /\ b \in F
      /\ a.event_time_ms \in Int /\ b.event_time_ms \in Int /\ a.event_id \in Int /\ b.event_id \in Int
  BY DEF EventsInOrder, Listable
<1>2. Graph!Before(a, b)
  BY <1>1 DEF EventsInOrder
<1>3. \A c \in F : ~(Graph!Before(a, c) /\ Graph!Before(c, b))
  <2> SUFFICES ASSUME NEW c \in F, Graph!Before(a, c), Graph!Before(c, b) PROVE FALSE
    OBVIOUS
  <2>1. PICK i \in 1..n : c = e[i]
    BY DEF EventsInOrder
  <2>2. c.event_time_ms \in Int /\ c.event_id \in Int
    BY DEF Listable
  <2>3. ~(Graph!Before(c, a) \/ c = a) /\ ~(Graph!Before(b, c) \/ b = c)
    BY <1>1, <2>2 DEF Graph!Before
  <2>4. i <= k \/ i >= k + 1
    BY <1>1
  <2>5. CASE i <= k
    BY <1>1, <2>1, <2>3, <2>5 DEF EventsInOrder
  <2>6. CASE i >= k + 1
    BY <1>1, <2>1, <2>3, <2>6 DEF EventsInOrder
  <2> QED
    BY <2>4, <2>5, <2>6
<1> DEFINE key == a.partition_key
           group == {f \in F : f.partition_key = key}
           p == <<a, b>>
           x == [src             |-> a.event_id,
                 dst             |-> b.event_id,
                 relation        |-> "temporal_next",
                 window_start_ms |-> a.event_time_ms,
                 window_end_ms   |-> b.event_time_ms]
<1>4. group = F
  BY <1>1
<1>5. p \in Graph!Neighbours(group)
  <2> HIDE DEF group
  <2> QED BY <1>1, <1>2, <1>3, <1>4 DEF Graph!Neighbours
<1>6. x \in Graph!EdgeOf(p[1], p[2], "temporal_next")
  <2>1. a.event_id # b.event_id /\ a.event_time_ms <= b.event_time_ms
    <3>1. a # b
      BY <1>1, <1>2 DEF Graph!Before
    <3> QED
      BY <1>1, <1>2, <3>1 DEF Listable, Graph!Before
  <2>2. ~(MaxGap # Unlimited /\ b.event_time_ms - a.event_time_ms > MaxGap)
    BY <1>1, BatchAssumption
  <2> QED
    BY <1>1, <2>1, <2>2 DEF Graph!EdgeOf
<1>7. x \in Graph!Linked(Graph!Neighbours(group), "temporal_next")
  <2> HIDE DEF group, x, p
  <2> QED BY <1>5, <1>6, LinkedBy
<1>8. x \in Graph!TemporalEdges(F)
  <2>1. key \in {f.partition_key : f \in F}
    BY <1>1
  <2> HIDE DEF key, x
  <2> QED BY <1>7, <2>1 DEF Graph!TemporalEdges
<1>9. x \in Graph!Edges(F)
  BY <1>8 DEF Graph!Edges
<1>10. PICK i \in DOMAIN Graph!Build(F).edges : Graph!Build(F).edges[i] = Native(x)
  <2> HIDE DEF x
  <2> QED BY <1>9, GraphEdges
<1>11. Native(x) = Link(a, b)
  BY DEF Native, Link
<1> QED
  BY <1>10, <1>11

\* Events in order that are near in time and linked one to the next.
Linkable(q, F, n, f) ==
  /\ n \in Nat /\ f \in [1..n -> F]
  /\ \A j, k \in 1..n : j < k => f[j].event_time_ms <= f[k].event_time_ms
  /\ \A k \in 1..n : f[k].event_time_ms - f[1].event_time_ms <= q.within_ms
  /\ \A k \in 1..n - 1 :
       \E i \in DOMAIN Graph!Build(F).edges : Graph!Build(F).edges[i] = Link(f[k], f[k + 1])

\* A part of the events of a partition that is within the time allowed is.
LEMMA PartLinkable ==
  ASSUME NEW q, q.within_ms \in Int, NEW F, Listable(F),
         \A a, b \in F : a.partition_key = b.partition_key,
         NEW n \in Nat, NEW e, EventsInOrder(F, n, e),
         NEW first \in 1..n, NEW last \in first..n,
         e[last].event_time_ms - e[first].event_time_ms <= q.within_ms,
         MaxGap = Unlimited \/ q.within_ms <= MaxGap,
         NEW f, f = [k \in 1..last - first + 1 |-> e[first + k - 1]]
  PROVE  Linkable(q, F, last - first + 1, f)
<1> DEFINE size == last - first + 1
<1>1. /\ first \in Int /\ last \in Int /\ size \in Nat /\ 1 \in 1..size /\ size <= n
  OBVIOUS
<1>2. ASSUME NEW k \in 1..size
      PROVE  /\ first + k - 1 \in 1..n /\ first + k - 1 \in first..last
             /\ f[k] = e[first + k - 1]
  BY <1>1
<1>3. \A i \in 1..n : e[i] \in F /\ e[i].event_time_ms \in Int
  BY DEF EventsInOrder, Listable
<1>4. \A i, j \in 1..n : i <= j => e[i].event_time_ms <= e[j].event_time_ms
  <2> SUFFICES ASSUME NEW i \in 1..n, NEW j \in 1..n, i <= j
               PROVE  e[i].event_time_ms <= e[j].event_time_ms
    OBVIOUS
  <2>1. CASE i = j
    BY <1>3, <2>1
  <2>2. CASE i < j
    <3>1. Graph!Before(e[i], e[j])
      BY <2>2 DEF EventsInOrder
    <3> QED BY <1>3, <3>1 DEF Graph!Before
  <2> QED BY <2>1, <2>2
<1> HIDE DEF size
<1>5. f \in [1..size -> F]
  BY <1>2, <1>3 DEF size
<1>6. \A j, k \in 1..size : j < k => f[j].event_time_ms <= f[k].event_time_ms
  <2> SUFFICES ASSUME NEW j \in 1..size, NEW k \in 1..size, j < k
               PROVE  f[j].event_time_ms <= f[k].event_time_ms
    OBVIOUS
  <2>1. /\ first + j - 1 \in 1..n /\ f[j] = e[first + j - 1]
        /\ first + k - 1 \in 1..n /\ f[k] = e[first + k - 1]
    BY <1>2
  <2>2. first + j - 1 <= first + k - 1
    BY <1>1
  <2> QED
    BY <1>4, <2>1, <2>2
<1>7. \A k \in 1..size : f[k].event_time_ms - f[1].event_time_ms <= q.within_ms
  <2> TAKE k \in 1..size
  <2>1. first + k - 1 \in 1..n /\ f[k] = e[first + k - 1] /\ first + k - 1 <= last
    <3>1. first + k - 1 \in first..last
      BY <1>2
    <3> QED BY <1>1, <1>2, <3>1
  <2>0. last \in 1..n
    BY <1>1
  <2>2. f[k].event_time_ms <= e[last].event_time_ms
    BY <1>4, <2>0, <2>1
  <2>3. f[1] = e[first]
    <3>1. first + 1 - 1 = first
      BY <1>1
    <3> QED BY <1>1, <1>2, <3>1
  <2>4. f[k].event_time_ms \in Int /\ e[first].event_time_ms \in Int /\ e[last].event_time_ms \in Int
    BY <1>3, <2>0, <2>1
  <2> QED
    BY <2>2, <2>3, <2>4
<1>8. \A k \in 1..size - 1 :
        \E i \in DOMAIN Graph!Build(F).edges : Graph!Build(F).edges[i] = Link(f[k], f[k + 1])
  <2> TAKE k \in 1..size - 1
  <2>1. k \in 1..size /\ k + 1 \in 1..size /\ k < k + 1
    BY <1>1
  <2> DEFINE i == first + k - 1
  <2>2. first + (k + 1) - 1 = i + 1
    BY <1>1
  <2>3. i \in 1..n /\ i + 1 \in 1..n /\ f[k] = e[i] /\ f[k + 1] = e[i + 1]
    <3>1. i \in 1..n /\ f[k] = e[i]
      BY <1>2, <2>1
    <3>2. first + (k + 1) - 1 \in 1..n /\ f[k + 1] = e[first + (k + 1) - 1]
      BY <1>2, <2>1
    <3> QED BY <2>2, <3>1, <3>2
  <2> HIDE DEF i
  <2>4. i \in 1..n - 1
    BY <2>3
  <2>5. /\ f[1].event_time_ms \in Int /\ f[k].event_time_ms \in Int
        /\ f[k + 1].event_time_ms \in Int
    BY <1>1, <1>5, <2>1 DEF Listable
  <2>6. f[1].event_time_ms <= f[k].event_time_ms
    <3>1. CASE k = 1
      BY <2>5, <3>1
    <3>2. CASE 1 < k
      BY <1>1, <1>6, <2>1, <3>2
    <3> QED BY <1>1, <3>1, <3>2
  <2>7. f[k + 1].event_time_ms - f[1].event_time_ms <= q.within_ms
    BY <1>7, <2>1
  <2>8. f[k + 1].event_time_ms - f[k].event_time_ms <= q.within_ms
    BY <2>5, <2>6, <2>7
  <2>9. MaxGap = Unlimited \/ f[k + 1].event_time_ms - f[k].event_time_ms <= MaxGap
    BY <2>5, <2>8, BatchAssumption
  <2> DEFINE a == f[k]
             b == f[k + 1]
  <2>10. /\ a = e[i] /\ b = e[i + 1]
         /\ MaxGap = Unlimited \/ b.event_time_ms - a.event_time_ms <= MaxGap
    BY <2>3, <2>9
  <2> HIDE DEF a, b
  <2>11. \E j \in DOMAIN Graph!Build(F).edges : Graph!Build(F).edges[j] = Link(a, b)
    BY <2>4, <2>10, NextLinked
  <2> QED
    BY <2>11 DEF a, b
<1>9. Linkable(q, F, size, f)
  BY <1>1, <1>5, <1>6, <1>7, <1>8 DEF Linkable
<1> QED
  BY <1>9 DEF size

\* The search walks along the first of them.
LEMMA PartWalked ==
  ASSUME NEW q, q.within_ms \in Int, NEW F, Listable(F), NEW n, NEW f, Linkable(q, F, n, f),
         NEW m \in 1..n, m - 1 <= MaxPathLen, f[1].event_type = NativePattern(q)[1].name,
         NEW path, path = [k \in 1..m |-> f[k].event_id]
  PROVE  \E es : Walked(HcetCall(q, F), path[1], es, path)
<1> DEFINE edges == Graph!Build(F).edges
           vertex == Graph!Build(F).vertex
           link(k) == Link(f[k], f[k + 1])
           es == [k \in 1..m - 1 |-> CHOOSE i \in DOMAIN edges : edges[i] = link(k)]
           c == HcetCall(q, F)
<1>1. /\ n \in Nat /\ m \in Nat /\ m - 1 \in Nat /\ m - 1 + 1 = m /\ 1 \in 1..m /\ 1..m \subseteq 1..n
      /\ \A k \in 1..m - 1 : k \in 1..n - 1 /\ k \in 1..m /\ k + 1 \in 1..m
  BY DEF Linkable
<1>2. \A k \in 1..m : /\ f[k] \in F /\ path[k] = f[k].event_id /\ path[k] \in IdsOf(F)
                      /\ f[k].event_time_ms \in Int
                      /\ vertex[path[k]].event_type = f[k].event_type
                      /\ vertex[path[k]].event_time_ms = f[k].event_time_ms
  <2> TAKE k \in 1..m
  <2>1. f[k] \in F /\ path[k] = f[k].event_id
    BY <1>1 DEF Linkable
  <2>2. vertex[f[k].event_id] = [event_type |-> f[k].event_type, event_time_ms |-> f[k].event_time_ms]
    <3>1. vertex = Graph!Build(F).vertex
      OBVIOUS
    <3> HIDE DEF vertex
    <3> QED BY <2>1, <3>1, GraphVertices
  <2> QED
    BY <2>1, <2>2 DEF IdsOf, Listable
<1>3. \A k \in 1..m - 1 : es[k] \in DOMAIN edges /\ edges[es[k]] = link(k)
  <2> TAKE k \in 1..m - 1
  <2>1. \E j \in DOMAIN edges : edges[j] = link(k)
    BY <1>1 DEF Linkable
  <2> HIDE DEF edges, link
  <2> QED
    BY <2>1
<1>4. es \in [1..m - 1 -> DOMAIN edges]
  BY <1>3
<1>5. path \in [1..m -> IdsOf(F)]
  BY <1>2
<1>0. \A k \in 1..m - 1 : edges[es[k]] = Link(f[k], f[k + 1])
  BY <1>3
<1> HIDE DEF edges, vertex, es, c
<1>6. \A k \in 1..m - 1 : edges[es[k]].src = path[k] /\ edges[es[k]].dst = path[k + 1]
  <2> TAKE k \in 1..m - 1
  <2>1. k \in 1..m /\ k + 1 \in 1..m
    BY <1>1
  <2>2. path[k] = f[k].event_id /\ path[k + 1] = f[k + 1].event_id
    BY <1>2, <2>1
  <2>3. edges[es[k]] = Link(f[k], f[k + 1])
    BY <1>0
  <2> QED
    BY <2>2, <2>3 DEF Link
<1>7. Follows(F, path[1], m - 1, es, path)
  BY <1>1, <1>4, <1>5, <1>6 DEF Follows, edges
<1>8. /\ c.seq = NativePattern(q)
      /\ \A v : Kernel(c)!Type(v) = vertex[v].event_type
      /\ \A v : Kernel(c)!Time(v) = vertex[v].event_time_ms
  BY KernelOperators DEF c, vertex
<1>9. /\ Kernel(c)!Type(path[1]) = c.seq[1].name
      /\ Kernel(c)!Time(path[1]) = f[1].event_time_ms
  BY <1>1, <1>2, <1>8
<1>10. \A k \in 1..m - 1 : StepInTime(q, vertex, edges[es[k]], Kernel(c)!Time(path[1]))
  <2> TAKE k \in 1..m - 1
  <2>1. k \in 1..m /\ k + 1 \in 1..m /\ k < k + 1 /\ k \in 1..n /\ k + 1 \in 1..n /\ 1 \in 1..n
    BY <1>1
  <2> DEFINE x == edges[es[k]]
  <2>2. /\ x.src = path[k] /\ x.dst = path[k + 1]
        /\ x.window_start_ms = f[k].event_time_ms /\ x.window_end_ms = f[k + 1].event_time_ms
    <3>1. x = Link(f[k], f[k + 1])
      BY <1>0
    <3>2. x.src = path[k] /\ x.dst = path[k + 1]
      BY <1>6
    <3> QED BY <3>1, <3>2 DEF Link
  <2> HIDE DEF x
  <2>3. /\ vertex[x.src].event_time_ms = f[k].event_time_ms
        /\ vertex[x.dst].event_time_ms = f[k + 1].event_time_ms
    BY <1>2, <2>1, <2>2
  <2>4. /\ f[k].event_time_ms <= f[k + 1].event_time_ms
        /\ f[1].event_time_ms <= f[k + 1].event_time_ms
        /\ f[k + 1].event_time_ms - f[1].event_time_ms <= q.within_ms
    <3>1. \A i, j \in 1..n : i < j => f[i].event_time_ms <= f[j].event_time_ms
      BY DEF Linkable
    <3>2. \A i \in 1..n : f[i].event_time_ms - f[1].event_time_ms <= q.within_ms
      BY DEF Linkable
    <3>3. 1 < k + 1
      BY <2>1
    <3> QED BY <2>1, <3>1, <3>2, <3>3
  <2>5. f[1].event_time_ms \in Int /\ f[k].event_time_ms \in Int /\ f[k + 1].event_time_ms \in Int
    BY <1>1, <1>2, <2>1
  <2>6. StepInTime(q, vertex, x, f[1].event_time_ms)
    BY <2>2, <2>3, <2>4, <2>5 DEF StepInTime
  <2> QED
    BY <1>9, <2>6 DEF x
<1>11. Len(es) = m - 1
  BY <1>1, <1>4
<1>12. m - 1 \in 0..MaxPathLen
  BY <1>1, BatchAssumption
<1>13. Walked(c, path[1], es, path)
  BY <1>7, <1>9, <1>10, <1>11, <1>12, WalkFollows DEF c, edges, vertex
<1> QED
  BY <1>13 DEF c

\* The M tokens of the native pattern are found at these places of f.
TokensAt(q, f, n, M, at) ==
  /\ M \in Nat \ {0} /\ Len(NativePattern(q)) = M
  /\ at \in [1..M -> 1..n] /\ at[1] = 1
  /\ \A i, j \in 1..M : i < j => at[i] < at[j]
  /\ \A i \in 1..M : f[at[i]].event_type = NativePattern(q)[i].name

\* A number once reached stays so.
LEMMA StaysReached ==
  ASSUME NEW n \in Nat, NEW reached \in [1..n -> Int],
         \A k \in 1..n - 1 : reached[k] <= reached[k + 1],
         NEW p \in Int, NEW k \in 1..n, p <= reached[k]
  PROVE  p <= reached[n]
<1> DEFINE S == {j \in k..n : reached[j] < p}
<1> SUFFICES ASSUME ~(p <= reached[n]) PROVE FALSE
  OBVIOUS
<1>0. n \in k..n /\ n \in 1..n /\ reached[n] \in Int
  OBVIOUS
<1>1. n \in S /\ k \in Int /\ S \subseteq k..n /\ k..n \subseteq Int
  BY <1>0
<1>2. IsFiniteSet(S)
  <2>1. IsFiniteSet(k..n)
    BY <1>1, FS_Interval
  <2> HIDE DEF S
  <2> QED BY <1>1, <2>1, FS_Subset
<1>3. PICK least \in S : \A x \in S : least <= x
  <2> HIDE DEF S
  <2> QED BY <1>1, <1>2, Bounds
<1>4. least \in k..n /\ reached[least] < p /\ least # k /\ reached[k] \in Int
  OBVIOUS
<1>5. least - 1 \in k..n /\ least - 1 \in 1..n - 1 /\ (least - 1) + 1 = least /\ least - 1 \notin S
  BY <1>3, <1>4
<1>6. reached[least - 1] <= reached[least] /\ reached[least - 1] \in Int /\ reached[least] \in Int
  BY <1>4, <1>5
<1>7. p <= reached[least - 1]
  BY <1>5, <1>6
<1> HIDE DEF S
<1> QED
  BY <1>4, <1>6, <1>7

\* A walk beyond the longest path the search can hold: it is given up.
LEMMA LongExceeds ==
  ASSUME NEW q, NEW F, Listable(F), NEW c, c = HcetCall(q, F),
         NEW v, NEW es, NEW path, Walked(c, v, es, path), Len(es) = MaxPathLen,
         NEW reached \in Kernel(c)!Progress(path),
         Len(c.seq) \in Nat, \A k \in 1..MaxPathLen : reached[k] < Len(c.seq)
  PROVE  Kernel(c)!Exceeds
<1> DEFINE n == MaxPathLen + 1
           prefix == Kernel(c)!PrefixLen
<1>1. PICK i \in Kernel(c)!StartPositions : v = c.graph.order[i]
  BY DEF Walked
<1> DEFINE p == [start |-> i, walk |-> es, reached |-> reached]
<1>2. p \in Kernel(c)!Partials
  <2> DEFINE of(j, w) == {[start |-> j, walk |-> w, reached |-> r] :
                            r \in Kernel(c)!Progress(Kernel(c)!Route(c.graph.order[j], w))}
             from(j) == UNION {of(j, w) : w \in Kernel(c)!Walks(c.graph.order[j])}
  <2>1. Kernel(c)!Partials = UNION {from(j) : j \in Kernel(c)!StartPositions}
    BY DEF Kernel!Partials
  <2>2. es \in Kernel(c)!Walks(c.graph.order[i]) /\ path = Kernel(c)!Route(c.graph.order[i], es)
    BY <1>1 DEF Walked
  <2>3. p \in of(i, es)
    BY <2>2
  <2> HIDE DEF p, of
  <2>4. p \in from(i)
    BY <2>2, <2>3
  <2> HIDE DEF from
  <2> QED
    BY <1>1, <2>1, <2>4
<1>3. MaxPathLen \in Nat /\ n \in Nat /\ n \in 1..n /\ MaxPathLen = n - 1 /\ Len(path) = n
  <2>1. path \in [1..Len(es) + 1 -> IdsOf(F)]
    BY WalkFollows DEF Follows
  <2>2. MaxPathLen \in Nat
    BY BatchAssumption
  <2> QED
    BY <2>1, <2>2
<1>4. c.engine = "hcet"
  BY DEF HcetCall
<1>6. prefix \in Int /\ prefix <= Len(c.seq)
  <2>1. c.switch_depth = 2
    BY DEF HcetCall
  <2> QED
    BY <2>1 DEF Kernel!PrefixLen
<1>7. /\ reached \in [1..n -> Int]
      /\ \A k \in 1..n - 1 : reached[k] <= reached[k + 1]
  <2>1. reached \in [1..n -> 1..Len(c.seq)]
    BY <1>3 DEF Kernel!Progress
  <2>2. ASSUME NEW k \in 1..n - 1 PROVE reached[k + 1] - reached[k] \in {0, 1}
    BY <1>3 DEF Kernel!Progress
  <2>3. \A k \in 1..n - 1 : reached[k] \in Int /\ reached[k + 1] \in Int
    BY <1>3, <2>1
  <2> QED
    BY <2>1, <2>2, <2>3
<1> HIDE DEF n, prefix
<1>8. Kernel(c)!Length(p) = n
  BY <1>3 DEF Kernel!Length, n
<1>9. CASE \A k \in 1..MaxPathLen : reached[k] < prefix
  <2>1. Kernel(c)!Queued(p)
    BY <1>4, <1>9 DEF Kernel!Queued, prefix
  <2>2. Kernel(c)!Length(p) > MaxPathLen
    BY <1>3, <1>8
  <2> QED
    BY <1>2, <2>1, <2>2 DEF Kernel!Exceeds
<1>10. CASE \E k \in 1..MaxPathLen : ~(reached[k] < prefix)
  <2>1. PICK k \in 1..MaxPathLen : ~(reached[k] < prefix)
    BY <1>10
  <2>2. k \in 1..n /\ reached[k] \in Int /\ prefix <= reached[k] /\ reached[k] < Len(c.seq)
    BY <1>3, <1>6, <1>7, <2>1
  <2>3. prefix <= reached[n]
    BY <1>3, <1>6, <1>7, <2>2, StaysReached
  <2>4. Kernel(c)!Matched(p) = reached[n]
    BY <1>8 DEF Kernel!Matched
  <2>5. prefix < Len(c.seq)
    BY <1>6, <2>2
  <2>6. reached[n] \in Int
    BY <1>3, <1>7
  <2>7. Kernel(c)!Descended(p)
    BY <1>6, <2>3, <2>4, <2>5, <2>6 DEF Kernel!Descended, Kernel!DepthFirst, prefix
  <2>8. Kernel(c)!Length(p) >= MaxPathLen
    BY <1>3, <1>8
  <2> QED
    BY <1>2, <2>7, <2>8 DEF Kernel!Exceeds
<1> QED
  BY <1>9, <1>10

\* Where they are found in order among linked events, the kernel has a match
\* that ends no later, or more to go through than it holds.
LEMMA SpanFound ==
  ASSUME NEW q, q.within_ms \in Int, NEW F, Listable(F), NEW n, NEW f, Linkable(q, F, n, f),
         NEW M, NEW at, TokensAt(q, f, n, M, at)
  PROVE  \/ Kernel(HcetCall(q, F))!Exceeds
         \/ \E match \in NativeMatches(q, F) : \E m \in 1..at[M] :
              match.path = [k \in 1..m |-> f[k].event_id]
<1> DEFINE seq == NativePattern(q)
           type == [k \in 1..n |-> f[k].event_type]
           vertex == Graph!Build(F).vertex
           c == HcetCall(q, F)
<1>0. /\ M \in Nat \ {0} /\ Len(seq) = M /\ at \in [1..M -> 1..n] /\ at[1] = 1
      /\ \A i, j \in 1..M : i < j => at[i] < at[j]
      /\ \A i \in 1..M : f[at[i]].event_type = seq[i].name
  BY DEF TokensAt
<1>1. n \in Nat /\ \A i \in 1..M : type[at[i]] = seq[i].name
  BY <1>0 DEF Linkable
<1>2. \E m \in 1..at[M] : \E r : IsReading(seq, type, m, r) /\ r[m] = M
  <2>2. Occurs(seq, M, type, n, at)
    BY <1>0, <1>1 DEF Occurs
  <2> HIDE DEF seq, type
  <2> QED
    BY <2>2, GreedyReading
<1>12. PICK m \in 1..at[M] : \E r : IsReading(seq, type, m, r) /\ r[m] = M
  BY <1>2
<1>13. PICK r : IsReading(seq, type, m, r) /\ r[m] = M
  BY <1>12
<1> DEFINE path == [k \in 1..m |-> f[k].event_id]
           some == [k \in 1..MaxPathLen + 1 |-> f[k].event_id]
<1>3. /\ m \in 1..n /\ m \in Nat /\ 1 \in 1..M
      /\ \A k \in 1..m : k \in 1..n /\ f[k] \in F
  BY <1>0, <1>1 DEF Linkable
<1>4. f[1].event_type = seq[1].name
  BY <1>0, <1>3
<1>6. c.seq = seq /\ \A v : Kernel(c)!Type(v) = vertex[v].event_type
  BY KernelOperators
<1>7. \A k \in 1..m : Kernel(c)!Type(path[k]) = type[k]
  <2> TAKE k \in 1..m
  <2>1. path[k] = f[k].event_id /\ type[k] = f[k].event_type /\ f[k] \in F
    BY <1>3
  <2>2. vertex[f[k].event_id] = [event_type |-> f[k].event_type, event_time_ms |-> f[k].event_time_ms]
    <3>1. vertex = Graph!Build(F).vertex
      OBVIOUS
    <3> HIDE DEF vertex
    <3> QED BY <2>1, <3>1, GraphVertices
  <2> HIDE DEF path, type, vertex, c
  <2> QED
    BY <1>6, <2>1, <2>2
<1>8. Len(path) = m
  BY <1>3
<1> HIDE DEF path, some, c, seq, type
<1>9. r \in Kernel(c)!Readings(path)
  <2>1. Len(c.seq) = M /\ Len(seq) = M
    BY <1>0, <1>6 DEF seq
  <2>2. r \in [1..Len(path) -> 1..Len(c.seq)] /\ r[1] = 1 /\ r[Len(path)] = Len(c.seq)
    BY <1>13, <1>8, <2>1 DEF IsReading
  <2>3. ASSUME NEW k \in 1..Len(path) - 1
        PROVE  /\ r[k] < Len(c.seq)
               /\ \/ r[k + 1] - r[k] = 1 /\ Kernel(c)!Type(path[k + 1]) = c.seq[r[k] + 1].name
                  \/ r[k + 1] - r[k] = 0 /\ Kernel(c)!Type(path[k + 1]) # c.seq[r[k] + 1].name
    <3>1. k \in 1..m - 1 /\ k \in 1..m /\ k + 1 \in 1..m
      BY <1>3, <1>8
    <3>2. r[k] \in Int /\ r[k + 1] \in Int
      BY <1>8, <2>2, <3>1
    <3>3. Kernel(c)!Type(path[k + 1]) = type[k + 1]
      BY <1>7, <3>1
    <3>4. /\ r[k] < M
          /\ \/ r[k + 1] = r[k] + 1 /\ type[k + 1] = seq[r[k] + 1].name
             \/ r[k + 1] = r[k] /\ type[k + 1] # seq[r[k] + 1].name
      BY <1>13, <2>1, <3>1 DEF IsReading
    <3> QED
      BY <1>6, <2>1, <3>2, <3>3, <3>4
  <2> QED
    BY <2>2, <2>3 DEF Kernel!Readings, Kernel!Progress
<1>10. CASE m - 1 <= MaxPathLen
  <2>1. PICK es : Walked(c, path[1], es, path)
    BY <1>3, <1>4, <1>10, PartWalked DEF c, path, seq
  <2>2. PICK match \in NativeMatches(q, F) : match.path = path
    BY <1>9, <2>1, MatchesWalked DEF c
  <2> QED
    BY <2>2 DEF path
<1>11. CASE ~(m - 1 <= MaxPathLen)
  <2> DEFINE n1 == MaxPathLen + 1
             reached == [k \in 1..n1 |-> r[k]]
  <2>1. MaxPathLen \in Nat /\ n1 \in Nat /\ n1 \in 1..n /\ n1 - 1 <= MaxPathLen /\ n1 < m
    BY <1>1, <1>3, <1>11, BatchAssumption
  <2>2. PICK es : Walked(c, some[1], es, some)
    BY <1>4, <2>1, PartWalked DEF c, some, seq
  <2>3. Len(es) = MaxPathLen
    <3>1. Len(es) \in Nat /\ some \in [1..Len(es) + 1 -> IdsOf(F)]
      BY <2>2, WalkFollows DEF Follows, c
    <3> QED BY <2>1, <3>1 DEF some
  <2>4. /\ Len(some) = n1 /\ \A k \in 1..n1 : k \in 1..m /\ some[k] = path[k]
        /\ \A k \in 1..n1 - 1 : k \in 1..n1 /\ k + 1 \in 1..n1 /\ k \in 1..Len(path) - 1
        /\ 1 \in 1..n1
    BY <1>3, <1>8, <2>1 DEF some, path
  <2>5. /\ r \in [1..m -> 1..Len(c.seq)] /\ r[1] = 1
        /\ \A k \in 1..Len(path) - 1 :
             /\ r[k] < Len(c.seq)
             /\ LET step == c.seq[r[k] + 1]
                    gain == r[k + 1] - r[k]
                IN  \/ gain = 1 /\ Kernel(c)!Type(path[k + 1]) = step.name
                    \/ gain = 0 /\ (Kernel(c)!Type(path[k + 1]) # step.name \/ step.kleene_plus)
    BY <1>8, <1>9 DEF Kernel!Readings, Kernel!Progress
  <2>6. reached \in [1..n1 -> 1..Len(c.seq)] /\ \A k \in 1..n1 : reached[k] = r[k]
    BY <2>4, <2>5
  <2> HIDE DEF reached, n1
  <2>7. \A k \in 1..n1 - 1 : /\ reached[k] = r[k] /\ reached[k + 1] = r[k + 1]
                             /\ some[k + 1] = path[k + 1]
    BY <2>4, <2>6
  <2>8. reached \in Kernel(c)!Progress(some)
    BY ONLY <2>4, <2>5, <2>6, <2>7 DEF Kernel!Progress
  <2>9. Len(c.seq) \in Nat /\ \A k \in 1..MaxPathLen : reached[k] < Len(c.seq)
    <3>0. Len(c.seq) \in Nat
      BY <1>0, <1>6
    <3>1. MaxPathLen = n1 - 1
      BY <2>1 DEF n1
    <3> QED BY <2>4, <2>5, <2>7, <3>0, <3>1
  <2> QED
    BY <2>2, <2>3, <2>8, <2>9, LongExceeds DEF c
<1> QED
  BY <1>10, <1>11
=============================================================================
