------------------------- MODULE BatchSearch_proofs -------------------------
(***************************************************************************)
(* Where the standing matcher finds a sequence, the batch runtime finds    *)
(* one too.                                                                *)
(***************************************************************************)
EXTENDS BatchSearch, TrendMatch_proofs, BatchRuntime_proofs

\* The events of a list.
EventsOf(evts, ids) == {evts[ids[i]] : i \in DOMAIN ids}

\* The candidates of a partition are the events the batch runtime keeps of it,
\* in the same order.
LEMMA CandidateEvents ==
  ASSUME NEW q, q.where = <<>>, NEW evts, NEW ids, IsPartition(evts, ids),
         NEW n, NEW place, Places(q, evts, ids, n, place),
         NEW F, F = FilterEvents(q, EventsOf(evts, ids)),
         NEW e, e = [j \in 1..n |-> evts[ids[place[j]]]]
  PROVE  /\ Listable(F) /\ \A a, b \in F : a.partition_key = b.partition_key
         /\ EventsInOrder(F, n, e)
         /\ n \in Nat /\ n <= Len(ids)
         /\ \A j \in 1..n : e[j].event_id = ids[place[j]]
<1> DEFINE E == EventsOf(evts, ids)
           K == Kept(q, evts, ids)
<1>1. /\ Len(ids) \in Nat /\ DOMAIN ids = 1..Len(ids)
      /\ n \in Nat /\ place \in [1..n -> K] /\ \A i \in K : \E j \in 1..n : place[j] = i
      /\ \A j, k \in 1..n : j < k => place[j] < place[k]
  BY DEF IsPartition, Places
<1>2. /\ K \subseteq DOMAIN ids
      /\ \A i \in DOMAIN ids : i \in K <=> evts[ids[i]].event_type \in ReferencedTypes(q)
  BY DEF Kept
<1>3. F = {x \in E : x.event_type \in ReferencedTypes(q)}
  BY DEF FilterEvents
<1>4. \A i \in DOMAIN ids : /\ evts[ids[i]].event_id = ids[i]
                            /\ ids[i] \in Int /\ evts[ids[i]].event_time_ms \in Int
                            /\ evts[ids[i]].partition_key \in Int
  BY DEF IsPartition
<1>5. \A i, j \in DOMAIN ids :
        /\ evts[ids[i]].partition_key = evts[ids[j]].partition_key
        /\ i < j => Graph!Before(evts[ids[i]], evts[ids[j]])
  BY DEF IsPartition
<1>6. \A x \in F : \E i \in K : x = evts[ids[i]]
  BY <1>2, <1>3 DEF EventsOf
<1>7. \A i \in K : evts[ids[i]] \in F
  BY <1>2, <1>3 DEF EventsOf
<1>8. IsFiniteSet(F)
  <2>1. IsFiniteSet(DOMAIN ids)
    BY <1>1, FS_Interval
  <2>2. IsFiniteSet(E)
    <3> DEFINE at == [i \in DOMAIN ids |-> evts[ids[i]]]
    <3>1. at \in Surjection(DOMAIN ids, E)
      BY DEF Surjection, EventsOf
    <3> QED BY <2>1, <3>1, FS_Surjection
  <2> HIDE DEF E
  <2> QED
    BY <1>3, <2>2, FS_Subset
<1> HIDE DEF K, E
<1>9. Listable(F)
  <2>1. \A x \in F : x.partition_key \in Int /\ x.event_time_ms \in Int /\ x.event_id \in Int
    BY <1>2, <1>4, <1>6
  <2>2. \A a, b \in F : a.event_id = b.event_id => a = b
    BY <1>2, <1>4, <1>6
  <2> QED
    BY <1>8, <2>1, <2>2 DEF Listable
<1>10. \A a, b \in F : a.partition_key = b.partition_key
  BY <1>2, <1>5, <1>6
<1>11. \A j \in 1..n : place[j] \in K /\ place[j] \in DOMAIN ids /\ e[j] = evts[ids[place[j]]]
  BY <1>1, <1>2
<1>12. EventsInOrder(F, n, e)
  <2>1. \A j \in 1..n : e[j] \in F
    BY <1>7, <1>11
  <2>2. \A x \in F : \E j \in 1..n : x = e[j]
    BY <1>1, <1>6, <1>11
  <2>3. \A j, k \in 1..n : j < k => Graph!Before(e[j], e[k])
    BY <1>1, <1>5, <1>11
  <2> QED
    BY <1>1, <2>1, <2>2, <2>3 DEF EventsInOrder
<1>13. n <= Len(ids)
  <2>1. place \in [1..n -> 1..Len(ids)] /\ InOrder(n, place)
    BY <1>1, <1>2 DEF InOrder
  <2> QED
    BY <1>1, <2>1, InOrderIsShort
<1> QED
  BY <1>1, <1>4, <1>9, <1>10, <1>11, <1>12, <1>13

\* Each step stands for one event type.
NoAlternatives(q) == \A k \in DOMAIN q.steps : q.steps[k].aliases = {q.steps[k].canonical}

\* The tokens of the native pattern are found in order among the positions of
\* a path that the pattern means, the first of them first.
LEMMA TokensFound ==
  ASSUME NEW q, IsQuery(q), NoAlternatives(q), ~Optional(q.steps[1]),
         NEW evts, NEW ids, NEW len \in Nat \ {0}, NEW p, Len(p) = len, Fits(q, evts, ids, p),
         NEW f, \A j \in 1..len : f[j] = evts[ids[p[j]]]
  PROVE  \E M, at : TokensAt(q, f, len, M, at)
<1> DEFINE N == Len(q.steps)
           asked == {k \in DOMAIN q.steps : ~Optional(q.steps[k])}
           less == {x \in asked \X asked : x[1] < x[2]}
           M == Cardinality(asked)
           place == Ranked(asked, less)
           Type(j) == evts[ids[p[j]]].event_type
<1>1. /\ N \in Nat /\ DOMAIN q.steps = 1..N
      /\ \A k \in 1..N : q.steps[k].min_repeats \in Nat
  BY DEF IsQuery
<1>2. PICK cut \in [1..N + 1 -> 0..len] :
        /\ cut[1] = 0 /\ cut[N + 1] = len
        /\ \A j, k \in 1..N + 1 : j <= k => cut[j] <= cut[k]
        /\ \A k \in 1..N :
             /\ \A j \in cut[k] + 1..cut[k + 1] : Type(j) \in q.steps[k].aliases
             /\ cut[k + 1] - cut[k] >= q.steps[k].min_repeats
  BY DEF Fits
<1>3. N # 0
  <2> HIDE DEF N
  <2> QED BY <1>2
<1>4. asked \subseteq 1..N /\ 1 \in asked /\ IsFiniteSet(asked)
  <2>1. asked \subseteq 1..N /\ 1 \in asked
    BY <1>1, <1>3
  <2>2. IsFiniteSet(1..N)
    BY <1>1, FS_Interval
  <2> HIDE DEF asked
  <2> QED BY <2>1, <2>2, FS_Subset
<1>5. \A k \in asked : q.steps[k].min_repeats >= 1
  <2> TAKE k \in asked
  <2>1. k \in 1..N /\ q.steps[k].min_repeats # 0
    BY <1>1 DEF Optional
  <2> QED BY <1>1, <2>1
<1>6. NativePattern(q) = [k \in DOMAIN place |-> NativeToken(q.steps[place[k]])]
  BY DEF NativePattern
<1>7. \A k \in asked : \A j \in cut[k] + 1..cut[k + 1] : Type(j) = q.steps[k].canonical
  BY <1>1, <1>2, <1>4 DEF NoAlternatives
<1>8. \A x, y \in asked : <<x, y>> \in less <=> x < y
  OBVIOUS
<1> HIDE DEF asked, less, N
<1>9. IsOrder(asked, less)
  BY <1>1, <1>4, <1>8 DEF IsOrder
<1>10. /\ M \in Nat /\ place \in [1..M -> asked]
       /\ \A x \in asked : \E j \in 1..M : place[j] = x
       /\ \A j, k \in 1..M : j < k => <<place[j], place[k]>> \in less
  BY <1>4, <1>9, RankedInOrder
<1> HIDE DEF M, place, Type
<1>11. \A j, k \in 1..M : j < k => place[j] < place[k]
  BY <1>8, <1>10
<1>12. M # 0 /\ 1 \in 1..M /\ place[1] = 1
  <2>1. PICK j \in 1..M : place[j] = 1
    BY <1>4, <1>10
  <2>2. M # 0 /\ 1 \in 1..M
    BY <1>10, <2>1
  <2>3. place[1] \in 1..N
    BY <1>4, <1>10, <2>2
  <2>4. j = 1
    <3>1. ~(1 < j)
      <4> SUFFICES ASSUME 1 < j PROVE FALSE
        OBVIOUS
      <4>1. place[1] < 1
        BY <1>11, <2>1, <2>2
      <4> QED BY <1>1, <2>3, <4>1
    <3> QED BY <1>10, <2>1, <3>1
  <2> QED BY <2>1, <2>2, <2>4
<1>13. /\ Len(NativePattern(q)) = M
       /\ \A i \in 1..M : NativePattern(q)[i].name = q.steps[place[i]].canonical
  <2>1. DOMAIN place = 1..M
    BY <1>10
  <2>2. NativePattern(q) = [k \in 1..M |-> NativeToken(q.steps[place[k]])]
    BY <1>6, <2>1
  <2>3. Len(NativePattern(q)) = M
    BY <1>10, <2>2
  <2>4. \A i \in 1..M : NativePattern(q)[i] = NativeToken(q.steps[place[i]])
    BY <2>2
  <2> QED
    BY <2>3, <2>4 DEF NativeToken
<1> DEFINE at == [i \in 1..M |-> cut[place[i]] + 1]
<1>14. \A k \in asked : /\ k \in 1..N + 1 /\ k + 1 \in 1..N + 1 /\ k \in 1..N
                        /\ cut[k] \in 0..len /\ cut[k + 1] \in 0..len
                        /\ cut[k] + 1 <= cut[k + 1]
  <2> TAKE k \in asked
  <2>1. k \in 1..N + 1 /\ k + 1 \in 1..N + 1 /\ k \in 1..N
    BY <1>1, <1>4
  <2>2. cut[k] \in 0..len /\ cut[k + 1] \in 0..len
    BY <1>2, <2>1
  <2>3. cut[k + 1] - cut[k] >= q.steps[k].min_repeats /\ q.steps[k].min_repeats >= 1
        /\ q.steps[k].min_repeats \in Nat
    BY <1>1, <1>2, <1>5, <2>1
  <2> QED BY <2>1, <2>2, <2>3
<1>15. \A i \in 1..M : /\ place[i] \in asked /\ at[i] = cut[place[i]] + 1
                       /\ at[i] \in 1..len /\ at[i] \in cut[place[i]] + 1..cut[place[i] + 1]
  <2> TAKE i \in 1..M
  <2>1. place[i] \in asked /\ at[i] = cut[place[i]] + 1
    BY <1>10
  <2> HIDE DEF at
  <2> QED BY <1>14, <2>1
<1> HIDE DEF at
<1>16. at \in [1..M -> 1..len]
  BY <1>15 DEF at
<1>17. at[1] = 1
  BY <1>2, <1>12, <1>15
<1>18. \A i, j \in 1..M : i < j => at[i] < at[j]
  <2> SUFFICES ASSUME NEW i \in 1..M, NEW j \in 1..M, i < j PROVE at[i] < at[j]
    OBVIOUS
  <2> DEFINE k == place[i]
             l == place[j]
  <2>1. k \in asked /\ l \in asked /\ k < l /\ at[i] = cut[k] + 1 /\ at[j] = cut[l] + 1
    BY <1>11, <1>15
  <2> HIDE DEF k, l
  <2>2. k + 1 <= l /\ k + 1 \in 1..N + 1 /\ l \in 1..N + 1
    BY <1>4, <1>14, <2>1
  <2>3. cut[k + 1] <= cut[l]
    BY <1>2, <2>2
  <2> QED
    BY <1>14, <2>1, <2>3
<1>19. \A i \in 1..M : f[at[i]].event_type = NativePattern(q)[i].name
  <2>1. \A i \in 1..M : Type(at[i]) = NativePattern(q)[i].name
    BY <1>7, <1>13, <1>15
  <2> QED
    BY <1>15, <2>1 DEF Type
<1>20. TokensAt(q, f, len, M, at)
  BY <1>10, <1>12, <1>13, <1>16, <1>17, <1>18, <1>19 DEF TokensAt
<1> QED
  BY <1>20

\* Of two events in order the later is not before the earlier.
LEMMA LaterNotBefore ==
  ASSUME NEW F, Listable(F), NEW n \in Nat, NEW e, EventsInOrder(F, n, e),
         NEW i \in 1..n, NEW j \in i..n
  PROVE  ~Graph!Before(e[j], e[i])
<1>1. /\ j \in 1..n /\ i \in Int /\ j \in Int /\ i <= j
      /\ e[i].event_time_ms \in Int /\ e[j].event_time_ms \in Int
      /\ e[i].event_id \in Int /\ e[j].event_id \in Int
  BY DEF EventsInOrder, Listable
<1>2. CASE i = j
  BY <1>1, <1>2 DEF Graph!Before
<1>3. CASE i < j
  <2>1. Graph!Before(e[i], e[j])
    BY <1>1, <1>3 DEF EventsInOrder
  <2> QED BY <1>1, <2>1 DEF Graph!Before
<1> QED
  BY <1>1, <1>2, <1>3

\* A query with nothing but a sequence, for a graph that links its events.
HasRoom(q) ==
  /\ q.where = <<>> /\ q.absence = {} /\ q.relations = <<>>
  /\ MaxGap = Unlimited \/ q.within_ms <= MaxGap

\* Every match of its pattern is a trend it asks for.
LEMMA MatchIsTrend ==
  ASSUME NEW q, q.absence = {}, q.relations = <<>>, NEW E, NEW F, F = FilterEvents(q, E),
         NEW match \in NativeMatches(q, F), match.path # <<>>
  PROVE  \E t \in WholeTrends(q, E) : t.path = match.path
<1> DEFINE t == [query |-> q.id, partition |-> EventsById(F)[match.path[1]].partition_key,
                 path |-> match.path, copies |-> match.copies]
<1>1. ValidatePath(q, EventsById(F), SetToSeq(DOMAIN EventsById(F)), match.path)
  BY DEF ValidatePath, ValidateAbsence
<1>2. t.path = match.path
  OBVIOUS
<1>3. t \in WholeTrends(q, E)
  BY <1>1, QueryRuns
<1> QED
  BY <1>2, <1>3

\* Where the pattern of the query means a path, the query asks for a trend that
\* begins there and ends no later, or the kernel has too much to go through.
LEMMA MeantIsFound ==
  ASSUME NEW q, IsQuery(q), NoAlternatives(q), ~Optional(q.steps[1]),
         NEW evts, NEW ids, InTime(evts, ids), IsPartition(evts, ids), HasRoom(q),
         NEW path, path \in Meaning(q, evts, ids),
         NEW F, F = FilterEvents(q, EventsOf(evts, ids))
  PROVE  \/ F # {} /\ Kernel(HcetCall(q, F))!Exceeds
         \/ \E t \in WholeTrends(q, EventsOf(evts, ids)) :
              t.path[1] = path[1] /\ ~Graph!Before(evts[Last(path)], evts[Last(t.path)])
<1> DEFINE cand == Candidates(q, evts, ids)
<1>1. PICK n, place : Places(q, evts, ids, n, place)
  BY CandidatesHavePlaces
<1>2. PICK p : Meant(q, evts, cand, p) /\ path = PathAt(cand, p)
  BY CandidatesMeanTheSame, MeaningOf
<1> DEFINE e == [j \in 1..n |-> evts[ids[place[j]]]]
<1>3. /\ Listable(F) /\ \A a, b \in F : a.partition_key = b.partition_key
      /\ EventsInOrder(F, n, e)
      /\ n \in Nat /\ n <= Len(ids)
      /\ \A j \in 1..n : e[j].event_id = ids[place[j]]
  BY <1>1, CandidateEvents DEF HasRoom
<1>4. /\ cand = [j \in 1..n |-> ids[place[j]]]
      /\ \A j \in 1..n : cand[j] = e[j].event_id /\ evts[cand[j]] = e[j]
  BY <1>1, <1>3 DEF Places
<1>5. DOMAIN cand = 1..n
  BY <1>4
<1> HIDE DEF cand, e
<1>6. /\ p \in UNION {[1..len -> 1..n] : len \in 1..n}
      /\ \A i, j \in DOMAIN p : i < j => p[i] < p[j]
      /\ evts[cand[p[Len(p)]]].event_time_ms - evts[cand[p[1]]].event_time_ms <= q.within_ms
      /\ Fits(q, evts, cand, p)
  BY <1>2, <1>5 DEF Meant, Chains
<1>7. PICK len \in 1..n : p \in [1..len -> 1..n]
  BY <1>6
<1>8. Len(p) = len /\ DOMAIN p = 1..len /\ len \in Nat \ {0} /\ 1 \in 1..len /\ len \in 1..len
  BY <1>3, <1>7
<1> DEFINE first == p[1]
           last == p[len]
           size == last - first + 1
<1>9. /\ \A i \in 1..len : p[i] \in 1..n /\ first <= p[i] /\ p[i] <= last
      /\ first \in 1..n /\ last \in first..n /\ last \in 1..n
  <2>1. \A i \in 1..len : p[i] \in 1..n
    BY <1>7
  <2>2. \A i \in 1..len : p[1] <= p[i]
    <3> TAKE i \in 1..len
    <3>1. CASE i = 1
      BY <1>8, <2>1, <3>1
    <3>2. CASE 1 < i
      <4>1. p[1] < p[i]
        BY <1>6, <1>8, <3>2
      <4> QED BY <1>3, <1>8, <2>1, <4>1
    <3> QED BY <1>8, <3>1, <3>2
  <2>3. \A i \in 1..len : p[i] <= p[len]
    <3> TAKE i \in 1..len
    <3>1. CASE i = len
      BY <1>8, <2>1, <3>1
    <3>2. CASE i < len
      <4>1. p[i] < p[len]
        BY <1>6, <1>8, <3>2
      <4> QED BY <1>3, <1>8, <2>1, <4>1
    <3> QED BY <1>8, <3>1, <3>2
  <2> QED
    BY <1>3, <1>8, <2>1, <2>2, <2>3
<1>10. e[last].event_time_ms - e[first].event_time_ms <= q.within_ms
  BY <1>4, <1>6, <1>8, <1>9
<1> DEFINE d == [j \in 1..len |-> evts[cand[p[j]]]]
<1>11. \E M, at : TokensAt(q, d, len, M, at)
  <2>1. \A j \in 1..len : d[j] = evts[cand[p[j]]]
    OBVIOUS
  <2> HIDE DEF d
  <2> QED BY <1>6, <1>8, <2>1, TokensFound
<1>12. PICK M, at : TokensAt(q, d, len, M, at)
  BY <1>11
<1>13. /\ M \in Nat \ {0} /\ at \in [1..M -> 1..len]
       /\ Len(NativePattern(q)) = M /\ at[1] = 1
       /\ \A i, j \in 1..M : i < j => at[i] < at[j]
       /\ \A i \in 1..M : evts[cand[p[at[i]]]].event_type = NativePattern(q)[i].name
  BY <1>12 DEF TokensAt
<1> HIDE DEF first, last, size
<1> DEFINE f == [k \in 1..size |-> e[first + k - 1]]
           to == [i \in 1..M |-> p[at[i]] - first + 1]
<1>14. first \in Int /\ last \in Int /\ size \in Nat /\ size = last - first + 1 /\ 1 \in 1..size
  BY <1>3, <1>9 DEF size
<1>15. \A k \in 1..size : first + k - 1 \in first..last /\ f[k] = e[first + k - 1]
  BY <1>14
<1>16. \A i \in 1..M : /\ to[i] \in 1..size /\ to[i] = p[at[i]] - first + 1
                       /\ first + to[i] - 1 = p[at[i]] /\ p[at[i]] \in 1..n
  <2> TAKE i \in 1..M
  <2>1. p[at[i]] \in 1..n /\ first <= p[at[i]] /\ p[at[i]] <= last
    BY <1>9, <1>13
  <2>2. to[i] = p[at[i]] - first + 1
    OBVIOUS
  <2> HIDE DEF to
  <2> QED BY <1>3, <1>14, <2>1, <2>2
<1>17. Linkable(q, F, size, f)
  <2>1. q.within_ms \in Int /\ (MaxGap = Unlimited \/ q.within_ms <= MaxGap)
    BY DEF HasRoom, IsQuery
  <2>2. f = [k \in 1..last - first + 1 |-> e[first + k - 1]]
    BY DEF size
  <2> HIDE DEF f
  <2> QED
    BY <1>3, <1>9, <1>10, <1>14, <2>1, <2>2, PartLinkable
<1> HIDE DEF f, to
<1>18. to \in [1..M -> 1..size] /\ to[1] = 1
  <2>1. 1 \in 1..M
    BY <1>13
  <2>2. to[1] = 1
    BY <1>13, <1>14, <1>16, <2>1 DEF first
  <2> QED
    BY <1>16, <2>2 DEF to
<1>19. \A i, j \in 1..M : i < j => to[i] < to[j]
  <2> SUFFICES ASSUME NEW i \in 1..M, NEW j \in 1..M, i < j PROVE to[i] < to[j]
    OBVIOUS
  <2>1. p[at[i]] < p[at[j]]
    BY <1>6, <1>8, <1>13
  <2>2. /\ to[i] = p[at[i]] - first + 1 /\ p[at[i]] \in 1..n
        /\ to[j] = p[at[j]] - first + 1 /\ p[at[j]] \in 1..n
    BY <1>16
  <2> DEFINE x == p[at[i]]
             y == p[at[j]]
  <2>3. x < y /\ to[i] = x - first + 1 /\ to[j] = y - first + 1 /\ x \in Int /\ y \in Int
    BY <1>3, <2>1, <2>2
  <2> HIDE DEF x, y
  <2> QED
    BY <1>14, <2>3
<1>20. \A i \in 1..M : f[to[i]].event_type = NativePattern(q)[i].name
  <2> TAKE i \in 1..M
  <2>1. f[to[i]] = e[p[at[i]]]
    BY <1>15, <1>16
  <2>2. evts[cand[p[at[i]]]] = e[p[at[i]]]
    BY <1>4, <1>16
  <2> QED
    BY <1>13, <2>1, <2>2
<1>25. F # {}
  BY <1>17, <1>14 DEF Linkable
<1>32. SUFFICES ASSUME ~Kernel(HcetCall(q, F))!Exceeds
                PROVE  \E t \in WholeTrends(q, EventsOf(evts, ids)) :
                         t.path[1] = path[1] /\ ~Graph!Before(evts[Last(path)], evts[Last(t.path)])
  BY <1>25
<1>21. PICK match \in NativeMatches(q, F) : \E m \in 1..to[M] :
         match.path = [k \in 1..m |-> f[k].event_id]
  <2>1. TokensAt(q, f, size, M, to)
    BY <1>13, <1>18, <1>19, <1>20 DEF TokensAt
  <2>2. q.within_ms \in Int
    BY DEF IsQuery
  <2>3. Listable(F)
    BY <1>3
  <2> QED BY ONLY <1>17, <1>32, <2>1, <2>2, <2>3, SpanFound
<1>22. PICK m \in 1..to[M] : match.path = [k \in 1..m |-> f[k].event_id]
  BY <1>21
<1>23. m \in Nat /\ 1 \in 1..m /\ m \in 1..m /\ m \in 1..size
  <2>1. to[M] \in 1..size
    <3>1. M \in 1..M
      BY <1>13
    <3>2. \A i \in 1..M : to[i] \in 1..size
      BY <1>16
    <3> QED BY ONLY <3>1, <3>2
  <2> QED BY <1>14, <2>1
<1>24. /\ match.path # <<>> /\ Last(match.path) = f[m].event_id
       /\ match.path[1] = f[1].event_id
  <2> DEFINE b == match.path
  <2>1. b = [k \in 1..m |-> f[k].event_id]
    BY <1>22
  <2> HIDE DEF b
  <2>2. DOMAIN b = 1..m /\ b[1] = f[1].event_id /\ b[m] = f[m].event_id
    BY <1>23, <2>1
  <2>3. Len(b) = m
    BY <1>23, <2>1
  <2>4. b # <<>>
    BY <1>23, <2>2
  <2> QED
    BY <2>2, <2>3, <2>4 DEF Last, b
<1>26. PICK t \in WholeTrends(q, EventsOf(evts, ids)) : t.path = match.path
  BY <1>24, MatchIsTrend DEF HasRoom
<1>27. path[1] = cand[first] /\ Last(path) = cand[last]
  <2>1. path = [j \in 1..len |-> cand[p[j]]]
    BY <1>2, <1>8 DEF PathAt
  <2>2. Len(path) = len /\ path[1] = cand[p[1]] /\ path[len] = cand[p[len]]
    BY <1>8, <2>1
  <2> QED
    BY <2>2 DEF Last, first, last
<1>28. t.path[1] = path[1]
  <2>1. f[1] = e[first]
    <3>1. first + 1 - 1 = first
      BY <1>14
    <3> QED BY <1>14, <1>15, <3>1
  <2> QED
    BY <1>4, <1>9, <1>24, <1>26, <1>27, <2>1
<1> DEFINE g == first + m - 1
<1>29. g \in 1..n /\ last \in g..n /\ f[m] = e[g]
  <2>1. g \in first..last /\ f[m] = e[g]
    BY <1>15, <1>23
  <2> HIDE DEF g
  <2>2. first \in 1..n /\ last \in 1..n
    BY <1>9
  <2>3. g \in Int /\ first <= g /\ g <= last
    BY <1>14, <2>1
  <2> QED
    BY <1>3, <1>14, <2>1, <2>2, <2>3
<1> HIDE DEF g
<1>30. evts[Last(t.path)] = e[g] /\ evts[Last(path)] = e[last]
  BY <1>4, <1>9, <1>24, <1>26, <1>27, <1>29
<1>31. ~Graph!Before(e[last], e[g])
  BY <1>3, <1>29, LaterNotBefore
<1> QED
  BY <1>28, <1>30, <1>31

-----------------------------------------------------------------------------
(* One call of both, with any input.                                       *)

BatchInv ==
  /\ SearchInv
  /\ input.kind = "batch" =>
       /\ IsPartition(input.evts, input.ids)
       /\ called => batch \in Run({input.query}, DOMAIN input.ids,
                                  [i \in DOMAIN input.ids |-> input.evts[input.ids[i]]])

LEMMA BatchInvariant == BatchSpec => []BatchInv
<1>1. BatchInit => BatchInv
  <2> SUFFICES ASSUME BatchInit PROVE BatchInv
    OBVIOUS
  <2>1. PICK k \in Inputs : \E log \in k.logs, query \in k.queries, cap \in k.caps :
          input = [kind |-> k.kind, evts |-> log.evts, ids |-> log.ids,
                   query |-> query, cap |-> cap]
    BY DEF BatchInit, SearchInit
  <2>2. IsInput(input) /\ ~called
    BY <2>1, InputsAssumption DEF BatchInit, SearchInit, IsInput
  <2>3. input.kind = "batch" => IsPartition(input.evts, input.ids)
    BY <2>1, BatchInputsAssumption
  <2> QED
    BY <2>2, <2>3 DEF BatchInv, SearchInv
<1>2. BatchInv /\ [BatchCall]_<<searchVars, batch>> => BatchInv'
  <2> SUFFICES ASSUME BatchInv, [BatchCall]_<<searchVars, batch>> PROVE BatchInv'
    OBVIOUS
  <2>1. CASE BatchCall
    <3>1. SearchInv'
      BY <2>1 DEF BatchInv, BatchCall, SearchInv, Call
    <3>2. input' = input
      BY <2>1 DEF BatchCall, Call
    <3>3. input.kind = "batch" =>
            batch' \in Run({input.query}, DOMAIN input.ids,
                           [i \in DOMAIN input.ids |-> input.evts[input.ids[i]]])
      BY <2>1 DEF BatchCall
    <3> QED
      BY <3>1, <3>2, <3>3 DEF BatchInv
  <2>2. CASE UNCHANGED <<searchVars, batch>>
    BY <2>2 DEF BatchInv, SearchInv, searchVars
  <2> QED BY <2>1, <2>2
<1> QED
  BY <1>1, <1>2, PTL DEF BatchSpec

\* Of a list of events, the trends of their own partition.
LEMMA EventsListable ==
  ASSUME NEW evts, NEW ids, IsPartition(evts, ids)
  PROVE  Listable(EventsOf(evts, ids)) /\ IdsOf(EventsOf(evts, ids)) = ToSet(ids)
<1> DEFINE at == [i \in DOMAIN ids |-> evts[ids[i]]]
<1>1. at \in Surjection(DOMAIN ids, EventsOf(evts, ids))
  BY DEF Surjection, EventsOf
<1>2. IsFiniteSet(DOMAIN ids)
  <2>1. Len(ids) \in Nat /\ DOMAIN ids = 1..Len(ids)
    BY DEF IsPartition
  <2> QED BY <2>1, FS_Interval
<1>3. IsFiniteSet(EventsOf(evts, ids))
  BY <1>1, <1>2, FS_Surjection
<1>4. \A i \in DOMAIN ids : /\ evts[ids[i]].event_id = ids[i] /\ ids[i] \in Int
                            /\ evts[ids[i]].event_time_ms \in Int
                            /\ evts[ids[i]].partition_key \in Int
  BY DEF IsPartition
<1>5. Listable(EventsOf(evts, ids))
  BY <1>3, <1>4 DEF Listable, EventsOf
<1>6. IdsOf(EventsOf(evts, ids)) = ToSet(ids)
  BY <1>4 DEF IdsOf, EventsOf, ToSet
<1> QED
  BY <1>5, <1>6

\* For every list of events that validate_events lets through and every query
\* with nothing but a sequence, whose steps have one type each and whose first
\* may not be missing: where the standing runtime finds a trend, the batch
\* runtime finds one that begins there and ends no later, if it neither raises
\* nor reports an overflow, the ids are C ints and the graph links events that
\* are within_ms apart.
THEOREM SequencesAreFound == BatchSpec => []NativeSuperset
<1>1. BatchInv => NativeSuperset
  <2> DEFINE q == input.query
             evts == input.evts
             ids == input.ids
             E == EventsOf(evts, ids)
             F == FilterEvents(q, E)
  <2> SUFFICES ASSUME BatchInv, Searched, ToSet(ids) \subseteq CInts, SequenceOnly(q),
                      NEW path \in trends
               PROVE  \E b \in BatchPaths : b[1] = path[1] /\ NotBefore(Last(b), Last(path))
    BY DEF NativeSuperset, Superset
  <2>1. /\ IsQuery(q) /\ InTime(evts, ids) /\ IsPartition(evts, ids) /\ HasRoom(q)
        /\ NoAlternatives(q) /\ ~Optional(q.steps[1])
    BY DEF BatchInv, SearchInv, IsInput, SequenceOnly, HasRoom, NoAlternatives, Searched
  <2>2. path \in Meaning(q, evts, ids)
    <3> DEFINE valid == {r \in Meaning(q, evts, ids) :
                           Undisturbed(q, evts, ids, r) /\ Related(q, evts, r)}
               kept == MatchQueryPaths(q, evts, Candidates(q, evts, ids), input.cap)
               cap == input.cap
    <3>1. /\ cap \in Nat /\ raised = QueryRaises(q, evts, ids, cap)
          /\ ~raised => path \in QueryPaths(q, evts, ids, cap)
      BY DEF BatchInv, SearchInv, IsInput, Searched
    <3>2. q.relations = <<>>
      BY <2>1 DEF HasRoom
    <3> HIDE DEF valid, kept, cap, q, evts, ids
    <3>3. /\ ~QueryRaises(q, evts, ids, cap) => QueryPaths(q, evts, ids, cap) \subseteq valid
          /\ QueryRaises(q, evts, ids, cap) => \E k \in DOMAIN q.relations : ~Supported(q.relations[k])
      BY <2>1, <3>1, AnswersOfCall DEF valid, kept
    <3>4. ~QueryRaises(q, evts, ids, cap)
      BY <3>2, <3>3
    <3> QED BY <3>1, <3>3, <3>4 DEF valid
  <2>3. PICK r \in RunQuery(q, E) : ~r.raised /\ ~r.overflow /\ r.trends \subseteq batch.trends
    <3> DEFINE at == [i \in DOMAIN ids |-> evts[ids[i]]]
    <3>1. batch \in Run({q}, DOMAIN ids, at) /\ ~batch.raised /\ ~batch.overflow
      BY DEF BatchInv, Searched
    <3>2. E = EventsAt(DOMAIN ids, at)
      BY DEF EventsOf, EventsAt
    <3> HIDE DEF at, E, q, ids
    <3> QED BY <3>1, <3>2, RunAnswers
  <2> HIDE DEF q, evts, ids, F
  <2>4. Listable(E) /\ IdsOf(E) = ToSet(ids)
    BY <2>1, EventsListable
  <2>5. PICK t \in WholeTrends(q, E) :
          t.path[1] = path[1] /\ ~Graph!Before(evts[Last(path)], evts[Last(t.path)])
    <3>1. F # {} => ~Kernel(HcetCall(q, F))!Exceeds
      BY <2>3, <2>4, ExactRuns DEF F
    <3> QED BY <2>1, <2>2, <3>1, MeantIsFound DEF F
  <2>6. t \in r.trends
    <3>1. PICK n \in Nat : t.path \in [1..n + 1 -> IdsOf(E)]
      BY <2>4, TrendInTime
    <3>2. ToSet(t.path) \subseteq CInts
      BY <2>4, <3>1 DEF ToSet
    <3> QED BY <2>3, <2>4, <3>2, ExactRuns
  <2> QED
    BY <2>3, <2>5, <2>6 DEF NotBefore, BatchPaths, evts
<1> QED
  BY <1>1, BatchInvariant, PTL
=============================================================================
