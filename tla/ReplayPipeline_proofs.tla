----------------------- MODULE ReplayPipeline_proofs -----------------------
(***************************************************************************)
(* Theorems about the stream and the replays of ReplayPipeline, for any    *)
(* queries, event tables, bounds, and failures at any point.  They rest on *)
(* lemmas about ChainSearch for any rows, pattern and time allowed: what   *)
(* is found between two rows depends on the rows between them only, a path *)
(* names its first and its last row, and a pattern whose inner steps do    *)
(* not repeat reads a path in one way.                                     *)
(***************************************************************************)
EXTENDS ReplayPipeline, FiniteSetTheorems, SequenceTheorems, WellFoundedInduction, TLAPS

-----------------------------------------------------------------------------
(* The chain search.                                                       *)

\* Rows as the tables hold them: whole numbers for time and id.
AreEvents(rows) == \A r \in rows : r.event_time_ms \in Int /\ r.event_id \in Int

DistinctIds(rows) == \A r, s \in rows : r.event_id = s.event_id => r = s

-----------------------------------------------------------------------------
(* The result of a stretch.                                                *)

\* What a search finds are the results of its matches.
LEMMA SearchResults ==
  ASSUME NEW seq, NEW within, NEW view, NEW t
  PROVE  t \in Search(seq, within, view) <=>
           \E a, b \in view : IsMatch(seq, within, view, a, b) /\ t = Result(seq, view, a, b)
<1>1. ASSUME t \in Search(seq, within, view)
      PROVE  \E a, b \in view : IsMatch(seq, within, view, a, b) /\ t = Result(seq, view, a, b)
  BY <1>1 DEF Search
<1>2. ASSUME NEW a \in view, NEW b \in view,
             IsMatch(seq, within, view, a, b), t = Result(seq, view, a, b)
      PROVE  t \in Search(seq, within, view)
  <2>1. <<a, b>> \in {f \in view \X view : IsMatch(seq, within, view, f[1], f[2])}
    BY <1>2
  <2>2. t = Result(seq, view, <<a, b>>[1], <<a, b>>[2])
    BY <1>2
  <2> QED
    BY <2>1, <2>2 DEF Search
<1> QED
  BY <1>1, <1>2

\* The times of a result are those of its ends.
LEMMA ResultTimes ==
  ASSUME NEW seq, NEW view, NEW a, NEW b
  PROVE  /\ Result(seq, view, a, b).start = a.event_time_ms
         /\ Result(seq, view, a, b).end = b.event_time_ms
BY DEF Result

\* The time of the last event is not before that of the first.
LEMMA MatchTimes ==
  ASSUME NEW seq, NEW within, NEW view, AreEvents(view), NEW a \in view, NEW b \in view,
         IsMatch(seq, within, view, a, b)
  PROVE  a.event_time_ms <= b.event_time_ms
BY DEF IsMatch, Precedes, AreEvents

\* A view that has all rows of those between two times searches that stretch
\* as well as the view of all rows.
LEMMA SameStretch ==
  ASSUME NEW all, AreEvents(all), NEW view, view \subseteq all,
         NEW seq, NEW within, NEW a \in all, NEW b \in all, ~Precedes(b, a),
         \A r \in all : /\ a.event_time_ms <= r.event_time_ms
                        /\ r.event_time_ms <= b.event_time_ms
                        => r \in view
  PROVE  /\ a \in view /\ b \in view
         /\ IsMatch(seq, within, view, a, b) <=> IsMatch(seq, within, all, a, b)
         /\ Result(seq, view, a, b) = Result(seq, all, a, b)
<1>1. a.event_time_ms \in Int /\ b.event_time_ms \in Int /\ a.event_time_ms <= b.event_time_ms
  BY DEF AreEvents, Precedes
<1>2. a \in view /\ b \in view
  BY <1>1
<1>3. ASSUME NEW r \in all, ~Precedes(r, a), ~Precedes(b, r)
      PROVE  r \in view
  BY <1>1, <1>3 DEF AreEvents, Precedes
<1>4. Between(view, a, b) = Between(all, a, b)
  BY <1>3 DEF Between
<1>5. Segment(view, a, b) = Segment(all, a, b)
  BY <1>4 DEF Segment
<1> QED
  BY <1>2, <1>5 DEF IsMatch, Result

-----------------------------------------------------------------------------
(* A path names its ends.                                                  *)

\* The first and the last row in order are the ends of the stretch.
LEMMA OrderedEnds ==
  ASSUME NEW view, IsFiniteSet(view), AreEvents(view), DistinctIds(view),
         NEW a \in view, NEW b \in view, ~Precedes(b, a)
  PROVE  /\ Cardinality(Between(view, a, b)) \in Nat \ {0}
         /\ Segment(view, a, b)[1] = a
         /\ Segment(view, a, b)[Cardinality(Between(view, a, b))] = b
<1> DEFINE S == Between(view, a, b)
           n == Cardinality(S)
           Before(r) == {s \in S : Precedes(s, r)}
<1>1. S \subseteq view /\ a \in S /\ b \in S
  BY DEF Between, AreEvents, Precedes
<1>2. IsFiniteSet(S) /\ n \in Nat
  BY <1>1, FS_Subset, FS_CardinalityType
<1>3. n # 0
  BY <1>1, <1>2, FS_EmptySet
<1>4. \A r \in S : /\ IsFiniteSet(Before(r)) /\ Cardinality(Before(r)) \in Nat
                   /\ r \notin Before(r)
  BY <1>1, <1>2, FS_Subset, FS_CardinalityType DEF Precedes, AreEvents
<1>5. \A r \in S : ~Precedes(r, a) /\ ~Precedes(b, r)
  BY DEF Between
<1>6. \A r, s \in S : r # s => Precedes(r, s) \/ Precedes(s, r)
  BY <1>1 DEF AreEvents, DistinctIds, Precedes
<1>7. Cardinality(Before(a)) = 0
  <2>1. Before(a) = {}
    BY <1>5
  <2> QED
    BY <2>1, FS_EmptySet
<1>8. \A r \in S : Cardinality(Before(r)) = 0 => r = a
  <2> TAKE r \in S
  <2> HAVE Cardinality(Before(r)) = 0
  <2>1. Before(r) = {}
    BY <1>4, FS_EmptySet
  <2>2. ~Precedes(a, r)
    BY <2>1, <1>1
  <2> QED
    BY <2>2, <1>5, <1>6, <1>1
<1>9. IsFiniteSet(S \ {b}) /\ Cardinality(S \ {b}) = n - 1
  BY <1>1, <1>2, FS_RemoveElement
<1>10. Cardinality(Before(b)) = n - 1
  <2>1. Before(b) = S \ {b}
    BY <1>1, <1>4, <1>5, <1>6
  <2> QED
    BY <2>1, <1>9
<1>11. \A r \in S : Cardinality(Before(r)) = n - 1 => r = b
  <2> TAKE r \in S
  <2> HAVE Cardinality(Before(r)) = n - 1
  <2>1. IsFiniteSet(S \ {r}) /\ Cardinality(S \ {r}) = n - 1
    BY <1>2, FS_RemoveElement
  <2>2. Before(r) \subseteq S \ {r}
    BY <1>4
  <2>3. Before(r) = S \ {r}
    BY <2>1, <2>2, FS_Subset
  <2> QED
    BY <2>3, <1>1, <1>5
<1> DEFINE Pick(i) == CHOOSE r \in S : Cardinality(Before(r)) = i - 1
<1>12. Segment(view, a, b) = [i \in 1..n |-> Pick(i)]
  BY DEF Segment, Ordered
<1> HIDE DEF Pick, S, n, Before
<1>13. Segment(view, a, b)[1] = Pick(1) /\ Segment(view, a, b)[n] = Pick(n)
  BY <1>2, <1>3, <1>12
<1>14. Pick(1) = a
  <2>1. \A r \in S : Cardinality(Before(r)) = 1 - 1 <=> r = a
    BY <1>1, <1>4, <1>7, <1>8
  <2> QED
    BY <2>1, <1>1 DEF Pick
<1>15. Pick(n) = b
  <2>1. \A r \in S : Cardinality(Before(r)) = n - 1 <=> r = b
    BY <1>1, <1>10, <1>11
  <2> QED
    BY <2>1, <1>1 DEF Pick
<1> QED
  BY <1>2, <1>3, <1>13, <1>14, <1>15 DEF S, n

\* Two stretches of one path are the same stretch.
LEMMA SamePathSameEnds ==
  ASSUME NEW view, IsFiniteSet(view), AreEvents(view), DistinctIds(view), NEW seq,
         NEW a \in view, NEW b \in view, ~Precedes(b, a),
         NEW c \in view, NEW d \in view, ~Precedes(d, c),
         Result(seq, view, a, b).path = Result(seq, view, c, d).path
  PROVE  a = c /\ b = d
<1> DEFINE n == Cardinality(Between(view, a, b))
           m == Cardinality(Between(view, c, d))
           ab == Segment(view, a, b)
           cd == Segment(view, c, d)
<1>1. n \in Nat \ {0} /\ ab[1] = a /\ ab[n] = b
  BY OrderedEnds
<1>2. m \in Nat \ {0} /\ cd[1] = c /\ cd[m] = d
  BY OrderedEnds
<1>3. DOMAIN ab = 1..n /\ DOMAIN cd = 1..m
  BY DEF Segment, Ordered
<1>4. [i \in 1..n |-> ab[i].event_id] = [i \in 1..m |-> cd[i].event_id]
  <2>1. Result(seq, view, a, b).path = [i \in DOMAIN ab |-> ab[i].event_id]
    BY DEF Result
  <2>2. Result(seq, view, c, d).path = [i \in DOMAIN cd |-> cd[i].event_id]
    BY DEF Result
  <2> QED
    BY <1>3, <2>1, <2>2
<1> HIDE DEF n, m, ab, cd
<1>5. 1..n = 1..m
  BY <1>4
<1>6. n = m
  BY <1>1, <1>2, <1>5
<1>7. \A i \in 1..n : ab[i].event_id = cd[i].event_id
  BY <1>4, <1>5
<1>8. a.event_id = c.event_id /\ b.event_id = d.event_id
  BY <1>1, <1>2, <1>6, <1>7
<1> QED
  BY <1>8 DEF DistinctIds

-----------------------------------------------------------------------------
(* The ways of reading a path.                                             *)

\* Every set of natural numbers that is not empty has a least element.
LEMMA LeastNumber ==
  ASSUME NEW S, S \subseteq Nat, S # {}
  PROVE  \E n \in S : \A m \in S : n <= m
<1>1. PICK n \in S : \A m \in S : ~ (<<m, n>> \in OpToRel(<, Nat))
  BY WFMin, NatLessThanWellFounded
<1>2. \A m \in S : ~ (m < n)
  BY <1>1 DEF OpToRel
<1> QED
  BY <1>2

\* A pattern of which no inner step repeats reads a path in one way only:
\* where two readings part, one of them takes the last step, and has to be at
\* the end of the path, where the other has not taken it.
LEMMA OneReading ==
  ASSUME NEW seq, Len(seq) \in Nat, \A k \in 2..Len(seq) - 1 : ~seq[k].kleene_plus,
         NEW path, Len(path) \in Nat,
         NEW f \in Readings(seq, path), NEW g \in Readings(seq, path)
  PROVE  f = g
<1> DEFINE n == Len(path)
           m == Len(seq)
           Parts == {k \in 1..n : f[k] # g[k]}
           Step(h, k) == /\ h[k] < m
                         /\ \/ /\ h[k + 1] - h[k] = 1
                               /\ path[k + 1].event_type = seq[h[k] + 1].name
                            \/ /\ h[k + 1] - h[k] = 0
                               /\ \/ path[k + 1].event_type # seq[h[k] + 1].name
                                  \/ seq[h[k] + 1].kleene_plus
<1>1. \A h \in Readings(seq, path) :
        h \in [1..n -> 1..m] /\ h[1] = 1 /\ h[n] = m
  BY DEF Readings
<1>2. \A h \in Readings(seq, path) : \A k \in 1..n - 1 : Step(h, k)
  BY DEF Readings
<1> HIDE DEF Step
<1>3. SUFFICES ASSUME Parts # {} PROVE FALSE
  <2>1. f \in [1..n -> 1..m] /\ g \in [1..n -> 1..m]
    BY <1>1
  <2>2. ASSUME Parts = {} PROVE \A k \in 1..n : f[k] = g[k]
    BY <2>2
  <2> QED
    BY <2>1, <2>2
<1>4. Parts \subseteq Nat
  OBVIOUS
<1>5. PICK k \in Parts : \A j \in Parts : k <= j
  BY <1>3, <1>4, LeastNumber
<1>6. k \in 1..n /\ f[k] # g[k]
  OBVIOUS
<1>7. k # 1
  BY <1>1, <1>6
<1>8. k - 1 \in 1..n - 1 /\ k - 1 \in 1..n /\ (k - 1) + 1 = k /\ k - 1 \notin Parts
  BY <1>5, <1>6, <1>7
<1>9. f[k - 1] = g[k - 1]
  BY <1>8
<1>10. Step(f, k - 1) /\ Step(g, k - 1)
  BY <1>2, <1>8
<1>11. \A h \in Readings(seq, path) : h[k - 1] \in 1..m /\ h[k] \in 1..m
  BY <1>1, <1>6, <1>8
<1> DEFINE next == f[k - 1] + 1
<1>12. /\ f[k - 1] \in 1..m /\ f[k] \in 1..m /\ g[k] \in 1..m /\ next <= m
       /\ \/ f[k] = next
          \/ /\ f[k] = next - 1
             /\ path[k].event_type # seq[next].name \/ seq[next].kleene_plus
       /\ \/ g[k] = next
          \/ /\ g[k] = next - 1
             /\ path[k].event_type # seq[next].name \/ seq[next].kleene_plus
       /\ f[k] = next \/ g[k] = next => path[k].event_type = seq[next].name
  <2> DEFINE x == f[k - 1]
             Taken(v) == v - x = 1 /\ path[k].event_type = seq[x + 1].name
             Skipped(v) == /\ v - x = 0
                           /\ \/ path[k].event_type # seq[x + 1].name
                              \/ seq[x + 1].kleene_plus
  <2>1. x < m /\ (Taken(f[k]) \/ Skipped(f[k])) /\ (Taken(g[k]) \/ Skipped(g[k]))
    <3> DEFINE j == k - 1
    <3>1. j + 1 = k /\ x = f[j] /\ x = g[j] /\ Step(f, j) /\ Step(g, j)
      BY <1>8, <1>9, <1>10
    <3> HIDE DEF j, x
    <3> QED
      BY <3>1 DEF Step
  <2>2. x \in 1..m /\ f[k] \in 1..m /\ g[k] \in 1..m /\ m \in Nat
    BY <1>11
  <2> HIDE DEF x
  <2>3. next = x + 1
    BY DEF x
  <2>4. f[k - 1] \in 1..m
    BY <1>11
  <2> HIDE DEF next
  <2>5. ASSUME NEW v \in 1..m, Taken(v) \/ Skipped(v)
        PROVE  /\ \/ v = next
                  \/ /\ v = next - 1
                     /\ path[k].event_type # seq[next].name \/ seq[next].kleene_plus
               /\ v = next => path[k].event_type = seq[next].name
    <3>1. CASE Taken(v)
      BY <3>1, <2>2, <2>3
    <3>2. CASE Skipped(v)
      BY <3>2, <2>2, <2>3
    <3> QED
      BY <2>5, <3>1, <3>2
  <2>6. next <= m
    BY <2>1, <2>2, <2>3
  <2> HIDE DEF Taken, Skipped
  <2> QED
    BY <2>1, <2>2, <2>4, <2>5, <2>6
<1>13. seq[next].kleene_plus /\ f[k] # g[k] /\ {f[k], g[k]} = {next - 1, next}
  BY <1>6, <1>12
<1>14. next = m
  BY <1>12, <1>13
<1>15. k = n
  <2>1. \A h \in {f, g} : h[k] = m => k = n
    <3> SUFFICES ASSUME NEW h \in {f, g}, h[k] = m, k # n PROVE FALSE
      OBVIOUS
    <3>1. Step(h, k)
      BY <1>2, <1>6
    <3> QED
      BY <3>1, <1>6, <1>11 DEF Step
  <2> QED
    BY <2>1, <1>13, <1>14
<1> QED
  BY <1>1, <1>6, <1>15

-----------------------------------------------------------------------------
(* The event table.                                                        *)

\* A longer stretch of the event table holds more rows.
LEMMA RowsGrow ==
  ASSUME NEW m \in Int, NEW n \in Int, m <= n
  PROVE  Rows(m) \subseteq Rows(n) /\ Complete(Rows(m)) \subseteq Complete(Rows(n))
BY DEF Rows, Complete

\* The rows are events, and finitely many.
LEMMA RowsAreEvents ==
  ASSUME log \in Logs, NEW n \in 0..Len(log)
  PROVE  /\ AreEvents(Rows(n)) /\ IsFiniteSet(Rows(n))
         /\ \A r \in Rows(n) : r.partition_key \in STRING
<1> DEFINE Row == [partition_key : STRING, event_id : Int,
                   event_type : STRING \cup {NullType}, event_time_ms : Int]
<1>1. log \in Seq(Row)
  BY MicroAssumption
<1>2. \A r \in Row : /\ r.event_time_ms \in Int /\ r.event_id \in Int
                    /\ r.partition_key \in STRING
  OBVIOUS
<1> HIDE DEF Row
<1>3. AreEvents(Rows(n)) /\ \A r \in Rows(n) : r.partition_key \in STRING
  <2>1. \A i \in 1..n : log[i] \in Row
    BY <1>1
  <2> QED
    BY <1>2, <2>1 DEF AreEvents, Rows
<1>4. IsFiniteSet(Rows(n))
  <2> DEFINE f == [i \in 1..n |-> log[i]]
  <2>1. f \in Surjection(1..n, Rows(n))
    BY DEF Surjection, Rows
  <2>2. n \in Int /\ 1 \in Int
    BY <1>1
  <2>3. IsFiniteSet(1..n)
    BY <2>2, FS_Interval
  <2> QED
    BY <2>1, <2>3, FS_Surjection
<1> QED
  BY <1>3, <1>4

\* Of the copies of a key, one is left.
LEMMA OneCopyEach ==
  ASSUME NEW rows, NEW key, NEW kept \in OneCopies(rows, key)
  PROVE  /\ kept \subseteq rows
         /\ \A r, s \in kept : key[r] = key[s] => r = s
         /\ \A r \in rows : \E s \in kept : key[s] = key[r]
BY DEF OneCopies

\* The usable rows of a batch: complete, one of each key, every key.
LEMMA NormalizedRows ==
  ASSUME NEW rows, NEW kept \in Normalized(rows)
  PROVE  /\ kept \subseteq Complete(rows)
         /\ \A r, s \in kept : Key(r) = Key(s) => r = s
         /\ \A r \in Complete(rows) : \E s \in kept : Key(s) = Key(r)
<1> DEFINE key == [r \in Complete(rows) |-> Key(r)]
<1>1. kept \in OneCopies(Complete(rows), key)
  BY DEF Normalized
<1>2. \A r \in Complete(rows) : key[r] = Key(r)
  OBVIOUS
<1> HIDE DEF key
<1> QED
  BY <1>1, <1>2, OneCopyEach

\* A view of pairs of query and row: one of each key.
LEMMA ViewRows ==
  ASSUME NEW pairs, NEW kept \in Views(pairs)
  PROVE  /\ kept \subseteq pairs
         /\ \A x, y \in kept : BufferKey(x) = BufferKey(y) => x = y
         /\ \A x \in pairs : \E y \in kept : BufferKey(y) = BufferKey(x)
<1> DEFINE key == [x \in pairs |-> BufferKey(x)]
<1>1. kept \in OneCopies(pairs, key)
  BY DEF Views
<1>2. \A x \in pairs : key[x] = BufferKey(x)
  OBVIOUS
<1> HIDE DEF key
<1> QED
  BY <1>1, <1>2, OneCopyEach

\* Rows stored for the queries, and their key.
LEMMA BufferKeys ==
  ASSUME NEW q, NEW r, NEW p, NEW s
  PROVE  /\ BufferKey(<<q, r>>) = BufferKey(<<p, s>>) <=> q = p /\ Key(r) = Key(s)
         /\ Key(r) = Key(s) => r.partition_key = s.partition_key /\ r.event_id = s.event_id
BY DEF BufferKey, Key

-----------------------------------------------------------------------------
(* Where the stream stands.                                                *)

\* Up to where the batches done and the one to be done have read.
Upto == IF plan = 0 THEN offset ELSE plan

\* Positions are inside the event table.
PositionInv ==
  /\ log \in Logs /\ arrived \in 0..Len(log) /\ now \in 0..MaxNow
  /\ offset \in 0..arrived
  /\ plan = 0 \/ plan \in offset + 1..arrived
  /\ pc \in {"idle", "started", "buffered", "expired", "searched", "merged",
             "lettered", "measured"}
  /\ pc # "idle" => plan # 0
  /\ failures \in 0..MaxFailures
  /\ durations \subseteq 0..arrived

\* What an attempt has in hand is about the rows of its batch.
AttemptInv ==
  /\ pc = "idle" => current = {}
  /\ pc # "idle" => current \in Normalized(RowsOfBatch)
  /\ pc \notin {"idle", "measured"} => current # {}
  /\ pc \in {"idle", "started", "buffered", "expired"} => found = {} /\ errors = {}
  /\ errors \subseteq Buckets(current)

\* Buffer and snapshot hold complete rows that were read, the buffer one of
\* each key.
BufferInv ==
  /\ buffer \subseteq Queries \X Complete(Rows(Upto))
  /\ snapshot \subseteq Queries \X Complete(Rows(Upto))
  /\ \A x, y \in buffer : BufferKey(x) = BufferKey(y) => x = y

\* The rows of the batch are the last ones read.
LEMMA BatchIsRead ==
  ASSUME PositionInv, plan # 0
  PROVE  /\ Upto = plan /\ plan \in Int /\ offset \in Int /\ offset <= plan
         /\ Rows(plan) = Rows(offset) \cup RowsOfBatch
         /\ Complete(Rows(plan)) = Complete(Rows(offset)) \cup Complete(RowsOfBatch)
<1>1. arrived \in Int /\ offset \in 0..arrived /\ plan \in offset + 1..arrived
  BY MicroAssumption DEF PositionInv
<1>2. plan \in Int /\ offset \in Int /\ offset <= plan /\ offset >= 0
  BY <1>1
<1>3. Rows(plan) = Rows(offset) \cup RowsOfBatch
  BY <1>2 DEF Rows, RowsOfBatch
<1> QED
  BY <1>2, <1>3 DEF Upto, Complete

\* What was read is in the event table.
LEMMA ReadIsArrived ==
  ASSUME PositionInv
  PROVE  /\ Upto \in 0..Len(log) /\ arrived \in 0..Len(log) /\ Upto <= arrived
         /\ Len(log) \in Nat /\ offset \in 0..Upto
         /\ Complete(Rows(Upto)) \subseteq Complete(Rows(arrived))
<1>1. Len(log) \in Nat
  BY MicroAssumption DEF PositionInv
<1>2. Upto \in 0..Len(log) /\ arrived \in 0..Len(log) /\ Upto <= arrived /\ offset \in 0..Upto
  BY <1>1 DEF PositionInv, Upto
<1> QED
  BY <1>1, <1>2, RowsGrow

\* The first behaviours.
LEMMA PositionInit == Init => PositionInv /\ AttemptInv /\ BufferInv
<1> SUFFICES ASSUME Init PROVE PositionInv /\ AttemptInv /\ BufferInv
  OBVIOUS
<1>1. Len(log) \in Nat
  BY MicroAssumption DEF Init, MicroInit
<1>2. MaxNow \in Nat /\ MaxFailures \in Nat
  BY MicroAssumption
<1> QED
  BY <1>1, <1>2 DEF Init, MicroInit, PositionInv, AttemptInv, BufferInv

\* Every step keeps the positions in order.
LEMMA PositionStep == PositionInv /\ [Next]_vars => PositionInv'
<1> SUFFICES ASSUME PositionInv, [Next]_vars PROVE PositionInv'
  OBVIOUS
<1>1. Len(log) \in Nat /\ MaxNow \in Nat /\ MaxFailures \in Nat
  BY MicroAssumption DEF PositionInv
<1> USE <1>1 DEF PositionInv
<1>2. CASE Arrive
  BY <1>2 DEF Arrive, attempt, tables
<1>3. CASE Tick
  BY <1>3 DEF Tick, attempt, tables
<1>4. CASE PlanBatch
  BY <1>4 DEF PlanBatch, environment, attempt, tables
<1>5. CASE StartBatch
  BY <1>5 DEF StartBatch, environment, tables
<1>6. CASE MergeBuffer
  BY <1>6 DEF MergeBuffer, environment
<1>7. CASE ExpireBuffer
  BY <1>7 DEF ExpireBuffer, environment
<1>8. CASE SearchBuckets
  BY <1>8 DEF SearchBuckets, environment, tables
<1>9. CASE NothingFound
  BY <1>9 DEF NothingFound, Stop, environment, tables
<1>10. CASE MergeTrends
  BY <1>10 DEF MergeTrends, environment
<1>11. CASE MergeTrendsRefused
  BY <1>11 DEF MergeTrendsRefused, Stop, environment, tables
<1>12. CASE MergeDlq
  BY <1>12 DEF MergeDlq, environment
<1>13. CASE MergeMetrics
  <2>1. durations' = durations \cup {offset} /\ pc' = "measured"
    BY <1>13 DEF MergeMetrics
  <2> QED
    BY <1>13, <2>1 DEF MergeMetrics, environment, attempt
<1>14. CASE Commit
  BY <1>14 DEF Commit, environment, tables
<1>15. CASE Fail
  BY <1>15 DEF Fail, Stop, environment, tables
<1>16. CASE Replay
  BY <1>16 DEF Replay, Detect, Recompute, Retract, Upsert, microVars, environment, attempt, tables
<1>17. CASE UNCHANGED vars
  BY <1>17 DEF vars, microVars, environment
<1> QED
  BY <1>2, <1>3, <1>4, <1>5, <1>6, <1>7, <1>8, <1>9, <1>10, <1>11, <1>12, <1>13, <1>14,
     <1>15, <1>16, <1>17 DEF Next, Stream, MicroNext, ProcessBatch

\* A step that is not of the stream leaves its batch alone.
LEMMA OtherSteps ==
  ASSUME Replay \/ Arrive \/ Tick \/ UNCHANGED vars
  PROVE  UNCHANGED <<log, offset, plan, pc, current, snapshot, found, errors, searched_at,
                     failures, buffer, metrics, durations, dlq>>
BY DEF Replay, Detect, Recompute, Retract, Upsert, Arrive, Tick, vars, microVars,
       environment, attempt, tables

\* The rows of the batch depend on the table and the positions only.
LEMMA SameRows ==
  /\ log' = log => \A n : Rows(n)' = Rows(n)
  /\ log' = log /\ offset' = offset /\ plan' = plan =>
       RowsOfBatch' = RowsOfBatch /\ Upto' = Upto
BY DEF Rows, RowsOfBatch, Upto

LEMMA AttemptStep == AttemptInv /\ PositionInv /\ [Next]_vars => AttemptInv'
<1> SUFFICES ASSUME AttemptInv, PositionInv, [Next]_vars PROVE AttemptInv'
  OBVIOUS
<1> USE DEF AttemptInv
<1>1. CASE Replay \/ Arrive \/ Tick \/ UNCHANGED vars
  <2>1. UNCHANGED <<log, offset, plan, pc, current, found, errors>>
    BY <1>1, OtherSteps
  <2>2. RowsOfBatch' = RowsOfBatch
    BY <2>1, SameRows
  <2> QED
    BY <2>1, <2>2
<1>2. CASE PlanBatch
  BY <1>2 DEF PlanBatch, attempt
<1>3. CASE StartBatch
  <2>1. /\ log' = log /\ offset' = offset /\ plan' = plan
        /\ pc = "idle" /\ found' = found /\ errors' = errors
        /\ current' \in Normalized(RowsOfBatch)
        /\ pc' = IF current' = {} THEN "measured" ELSE "started"
    BY <1>3 DEF StartBatch, environment
  <2>2. RowsOfBatch' = RowsOfBatch
    BY <2>1, SameRows
  <2>3. errors' = {}
    BY <2>1
  <2> QED
    BY <2>1, <2>2, <2>3
<1>4. CASE MergeBuffer \/ ExpireBuffer \/ MergeTrends \/ MergeDlq \/ MergeMetrics
  <2>1. /\ UNCHANGED <<log, offset, plan, current, found, errors>>
        /\ pc # "idle" /\ pc' # "idle"
        /\ pc' \in {"buffered", "expired"} => pc \in {"started", "buffered"}
        /\ pc # "measured" /\ pc' # "started"
    BY <1>4 DEF MergeBuffer, ExpireBuffer, MergeTrends, MergeDlq, MergeMetrics,
                environment, attempt
  <2>2. RowsOfBatch' = RowsOfBatch
    BY <2>1, SameRows
  <2> QED
    BY <2>1, <2>2
<1>5. CASE SearchBuckets
  <2>1. /\ UNCHANGED <<log, offset, plan, current>>
        /\ pc = "expired" /\ pc' = "searched"
        /\ errors' \subseteq Buckets(current)
    BY <1>5 DEF SearchBuckets, environment
  <2>2. RowsOfBatch' = RowsOfBatch
    BY <2>1, SameRows
  <2> QED
    BY <2>1, <2>2
<1>6. CASE NothingFound \/ MergeTrendsRefused \/ Fail
  BY <1>6 DEF NothingFound, MergeTrendsRefused, Fail, Stop
<1>7. CASE Commit
  BY <1>7 DEF Commit
<1> QED
  BY <1>1, <1>2, <1>3, <1>4, <1>5, <1>6, <1>7 DEF Next, Stream, MicroNext, ProcessBatch

LEMMA BufferStep == BufferInv /\ AttemptInv /\ PositionInv /\ [Next]_vars => BufferInv'
<1> SUFFICES ASSUME BufferInv, AttemptInv, PositionInv, [Next]_vars PROVE BufferInv'
  OBVIOUS
<1> USE DEF BufferInv
<1>1. CASE /\ UNCHANGED <<log, offset, plan, buffer>>
           /\ snapshot' \in {snapshot, buffer, {}}
  <2>1. Upto' = Upto /\ Rows(Upto)' = Rows(Upto)
    BY <1>1, SameRows
  <2> QED
    BY <1>1, <2>1 DEF Complete
<1>2. CASE PlanBatch
  <2>1. /\ log' = log /\ plan = 0 /\ plan' \in offset + 1..arrived
        /\ UNCHANGED <<offset, buffer, snapshot>>
    BY <1>2 DEF PlanBatch, environment, tables, attempt
  <2>2. offset \in Int /\ arrived \in Int /\ offset >= 0
    BY ReadIsArrived DEF PositionInv
  <2>3. Upto = offset /\ Upto' = plan' /\ offset <= plan' /\ plan' \in Int
    BY <2>1, <2>2 DEF Upto
  <2>4. Complete(Rows(Upto)) \subseteq Complete(Rows(plan'))
    BY <2>2, <2>3, RowsGrow
  <2>5. Complete(Rows(Upto))' = Complete(Rows(plan'))
    BY <2>1, <2>3 DEF Rows, Complete
  <2> QED
    BY <2>1, <2>4, <2>5
<1>3. CASE MergeBuffer
  <2>1. /\ UNCHANGED <<log, offset, plan, snapshot>>
        /\ buffer' = Upserted(buffer, current) /\ pc = "started"
    BY <1>3 DEF MergeBuffer, environment, attempt
  <2>2. /\ current \subseteq Complete(RowsOfBatch)
        /\ \A r, s \in current : Key(r) = Key(s) => r = s
    BY <2>1, NormalizedRows DEF AttemptInv
  <2>3. Complete(RowsOfBatch) \subseteq Complete(Rows(Upto))
    BY <2>1, BatchIsRead DEF PositionInv
  <2>4. Expanded(current) \subseteq Queries \X Complete(Rows(Upto))
    BY <2>2, <2>3 DEF Expanded
  <2>5. \A x, y \in Expanded(current) : BufferKey(x) = BufferKey(y) => x = y
    BY <2>2, BufferKeys DEF Expanded
  <2>6. \A x, y \in buffer' : BufferKey(x) = BufferKey(y) => x = y
    BY <2>1, <2>5 DEF Upserted
  <2>7. buffer' \subseteq Queries \X Complete(Rows(Upto))
    BY <2>1, <2>4 DEF Upserted
  <2>8. Upto' = Upto /\ Rows(Upto)' = Rows(Upto)
    BY <2>1, SameRows
  <2> QED
    BY <2>1, <2>6, <2>7, <2>8 DEF Complete
<1>4. CASE ExpireBuffer
  <2>1. /\ UNCHANGED <<log, offset, plan, snapshot>>
        /\ buffer' \subseteq buffer
    BY <1>4 DEF ExpireBuffer, environment, attempt
  <2>2. Upto' = Upto /\ Rows(Upto)' = Rows(Upto)
    BY <2>1, SameRows
  <2> QED
    BY <2>1, <2>2 DEF Complete
<1>5. CASE Commit
  <2>1. /\ UNCHANGED <<log, buffer>>
        /\ snapshot' = {} /\ plan # 0 /\ offset' = plan /\ plan' = 0
    BY <1>5 DEF Commit, environment, tables, PositionInv
  <2>2. Upto' = Upto /\ Rows(Upto)' = Rows(Upto)
    BY <2>1, SameRows DEF Upto, Rows
  <2> QED
    BY <2>1, <2>2 DEF Complete
<1>6. CASE Replay \/ Arrive \/ Tick \/ UNCHANGED vars
  BY <1>1, <1>6, OtherSteps
<1>7. CASE \/ StartBatch \/ SearchBuckets \/ NothingFound \/ MergeTrends
           \/ MergeTrendsRefused \/ MergeDlq \/ MergeMetrics \/ Fail
  <2>1. /\ UNCHANGED <<log, offset, plan, buffer>>
        /\ snapshot' \in {snapshot, buffer, {}}
    BY <1>7 DEF StartBatch, SearchBuckets, NothingFound, MergeTrends, MergeTrendsRefused,
                MergeDlq, MergeMetrics, Fail, Stop, environment, attempt, tables
  <2> QED
    BY <2>1, <1>1
<1> QED
  BY <1>2, <1>3, <1>4, <1>5, <1>6, <1>7 DEF Next, Stream, MicroNext, ProcessBatch

-----------------------------------------------------------------------------
(* The buffer holds what is live.                                          *)

\* A row may still share a trend with one to come.
Live(q, r, time) == time <= r.event_time_ms + within_ms[q] + Lateness

\* A set of pairs has the rows that are live at a time, of partitions in
\* which no two of the rows read have one id.
Held(pairs, rows, read, time) ==
  \A q \in Queries : \A r \in Complete(rows) :
    Settled(Complete(read), r.partition_key) /\ Live(q, r, time) => <<q, r>> \in pairs

\* The buffer has the live rows of the batches done and, once it was written,
\* of this one; the snapshot has those of the batches done.
HeldInv ==
  /\ Held(buffer, Rows(offset), Rows(Upto), now)
  /\ pc \in {"started", "buffered", "expired"} => Held(snapshot, Rows(offset), Rows(Upto), now)
  /\ pc \notin {"idle", "started"} => Held(buffer, Rows(Upto), Rows(Upto), now)

LEMMA SettledSubset ==
  ASSUME NEW all, NEW rows, rows \subseteq all, NEW p, Settled(all, p)
  PROVE  Settled(rows, p)
BY DEF Settled, Of

\* In a settled partition the row that has the key of another is that row.
LEMMA SettledKey ==
  ASSUME NEW all, NEW r \in all, NEW s \in all, Settled(all, r.partition_key), Key(r) = Key(s)
  PROVE  r = s
BY DEF Settled, Of, Key

\* Live rows held stay held while time passes and more is read.
LEMMA HeldLater ==
  ASSUME NEW pairs, NEW rows, NEW read, NEW more, read \subseteq more, AreEvents(rows),
         NEW t \in Int, NEW u \in Int, t <= u, Held(pairs, rows, read, t)
  PROVE  Held(pairs, rows, more, u)
<1> SUFFICES ASSUME NEW q \in Queries, NEW r \in Complete(rows),
                    Settled(Complete(more), r.partition_key), Live(q, r, u)
             PROVE  <<q, r>> \in pairs
  BY DEF Held
<1>1. r.event_time_ms \in Int /\ within_ms[q] \in Int /\ Lateness \in Int
  BY MicroAssumption DEF AreEvents, Complete
<1>2. Live(q, r, t)
  BY <1>1 DEF Live
<1>3. Complete(read) \subseteq Complete(more)
  BY DEF Complete
<1>4. Settled(Complete(read), r.partition_key)
  BY <1>3, SettledSubset
<1> QED
  BY <1>2, <1>4 DEF Held

\* Rows of the batch are among those in hand, where ids are not used twice.
LEMMA BatchInHand ==
  ASSUME PositionInv, plan # 0, current \in Normalized(RowsOfBatch),
         NEW r \in Complete(RowsOfBatch), Settled(Complete(Rows(Upto)), r.partition_key)
  PROVE  r \in current
<1>1. PICK s \in current : Key(s) = Key(r)
  BY NormalizedRows
<1>2. s \in Complete(Rows(Upto)) /\ r \in Complete(Rows(Upto))
  BY <1>1, NormalizedRows, BatchIsRead
<1> QED
  BY <1>1, <1>2, SettledKey

LEMMA HeldInit == Init => HeldInv
BY DEF Init, MicroInit, HeldInv, Held, Rows, Complete

LEMMA HeldStep ==
  HeldInv /\ BufferInv /\ AttemptInv /\ PositionInv /\ PositionInv' /\ [Next]_vars => HeldInv'
<1> SUFFICES ASSUME HeldInv, BufferInv, AttemptInv, PositionInv, PositionInv', [Next]_vars
             PROVE  HeldInv'
  OBVIOUS
<1> USE DEF HeldInv
<1>1. /\ now \in Int /\ now' \in Int /\ offset \in Int /\ offset >= 0
      /\ AreEvents(Rows(offset)) /\ AreEvents(Rows(Upto))
  <2>1. offset \in 0..Len(log) /\ Upto \in 0..Len(log) /\ Len(log) \in Nat
    BY ReadIsArrived
  <2>2. AreEvents(Rows(offset)) /\ AreEvents(Rows(Upto))
    BY <2>1, RowsAreEvents DEF PositionInv
  <2> QED
    BY <2>1, <2>2, MicroAssumption DEF PositionInv
<1>2. CASE /\ UNCHANGED <<log, offset, plan, buffer>>
           /\ now <= now'
           /\ \/ UNCHANGED <<pc, snapshot>>
              \/ pc \notin {"idle", "started"} /\ pc' \notin {"started", "buffered", "expired"}
              \/ pc' = "idle"
  <2>1. Upto' = Upto /\ Rows(Upto)' = Rows(Upto) /\ Rows(offset)' = Rows(offset)
    BY <1>2, SameRows
  <2>2. \A pairs : /\ Held(pairs, Rows(offset), Rows(Upto), now) =>
                        Held(pairs, Rows(offset), Rows(Upto), now')
                   /\ Held(pairs, Rows(Upto), Rows(Upto), now) =>
                        Held(pairs, Rows(Upto), Rows(Upto), now')
    BY <1>1, <1>2, HeldLater
  <2> QED
    BY <1>2, <2>1, <2>2
<1>3. CASE Replay \/ Arrive \/ Tick \/ UNCHANGED vars
  <2>1. now <= now'
    <3>1. now' = now \/ now' = now + 1
      BY <1>3 DEF Replay, Detect, Recompute, Retract, Upsert, Arrive, Tick, vars, microVars,
                  environment
    <3> QED
      BY <1>1, <3>1
  <2> QED
    BY <1>2, <1>3, <2>1, OtherSteps
<1>4. CASE PlanBatch
  <2>1. /\ UNCHANGED <<log, now, offset, buffer>>
        /\ pc = "idle" /\ pc' = "idle" /\ plan = 0 /\ plan' \in offset + 1..arrived
    BY <1>4 DEF PlanBatch, environment, tables
  <2>2. arrived \in Int
    BY ReadIsArrived
  <2>3. Upto = offset /\ Upto' = plan' /\ offset <= plan' /\ plan' \in Int
    BY <1>1, <2>1, <2>2 DEF Upto
  <2>4. Rows(Upto) \subseteq Rows(plan')
    BY <1>1, <2>3, RowsGrow
  <2>5. Rows(Upto)' = Rows(plan') /\ Rows(offset)' = Rows(offset)
    BY <2>1, <2>3 DEF Rows
  <2>6. Held(buffer, Rows(offset), Rows(plan'), now)
    BY <1>1, <2>4, HeldLater
  <2> QED
    BY <2>1, <2>5, <2>6
<1>5. CASE StartBatch
  <2>1. /\ UNCHANGED <<log, now, offset, plan, buffer>>
        /\ plan # 0 /\ snapshot' = buffer /\ current' \in Normalized(RowsOfBatch)
        /\ pc' = IF current' = {} THEN "measured" ELSE "started"
    BY <1>5 DEF StartBatch, environment, tables
  <2>2. Upto' = Upto /\ Rows(Upto)' = Rows(Upto) /\ Rows(offset)' = Rows(offset)
    BY <2>1, SameRows
  <2>3. ASSUME pc' = "measured"
        PROVE  Held(buffer, Rows(Upto), Rows(Upto), now)
    <3>1. Complete(RowsOfBatch) = {}
      BY <2>1, <2>3, NormalizedRows
    <3>2. Complete(Rows(Upto)) = Complete(Rows(offset))
      BY <2>1, <3>1, BatchIsRead
    <3> QED
      BY <3>2 DEF Held
  <2> QED
    BY <2>1, <2>2, <2>3
<1>6. CASE MergeBuffer
  <2>1. /\ UNCHANGED <<log, now, offset, plan, snapshot, current>>
        /\ pc = "started" /\ pc' = "buffered" /\ buffer' = Upserted(buffer, current)
        /\ plan # 0 /\ current \in Normalized(RowsOfBatch)
    BY <1>6 DEF MergeBuffer, environment, attempt, PositionInv, AttemptInv
  <2>2. Upto' = Upto /\ Rows(Upto)' = Rows(Upto) /\ Rows(offset)' = Rows(offset)
    BY <2>1, SameRows
  <2>3. ASSUME NEW q \in Queries, NEW r \in Complete(Rows(Upto)),
               Settled(Complete(Rows(Upto)), r.partition_key), Live(q, r, now)
        PROVE  <<q, r>> \in buffer'
    <3>1. CASE r \in Complete(RowsOfBatch)
      <4>1. r \in current
        BY <2>1, <2>3, <3>1, BatchInHand
      <4> QED
        BY <2>1, <4>1 DEF Upserted, Expanded
    <3>2. CASE r \in Complete(Rows(offset))
      <4>1. <<q, r>> \in buffer
        BY <2>3, <3>2 DEF Held
      <4>2. ASSUME NEW x \in Expanded(current), BufferKey(<<q, r>>) = BufferKey(x)
            PROVE  x = <<q, r>>
        <5>1. PICK p \in Queries, s \in current : x = <<p, s>>
          BY DEF Expanded
        <5>2. p = q /\ Key(s) = Key(r)
          BY <4>2, <5>1, BufferKeys
        <5>3. s \in Complete(Rows(Upto))
          BY <2>1, NormalizedRows, BatchIsRead
        <5> QED
          BY <2>3, <5>1, <5>2, <5>3, SettledKey
      <4> QED
        BY <2>1, <4>1, <4>2 DEF Upserted
    <3> QED
      BY <2>1, <2>3, <3>1, <3>2, BatchIsRead
  <2>4. Held(buffer', Rows(Upto), Rows(Upto), now)
    BY <2>3 DEF Held
  <2>5. Complete(Rows(offset)) \subseteq Complete(Rows(Upto))
    BY <2>1, BatchIsRead
  <2>6. Held(buffer', Rows(offset), Rows(Upto), now)
    BY <2>4, <2>5 DEF Held
  <2> QED
    BY <2>1, <2>2, <2>4, <2>6
<1>7. CASE ExpireBuffer
  <2>1. /\ UNCHANGED <<log, now, offset, plan, snapshot>>
        /\ pc = "buffered" /\ pc' = "expired"
        /\ buffer' = {x \in buffer : ExpiresAt(x) >= now}
    BY <1>7 DEF ExpireBuffer, environment, attempt
  <2>2. Upto' = Upto /\ Rows(Upto)' = Rows(Upto) /\ Rows(offset)' = Rows(offset)
    BY <2>1, SameRows
  <2>3. \A q, r : Live(q, r, now) /\ <<q, r>> \in buffer => <<q, r>> \in buffer'
    BY <2>1 DEF Live, ExpiresAt
  <2>4. \A rows : Held(buffer, rows, Rows(Upto), now) => Held(buffer', rows, Rows(Upto), now)
    BY <2>3 DEF Held
  <2> QED
    BY <2>1, <2>2, <2>4
<1>8. CASE Commit
  <2>1. /\ UNCHANGED <<log, now, buffer>>
        /\ pc = "measured" /\ pc' = "idle" /\ plan # 0 /\ offset' = plan /\ plan' = 0
    BY <1>8 DEF Commit, environment, tables, PositionInv
  <2>2. Upto' = Upto /\ Rows(Upto)' = Rows(Upto) /\ Rows(offset)' = Rows(Upto)
    BY <2>1, SameRows DEF Upto, Rows
  <2> QED
    BY <2>1, <2>2
<1>9. CASE \/ SearchBuckets \/ NothingFound \/ MergeTrends \/ MergeTrendsRefused
           \/ MergeDlq \/ MergeMetrics \/ Fail
  <2>1. /\ UNCHANGED <<log, now, offset, plan, buffer>>
        /\ \/ pc \notin {"idle", "started"} /\ pc' \notin {"started", "buffered", "expired"}
           \/ pc' = "idle"
    BY <1>9 DEF SearchBuckets, NothingFound, MergeTrends, MergeTrendsRefused, MergeDlq,
                MergeMetrics, Fail, Stop, environment, attempt, tables
  <2> QED
    BY <1>1, <1>2, <2>1
<1> QED
  BY <1>3, <1>4, <1>5, <1>6, <1>7, <1>8, <1>9 DEF Next, Stream, MicroNext, ProcessBatch

\* Whatever failed in between, the rows of the batches done that may still
\* share a trend are in the buffer of every query.
THEOREM BufferAlwaysHoldsLive == Spec => []BufferHoldsLive
<1>1. Init => PositionInv /\ AttemptInv /\ BufferInv /\ HeldInv
  BY PositionInit, HeldInit
<1>2. PositionInv /\ AttemptInv /\ BufferInv /\ HeldInv /\ [Next]_vars
        => (PositionInv /\ AttemptInv /\ BufferInv /\ HeldInv)'
  BY PositionStep, AttemptStep, BufferStep, HeldStep
<1>3. PositionInv /\ HeldInv => BufferHoldsLive
  <2> SUFFICES ASSUME PositionInv, HeldInv,
                      NEW q \in Queries, NEW r \in Complete(Rows(offset)),
                      Settled(Complete(Rows(arrived)), r.partition_key),
                      now <= r.event_time_ms + within_ms[q] + Lateness
               PROVE  <<q, r>> \in buffer
    BY DEF BufferHoldsLive
  <2>1. Settled(Complete(Rows(Upto)), r.partition_key)
    BY ReadIsArrived, SettledSubset
  <2> QED
    BY <2>1 DEF HeldInv, Held, Live
<1> QED
  BY <1>1, <1>2, <1>3, PTL DEF Spec

-----------------------------------------------------------------------------
(* The rows of the tables.                                                 *)

\* A trend found: it ends no sooner than it begins, and is found once where
\* the pattern reads a path in one way.
TrendOK(t) ==
  /\ t.start \in Int /\ t.end \in Int /\ t.start <= t.end
  /\ ReadsOnce(t.query) => t.copies = 1

\* A row of the trends table.
RowOK(id, row) ==
  /\ row = [copies |-> row.copies, status |-> row.status, start |-> row.start,
            end |-> row.end, replay_id |-> row.replay_id]
  /\ row.status \in Statuses /\ row.replay_id \in Replays \cup {None}
  /\ row.start \in Int /\ row.end \in Int /\ row.start <= row.end
  /\ ReadsOnce(id[1]) => row.copies = 1

TableInv ==
  /\ \A id \in DOMAIN trends : RowOK(id, trends[id])
  /\ \A t \in found : TrendOK(t)
  /\ \A r \in Replays : \A t \in recomputed[r] : TrendOK(t)

ReplayTypeInv ==
  /\ stage \in [Replays -> {"new", "detected", "recomputed", "retracted", "closed"}]
  /\ \A w \in windows : /\ w.replay \in Replays /\ w.bucket \in Queries \X STRING
                        /\ w.start \in Int /\ w.end \in Int
  /\ DOMAIN recomputed = Replays
  /\ recomputed_at \in [Replays -> 0..arrived]
  /\ disturbed \in [Replays -> BOOLEAN]

\* A trend in the results of a bucket is that of a match in its rows.
LEMMA ResultsAreMatches ==
  ASSUME NEW view, NEW b, NEW t
  PROVE  t \in ResultsOf(view, b) <=>
           \E a, e \in InBucket(view, b) :
             /\ IsMatch(Pattern[b[1]], within_ms[b[1]], InBucket(view, b), a, e)
             /\ t = Trend(b, Result(Pattern[b[1]], InBucket(view, b), a, e))
BY SearchResults DEF ResultsOf

LEMMA TrendFields ==
  ASSUME NEW b, NEW seq, NEW view, NEW a, NEW e
  PROVE  LET t == Trend(b, Result(seq, view, a, e))
         IN  /\ t.query = b[1] /\ t.partition = b[2]
             /\ t.start = a.event_time_ms /\ t.end = e.event_time_ms
             /\ t.path = Result(seq, view, a, e).path
             /\ t.copies = Cardinality(Readings(seq, Segment(view, a, e)))
             /\ BucketOf(t) = <<b[1], b[2]>>
             /\ TrendId(t) = <<b[1], b[2], Result(seq, view, a, e).path>>
BY DEF Trend, Result, BucketOf, TrendId

\* The path of a stretch has a length.
LEMMA StretchLength ==
  ASSUME NEW view, IsFiniteSet(view), NEW a, NEW b
  PROVE  Len(Segment(view, a, b)) \in Nat
<1> DEFINE S == Between(view, a, b)
           n == Cardinality(S)
           path == Segment(view, a, b)
           T == {path[i] : i \in 1..n}
<1>1. n \in Nat
  BY FS_Subset, FS_CardinalityType DEF Between
<1>2. path = [i \in 1..n |-> path[i]]
  BY DEF Segment, Ordered
<1> HIDE DEF n, path
<1>3. path \in [1..n -> T]
  BY <1>2
<1>4. path \in Seq(T)
  BY <1>1, <1>3
<1> QED
  BY <1>4 DEF path

\* Where the pattern reads a path in one way, a match is found once.
LEMMA FoundOnce ==
  ASSUME NEW q \in Queries, ReadsOnce(q), NEW view, IsFiniteSet(view), NEW a, NEW b,
         IsMatch(Pattern[q], within_ms[q], view, a, b)
  PROVE  Cardinality(Readings(Pattern[q], Segment(view, a, b))) = 1
<1> DEFINE R == Readings(Pattern[q], Segment(view, a, b))
<1>1. Len(Pattern[q]) \in Nat
  BY MicroAssumption
<1>2. Len(Segment(view, a, b)) \in Nat
  BY StretchLength
<1>3. \A f, g \in R : f = g
  BY <1>1, <1>2, OneReading DEF ReadsOnce
<1>4. PICK f : f \in R
  BY DEF IsMatch
<1>5. R = {f}
  BY <1>3, <1>4
<1> QED
  BY <1>5, FS_Singleton

LEMMA ResultsAreTrends ==
  ASSUME NEW view, NEW b \in Queries \X STRING,
         IsFiniteSet(InBucket(view, b)), AreEvents(InBucket(view, b)),
         NEW t \in ResultsOf(view, b)
  PROVE  TrendOK(t)
<1> DEFINE V == InBucket(view, b)
<1>1. PICK a \in V, e \in V :
        /\ IsMatch(Pattern[b[1]], within_ms[b[1]], V, a, e)
        /\ t = Trend(b, Result(Pattern[b[1]], V, a, e))
  BY ResultsAreMatches
<1>2. /\ t.query = b[1] /\ t.start = a.event_time_ms /\ t.end = e.event_time_ms
      /\ t.copies = Cardinality(Readings(Pattern[b[1]], Segment(V, a, e)))
  BY <1>1, TrendFields
<1>3. a.event_time_ms \in Int /\ e.event_time_ms \in Int
  BY DEF AreEvents
<1>4. a.event_time_ms <= e.event_time_ms
  BY <1>1, MatchTimes
<1>5. ReadsOnce(b[1]) => t.copies = 1
  BY <1>1, <1>2, FoundOnce
<1> QED
  BY <1>2, <1>3, <1>4, <1>5 DEF TrendOK

\* A finite set of numbers has a least and a greatest one.
LEMMA MinMax ==
  ASSUME NEW S, IsFiniteSet(S), S # {}, S \subseteq Int
  PROVE  /\ Min(S) \in S /\ \A y \in S : Min(S) <= y
         /\ Max(S) \in S /\ \A y \in S : y <= Max(S)
<1> DEFINE Below(x) == {y \in S : y < x}
           Above(x) == {y \in S : x < y}
           Lower == {Below(x) : x \in S}
           Upper == {Above(x) : x \in S}
<1>1. /\ Lower \subseteq FiniteSubsetsOf(S) /\ Upper \subseteq FiniteSubsetsOf(S)
      /\ Lower # {} /\ Upper # {}
  <2>1. Lower \subseteq SUBSET S /\ Upper \subseteq SUBSET S
    OBVIOUS
  <2>2. Lower # {} /\ Upper # {}
    OBVIOUS
  <2> QED
    BY <2>1, <2>2, FS_FiniteSubsetsOfFinite
<1>2. PICK s \in Lower : \A t \in Lower : <<t, s>> \notin StrictSubsetOrdering(S)
  BY <1>1, WFMin, FS_StrictSubsetOrderingWellFounded
<1>3. PICK u \in Upper : \A t \in Upper : <<t, u>> \notin StrictSubsetOrdering(S)
  BY <1>1, WFMin, FS_StrictSubsetOrderingWellFounded
<1>4. \E x \in S : \A y \in S : x <= y
  <2>1. PICK x \in S : s = Below(x)
    BY <1>2
  <2>2. ASSUME NEW y \in S, y < x
        PROVE  FALSE
    <3>1. \A z \in S : z \in Int
      OBVIOUS
    <3>2. x \in Int /\ y \in Int
      BY <3>1
    <3>3. y \in Below(x)
      BY <2>2
    <3>5. y \notin Below(y)
      BY <3>2
    <3>6. ASSUME NEW z \in Below(y)
          PROVE  z \in Below(x)
      <4>1. z \in S /\ z < y
        OBVIOUS
      <4> QED
        BY <2>2, <3>1, <3>2, <4>1
    <3>7. Below(y) \subseteq Below(x) /\ Below(y) # Below(x) /\ Below(x) \subseteq S
      BY <3>3, <3>5, <3>6
    <3>4. <<Below(y), Below(x)>> \in StrictSubsetOrdering(S)
      BY <3>7 DEF StrictSubsetOrdering
    <3> QED
      BY <1>2, <2>1, <3>4
  <2> QED
    BY <2>2
<1>5. \E x \in S : \A y \in S : y <= x
  <2>1. PICK x \in S : u = Above(x)
    BY <1>3
  <2>2. ASSUME NEW y \in S, x < y
        PROVE  FALSE
    <3>1. \A z \in S : z \in Int
      OBVIOUS
    <3>2. x \in Int /\ y \in Int
      BY <3>1
    <3>3. y \in Above(x)
      BY <2>2
    <3>5. y \notin Above(y)
      BY <3>2
    <3>6. ASSUME NEW z \in Above(y)
          PROVE  z \in Above(x)
      <4>1. z \in S /\ y < z
        OBVIOUS
      <4> QED
        BY <2>2, <3>1, <3>2, <4>1
    <3>7. Above(y) \subseteq Above(x) /\ Above(y) # Above(x) /\ Above(x) \subseteq S
      BY <3>3, <3>5, <3>6
    <3>4. <<Above(y), Above(x)>> \in StrictSubsetOrdering(S)
      BY <3>7 DEF StrictSubsetOrdering
    <3> QED
      BY <1>3, <2>1, <3>4
  <2> QED
    BY <2>2
<1> QED
  BY <1>4, <1>5 DEF Min, Max

\* The rows of a bucket in a view of rows of the event table.
LEMMA ViewBucket ==
  ASSUME log \in Logs, NEW n \in 0..Len(log), NEW view, view \subseteq Queries \X Rows(n), NEW b
  PROVE  /\ InBucket(view, b) \subseteq Of(Rows(n), b[2])
         /\ IsFiniteSet(InBucket(view, b)) /\ AreEvents(InBucket(view, b))
<1>1. InBucket(view, b) \subseteq Of(Rows(n), b[2])
  BY DEF InBucket, Of
<1>2. InBucket(view, b) \subseteq Rows(n)
  BY <1>1 DEF Of
<1>3. AreEvents(Rows(n)) /\ IsFiniteSet(Rows(n))
  BY RowsAreEvents
<1> QED
  BY <1>1, <1>2, <1>3, FS_Subset DEF AreEvents

\* The row of an id is one of the rows.
LEMMA RowOfId ==
  ASSUME NEW ts, NEW id \in Ids(ts)
  PROVE  RowOf(ts, id) \in ts /\ TrendId(RowOf(ts, id)) = id
<1>1. \E t \in ts : TrendId(t) = id
  BY DEF Ids
<1> QED
  BY <1>1 DEF RowOf

\* A new row of the trends table.
LEMMA InsertedRow ==
  ASSUME NEW t, TrendOK(t), NEW r \in Replays \cup {None}
  PROVE  /\ RowOK(TrendId(t), Inserted(t, r))
         /\ Inserted(t, r).copies = t.copies /\ Inserted(t, r).status = "active"
         /\ Inserted(t, r).start = t.start /\ Inserted(t, r).end = t.end
         /\ Inserted(t, r).replay_id = r
BY DEF TrendOK, RowOK, Inserted, TrendId, Statuses

\* The rows a search and a recompute may read.
LEMMA SearchedRows ==
  ASSUME PositionInv, AttemptInv, BufferInv, pc = "expired", NEW old \in {snapshot, buffer}
  PROVE  /\ Combined(old, current) \subseteq Queries \X Complete(Rows(Upto))
         /\ Buckets(current) \subseteq Queries \X STRING
<1>1. current \subseteq Complete(RowsOfBatch) /\ plan # 0
  BY NormalizedRows DEF AttemptInv, PositionInv
<1>2. current \subseteq Complete(Rows(Upto))
  BY <1>1, BatchIsRead
<1>3. \A r \in Rows(Upto) : r.partition_key \in STRING
  BY ReadIsArrived, RowsAreEvents DEF PositionInv
<1>4. Buckets(current) \subseteq Queries \X STRING
  BY <1>2, <1>3 DEF Buckets, PartitionsOf, Complete
<1>5. Combined(old, current) \subseteq Queries \X Complete(Rows(Upto))
  BY <1>2 DEF Combined, Expanded, BufferInv
<1> QED
  BY <1>4, <1>5

LEMMA ImpactedRows ==
  ASSUME PositionInv, ReplayTypeInv, NEW r
  PROVE  /\ Impacted(r) \subseteq Queries \X Rows(arrived)
         /\ \A x \in Impacted(r) : <<x[1], x[2].partition_key>> \in Queries \X STRING
<1>1. \A w \in WindowsOf(r) : w.bucket[1] \in Queries
  BY DEF WindowsOf, ReplayTypeInv
<1>2. Impacted(r) \subseteq Queries \X Rows(arrived)
  BY <1>1 DEF Impacted
<1>3. \A row \in Rows(arrived) : row.partition_key \in STRING
  BY ReadIsArrived, RowsAreEvents DEF PositionInv
<1> QED
  BY <1>2, <1>3

\* A window is an interval of times, around the rows it is about.
LEMMA WindowBounds ==
  ASSUME PositionInv, NEW r \in Replays, NEW b \in Buckets(Changed(r))
  PROVE  /\ b \in Queries \X STRING
         /\ WindowOf(r, b).replay = r /\ WindowOf(r, b).bucket = b
         /\ WindowOf(r, b).start \in Int /\ WindowOf(r, b).end \in Int
<1> DEFINE times == {row.event_time_ms : row \in Of(Changed(r), b[2])}
           width == within_ms[b[1]] + Lateness
<1>1. Changed(r) \subseteq Rows(arrived)
  BY DEF Changed
<1>2. /\ AreEvents(Rows(arrived)) /\ IsFiniteSet(Rows(arrived))
      /\ \A row \in Rows(arrived) : row.partition_key \in STRING
  BY ReadIsArrived, RowsAreEvents DEF PositionInv
<1>3. /\ b \in Queries \X STRING
      /\ \E row \in Changed(r) : row.partition_key = b[2]
  BY <1>1, <1>2 DEF Buckets, PartitionsOf
<1>4. times # {} /\ times \subseteq Int
  BY <1>1, <1>2, <1>3 DEF Of, AreEvents
<1>5. IsFiniteSet(times)
  <2> DEFINE R == Of(Changed(r), b[2])
             f == [row \in R |-> row.event_time_ms]
  <2>1. IsFiniteSet(R)
    BY <1>1, <1>2, FS_Subset DEF Of
  <2>2. f \in Surjection(R, times)
    BY DEF Surjection
  <2> QED
    BY <2>1, <2>2, FS_Surjection
<1>6. Min(times) \in Int /\ Max(times) \in Int
  BY <1>4, <1>5, MinMax
<1>7. width \in Int
  BY <1>3, MicroAssumption
<1> QED
  BY <1>3, <1>6, <1>7 DEF WindowOf

LEMMA ReplayTypeInit == Init => ReplayTypeInv
<1> SUFFICES ASSUME Init PROVE ReplayTypeInv
  OBVIOUS
<1> QED
  BY DEF Init, MicroInit, ReplayInit, ReplayTypeInv

\* The event table only grows.
LEMMA TableGrows ==
  PositionInv /\ [Next]_vars => /\ log' = log /\ arrived \in Nat /\ arrived' \in Nat
                                /\ arrived <= arrived'
                                /\ (~Arrive => arrived' = arrived)
<1> SUFFICES ASSUME PositionInv, [Next]_vars
             PROVE  /\ log' = log /\ arrived \in Nat /\ arrived' \in Nat
                    /\ arrived <= arrived' /\ (~Arrive => arrived' = arrived)
  OBVIOUS
<1>1. arrived \in Nat
  BY ReadIsArrived
<1>2. CASE Arrive
  BY <1>1, <1>2 DEF Arrive
<1>3. CASE ~Arrive
  <2>1. UNCHANGED <<log, arrived>>
    BY <1>3 DEF Next, Stream, MicroNext, ProcessBatch, Tick, PlanBatch, StartBatch,
       MergeBuffer, ExpireBuffer, SearchBuckets, NothingFound, MergeTrends,
       MergeTrendsRefused, MergeDlq, MergeMetrics, Commit, Fail, Stop, Replay, Detect,
       Recompute, Retract, Upsert, vars, microVars, environment
  <2> QED
    BY <1>1, <2>1
<1> QED
  BY <1>2, <1>3

LEMMA ReplayTypeStep == ReplayTypeInv /\ PositionInv /\ [Next]_vars => ReplayTypeInv'
<1> SUFFICES ASSUME ReplayTypeInv, PositionInv, [Next]_vars PROVE ReplayTypeInv'
  OBVIOUS
<1>1. arrived \in Nat /\ arrived' \in Nat /\ arrived <= arrived'
  BY TableGrows
<1>2. recomputed_at \in [Replays -> 0..arrived']
  BY <1>1 DEF ReplayTypeInv
<1>3. CASE Stream
  <2>1. UNCHANGED <<stage, windows, recomputed, recomputed_at>>
        /\ disturbed' \in [Replays -> BOOLEAN]
    BY <1>3 DEF Stream
  <2> QED
    BY <1>2, <2>1 DEF ReplayTypeInv
<1>4. ASSUME NEW r \in Replays, Detect(r)
      PROVE  ReplayTypeInv'
  <2>1. \A w \in windows' : \/ w \in windows
                            \/ \E b \in Buckets(Changed(r)) : w = WindowOf(r, b)
    BY <1>4 DEF Detect
  <2>2. \A w \in windows' : /\ w.replay \in Replays /\ w.bucket \in Queries \X STRING
                            /\ w.start \in Int /\ w.end \in Int
    BY <2>1, WindowBounds DEF ReplayTypeInv
  <2>3. UNCHANGED <<recomputed, recomputed_at, disturbed>>
        /\ stage' = [stage EXCEPT ![r] = "detected"]
    BY <1>4 DEF Detect
  <2> QED
    BY <1>2, <2>2, <2>3 DEF ReplayTypeInv
<1>5. ASSUME NEW r \in Replays, Recompute(r)
      PROVE  ReplayTypeInv'
  <2>1. /\ windows' = windows /\ arrived' = arrived
        /\ recomputed_at' = [recomputed_at EXCEPT ![r] = arrived]
        /\ disturbed' = [disturbed EXCEPT ![r] = FALSE]
        /\ stage' = [stage EXCEPT ![r] = "recomputed"]
        /\ DOMAIN recomputed' = DOMAIN recomputed
    BY <1>5 DEF Recompute, microVars, environment
  <2> QED
    BY <1>1, <2>1 DEF ReplayTypeInv
<1>6. ASSUME NEW r \in Replays, Retract(r) \/ Upsert(r)
      PROVE  ReplayTypeInv'
  <2>1. /\ UNCHANGED <<windows, recomputed, recomputed_at>>
        /\ disturbed' = [s \in Replays |-> disturbed[s] \/ s # r]
        /\ \/ stage' = [stage EXCEPT ![r] = "retracted"]
           \/ stage' = [stage EXCEPT ![r] = "closed"]
    BY <1>6 DEF Retract, Upsert, DisturbOthers
  <2> QED
    BY <1>2, <2>1 DEF ReplayTypeInv
<1>7. CASE UNCHANGED vars
  BY <1>2, <1>7 DEF vars, replayVars, ReplayTypeInv
<1> QED
  BY <1>3, <1>4, <1>5, <1>6, <1>7 DEF Next, Replay

LEMMA TableInit == Init => TableInv
BY DEF Init, MicroInit, ReplayInit, TableInv

LEMMA TableStep ==
  TableInv /\ ReplayTypeInv /\ BufferInv /\ AttemptInv /\ PositionInv /\ [Next]_vars => TableInv'
<1> SUFFICES ASSUME TableInv, ReplayTypeInv, BufferInv, AttemptInv, PositionInv, [Next]_vars
             PROVE  TableInv'
  OBVIOUS
<1>1. CASE Stream /\ SearchBuckets
  <2>1. PICK old \in {snapshot, buffer} :
          \E view \in Views(Combined(old, current)) : \E failed \in SUBSET Buckets(current) :
            found' = UNION {ResultsOf(view, b) : b \in Buckets(current) \ failed}
    BY <1>1 DEF SearchBuckets
  <2>6. PICK view \in Views(Combined(old, current)) : \E failed \in SUBSET Buckets(current) :
            found' = UNION {ResultsOf(view, b) : b \in Buckets(current) \ failed}
    BY <2>1
  <2>2. pc = "expired" /\ UNCHANGED <<trends, recomputed>>
    BY <1>1 DEF SearchBuckets, Stream, tables
  <2>3. view \subseteq Queries \X Rows(Upto) /\ Buckets(current) \subseteq Queries \X STRING
    BY <2>2, SearchedRows, ViewRows DEF Complete
  <2>4. Upto \in 0..Len(log) /\ log \in Logs
    BY ReadIsArrived DEF PositionInv
  <2>5. ASSUME NEW t \in found' PROVE TrendOK(t)
    <3>1. PICK b \in Buckets(current) : t \in ResultsOf(view, b)
      BY <2>6
    <3> QED
      BY <2>3, <2>4, <3>1, ViewBucket, ResultsAreTrends
  <2> QED
    BY <2>2, <2>5 DEF TableInv
<1>2. CASE Stream /\ MergeTrends
  <2>1. trends' = WithTrends(found) /\ found' = found /\ UNCHANGED recomputed
    BY <1>2 DEF MergeTrends, attempt, Stream
  <2>2. ASSUME NEW id \in DOMAIN trends' PROVE RowOK(id, trends'[id])
    <3>1. CASE id \notin Ids(found)
      BY <2>1, <2>2, <3>1 DEF WithTrends, TableInv
    <3>2. CASE id \in Ids(found) /\ id \in DOMAIN trends
      <4>1. trends'[id] = [trends[id] EXCEPT !.status = "active", !.replay_id = None]
        BY <2>1, <3>2 DEF WithTrends
      <4>2. RowOK(id, trends[id])
        BY <3>2 DEF TableInv
      <4> QED
        BY <4>1, <4>2 DEF RowOK, Statuses
    <3>3. CASE id \in Ids(found) /\ id \notin DOMAIN trends
      <4>1. trends'[id] = Inserted(RowOf(found, id), None)
        BY <2>1, <3>3 DEF WithTrends
      <4> QED
        BY <3>3, <4>1, RowOfId, InsertedRow DEF TableInv
    <3> QED
      BY <3>1, <3>2, <3>3
  <2> QED
    BY <2>1, <2>2 DEF TableInv
<1>3. ASSUME NEW r \in Replays, Retract(r)
      PROVE  TableInv'
  <2>1. /\ UNCHANGED <<found, recomputed>>
        /\ trends' = [id \in DOMAIN trends |->
                        IF id \in Stale(r)
                          THEN [trends[id] EXCEPT !.status = "retracted", !.replay_id = r]
                          ELSE trends[id]]
    BY <1>3 DEF Retract, attempt
  <2>2. ASSUME NEW id \in DOMAIN trends' PROVE RowOK(id, trends'[id])
    <3>1. id \in DOMAIN trends /\ RowOK(id, trends[id])
      BY <2>1 DEF TableInv
    <3>2. \/ trends'[id] = trends[id]
          \/ trends'[id] = [trends[id] EXCEPT !.status = "retracted", !.replay_id = r]
      BY <2>1, <3>1
    <3> QED
      BY <3>1, <3>2 DEF RowOK, Statuses
  <2> QED
    BY <2>1, <2>2 DEF TableInv
<1>4. ASSUME NEW r \in Replays, Upsert(r)
      PROVE  TableInv'
  <2> DEFINE R == recomputed[r]
  <2>1. /\ UNCHANGED <<found, recomputed>>
        /\ trends' = [id \in DOMAIN trends \cup Ids(R) |->
                        IF id \notin Ids(R) THEN trends[id]
                        ELSE IF id \in DOMAIN trends
                          THEN [Inserted(RowOf(R, id), r) EXCEPT !.copies = trends[id].copies]
                          ELSE Inserted(RowOf(R, id), r)]
    BY <1>4 DEF Upsert, attempt
  <2>2. ASSUME NEW id \in DOMAIN trends' PROVE RowOK(id, trends'[id])
    <3>1. CASE id \notin Ids(R)
      BY <2>1, <2>2, <3>1 DEF TableInv
    <3>2. CASE id \in Ids(R)
      <4> DEFINE i == Inserted(RowOf(R, id), r)
      <4>1. RowOK(id, i)
        <5>1. RowOf(R, id) \in R /\ TrendId(RowOf(R, id)) = id
          BY <3>2, RowOfId
        <5>2. TrendOK(RowOf(R, id))
          BY <5>1 DEF TableInv
        <5> QED
          BY <5>1, <5>2, InsertedRow
      <4>2. \/ trends'[id] = i
            \/ id \in DOMAIN trends /\ trends'[id] = [i EXCEPT !.copies = trends[id].copies]
        BY <2>1, <3>2
      <4>3. id \in DOMAIN trends => RowOK(id, trends[id])
        BY DEF TableInv
      <4> HIDE DEF i
      <4> QED
        BY <4>1, <4>2, <4>3 DEF RowOK
    <3> QED
      BY <3>1, <3>2
  <2> QED
    BY <2>1, <2>2 DEF TableInv
<1>5. ASSUME NEW r \in Replays, Recompute(r)
      PROVE  TableInv'
  <2>1. PICK view \in Views(Impacted(r)) :
          recomputed' = [recomputed EXCEPT ![r] =
            UNION {ResultsOf(view, b) : b \in {<<x[1], x[2].partition_key>> : x \in view}}]
    BY <1>5 DEF Recompute
  <2>2. UNCHANGED <<trends, found>>
    BY <1>5 DEF Recompute, microVars, attempt
  <2>3. /\ view \subseteq Queries \X Rows(arrived)
        /\ \A x \in view : <<x[1], x[2].partition_key>> \in Queries \X STRING
    BY ImpactedRows, ViewRows
  <2>4. arrived \in 0..Len(log) /\ log \in Logs
    BY DEF PositionInv
  <2>5. ASSUME NEW s \in Replays, NEW t \in recomputed'[s] PROVE TrendOK(t)
    <3>1. CASE s # r
      BY <2>1, <2>5, <3>1 DEF TableInv
    <3>2. CASE s = r
      <4>1. PICK b \in Queries \X STRING : t \in ResultsOf(view, b)
        BY <2>1, <2>3, <2>5, <3>2 DEF ReplayTypeInv
      <4> QED
        BY <2>3, <2>4, <4>1, ViewBucket, ResultsAreTrends
    <3> QED
      BY <3>1, <3>2
  <2> QED
    BY <2>2, <2>5 DEF TableInv
<1>6. CASE found' \in {found, {}} /\ UNCHANGED <<trends, recomputed>>
  BY <1>6 DEF TableInv
<1>7. ASSUME NEW r \in Replays, Detect(r)
      PROVE  TableInv'
  BY <1>6, <1>7 DEF Detect, microVars, attempt
<1>8. CASE UNCHANGED vars
  BY <1>6, <1>8 DEF vars, microVars, replayVars, attempt
<1>9. CASE Stream /\ ~SearchBuckets /\ ~MergeTrends
  BY <1>6, <1>9 DEF Stream, MicroNext, ProcessBatch, Arrive, Tick, PlanBatch, StartBatch,
     MergeBuffer, ExpireBuffer, NothingFound, MergeTrendsRefused, MergeDlq, MergeMetrics,
     Commit, Fail, Stop, attempt, tables
<1> QED
  BY <1>1, <1>2, <1>3, <1>4, <1>5, <1>7, <1>8, <1>9 DEF Next, Replay

-----------------------------------------------------------------------------

\* The positions, what an attempt has in hand, and the rows of the tables.
TypeInv == PositionInv /\ AttemptInv /\ BufferInv /\ TableInv /\ ReplayTypeInv

LEMMA TypeInvHolds == Spec => []TypeInv
<1>1. Init => TypeInv
  BY PositionInit, TableInit, ReplayTypeInit DEF TypeInv
<1>2. TypeInv /\ [Next]_vars => TypeInv'
  BY PositionStep, AttemptStep, BufferStep, TableStep, ReplayTypeStep DEF TypeInv
<1> QED
  BY <1>1, <1>2, PTL DEF Spec

\* Every table and position is of its type, in any run.
THEOREM LakeAlwaysTypeOK == Spec => []LakeTypeOK
<1>1. TypeInv => LakeTypeOK
  <2> SUFFICES ASSUME TypeInv PROVE LakeTypeOK
    OBVIOUS
  <2>1. current \subseteq Complete(RowsOfBatch)
    BY NormalizedRows DEF TypeInv, AttemptInv
  <2>2. buffer \subseteq Queries \X Complete(Rows(arrived))
    BY ReadIsArrived DEF TypeInv, BufferInv
  <2>3. \A id \in DOMAIN trends : /\ trends[id].status \in Statuses
                                  /\ trends[id].replay_id \in Replays \cup {None}
    BY DEF TypeInv, TableInv, RowOK
  <2>4. \A w \in windows : w.replay \in Replays /\ w.bucket[1] \in Queries
    BY DEF TypeInv, ReplayTypeInv
  <2> QED
    BY <2>1, <2>2, <2>3, <2>4 DEF TypeInv, LakeTypeOK, PositionInv, AttemptInv, BufferInv,
       ReplayTypeInv
<1> QED
  BY <1>1, TypeInvHolds, PTL

\* However often a trend is merged, the table has one row of it, where the
\* pattern reads a path in one way.
THEOREM OneRowPerTrendAlways == Spec => []OneRowPerTrend
<1>1. TypeInv => OneRowPerTrend
  BY DEF TypeInv, TableInv, RowOK, OneRowPerTrend
<1> QED
  BY <1>1, TypeInvHolds, PTL

-----------------------------------------------------------------------------
(* What a batch finds.                                                     *)

\* The trends of a bucket in a set of rows.
AllTrends(b, rows) == {Trend(b, r) : r \in Search(Pattern[b[1]], within_ms[b[1]], rows)}

LEMMA AllTrendsAreMatches ==
  ASSUME NEW b, NEW rows, NEW t
  PROVE  t \in AllTrends(b, rows) <=>
           \E a, e \in rows :
             /\ IsMatch(Pattern[b[1]], within_ms[b[1]], rows, a, e)
             /\ t = Trend(b, Result(Pattern[b[1]], rows, a, e))
BY SearchResults DEF AllTrends

LEMMA TrendsFrom ==
  ASSUME NEW b, NEW rows, NEW from, NEW t
  PROVE  t \in TrendsOf(b, rows, from) <=> t \in AllTrends(b, rows) /\ t.start >= from
<1>1. \A r : Trend(b, r).start = r.start
  BY DEF Trend
<1> QED
  BY <1>1 DEF TrendsOf, AllTrends

\* A view that has all rows of those between the ends of a trend finds it
\* as well as the view of all rows.
LEMMA SameTrends ==
  ASSUME NEW b, NEW view, NEW all, AreEvents(all), InBucket(view, b) \subseteq all, NEW t,
         \A r \in all : t.start <= r.event_time_ms /\ r.event_time_ms <= t.end
                        => r \in InBucket(view, b)
  PROVE  t \in ResultsOf(view, b) <=> t \in AllTrends(b, all)
<1> DEFINE seq == Pattern[b[1]]
           within == within_ms[b[1]]
           V == InBucket(view, b)
           Is(rows, a, e) == /\ IsMatch(seq, within, rows, a, e)
                             /\ t = Trend(b, Result(seq, rows, a, e))
<1>1. ASSUME NEW a \in all, NEW e \in all, Is(V, a, e) \/ Is(all, a, e)
      PROVE  a \in V /\ e \in V /\ Is(V, a, e) /\ Is(all, a, e)
  <2>1. t.start = a.event_time_ms /\ t.end = e.event_time_ms
    BY <1>1, TrendFields
  <2>2. ~Precedes(e, a)
    BY <1>1 DEF IsMatch
  <2>3. /\ a \in V /\ e \in V
        /\ IsMatch(seq, within, V, a, e) <=> IsMatch(seq, within, all, a, e)
        /\ Result(seq, V, a, e) = Result(seq, all, a, e)
    <3>1. \A r \in all : a.event_time_ms <= r.event_time_ms /\ r.event_time_ms <= e.event_time_ms
                         => r \in V
      BY <2>1
    <3> HIDE DEF seq, within, V
    <3>2. V \subseteq all
      BY DEF V
    <3> QED
      BY <2>2, <3>1, <3>2, SameStretch
  <2> QED
    BY <1>1, <2>3
<1>2. t \in ResultsOf(view, b) <=> \E a, e \in V : Is(V, a, e)
  BY ResultsAreMatches
<1>3. t \in AllTrends(b, all) <=> \E a, e \in all : Is(all, a, e)
  BY AllTrendsAreMatches
<1> HIDE DEF Is, V
<1>4. V \subseteq all
  BY DEF V
<1> QED
  BY <1>1, <1>2, <1>3, <1>4

\* The view of a bucket has the rows of the bucket read so far that had not
\* expired.
LEMMA ViewIsComplete ==
  ASSUME PositionInv, AttemptInv, BufferInv, HeldInv, pc = "expired",
         NEW old \in {snapshot, buffer}, NEW view \in Views(Combined(old, current)),
         NEW b \in Buckets(current), Settled(Complete(Rows(plan)), b[2])
  PROVE  /\ InBucket(view, b) \subseteq ReadSoFar(b[2])
         /\ \A r \in ReadSoFar(b[2]) : now - within_ms[b[1]] - Lateness <= r.event_time_ms
                                       => r \in InBucket(view, b)
<1>1. /\ plan # 0 /\ Upto = plan /\ current \in Normalized(RowsOfBatch)
      /\ Complete(Rows(plan)) = Complete(Rows(offset)) \cup Complete(RowsOfBatch)
      /\ Complete(Rows(offset)) \subseteq Complete(Rows(plan))
  BY BatchIsRead DEF PositionInv, AttemptInv
<1>2. view \subseteq Combined(old, current) /\ Combined(old, current) \subseteq Queries \X Complete(Rows(plan))
  BY <1>1, ViewRows, SearchedRows
<1>3. InBucket(view, b) \subseteq ReadSoFar(b[2])
  BY <1>2 DEF InBucket, ReadSoFar, Of
<1>4. ASSUME NEW r \in ReadSoFar(b[2]), now - within_ms[b[1]] - Lateness <= r.event_time_ms
      PROVE  r \in InBucket(view, b)
  <2> DEFINE q == b[1]
  <2>1. /\ r \in Complete(Rows(plan)) /\ r.partition_key = b[2] /\ q \in Queries
        /\ b[2] \in PartitionsOf(current)
    BY DEF ReadSoFar, Of, Buckets
  <2>2. AreEvents(Rows(plan))
    BY <1>1, ReadIsArrived, RowsAreEvents DEF PositionInv
  <2>3. /\ r.event_time_ms \in Int /\ within_ms[q] \in Int /\ Lateness \in Int /\ now \in Int
    BY <2>1, <2>2, MicroAssumption DEF AreEvents, Complete, PositionInv
  <2>4. Live(q, r, now) /\ ExpiresAt(<<q, r>>) >= now
    BY <1>4, <2>3 DEF Live, ExpiresAt
  <2>5. <<q, r>> \in Combined(old, current)
    <3>1. CASE r \in Complete(RowsOfBatch)
      <4>1. r \in current
        BY <1>1, <2>1, <3>1, BatchInHand
      <4> QED
        BY <2>1, <4>1 DEF Combined, Expanded
    <3>2. CASE r \in Complete(Rows(offset))
      <4>1. Settled(Complete(Rows(Upto)), r.partition_key)
        BY <1>1, <2>1
      <4>2. <<q, r>> \in snapshot
        <5>1. Held(snapshot, Rows(offset), Rows(Upto), now)
          BY DEF HeldInv
        <5> QED
          BY <2>1, <2>4, <3>2, <4>1, <5>1 DEF Held
      <4>3. <<q, r>> \in buffer
        <5>1. Held(buffer, Rows(Upto), Rows(Upto), now)
          BY DEF HeldInv
        <5> QED
          BY <1>1, <2>1, <2>4, <4>1, <5>1 DEF Held
      <4>4. <<q, r>> \in old
        BY <4>2, <4>3
      <4> QED
        BY <2>1, <2>4, <4>4 DEF Combined
    <3> QED
      BY <1>1, <2>1, <3>1, <3>2
  <2>6. PICK y \in view : BufferKey(y) = BufferKey(<<q, r>>)
    BY <2>5, ViewRows
  <2>7. PICK p \in Queries, s \in Complete(Rows(plan)) : y = <<p, s>>
    BY <1>2, <2>6
  <2>8. p = q /\ Key(s) = Key(r)
    BY <2>6, <2>7, BufferKeys
  <2>9. s = r
    BY <2>1, <2>7, <2>8, SettledKey
  <2> QED
    BY <2>1, <2>6, <2>7, <2>8, <2>9 DEF InBucket, Of
<1> QED
  BY <1>3, <1>4

\* A search finds the trends of what was read so far and had not expired.
LEMMA SearchIsComplete ==
  ASSUME PositionInv, AttemptInv, BufferInv, HeldInv, pc = "expired",
         NEW old \in {snapshot, buffer}, NEW view \in Views(Combined(old, current)),
         NEW b \in Buckets(current), Settled(Complete(Rows(plan)), b[2]),
         NEW t, t.start >= now - within_ms[b[1]] - Lateness
  PROVE  t \in ResultsOf(view, b) <=>
           t \in TrendsOf(b, ReadSoFar(b[2]), now - within_ms[b[1]] - Lateness)
<1> DEFINE from == now - within_ms[b[1]] - Lateness
           all == ReadSoFar(b[2])
           V == InBucket(view, b)
<1>1. V \subseteq all /\ \A r \in all : from <= r.event_time_ms => r \in V
  BY ViewIsComplete
<1>2. AreEvents(all)
  <2>1. plan \in 0..Len(log)
    BY ReadIsArrived DEF PositionInv, Upto
  <2> QED
    BY <2>1, RowsAreEvents DEF PositionInv, ReadSoFar, Of, Complete, AreEvents
<1>3. from \in Int
  <2>1. b[1] \in Queries
    BY DEF Buckets
  <2>2. within_ms[b[1]] \in Int /\ Lateness \in Int /\ now \in Int
    BY <2>1, MicroAssumption DEF PositionInv
  <2> QED
    BY <2>2
<1>4. CASE t.start \in Int
  <2> HIDE DEF from, all, V
  <2>1. \A r \in all : t.start <= r.event_time_ms /\ r.event_time_ms <= t.end => r \in V
    <3>1. t.start >= from
      BY DEF from
    <3> QED
      BY <1>1, <1>2, <1>3, <1>4, <3>1 DEF AreEvents
  <2>2. t \in ResultsOf(view, b) <=> t \in AllTrends(b, all)
    BY <1>1, <1>2, <2>1, SameTrends DEF V
  <2> QED
    BY <2>2, TrendsFrom DEF from, all
<1>5. CASE t.start \notin Int
  <2>1. t \notin ResultsOf(view, b)
    BY <1>1, <1>2, <1>5, ResultsAreMatches, TrendFields DEF AreEvents
  <2>2. t \notin AllTrends(b, all)
    BY <1>2, <1>5, AllTrendsAreMatches, TrendFields DEF AreEvents
  <2> QED
    BY <2>1, <2>2, TrendsFrom
<1> QED
  BY <1>4, <1>5

\* A batch has found the trends of what was read so far that had not expired,
\* and its results go into the tables one after the other.
FoundInv ==
  /\ LiveTrendsReal
  /\ pc \in {"searched", "merged", "lettered", "measured"} =>
       \A b \in Buckets(current) \ errors :
         Settled(Complete(Rows(plan)), b[2]) =>
           TrendsOf(b, ReadSoFar(b[2]), Unexpired(b[1])) \subseteq found
  /\ pc \in {"merged", "lettered", "measured"} => Ids(found) \subseteq DOMAIN trends
  /\ pc \in {"lettered", "measured"} => \A b \in errors : <<offset, b>> \in dlq

LEMMA FoundInit == Init => FoundInv
BY DEF Init, MicroInit, FoundInv, LiveTrendsReal

\* No step takes a trend out of the table.
LEMMA TrendsStay == [Next]_vars => DOMAIN trends \subseteq DOMAIN trends'
<1> SUFFICES ASSUME [Next]_vars PROVE DOMAIN trends \subseteq DOMAIN trends'
  OBVIOUS
<1>1. CASE MergeTrends
  BY <1>1 DEF MergeTrends, WithTrends
<1>2. ASSUME NEW r \in Replays, Retract(r)
      PROVE  DOMAIN trends \subseteq DOMAIN trends'
  BY <1>2 DEF Retract
<1>3. ASSUME NEW r \in Replays, Upsert(r)
      PROVE  DOMAIN trends \subseteq DOMAIN trends'
  BY <1>3 DEF Upsert
<1>4. ASSUME NEW r \in Replays, Detect(r) \/ Recompute(r)
      PROVE  trends' = trends
  BY <1>4 DEF Detect, Recompute, microVars
<1>5. CASE UNCHANGED vars
  BY <1>5 DEF vars, microVars
<1>6. CASE Stream /\ ~MergeTrends
  <2>1. trends' = trends
    BY <1>6 DEF Stream, MicroNext, ProcessBatch, Arrive, Tick, PlanBatch, StartBatch,
     MergeBuffer, ExpireBuffer, SearchBuckets, NothingFound, MergeTrendsRefused, MergeDlq,
     MergeMetrics, Commit, Fail, Stop, attempt, tables
  <2> QED
    BY <2>1
<1> QED
  BY <1>1, <1>2, <1>3, <1>4, <1>5, <1>6 DEF Next, Replay

LEMMA FoundStep ==
  FoundInv /\ HeldInv /\ BufferInv /\ AttemptInv /\ PositionInv /\ [Next]_vars => FoundInv'
<1> SUFFICES ASSUME FoundInv, HeldInv, BufferInv, AttemptInv, PositionInv, [Next]_vars
             PROVE  FoundInv'
  OBVIOUS
<1> USE DEF FoundInv
<1>1. DOMAIN trends \subseteq DOMAIN trends'
  BY TrendsStay
<1>2. CASE found' = {} /\ pc' \in {"idle", "started", "buffered", "expired"}
  BY <1>2 DEF LiveTrendsReal
<1>3. CASE SearchBuckets
  <2>1. PICK old \in {snapshot, buffer} :
          \E view \in Views(Combined(old, current)) : \E failed \in SUBSET Buckets(current) :
            /\ errors' = failed
            /\ found' = UNION {ResultsOf(view, b) : b \in Buckets(current) \ failed}
    BY <1>3 DEF SearchBuckets
  <2>2. PICK view \in Views(Combined(old, current)) : \E failed \in SUBSET Buckets(current) :
            /\ errors' = failed
            /\ found' = UNION {ResultsOf(view, b) : b \in Buckets(current) \ failed}
    BY <2>1
  <2>3. /\ UNCHANGED <<log, plan, current>>
        /\ pc = "expired" /\ pc' = "searched" /\ searched_at' = now
    BY <1>3 DEF SearchBuckets, environment
  <2>4. /\ \A q : Unexpired(q)' = now - within_ms[q] - Lateness
        /\ \A p : ReadSoFar(p)' = ReadSoFar(p)
        /\ Complete(Rows(plan))' = Complete(Rows(plan))
    BY <2>3 DEF Unexpired, ReadSoFar, Rows, Complete
  <2>5. ASSUME NEW t \in found', t.start >= now - within_ms[t.query] - Lateness,
               Settled(Complete(Rows(plan)), t.partition)
        PROVE  t \in TrendsOf(BucketOf(t), ReadSoFar(t.partition),
                              now - within_ms[t.query] - Lateness)
    <3>1. PICK b \in Buckets(current) : t \in ResultsOf(view, b)
      BY <2>2
    <3>2. b = <<b[1], b[2]>>
      BY DEF Buckets
    <3>3. t.query = b[1] /\ t.partition = b[2] /\ BucketOf(t) = b
      BY <3>1, <3>2, ResultsAreMatches, TrendFields
    <3> QED
      BY <2>3, <2>5, <3>1, <3>3, SearchIsComplete
  <2>6. LiveTrendsReal'
    BY <2>4, <2>5 DEF LiveTrendsReal
  <2>7. ASSUME NEW b \in Buckets(current) \ errors', Settled(Complete(Rows(plan)), b[2]),
               NEW t \in TrendsOf(b, ReadSoFar(b[2]), now - within_ms[b[1]] - Lateness)
        PROVE  t \in found'
    <3>1. t.start >= now - within_ms[b[1]] - Lateness
      BY TrendsFrom
    <3>2. t \in ResultsOf(view, b)
      BY <2>3, <2>7, <3>1, SearchIsComplete
    <3> QED
      BY <2>2, <3>2
  <2>8. \A b \in Buckets(current)' \ errors' :
          Settled(Complete(Rows(plan))', b[2]) =>
            TrendsOf(b, ReadSoFar(b[2])', Unexpired(b[1])') \subseteq found'
    <3>1. Buckets(current)' = Buckets(current)
      BY <2>3 DEF Buckets
    <3> QED
      BY <2>4, <2>7, <3>1
  <2>9. \A b \in Buckets(current)' \ errors' :
          Settled(Complete(Rows(plan)), b[2])' =>
            TrendsOf(b, ReadSoFar(b[2]), Unexpired(b[1]))' \subseteq found'
    BY <2>8 DEF Settled, TrendsOf, Of, Key
  <2> QED
    BY <2>3, <2>6, <2>9
<1>4. ASSUME UNCHANGED <<log, plan, current, found, errors, searched_at>>
      PROVE  /\ LiveTrendsReal'
             /\ \A b : b \in (Buckets(current) \ errors)' /\ Settled(Complete(Rows(plan)), b[2])'
                         => /\ b \in Buckets(current) \ errors
                            /\ Settled(Complete(Rows(plan)), b[2])
             /\ \A b : TrendsOf(b, ReadSoFar(b[2]), Unexpired(b[1]))' =
                         TrendsOf(b, ReadSoFar(b[2]), Unexpired(b[1]))
             /\ Ids(found)' = Ids(found)
  <2>1. /\ \A q : Unexpired(q)' = Unexpired(q)
        /\ \A p : ReadSoFar(p)' = ReadSoFar(p)
        /\ Complete(Rows(plan))' = Complete(Rows(plan))
    BY <1>4 DEF Unexpired, ReadSoFar, Rows, Complete
  <2>2. LiveTrendsReal'
    BY <1>4, <2>1 DEF LiveTrendsReal
  <2>3. \A b : TrendsOf(b, ReadSoFar(b[2]), Unexpired(b[1]))' =
                         TrendsOf(b, ReadSoFar(b[2]), Unexpired(b[1]))
    BY <2>1 DEF TrendsOf
  <2>4. Buckets(current)' = Buckets(current) /\ Ids(found)' = Ids(found)
    BY <1>4
  <2>5. \A p : Settled(Complete(Rows(plan)), p)' = Settled(Complete(Rows(plan)), p)
    BY <2>1 DEF Settled
  <2> QED
    BY <1>4, <2>2, <2>3, <2>4, <2>5
<1>5. CASE Replay \/ Arrive \/ Tick \/ UNCHANGED vars
  BY <1>1, <1>4, <1>5, OtherSteps
<1>6. CASE PlanBatch \/ MergeBuffer \/ ExpireBuffer
  <2>1. /\ pc \in {"idle", "started", "buffered"} /\ found' = found
        /\ pc' \in {"idle", "started", "buffered", "expired"}
    BY <1>6 DEF PlanBatch, MergeBuffer, ExpireBuffer, attempt
  <2> QED
    BY <1>2, <2>1 DEF AttemptInv
<1>7. CASE StartBatch
  <2>1. /\ pc = "idle" /\ found' = found /\ errors' = errors
        /\ pc' = "started" \/ (pc' = "measured" /\ current' = {})
    BY <1>7 DEF StartBatch
  <2>2. found' = {} /\ errors' = {}
    BY <2>1 DEF AttemptInv
  <2>3. current' = {} => Buckets(current)' = {}
    BY DEF Buckets, PartitionsOf
  <2>4. LiveTrendsReal' /\ Ids(found)' = {}
    BY <2>2 DEF LiveTrendsReal, Ids
  <2> QED
    BY <2>1, <2>2, <2>3, <2>4
<1>8. CASE NothingFound \/ MergeTrendsRefused \/ Fail \/ Commit
  BY <1>2, <1>8 DEF NothingFound, MergeTrendsRefused, Fail, Stop, Commit
<1>9. CASE MergeTrends
  <2>1. /\ UNCHANGED <<log, plan, current, found, errors, searched_at>>
        /\ pc = "searched" /\ pc' = "merged" /\ Ids(found) \subseteq DOMAIN trends'
    BY <1>9 DEF MergeTrends, WithTrends, environment, attempt
  <2> QED
    BY <1>4, <2>1
<1>10. CASE MergeDlq
  <2>1. /\ UNCHANGED <<log, plan, current, found, errors, searched_at, offset>>
        /\ pc = "merged" /\ pc' = "lettered"
        /\ \A b \in errors : <<offset, b>> \in dlq'
    BY <1>10 DEF MergeDlq, environment, attempt
  <2> QED
    BY <1>1, <1>4, <2>1
<1>11. CASE MergeMetrics
  <2>1. /\ UNCHANGED <<log, plan, current, found, errors, searched_at, offset, dlq>>
        /\ pc = "lettered" /\ pc' = "measured"
    BY <1>11 DEF MergeMetrics, environment, attempt
  <2> QED
    BY <1>1, <1>4, <2>1
<1> QED
  BY <1>3, <1>5, <1>6, <1>7, <1>8, <1>9, <1>10, <1>11 DEF Next, Stream, MicroNext, ProcessBatch

-----------------------------------------------------------------------------

StreamInv == TypeInv /\ HeldInv /\ FoundInv

LEMMA StreamInvHolds == Spec => []StreamInv
<1>1. Init => StreamInv
  BY PositionInit, TableInit, ReplayTypeInit, HeldInit, FoundInit DEF StreamInv, TypeInv
<1>2. StreamInv /\ [Next]_vars => StreamInv'
  BY PositionStep, AttemptStep, BufferStep, TableStep, ReplayTypeStep, HeldStep, FoundStep
     DEF StreamInv, TypeInv
<1> QED
  BY <1>1, <1>2, PTL DEF Spec

\* What a batch finds is a trend of all that was read so far: no row of an
\* earlier batch is missing between two events of its path.
THEOREM LiveTrendsAreReal == Spec => []LiveTrendsReal
<1>1. StreamInv => LiveTrendsReal
  BY DEF StreamInv, FoundInv
<1> QED
  BY <1>1, StreamInvHolds, PTL

\* A batch is written off only when every trend of what was read so far is in
\* the trends table or its bucket in the dead letters, whatever failed.
THEOREM CommitsAreComplete == Spec => CommitsComplete
<1>1. ASSUME StreamInv, [Next]_vars, offset' # offset,
             NEW b \in Buckets(Complete(RowsOfBatch)),
             <<offset, b>> \notin dlq, Settled(Complete(Rows(plan)), b[2])
      PROVE  Ids(TrendsOf(b, ReadSoFar(b[2]), Unexpired(b[1]))) \subseteq DOMAIN trends
  <2>1. pc = "measured"
    <3>1. Commit
      BY <1>1, OtherSteps DEF Next, Stream, MicroNext, ProcessBatch, PlanBatch, StartBatch,
         MergeBuffer, ExpireBuffer, SearchBuckets, NothingFound, MergeTrends,
         MergeTrendsRefused, MergeDlq, MergeMetrics, Fail, Stop
    <3> QED
      BY <3>1 DEF Commit
  <2>2. PartitionsOf(Complete(RowsOfBatch)) \subseteq PartitionsOf(current)
    <3>1. current \in Normalized(RowsOfBatch)
      BY <1>1, <2>1 DEF StreamInv, TypeInv, AttemptInv
    <3>2. \A r \in Complete(RowsOfBatch) : \E s \in current : Key(s) = Key(r)
      BY <3>1, NormalizedRows
    <3> QED
      BY <3>2 DEF PartitionsOf, Key
  <2>3. b \in Buckets(current)
    BY <1>1, <2>2 DEF Buckets
  <2>4. b \notin errors
    BY <1>1, <2>1 DEF StreamInv, FoundInv
  <2>5. TrendsOf(b, ReadSoFar(b[2]), Unexpired(b[1])) \subseteq found
    BY <1>1, <2>1, <2>3, <2>4 DEF StreamInv, FoundInv
  <2>6. Ids(found) \subseteq DOMAIN trends
    BY <1>1, <2>1 DEF StreamInv, FoundInv
  <2> QED
    BY <2>5, <2>6 DEF Ids
<1>2. StreamInv /\ [Next]_vars =>
        [offset' # offset =>
           \A b \in Buckets(Complete(RowsOfBatch)) :
             \/ <<offset, b>> \in dlq
             \/ ~Settled(Complete(Rows(plan)), b[2])
             \/ Ids(TrendsOf(b, ReadSoFar(b[2]), Unexpired(b[1]))) \subseteq DOMAIN trends]_vars
  BY <1>1
<1> QED
  BY <1>2, StreamInvHolds, PTL DEF Spec, CommitsComplete

-----------------------------------------------------------------------------
(* What a replay finds again.                                              *)

Done == {"recomputed", "retracted", "closed"}

\* Of the trends inside a window, a replay has those the rows have; and two
\* of its trends with one id have the same times.
FoundAgain(ts, ws, rows) ==
  /\ \A w \in ws : Settled(rows, w.bucket[2]) =>
       \A t : w.start <= t.start /\ t.end <= w.end =>
         (t \in ts /\ BucketOf(t) = w.bucket <=> t \in AllTrends(w.bucket, Of(rows, w.bucket[2])))
  /\ \A t, u \in ts : Settled(rows, t.partition) /\ TrendId(t) = TrendId(u)
                        => t.start = u.start /\ t.end = u.end

RecomputedInv ==
  \A r \in Replays : stage[r] \in Done =>
    /\ FoundAgain(recomputed[r], WindowsOf(r), Rows(recomputed_at[r]))
    /\ ~disturbed[r] => recomputed_at[r] = arrived

\* The view of a bucket has the rows inside the windows of the bucket.
LEMMA ImpactedView ==
  ASSUME PositionInv, ReplayTypeInv, NEW r, NEW view \in Views(Impacted(r)),
         NEW w \in WindowsOf(r), Settled(Rows(arrived), w.bucket[2])
  PROVE  /\ InBucket(view, w.bucket) \subseteq Of(Rows(arrived), w.bucket[2])
         /\ \A row \in Of(Rows(arrived), w.bucket[2]) :
              w.start <= row.event_time_ms /\ row.event_time_ms <= w.end
                => row \in InBucket(view, w.bucket)
<1> DEFINE b == w.bucket
<1>1. view \subseteq Queries \X Rows(arrived)
  BY ImpactedRows, ViewRows
<1>2. InBucket(view, b) \subseteq Of(Rows(arrived), b[2])
  BY <1>1 DEF InBucket, Of
<1>3. ASSUME NEW row \in Of(Rows(arrived), b[2]),
             w.start <= row.event_time_ms, row.event_time_ms <= w.end
      PROVE  row \in InBucket(view, b)
  <2>1. row \in Rows(arrived) /\ row.partition_key = b[2]
    BY DEF Of
  <2>2. <<b[1], row>> \in Impacted(r)
    BY <1>3, <2>1 DEF Impacted, InWindow
  <2>3. PICK y \in view : BufferKey(y) = BufferKey(<<b[1], row>>)
    BY <2>2, ViewRows
  <2>4. PICK p \in Queries, s \in Rows(arrived) : y = <<p, s>>
    BY <1>1
  <2>5. p = b[1] /\ Key(s) = Key(row)
    BY <2>3, <2>4, BufferKeys
  <2>6. s = row
    BY <2>1, <2>4, <2>5, SettledKey
  <2> QED
    BY <2>1, <2>3, <2>4, <2>5, <2>6 DEF InBucket, Of
<1> QED
  BY <1>2, <1>3

\* In a settled partition the results of a bucket that have one path have the
\* same times.
LEMMA SamePathSameTimes ==
  ASSUME PositionInv, NEW view, view \subseteq Queries \X Rows(arrived), NEW b,
         Settled(Rows(arrived), b[2]), NEW t \in ResultsOf(view, b), NEW u \in ResultsOf(view, b),
         t.path = u.path
  PROVE  t.start = u.start /\ t.end = u.end
<1> DEFINE V == InBucket(view, b)
           seq == Pattern[b[1]]
<1>1. V \subseteq Of(Rows(arrived), b[2]) /\ IsFiniteSet(V) /\ AreEvents(V)
  BY ViewBucket DEF PositionInv
<1>2. DistinctIds(V)
  BY <1>1 DEF DistinctIds, Settled, Of, Key
<1>3. PICK a \in V, e \in V : /\ IsMatch(seq, within_ms[b[1]], V, a, e)
                              /\ t = Trend(b, Result(seq, V, a, e))
  BY ResultsAreMatches
<1>4. PICK c \in V, d \in V : /\ IsMatch(seq, within_ms[b[1]], V, c, d)
                              /\ u = Trend(b, Result(seq, V, c, d))
  BY ResultsAreMatches
<1>5. Result(seq, V, a, e).path = Result(seq, V, c, d).path
  BY <1>3, <1>4, TrendFields
<1>6. a = c /\ e = d
  <2> HIDE DEF V, seq
  <2>1. ~Precedes(e, a) /\ ~Precedes(d, c)
    BY <1>3, <1>4 DEF IsMatch
  <2> QED
    BY <1>1, <1>2, <1>5, <2>1, SamePathSameEnds
<1> QED
  BY <1>3, <1>4, <1>6, TrendFields

\* A replay that recomputes finds the trends of its windows.
LEMMA RecomputeFinds ==
  ASSUME PositionInv, ReplayTypeInv, NEW r \in Replays, Recompute(r)
  PROVE  FoundAgain(recomputed'[r], WindowsOf(r), Rows(arrived))
<1>1. PICK view \in Views(Impacted(r)) :
        recomputed'[r] =
            UNION {ResultsOf(view, b) : b \in {<<x[1], x[2].partition_key>> : x \in view}}
  BY DEF Recompute, ReplayTypeInv
<1>2. view \subseteq Queries \X Rows(arrived)
  BY ImpactedRows, ViewRows
<1>3. arrived \in 0..Len(log) /\ log \in Logs /\ AreEvents(Rows(arrived))
  BY RowsAreEvents DEF PositionInv
<1>4. \A b, t : t \in ResultsOf(view, b) => t.query = b[1] /\ t.partition = b[2]
                                            /\ BucketOf(t) = <<b[1], b[2]>>
  BY ResultsAreMatches, TrendFields
<1>5. ASSUME NEW t \in recomputed'[r]
      PROVE  t \in ResultsOf(view, BucketOf(t))
  <2>1. PICK x \in view : t \in ResultsOf(view, <<x[1], x[2].partition_key>>)
    BY <1>1
  <2>2. BucketOf(t) = <<x[1], x[2].partition_key>>
    BY <1>4, <2>1
  <2> QED
    BY <2>1, <2>2
<1>6. ASSUME NEW w \in WindowsOf(r), Settled(Rows(arrived), w.bucket[2]),
             NEW t, w.start <= t.start, t.end <= w.end
      PROVE  t \in recomputed'[r] /\ BucketOf(t) = w.bucket
               <=> t \in AllTrends(w.bucket, Of(Rows(arrived), w.bucket[2]))
  <2> DEFINE b == w.bucket
             all == Of(Rows(arrived), b[2])
             V == InBucket(view, b)
  <2>1. /\ b \in Queries \X STRING /\ w.start \in Int /\ w.end \in Int
    BY DEF WindowsOf, ReplayTypeInv
  <2>2. /\ V \subseteq all /\ AreEvents(all)
        /\ \A row \in all : w.start <= row.event_time_ms /\ row.event_time_ms <= w.end
                            => row \in V
    BY <1>3, <1>6, ImpactedView DEF Of, AreEvents
  <2>3. t \in ResultsOf(view, b) <=> t \in AllTrends(b, all)
    <3>1. CASE t.start \in Int /\ t.end \in Int
      <4>1. \A row \in all : t.start <= row.event_time_ms /\ row.event_time_ms <= t.end
                             => row \in V
        <5> HIDE DEF all, V
        <5> QED
          BY <1>6, <2>1, <2>2, <3>1 DEF AreEvents
      <4> QED
        BY <2>2, <4>1, SameTrends
    <3>2. CASE ~(t.start \in Int /\ t.end \in Int)
      <4>1. t \notin ResultsOf(view, b)
        BY <2>2, <3>2, ResultsAreMatches, TrendFields DEF AreEvents
      <4>2. t \notin AllTrends(b, all)
        BY <2>2, <3>2, AllTrendsAreMatches, TrendFields DEF AreEvents
      <4> QED
        BY <4>1, <4>2
    <3> QED
      BY <3>1, <3>2
  <2>4. ASSUME t \in ResultsOf(view, b)
        PROVE  t \in recomputed'[r] /\ BucketOf(t) = b
    <3>1. PICK a \in V : TRUE
      BY <2>4, ResultsAreMatches
    <3>2. PICK x \in view : x[1] = b[1] /\ x[2].partition_key = b[2]
      BY <3>1 DEF InBucket, Of
    <3>3. b = <<x[1], x[2].partition_key>>
      BY <2>1, <3>2
    <3>4. BucketOf(t) = b
      BY <1>4, <2>1, <2>4
    <3> QED
      BY <1>1, <2>4, <3>3, <3>4
  <2> QED
    BY <1>5, <2>3, <2>4
<1>7. ASSUME NEW t \in recomputed'[r], NEW u \in recomputed'[r],
             Settled(Rows(arrived), t.partition), TrendId(t) = TrendId(u)
      PROVE  t.start = u.start /\ t.end = u.end
  <2>1. BucketOf(t) = BucketOf(u) /\ t.path = u.path /\ BucketOf(t)[2] = t.partition
    BY <1>7 DEF TrendId, BucketOf
  <2>2. t \in ResultsOf(view, BucketOf(t)) /\ u \in ResultsOf(view, BucketOf(t))
    BY <1>5, <2>1
  <2> QED
    BY <1>2, <1>7, <2>1, <2>2, SamePathSameTimes
<1> QED
  BY <1>6, <1>7 DEF FoundAgain

\* What recomputing leaves is kept until the replay recomputes again.
LEMMA ReplaySteps ==
  ASSUME ReplayTypeInv, PositionInv, [Next]_vars, NEW r \in Replays
  PROVE  /\ \/ stage'[r] = stage[r]
            \/ stage[r] \notin {"retracted", "closed"} /\ stage'[r] = "detected"
            \/ stage'[r] = "recomputed" /\ Recompute(r)
            \/ stage'[r] = "retracted" /\ Retract(r)
            \/ stage'[r] = "closed" /\ Upsert(r)
         /\ stage[r] \in Done /\ ~Recompute(r)
              => /\ recomputed'[r] = recomputed[r] /\ recomputed_at'[r] = recomputed_at[r]
                 /\ WindowsOf(r)' = WindowsOf(r)
         /\ \/ disturbed'[r]
            \/ Recompute(r)
            \/ /\ disturbed'[r] = disturbed[r] /\ arrived' = arrived
               /\ Retract(r) \/ Upsert(r) \/ trends' = trends
<1> DEFINE Kept == recomputed'[r] = recomputed[r] /\ recomputed_at'[r] = recomputed_at[r]
<1> USE DEF ReplayTypeInv
<1>1. ASSUME NEW s \in Replays, Detect(s)
      PROVE  /\ stage'[r] = IF s = r THEN "detected" ELSE stage[r]
             /\ s = r => stage[r] \in {"new", "detected"}
             /\ s # r => WindowsOf(r)' = WindowsOf(r)
             /\ Kept /\ disturbed'[r] = disturbed[r] /\ arrived' = arrived /\ trends' = trends
  <2>1. /\ stage[s] \in {"new", "detected"} /\ stage' = [stage EXCEPT ![s] = "detected"]
        /\ UNCHANGED <<arrived, trends, recomputed, recomputed_at, disturbed>>
        /\ windows' = windows \cup {WindowOf(s, b) : b \in Buckets(Changed(s))}
    BY <1>1 DEF Detect, microVars, environment
  <2>2. \A b : WindowOf(s, b).replay = s
    BY DEF WindowOf
  <2>3. \A w \in windows' : w \in windows \/ w.replay = s
    BY <2>1, <2>2
  <2>4. \A w \in windows : w \in windows'
    BY <2>1
  <2> QED
    BY <2>1, <2>3, <2>4 DEF WindowsOf
<1>2. ASSUME NEW s \in Replays, Recompute(s), s # r
      PROVE  /\ stage'[r] = stage[r] /\ Kept /\ WindowsOf(r)' = WindowsOf(r)
             /\ disturbed'[r] = disturbed[r] /\ arrived' = arrived /\ trends' = trends
  <2>1. /\ UNCHANGED <<windows, arrived, trends>>
        /\ stage' = [stage EXCEPT ![s] = "recomputed"]
        /\ recomputed_at' = [recomputed_at EXCEPT ![s] = arrived]
        /\ disturbed' = [disturbed EXCEPT ![s] = FALSE]
    BY <1>2 DEF Recompute, microVars, environment
  <2>2. recomputed'[r] = recomputed[r]
    BY <1>2 DEF Recompute
  <2> QED
    BY <1>2, <2>1, <2>2 DEF WindowsOf
<1>3. ASSUME NEW s \in Replays, Retract(s) \/ Upsert(s)
      PROVE  /\ Kept /\ WindowsOf(r)' = WindowsOf(r) /\ arrived' = arrived
             /\ s # r => disturbed'[r] /\ stage'[r] = stage[r]
             /\ s = r => disturbed'[r] = disturbed[r]
             /\ s = r /\ Retract(s) => stage'[r] = "retracted"
             /\ s = r /\ Upsert(s) => stage'[r] = "closed"
  <2>1. /\ UNCHANGED <<windows, arrived, recomputed, recomputed_at>>
        /\ disturbed' = [q \in Replays |-> disturbed[q] \/ q # s]
        /\ Retract(s) => stage' = [stage EXCEPT ![s] = "retracted"]
        /\ Upsert(s) => stage' = [stage EXCEPT ![s] = "closed"]
    BY <1>3 DEF Retract, Upsert, DisturbOthers, environment
  <2>2. disturbed'[r] = (disturbed[r] \/ r # s)
    BY <2>1
  <2> QED
    BY <1>3, <2>1, <2>2 DEF WindowsOf
<1>4. Recompute(r) => stage'[r] = "recomputed"
  BY DEF Recompute
<1> HIDE DEF ReplayTypeInv
<1>5. CASE Stream \/ UNCHANGED vars
  <2>1. /\ stage'[r] = stage[r] /\ Kept /\ WindowsOf(r)' = WindowsOf(r)
        /\ \/ disturbed'[r]
           \/ disturbed'[r] = disturbed[r] /\ arrived' = arrived /\ trends' = trends
    <3>1. CASE Stream
      <4>1. UNCHANGED <<stage, windows, recomputed, recomputed_at>>
        BY <3>1 DEF Stream
      <4>2. disturbed'[r] \/ (disturbed'[r] = disturbed[r] /\ arrived' = arrived /\ trends' = trends)
        BY <3>1 DEF Stream, ReplayTypeInv
      <4> QED
        BY <4>1, <4>2 DEF WindowsOf
    <3>2. CASE UNCHANGED vars
      BY <3>2 DEF vars, replayVars, microVars, environment, WindowsOf
    <3> QED
      BY <1>5, <3>1, <3>2
  <2> QED
    BY <2>1
<1>6. CASE \E s \in Replays : Detect(s)
  <2>1. PICK s \in Replays : Detect(s)
    BY <1>6
  <2> QED
    BY <1>1, <2>1 DEF Done
<1>7. CASE \E s \in Replays : Recompute(s)
  BY <1>2, <1>4, <1>7
<1>8. CASE \E s \in Replays : Retract(s) \/ Upsert(s)
  BY <1>3, <1>8
<1> QED
  BY <1>5, <1>6, <1>7, <1>8 DEF Next, Replay

LEMMA RecomputedStep ==
  RecomputedInv /\ ReplayTypeInv /\ PositionInv /\ [Next]_vars => RecomputedInv'
<1> SUFFICES ASSUME RecomputedInv, ReplayTypeInv, PositionInv, [Next]_vars
             PROVE  RecomputedInv'
  OBVIOUS
<1> SUFFICES ASSUME NEW r \in Replays, stage'[r] \in Done
             PROVE  /\ FoundAgain(recomputed'[r], WindowsOf(r)', Rows(recomputed_at'[r]))
                    /\ ~disturbed'[r] => recomputed_at'[r] = arrived'
  <2>1. log' = log
    BY TableGrows
  <2>2. \A r \in Replays : Rows(recomputed_at[r])' = Rows(recomputed_at'[r])
    BY <2>1 DEF Rows
  <2> QED
    BY <2>2 DEF RecomputedInv
<1>1. CASE Recompute(r)
  <2>1. WindowsOf(r)' = WindowsOf(r) /\ arrived' = arrived /\ recomputed_at'[r] = arrived
    BY <1>1 DEF Recompute, WindowsOf, microVars, environment, ReplayTypeInv
  <2> QED
    BY <1>1, <2>1, RecomputeFinds
<1>2. CASE ~Recompute(r)
  <2>1. stage[r] \in Done
    <3>1. Retract(r) \/ Upsert(r) => stage[r] \in Done
      BY DEF Retract, Upsert, Done
    <3> QED
      BY <1>2, <3>1, ReplaySteps DEF Done
  <2>2. /\ recomputed'[r] = recomputed[r] /\ recomputed_at'[r] = recomputed_at[r]
        /\ WindowsOf(r)' = WindowsOf(r)
    BY <1>2, <2>1, ReplaySteps
  <2>3. ~disturbed'[r] => ~disturbed[r] /\ arrived' = arrived
    BY <1>2, ReplaySteps
  <2> QED
    BY <2>1, <2>2, <2>3 DEF RecomputedInv
<1> QED
  BY <1>1, <1>2

-----------------------------------------------------------------------------
(* What a replay withdraws.                                                *)

\* A retracted trend is not one of those its replay found again.
RetractedInv ==
  \A id \in DOMAIN trends : trends[id].status = "retracted" =>
    /\ trends[id].replay_id \in Replays
    /\ stage[trends[id].replay_id] \in {"retracted", "closed"}
    /\ id \notin Ids(recomputed[trends[id].replay_id])

\* Retracting is the only way to be retracted.
LEMMA RetractedBy ==
  ASSUME TableInv, [Next]_vars, NEW id \in DOMAIN trends', trends'[id].status = "retracted"
  PROVE  \/ id \in DOMAIN trends /\ trends'[id] = trends[id]
         \/ \E r \in Replays : Retract(r) /\ id \in Stale(r) /\ trends'[id].replay_id = r
<1>1. CASE trends' = trends
  BY <1>1
<1>2. CASE MergeTrends
  <2>1. trends' = WithTrends(found)
    BY <1>2 DEF MergeTrends
  <2>2. CASE id \notin Ids(found)
    BY <2>1, <2>2 DEF WithTrends
  <2>3. CASE id \in Ids(found) /\ id \in DOMAIN trends
    <3>1. trends'[id] = [trends[id] EXCEPT !.status = "active", !.replay_id = None]
      BY <2>1, <2>3 DEF WithTrends
    <3> QED
      BY <3>1
  <2>4. CASE id \in Ids(found) /\ id \notin DOMAIN trends
    <3>1. trends'[id] = Inserted(RowOf(found, id), None)
      BY <2>1, <2>4 DEF WithTrends
    <3> QED
      BY <3>1 DEF Inserted
  <2> QED
    BY <2>2, <2>3, <2>4
<1>3. ASSUME NEW r \in Replays, Retract(r)
      PROVE  \/ id \in DOMAIN trends /\ trends'[id] = trends[id]
             \/ id \in Stale(r) /\ trends'[id].replay_id = r
  <2>1. trends' = [i \in DOMAIN trends |->
                     IF i \in Stale(r)
                       THEN [trends[i] EXCEPT !.status = "retracted", !.replay_id = r]
                       ELSE trends[i]]
    BY <1>3 DEF Retract
  <2>2. CASE id \notin Stale(r)
    BY <2>1, <2>2
  <2>3. CASE id \in Stale(r)
    <3>1. /\ id \in DOMAIN trends
          /\ trends'[id] = [trends[id] EXCEPT !.status = "retracted", !.replay_id = r]
      BY <2>1, <2>3
    <3>2. RowOK(id, trends[id])
      BY <3>1 DEF TableInv
    <3> QED
      BY <2>3, <3>1, <3>2 DEF RowOK
  <2> QED
    BY <2>2, <2>3
<1>4. ASSUME NEW r \in Replays, Upsert(r)
      PROVE  id \in DOMAIN trends /\ trends'[id] = trends[id]
  <2> DEFINE R == recomputed[r]
  <2>1. trends' = [i \in DOMAIN trends \cup Ids(R) |->
                     IF i \notin Ids(R) THEN trends[i]
                     ELSE IF i \in DOMAIN trends
                       THEN [Inserted(RowOf(R, i), r) EXCEPT !.copies = trends[i].copies]
                       ELSE Inserted(RowOf(R, i), r)]
    BY <1>4 DEF Upsert
  <2>2. CASE id \in Ids(R)
    <3>1. \/ trends'[id] = [Inserted(RowOf(R, id), r) EXCEPT !.copies = trends[id].copies]
          \/ trends'[id] = Inserted(RowOf(R, id), r)
      BY <2>1, <2>2
    <3> QED
      BY <3>1 DEF Inserted
  <2> QED
    BY <2>1, <2>2
<1>5. CASE UNCHANGED vars
  BY <1>1, <1>5 DEF vars, microVars
<1>6. CASE Stream /\ ~MergeTrends
  <2>1. trends' = trends
    BY <1>6 DEF Stream, MicroNext, ProcessBatch, Arrive, Tick, PlanBatch, StartBatch,
     MergeBuffer, ExpireBuffer, SearchBuckets, NothingFound, MergeTrendsRefused, MergeDlq,
     MergeMetrics, Commit, Fail, Stop, attempt, tables
  <2> QED
    BY <1>1, <2>1
<1>7. ASSUME NEW r \in Replays, Detect(r) \/ Recompute(r)
      PROVE  trends' = trends
  BY <1>7 DEF Detect, Recompute, microVars
<1> QED
  BY <1>1, <1>2, <1>3, <1>4, <1>5, <1>6, <1>7 DEF Next, Replay

LEMMA RetractedStep ==
  RetractedInv /\ TableInv /\ ReplayTypeInv /\ PositionInv /\ [Next]_vars => RetractedInv'
<1> SUFFICES ASSUME RetractedInv, TableInv, ReplayTypeInv, PositionInv, [Next]_vars,
                    NEW id \in DOMAIN trends', trends'[id].status = "retracted"
             PROVE  /\ trends'[id].replay_id \in Replays
                    /\ stage'[trends'[id].replay_id] \in {"retracted", "closed"}
                    /\ id \notin Ids(recomputed'[trends'[id].replay_id])
  BY DEF RetractedInv, Ids
<1>1. CASE id \in DOMAIN trends /\ trends'[id] = trends[id]
  <2> DEFINE r == trends[id].replay_id
  <2>1. r \in Replays /\ stage[r] \in {"retracted", "closed"} /\ id \notin Ids(recomputed[r])
    BY <1>1 DEF RetractedInv
  <2>2. ~Recompute(r)
    BY <2>1 DEF Recompute
  <2> HIDE DEF r
  <2>3. stage'[r] \in {"retracted", "closed"} /\ recomputed'[r] = recomputed[r]
    BY <2>1, <2>2, ReplaySteps DEF Done
  <2> QED
    BY <1>1, <2>1, <2>3 DEF r
<1>2. ASSUME NEW r \in Replays, Retract(r), id \in Stale(r), trends'[id].replay_id = r
      PROVE  stage'[r] \in {"retracted", "closed"} /\ id \notin Ids(recomputed'[r])
  BY <1>2 DEF Retract, Stale, ReplayTypeInv
<1> QED
  BY <1>1, <1>2, RetractedBy

-----------------------------------------------------------------------------
(* What a replay leaves in the trends table.                               *)

\* No active trend overlaps a window but those found again.
NoneLeft(table, ids, ws) ==
  \A id \in DOMAIN table \ ids :
    ~ /\ table[id].status = "active"
      /\ \E w \in ws : /\ w.bucket = <<id[1], id[2]>>
                       /\ table[id].end >= w.start /\ table[id].start <= w.end

\* The trends found again are active, with the times they were found with.
Merged(table, ts) ==
  \A id \in Ids(ts) :
    /\ id \in DOMAIN table /\ table[id].status = "active"
    /\ table[id].start = RowOf(ts, id).start /\ table[id].end = RowOf(ts, id).end

ClosedInv ==
  \A r \in Replays : stage[r] \in {"retracted", "closed"} /\ ~disturbed[r] =>
    /\ NoneLeft(trends, Ids(recomputed[r]), WindowsOf(r))
    /\ stage[r] = "closed" => Merged(trends, recomputed[r])

LEMMA ClosedStep ==
  ClosedInv /\ TableInv /\ ReplayTypeInv /\ PositionInv /\ [Next]_vars => ClosedInv'
<1> SUFFICES ASSUME ClosedInv, TableInv, ReplayTypeInv, PositionInv, [Next]_vars,
                    NEW r \in Replays, stage'[r] \in {"retracted", "closed"}, ~disturbed'[r]
             PROVE  /\ NoneLeft(trends', Ids(recomputed'[r]), WindowsOf(r)')
                    /\ stage'[r] = "closed" => Merged(trends', recomputed'[r])
  BY DEF ClosedInv, NoneLeft, Merged, Ids, RowOf, TrendId
<1>1. ~Recompute(r)
  BY DEF Recompute, ReplayTypeInv
<1>2. stage[r] \in Done
  <2>1. Retract(r) \/ Upsert(r) => stage[r] \in Done
    BY DEF Retract, Upsert, Done
  <2> QED
    BY <1>1, <2>1, ReplaySteps DEF Done
<1>3. recomputed'[r] = recomputed[r] /\ WindowsOf(r)' = WindowsOf(r) /\ ~disturbed[r]
  BY <1>1, <1>2, ReplaySteps
<1>4. CASE Retract(r)
  <2>1. stage'[r] = "retracted"
    BY <1>4 DEF Retract, ReplayTypeInv
  <2>2. trends' = [id \in DOMAIN trends |->
                     IF id \in Stale(r)
                       THEN [trends[id] EXCEPT !.status = "retracted", !.replay_id = r]
                       ELSE trends[id]]
    BY <1>4 DEF Retract
  <2>3. ASSUME NEW id \in DOMAIN trends' \ Ids(recomputed[r]), trends'[id].status = "active",
               NEW w \in WindowsOf(r), w.bucket = <<id[1], id[2]>>,
               trends'[id].end >= w.start, trends'[id].start <= w.end
        PROVE  FALSE
    <3>1. id \in DOMAIN trends \ Ids(recomputed[r])
      BY <2>2
    <3>2. CASE id \in Stale(r)
      <4>1. trends'[id] = [trends[id] EXCEPT !.status = "retracted", !.replay_id = r]
        BY <2>2, <3>1, <3>2
      <4>2. RowOK(id, trends[id])
        BY <3>1 DEF TableInv
      <4> QED
        BY <2>3, <4>1, <4>2 DEF RowOK
    <3>3. CASE id \notin Stale(r)
      <4>1. trends'[id] = trends[id]
        BY <2>2, <3>1, <3>3
      <4> QED
        BY <2>3, <3>1, <3>3, <4>1 DEF Stale
    <3> QED
      BY <3>2, <3>3
  <2> QED
    BY <1>3, <2>1, <2>3 DEF NoneLeft
<1>5. CASE Upsert(r)
  <2> DEFINE R == recomputed[r]
  <2>1. /\ stage[r] = "retracted"
        /\ trends' = [id \in DOMAIN trends \cup Ids(R) |->
                        IF id \notin Ids(R) THEN trends[id]
                        ELSE IF id \in DOMAIN trends
                          THEN [Inserted(RowOf(R, id), r) EXCEPT !.copies = trends[id].copies]
                          ELSE Inserted(RowOf(R, id), r)]
    BY <1>5 DEF Upsert
  <2>2. NoneLeft(trends, Ids(R), WindowsOf(r))
    BY <1>3, <2>1 DEF ClosedInv
  <2>3. \A id \in DOMAIN trends' \ Ids(R) : id \in DOMAIN trends /\ trends'[id] = trends[id]
    BY <2>1
  <2>4. NoneLeft(trends', Ids(R), WindowsOf(r))
    BY <2>2, <2>3 DEF NoneLeft
  <2>5. ASSUME NEW id \in Ids(R)
        PROVE  /\ id \in DOMAIN trends' /\ trends'[id].status = "active"
               /\ trends'[id].start = RowOf(R, id).start /\ trends'[id].end = RowOf(R, id).end
    <3> DEFINE t == RowOf(R, id)
               i == Inserted(t, r)
    <3>1. \/ trends'[id] = i
          \/ trends'[id] = [i EXCEPT !.copies = trends[id].copies]
      BY <2>1
    <3>2. id \in DOMAIN trends'
      BY <2>1
    <3> HIDE DEF t
    <3>3. /\ i = [copies |-> i.copies, status |-> "active", start |-> t.start, end |-> t.end,
                  replay_id |-> r]
      BY DEF Inserted
    <3> HIDE DEF i
    <3>4. trends'[id].status = "active" /\ trends'[id].start = t.start /\ trends'[id].end = t.end
      BY <3>1, <3>3
    <3> QED
      BY <3>2, <3>4 DEF t
  <2> QED
    BY <1>3, <2>4, <2>5 DEF Merged
<1>6. CASE ~Retract(r) /\ ~Upsert(r)
  <2>1. trends' = trends
    BY <1>1, <1>6, ReplaySteps
  <2>2. stage[r] = stage'[r]
    BY <1>1, <1>6, ReplaySteps
  <2> QED
    BY <1>3, <2>1, <2>2 DEF ClosedInv
<1> QED
  BY <1>4, <1>5, <1>6

-----------------------------------------------------------------------------

RepairInv == TypeInv /\ RecomputedInv /\ RetractedInv /\ ClosedInv

LEMMA RepairInvHolds == Spec => []RepairInv
<1>1. Init => RecomputedInv /\ RetractedInv /\ ClosedInv
  BY DEF Init, MicroInit, ReplayInit, RecomputedInv, RetractedInv, ClosedInv, Done
<1>2. Init => RepairInv
  BY <1>1, PositionInit, TableInit, ReplayTypeInit DEF RepairInv, TypeInv
<1>3. RepairInv /\ [Next]_vars => RepairInv'
  BY PositionStep, AttemptStep, BufferStep, TableStep, ReplayTypeStep, RecomputedStep,
     RetractedStep, ClosedStep DEF RepairInv, TypeInv
<1> QED
  BY <1>2, <1>3, PTL DEF Spec

\* The trends inside a window are trends of its bucket.
LEMMA TrendsInsideWindow ==
  ASSUME NEW w, NEW n, NEW t
  PROVE  t \in TrendsInside(w, n) <=>
           /\ t \in AllTrends(w.bucket, Of(Rows(n), w.bucket[2]))
           /\ w.start <= t.start /\ t.end <= w.end
<1>1. t \in TrendsInside(w, n) <=>
        t \in TrendsOf(w.bucket, Of(Rows(n), w.bucket[2]), w.start) /\ t.end <= w.end
  BY DEF TrendsInside
<1>2. t.start >= w.start <=> w.start <= t.start
  OBVIOUS
<1> QED
  BY <1>1, <1>2, TrendsFrom

\* A trend a replay retracted is not one that the event table, as the replay
\* read it, has inside the window.
THEOREM RetractionsAreJustified == Spec => []RetractionsJustified
<1>1. RepairInv => RetractionsJustified
  <2> SUFFICES ASSUME RepairInv, NEW id \in DOMAIN trends, NEW w \in windows,
                      trends[id].status = "retracted", trends[id].replay_id = w.replay,
                      Settled(Rows(recomputed_at[w.replay]), w.bucket[2])
               PROVE  id \notin Ids(TrendsInside(w, recomputed_at[w.replay]))
    BY DEF RetractionsJustified
  <2> DEFINE r == w.replay
             rows == Rows(recomputed_at[r])
  <2>1. r \in Replays /\ w \in WindowsOf(r)
    BY DEF RepairInv, TypeInv, ReplayTypeInv, WindowsOf
  <2>2. stage[r] \in Done /\ id \notin Ids(recomputed[r])
    BY DEF RepairInv, RetractedInv, Done
  <2>3. FoundAgain(recomputed[r], WindowsOf(r), rows)
    BY <2>1, <2>2 DEF RepairInv, RecomputedInv
  <2>4. ASSUME NEW t \in TrendsInside(w, recomputed_at[r])
        PROVE  t \in recomputed[r]
    BY <2>1, <2>3, TrendsInsideWindow DEF FoundAgain
  <2> QED
    BY <2>2, <2>4 DEF Ids
<1> QED
  BY <1>1, RepairInvHolds, PTL

\* Once a replay is closed and nothing was written since by others, the active
\* trends inside a window are exactly those of the event table.
THEOREM ReplaysAreExact == Spec => []ReplayExact
<1>1. RepairInv => ReplayExact
  <2> SUFFICES ASSUME RepairInv, NEW w \in windows, stage[w.replay] = "closed",
                      ~disturbed[w.replay], Settled(Rows(arrived), w.bucket[2])
               PROVE  {id \in DOMAIN trends :
                         /\ <<id[1], id[2]>> = w.bucket
                         /\ trends[id].status = "active" /\ Inside(trends[id], w)}
                      = Ids(TrendsInside(w, arrived))
    BY DEF ReplayExact
  <2> DEFINE r == w.replay
             R == recomputed[r]
  <2>1. r \in Replays /\ w \in WindowsOf(r) /\ w.start \in Int /\ w.end \in Int
    BY DEF RepairInv, TypeInv, ReplayTypeInv, WindowsOf
  <2>2. /\ FoundAgain(R, WindowsOf(r), Rows(arrived))
        /\ NoneLeft(trends, Ids(R), WindowsOf(r)) /\ Merged(trends, R)
    BY <2>1 DEF RepairInv, RecomputedInv, ClosedInv, Done
  <2>3. \A t : w.start <= t.start /\ t.end <= w.end =>
          (t \in R /\ BucketOf(t) = w.bucket
             <=> t \in AllTrends(w.bucket, Of(Rows(arrived), w.bucket[2])))
    BY <2>1, <2>2 DEF FoundAgain
  <2>4. ASSUME NEW id \in DOMAIN trends, <<id[1], id[2]>> = w.bucket,
               trends[id].status = "active", Inside(trends[id], w)
        PROVE  id \in Ids(TrendsInside(w, arrived))
    <3> DEFINE t == RowOf(R, id)
    <3>1. /\ trends[id].start \in Int /\ trends[id].end \in Int
          /\ trends[id].start <= trends[id].end
      BY DEF RepairInv, TypeInv, TableInv, RowOK
    <3>2. trends[id].end >= w.start /\ trends[id].start <= w.end
      BY <2>1, <2>4, <3>1 DEF Inside
    <3>3. id \in Ids(R)
      BY <2>1, <2>2, <2>4, <3>2 DEF NoneLeft
    <3>4. t \in R /\ TrendId(t) = id
      BY <3>3, RowOfId
    <3>5. t.start = trends[id].start /\ t.end = trends[id].end
      BY <2>2, <3>3 DEF Merged
    <3> HIDE DEF t
    <3>6. BucketOf(t) = w.bucket
      BY <2>4, <3>4 DEF TrendId, BucketOf
    <3>7. w.start <= t.start /\ t.end <= w.end
      BY <2>4, <3>5 DEF Inside
    <3>8. t \in TrendsInside(w, arrived)
      BY <2>3, <3>4, <3>6, <3>7, TrendsInsideWindow
    <3> QED
      BY <3>4, <3>8 DEF Ids
  <2>5. ASSUME NEW t \in TrendsInside(w, arrived)
        PROVE  /\ TrendId(t) \in DOMAIN trends
               /\ <<TrendId(t)[1], TrendId(t)[2]>> = w.bucket
               /\ trends[TrendId(t)].status = "active" /\ Inside(trends[TrendId(t)], w)
    <3> DEFINE id == TrendId(t)
               u == RowOf(R, id)
    <3>1. w.start <= t.start /\ t.end <= w.end /\ t \in R /\ BucketOf(t) = w.bucket
      BY <2>3, TrendsInsideWindow
    <3>2. id \in Ids(R) /\ t.partition = w.bucket[2] /\ <<id[1], id[2]>> = w.bucket
      BY <3>1 DEF Ids, TrendId, BucketOf
    <3>3. u \in R /\ TrendId(u) = id
      BY <3>2, RowOfId
    <3>4. /\ id \in DOMAIN trends /\ trends[id].status = "active"
          /\ trends[id].start = u.start /\ trends[id].end = u.end
      BY <2>2, <3>2 DEF Merged
    <3>5. t.start = u.start /\ t.end = u.end
      <4> HIDE DEF u
      <4> QED
        BY <2>2, <3>1, <3>2, <3>3 DEF FoundAgain
    <3> HIDE DEF u
    <3> QED
      BY <3>1, <3>2, <3>4, <3>5 DEF Inside
  <2> QED
    BY <2>4, <2>5 DEF Ids
<1> QED
  BY <1>1, RepairInvHolds, PTL
=============================================================================
