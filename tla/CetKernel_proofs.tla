-------------------------- MODULE CetKernel_proofs --------------------------
(***************************************************************************)
(* Proofs about CetKernel: whatever the graph, the query, the engine and   *)
(* the capacities, the arrays are never overrun, every path emitted is     *)
(* sound, and a call without overflow emits every path as often as it can  *)
(* be walked and read.                                                     *)
(***************************************************************************)
EXTENDS CetKernel, SequenceTheorems, FiniteSetTheorems, TLAPS

----------------------------------------------------------------------------
(* What holds of every path the search keeps, n steps matched, and of      *)
(* every state it keeps.                                                   *)

SoundPath(path, n) ==
  /\ Len(path) \in 1..MaxPathLen
  /\ StartsInRange(path)
  /\ Causal(path)
  /\ Covers(path, n)
  /\ n = Len(call.seq) => Type(Last(path)) = call.seq[n].name

SoundPaths(n) == {path \in Seq(Vertices) : SoundPath(path, n)}

SoundStates ==
  {s \in SearchState : SoundPath(s.path, s.idx) /\ s.start_ts = Time(s.path[1])}

\* The states of the breadth-first search are at most at the end of the prefix.
QueueStates == {s \in SoundStates : s.idx <= PrefixLen}

\* The calls of dfs() under way: once begun, of the edges of the last event,
\* with room for another.
Frames ==
  {f \in [state : SoundStates, begun : BOOLEAN, left : SUBSET DOMAIN call.graph.edges] :
     f.begun => /\ f.left \subseteq OutEdges(Last(f.state.path))
                /\ f.state.idx < Len(call.seq)
                /\ Len(f.state.path) < MaxPathLen}

\* Nothing of this depends on anything but the call.
LEMMA CallKept ==
  ASSUME call' = call
  PROVE  /\ IsCall(call)' <=> IsCall(call)
         /\ StartPositions' = StartPositions
         /\ Vertices' = Vertices
         /\ PrefixLen' = PrefixLen /\ Hybrid' = Hybrid
         /\ \A v : OutEdges(v)' = OutEdges(v)
<1>1. StartPositions' = StartPositions  BY DEF StartPositions, Type
<1>2. PrefixLen' = PrefixLen /\ Hybrid' = Hybrid  BY DEF PrefixLen, Hybrid
<1>3. \A v : OutEdges(v)' = OutEdges(v) BY DEF OutEdges
<1>4. IsCall(call)' <=> IsCall(call)  OBVIOUS
<1>5. Vertices' = Vertices  BY DEF Vertices
<1> QED  BY <1>1, <1>2, <1>3, <1>4, <1>5

\* Whether a path is sound depends on the call only.
LEMMA SoundPathKept ==
  ASSUME call' = call, NEW path, NEW n
  PROVE  SoundPath(path, n)' <=> SoundPath(path, n)
<1>1. StartsInRange(path)' <=> StartsInRange(path)
  BY DEF StartsInRange, StartPositions, Type
<1>2. Causal(path)' <=> Causal(path)
  BY DEF Causal, Time, OutEdges
<1>3. Covers(path, n)' <=> Covers(path, n)
  BY DEF Covers, Type
<1>4. Type(Last(path))' = Type(Last(path))
  BY DEF Type, Last
<1> QED  BY <1>1, <1>2, <1>3, <1>4 DEF SoundPath

\* What is sound stays the same set during a call.
LEMMA SetsKept ==
  ASSUME call' = call
  PROVE  /\ \A n : SoundPaths(n)' = SoundPaths(n)
         /\ SearchState' = SearchState
         /\ SoundStates' = SoundStates
         /\ QueueStates' = QueueStates
         /\ Frames' = Frames
<1>1. Vertices' = Vertices /\ PrefixLen' = PrefixLen /\ \A v : OutEdges(v)' = OutEdges(v)
  BY CallKept
<1>2. \A path, n : SoundPath(path, n)' <=> SoundPath(path, n)
  BY SoundPathKept
<1>3. \A n : SoundPaths(n)' = SoundPaths(n)
  BY <1>1, <1>2 DEF SoundPaths
<1>4. SearchState' = SearchState
  BY <1>1 DEF SearchState
<1>5. SoundStates' = SoundStates
  BY <1>2, <1>4 DEF SoundStates, Time
<1>6. QueueStates' = QueueStates
  BY <1>1, <1>5 DEF QueueStates
<1>7. Frames' = Frames
  BY <1>1, <1>5 DEF Frames, Last
<1> QED  BY <1>3, <1>4, <1>5, <1>6, <1>7

----------------------------------------------------------------------------
(* Arrays.                                                                 *)

\* An array filled up keeps its entries and never exceeds its capacity.
LEMMA FillKeeps ==
  ASSUME NEW S, NEW array \in Seq(S), NEW new \in Seq(S), Len(array) <= MaxPaths
  PROVE  /\ Fill(array, new) \in Seq(S)
         /\ Len(Fill(array, new)) <= MaxPaths
         /\ Len(array) <= Len(Fill(array, new))
         /\ \A k \in 1..Len(array) : Fill(array, new)[k] = array[k]
<1>1. Len(array) \in Nat /\ Len(new) \in Nat /\ MaxPaths \in Nat
  BY LenProperties, KernelAssumption
<1>2. CASE Len(array) + Len(new) <= MaxPaths
  BY <1>1, <1>2, ConcatProperties DEF Fill
<1>3. CASE ~(Len(array) + Len(new) <= MaxPaths)
  <2> DEFINE part == SubSeq(new, 1, MaxPaths - Len(array))
  <2>1. MaxPaths - Len(array) \in Nat /\ MaxPaths - Len(array) <= Len(new)
    BY <1>1, <1>3
  <2>2. \A i \in 1..MaxPaths - Len(array) : new[i] \in S
    BY <1>1, <2>1, ElementOfSeq
  <2>3. part \in Seq(S) /\ Len(part) = MaxPaths - Len(array)
    <3>1. /\ part \in Seq(S)
          /\ Len(part) = IF 1 <= MaxPaths - Len(array) THEN MaxPaths - Len(array) - 1 + 1 ELSE 0
      BY <2>1, <2>2, SubSeqProperties
    <3> QED  BY <2>1, <3>1
  <2> HIDE DEF part
  <2>4. /\ array \o part \in Seq(S)
        /\ Len(array \o part) = Len(array) + Len(part)
        /\ \A i \in 1..Len(array) + Len(part) :
             (array \o part)[i] = IF i <= Len(array) THEN array[i] ELSE part[i - Len(array)]
    BY <2>3, ConcatProperties
  <2>5. Fill(array, new) = array \o part
    BY <1>3 DEF Fill, part
  <2> QED  BY <1>1, <2>1, <2>3, <2>4, <2>5
<1> QED  BY <1>2, <1>3

\* A sequence of one element.
LEMMA Singleton ==
  ASSUME NEW S, NEW x \in S
  PROVE  <<x>> \in Seq(S) /\ Len(<<x>>) = 1
  OBVIOUS

----------------------------------------------------------------------------
(* Paths: what starts a search is sound, and an edge keeps it sound.       *)

\* The types of the parts of a call.
LEMMA CallTypes ==
  ASSUME IsCall(call)
  PROVE  /\ Len(call.seq) \in Nat \ {0}
         /\ \A k \in 1..Len(call.seq) : call.seq[k].name \in EventTypes
         /\ \A v \in Vertices : Type(v) \in EventTypes /\ Time(v) \in Int
         /\ \A i \in DOMAIN call.graph.order : call.graph.order[i] \in Vertices
         /\ \A i \in DOMAIN call.graph.edges :
              /\ call.graph.edges[i].window_start_ms \in Int
              /\ call.graph.edges[i].window_end_ms \in Int
         /\ call.within_ms \in Int
         /\ call.switch_depth \in Nat
         /\ PrefixLen \in 1..Len(call.seq)
<1> DEFINE Steps == [name : EventTypes, kleene_plus : BOOLEAN]
<1>0. call.seq \in Seq(Steps) /\ call.seq # <<>>  BY DEF IsCall
<1>2. \A k \in 1..Len(call.seq) : call.seq[k].name \in EventTypes
  <2>1. \A k \in 1..Len(call.seq) : call.seq[k] \in Steps
    BY <1>0, ElementOfSeq
  <2> QED  BY <2>1
<1> HIDE DEF Steps
<1>1. Len(call.seq) \in Nat \ {0}
  BY <1>0, EmptySeq
<1>3. \A v \in Vertices : Type(v) \in EventTypes /\ Time(v) \in Int
  BY DEF IsCall, IsGraph, Vertices, Type, Time
<1>4. \A i \in DOMAIN call.graph.order : call.graph.order[i] \in Vertices
  <2>1. call.graph.order \in Seq(Vertices)  BY DEF IsCall, IsGraph, Vertices
  <2> QED  BY <2>1, LenProperties, ElementOfSeq
<1>5. \A i \in DOMAIN call.graph.edges :
              /\ call.graph.edges[i].window_start_ms \in Int
              /\ call.graph.edges[i].window_end_ms \in Int
  <2>1. call.graph.edges \in Seq(Edge)  BY DEF IsCall, IsGraph
  <2>2. \A i \in DOMAIN call.graph.edges : call.graph.edges[i] \in Edge
    BY <2>1, LenProperties, ElementOfSeq
  <2> QED  BY <2>2 DEF Edge
<1>6. call.within_ms \in Int /\ call.switch_depth \in Nat
  BY DEF IsCall
<1>7. PrefixLen \in 1..Len(call.seq)
  BY <1>1, <1>6 DEF PrefixLen, Hybrid
<1> QED  BY <1>1, <1>2, <1>3, <1>4, <1>5, <1>6, <1>7

\* The state at a start vertex is sound.
LEMMA StartSound ==
  ASSUME IsCall(call), NEW i \in StartPositions
  PROVE  StartState(i) \in QueueStates
<1> DEFINE v == call.graph.order[i]
           p == <<v>>
<1>1. v \in Vertices /\ Type(v) = call.seq[1].name
  BY CallTypes DEF StartPositions
<1>2. Time(v) \in Int  BY <1>1, CallTypes
<1>3. p \in Seq(Vertices) /\ Len(p) = 1 /\ p[1] = v /\ Last(p) = v
  BY <1>1 DEF Last
<1>4. StartsInRange(p)  BY <1>3 DEF StartsInRange
<1>5. Causal(p)
  <2> HIDE DEF p
  <2> QED  BY <1>2, <1>3 DEF Causal
<1>6. Covers(p, 1)
  <2> DEFINE at == [k \in 1..1 |-> 1]
  <2>1. at \in [1..1 -> 1..Len(p)] /\ at[1] = 1  BY <1>3
  <2>2. \A j, k \in 1..1 : j < k => at[j] < at[k]  OBVIOUS
  <2>3. \A k \in 1..1 : Type(p[at[k]]) = call.seq[k].name  BY <1>1, <1>3
  <2> QED  BY <2>1, <2>2, <2>3 DEF Covers
<1>7. SoundPath(p, 1)
  <2>1. Len(p) \in 1..MaxPathLen  BY <1>3, KernelAssumption
  <2> QED  BY <1>1, <1>3, <1>4, <1>5, <1>6, <2>1 DEF SoundPath
<1>8. StartState(i) = [path |-> p, idx |-> 1, start_ts |-> Time(v)]
  BY DEF StartState, State
<1> HIDE DEF p, v
<1> QED  BY <1>2, <1>3, <1>7, <1>8, CallTypes DEF QueueStates, SoundStates, SearchState

\* An edge that passes the checks extends a sound path to a sound path, of
\* as many steps or, if its end matches, one more.
LEMMA ExtendedSound ==
  ASSUME IsCall(call),
         NEW path \in Seq(Vertices), NEW n \in 1..Len(call.seq), SoundPath(path, n),
         n < Len(call.seq), Len(path) < MaxPathLen,
         NEW i \in OutEdges(Last(path)),
         EdgeTemporalOk(Last(path), call.graph.edges[i].dst, Time(path[1]), call.graph.edges[i]),
         NEW m \in {n, n + 1},
         m = n + 1 => Type(call.graph.edges[i].dst) = call.seq[m].name
  PROVE  Append(path, call.graph.edges[i].dst) \in SoundPaths(m)
<1> DEFINE e == call.graph.edges[i]
           d == e.dst
           q == Append(path, d)
           l == Len(path)
<1>1. /\ l \in Nat \ {0} /\ l + 1 \in 1..MaxPathLen
      /\ Len(call.seq) \in Nat /\ n \in Nat /\ MaxPathLen \in Nat
  BY LenProperties, CallTypes, KernelAssumption DEF SoundPath
<1>2. d \in Vertices  BY DEF EdgeTemporalOk
<1> HIDE DEF d
<1>3. /\ q \in Seq(Vertices) /\ Len(q) = l + 1
      /\ \A k \in 1..l : q[k] = path[k]
      /\ q[l + 1] = d
  BY <1>2, AppendProperties
<1> HIDE DEF q
<1>4. Last(q) = d /\ Last(path) = path[l]  BY <1>3 DEF Last
<1>5. /\ \A k \in 1..l + 1 : q[k] \in Vertices
      /\ \A k \in 1..l : path[k] \in Vertices
  BY <1>3, ElementOfSeq
<1>6. StartsInRange(q)
  BY <1>1, <1>3 DEF SoundPath, StartsInRange
<1>7. Causal(q)
  <2>1. ASSUME NEW k \in 1..Len(q) - 1
        PROVE  /\ Time(q[k]) <= Time(q[k + 1])
               /\ \E j \in OutEdges(q[k]) :
                    LET f == call.graph.edges[j] IN
                      /\ f.dst = q[k + 1]
                      /\ \/ f.window_end_ms <= f.window_start_ms
                         \/ /\ f.window_start_ms <= Time(q[k])
                            /\ Time(q[k + 1]) <= f.window_end_ms
    <3>1. CASE k < l
      <4>1. k \in 1..l - 1 /\ q[k] = path[k] /\ q[k + 1] = path[k + 1]
        BY <1>1, <1>3, <2>1, <3>1
      <4> QED  BY <4>1 DEF SoundPath, Causal
    <3>2. CASE k = l
      <4>1. q[k] = Last(path) /\ q[k + 1] = d
        BY <1>1, <1>3, <1>4, <3>2
      <4>2. /\ Time(Last(path)) <= Time(d)
            /\ \/ e.window_end_ms <= e.window_start_ms
               \/ /\ e.window_start_ms <= Time(Last(path))
                  /\ Time(d) <= e.window_end_ms
        <5>1. e.window_start_ms \in Int /\ e.window_end_ms \in Int
          BY CallTypes DEF OutEdges
        <5>2. Time(Last(path)) \in Int /\ Time(d) \in Int
          BY <1>1, <1>2, <1>4, <1>5, CallTypes
        <5> QED  BY <5>1, <5>2 DEF EdgeTemporalOk, d
      <4> QED  BY <4>1, <4>2 DEF d
    <3> QED  BY <1>1, <1>3, <2>1, <3>1, <3>2
  <2>2. ASSUME call.within_ms >= 0, NEW k \in 1..Len(q)
        PROVE  Time(q[k]) - Time(q[1]) <= call.within_ms
    <3>1. q[1] = path[1]  BY <1>1, <1>3
    <3>2. CASE k <= l
      <4>1. k \in 1..l /\ q[k] = path[k]  BY <1>1, <1>3, <2>2, <3>2
      <4> QED  BY <2>2, <3>1, <4>1 DEF SoundPath, Causal
    <3>3. CASE k = l + 1
      BY <1>3, <2>2, <3>1, <3>3 DEF EdgeTemporalOk, d
    <3> QED  BY <1>1, <1>3, <2>2, <3>2, <3>3
  <2> QED  BY <2>1, <2>2 DEF Causal
<1>8. Covers(q, m)
  <2>1. PICK at \in [1..n -> 1..l] :
          /\ at[1] = 1
          /\ \A j, k \in 1..n : j < k => at[j] < at[k]
          /\ \A k \in 1..n : Type(path[at[k]]) = call.seq[k].name
    BY DEF SoundPath, Covers
  <2> DEFINE at2 == [k \in 1..m |-> IF k <= n THEN at[k] ELSE l + 1]
  <2>2. at2 \in [1..m -> 1..Len(q)]  BY <1>1, <1>3
  <2>3. at2[1] = 1  BY <1>1, <2>1
  <2>4. \A j, k \in 1..m : j < k => at2[j] < at2[k]
    <3> SUFFICES ASSUME NEW j \in 1..m, NEW k \in 1..m, j < k
                 PROVE  at2[j] < at2[k]
      OBVIOUS
    <3>1. j \in 1..n /\ at2[j] = at[j] /\ at[j] \in 1..l  BY <1>1
    <3> QED  BY <1>1, <2>1, <3>1
  <2>5. ASSUME NEW k \in 1..m
        PROVE  Type(q[at2[k]]) = call.seq[k].name
    <3>1. CASE k <= n
      <4>1. k \in 1..n /\ at2[k] = at[k] /\ at[k] \in 1..l  BY <1>1, <3>1
      <4> QED  BY <1>3, <2>1, <4>1
    <3>2. CASE ~(k <= n)
      <4>1. k = m /\ m = n + 1 /\ at2[k] = l + 1  BY <1>1, <3>2
      <4> QED  BY <1>3, <4>1 DEF d
    <3> QED  BY <3>1, <3>2
  <2> HIDE DEF at2
  <2> QED  BY <2>2, <2>3, <2>4, <2>5 DEF Covers
<1>9. m = Len(call.seq) => Type(Last(q)) = call.seq[m].name
  BY <1>1, <1>4 DEF d
<1>10. SoundPath(q, m)
  BY <1>1, <1>3, <1>6, <1>7, <1>8, <1>9 DEF SoundPath
<1> QED  BY <1>3, <1>10 DEF SoundPaths, q, d

\* All states an edge leads to are sound, and at most one step ahead.
LEMMA AlongSound ==
  ASSUME IsCall(call), NEW s \in SoundStates,
         s.idx < Len(call.seq), Len(s.path) < MaxPathLen,
         NEW i \in OutEdges(Last(s.path))
  PROVE  Along(s, call.graph.edges[i]) \in Seq({t \in SoundStates : t.idx <= s.idx + 1})
<1> DEFINE e == call.graph.edges[i]
           S == {t \in SoundStates : t.idx <= s.idx + 1}
           along == Along(s, e)
<1>1. /\ s.path \in Seq(Vertices) /\ s.idx \in 1..Len(call.seq) /\ s.start_ts \in Int
      /\ SoundPath(s.path, s.idx) /\ s.start_ts = Time(s.path[1])
  BY DEF SoundStates, SearchState
<1>2. Len(call.seq) \in Nat  BY CallTypes
<1>3. ASSUME NEW x \in {0, 1}, EdgeTemporalOk(Last(s.path), e.dst, s.start_ts, e),
             x = 1 => TypeMatch(e.dst, s.idx)
      PROVE  State(Append(s.path, e.dst), s.idx + x, s.start_ts) \in S
  <2> DEFINE p == Append(s.path, e.dst)
  <2>1. s.idx + x \in {s.idx, s.idx + 1} /\ s.idx + x \in 1..Len(call.seq)
    BY <1>1, <1>2
  <2>2. s.idx + x = s.idx + 1 => Type(e.dst) = call.seq[s.idx + x].name
    BY <1>1, <1>3 DEF TypeMatch
  <2>3. p \in SoundPaths(s.idx + x)
    <3>1. EdgeTemporalOk(Last(s.path), e.dst, Time(s.path[1]), e)  BY <1>1, <1>3
    <3> DEFINE n == s.idx
               m == s.idx + x
    <3>2. n \in 1..Len(call.seq) /\ m \in {n, n + 1} /\ SoundPath(s.path, n) /\ n < Len(call.seq)
      BY <1>1, <2>1
    <3>3. m = n + 1 => Type(e.dst) = call.seq[m].name  BY <2>2
    <3> HIDE DEF n, m
    <3>4. p \in SoundPaths(m)  BY <1>1, <3>1, <3>2, <3>3, ExtendedSound
    <3> QED  BY <3>4 DEF m
  <2>4. p[1] = s.path[1]
    <3>1. e.dst \in Vertices  BY <1>3 DEF EdgeTemporalOk
    <3>2. 1 \in 1..Len(s.path)  BY <1>1, LenProperties DEF SoundPath
    <3> DEFINE d == e.dst
    <3>3. d \in Vertices /\ s.path \in Seq(Vertices)  BY <1>1, <3>1
    <3> HIDE DEF d
    <3>4. \A k \in 1..Len(s.path) : Append(s.path, d)[k] = s.path[k]
      BY <3>3, AppendProperties
    <3> QED  BY <3>2, <3>4 DEF d
  <2> HIDE DEF p
  <2>5. p \in Seq(Vertices) /\ SoundPath(p, s.idx + x)  BY <2>3 DEF SoundPaths
  <2> DEFINE n == s.idx + x
             t == State(p, n, s.start_ts)
  <2>6. t.path = p /\ t.idx = n /\ t.start_ts = s.start_ts  BY DEF State
  <2>7. n \in 1..Len(call.seq) /\ n <= s.idx + 1 /\ SoundPath(p, n)  BY <1>1, <2>1, <2>5
  <2> HIDE DEF n
  <2>8. t \in SearchState  BY <1>1, <2>5, <2>7 DEF State, SearchState
  <2>9. t \in SoundStates
    <3> HIDE DEF t
    <3> QED  BY <1>1, <2>4, <2>6, <2>7, <2>8 DEF SoundStates
  <2> QED  BY <2>6, <2>7, <2>9 DEF p, n
<1>4. \/ Moves(s, e) = <<>>
      \/ /\ EdgeTemporalOk(Last(s.path), e.dst, s.start_ts, e)
         /\ \/ Moves(s, e) = <<0>>
            \/ TypeMatch(e.dst, s.idx) /\ Moves(s, e) \in {<<0, 1>>, <<1>>}
  BY DEF Moves
<1>5. \E n \in Nat : DOMAIN Moves(s, e) = 1..n
  <2>1. CASE Moves(s, e) = <<>>  BY <2>1
  <2>2. CASE Moves(s, e) \in {<<0>>, <<1>>}
    <3>1. DOMAIN Moves(s, e) = 1..1  BY <2>2
    <3> QED  BY <3>1
  <2>3. CASE Moves(s, e) = <<0, 1>>
    <3>1. DOMAIN Moves(s, e) = 1..2  BY <2>3
    <3> QED  BY <3>1
  <2> QED  BY <1>4, <2>1, <2>2, <2>3
<1>6. ASSUME NEW k \in DOMAIN Moves(s, e)
      PROVE  /\ Moves(s, e)[k] \in {0, 1}
             /\ EdgeTemporalOk(Last(s.path), e.dst, s.start_ts, e)
             /\ Moves(s, e)[k] = 1 => TypeMatch(e.dst, s.idx)
  <2> HIDE DEF e
  <2>1. CASE Moves(s, e) = <<>>  BY <1>6, <2>1
  <2>2. CASE Moves(s, e) = <<0>>  BY <1>4, <1>6, <2>2
  <2>3. CASE Moves(s, e) \in {<<0, 1>>, <<1>>}  BY <1>4, <1>6, <2>3
  <2> QED  BY <1>4, <2>1, <2>2, <2>3
<1>7. \A k \in DOMAIN Moves(s, e) : along[k] \in S
  BY <1>3, <1>6 DEF Along
<1>8. PICK n \in Nat : DOMAIN Moves(s, e) = 1..n  BY <1>5
<1>9. along \in [1..n -> S]
  <2>1. along = [k \in 1..n |-> along[k]]
    BY <1>8 DEF Along
  <2> HIDE DEF along
  <2> QED  BY <1>7, <1>8, <2>1
<1> QED  BY <1>9, SeqDef

----------------------------------------------------------------------------
(* The inductive invariant: everything kept is sound, and what is left to  *)
(* examine are start vertices, or the edges of the state taken up last.    *)

LeftInv ==
  /\ left \subseteq DOMAIN call.graph.order \cup DOMAIN call.graph.edges
  /\ phase \in {"starts", "depth"} => left \subseteq StartPositions
  /\ phase = "breadth" /\ left # {} =>
       /\ head \in 1..Len(queue)
       /\ left \subseteq OutEdges(Last(queue[head].path))
       /\ queue[head].idx < PrefixLen

KernelInv ==
  /\ call \in Calls
  /\ phase \in {"called", "starts", "breadth", "depth", "done"}
  /\ queue \in Seq(QueueStates) /\ Len(queue) <= MaxPaths
  /\ head \in 0..Len(queue)
  /\ seeds \in Seq(SoundPaths(PrefixLen)) /\ Len(seeds) <= MaxPaths
  /\ taken \in 0..Len(seeds)
  /\ stack \in Seq(Frames)
  /\ out \in Seq(SoundPaths(Len(call.seq))) /\ Len(out) <= MaxPaths
  /\ overflow \in BOOLEAN
  /\ LeftInv

\* The invariant holds after a step if it does in terms of the sets before.
LEMMA KernelInvKept ==
  ASSUME KernelInv, call' = call,
         phase' \in {"called", "starts", "breadth", "depth", "done"},
         queue' \in Seq(QueueStates), Len(queue') <= MaxPaths, head' \in 0..Len(queue'),
         seeds' \in Seq(SoundPaths(PrefixLen)), Len(seeds') <= MaxPaths,
         taken' \in 0..Len(seeds'),
         stack' \in Seq(Frames),
         out' \in Seq(SoundPaths(Len(call.seq))), Len(out') <= MaxPaths,
         overflow' \in BOOLEAN,
         LeftInv'
  PROVE  KernelInv'
<1>1. /\ QueueStates' = QueueStates /\ Frames' = Frames /\ PrefixLen' = PrefixLen
      /\ \A n : SoundPaths(n)' = SoundPaths(n)
  BY SetsKept, CallKept
<1>2. SoundPaths(PrefixLen)' = SoundPaths(PrefixLen)
  BY <1>1
<1>3. SoundPaths(Len(call.seq))' = SoundPaths(Len(call.seq))
  BY <1>1
<1> QED  BY <1>1, <1>2, <1>3 DEF KernelInv

\* What is left once a state is taken up, or nothing, is as the invariant says.
LEMMA LeftInvKept ==
  ASSUME call' = call,
         left' \subseteq DOMAIN call.graph.order \cup DOMAIN call.graph.edges,
         phase' \in {"starts", "depth"} => left' \subseteq StartPositions,
         phase' = "breadth" /\ left' # {} =>
           /\ head' \in 1..Len(queue')
           /\ left' \subseteq OutEdges(Last(queue'[head'].path))
           /\ queue'[head'].idx < PrefixLen
  PROVE  LeftInv'
<1>1. StartPositions' = StartPositions /\ PrefixLen' = PrefixLen /\ \A v : OutEdges(v)' = OutEdges(v)
  BY CallKept
<1>2. OutEdges(Last(queue[head].path))' = OutEdges(Last(queue'[head'].path))
  BY DEF OutEdges, Last
<1> QED  BY <1>1, <1>2 DEF LeftInv

\* The call has its type.
LEMMA InvCall ==
  ASSUME KernelInv
  PROVE  IsCall(call)
  BY KernelAssumption DEF KernelInv

\* The invariant holds when the call begins.
LEMMA KernelInit == Init => KernelInv
<1> SUFFICES ASSUME Init PROVE KernelInv
  OBVIOUS
<1>1. /\ \A S : <<>> \in Seq(S) /\ Len(<<>>) = 0
      /\ 0 <= MaxPaths
  BY EmptySeq, KernelAssumption
<1>2. queue = <<>> /\ seeds = <<>> /\ stack = <<>> /\ out = <<>>
  BY DEF Init
<1>3. /\ queue \in Seq(QueueStates) /\ seeds \in Seq(SoundPaths(PrefixLen))
      /\ stack \in Seq(Frames) /\ out \in Seq(SoundPaths(Len(call.seq)))
  BY <1>1, <1>2
<1>4. Len(queue) = 0 /\ Len(seeds) = 0 /\ Len(out) = 0
  BY <1>1, <1>2
<1>5. head \in 0..Len(queue) /\ taken \in 0..Len(seeds)
  BY <1>4 DEF Init
<1>6. LeftInv  BY DEF Init, LeftInv
<1> QED  BY <1>1, <1>3, <1>4, <1>5, <1>6 DEF Init, KernelInv

\* The steps that change only where the call is.
LEMMA PhaseSteps ==
  ASSUME KernelInv, AllocFails \/ Begin \/ StartsDone \/ DepthDone \/ BreadthDone
  PROVE  KernelInv'
<1>1. call' = call /\ UNCHANGED <<queue, head, seeds, taken, stack>>
  BY DEF AllocFails, Begin, StartsDone, DepthDone, BreadthDone
<1>2. LeftInv'
  <2>1. left' \subseteq DOMAIN call.graph.order \cup DOMAIN call.graph.edges
    BY DEF AllocFails, Begin, StartsDone, DepthDone, BreadthDone, KernelInv, LeftInv, StartPositions
  <2>2. phase' \in {"starts", "depth"} => left' \subseteq StartPositions
    BY DEF AllocFails, Begin, StartsDone, DepthDone, BreadthDone
  <2>3. phase' = "breadth" => left' = {}
    BY DEF AllocFails, Begin, StartsDone, DepthDone, BreadthDone
  <2> QED  BY <1>1, <2>1, <2>2, <2>3, LeftInvKept
<1>3. /\ out' \in Seq(SoundPaths(Len(call.seq))) /\ Len(out') <= MaxPaths
      /\ overflow' \in BOOLEAN
  <2>1. CASE BreadthDone
    <3>1. ~Hybrid => PrefixLen = Len(call.seq)  BY DEF PrefixLen
    <3> QED  BY <2>1, <3>1 DEF BreadthDone, KernelInv
  <2>2. CASE ~BreadthDone
    BY <2>2 DEF AllocFails, Begin, StartsDone, DepthDone, KernelInv
  <2> QED  BY <2>1, <2>2
<1>4. phase' \in {"called", "starts", "breadth", "depth", "done"}
  BY DEF AllocFails, Begin, StartsDone, DepthDone, BreadthDone
<1> QED  BY <1>1, <1>2, <1>3, <1>4, KernelInvKept DEF KernelInv

\* Enqueuing a start vertex keeps the invariant.
LEMMA EnqueueSteps ==
  ASSUME KernelInv, EnqueueStart
  PROVE  KernelInv'
<1>1. PICK i \in left :
        /\ queue' = Fill(queue, <<StartState(i)>>)
        /\ overflow' = (overflow \/ Spills(queue, <<StartState(i)>>))
        /\ left' = IF Spills(queue, <<StartState(i)>>) THEN {} ELSE left \ {i}
  BY DEF EnqueueStart
<1>2. /\ phase = "starts" /\ call' = call
      /\ UNCHANGED <<phase, head, seeds, taken, stack, out>>
  BY DEF EnqueueStart
<1>3. StartState(i) \in QueueStates
  BY <1>2, StartSound, InvCall DEF KernelInv, LeftInv
<1>4. /\ queue' \in Seq(QueueStates) /\ Len(queue') <= MaxPaths
      /\ Len(queue) <= Len(queue')
  BY <1>1, <1>3, Singleton, FillKeeps DEF KernelInv
<1>5. head' \in 0..Len(queue')
  BY <1>2, <1>4, LenProperties DEF KernelInv
<1>6. LeftInv'
  BY <1>1, <1>2, LeftInvKept DEF KernelInv, LeftInv
<1>7. overflow' \in BOOLEAN
  BY <1>1 DEF Spills, KernelInv
<1> QED  BY <1>2, <1>4, <1>5, <1>6, <1>7, KernelInvKept DEF KernelInv

\* Taking up a state keeps it: at the end of the prefix its path is a seed.
LEMMA DequeueSteps ==
  ASSUME KernelInv, Dequeue
  PROVE  KernelInv'
<1> DEFINE s == queue[head + 1]
<1>1. /\ phase = "breadth" /\ head < Len(queue) /\ head' = head + 1 /\ call' = call
      /\ UNCHANGED <<phase, queue, taken, stack, out>>
  BY DEF Dequeue
<1>2. head \in Nat /\ Len(queue) \in Nat /\ head' \in 1..Len(queue)
  BY <1>1, LenProperties DEF KernelInv
<1>3. s \in QueueStates
  BY <1>1, <1>2, ElementOfSeq DEF KernelInv
<1>4. s.idx \in Int /\ s.idx <= PrefixLen /\ PrefixLen \in Int
  BY <1>3, CallTypes, InvCall DEF QueueStates, SoundStates, SearchState
<1>5. CASE s.idx >= PrefixLen
  <2>1. /\ seeds' = Fill(seeds, <<s.path>>) /\ left' = left /\ left = {}
        /\ overflow' = (overflow \/ Spills(seeds, <<s.path>>))
    BY <1>5 DEF Dequeue
  <2>2. s.path \in SoundPaths(PrefixLen)
    <3>1. s.idx = PrefixLen  BY <1>4, <1>5
    <3> QED  BY <1>3, <3>1 DEF QueueStates, SoundStates, SearchState, SoundPaths
  <2>3. /\ seeds' \in Seq(SoundPaths(PrefixLen)) /\ Len(seeds') <= MaxPaths
        /\ Len(seeds) <= Len(seeds')
    BY <2>1, <2>2, Singleton, FillKeeps DEF KernelInv
  <2>4. taken' \in 0..Len(seeds')
    BY <1>1, <2>3, LenProperties DEF KernelInv
  <2>5. LeftInv'
    BY <1>1, <2>1, LeftInvKept
  <2>6. overflow' \in BOOLEAN  BY <2>1 DEF Spills, KernelInv
  <2> QED  BY <1>1, <1>2, <2>3, <2>4, <2>5, <2>6, KernelInvKept DEF KernelInv
<1>6. CASE ~(s.idx >= PrefixLen)
  <2>1. left' = OutEdges(Last(s.path)) /\ UNCHANGED <<seeds, overflow>>
    BY <1>6 DEF Dequeue
  <2>2. s.idx < PrefixLen  BY <1>4, <1>6
  <2>3. LeftInv'
    <3>1. left' \subseteq DOMAIN call.graph.edges  BY <2>1 DEF OutEdges
    <3>2. s = queue'[head']  BY <1>1
    <3> HIDE DEF s
    <3> QED  BY <1>1, <1>2, <2>1, <2>2, <3>1, <3>2, LeftInvKept
  <2> QED  BY <1>1, <1>2, <2>1, <2>3, KernelInvKept DEF KernelInv
<1> QED  BY <1>5, <1>6

\* The states an edge leads to belong in the queue.
LEMMA NewQueued ==
  ASSUME KernelInv, phase = "breadth", NEW i \in left
  PROVE  (IF TooLong(queue[head].path) THEN <<>> ELSE Along(queue[head], call.graph.edges[i]))
           \in Seq(QueueStates)
<1> DEFINE s == queue[head]
           along == Along(s, call.graph.edges[i])
<1>1. /\ head \in 1..Len(queue) /\ i \in OutEdges(Last(s.path)) /\ s.idx < PrefixLen
  BY DEF KernelInv, LeftInv
<1>2. s \in QueueStates
  BY <1>1, ElementOfSeq DEF KernelInv
<1>3. /\ s \in SoundStates /\ s.idx \in Nat /\ Len(s.path) \in Nat
  BY <1>2, CallTypes, InvCall, LenProperties DEF QueueStates, SoundStates, SearchState
<1> HIDE DEF s
<1>4. CASE TooLong(s.path)
  BY <1>4, EmptySeq DEF s
<1>5. CASE ~TooLong(s.path)
  <2>1. Len(s.path) < MaxPathLen  BY <1>3, <1>5, KernelAssumption DEF TooLong
  <2>2. PrefixLen \in 1..Len(call.seq) /\ Len(call.seq) \in Nat  BY CallTypes, InvCall
  <2>3. s.idx < Len(call.seq)  BY <1>1, <1>3, <2>2
  <2> DEFINE S == {t \in SoundStates : t.idx <= s.idx + 1}
  <2>4. along \in Seq(S)  BY <1>1, <1>3, <2>1, <2>3, AlongSound, InvCall
  <2>5. S \subseteq QueueStates
    <3> SUFFICES ASSUME NEW t \in S PROVE t.idx <= PrefixLen
      BY DEF QueueStates
    <3>1. t.idx \in 1..Len(call.seq)  BY DEF SoundStates, SearchState
    <3>2. t.idx <= s.idx + 1  OBVIOUS
    <3> QED  BY <1>1, <1>3, <2>2, <3>1, <3>2
  <2> HIDE DEF S
  <2>6. along \in Seq(QueueStates)  BY <2>4, <2>5, SeqMonotonic
  <2> QED  BY <1>5, <2>6 DEF s
<1> QED  BY <1>4, <1>5

\* Examining an edge breadth first keeps it.
LEMMA BreadthEdgeSteps ==
  ASSUME KernelInv, BreadthEdge
  PROVE  KernelInv'
<1> DEFINE s == queue[head]
<1>1. /\ phase = "breadth" /\ call' = call
      /\ UNCHANGED <<phase, head, seeds, taken, stack, out>>
  BY DEF BreadthEdge
<1> DEFINE along(i) == Along(s, call.graph.edges[i])
           new(i) == IF TooLong(s.path) THEN <<>> ELSE along(i)
<1>2. PICK i \in left :
        /\ left' = left \ {i}
        /\ queue' = Fill(queue, new(i))
        /\ overflow' = \/ overflow
                       \/ TooLong(s.path) /\ along(i) # <<>>
                       \/ Spills(queue, new(i))
  BY DEF BreadthEdge
<1>3. /\ head \in 1..Len(queue) /\ i \in OutEdges(Last(s.path)) /\ s.idx < PrefixLen
      /\ left \subseteq OutEdges(Last(s.path))
  BY <1>1, <1>2 DEF KernelInv, LeftInv
<1>4. s \in QueueStates
  BY <1>3, ElementOfSeq DEF KernelInv
<1>5. /\ s \in SoundStates /\ s.idx \in Nat /\ Len(s.path) \in Nat
  BY <1>4, CallTypes, InvCall, LenProperties DEF QueueStates, SoundStates, SearchState
<1> HIDE DEF s
<1>6. new(i) \in Seq(QueueStates)  BY <1>1, NewQueued DEF s
<1> HIDE DEF new, along
<1>7. /\ queue' \in Seq(QueueStates) /\ Len(queue') <= MaxPaths
      /\ Len(queue) <= Len(queue')
      /\ \A k \in 1..Len(queue) : queue'[k] = queue[k]
  BY <1>2, <1>6, FillKeeps DEF KernelInv
<1>8. /\ head' \in 1..Len(queue') /\ queue'[head'] = s
  BY <1>1, <1>3, <1>7, LenProperties DEF KernelInv, s
<1>9. LeftInv'
  <2>1. /\ left' \subseteq OutEdges(Last(queue'[head'].path))
        /\ queue'[head'].idx < PrefixLen
    BY <1>2, <1>3, <1>8
  <2>2. left' \subseteq DOMAIN call.graph.edges
    BY <2>1 DEF OutEdges
  <2> QED  BY <1>1, <1>8, <2>1, <2>2, LeftInvKept
<1>10. overflow' \in BOOLEAN
  BY <1>2 DEF Spills, TooLong, KernelInv
<1> QED  BY <1>1, <1>7, <1>8, <1>9, <1>10, KernelInvKept DEF KernelInv

\* A call of dfs() on a sound state is sound.
LEMMA WaitingFrame ==
  ASSUME NEW s \in SoundStates
  PROVE  Waiting(s) \in Frames
  BY DEF Waiting, Frames

\* Emitting a sound path keeps the results sound and within their capacity.
LEMMA EmitKeeps ==
  ASSUME KernelInv, NEW path \in SoundPaths(Len(call.seq)), Emit(path)
  PROVE  /\ out' \in Seq(SoundPaths(Len(call.seq))) /\ Len(out') <= MaxPaths
         /\ overflow' \in BOOLEAN
<1>1. /\ out' = Fill(out, <<path>>)
      /\ overflow' = (overflow \/ Spills(out, <<path>>))
  BY DEF Emit
<1>2. out' \in Seq(SoundPaths(Len(call.seq))) /\ Len(out') <= MaxPaths
  BY <1>1, Singleton, FillKeeps DEF KernelInv
<1> QED  BY <1>1, <1>2 DEF Spills, KernelInv

\* The steps of the depth-first part keep what is left, but for start vertices.
LEMMA DepthLeft ==
  ASSUME KernelInv, phase = "depth", phase' = phase, call' = call, left' \subseteq left
  PROVE  LeftInv'
  BY LeftInvKept DEF KernelInv, LeftInv

\* Starting a search of M-CET keeps the invariant.
LEMMA McetStartSteps ==
  ASSUME KernelInv, McetStart
  PROVE  KernelInv'
<1>1. PICK i \in left : left' = left \ {i} /\ stack' = <<Waiting(StartState(i))>>
  BY DEF McetStart
<1>2. /\ phase = "depth" /\ call' = call
      /\ UNCHANGED <<phase, queue, head, seeds, taken, out, overflow>>
  BY DEF McetStart
<1>3. StartState(i) \in SoundStates
  BY <1>2, StartSound, InvCall DEF KernelInv, LeftInv, QueueStates
<1>4. stack' \in Seq(Frames)
  BY <1>1, <1>3, WaitingFrame, Singleton
<1>5. LeftInv'  BY <1>1, <1>2, DepthLeft
<1> QED  BY <1>2, <1>4, <1>5, KernelInvKept DEF KernelInv

\* Going on from a path found breadth first keeps it: the first event's
\* time is that of the path.
LEMMA HcetSeedSteps ==
  ASSUME KernelInv, HcetSeed
  PROVE  KernelInv'
<1> DEFINE path == seeds[taken + 1]
<1>1. /\ phase = "depth" /\ call' = call /\ taken < Len(seeds) /\ taken' = taken + 1
      /\ UNCHANGED <<phase, left, queue, head, seeds>>
  BY DEF HcetSeed
<1>2. taken' \in 1..Len(seeds')
  BY <1>1, LenProperties DEF KernelInv
<1>3. path \in SoundPaths(PrefixLen)
  BY <1>1, <1>2, ElementOfSeq DEF KernelInv
<1>4. PrefixLen \in 1..Len(call.seq) /\ Len(call.seq) \in Nat
  BY CallTypes, InvCall
<1>5. LeftInv'  BY <1>1, DepthLeft
<1>6. CASE PrefixLen >= Len(call.seq)
  <2>1. Emit(path) /\ UNCHANGED stack  BY <1>6 DEF HcetSeed
  <2>2. path \in SoundPaths(Len(call.seq))
    <3>1. PrefixLen = Len(call.seq)  BY <1>4, <1>6
    <3> QED  BY <1>3, <3>1
  <2> HIDE DEF path
  <2>3. /\ out' \in Seq(SoundPaths(Len(call.seq))) /\ Len(out') <= MaxPaths
        /\ overflow' \in BOOLEAN
    BY <2>1, <2>2, EmitKeeps
  <2> QED  BY <1>1, <1>2, <1>5, <2>1, <2>3, KernelInvKept DEF KernelInv
<1>7. CASE ~(PrefixLen >= Len(call.seq))
  <2>1. stack' = <<Waiting(SeedState(path))>> /\ UNCHANGED <<out, overflow>>
    BY <1>7 DEF HcetSeed
  <2>2. SeedState(path) \in SoundStates
    <3>1. path \in Seq(Vertices) /\ SoundPath(path, PrefixLen)  BY <1>3 DEF SoundPaths
    <3>2. path[1] \in Vertices
      <4>1. 1 \in 1..Len(path)  BY <3>1 DEF SoundPath
      <4> QED  BY <3>1, <4>1, ElementOfSeq
    <3>3. Time(path[1]) \in Int  BY <3>2, CallTypes, InvCall
    <3> HIDE DEF path
    <3> DEFINE t == SeedState(path)
    <3>4. t.path = path /\ t.idx = PrefixLen /\ t.start_ts = Time(path[1]) /\ t \in SearchState
      BY <1>4, <3>1, <3>3 DEF SeedState, State, SearchState
    <3> HIDE DEF t
    <3>5. t \in SoundStates  BY <3>1, <3>4 DEF SoundStates
    <3> QED  BY <3>5 DEF t
  <2>3. stack' \in Seq(Frames)
    BY <2>1, <2>2, WaitingFrame, Singleton
  <2> QED  BY <1>1, <1>2, <1>5, <2>1, <2>3, KernelInvKept DEF KernelInv
<1> QED  BY <1>6, <1>7

\* Beginning a call of dfs() keeps it.
LEMMA DfsCallSteps ==
  ASSUME KernelInv, DfsCall
  PROVE  KernelInv'
<1> DEFINE s == Head(stack).state
<1>1. /\ phase = "depth" /\ call' = call /\ stack # <<>>
      /\ UNCHANGED <<phase, left, queue, head, seeds, taken>>
  BY DEF DfsCall
<1>2. Head(stack) \in Frames /\ Tail(stack) \in Seq(Frames)
  BY <1>1, HeadTailProperties DEF KernelInv
<1>3. s \in SoundStates /\ s.idx \in 1..Len(call.seq) /\ Len(call.seq) \in Nat
      /\ s.path \in Seq(Vertices) /\ SoundPath(s.path, s.idx)
  BY <1>2, CallTypes, InvCall DEF Frames, SoundStates, SearchState
<1>4. LeftInv'  BY <1>1, DepthLeft
<1>5. CASE overflow' = TRUE /\ stack' = Tail(stack) /\ UNCHANGED out
  BY <1>1, <1>2, <1>4, <1>5, KernelInvKept DEF KernelInv
<1>6. CASE s.idx >= Len(call.seq) /\ Emit(s.path) /\ stack' = Tail(stack)
  <2>1. s.path \in SoundPaths(Len(call.seq))
    <3>1. s.idx = Len(call.seq)  BY <1>3, <1>6
    <3> QED  BY <1>3, <3>1 DEF SoundPaths
  <2> HIDE DEF s
  <2>2. /\ out' \in Seq(SoundPaths(Len(call.seq))) /\ Len(out') <= MaxPaths
        /\ overflow' \in BOOLEAN
    BY <1>6, <2>1, EmitKeeps
  <2> QED  BY <1>1, <1>2, <1>4, <1>6, <2>2, KernelInvKept DEF KernelInv
<1>7. CASE /\ ~TooLong(s.path)
           /\ s.idx < Len(call.seq)
           /\ stack' = <<[state |-> s, begun |-> TRUE, left |-> OutEdges(Last(s.path))]>>
                         \o Tail(stack)
           /\ UNCHANGED <<out, overflow>>
  <2> DEFINE f == [state |-> s, begun |-> TRUE, left |-> OutEdges(Last(s.path))]
  <2>1. Len(s.path) < MaxPathLen
    BY <1>3, <1>7, LenProperties, KernelAssumption DEF TooLong
  <2>2. f \in Frames
    <3> HIDE DEF s
    <3>1. OutEdges(Last(s.path)) \subseteq DOMAIN call.graph.edges  BY DEF OutEdges
    <3> QED  BY <1>3, <1>7, <2>1, <3>1 DEF Frames
  <2> HIDE DEF f
  <2>3. stack' \in Seq(Frames)
    BY <1>2, <1>7, <2>2, Singleton, ConcatProperties DEF f
  <2> QED  BY <1>1, <1>4, <1>7, <2>3, KernelInvKept DEF KernelInv
<1> QED  BY <1>5, <1>6, <1>7 DEF DfsCall

\* The calls of dfs() along an edge keep it.
LEMMA DfsEdgeSteps ==
  ASSUME KernelInv, DfsEdge
  PROVE  KernelInv'
<1> DEFINE top == Head(stack)
           along(i) == Along(top.state, call.graph.edges[i])
           calls(i) == [m \in DOMAIN along(i) |-> Waiting(along(i)[m])]
           rest(i) == [top EXCEPT !.left = @ \ {i}]
<1>1. /\ phase = "depth" /\ call' = call /\ stack # <<>> /\ top.begun
      /\ UNCHANGED <<phase, left, queue, head, seeds, taken, out, overflow>>
  BY DEF DfsEdge
<1>2. PICK i \in top.left : stack' = calls(i) \o <<rest(i)>> \o Tail(stack)
  BY DEF DfsEdge
<1>3. top \in Frames /\ Tail(stack) \in Seq(Frames)
  BY <1>1, HeadTailProperties DEF KernelInv
<1>4. /\ top.state \in SoundStates /\ i \in OutEdges(Last(top.state.path))
      /\ top.state.idx < Len(call.seq) /\ Len(top.state.path) < MaxPathLen
  BY <1>1, <1>2, <1>3 DEF Frames
<1>5. rest(i) \in Frames
  BY <1>1, <1>3 DEF Frames
<1> HIDE DEF top, rest
<1>6. along(i) \in Seq(SoundStates)
  <2> DEFINE S == {t \in SoundStates : t.idx <= top.state.idx + 1}
  <2>1. along(i) \in Seq(S)  BY <1>4, AlongSound, InvCall
  <2>2. S \subseteq SoundStates  OBVIOUS
  <2> HIDE DEF S, along
  <2> QED  BY <2>1, <2>2, SeqMonotonic
<1> HIDE DEF along
<1>7. calls(i) \in Seq(Frames)
  <2>1. /\ Len(along(i)) \in Nat /\ DOMAIN along(i) = 1..Len(along(i))
        /\ \A m \in 1..Len(along(i)) : along(i)[m] \in SoundStates
    BY <1>6, LenProperties, ElementOfSeq
  <2>2. \A m \in 1..Len(along(i)) : Waiting(along(i)[m]) \in Frames
    BY <2>1, WaitingFrame
  <2>3. calls(i) \in [1..Len(along(i)) -> Frames]
    BY <2>1, <2>2
  <2> HIDE DEF calls
  <2> QED  BY <2>1, <2>3, SeqDef
<1> HIDE DEF calls
<1>8. stack' \in Seq(Frames)
  BY <1>2, <1>3, <1>5, <1>7, Singleton, ConcatProperties
<1>9. LeftInv'  BY <1>1, DepthLeft
<1> QED  BY <1>1, <1>8, <1>9, KernelInvKept DEF KernelInv

\* Returning from dfs() keeps it.
LEMMA DfsReturnSteps ==
  ASSUME KernelInv, DfsReturn
  PROVE  KernelInv'
<1>1. /\ phase = "depth" /\ call' = call /\ stack # <<>> /\ stack' = Tail(stack)
      /\ UNCHANGED <<phase, left, queue, head, seeds, taken, out, overflow>>
  BY DEF DfsReturn
<1>2. stack' \in Seq(Frames)
  BY <1>1, HeadTailProperties DEF KernelInv
<1>3. LeftInv'  BY <1>1, DepthLeft
<1> QED  BY <1>1, <1>2, <1>3, KernelInvKept DEF KernelInv

\* Every step keeps the invariant.
LEMMA KernelStep == KernelInv /\ [Next]_vars => KernelInv'
<1> SUFFICES ASSUME KernelInv, [Next]_vars
             PROVE  KernelInv'
  OBVIOUS
<1>1. CASE AllocFails \/ Begin \/ StartsDone \/ DepthDone \/ BreadthDone
  BY <1>1, PhaseSteps
<1>2. CASE EnqueueStart  BY <1>2, EnqueueSteps
<1>3. CASE Dequeue  BY <1>3, DequeueSteps
<1>4. CASE BreadthEdge  BY <1>4, BreadthEdgeSteps
<1>5. CASE McetStart  BY <1>5, McetStartSteps
<1>6. CASE HcetSeed  BY <1>6, HcetSeedSteps
<1>7. CASE DfsCall  BY <1>7, DfsCallSteps
<1>8. CASE DfsEdge  BY <1>8, DfsEdgeSteps
<1>9. CASE DfsReturn  BY <1>9, DfsReturnSteps
<1>10. CASE UNCHANGED vars
  <2>1. /\ call' = call
        /\ UNCHANGED <<phase, left, queue, head, seeds, taken, stack, out, overflow>>
    BY <1>10 DEF vars
  <2>2. LeftInv'
    BY <2>1, LeftInvKept DEF KernelInv, LeftInv
  <2> QED  BY <2>1, <2>2, KernelInvKept DEF KernelInv
<1> QED
  BY <1>1, <1>2, <1>3, <1>4, <1>5, <1>6, <1>7, <1>8, <1>9, <1>10 DEF Next

----------------------------------------------------------------------------
(* The theorems: for every graph, query, engine and range of start         *)
(* vertices, and all capacities.                                           *)

\* Whatever the search keeps is sound, in every reachable state.
THEOREM KernelInvariant == Spec => []KernelInv
<1>1. Init => KernelInv  BY KernelInit
<1>2. KernelInv /\ [Next]_vars => KernelInv'  BY KernelStep
<1> QED  BY <1>1, <1>2, PTL DEF Spec

\* The queue, the seeds, the results and every path stay within the arrays
\* that hold them, and the variables keep their types.
THEOREM KernelTypes == Spec => []KernelTypeOK
<1>1. KernelInv => KernelTypeOK
  <2> SUFFICES ASSUME KernelInv PROVE KernelTypeOK
    OBVIOUS
  <2>1. QueueStates \subseteq SearchState  BY DEF QueueStates, SoundStates
  <2>2. queue \in Seq(SearchState)  BY <2>1, SeqMonotonic DEF KernelInv
  <2>3. \A k \in DOMAIN queue : Len(queue[k].path) \in 1..MaxPathLen
    <3>1. \A k \in DOMAIN queue : queue[k] \in QueueStates
      BY ElementOfSeq, LenProperties DEF KernelInv
    <3> QED  BY <3>1 DEF QueueStates, SoundStates, SoundPath
  <2>4. \A n : SoundPaths(n) \subseteq Seq(Vertices)  BY DEF SoundPaths
  <2>5. seeds \in Seq(Seq(Vertices)) /\ out \in Seq(Seq(Vertices))
    BY <2>4, SeqMonotonic DEF KernelInv
  <2>6. stack \in Seq([state : SearchState, begun : BOOLEAN,
                       left : SUBSET DOMAIN call.graph.edges])
    <3>1. Frames \subseteq [state : SearchState, begun : BOOLEAN,
                           left : SUBSET DOMAIN call.graph.edges]
      BY DEF Frames, SoundStates
    <3> QED  BY <3>1, SeqMonotonic DEF KernelInv
  <2>7. \A k \in DOMAIN stack : Len(stack[k].state.path) \in 1..MaxPathLen
    <3>1. \A k \in DOMAIN stack : stack[k] \in Frames
      BY ElementOfSeq, LenProperties DEF KernelInv
    <3> QED  BY <3>1 DEF Frames, SoundStates, SoundPath
  <2> QED  BY <2>2, <2>3, <2>5, <2>6, <2>7, InvCall DEF KernelInv, LeftInv, KernelTypeOK
<1> QED  BY <1>1, KernelInvariant, PTL

\* Every path emitted starts in the range searched, follows the graph in time
\* and contains the pattern, whichever engine found it.
THEOREM PathsAlwaysSound == Spec => []PathsSound
<1>1. KernelInv => PathsSound
  <2> SUFFICES ASSUME KernelInv, NEW k \in DOMAIN out
               PROVE  /\ StartsInRange(out[k])
                      /\ Causal(out[k])
                      /\ Covers(out[k], Len(call.seq))
                      /\ Type(Last(out[k])) = call.seq[Len(call.seq)].name
    BY DEF PathsSound
  <2>1. out[k] \in SoundPaths(Len(call.seq))
    BY ElementOfSeq, LenProperties DEF KernelInv
  <2> QED  BY <2>1 DEF SoundPaths, SoundPath
<1> QED  BY <1>1, KernelInvariant, PTL

----------------------------------------------------------------------------
(* Trails: the ways a search may go, event by event.  A point of a trail   *)
(* is an event, how it was come by - the start position, then the edges -  *)
(* and how many steps are matched with it.  The trails are a tree, and a   *)
(* full trail, a leaf, is one walk and one reading of it.                  *)

Points == [at : Nat, vertex : Vertices, idx : 1..Len(call.seq)]

StartPoint(i) == [at |-> i, vertex |-> call.graph.order[i], idx |-> 1]

\* The point b may come after a on a trail that started at start_ts.
Follows(start_ts, a, b) ==
  /\ a.idx < Len(call.seq)
  /\ b.at \in OutEdges(a.vertex)
  /\ b.vertex = call.graph.edges[b.at].dst
  /\ EdgeTemporalOk(a.vertex, b.vertex, start_ts, call.graph.edges[b.at])
  /\ \/ b.idx = a.idx + 1 /\ Type(b.vertex) = call.seq[a.idx + 1].name
     \/ /\ b.idx = a.idx
        /\ Type(b.vertex) # call.seq[a.idx + 1].name \/ call.seq[a.idx + 1].kleene_plus

Trails ==
  {t \in Seq(Points) :
     /\ t # <<>>
     /\ \E i \in StartPositions : t[1] = StartPoint(i)
     /\ \A k \in 1..Len(t) - 1 : Follows(Time(t[1].vertex), t[k], t[k + 1])}

Full == {t \in Trails : Last(t).idx = Len(call.seq)}

\* The path of a trail, and the states that have come along it.
Events(t) == [k \in 1..Len(t) |-> t[k].vertex]

Stands(t, s) ==
  /\ s.path = Events(t)
  /\ s.idx = Last(t).idx
  /\ s.start_ts = Time(t[1].vertex)

\* The full trails that begin as t does, that go on from t by an edge of L,
\* and that start at a position of S.
Extends(T, t) == Len(t) <= Len(T) /\ \A k \in 1..Len(t) : T[k] = t[k]
Under(t) == {T \in Full : Extends(T, t)}
Via(t, L) == {T \in Full : Extends(T, t) /\ Len(t) < Len(T) /\ T[Len(t) + 1].at \in L}
From(S) == {T \in Full : T[1].at \in S}

LEMMA TrailTypes ==
  ASSUME NEW t \in Trails
  PROVE  /\ t \in Seq(Points) /\ Len(t) \in Nat \ {0}
         /\ \A k \in 1..Len(t) : t[k] \in Points
         /\ Last(t) = t[Len(t)] /\ Last(t) \in Points /\ t[1] \in Points
<1>1. t \in Seq(Points) /\ t # <<>>  BY DEF Trails
<1>2. Len(t) \in Nat \ {0}  BY <1>1, EmptySeq
<1>3. \A k \in 1..Len(t) : t[k] \in Points  BY <1>1, ElementOfSeq
<1>4. 1 \in 1..Len(t) /\ Len(t) \in 1..Len(t)  BY <1>2
<1> QED  BY <1>1, <1>2, <1>3, <1>4 DEF Last

\* A point that may follow makes a trail longer.
LEMMA TrailGrows ==
  ASSUME NEW t \in Trails, NEW b \in Points, Follows(Time(t[1].vertex), Last(t), b)
  PROVE  /\ Append(t, b) \in Trails
         /\ Len(Append(t, b)) = Len(t) + 1
         /\ \A k \in 1..Len(t) : Append(t, b)[k] = t[k]
         /\ Append(t, b)[Len(t) + 1] = b /\ Last(Append(t, b)) = b
<1> DEFINE u == Append(t, b)
<1>1. t \in Seq(Points) /\ Len(t) \in Nat \ {0} /\ Last(t) = t[Len(t)]  BY TrailTypes
<1>2. /\ u \in Seq(Points) /\ u # <<>> /\ Len(u) = Len(t) + 1
      /\ \A k \in 1..Len(t) : u[k] = t[k]
      /\ u[Len(t) + 1] = b
  BY <1>1, AppendProperties
<1> HIDE DEF u
<1>3. u[1] = t[1]  BY <1>1, <1>2
<1>4. \E i \in StartPositions : u[1] = StartPoint(i)  BY <1>3 DEF Trails
<1>5. ASSUME NEW k \in 1..Len(u) - 1
      PROVE  Follows(Time(u[1].vertex), u[k], u[k + 1])
  <2>1. CASE k < Len(t)
    <3>1. k \in 1..Len(t) - 1 /\ u[k] = t[k] /\ u[k + 1] = t[k + 1]
      BY <1>1, <1>2, <2>1
    <3> QED  BY <1>3, <3>1 DEF Trails
  <2>2. CASE k = Len(t)
    <3>1. u[k] = Last(t) /\ u[k + 1] = b  BY <1>1, <1>2, <2>2
    <3> QED  BY <1>3, <3>1
  <2> QED  BY <1>1, <1>2, <2>1, <2>2
<1>6. u \in Trails  BY <1>2, <1>4, <1>5 DEF Trails
<1>7. Last(u) = b  BY <1>2 DEF Last
<1> QED  BY <1>2, <1>6, <1>7 DEF u

\* Two points of a full trail that come one after the other.
LEMMA FullFollows ==
  ASSUME NEW T \in Full, NEW n \in Nat \ {0}, n < Len(T)
  PROVE  Follows(Time(T[1].vertex), T[n], T[n + 1]) /\ T[n + 1] \in Points
<1>1. T \in Trails  BY DEF Full
<1>2. Len(T) \in Nat  BY <1>1, TrailTypes
<1>3. n \in 1..Len(T) - 1 /\ n + 1 \in 1..Len(T)  BY <1>2
<1> QED  BY <1>1, <1>3, TrailTypes DEF Trails

\* Where a trail that is not full goes on, and where a full one ends.
LEMMA UnderEnds ==
  ASSUME IsCall(call), NEW t \in Trails
  PROVE  /\ Last(t).idx < Len(call.seq) => Under(t) = Via(t, OutEdges(Last(t).vertex))
         /\ Last(t).idx = Len(call.seq) => t \in Full /\ Under(t) = {t}
<1>1. Len(t) \in Nat \ {0} /\ Last(t) = t[Len(t)] /\ t \in Seq(Points)  BY TrailTypes
<1>2. ASSUME NEW T \in Full
      PROVE  Len(T) \in Nat \ {0} /\ Last(T) = T[Len(T)] /\ T \in Seq(Points) /\ T[Len(T)].idx = Len(call.seq)
  BY <1>2, TrailTypes DEF Full
<1>3. Len(call.seq) \in Nat  BY CallTypes
<1>4. ASSUME NEW T \in Full, Extends(T, t), Len(t) < Len(T)
      PROVE  Last(t).idx < Len(call.seq) /\ T[Len(t) + 1].at \in OutEdges(Last(t).vertex)
  <2>1. Follows(Time(T[1].vertex), T[Len(t)], T[Len(t) + 1])  BY <1>1, <1>4, FullFollows
  <2>2. T[Len(t)] = Last(t)  BY <1>1, <1>4 DEF Extends
  <2> QED  BY <2>1, <2>2 DEF Follows
<1>5. ASSUME Last(t).idx < Len(call.seq)
      PROVE  Under(t) = Via(t, OutEdges(Last(t).vertex))
  <2> SUFFICES ASSUME NEW T \in Full, Extends(T, t)
               PROVE  Len(t) < Len(T)
    BY <1>4 DEF Under, Via
  <2>1. Len(t) <= Len(T) /\ T[Len(t)] = t[Len(t)]  BY <1>1 DEF Extends
  <2>2. Len(t) # Len(T)  BY <1>1, <1>2, <1>3, <1>5, <2>1
  <2> QED  BY <1>1, <1>2, <2>1, <2>2
<1>6. ASSUME Last(t).idx = Len(call.seq)
      PROVE  t \in Full /\ Under(t) = {t}
  <2>1. t \in Full  BY <1>6 DEF Full
  <2>2. Extends(t, t)  BY <1>1 DEF Extends
  <2>3. ASSUME NEW T \in Full, Extends(T, t)
        PROVE  T = t
    <3>1. ~(Len(t) < Len(T))  BY <1>3, <1>4, <1>6, <2>3
    <3>2. Len(t) = Len(T) /\ \A k \in 1..Len(T) : T[k] = t[k]
      BY <1>1, <1>2, <2>3, <3>1 DEF Extends
    <3> QED  BY <1>1, <1>2, <3>2, SeqEqual
  <2> QED  BY <2>1, <2>2, <2>3 DEF Under
<1> QED  BY <1>5, <1>6

\* The trails from a start position.
LEMMA StartTrail ==
  ASSUME IsCall(call), NEW i \in StartPositions
  PROVE  /\ <<StartPoint(i)>> \in Trails
         /\ Stands(<<StartPoint(i)>>, StartState(i))
         /\ Under(<<StartPoint(i)>>) = From({i})
<1> DEFINE p == StartPoint(i)
           t == <<p>>
<1>1. call.graph.order[i] \in Vertices /\ 1 \in 1..Len(call.seq)
  BY CallTypes DEF StartPositions
<1>2. i \in Nat
  <2>1. call.graph.order \in Seq(Vertices)  BY DEF IsCall, IsGraph, Vertices
  <2> QED  BY <2>1, LenProperties DEF StartPositions
<1>3. p \in Points  BY <1>1, <1>2 DEF StartPoint, Points
<1>4. p.at = i /\ p.vertex = call.graph.order[i] /\ p.idx = 1  BY DEF StartPoint
<1> HIDE DEF p
<1>5. t \in Seq(Points) /\ Len(t) = 1 /\ t[1] = p /\ t # <<>>  BY <1>3
<1>6. t \in Trails  BY <1>5 DEF Trails, p
<1>7. Stands(t, StartState(i))
  <2>1. Events(t) = <<call.graph.order[i]>>  BY <1>4, <1>5 DEF Events
  <2>2. Last(t) = p  BY <1>5 DEF Last
  <2> QED  BY <1>4, <1>5, <2>1, <2>2 DEF Stands, StartState, State
<1>8. ASSUME NEW T \in Full
      PROVE  Extends(T, t) <=> T[1].at = i
  <2>1. T \in Trails  BY DEF Full
  <2>2. Len(T) \in Nat \ {0}  BY <2>1, TrailTypes
  <2>3. PICK j \in StartPositions : T[1] = StartPoint(j)  BY <2>1 DEF Trails
  <2>4. T[1].at = j  BY <2>3 DEF StartPoint
  <2>5. T[1] = p <=> j = i  BY <1>4, <2>3, <2>4 DEF p
  <2> QED  BY <1>5, <2>2, <2>4, <2>5 DEF Extends
<1>9. Under(t) = From({i})  BY <1>8 DEF Under, From
<1> QED  BY <1>6, <1>7, <1>9 DEF p

\* The last event of a state that has come along a trail, and its steps.
LEMMA StandsLast ==
  ASSUME NEW t \in Trails, NEW s, Stands(t, s)
  PROVE  /\ Len(s.path) = Len(t)
         /\ Last(s.path) = Last(t).vertex
         /\ s.path[1] = t[1].vertex
         /\ s.path \in Seq(Vertices) /\ s.idx \in 1..Len(call.seq)
<1>1. /\ Len(t) \in Nat \ {0} /\ Last(t) = t[Len(t)] /\ Last(t) \in Points
      /\ \A k \in 1..Len(t) : t[k] \in Points
  BY TrailTypes
<1>2. \A k \in 1..Len(t) : t[k].vertex \in Vertices  BY <1>1 DEF Points
<1>3. s.path = [k \in 1..Len(t) |-> t[k].vertex]  BY DEF Stands, Events
<1>4. s.path \in [1..Len(t) -> Vertices]  BY <1>2, <1>3
<1>5. Len(s.path) = Len(t) /\ s.path \in Seq(Vertices)  BY <1>1, <1>4, SeqDef
<1>6. s.path[Len(t)] = t[Len(t)].vertex /\ s.path[1] = t[1].vertex  BY <1>1, <1>3
<1> QED  BY <1>1, <1>5, <1>6 DEF Last, Stands, Points

\* The point an edge brings a state to, by one of its moves.
Branch(s, i, m) ==
  [at |-> i, vertex |-> call.graph.edges[i].dst, idx |-> s.idx + Moves(s, call.graph.edges[i])[m]]

\* The points after a trail along an edge are those of the moves.
LEMMA Branches ==
  ASSUME IsCall(call), NEW t \in Trails, NEW s, Stands(t, s), s.idx < Len(call.seq),
         NEW i \in OutEdges(Last(s.path))
  PROVE  /\ DOMAIN Moves(s, call.graph.edges[i]) \in {{}, {1}, {1, 2}}
         /\ \A m \in DOMAIN Moves(s, call.graph.edges[i]) :
              Branch(s, i, m) \in Points /\ Follows(Time(t[1].vertex), Last(t), Branch(s, i, m))
         /\ \A b \in Points :
              b.at = i /\ Follows(Time(t[1].vertex), Last(t), b) =>
                \E m \in DOMAIN Moves(s, call.graph.edges[i]) : b = Branch(s, i, m)
         /\ \A m, n \in DOMAIN Moves(s, call.graph.edges[i]) :
              Branch(s, i, m) = Branch(s, i, n) => m = n
<1> DEFINE e == call.graph.edges[i]
           d == e.dst
           a == Last(t)
           st == Time(t[1].vertex)
           ok == EdgeTemporalOk(a.vertex, d, st, e)
           match == Type(d) = call.seq[a.idx + 1].name
           many == call.seq[a.idx + 1].kleene_plus
           M == Moves(s, e)
<1>1. /\ a \in Points /\ Last(s.path) = a.vertex /\ s.idx = a.idx
      /\ a.idx \in 1..Len(call.seq) /\ a.idx < Len(call.seq) /\ s.start_ts = st
  <2>1. a \in Points  BY TrailTypes
  <2>2. Last(s.path) = a.vertex /\ s.idx \in 1..Len(call.seq)  BY StandsLast
  <2> QED  BY <2>1, <2>2 DEF Stands
<1>2. Len(call.seq) \in Nat  BY CallTypes
<1>3. M = IF ~ok THEN <<>>
          ELSE IF ~match THEN <<0>>
          ELSE IF many THEN <<0, 1>> ELSE <<1>>
  BY <1>1 DEF Moves, TypeMatch
<1>4. i \in Nat
  <2>1. call.graph.edges \in Seq(Edge)  BY DEF IsCall, IsGraph
  <2> QED  BY <2>1, LenProperties DEF OutEdges
<1>5. ok => d \in Vertices  BY DEF EdgeTemporalOk
<1>6. \A m : /\ Branch(s, i, m).at = i
             /\ Branch(s, i, m).vertex = d
             /\ Branch(s, i, m).idx = a.idx + M[m]
  BY <1>1 DEF Branch
<1>7. ASSUME NEW b \in Points, b.at = i
      PROVE  Follows(st, a, b) <=>
               /\ b.vertex = d /\ ok
               /\ \/ b.idx = a.idx + 1 /\ match
                  \/ b.idx = a.idx /\ (~match \/ many)
  <2>1. i \in OutEdges(a.vertex)  BY <1>1
  <2> QED  BY <1>1, <1>7, <2>1 DEF Follows
<1>8. ASSUME NEW x \in {0, 1}, ok
      PROVE  [at |-> i, vertex |-> d, idx |-> a.idx + x] \in Points
  <2>1. a.idx + x \in 1..Len(call.seq)  BY <1>1, <1>2
  <2> HIDE DEF d, a
  <2> QED  BY <1>4, <1>5, <1>8, <2>1 DEF Points
<1>9. \A m : Branch(s, i, m) = [at |-> i, vertex |-> d, idx |-> a.idx + M[m]]
  BY <1>1 DEF Branch
<1>10. \A b \in Points : b.at = i /\ b.vertex = d => \A x : b.idx = a.idx + x =>
          b = [at |-> i, vertex |-> d, idx |-> a.idx + x]
  BY DEF Points
<1> HIDE DEF e, d, a, st, ok, match, many, M
<1>11. CASE ~ok
  <2>1. DOMAIN M = {}  BY <1>3, <1>11
  <2>2. \A b \in Points : b.at = i => ~Follows(st, a, b)  BY <1>7, <1>11
  <2> QED  BY <2>1, <2>2 DEF M, e, a, st
<1>12. CASE ok /\ (~match \/ ~many)
  <2>1. M \in {<<0>>, <<1>>} /\ DOMAIN M = {1} /\ M[1] \in {0, 1}
        /\ (match <=> M[1] = 1) /\ (~match <=> M[1] = 0)
    <3>1. CASE match
      <4>1. M = <<1>>  BY <1>3, <1>12, <3>1
      <4> QED  BY <3>1, <4>1
    <3>2. CASE ~match
      <4>1. M = <<0>>  BY <1>3, <1>12, <3>2
      <4> QED  BY <3>2, <4>1
    <3> QED  BY <3>1, <3>2
  <2>2. Branch(s, i, 1) \in Points  BY <1>8, <1>9, <1>12, <2>1
  <2>3. Follows(st, a, Branch(s, i, 1))
    <3>1. CASE match
      <4>1. Branch(s, i, 1).idx = a.idx + 1  BY <1>6, <2>1, <3>1
      <4> QED  BY <1>6, <1>7, <1>12, <2>2, <3>1, <4>1
    <3>2. CASE ~match
      <4>1. Branch(s, i, 1).idx = a.idx  BY <1>1, <1>6, <2>1, <3>2
      <4> QED  BY <1>6, <1>7, <1>12, <2>2, <3>2, <4>1
    <3> QED  BY <3>1, <3>2
  <2>4. ASSUME NEW b \in Points, b.at = i, Follows(st, a, b)
        PROVE  b = Branch(s, i, 1)
    <3>1. b.vertex = d /\ b.idx = a.idx + M[1]  BY <1>1, <1>7, <1>12, <2>1, <2>4
    <3> QED  BY <1>9, <1>10, <2>4, <3>1
  <2> QED  BY <2>1, <2>2, <2>3, <2>4 DEF M, e, a, st
<1>13. CASE ok /\ match /\ many
  <2>1. M = <<0, 1>>  BY <1>3, <1>13
  <2>2. DOMAIN M = {1, 2} /\ M[1] = 0 /\ M[2] = 1  BY <2>1
  <2>3. \A m \in {1, 2} : Branch(s, i, m) \in Points  BY <1>8, <1>9, <1>13, <2>2
  <2>4. Branch(s, i, 1).idx = a.idx /\ Branch(s, i, 2).idx = a.idx + 1  BY <1>1, <1>6, <2>2
  <2>5. \A m \in {1, 2} : Follows(st, a, Branch(s, i, m))
    BY <1>6, <1>7, <1>13, <2>3, <2>4
  <2>6. ASSUME NEW b \in Points, b.at = i, Follows(st, a, b)
        PROVE  \E m \in {1, 2} : b = Branch(s, i, m)
    <3>1. b.vertex = d /\ (b.idx = a.idx + 1 \/ b.idx = a.idx)  BY <1>7, <2>6
    <3>2. b.idx = a.idx + M[1] \/ b.idx = a.idx + M[2]  BY <1>1, <2>2, <3>1
    <3> QED  BY <1>9, <1>10, <2>6, <3>1, <3>2
  <2>7. Branch(s, i, 1) # Branch(s, i, 2)  BY <1>1, <2>4
  <2> QED  BY <2>2, <2>3, <2>5, <2>6, <2>7 DEF M, e, a, st
<1> QED  BY <1>11, <1>12, <1>13

\* Along an edge the full trails of a state are shared out, without overlap,
\* among the states it leads to.
LEMMA Shared ==
  ASSUME IsCall(call), NEW t \in Trails, NEW s, Stands(t, s), s.idx < Len(call.seq),
         NEW i \in OutEdges(Last(s.path))
  PROVE  LET M == Moves(s, call.graph.edges[i])
             u(m) == Append(t, Branch(s, i, m))
         IN  /\ DOMAIN M \in {{}, {1}, {1, 2}}
             /\ \A m \in DOMAIN M : /\ u(m) \in Trails
                                    /\ Stands(u(m), Along(s, call.graph.edges[i])[m])
                                    /\ Under(u(m)) \subseteq Via(t, {i})
             /\ \A T \in Via(t, {i}) : \E m \in DOMAIN M : T \in Under(u(m))
             /\ \A m, n \in DOMAIN M : m # n => Under(u(m)) \cap Under(u(n)) = {}
<1> DEFINE M == Moves(s, call.graph.edges[i])
           b(m) == Branch(s, i, m)
           u(m) == Append(t, b(m))
           st == Time(t[1].vertex)
<1>1. /\ DOMAIN M \in {{}, {1}, {1, 2}}
      /\ \A m \in DOMAIN M : b(m) \in Points /\ Follows(st, Last(t), b(m))
      /\ \A c \in Points : c.at = i /\ Follows(st, Last(t), c) =>
                             \E m \in DOMAIN M : c = b(m)
      /\ \A m, n \in DOMAIN M : b(m) = b(n) => m = n
  BY Branches
<1>2. Len(t) \in Nat \ {0} /\ Last(t) = t[Len(t)]  BY TrailTypes
<1>3. \A m : b(m).at = i /\ b(m).vertex = call.graph.edges[i].dst
             /\ b(m).idx = s.idx + M[m]
  BY DEF Branch
<1> HIDE DEF b
<1>4. ASSUME NEW m \in DOMAIN M
      PROVE  /\ u(m) \in Trails /\ Len(u(m)) = Len(t) + 1
             /\ \A k \in 1..Len(t) : u(m)[k] = t[k]
             /\ u(m)[Len(t) + 1] = b(m) /\ Last(u(m)) = b(m)
  BY <1>1, TrailGrows
<1>5. ASSUME NEW m \in DOMAIN M
      PROVE  Stands(u(m), Along(s, call.graph.edges[i])[m])
  <2> DEFINE d == call.graph.edges[i].dst
             p == Append(s.path, d)
  <2>1. Along(s, call.graph.edges[i])[m] = State(p, s.idx + M[m], s.start_ts)
    BY DEF Along
  <2>2. /\ s.path \in Seq(Vertices) /\ Len(s.path) = Len(t)
        /\ s.path = [k \in 1..Len(t) |-> t[k].vertex]
    BY StandsLast DEF Stands, Events
  <2>3. d \in Vertices  BY <1>1, <1>3 DEF Points
  <2>4. /\ p \in Seq(Vertices) /\ Len(p) = Len(t) + 1
        /\ \A k \in 1..Len(t) : p[k] = s.path[k]
        /\ p[Len(t) + 1] = d
    BY <2>2, <2>3, AppendProperties
  <2> HIDE DEF p, d
  <2>5. p = [k \in 1..Len(t) + 1 |-> p[k]]
    BY <1>2, <2>4, LenProperties
  <2> DEFINE w == u(m)
  <2>6. /\ Len(w) = Len(t) + 1 /\ (\A k \in 1..Len(t) : w[k] = t[k])
        /\ w[Len(t) + 1] = b(m) /\ Last(w) = b(m)
    BY <1>4
  <2> HIDE DEF w
  <2>7. ASSUME NEW k \in 1..Len(t) + 1
        PROVE  p[k] = w[k].vertex
    <3>1. CASE k \in 1..Len(t)  BY <2>2, <2>4, <2>6, <3>1
    <3>2. CASE k = Len(t) + 1  BY <1>3, <2>4, <2>6, <3>2 DEF d
    <3> QED  BY <1>2, <3>1, <3>2
  <2>8. p = Events(w)  BY <2>5, <2>6, <2>7 DEF Events
  <2>9. w[1] = t[1]  BY <1>2, <2>6
  <2> DEFINE n == s.idx + M[m]
  <2>10. Last(w).idx = n  BY <1>3, <2>6
  <2> HIDE DEF n
  <2>11. Stands(w, State(p, n, s.start_ts))  BY <2>8, <2>9, <2>10 DEF Stands, State
  <2> QED  BY <2>1, <2>11 DEF w, n
<1>6. ASSUME NEW m \in DOMAIN M, NEW T \in Full
      PROVE  Extends(T, u(m)) <=>
               Extends(T, t) /\ Len(t) < Len(T) /\ T[Len(t) + 1] = b(m)
  <2> DEFINE w == u(m)
  <2>1. /\ Len(w) = Len(t) + 1 /\ (\A k \in 1..Len(t) : w[k] = t[k]) /\ w[Len(t) + 1] = b(m)
    BY <1>4
  <2> HIDE DEF w
  <2>2. Len(T) \in Nat  BY TrailTypes DEF Full
  <2>3. ASSUME Extends(T, w)
        PROVE  Extends(T, t) /\ Len(t) < Len(T) /\ T[Len(t) + 1] = b(m)
    <3>1. Len(w) <= Len(T) /\ \A k \in 1..Len(w) : T[k] = w[k]  BY <2>3 DEF Extends
    <3>2. Len(t) + 1 \in 1..Len(w) /\ \A k \in 1..Len(t) : k \in 1..Len(w)  BY <1>2, <2>1
    <3> QED  BY <1>2, <2>1, <2>2, <3>1, <3>2 DEF Extends
  <2>4. ASSUME Extends(T, t), Len(t) < Len(T), T[Len(t) + 1] = b(m)
        PROVE  Extends(T, w)
    <3>1. \A k \in 1..Len(w) : k \in 1..Len(t) \/ k = Len(t) + 1  BY <1>2, <2>1
    <3> QED  BY <1>2, <2>1, <2>2, <2>4, <3>1 DEF Extends
  <2> QED  BY <2>3, <2>4 DEF w
<1>7. ASSUME NEW m \in DOMAIN M
      PROVE  Under(u(m)) \subseteq Via(t, {i})
  BY <1>3, <1>6 DEF Under, Via
<1>8. ASSUME NEW T \in Via(t, {i})
      PROVE  \E m \in DOMAIN M : T \in Under(u(m))
  <2>1. T \in Full /\ Extends(T, t) /\ Len(t) < Len(T) /\ T[Len(t) + 1].at = i
    BY DEF Via
  <2>2. T[1] = t[1] /\ T[Len(t)] = Last(t)  BY <1>2, <2>1 DEF Extends
  <2>3. Follows(st, Last(t), T[Len(t) + 1]) /\ T[Len(t) + 1] \in Points
    BY <1>2, <2>1, <2>2, FullFollows
  <2>4. PICK m \in DOMAIN M : T[Len(t) + 1] = b(m)  BY <1>1, <2>1, <2>3
  <2> QED  BY <1>6, <2>1, <2>4 DEF Under
<1>9. ASSUME NEW m \in DOMAIN M, NEW n \in DOMAIN M, m # n
      PROVE  Under(u(m)) \cap Under(u(n)) = {}
  BY <1>1, <1>6, <1>9 DEF Under
<1> QED  BY <1>1, <1>4, <1>5, <1>7, <1>8, <1>9 DEF b

----------------------------------------------------------------------------
(* Owners: every full trail is in the hands of exactly one part of the     *)
(* search, which is yet to emit it or has emitted it.  A frame of the      *)
(* stack is numbered from the bottom, so that it keeps its number.         *)

Slots == {"unstarted", "queued", "seed", "frame", "emitted"} \X Nat

Owners == [Full -> Slots]

Owned(owner, slot) == {T \in Full : owner[T] = slot}

\* The start vertices still to be examined own the trails from them, ...
StartAccount(owner, S) ==
  \A k \in Nat : Owned(owner, <<"unstarted", k>>) = IF k = 0 THEN From(S) ELSE {}

\* ... a state of the queue those of its own trail, or of the edges l left once
\* it is taken up, ...
QueuedAccount(owner, k, s, h, l) ==
  \E t \in Trails :
    /\ Stands(t, s)
    /\ Owned(owner, <<"queued", k>>) =
         IF h < k THEN Under(t) ELSE IF h = k THEN Via(t, l) ELSE {}

QueueAccount(owner, q, h, l) ==
  \A k \in Nat : IF k \in 1..Len(q) THEN QueuedAccount(owner, k, q[k], h, l)
                 ELSE Owned(owner, <<"queued", k>>) = {}

\* ... a seed those of its own trail until it is taken up, ...
SeededAccount(owner, k, path, n) ==
  \E t \in Trails :
    /\ path = Events(t) /\ Last(t).idx = PrefixLen
    /\ Owned(owner, <<"seed", k>>) = IF n < k THEN Under(t) ELSE {}

SeedAccount(owner, q, n) ==
  \A k \in Nat : IF k \in 1..Len(q) THEN SeededAccount(owner, k, q[k], n)
                 ELSE Owned(owner, <<"seed", k>>) = {}

\* ... a call of dfs() those of its own trail, or of the edges left once it has
\* begun, ...
FrameAccount(owner, d, f) ==
  \E t \in Trails :
    /\ Stands(t, f.state)
    /\ Owned(owner, <<"frame", d>>) = IF f.begun THEN Via(t, f.left) ELSE Under(t)

StackAccount(owner, st) ==
  \A d \in Nat :
    IF d \in 1..Len(st) THEN FrameAccount(owner, d, st[Len(st) + 1 - d])
    ELSE Owned(owner, <<"frame", d>>) = {}

\* ... and a path emitted one full trail of that path.
EmittedAccount(owner, k, path) ==
  \E t \in Full : path = Events(t) /\ Owned(owner, <<"emitted", k>>) = {t}

OutAccount(owner, q) ==
  \A k \in Nat : IF k \in 1..Len(q) THEN EmittedAccount(owner, k, q[k])
                 ELSE Owned(owner, <<"emitted", k>>) = {}

\* The owners of one kind are left alone.
SameArea(o2, owner, area) ==
  \A k \in Nat : Owned(o2, <<area, k>>) = Owned(owner, <<area, k>>)

LEMMA AreasKept ==
  ASSUME NEW o2, NEW owner
  PROVE  /\ \A S : StartAccount(owner, S) /\ SameArea(o2, owner, "unstarted") => StartAccount(o2, S)
         /\ \A q, h, l : QueueAccount(owner, q, h, l) /\ SameArea(o2, owner, "queued")
                           => QueueAccount(o2, q, h, l)
         /\ \A q, n : SeedAccount(owner, q, n) /\ SameArea(o2, owner, "seed")
                        => SeedAccount(o2, q, n)
         /\ \A st : StackAccount(owner, st) /\ SameArea(o2, owner, "frame")
                      => StackAccount(o2, st)
         /\ \A q : OutAccount(owner, q) /\ SameArea(o2, owner, "emitted") => OutAccount(o2, q)
<1>1. ASSUME NEW S, StartAccount(owner, S), SameArea(o2, owner, "unstarted")
      PROVE  StartAccount(o2, S)
  BY <1>1 DEF StartAccount, SameArea
<1>2. ASSUME NEW q, NEW h, NEW l, QueueAccount(owner, q, h, l), SameArea(o2, owner, "queued")
      PROVE  QueueAccount(o2, q, h, l)
  BY <1>2 DEF QueueAccount, QueuedAccount, SameArea
<1>3. ASSUME NEW q, NEW n, SeedAccount(owner, q, n), SameArea(o2, owner, "seed")
      PROVE  SeedAccount(o2, q, n)
  BY <1>3 DEF SeedAccount, SeededAccount, SameArea
<1>4. ASSUME NEW st, StackAccount(owner, st), SameArea(o2, owner, "frame")
      PROVE  StackAccount(o2, st)
  BY <1>4 DEF StackAccount, FrameAccount, SameArea
<1>5. ASSUME NEW q, OutAccount(owner, q), SameArea(o2, owner, "emitted")
      PROVE  OutAccount(o2, q)
  BY <1>5 DEF OutAccount, EmittedAccount, SameArea
<1> QED  BY <1>1, <1>2, <1>3, <1>4, <1>5

\* Part of what the owner a has, B and C, goes to b and to c.
Hands(o2, owner, a, b, B, c, C) ==
  /\ Owned(o2, a) = Owned(owner, a) \ (B \cup C)
  /\ Owned(o2, b) = B /\ Owned(o2, c) = C
  /\ \A x \in Slots : x \notin {a, b, c} => Owned(o2, x) = Owned(owner, x)

\* It can, if they have nothing.
LEMMA Handed ==
  ASSUME NEW owner \in Owners, NEW a \in Slots, NEW b \in Slots, NEW c \in Slots,
         a # b, a # c, b # c, Owned(owner, b) = {}, Owned(owner, c) = {},
         NEW B, NEW C, B \subseteq Owned(owner, a), C \subseteq Owned(owner, a), B \cap C = {}
  PROVE  \E o2 \in Owners : Hands(o2, owner, a, b, B, c, C)
<1> DEFINE o2 == [T \in Full |-> IF T \in B THEN b ELSE IF T \in C THEN c ELSE owner[T]]
<1>1. B \subseteq Full /\ C \subseteq Full  BY DEF Owned
<1>2. o2 \in Owners  BY DEF Owners
<1>3. \A T \in B \cup C : owner[T] = a  BY DEF Owned
<1>4. \A T \in Full : o2[T] = IF T \in B THEN b ELSE IF T \in C THEN c ELSE owner[T]
  OBVIOUS
<1> HIDE DEF o2
<1>5. Owned(o2, a) = Owned(owner, a) \ (B \cup C)  BY <1>4 DEF Owned
<1>6. Owned(o2, b) = B  BY <1>1, <1>4 DEF Owned
<1>7. Owned(o2, c) = C  BY <1>1, <1>4 DEF Owned
<1>8. \A x \in Slots : x \notin {a, b, c} => Owned(o2, x) = Owned(owner, x)
  BY <1>3, <1>4 DEF Owned
<1> QED  BY <1>2, <1>5, <1>6, <1>7, <1>8 DEF Hands

\* Of the trails t has by the edges L, those along i go to the slots of b: to
\* b[m] those of the m-th state i leads to.
Deals(o2, owner, a, b, t, s, L, i) ==
  /\ Owned(o2, a) = Via(t, L \ {i})
  /\ \A m \in {1, 2} :
       IF m \in DOMAIN Along(s, call.graph.edges[i])
         THEN \E u \in Trails : /\ Stands(u, Along(s, call.graph.edges[i])[m])
                                /\ Owned(o2, b[m]) = Under(u)
         ELSE Owned(o2, b[m]) = {}
  /\ \A x \in Slots : x \notin {a, b[1], b[2]} => Owned(o2, x) = Owned(owner, x)

\* Examining an edge hands the trails along it to the states it leads to.
LEMMA EdgeHands ==
  ASSUME IsCall(call), NEW t \in Trails, NEW s, Stands(t, s), s.idx < Len(call.seq),
         NEW L, L \subseteq OutEdges(Last(s.path)), NEW i \in L,
         NEW owner \in Owners, NEW a \in Slots, Owned(owner, a) = Via(t, L),
         NEW b \in [{1, 2} -> Slots], a # b[1], a # b[2], b[1] # b[2],
         Owned(owner, b[1]) = {}, Owned(owner, b[2]) = {}
  PROVE  \E o2 \in Owners : Deals(o2, owner, a, b, t, s, L, i)
<1> DEFINE e == call.graph.edges[i]
           M == Moves(s, e)
           u(m) == Append(t, Branch(s, i, m))
           Part(m) == IF m \in DOMAIN M THEN Under(u(m)) ELSE {}
<1>1. /\ DOMAIN M \in {{}, {1}, {1, 2}}
      /\ \A m \in DOMAIN M : u(m) \in Trails /\ Stands(u(m), Along(s, e)[m])
                             /\ Under(u(m)) \subseteq Via(t, {i})
      /\ \A T \in Via(t, {i}) : \E m \in DOMAIN M : T \in Under(u(m))
      /\ \A m, n \in DOMAIN M : m # n => Under(u(m)) \cap Under(u(n)) = {}
  BY Shared
<1>2. DOMAIN Along(s, e) = DOMAIN M  BY DEF Along
<1> HIDE DEF e, M, u
<1>3. Via(t, {i}) \subseteq Via(t, L) /\ Via(t, L) \ Via(t, {i}) = Via(t, L \ {i})
  BY DEF Via
<1>4. Part(1) \cup Part(2) = Via(t, {i}) /\ Part(1) \cap Part(2) = {}
  BY <1>1
<1> HIDE DEF Part
<1>8. b[1] \in Slots /\ b[2] \in Slots  OBVIOUS
<1>9. Part(1) \subseteq Owned(owner, a) /\ Part(2) \subseteq Owned(owner, a)  BY <1>3, <1>4
<1>5. PICK o2 \in Owners : Hands(o2, owner, a, b[1], Part(1), b[2], Part(2))
  BY <1>4, <1>8, <1>9, Handed
<1>6. Owned(o2, a) = Via(t, L \ {i})  BY <1>3, <1>4, <1>5 DEF Hands
<1>7. ASSUME NEW m \in {1, 2}
      PROVE  IF m \in DOMAIN Along(s, e)
               THEN \E w \in Trails : Stands(w, Along(s, e)[m]) /\ Owned(o2, b[m]) = Under(w)
               ELSE Owned(o2, b[m]) = {}
  <2>1. Owned(o2, b[m]) = Part(m)  BY <1>5 DEF Hands
  <2> QED  BY <1>1, <1>2, <2>1 DEF Part
<1> QED  BY <1>5, <1>6, <1>7 DEF e, Hands, Deals

\* The calls on top of the stack are accounted for apart from those below.
LEMMA StackParts ==
  ASSUME NEW S, NEW top \in Seq(S), NEW rest \in Seq(S), NEW owner
  PROVE  StackAccount(owner, top \o rest) <=>
           /\ \A d \in 1..Len(rest) : FrameAccount(owner, d, rest[Len(rest) + 1 - d])
           /\ \A j \in 1..Len(top) : FrameAccount(owner, Len(rest) + Len(top) + 1 - j, top[j])
           /\ \A d \in Nat : d \notin 1..Len(top) + Len(rest) => Owned(owner, <<"frame", d>>) = {}
<1> DEFINE st == top \o rest
           n == Len(top)
           r == Len(rest)
<1>1. /\ n \in Nat /\ r \in Nat /\ Len(st) = n + r
      /\ \A i \in 1..n + r : st[i] = IF i <= n THEN top[i] ELSE rest[i - n]
  BY LenProperties, ConcatProperties
<1> HIDE DEF st, n, r
<1>2. \A d \in 1..r : d \in 1..n + r /\ st[n + r + 1 - d] = rest[r + 1 - d]
  <2> SUFFICES ASSUME NEW d \in 1..r PROVE d \in 1..n + r /\ st[n + r + 1 - d] = rest[r + 1 - d]
    OBVIOUS
  <2>1. n + r + 1 - d \in 1..n + r /\ ~(n + r + 1 - d <= n) /\ (n + r + 1 - d) - n = r + 1 - d
    BY <1>1
  <2> QED  BY <1>1, <2>1
<1>3. \A j \in 1..n : /\ r + n + 1 - j \in 1..n + r
                      /\ n + r + 1 - (r + n + 1 - j) = j
                      /\ st[j] = top[j]
  BY <1>1
<1>4. \A d \in 1..n + r : d \in 1..r \/ (n + r + 1 - d \in 1..n /\ r + n + 1 - (n + r + 1 - d) = d)
  BY <1>1
<1>5. StackAccount(owner, st) <=>
        /\ \A d \in 1..n + r : FrameAccount(owner, d, st[n + r + 1 - d])
        /\ \A d \in Nat : d \notin 1..n + r => Owned(owner, <<"frame", d>>) = {}
  <2>1. \A d \in 1..n + r : d \in Nat  BY <1>1
  <2>2. StackAccount(owner, st) <=>
          \A d \in Nat : IF d \in 1..n + r THEN FrameAccount(owner, d, st[n + r + 1 - d])
                         ELSE Owned(owner, <<"frame", d>>) = {}
    BY <1>1 DEF StackAccount
  <2> QED  BY <2>1, <2>2
<1>6. (\A d \in 1..n + r : FrameAccount(owner, d, st[n + r + 1 - d])) <=>
        /\ \A d \in 1..r : FrameAccount(owner, d, rest[r + 1 - d])
        /\ \A j \in 1..n : FrameAccount(owner, r + n + 1 - j, top[j])
  <2>1. ASSUME \A d \in 1..n + r : FrameAccount(owner, d, st[n + r + 1 - d])
        PROVE  /\ \A d \in 1..r : FrameAccount(owner, d, rest[r + 1 - d])
               /\ \A j \in 1..n : FrameAccount(owner, r + n + 1 - j, top[j])
    <3>1. \A d \in 1..r : FrameAccount(owner, d, rest[r + 1 - d])  BY <1>2, <2>1
    <3>2. ASSUME NEW j \in 1..n
          PROVE  FrameAccount(owner, r + n + 1 - j, top[j])
      <4> DEFINE d == r + n + 1 - j
      <4>1. d \in 1..n + r /\ n + r + 1 - d = j /\ st[j] = top[j]  BY <1>3
      <4> HIDE DEF d
      <4>2. FrameAccount(owner, d, st[n + r + 1 - d])  BY <2>1, <4>1
      <4> QED  BY <4>1, <4>2 DEF d
    <3> QED  BY <3>1, <3>2
  <2>2. ASSUME \A d \in 1..r : FrameAccount(owner, d, rest[r + 1 - d]),
               \A j \in 1..n : FrameAccount(owner, r + n + 1 - j, top[j]),
               NEW d \in 1..n + r
        PROVE  FrameAccount(owner, d, st[n + r + 1 - d])
    <3>1. CASE d \in 1..r  BY <1>2, <2>2, <3>1
    <3>2. CASE d \notin 1..r
      <4> DEFINE j == n + r + 1 - d
      <4>1. j \in 1..n /\ r + n + 1 - j = d  BY <1>4, <3>2
      <4> HIDE DEF j
      <4>2. st[j] = top[j] /\ FrameAccount(owner, d, top[j])  BY <1>3, <2>2, <4>1
      <4> QED  BY <4>2 DEF j
    <3> QED  BY <3>1, <3>2
  <2> QED  BY <2>1, <2>2
<1> QED  BY <1>5, <1>6 DEF st, n, r

----------------------------------------------------------------------------
(* The invariant: as long as there is no overflow, every full trail has    *)
(* its owner.                                                              *)

\* The start positions still to be examined, at a point of the call.
ToStart(at, l) ==
  IF at = "called" THEN StartPositions ELSE IF at \in {"starts", "depth"} THEN l ELSE {}

Accounted(owner) ==
  /\ StartAccount(owner, ToStart(phase, left))
  /\ QueueAccount(owner, queue, head, IF phase = "breadth" THEN left ELSE {})
  /\ SeedAccount(owner, seeds, IF phase = "done" THEN Len(seeds) ELSE taken)
  /\ StackAccount(owner, stack)
  /\ OutAccount(owner, out)

\* The parts of the search that have not begun, or have ended, hold nothing.
Shape ==
  /\ phase \in {"called", "starts", "breadth"} => taken = 0 /\ stack = <<>> /\ out = <<>>
  /\ phase \in {"called", "depth", "done"} => head = Len(queue)
  /\ phase = "done" => stack = <<>>

ExactInv == overflow \/ (Shape /\ \E owner \in Owners : Accounted(owner))

\* The trails depend on the call only, and so do the accounts.
LEMMA AccountsKept ==
  ASSUME call' = call
  PROVE  /\ Owners' = Owners
         /\ \A at, l : ToStart(at, l)' = ToStart(at, l)
         /\ \A o, S : StartAccount(o, S)' <=> StartAccount(o, S)
         /\ \A o, q, h, l : QueueAccount(o, q, h, l)' <=> QueueAccount(o, q, h, l)
         /\ \A o, q, n : SeedAccount(o, q, n)' <=> SeedAccount(o, q, n)
         /\ \A o, st : StackAccount(o, st)' <=> StackAccount(o, st)
         /\ \A o, q : OutAccount(o, q)' <=> OutAccount(o, q)
<1>1. /\ StartPositions' = StartPositions /\ Vertices' = Vertices /\ PrefixLen' = PrefixLen
      /\ \A v : OutEdges(v)' = OutEdges(v)
  BY CallKept
<1>2. Points' = Points  BY <1>1 DEF Points
<1>3. \A i : StartPoint(i)' = StartPoint(i)  BY DEF StartPoint
<1>4. \A st, a, b : Follows(st, a, b)' <=> Follows(st, a, b)
  <2> SUFFICES ASSUME NEW st, NEW a, NEW b PROVE Follows(st, a, b)' <=> Follows(st, a, b)
    OBVIOUS
  <2>1. EdgeTemporalOk(a.vertex, b.vertex, st, call.graph.edges[b.at])'
          <=> EdgeTemporalOk(a.vertex, b.vertex, st, call.graph.edges[b.at])
    BY <1>1 DEF EdgeTemporalOk, Time
  <2>2. Type(b.vertex)' = Type(b.vertex)  BY DEF Type
  <2> QED  BY <1>1, <2>1, <2>2 DEF Follows
<1>5. \A v : Time(v)' = Time(v)  BY DEF Time
<1>6. Trails' = Trails  BY <1>1, <1>2, <1>3, <1>4, <1>5 DEF Trails
<1>7. Full' = Full  BY <1>6 DEF Full, Last
<1>8. \A t, s : Stands(t, s)' <=> Stands(t, s)  BY DEF Stands, Events, Last, Time
<1>9. /\ \A t : Under(t)' = Under(t) /\ \A L : Via(t, L)' = Via(t, L)
      /\ \A S : From(S)' = From(S)
      /\ \A o, x : Owned(o, x)' = Owned(o, x)
  BY <1>7 DEF Under, Via, From, Owned, Extends
<1>10. Owners' = Owners  BY <1>7 DEF Owners, Slots
<1>11. \A at, l : ToStart(at, l)' = ToStart(at, l)  BY <1>1 DEF ToStart
<1>12. \A o, S : StartAccount(o, S)' <=> StartAccount(o, S)  BY <1>9 DEF StartAccount
<1>13. \A o, q, h, l : QueueAccount(o, q, h, l)' <=> QueueAccount(o, q, h, l)
  BY <1>6, <1>8, <1>9 DEF QueueAccount, QueuedAccount
<1>14. \A o, q, n : SeedAccount(o, q, n)' <=> SeedAccount(o, q, n)
  <2>1. \A o, k, path, n : SeededAccount(o, k, path, n)' <=> SeededAccount(o, k, path, n)
    BY <1>1, <1>6, <1>9 DEF SeededAccount, Events, Last
  <2>2. \A o, x : Owned(o, x)' = Owned(o, x)  BY <1>9
  <2> QED  BY <2>1, <2>2 DEF SeedAccount
<1>15. \A o, d, f : FrameAccount(o, d, f)' <=> FrameAccount(o, d, f)
  BY <1>6, <1>8, <1>9 DEF FrameAccount
<1>16. \A o, st : StackAccount(o, st)' <=> StackAccount(o, st)
  BY <1>9, <1>15 DEF StackAccount
<1>17. \A o, q : OutAccount(o, q)' <=> OutAccount(o, q)
  BY <1>7, <1>9 DEF OutAccount, EmittedAccount, Events
<1> QED  BY <1>10, <1>11, <1>12, <1>13, <1>14, <1>16, <1>17

\* The invariant holds after a step if it does in terms of the trails before.
LEMMA ExactKept ==
  ASSUME call' = call, Shape', NEW o2 \in Owners,
         StartAccount(o2, ToStart(phase', left')),
         QueueAccount(o2, queue', head', IF phase' = "breadth" THEN left' ELSE {}),
         SeedAccount(o2, seeds', IF phase' = "done" THEN Len(seeds') ELSE taken'),
         StackAccount(o2, stack'),
         OutAccount(o2, out')
  PROVE  ExactInv'
<1>1. Owners' = Owners /\ \A at, l : ToStart(at, l)' = ToStart(at, l)  BY AccountsKept
<1>2. StartAccount(o2, ToStart(phase, left))'  BY <1>1, AccountsKept
<1>3. QueueAccount(o2, queue, head, IF phase = "breadth" THEN left ELSE {})'  BY AccountsKept
<1>4. SeedAccount(o2, seeds, IF phase = "done" THEN Len(seeds) ELSE taken)'  BY AccountsKept
<1>5. StackAccount(o2, stack)'  BY AccountsKept
<1>6. OutAccount(o2, out)'  BY AccountsKept
<1>7. Accounted(o2)'  BY <1>2, <1>3, <1>4, <1>5, <1>6 DEF Accounted
<1> QED  BY <1>1, <1>7 DEF ExactInv

----------------------------------------------------------------------------
(* Every step keeps the invariant, unless it overflows.                    *)

\* Only the areas of the slots of S are touched.
LEMMA OtherAreas ==
  ASSUME NEW o2, NEW owner, NEW S,
         \A x \in Slots : x \notin S => Owned(o2, x) = Owned(owner, x),
         NEW area \in {"unstarted", "queued", "seed", "frame", "emitted"},
         \A k \in Nat : <<area, k>> \notin S
  PROVE  SameArea(o2, owner, area)
  BY DEF SameArea, Slots

\* An array that does not spill takes everything.
LEMMA FilledUp ==
  ASSUME NEW S, NEW array \in Seq(S), NEW new \in Seq(S), ~Spills(array, new)
  PROVE  /\ Fill(array, new) = array \o new
         /\ Len(array \o new) = Len(array) + Len(new)
         /\ \A k \in 1..Len(array) : (array \o new)[k] = array[k]
         /\ \A m \in 1..Len(new) : (array \o new)[Len(array) + m] = new[m]
<1>1. Len(array) \in Nat /\ Len(new) \in Nat /\ MaxPaths \in Nat
  BY LenProperties, KernelAssumption
<1>2. Fill(array, new) = array \o new  BY <1>1 DEF Fill, Spills
<1>3. /\ Len(array \o new) = Len(array) + Len(new)
      /\ \A i \in 1..Len(array) + Len(new) :
           (array \o new)[i] = IF i <= Len(array) THEN array[i] ELSE new[i - Len(array)]
  BY ConcatProperties
<1>4. \A k \in 1..Len(array) : (array \o new)[k] = array[k]  BY <1>1, <1>3
<1>5. ASSUME NEW m \in 1..Len(new)
      PROVE  (array \o new)[Len(array) + m] = new[m]
  <2>1. /\ Len(array) + m \in 1..Len(array) + Len(new) /\ ~(Len(array) + m <= Len(array))
        /\ (Len(array) + m) - Len(array) = m
    BY <1>1
  <2> QED  BY <1>3, <2>1
<1> QED  BY <1>2, <1>3, <1>4, <1>5

\* What an array of one entry more holds.
LEMMA OneMore ==
  ASSUME NEW S, NEW array \in Seq(S), NEW x \in S, ~Spills(array, <<x>>)
  PROVE  /\ Len(Fill(array, <<x>>)) = Len(array) + 1
         /\ \A k \in 1..Len(array) : Fill(array, <<x>>)[k] = array[k]
         /\ Fill(array, <<x>>)[Len(array) + 1] = x
<1> DEFINE new == <<x>>
<1>1. new \in Seq(S) /\ Len(new) = 1 /\ new[1] = x  OBVIOUS
<1>2. ~Spills(array, new)  OBVIOUS
<1> HIDE DEF new
<1>3. /\ Fill(array, new) = array \o new
      /\ Len(array \o new) = Len(array) + Len(new)
      /\ \A k \in 1..Len(array) : (array \o new)[k] = array[k]
      /\ \A m \in 1..Len(new) : (array \o new)[Len(array) + m] = new[m]
  BY <1>1, <1>2, FilledUp
<1>4. 1 \in 1..Len(new)  BY <1>1
<1>5. (array \o new)[Len(array) + 1] = x  BY <1>1, <1>3, <1>4
<1> QED  BY <1>1, <1>3, <1>5 DEF new

\* What is owned by nobody but the parts of the search: there is always a
\* slot with nothing.
LEMMA Spare ==
  ASSUME NEW owner, NEW S, StartAccount(owner, S)
  PROVE  <<"unstarted", 1>> \in Slots /\ Owned(owner, <<"unstarted", 1>>) = {}
  BY DEF StartAccount, Slots

\* Part of what the owner a has, B, goes to b.
Passes(o2, owner, a, b, B) ==
  /\ Owned(o2, a) = Owned(owner, a) \ B
  /\ Owned(o2, b) = B
  /\ \A x \in Slots : x \notin {a, b} => Owned(o2, x) = Owned(owner, x)

\* It can, if b has nothing.
LEMMA Passed ==
  ASSUME NEW owner \in Owners, NEW S, StartAccount(owner, S),
         NEW a \in Slots, NEW b \in Slots, a # b, a # <<"unstarted", 1>>, b # <<"unstarted", 1>>,
         Owned(owner, b) = {}, NEW B, B \subseteq Owned(owner, a)
  PROVE  \E o2 \in Owners : Passes(o2, owner, a, b, B)
<1> DEFINE c == <<"unstarted", 1>>
<1>1. c \in Slots /\ Owned(owner, c) = {}  BY Spare
<1>2. a # c /\ b # c  OBVIOUS
<1> HIDE DEF c
<1> DEFINE C == {}
<1>3. C \subseteq Owned(owner, a) /\ B \cap C = {}  OBVIOUS
<1> HIDE DEF C
<1>4. PICK o2 \in Owners : Hands(o2, owner, a, b, B, c, C)
  BY <1>1, <1>2, <1>3, Handed
<1>5. Owned(o2, c) = Owned(owner, c)  BY <1>1, <1>4 DEF Hands, C
<1> QED  BY <1>4, <1>5 DEF Hands, Passes, C

\* All that the seeds own can be emitted at once, if nothing has been.
LEMMA Returned ==
  ASSUME NEW owner \in Owners, \A k \in Nat : Owned(owner, <<"emitted", k>>) = {}
  PROVE  \E o2 \in Owners :
           /\ \A k \in Nat : /\ Owned(o2, <<"emitted", k>>) = Owned(owner, <<"seed", k>>)
                             /\ Owned(o2, <<"seed", k>>) = {}
           /\ SameArea(o2, owner, "unstarted") /\ SameArea(o2, owner, "queued")
           /\ SameArea(o2, owner, "frame")
<1> DEFINE At(T) == CHOOSE k \in Nat : owner[T] = <<"seed", k>>
           o2 == [T \in Full |-> IF \E k \in Nat : owner[T] = <<"seed", k>>
                                   THEN <<"emitted", At(T)>> ELSE owner[T]]
<1>1. ASSUME NEW T \in Full, NEW k \in Nat, owner[T] = <<"seed", k>>
      PROVE  At(T) = k
  BY <1>1
<1>2. \A T \in Full : (\E k \in Nat : owner[T] = <<"seed", k>>) => At(T) \in Nat
  BY <1>1
<1> HIDE DEF At
<1>3. o2 \in Owners
  <2>1. \A T \in Full : o2[T] \in Slots  BY <1>2 DEF Slots, Owners
  <2> QED  BY <2>1 DEF Owners
<1>4. \A T \in Full : \A k \in Nat : owner[T] = <<"seed", k>> => o2[T] = <<"emitted", k>>
  BY <1>1
<1>5. \A T \in Full : (\A k \in Nat : owner[T] # <<"seed", k>>) => o2[T] = owner[T]
  OBVIOUS
<1> HIDE DEF o2
<1>6. \A T \in Full, k \in Nat : owner[T] # <<"emitted", k>>  BY DEF Owned
<1>7. ASSUME NEW T \in Full, NEW k \in Nat
      PROVE  /\ o2[T] = <<"emitted", k>> <=> owner[T] = <<"seed", k>>
             /\ o2[T] # <<"seed", k>>
             /\ \A area \in {"unstarted", "queued", "frame"} :
                  o2[T] = <<area, k>> <=> owner[T] = <<area, k>>
  <2>1. CASE \E j \in Nat : owner[T] = <<"seed", j>>
    <3>1. PICK j \in Nat : owner[T] = <<"seed", j>>  BY <2>1
    <3>2. o2[T] = <<"emitted", j>>  BY <1>4, <3>1
    <3> QED  BY <3>1, <3>2
  <2>2. CASE \A j \in Nat : owner[T] # <<"seed", j>>
    <3>1. o2[T] = owner[T]  BY <1>5, <2>2
    <3> QED  BY <1>6, <2>2, <3>1
  <2> QED  BY <2>1, <2>2
<1>8. \A k \in Nat : /\ Owned(o2, <<"emitted", k>>) = Owned(owner, <<"seed", k>>)
                     /\ Owned(o2, <<"seed", k>>) = {}
  BY <1>7 DEF Owned
<1>9. \A area \in {"unstarted", "queued", "frame"} : SameArea(o2, owner, area)
  BY <1>7 DEF Owned, SameArea
<1> QED  BY <1>3, <1>8, <1>9

\* The steps that change only where the call is.
LEMMA PhaseExact ==
  ASSUME KernelInv, ExactInv, AllocFails \/ Begin \/ StartsDone \/ DepthDone
  PROVE  ExactInv'
<1>1. CASE overflow'  BY <1>1 DEF ExactInv
<1>2. CASE ~overflow'
  <2>1. /\ Begin \/ StartsDone \/ DepthDone
        /\ overflow' = overflow /\ call' = call /\ UNCHANGED <<queue, head, seeds, taken, stack, out>>
    BY <1>2 DEF AllocFails, Begin, StartsDone, DepthDone
  <2>2. PICK owner \in Owners : Accounted(owner)  BY <1>2, <2>1 DEF ExactInv
  <2>3. Shape  BY <1>2, <2>1 DEF ExactInv
  <2>4. ToStart(phase', left') = ToStart(phase, left)
    BY <2>1 DEF Begin, StartsDone, DepthDone, ToStart
  <2>5. (IF phase' = "breadth" THEN left' ELSE {}) = (IF phase = "breadth" THEN left ELSE {})
    BY <2>1 DEF Begin, StartsDone, DepthDone
  <2>6. (IF phase' = "done" THEN Len(seeds') ELSE taken') = (IF phase = "done" THEN Len(seeds) ELSE taken)
    BY <2>1 DEF Begin, StartsDone, DepthDone
  <2>7. Shape'  BY <2>1, <2>3 DEF Begin, StartsDone, DepthDone, Shape
  <2>8. StartAccount(owner, ToStart(phase', left'))  BY <2>2, <2>4 DEF Accounted
  <2>9. QueueAccount(owner, queue', head', IF phase' = "breadth" THEN left' ELSE {})
    BY <2>1, <2>2, <2>5 DEF Accounted
  <2>10. SeedAccount(owner, seeds', IF phase' = "done" THEN Len(seeds') ELSE taken')
    BY <2>1, <2>2, <2>6 DEF Accounted
  <2>11. StackAccount(owner, stack') /\ OutAccount(owner, out')  BY <2>1, <2>2 DEF Accounted
  <2> QED  BY <2>1, <2>7, <2>8, <2>9, <2>10, <2>11, ExactKept
<1> QED  BY <1>1, <1>2 DEF KernelInv

\* T-CET returns its seeds: what each owns is emitted.
LEMMA ReturnExact ==
  ASSUME KernelInv, ExactInv, BreadthDone
  PROVE  ExactInv'
<1>0. /\ phase = "breadth" /\ left = {} /\ head = Len(queue)
      /\ call' = call /\ UNCHANGED <<left, queue, head, seeds, taken, stack, overflow>>
  BY DEF BreadthDone
<1>1. CASE overflow  BY <1>0, <1>1 DEF ExactInv
<1>2. CASE ~overflow
  <2>1. PICK owner \in Owners : Accounted(owner)  BY <1>2 DEF ExactInv
  <2>2. Shape  BY <1>2 DEF ExactInv
  <2>3. /\ StartAccount(owner, {}) /\ QueueAccount(owner, queue, head, {})
        /\ SeedAccount(owner, seeds, taken)
        /\ StackAccount(owner, stack) /\ OutAccount(owner, out)
        /\ taken = 0 /\ out = <<>> /\ stack = <<>>
    BY <1>0, <2>1, <2>2 DEF Accounted, Shape, ToStart
  <2>4. CASE Hybrid
    <3>1. phase' = "depth" /\ out' = out  BY <2>4 DEF BreadthDone
    <3>2. Shape'  BY <1>0, <3>1 DEF Shape
    <3>3. StartAccount(owner, ToStart(phase', left'))  BY <1>0, <2>3, <3>1 DEF ToStart
    <3>4. QueueAccount(owner, queue', head', IF phase' = "breadth" THEN left' ELSE {})
      BY <1>0, <2>3, <3>1
    <3>5. SeedAccount(owner, seeds', IF phase' = "done" THEN Len(seeds') ELSE taken')
      BY <1>0, <2>3, <3>1
    <3> QED  BY <1>0, <2>3, <3>1, <3>2, <3>3, <3>4, <3>5, ExactKept
  <2>5. CASE ~Hybrid
    <3>1. phase' = "done" /\ out' = seeds /\ PrefixLen = Len(call.seq)
      BY <2>5 DEF BreadthDone, PrefixLen
    <3>2. Shape'  BY <1>0, <2>3, <3>1 DEF Shape
    <3>3. \A k \in Nat : Owned(owner, <<"emitted", k>>) = {}
      <4>1. Len(out) = 0  BY <2>3, EmptySeq
      <4> QED  BY <2>3, <4>1 DEF OutAccount
    <3>4. PICK o2 \in Owners :
            /\ \A k \in Nat : /\ Owned(o2, <<"emitted", k>>) = Owned(owner, <<"seed", k>>)
                              /\ Owned(o2, <<"seed", k>>) = {}
            /\ SameArea(o2, owner, "unstarted") /\ SameArea(o2, owner, "queued")
            /\ SameArea(o2, owner, "frame")
      BY <3>3, Returned
    <3>11. /\ StartAccount(o2, {}) /\ QueueAccount(o2, queue, head, {}) /\ StackAccount(o2, stack)
      BY <2>3, <3>4, AreasKept
    <3>12. StartAccount(o2, ToStart(phase', left'))  BY <3>1, <3>11 DEF ToStart
    <3>13. QueueAccount(o2, queue', head', IF phase' = "breadth" THEN left' ELSE {})
      BY <1>0, <3>1, <3>11
    <3>14. Len(seeds) \in Nat /\ DOMAIN seeds = 1..Len(seeds)  BY LenProperties DEF KernelInv
    <3>15. SeedAccount(o2, seeds', IF phase' = "done" THEN Len(seeds') ELSE taken')
      <4>1. ASSUME NEW k \in Nat
            PROVE  IF k \in 1..Len(seeds) THEN SeededAccount(o2, k, seeds[k], Len(seeds))
                   ELSE Owned(o2, <<"seed", k>>) = {}
        <5>1. k \in 1..Len(seeds) => SeededAccount(owner, k, seeds[k], taken)
          BY <2>3 DEF SeedAccount
        <5>2. k \in 1..Len(seeds) => ~(Len(seeds) < k)  BY <3>14
        <5> QED  BY <3>4, <5>1, <5>2 DEF SeededAccount
      <4> QED  BY <1>0, <3>1, <4>1 DEF SeedAccount
    <3>16. OutAccount(o2, out')
      <4>1. ASSUME NEW k \in 1..Len(seeds)
            PROVE  EmittedAccount(o2, k, seeds[k])
        <5>0. k \in Nat /\ taken < k  BY <2>3, <3>14
        <5>1. SeededAccount(owner, k, seeds[k], taken)  BY <2>3, <5>0 DEF SeedAccount
        <5>2. PICK t \in Trails : /\ seeds[k] = Events(t) /\ Last(t).idx = PrefixLen
                                  /\ Owned(owner, <<"seed", k>>) = Under(t)
          BY <5>0, <5>1 DEF SeededAccount
        <5>3. t \in Full /\ Under(t) = {t}  BY <3>1, <5>2, UnderEnds, InvCall
        <5> QED  BY <3>4, <5>0, <5>2, <5>3 DEF EmittedAccount
      <4>2. ASSUME NEW k \in Nat, k \notin 1..Len(seeds)
            PROVE  Owned(o2, <<"emitted", k>>) = {}
        BY <2>3, <3>4, <4>2 DEF SeedAccount
      <4> QED  BY <3>1, <4>1, <4>2 DEF OutAccount
    <3>17. StackAccount(o2, stack')  BY <1>0, <3>11
    <3> QED  BY <1>0, <3>2, <3>12, <3>13, <3>15, <3>16, <3>17, ExactKept
  <2> QED  BY <2>4, <2>5
<1> QED  BY <1>1, <1>2

\* A start vertex is enqueued with the trails from it.
LEMMA EnqueueExact ==
  ASSUME KernelInv, ExactInv, EnqueueStart
  PROVE  ExactInv'
<1>1. CASE overflow'  BY <1>1 DEF ExactInv
<1>2. CASE ~overflow'
  <2>1. PICK i \in left :
          /\ queue' = Fill(queue, <<StartState(i)>>)
          /\ overflow' = (overflow \/ Spills(queue, <<StartState(i)>>))
          /\ left' = IF Spills(queue, <<StartState(i)>>) THEN {} ELSE left \ {i}
    BY DEF EnqueueStart
  <2>2. /\ phase = "starts" /\ call' = call /\ UNCHANGED <<phase, head, seeds, taken, stack, out>>
    BY DEF EnqueueStart
  <2>3. /\ ~overflow /\ ~Spills(queue, <<StartState(i)>>) /\ left' = left \ {i}
    BY <1>2, <2>1
  <2>4. PICK owner \in Owners : Accounted(owner)  BY <2>3 DEF ExactInv
  <2>5. /\ StartAccount(owner, left) /\ QueueAccount(owner, queue, head, {})
        /\ SeedAccount(owner, seeds, taken)
        /\ StackAccount(owner, stack) /\ OutAccount(owner, out)
    BY <2>2, <2>4 DEF Accounted, ToStart
  <2>6. i \in StartPositions  BY <2>2 DEF KernelInv, LeftInv
  <2> DEFINE n == Len(queue)
             a == <<"unstarted", 0>>
             b == <<"queued", n + 1>>
             t == <<StartPoint(i)>>
  <2>7. n \in Nat /\ head \in Nat /\ head <= n  BY LenProperties DEF KernelInv
  <2>8. /\ Len(queue') = n + 1 /\ queue'[n + 1] = StartState(i)
        /\ \A k \in 1..n : queue'[k] = queue[k]
    <3>1. StartState(i) \in QueueStates  BY <2>6, StartSound, InvCall
    <3> QED  BY <2>1, <2>3, <3>1, OneMore DEF KernelInv
  <2>9. t \in Trails /\ Stands(t, StartState(i)) /\ Under(t) = From({i})
    BY <2>6, StartTrail, InvCall
  <2> HIDE DEF t
  <2>10. Owned(owner, a) = From(left) /\ Owned(owner, b) = {}
    BY <2>5, <2>7 DEF StartAccount, QueueAccount
  <2>11. a \in Slots /\ b \in Slots /\ a # b /\ a # <<"unstarted", 1>> /\ b # <<"unstarted", 1>>
    BY <2>7 DEF Slots
  <2>12. From({i}) \subseteq From(left) /\ From(left) \ From({i}) = From(left \ {i})
    BY DEF From
  <2> HIDE DEF n, a, b
  <2>21. PICK o2 \in Owners : Passes(o2, owner, a, b, From({i}))
    BY <2>5, <2>10, <2>11, <2>12, Passed
  <2>13. /\ Owned(o2, a) = From(left) \ From({i}) /\ Owned(o2, b) = From({i})
         /\ \A x \in Slots : x \notin {a, b} => Owned(o2, x) = Owned(owner, x)
    BY <2>10, <2>21 DEF Passes
  <2>14. /\ SameArea(o2, owner, "seed") /\ SameArea(o2, owner, "frame")
         /\ SameArea(o2, owner, "emitted")
    <3>1. \A k \in Nat : /\ <<"seed", k>> \notin {a, b} /\ <<"frame", k>> \notin {a, b}
                         /\ <<"emitted", k>> \notin {a, b}
      BY DEF a, b
    <3> QED  BY <2>13, <3>1, OtherAreas
  <2>15. StartAccount(o2, left \ {i})
    <3>1. \A k \in Nat : k # 0 => <<"unstarted", k>> \in Slots /\ <<"unstarted", k>> \notin {a, b}
      BY DEF a, b, Slots
    <3> QED  BY <2>5, <2>12, <2>13, <3>1 DEF StartAccount, a
  <2>16. QueueAccount(o2, queue', head, {})
    <3>1. ASSUME NEW k \in Nat, k # n + 1
          PROVE  Owned(o2, <<"queued", k>>) = Owned(owner, <<"queued", k>>)
      <4>1. <<"queued", k>> \in Slots /\ <<"queued", k>> \notin {a, b}
        BY <2>7, <3>1 DEF a, b, Slots
      <4> QED  BY <2>13, <4>1
    <3>2. ASSUME NEW k \in 1..n
          PROVE  QueuedAccount(o2, k, queue'[k], head, {})
      <4>1. k \in Nat /\ k # n + 1  BY <2>7
      <4>2. QueuedAccount(owner, k, queue[k], head, {})  BY <2>5, <4>1 DEF QueueAccount, n
      <4> QED  BY <2>8, <3>1, <4>1, <4>2 DEF QueuedAccount
    <3>3. QueuedAccount(o2, n + 1, queue'[n + 1], head, {})
      BY <2>7, <2>8, <2>9, <2>13 DEF QueuedAccount, b
    <3>4. ASSUME NEW k \in Nat, k \notin 1..n + 1
          PROVE  Owned(o2, <<"queued", k>>) = {}
      <4>1. k # n + 1 /\ k \notin 1..n  BY <2>7, <3>4
      <4> QED  BY <2>5, <3>1, <4>1 DEF QueueAccount, n
    <3>5. \A k \in 1..n + 1 : k \in 1..n \/ k = n + 1  BY <2>7
    <3> QED  BY <2>8, <3>2, <3>3, <3>4, <3>5 DEF QueueAccount
  <2>17. SeedAccount(o2, seeds, taken) /\ StackAccount(o2, stack) /\ OutAccount(o2, out)
    BY <2>5, <2>14, AreasKept
  <2>18. Shape'  BY <2>2, <2>3 DEF ExactInv, Shape
  <2>19. StartAccount(o2, ToStart(phase', left'))  BY <2>2, <2>3, <2>15 DEF ToStart
  <2>20. QueueAccount(o2, queue', head', IF phase' = "breadth" THEN left' ELSE {})
    BY <2>2, <2>16
  <2>22. SeedAccount(o2, seeds', IF phase' = "done" THEN Len(seeds') ELSE taken')
    BY <2>2, <2>17
  <2> QED  BY <2>2, <2>17, <2>18, <2>19, <2>20, <2>22, ExactKept
<1> QED  BY <1>1, <1>2

\* A state at the end of the prefix hands its trails to a seed; any other
\* keeps them, edge by edge.
LEMMA DequeueExact ==
  ASSUME KernelInv, ExactInv, Dequeue
  PROVE  ExactInv'
<1>1. CASE overflow'  BY <1>1 DEF ExactInv
<1>2. CASE ~overflow'
  <2> DEFINE s == queue[head + 1]
             n == Len(seeds)
  <2>1. /\ phase = "breadth" /\ left = {} /\ head < Len(queue) /\ head' = head + 1 /\ call' = call
        /\ UNCHANGED <<phase, queue, taken, stack, out>>
    BY DEF Dequeue
  <2>2. head \in Nat /\ Len(queue) \in Nat /\ head + 1 \in 1..Len(queue) /\ n \in Nat /\ taken \in 0..n
    BY <2>1, LenProperties DEF KernelInv
  <2>3. ~overflow  BY <1>2 DEF Dequeue
  <2>4. PICK owner \in Owners : Accounted(owner)  BY <2>3 DEF ExactInv
  <2>5. /\ StartAccount(owner, {}) /\ QueueAccount(owner, queue, head, {})
        /\ SeedAccount(owner, seeds, taken)
        /\ StackAccount(owner, stack) /\ OutAccount(owner, out)
    BY <2>1, <2>4 DEF Accounted, ToStart
  <2>6. Shape /\ Shape'  BY <2>1, <2>3 DEF ExactInv, Shape
  <2>7. s \in QueueStates  BY <2>2, ElementOfSeq DEF KernelInv
  <2>8. s.idx \in Nat /\ s.idx <= PrefixLen /\ PrefixLen \in 1..Len(call.seq) /\ Len(call.seq) \in Nat
    BY <2>7, CallTypes, InvCall DEF QueueStates, SoundStates, SearchState
  <2>9. PICK t \in Trails : Stands(t, s) /\ Owned(owner, <<"queued", head + 1>>) = Under(t)
    <3>1. QueuedAccount(owner, head + 1, s, head, {})
      <4> DEFINE k == head + 1
      <4>1. k \in Nat /\ k \in 1..Len(queue)  BY <2>2
      <4> HIDE DEF k
      <4>2. QueuedAccount(owner, k, queue[k], head, {})  BY <2>5, <4>1 DEF QueueAccount
      <4> QED  BY <4>2 DEF k
    <3>2. head < head + 1  BY <2>2
    <3> QED  BY <3>1, <3>2 DEF QueuedAccount
  <2>10. \A u \in Trails : Via(u, {}) = {}  BY DEF Via
  <2>11. CASE s.idx >= PrefixLen
    <3>1. /\ seeds' = Fill(seeds, <<s.path>>) /\ left' = left
          /\ overflow' = (overflow \/ Spills(seeds, <<s.path>>))
      BY <2>11 DEF Dequeue
    <3>2. s.idx = PrefixLen  BY <2>8, <2>11
    <3>3. s.path \in SoundPaths(PrefixLen)
      BY <2>7, <3>2 DEF QueueStates, SoundStates, SearchState, SoundPaths
    <3>4. /\ Len(seeds') = n + 1 /\ seeds'[n + 1] = s.path
          /\ \A k \in 1..n : seeds'[k] = seeds[k]
      <4>1. seeds \in Seq(SoundPaths(PrefixLen))  BY DEF KernelInv
      <4>2. ~Spills(seeds, <<s.path>>)  BY <1>2, <3>1
      <4> DEFINE x == s.path
                 more == Fill(seeds, <<x>>)
      <4>3. x \in SoundPaths(PrefixLen) /\ ~Spills(seeds, <<x>>)  BY <3>3, <4>2
      <4> HIDE DEF x, more
      <4>4. /\ Len(more) = n + 1 /\ more[n + 1] = x
            /\ \A k \in 1..n : more[k] = seeds[k]
        BY <4>1, <4>3, OneMore DEF more
      <4> QED  BY <3>1, <4>4 DEF x, more
    <3> DEFINE a == <<"queued", head + 1>>
               b == <<"seed", n + 1>>
    <3>5. a \in Slots /\ b \in Slots /\ a # b /\ a # <<"unstarted", 1>> /\ b # <<"unstarted", 1>>
      BY <2>2 DEF Slots
    <3>6. Owned(owner, a) = Under(t) /\ Owned(owner, b) = {}
      BY <2>2, <2>5, <2>9 DEF SeedAccount
    <3> HIDE DEF s, n, a, b
    <3>7. PICK o2 \in Owners : Passes(o2, owner, a, b, Under(t))
      BY <2>5, <3>5, <3>6, Passed
    <3>8. /\ Owned(o2, a) = {} /\ Owned(o2, b) = Under(t)
          /\ \A x \in Slots : x \notin {a, b} => Owned(o2, x) = Owned(owner, x)
      BY <3>6, <3>7 DEF Passes
    <3>9. /\ SameArea(o2, owner, "unstarted") /\ SameArea(o2, owner, "frame")
          /\ SameArea(o2, owner, "emitted")
      <4>1. \A k \in Nat : /\ <<"unstarted", k>> \notin {a, b} /\ <<"frame", k>> \notin {a, b}
                           /\ <<"emitted", k>> \notin {a, b}
        BY DEF a, b
      <4> QED  BY <3>8, <4>1, OtherAreas
    <3>10. QueueAccount(o2, queue, head + 1, {})
      <4>1. ASSUME NEW k \in Nat, k # head + 1
            PROVE  Owned(o2, <<"queued", k>>) = Owned(owner, <<"queued", k>>)
        <5>1. <<"queued", k>> \in Slots /\ <<"queued", k>> \notin {a, b}
          BY <4>1 DEF a, b, Slots
        <5> QED  BY <3>8, <5>1
      <4>2. ASSUME NEW k \in 1..Len(queue)
            PROVE  QueuedAccount(o2, k, queue[k], head + 1, {})
        <5>1. k \in Nat  BY <2>2
        <5>2. PICK u \in Trails :
                /\ Stands(u, queue[k])
                /\ Owned(owner, <<"queued", k>>) =
                     IF head < k THEN Under(u) ELSE IF head = k THEN Via(u, {}) ELSE {}
          BY <2>5, <5>1 DEF QueueAccount, QueuedAccount
        <5>3. Owned(o2, <<"queued", k>>) =
                IF head + 1 < k THEN Under(u) ELSE IF head + 1 = k THEN Via(u, {}) ELSE {}
          <6>1. CASE k = head + 1
            <7>1. Owned(o2, <<"queued", k>>) = {}  BY <3>8, <6>1 DEF a
            <7>2. ~(head + 1 < k) /\ Via(u, {}) = {}  BY <2>2, <2>10, <6>1
            <7> QED  BY <6>1, <7>1, <7>2
          <6>2. CASE k # head + 1
            <7>1. Owned(o2, <<"queued", k>>) = Owned(owner, <<"queued", k>>)  BY <4>1, <5>1, <6>2
            <7>2. head < k <=> head + 1 < k  BY <2>2, <5>1, <6>2
            <7> QED  BY <2>10, <5>2, <6>2, <7>1, <7>2
          <6> QED  BY <6>1, <6>2
        <5> QED  BY <5>2, <5>3 DEF QueuedAccount
      <4>3. ASSUME NEW k \in Nat, k \notin 1..Len(queue)
            PROVE  Owned(o2, <<"queued", k>>) = {}
        <5>1. k # head + 1  BY <2>2, <4>3
        <5> QED  BY <2>5, <4>1, <4>3, <5>1 DEF QueueAccount
      <4> QED  BY <4>2, <4>3 DEF QueueAccount
    <3>11. SeedAccount(o2, seeds', taken)
      <4>1. ASSUME NEW k \in Nat, k # n + 1
            PROVE  Owned(o2, <<"seed", k>>) = Owned(owner, <<"seed", k>>)
        <5>1. <<"seed", k>> \in Slots /\ <<"seed", k>> \notin {a, b}
          BY <4>1 DEF a, b, Slots
        <5> QED  BY <3>8, <5>1
      <4>2. ASSUME NEW k \in 1..n
            PROVE  SeededAccount(o2, k, seeds'[k], taken)
        <5>1. k \in Nat /\ k # n + 1  BY <2>2
        <5>2. SeededAccount(owner, k, seeds[k], taken)  BY <2>5, <5>1 DEF SeedAccount, n
        <5> QED  BY <3>4, <4>1, <5>1, <5>2 DEF SeededAccount
      <4>3. SeededAccount(o2, n + 1, seeds'[n + 1], taken)
        <5>1. seeds'[n + 1] = Events(t) /\ Last(t).idx = PrefixLen
          BY <2>9, <3>2, <3>4 DEF Stands
        <5>2. taken < n + 1  BY <2>2
        <5> QED  BY <3>8, <5>1, <5>2 DEF SeededAccount, b
      <4>4. ASSUME NEW k \in Nat, k \notin 1..n + 1
            PROVE  Owned(o2, <<"seed", k>>) = {}
        <5>1. k # n + 1 /\ k \notin 1..n  BY <2>2, <4>4
        <5> QED  BY <2>5, <4>1, <5>1 DEF SeedAccount, n
      <4>5. \A k \in 1..n + 1 : k \in 1..n \/ k = n + 1  BY <2>2
      <4> QED  BY <3>4, <4>2, <4>3, <4>4, <4>5 DEF SeedAccount
    <3>12. StartAccount(o2, {}) /\ StackAccount(o2, stack) /\ OutAccount(o2, out)
      BY <2>5, <3>9, AreasKept
    <3>13. StartAccount(o2, ToStart(phase', left'))  BY <2>1, <3>12 DEF ToStart
    <3>14. QueueAccount(o2, queue', head', IF phase' = "breadth" THEN left' ELSE {})
      BY <2>1, <3>1, <3>10
    <3>15. SeedAccount(o2, seeds', IF phase' = "done" THEN Len(seeds') ELSE taken')
      BY <2>1, <3>11
    <3>16. StackAccount(o2, stack') /\ OutAccount(o2, out')  BY <2>1, <3>12
    <3> QED  BY <2>1, <2>6, <3>13, <3>14, <3>15, <3>16, ExactKept
  <2>12. CASE ~(s.idx >= PrefixLen)
    <3>1. left' = OutEdges(Last(s.path)) /\ UNCHANGED <<seeds, overflow>>
      BY <2>12 DEF Dequeue
    <3>2. Under(t) = Via(t, left')
      <4>1. Last(s.path) = Last(t).vertex  BY <2>9, StandsLast
      <4>2. Last(t).idx < Len(call.seq)  BY <2>8, <2>9, <2>12 DEF Stands
      <4> QED  BY <3>1, <4>1, <4>2, UnderEnds, InvCall
    <3>3. QueueAccount(owner, queue, head + 1, left')
      <4>1. ASSUME NEW k \in 1..Len(queue)
            PROVE  QueuedAccount(owner, k, queue[k], head + 1, left')
        <5>1. k \in Nat  BY <2>2
        <5>2. CASE k = head + 1  BY <2>2, <2>9, <3>2, <5>2 DEF QueuedAccount
        <5>3. CASE k # head + 1
          <6>1. PICK u \in Trails :
                  /\ Stands(u, queue[k])
                  /\ Owned(owner, <<"queued", k>>) =
                       IF head < k THEN Under(u) ELSE IF head = k THEN Via(u, {}) ELSE {}
            BY <2>5, <5>1 DEF QueueAccount, QueuedAccount
          <6>2. head < k <=> head + 1 < k  BY <2>2, <5>1, <5>3
          <6>3. Owned(owner, <<"queued", k>>) =
                  IF head + 1 < k THEN Under(u) ELSE IF head + 1 = k THEN Via(u, left') ELSE {}
            BY <2>10, <5>3, <6>1, <6>2
          <6> QED  BY <6>1, <6>3 DEF QueuedAccount
        <5> QED  BY <5>2, <5>3
      <4> QED  BY <2>5, <4>1 DEF QueueAccount
    <3>4. StartAccount(owner, ToStart(phase', left'))  BY <2>1, <2>5 DEF ToStart
    <3>5. QueueAccount(owner, queue', head', IF phase' = "breadth" THEN left' ELSE {})
      BY <2>1, <3>3
    <3>6. SeedAccount(owner, seeds', IF phase' = "done" THEN Len(seeds') ELSE taken')
      BY <2>1, <2>5, <3>1
    <3>7. StackAccount(owner, stack') /\ OutAccount(owner, out')  BY <2>1, <2>5
    <3> QED  BY <2>1, <2>6, <3>4, <3>5, <3>6, <3>7, ExactKept
  <2> QED  BY <2>11, <2>12
<1> QED  BY <1>1, <1>2

\* Breadth first, an edge hands its trails to the states enqueued.
LEMMA BreadthEdgeExact ==
  ASSUME KernelInv, ExactInv, BreadthEdge
  PROVE  ExactInv'
<1>1. CASE overflow'  BY <1>1 DEF ExactInv
<1>2. CASE ~overflow'
  <2> DEFINE s == queue[head]
             along(i) == Along(s, call.graph.edges[i])
             new(i) == IF TooLong(s.path) THEN <<>> ELSE along(i)
             n == Len(queue)
  <2>1. PICK i \in left :
          /\ left' = left \ {i}
          /\ queue' = Fill(queue, new(i))
          /\ overflow' = \/ overflow
                         \/ TooLong(s.path) /\ along(i) # <<>>
                         \/ Spills(queue, new(i))
    BY DEF BreadthEdge
  <2>2. /\ phase = "breadth" /\ call' = call /\ UNCHANGED <<phase, head, seeds, taken, stack, out>>
    BY DEF BreadthEdge
  <2>3. ~overflow /\ new(i) = along(i) /\ ~Spills(queue, along(i)) /\ queue' = Fill(queue, along(i))
    BY <1>2, <2>1
  <2>4. /\ head \in 1..n /\ n \in Nat /\ left \subseteq OutEdges(Last(s.path)) /\ s.idx < PrefixLen
    BY <2>1, <2>2, LenProperties DEF KernelInv, LeftInv
  <2>5. s \in QueueStates  BY <2>4, ElementOfSeq DEF KernelInv
  <2>6. s.idx < Len(call.seq)
    BY <2>4, <2>5, CallTypes, InvCall DEF QueueStates, SoundStates, SearchState
  <2>7. PICK owner \in Owners : Accounted(owner)  BY <2>3 DEF ExactInv
  <2>8. /\ StartAccount(owner, {}) /\ QueueAccount(owner, queue, head, left)
        /\ SeedAccount(owner, seeds, taken)
        /\ StackAccount(owner, stack) /\ OutAccount(owner, out)
    BY <2>2, <2>7 DEF Accounted, ToStart
  <2>9. Shape'  BY <2>2, <2>3 DEF ExactInv, Shape
  <2>10. PICK t \in Trails : Stands(t, s) /\ Owned(owner, <<"queued", head>>) = Via(t, left)
    <3>1. head \in Nat /\ ~(head < head)  BY <2>4
    <3>2. QueuedAccount(owner, head, s, head, left)  BY <2>4, <2>8, <3>1 DEF QueueAccount
    <3> QED  BY <3>1, <3>2 DEF QueuedAccount
  <2> DEFINE a == <<"queued", head>>
             b == [m \in {1, 2} |-> <<"queued", n + m>>]
  <2>11. /\ a \in Slots /\ b \in [{1, 2} -> Slots]
         /\ b[1] = <<"queued", n + 1>> /\ b[2] = <<"queued", n + 2>>
         /\ a # b[1] /\ a # b[2] /\ b[1] # b[2]
    BY <2>4 DEF Slots
  <2>12. Owned(owner, b[1]) = {} /\ Owned(owner, b[2]) = {}
    <3>1. n + 1 \in Nat /\ n + 1 \notin 1..n /\ n + 2 \in Nat /\ n + 2 \notin 1..n  BY <2>4
    <3> QED  BY <2>8, <2>11, <3>1 DEF QueueAccount
  <2> HIDE DEF s, b, along, new
  <2>24. PICK o2 \in Owners : Deals(o2, owner, a, b, t, s, left, i)
    <3>1. IsCall(call) /\ i \in OutEdges(Last(s.path)) /\ Owned(owner, a) = Via(t, left)
      BY <2>4, <2>10, InvCall
    <3> HIDE DEF a
    <3> QED  BY <2>4, <2>6, <2>10, <2>11, <2>12, <3>1, EdgeHands
  <2>13. /\ Owned(o2, a) = Via(t, left \ {i})
         /\ \A m \in {1, 2} :
              IF m \in DOMAIN Along(s, call.graph.edges[i])
                THEN \E u \in Trails : /\ Stands(u, Along(s, call.graph.edges[i])[m])
                                       /\ Owned(o2, b[m]) = Under(u)
                ELSE Owned(o2, b[m]) = {}
         /\ \A x \in Slots : x \notin {a, b[1], b[2]} => Owned(o2, x) = Owned(owner, x)
    BY <2>24 DEF Deals
  <2> DEFINE A == along(i)
  <2>14. DOMAIN A \in {{}, {1}, {1, 2}} /\ A = Along(s, call.graph.edges[i])
    <3>1. DOMAIN Moves(s, call.graph.edges[i]) \in {{}, {1}, {1, 2}}
      BY <2>4, <2>6, <2>10, Branches, InvCall
    <3> QED  BY <3>1 DEF along, Along
  <2>15. A \in Seq(QueueStates) /\ Len(A) \in 0..2 /\ DOMAIN A = 1..Len(A)
    <3>1. new(i) \in Seq(QueueStates)  BY <2>2, NewQueued DEF s, along, new
    <3>2. A \in Seq(QueueStates)  BY <2>3, <3>1
    <3>3. Len(A) \in Nat /\ DOMAIN A = 1..Len(A)  BY <3>2, LenProperties
    <3>4. Len(A) \in 0..2
      <4>1. 3 \notin DOMAIN A  BY <2>14
      <4> QED  BY <3>3, <4>1
    <3> QED  BY <3>2, <3>3, <3>4
  <2> HIDE DEF A
  <2>16. /\ queue' = queue \o A /\ Len(queue') = n + Len(A)
         /\ \A k \in 1..n : queue'[k] = queue[k]
         /\ \A m \in 1..Len(A) : queue'[n + m] = A[m]
    <3>1. ~Spills(queue, A) /\ queue' = Fill(queue, A)  BY <2>3 DEF A
    <3>2. queue \in Seq(QueueStates)  BY DEF KernelInv
    <3>3. /\ Fill(queue, A) = queue \o A
          /\ Len(queue \o A) = Len(queue) + Len(A)
          /\ \A k \in 1..Len(queue) : (queue \o A)[k] = queue[k]
          /\ \A m \in 1..Len(A) : (queue \o A)[Len(queue) + m] = A[m]
      BY <2>15, <3>1, <3>2, FilledUp
    <3> QED  BY <3>1, <3>3
  <2>17. QueueAccount(o2, queue', head, left \ {i})
    <3>1. ASSUME NEW k \in Nat, k \notin {head, n + 1, n + 2}
          PROVE  Owned(o2, <<"queued", k>>) = Owned(owner, <<"queued", k>>)
      <4>1. <<"queued", k>> \in Slots /\ <<"queued", k>> \notin {a, b[1], b[2]}
        BY <2>11, <3>1 DEF Slots
      <4> QED  BY <2>13, <4>1
    <3>2. ASSUME NEW k \in 1..n
          PROVE  QueuedAccount(o2, k, queue'[k], head, left \ {i})
      <4>1. k \in Nat /\ k # n + 1 /\ k # n + 2  BY <2>4
      <4>2. CASE k = head
        <5>1. queue'[k] = s  BY <2>16, <4>2 DEF s
        <5> QED  BY <2>4, <2>10, <2>13, <4>2, <5>1 DEF QueuedAccount
      <4>3. CASE k # head
        <5>1. QueuedAccount(owner, k, queue[k], head, left)  BY <2>8, <4>1 DEF QueueAccount
        <5>2. Owned(o2, <<"queued", k>>) = Owned(owner, <<"queued", k>>)  BY <3>1, <4>1, <4>3
        <5> QED  BY <2>16, <4>3, <5>1, <5>2 DEF QueuedAccount
      <4> QED  BY <4>2, <4>3
    <3>3. ASSUME NEW m \in 1..Len(A)
          PROVE  QueuedAccount(o2, n + m, queue'[n + m], head, left \ {i})
      <4>1. m \in {1, 2} /\ m \in DOMAIN A /\ head < n + m  BY <2>4, <2>15
      <4>2. b[m] = <<"queued", n + m>>  BY <2>11, <4>1
      <4>3. PICK u \in Trails : Stands(u, A[m]) /\ Owned(o2, b[m]) = Under(u)
        BY <2>13, <2>14, <4>1
      <4> QED  BY <2>16, <4>1, <4>2, <4>3 DEF QueuedAccount
    <3>4. ASSUME NEW k \in Nat, k \notin 1..n + Len(A)
          PROVE  Owned(o2, <<"queued", k>>) = {}
      <4>1. CASE k \in {n + 1, n + 2}
        <5>1. PICK m \in {1, 2} : k = n + m  BY <4>1
        <5>2. m \notin DOMAIN A /\ b[m] = <<"queued", k>>  BY <2>4, <2>11, <2>15, <3>4, <5>1
        <5> QED  BY <2>13, <2>14, <5>2
      <4>2. CASE k \notin {n + 1, n + 2}
        <5>1. k # head /\ k \notin 1..n  BY <2>4, <2>15, <3>4
        <5> QED  BY <2>8, <3>1, <4>2, <5>1 DEF QueueAccount
      <4> QED  BY <4>1, <4>2
    <3>5. \A k \in 1..n + Len(A) : k \in 1..n \/ (k - n \in 1..Len(A) /\ k = n + (k - n))
      BY <2>4, <2>15
    <3>6. ASSUME NEW k \in 1..n + Len(A)
          PROVE  QueuedAccount(o2, k, queue'[k], head, left \ {i})
      <4>1. CASE k \in 1..n  BY <3>2, <4>1
      <4>2. CASE k \notin 1..n
        <5> DEFINE m == k - n
        <5>1. m \in 1..Len(A) /\ k = n + m  BY <3>5, <4>2
        <5> HIDE DEF m
        <5> QED  BY <3>3, <5>1
      <4> QED  BY <4>1, <4>2
    <3> QED  BY <2>16, <3>4, <3>6 DEF QueueAccount
  <2>18. /\ SameArea(o2, owner, "unstarted") /\ SameArea(o2, owner, "seed")
         /\ SameArea(o2, owner, "frame") /\ SameArea(o2, owner, "emitted")
    <3> DEFINE S == {a, b[1], b[2]}
    <3>1. \A k \in Nat : /\ <<"unstarted", k>> \notin S /\ <<"seed", k>> \notin S
                         /\ <<"frame", k>> \notin S /\ <<"emitted", k>> \notin S
      BY <2>11
    <3>2. \A x \in Slots : x \notin S => Owned(o2, x) = Owned(owner, x)  BY <2>13
    <3> HIDE DEF S
    <3> QED  BY <3>1, <3>2, OtherAreas
  <2>19. /\ StartAccount(o2, {}) /\ SeedAccount(o2, seeds, taken)
         /\ StackAccount(o2, stack) /\ OutAccount(o2, out)
    BY <2>8, <2>18, AreasKept
  <2>20. StartAccount(o2, ToStart(phase', left'))  BY <2>2, <2>19 DEF ToStart
  <2>21. QueueAccount(o2, queue', head', IF phase' = "breadth" THEN left' ELSE {})
    BY <2>1, <2>2, <2>17
  <2>22. SeedAccount(o2, seeds', IF phase' = "done" THEN Len(seeds') ELSE taken')
    BY <2>2, <2>19
  <2>23. StackAccount(o2, stack') /\ OutAccount(o2, out')  BY <2>2, <2>19
  <2> QED  BY <2>2, <2>9, <2>20, <2>21, <2>22, <2>23, ExactKept
<1> QED  BY <1>1, <1>2

\* The results of one path more.
LEMMA OutGrows ==
  ASSUME NEW S, NEW q \in Seq(S), NEW path \in S, ~Spills(q, <<path>>),
         NEW owner, OutAccount(owner, q), NEW o2,
         \A k \in Nat : k # Len(q) + 1 => Owned(o2, <<"emitted", k>>) = Owned(owner, <<"emitted", k>>),
         EmittedAccount(o2, Len(q) + 1, path)
  PROVE  OutAccount(o2, Fill(q, <<path>>))
<1> DEFINE n == Len(q)
           q2 == Fill(q, <<path>>)
<1>1. Len(q2) = n + 1 /\ q2[n + 1] = path /\ \A k \in 1..n : q2[k] = q[k]  BY OneMore
<1>2. n \in Nat  BY LenProperties
<1> HIDE DEF q2
<1>3. ASSUME NEW k \in 1..n
      PROVE  EmittedAccount(o2, k, q2[k])
  <2>1. k \in Nat /\ k # n + 1  BY <1>2
  <2>2. EmittedAccount(owner, k, q[k])  BY <2>1 DEF OutAccount
  <2> QED  BY <1>1, <2>1, <2>2 DEF EmittedAccount
<1>4. ASSUME NEW k \in Nat, k \notin 1..n + 1
      PROVE  Owned(o2, <<"emitted", k>>) = {}
  <2>1. k # n + 1 /\ k \notin 1..n  BY <1>2, <1>4
  <2> QED  BY <2>1 DEF OutAccount
<1>5. \A k \in 1..n + 1 : k \in 1..n \/ k = n + 1  BY <1>2
<1> QED  BY <1>1, <1>3, <1>4, <1>5 DEF OutAccount, q2

\* The first call of dfs().
LEMMA FirstFrame ==
  ASSUME NEW owner, NEW o2, StackAccount(owner, <<>>),
         NEW t \in Trails, NEW s, Stands(t, s),
         Owned(o2, <<"frame", 1>>) = Under(t),
         \A k \in Nat : k # 1 => Owned(o2, <<"frame", k>>) = Owned(owner, <<"frame", k>>)
  PROVE  StackAccount(o2, <<Waiting(s)>>)
<1> DEFINE f == Waiting(s)
           st == <<f>>
<1>1. f.state = s /\ ~f.begun  BY DEF Waiting
<1> HIDE DEF f
<1>2. Len(st) = 1 /\ st[1] = f  OBVIOUS
<1> HIDE DEF st
<1>3. FrameAccount(o2, 1, f)  BY <1>1 DEF FrameAccount
<1>4. \A d \in Nat : Owned(owner, <<"frame", d>>) = {}
  <2>1. Len(<<>>) = 0 /\ \A d \in Nat : d \notin 1..0  BY EmptySeq
  <2> QED  BY <2>1 DEF StackAccount
<1>5. ASSUME NEW d \in Nat
      PROVE  IF d \in 1..Len(st) THEN FrameAccount(o2, d, st[Len(st) + 1 - d])
             ELSE Owned(o2, <<"frame", d>>) = {}
  <2>1. CASE d = 1
    <3>1. Len(st) + 1 - d = 1  BY <1>2, <2>1
    <3> QED  BY <1>2, <1>3, <2>1, <3>1
  <2>2. CASE d # 1  BY <1>2, <1>4, <2>2
  <2> QED  BY <2>1, <2>2
<1> QED  BY <1>5 DEF StackAccount, st, f

\* What the innermost call of dfs() owns, and the others.
LEMMA StackTop ==
  ASSUME NEW S, NEW st \in Seq(S), st # <<>>, NEW owner, StackAccount(owner, st)
  PROVE  /\ Len(st) \in Nat \ {0}
         /\ FrameAccount(owner, Len(st), Head(st))
         /\ \A d \in 1..Len(st) - 1 : FrameAccount(owner, d, Tail(st)[Len(st) - d])
         /\ \A d \in Nat : d \notin 1..Len(st) => Owned(owner, <<"frame", d>>) = {}
<1> DEFINE n == Len(st)
<1>1. n \in Nat \ {0}  BY EmptySeq
<1>2. Head(st) = st[1]  BY <1>1
<1>3. Len(Tail(st)) = n - 1 /\ \A i \in 1..n - 1 : Tail(st)[i] = st[i + 1]
  BY HeadTailProperties
<1>4. FrameAccount(owner, n, st[1])
  <2>1. n \in Nat /\ n \in 1..n /\ n + 1 - n = 1  BY <1>1
  <2> QED  BY <2>1 DEF StackAccount
<1>5. ASSUME NEW d \in 1..n - 1
      PROVE  FrameAccount(owner, d, Tail(st)[n - d])
  <2>1. d \in Nat /\ d \in 1..n /\ n - d \in 1..n - 1 /\ (n - d) + 1 = n + 1 - d  BY <1>1
  <2>2. FrameAccount(owner, d, st[n + 1 - d])  BY <2>1 DEF StackAccount
  <2>3. Tail(st)[n - d] = st[n + 1 - d]  BY <1>3, <2>1
  <2> QED  BY <2>2, <2>3
<1>6. \A d \in Nat : d \notin 1..n => Owned(owner, <<"frame", d>>) = {}  BY DEF StackAccount
<1> QED  BY <1>1, <1>2, <1>4, <1>5, <1>6

\* The stack without its innermost call, which owns nothing any more.
LEMMA StackPopped ==
  ASSUME NEW S, NEW st \in Seq(S), st # <<>>, NEW owner, StackAccount(owner, st), NEW o2,
         \A d \in Nat : d # Len(st) => Owned(o2, <<"frame", d>>) = Owned(owner, <<"frame", d>>),
         Owned(o2, <<"frame", Len(st)>>) = {}
  PROVE  StackAccount(o2, Tail(st))
<1> DEFINE n == Len(st)
           tl == Tail(st)
<1>1. /\ n \in Nat \ {0}
      /\ \A d \in 1..n - 1 : FrameAccount(owner, d, tl[n - d])
      /\ \A d \in Nat : d \notin 1..n => Owned(owner, <<"frame", d>>) = {}
  BY StackTop
<1>2. Len(tl) = n - 1  BY HeadTailProperties
<1> HIDE DEF tl
<1>3. ASSUME NEW d \in Nat
      PROVE  IF d \in 1..Len(tl) THEN FrameAccount(o2, d, tl[Len(tl) + 1 - d])
             ELSE Owned(o2, <<"frame", d>>) = {}
  <2>1. CASE d \in 1..n - 1
    <3>1. d # n /\ Len(tl) + 1 - d = n - d  BY <1>1, <1>2, <2>1
    <3>2. FrameAccount(owner, d, tl[n - d])  BY <1>1, <2>1
    <3> QED  BY <1>2, <2>1, <3>1, <3>2 DEF FrameAccount
  <2>2. CASE d \notin 1..n - 1
    <3>1. d = n \/ d \notin 1..n  BY <1>1, <2>2
    <3> QED  BY <1>1, <1>2, <2>2, <3>1
  <2> QED  BY <2>1, <2>2
<1> QED  BY <1>3 DEF StackAccount, tl

\* The shape of the search in its depth-first part.
LEMMA DepthShape ==
  ASSUME Shape, phase = "depth", phase' = phase, UNCHANGED <<queue, head>>
  PROVE  Shape'
  BY DEF Shape

\* A search of M-CET takes the trails of its start vertex.
LEMMA McetStartExact ==
  ASSUME KernelInv, ExactInv, McetStart
  PROVE  ExactInv'
<1>1. /\ phase = "depth" /\ call' = call /\ stack = <<>>
      /\ UNCHANGED <<phase, queue, head, seeds, taken, out, overflow>>
  BY DEF McetStart
<1>2. PICK i \in left : left' = left \ {i} /\ stack' = <<Waiting(StartState(i))>>
  BY DEF McetStart
<1>3. CASE overflow  BY <1>1, <1>3 DEF ExactInv
<1>4. CASE ~overflow
  <2>1. PICK owner \in Owners : Accounted(owner)  BY <1>4 DEF ExactInv
  <2>2. /\ StartAccount(owner, left) /\ QueueAccount(owner, queue, head, {})
        /\ SeedAccount(owner, seeds, taken)
        /\ StackAccount(owner, <<>>) /\ OutAccount(owner, out)
    BY <1>1, <2>1 DEF Accounted, ToStart
  <2>3. Shape'  BY <1>1, <1>4, DepthShape DEF ExactInv
  <2>4. i \in StartPositions  BY <1>1 DEF KernelInv, LeftInv
  <2> DEFINE a == <<"unstarted", 0>>
             b == <<"frame", 1>>
             t == <<StartPoint(i)>>
  <2>5. t \in Trails /\ Stands(t, StartState(i)) /\ Under(t) = From({i})
    BY <2>4, StartTrail, InvCall
  <2> HIDE DEF t
  <2>6. Owned(owner, a) = From(left) /\ Owned(owner, b) = {}
    <3>1. Len(<<>>) = 0  BY EmptySeq
    <3> QED  BY <2>2, <3>1 DEF StartAccount, StackAccount
  <2>7. a \in Slots /\ b \in Slots /\ a # b /\ a # <<"unstarted", 1>> /\ b # <<"unstarted", 1>>
    BY DEF Slots
  <2>8. From({i}) \subseteq From(left) /\ From(left) \ From({i}) = From(left \ {i})
    BY DEF From
  <2> HIDE DEF a, b
  <2>9. PICK o2 \in Owners : Passes(o2, owner, a, b, From({i}))
    BY <2>2, <2>6, <2>7, <2>8, Passed
  <2>10. /\ Owned(o2, a) = From(left \ {i}) /\ Owned(o2, b) = From({i})
         /\ \A x \in Slots : x \notin {a, b} => Owned(o2, x) = Owned(owner, x)
    BY <2>6, <2>8, <2>9 DEF Passes
  <2>11. /\ SameArea(o2, owner, "queued") /\ SameArea(o2, owner, "seed")
         /\ SameArea(o2, owner, "emitted")
    <3>1. \A k \in Nat : /\ <<"queued", k>> \notin {a, b} /\ <<"seed", k>> \notin {a, b}
                         /\ <<"emitted", k>> \notin {a, b}
      BY DEF a, b
    <3> QED  BY <2>10, <3>1, OtherAreas
  <2>12. StartAccount(o2, left \ {i})
    <3>1. \A k \in Nat : k # 0 => <<"unstarted", k>> \in Slots /\ <<"unstarted", k>> \notin {a, b}
      BY DEF a, b, Slots
    <3> QED  BY <2>2, <2>10, <3>1 DEF StartAccount, a
  <2>13. StackAccount(o2, <<Waiting(StartState(i))>>)
    <3>1. \A k \in Nat : k # 1 => <<"frame", k>> \in Slots /\ <<"frame", k>> \notin {a, b}
      BY DEF a, b, Slots
    <3>2. \A k \in Nat : k # 1 => Owned(o2, <<"frame", k>>) = Owned(owner, <<"frame", k>>)
      BY <2>10, <3>1
    <3>3. Owned(o2, <<"frame", 1>>) = Under(t)  BY <2>5, <2>10 DEF b
    <3> QED  BY <2>2, <2>5, <3>2, <3>3, FirstFrame
  <2>14. QueueAccount(o2, queue, head, {}) /\ SeedAccount(o2, seeds, taken) /\ OutAccount(o2, out)
    BY <2>2, <2>11, AreasKept
  <2>15. StartAccount(o2, ToStart(phase', left'))  BY <1>1, <1>2, <2>12 DEF ToStart
  <2>16. QueueAccount(o2, queue', head', IF phase' = "breadth" THEN left' ELSE {})
    BY <1>1, <2>14
  <2>17. SeedAccount(o2, seeds', IF phase' = "done" THEN Len(seeds') ELSE taken')
    BY <1>1, <2>14
  <2>18. StackAccount(o2, stack') /\ OutAccount(o2, out')  BY <1>1, <1>2, <2>13, <2>14
  <2> QED  BY <1>1, <2>3, <2>15, <2>16, <2>17, <2>18, ExactKept
<1> QED  BY <1>3, <1>4

\* A seed hands its trails to a search, or its path is emitted.
LEMMA HcetSeedExact ==
  ASSUME KernelInv, ExactInv, HcetSeed
  PROVE  ExactInv'
<1>1. CASE overflow'  BY <1>1 DEF ExactInv
<1>2. CASE ~overflow'
  <2> DEFINE k == taken + 1
             path == seeds[k]
  <2>1. /\ phase = "depth" /\ stack = <<>> /\ call' = call /\ taken < Len(seeds) /\ taken' = k
        /\ UNCHANGED <<phase, left, queue, head, seeds>>
    BY DEF HcetSeed
  <2>2. ~overflow  BY <1>2 DEF HcetSeed, Emit
  <2>3. PICK owner \in Owners : Accounted(owner)  BY <2>2 DEF ExactInv
  <2>4. /\ StartAccount(owner, left) /\ QueueAccount(owner, queue, head, {})
        /\ SeedAccount(owner, seeds, taken)
        /\ StackAccount(owner, <<>>) /\ OutAccount(owner, out)
    BY <2>1, <2>3 DEF Accounted, ToStart
  <2>5. Shape'  BY <2>1, <2>2, DepthShape DEF ExactInv
  <2>6. taken \in Nat /\ k \in Nat /\ k \in 1..Len(seeds) /\ taken < k /\ Len(out) \in Nat
    BY <2>1, LenProperties DEF KernelInv
  <2>7. path \in SoundPaths(PrefixLen)  BY <2>6, ElementOfSeq DEF KernelInv
  <2> HIDE DEF k
  <2>8. SeededAccount(owner, k, path, taken)  BY <2>4, <2>6 DEF SeedAccount
  <2>9. PICK t \in Trails : /\ path = Events(t) /\ Last(t).idx = PrefixLen
                            /\ Owned(owner, <<"seed", k>>) = Under(t)
    BY <2>6, <2>8 DEF SeededAccount
  <2> DEFINE a == <<"seed", k>>
  <2>10. a \in Slots /\ a # <<"unstarted", 1>> /\ Owned(owner, a) = Under(t)
    BY <2>6, <2>9 DEF Slots
  <2> HIDE DEF a, path
  \* What holds of the seeds once this one has handed everything on.
  <2>11. ASSUME NEW o2, Owned(o2, a) = {},
                \A j \in Nat : j # k => Owned(o2, <<"seed", j>>) = Owned(owner, <<"seed", j>>)
         PROVE  SeedAccount(o2, seeds, k)
    <3>1. ASSUME NEW j \in Nat
          PROVE  IF j \in 1..Len(seeds) THEN SeededAccount(o2, j, seeds[j], k)
                 ELSE Owned(o2, <<"seed", j>>) = {}
      <4>1. CASE j = k
        <5>1. SeededAccount(owner, j, seeds[j], taken)  BY <2>4, <2>6, <4>1 DEF SeedAccount
        <5>2. Owned(o2, <<"seed", j>>) = {} /\ ~(k < j)  BY <2>6, <2>11, <4>1 DEF a
        <5> QED  BY <2>6, <4>1, <5>1, <5>2 DEF SeededAccount
      <4>2. CASE j # k
        <5>1. taken < j <=> k < j  BY <2>6, <4>2 DEF k
        <5>2. IF j \in 1..Len(seeds) THEN SeededAccount(owner, j, seeds[j], taken)
              ELSE Owned(owner, <<"seed", j>>) = {}
          BY <2>4 DEF SeedAccount
        <5>3. Owned(o2, <<"seed", j>>) = Owned(owner, <<"seed", j>>)  BY <2>11, <4>2
        <5> QED  BY <5>1, <5>2, <5>3 DEF SeededAccount
      <4> QED  BY <4>1, <4>2
    <3> QED  BY <3>1 DEF SeedAccount
  <2>12. CASE PrefixLen >= Len(call.seq)
    <3>1. Emit(path) /\ stack' = stack  BY <2>12 DEF HcetSeed, path, k
    <3>2. out' = Fill(out, <<path>>) /\ ~Spills(out, <<path>>)  BY <1>2, <3>1 DEF Emit
    <3>3. PrefixLen = Len(call.seq)
      BY <2>12, CallTypes, InvCall
    <3>4. t \in Full /\ Under(t) = {t}  BY <2>9, <3>3, UnderEnds, InvCall
    <3> DEFINE b == <<"emitted", Len(out) + 1>>
    <3>5. b \in Slots /\ a # b /\ b # <<"unstarted", 1>>  BY <2>6 DEF Slots, a
    <3>6. Owned(owner, b) = {}
      <4>1. Len(out) + 1 \in Nat /\ Len(out) + 1 \notin 1..Len(out)  BY <2>6
      <4> QED  BY <2>4, <4>1 DEF OutAccount
    <3> HIDE DEF b
    <3>7. PICK o2 \in Owners : Passes(o2, owner, a, b, Under(t))
      BY <2>4, <2>10, <3>5, <3>6, Passed
    <3>8. /\ Owned(o2, a) = {} /\ Owned(o2, b) = Under(t)
          /\ \A x \in Slots : x \notin {a, b} => Owned(o2, x) = Owned(owner, x)
      BY <2>10, <3>7 DEF Passes
    <3>9. /\ SameArea(o2, owner, "unstarted") /\ SameArea(o2, owner, "queued")
          /\ SameArea(o2, owner, "frame")
      <4>1. \A j \in Nat : /\ <<"unstarted", j>> \notin {a, b} /\ <<"queued", j>> \notin {a, b}
                           /\ <<"frame", j>> \notin {a, b}
        BY DEF a, b
      <4> QED  BY <3>8, <4>1, OtherAreas
    <3>10. SeedAccount(o2, seeds, k)
      <4>1. \A j \in Nat : j # k => <<"seed", j>> \in Slots /\ <<"seed", j>> \notin {a, b}
        BY DEF a, b, Slots
      <4> QED  BY <2>11, <3>8, <4>1
    <3>11. OutAccount(o2, out')
      <4>1. \A j \in Nat : j # Len(out) + 1 => <<"emitted", j>> \in Slots /\ <<"emitted", j>> \notin {a, b}
        BY DEF a, b, Slots
      <4>2. \A j \in Nat : j # Len(out) + 1 => Owned(o2, <<"emitted", j>>) = Owned(owner, <<"emitted", j>>)
        BY <3>8, <4>1
      <4>3. EmittedAccount(o2, Len(out) + 1, path)
        BY <2>9, <3>4, <3>8 DEF EmittedAccount, b
      <4>4. out \in Seq(SoundPaths(Len(call.seq))) /\ path \in SoundPaths(Len(call.seq))
        BY <2>7, <3>3 DEF KernelInv
      <4> QED  BY <2>4, <3>2, <4>2, <4>3, <4>4, OutGrows
    <3>12. StartAccount(o2, left) /\ QueueAccount(o2, queue, head, {}) /\ StackAccount(o2, <<>>)
      BY <2>4, <3>9, AreasKept
    <3>13. StartAccount(o2, ToStart(phase', left'))  BY <2>1, <3>12 DEF ToStart
    <3>14. QueueAccount(o2, queue', head', IF phase' = "breadth" THEN left' ELSE {})
      BY <2>1, <3>12
    <3>15. SeedAccount(o2, seeds', IF phase' = "done" THEN Len(seeds') ELSE taken')
      BY <2>1, <3>10
    <3>16. StackAccount(o2, stack')  BY <2>1, <3>1, <3>12
    <3> QED  BY <2>1, <2>5, <3>11, <3>13, <3>14, <3>15, <3>16, ExactKept
  <2>13. CASE ~(PrefixLen >= Len(call.seq))
    <3>1. stack' = <<Waiting(SeedState(path))>> /\ out' = out
      BY <2>13 DEF HcetSeed, path, k
    <3>2. Stands(t, SeedState(path))
      <4>1. path[1] = t[1].vertex
        <5>1. 1 \in 1..Len(t)  BY TrailTypes
        <5> QED  BY <2>9, <5>1 DEF Events
      <4> QED  BY <2>9, <4>1 DEF Stands, SeedState, State
    <3> DEFINE b == <<"frame", 1>>
    <3>3. b \in Slots /\ a # b /\ b # <<"unstarted", 1>>  BY DEF Slots, a
    <3>4. Owned(owner, b) = {}
      <4>1. Len(<<>>) = 0  BY EmptySeq
      <4> QED  BY <2>4, <4>1 DEF StackAccount
    <3> HIDE DEF b
    <3>5. PICK o2 \in Owners : Passes(o2, owner, a, b, Under(t))
      BY <2>4, <2>10, <3>3, <3>4, Passed
    <3>6. /\ Owned(o2, a) = {} /\ Owned(o2, b) = Under(t)
          /\ \A x \in Slots : x \notin {a, b} => Owned(o2, x) = Owned(owner, x)
      BY <2>10, <3>5 DEF Passes
    <3>7. /\ SameArea(o2, owner, "unstarted") /\ SameArea(o2, owner, "queued")
          /\ SameArea(o2, owner, "emitted")
      <4>1. \A j \in Nat : /\ <<"unstarted", j>> \notin {a, b} /\ <<"queued", j>> \notin {a, b}
                           /\ <<"emitted", j>> \notin {a, b}
        BY DEF a, b
      <4> QED  BY <3>6, <4>1, OtherAreas
    <3>8. SeedAccount(o2, seeds, k)
      <4>1. \A j \in Nat : j # k => <<"seed", j>> \in Slots /\ <<"seed", j>> \notin {a, b}
        BY DEF a, b, Slots
      <4> QED  BY <2>11, <3>6, <4>1
    <3>9. StackAccount(o2, stack')
      <4>1. \A j \in Nat : j # 1 => <<"frame", j>> \in Slots /\ <<"frame", j>> \notin {a, b}
        BY DEF a, b, Slots
      <4>2. \A j \in Nat : j # 1 => Owned(o2, <<"frame", j>>) = Owned(owner, <<"frame", j>>)
        BY <3>6, <4>1
      <4>3. Owned(o2, <<"frame", 1>>) = Under(t)  BY <3>6 DEF b
      <4> QED  BY <2>4, <3>1, <3>2, <4>2, <4>3, FirstFrame
    <3>10. StartAccount(o2, left) /\ QueueAccount(o2, queue, head, {}) /\ OutAccount(o2, out)
      BY <2>4, <3>7, AreasKept
    <3>11. StartAccount(o2, ToStart(phase', left'))  BY <2>1, <3>10 DEF ToStart
    <3>12. QueueAccount(o2, queue', head', IF phase' = "breadth" THEN left' ELSE {})
      BY <2>1, <3>10
    <3>13. SeedAccount(o2, seeds', IF phase' = "done" THEN Len(seeds') ELSE taken')
      BY <2>1, <3>8
    <3>14. OutAccount(o2, out')  BY <3>1, <3>10
    <3> QED  BY <2>1, <2>5, <3>9, <3>11, <3>12, <3>13, <3>14, ExactKept
  <2> QED  BY <2>12, <2>13
<1> QED  BY <1>1, <1>2

\* A call of dfs() on a whole path emits it; any other keeps its trails, edge
\* by edge.
LEMMA DfsCallExact ==
  ASSUME KernelInv, ExactInv, DfsCall
  PROVE  ExactInv'
<1>1. CASE overflow'  BY <1>1 DEF ExactInv
<1>2. CASE ~overflow'
  <2> DEFINE f == Head(stack)
             s == f.state
             n == Len(stack)
             tl == Tail(stack)
  <2>1. /\ phase = "depth" /\ stack # <<>> /\ ~f.begun /\ call' = call
        /\ UNCHANGED <<phase, left, queue, head, seeds, taken>>
    BY DEF DfsCall
  <2>2. ~overflow  BY <1>2 DEF DfsCall, Emit
  <2>3. PICK owner \in Owners : Accounted(owner)  BY <2>2 DEF ExactInv
  <2>4. /\ StartAccount(owner, left) /\ QueueAccount(owner, queue, head, {})
        /\ SeedAccount(owner, seeds, taken)
        /\ StackAccount(owner, stack) /\ OutAccount(owner, out)
    BY <2>1, <2>3 DEF Accounted, ToStart
  <2>5. Shape'  BY <2>1, <2>2, DepthShape DEF ExactInv
  <2>6. /\ n \in Nat \ {0} /\ FrameAccount(owner, n, f)
        /\ \A d \in 1..n - 1 : FrameAccount(owner, d, tl[n - d])
        /\ \A d \in Nat : d \notin 1..n => Owned(owner, <<"frame", d>>) = {}
    BY <2>1, <2>4, StackTop DEF KernelInv
  <2>7. /\ f \in Frames /\ tl \in Seq(Frames) /\ Len(tl) = n - 1 /\ stack \in Seq(Frames)
    BY <2>1, HeadTailProperties DEF KernelInv
  <2>8. /\ s \in SoundStates /\ s.idx \in 1..Len(call.seq) /\ Len(call.seq) \in Nat
    BY <2>7, CallTypes, InvCall DEF Frames, SoundStates, SearchState
  <2>9. PICK t \in Trails : Stands(t, s) /\ Owned(owner, <<"frame", n>>) = Under(t)
    BY <2>1, <2>6 DEF FrameAccount
  <2>10. StartAccount(owner, ToStart(phase', left'))  BY <2>1, <2>4 DEF ToStart
  <2>11. CASE s.idx >= Len(call.seq) /\ Emit(s.path) /\ stack' = tl
    <3> DEFINE path == s.path
    <3>1. out' = Fill(out, <<path>>) /\ ~Spills(out, <<path>>)  BY <1>2, <2>11 DEF Emit
    <3>2. s.idx = Len(call.seq)  BY <2>8, <2>11
    <3>3. path \in SoundPaths(Len(call.seq))
      BY <2>8, <3>2 DEF SoundStates, SearchState, SoundPaths
    <3>4. t \in Full /\ Under(t) = {t}
      <4>1. Last(t).idx = Len(call.seq)  BY <2>9, <3>2 DEF Stands
      <4> QED  BY <4>1, UnderEnds, InvCall
    <3> DEFINE a == <<"frame", n>>
               b == <<"emitted", Len(out) + 1>>
    <3>5. Len(out) \in Nat  BY LenProperties DEF KernelInv
    <3>6. /\ a \in Slots /\ b \in Slots /\ a # b /\ a # <<"unstarted", 1>> /\ b # <<"unstarted", 1>>
          /\ Owned(owner, a) = Under(t)
      BY <2>6, <2>9, <3>5 DEF Slots
    <3>7. Owned(owner, b) = {}
      <4>1. Len(out) + 1 \in Nat /\ Len(out) + 1 \notin 1..Len(out)  BY <3>5
      <4> QED  BY <2>4, <4>1 DEF OutAccount
    <3> HIDE DEF a, b, path, n
    <3>8. PICK o2 \in Owners : Passes(o2, owner, a, b, Under(t))
      BY <2>4, <3>6, <3>7, Passed
    <3>9. /\ Owned(o2, a) = {} /\ Owned(o2, b) = Under(t)
          /\ \A x \in Slots : x \notin {a, b} => Owned(o2, x) = Owned(owner, x)
      BY <3>6, <3>8 DEF Passes
    <3>10. /\ SameArea(o2, owner, "unstarted") /\ SameArea(o2, owner, "queued")
           /\ SameArea(o2, owner, "seed")
      <4>1. \A k \in Nat : /\ <<"unstarted", k>> \notin {a, b} /\ <<"queued", k>> \notin {a, b}
                           /\ <<"seed", k>> \notin {a, b}
        BY DEF a, b
      <4> QED  BY <3>9, <4>1, OtherAreas
    <3>11. OutAccount(o2, out')
      <4>1. \A j \in Nat : j # Len(out) + 1 => <<"emitted", j>> \in Slots /\ <<"emitted", j>> \notin {a, b}
        BY DEF a, b, Slots
      <4>2. \A j \in Nat : j # Len(out) + 1 => Owned(o2, <<"emitted", j>>) = Owned(owner, <<"emitted", j>>)
        BY <3>9, <4>1
      <4>3. path = Events(t)  BY <2>9 DEF Stands, path
      <4>4. EmittedAccount(o2, Len(out) + 1, path)
        BY <3>4, <3>9, <4>3 DEF EmittedAccount, b
      <4>5. out \in Seq(SoundPaths(Len(call.seq)))  BY DEF KernelInv
      <4> QED  BY <2>4, <3>1, <3>3, <4>2, <4>4, <4>5, OutGrows
    <3>12. StackAccount(o2, tl)
      <4>1. \A d \in Nat : d # n => <<"frame", d>> \in Slots /\ <<"frame", d>> \notin {a, b}
        BY DEF a, b, Slots
      <4>2. \A d \in Nat : d # n => Owned(o2, <<"frame", d>>) = Owned(owner, <<"frame", d>>)
        BY <3>9, <4>1
      <4>3. Owned(o2, <<"frame", n>>) = {}  BY <3>9 DEF a
      <4> QED  BY <2>1, <2>4, <2>7, <4>2, <4>3, StackPopped DEF n
    <3>13. StartAccount(o2, left) /\ QueueAccount(o2, queue, head, {}) /\ SeedAccount(o2, seeds, taken)
      BY <2>4, <3>10, AreasKept
    <3>14. StartAccount(o2, ToStart(phase', left'))  BY <2>1, <3>13 DEF ToStart
    <3>15. QueueAccount(o2, queue', head', IF phase' = "breadth" THEN left' ELSE {})
      BY <2>1, <3>13
    <3>16. SeedAccount(o2, seeds', IF phase' = "done" THEN Len(seeds') ELSE taken')
      BY <2>1, <3>13
    <3>17. StackAccount(o2, stack')  BY <2>11, <3>12
    <3> QED  BY <2>1, <2>5, <3>11, <3>14, <3>15, <3>16, <3>17, ExactKept
  <2>12. CASE /\ ~TooLong(s.path)
              /\ s.idx < Len(call.seq)
              /\ stack' = <<[state |-> s, begun |-> TRUE, left |-> OutEdges(Last(s.path))]>> \o tl
              /\ UNCHANGED <<out, overflow>>
    <3> DEFINE g == [state |-> s, begun |-> TRUE, left |-> OutEdges(Last(s.path))]
               top == <<g>>
    <3>1. FrameAccount(owner, n, g)
      <4>1. Last(s.path) = Last(t).vertex /\ Last(t).idx < Len(call.seq)
        BY <2>9, <2>12, StandsLast DEF Stands
      <4>2. Under(t) = Via(t, OutEdges(Last(s.path)))  BY <4>1, UnderEnds, InvCall
      <4>3. g.state = s /\ g.begun /\ g.left = OutEdges(Last(s.path))  OBVIOUS
      <4> HIDE DEF g
      <4> QED  BY <2>9, <4>2, <4>3 DEF FrameAccount
    <3> HIDE DEF g
    <3>2. top \in Seq(Frames \cup {g}) /\ Len(top) = 1 /\ top[1] = g  OBVIOUS
    <3>3. tl \in Seq(Frames \cup {g})  BY <2>7, SeqMonotonic
    <3> HIDE DEF top, tl, n
    <3>4. StackAccount(owner, top \o tl)
      <4>1. ASSUME NEW d \in 1..Len(tl)
            PROVE  FrameAccount(owner, d, tl[Len(tl) + 1 - d])
        <5>1. d \in 1..n - 1 /\ Len(tl) + 1 - d = n - d  BY <2>6, <2>7
        <5> QED  BY <2>6, <5>1
      <4>2. ASSUME NEW j \in 1..Len(top)
            PROVE  FrameAccount(owner, Len(tl) + Len(top) + 1 - j, top[j])
        <5>1. j = 1 /\ Len(tl) + Len(top) + 1 - j = n  BY <2>6, <2>7, <3>2
        <5> QED  BY <3>1, <3>2, <5>1
      <4>3. 1..Len(top) + Len(tl) = 1..n  BY <2>6, <2>7, <3>2
      <4> QED  BY <2>6, <3>2, <3>3, <4>1, <4>2, <4>3, StackParts
    <3>5. stack' = top \o tl  BY <2>12 DEF top, g, tl
    <3>6. QueueAccount(owner, queue', head', IF phase' = "breadth" THEN left' ELSE {})
      BY <2>1, <2>4
    <3>7. SeedAccount(owner, seeds', IF phase' = "done" THEN Len(seeds') ELSE taken')
      BY <2>1, <2>4
    <3>8. StackAccount(owner, stack') /\ OutAccount(owner, out')  BY <2>4, <2>12, <3>4, <3>5
    <3> QED  BY <2>1, <2>5, <2>10, <3>6, <3>7, <3>8, ExactKept
  <2> QED  BY <1>2, <2>11, <2>12 DEF DfsCall
<1> QED  BY <1>1, <1>2

\* Depth first, an edge hands its trails to the calls made along it.
LEMMA DfsEdgeExact ==
  ASSUME KernelInv, ExactInv, DfsEdge
  PROVE  ExactInv'
<1> DEFINE f == Head(stack)
           s == f.state
           n == Len(stack)
           tl == Tail(stack)
           along(i) == Along(s, call.graph.edges[i])
           calls(i) == [m \in DOMAIN along(i) |-> Waiting(along(i)[m])]
           rest(i) == [f EXCEPT !.left = @ \ {i}]
<1>1. /\ phase = "depth" /\ stack # <<>> /\ f.begun /\ call' = call
      /\ UNCHANGED <<phase, left, queue, head, seeds, taken, out, overflow>>
  BY DEF DfsEdge
<1>2. PICK i \in f.left : stack' = calls(i) \o <<rest(i)>> \o tl
  BY DEF DfsEdge
<1>3. CASE overflow  BY <1>1, <1>3 DEF ExactInv
<1>4. CASE ~overflow
  <2>1. PICK owner \in Owners : Accounted(owner)  BY <1>4 DEF ExactInv
  <2>2. /\ StartAccount(owner, left) /\ QueueAccount(owner, queue, head, {})
        /\ SeedAccount(owner, seeds, taken)
        /\ StackAccount(owner, stack) /\ OutAccount(owner, out)
    BY <1>1, <2>1 DEF Accounted, ToStart
  <2>3. Shape'  BY <1>1, <1>4, DepthShape DEF ExactInv
  <2>4. /\ n \in Nat \ {0} /\ FrameAccount(owner, n, f)
        /\ \A d \in 1..n - 1 : FrameAccount(owner, d, tl[n - d])
        /\ \A d \in Nat : d \notin 1..n => Owned(owner, <<"frame", d>>) = {}
    BY <1>1, <2>2, StackTop DEF KernelInv
  <2>5. f \in Frames /\ tl \in Seq(Frames) /\ Len(tl) = n - 1
    BY <1>1, HeadTailProperties DEF KernelInv
  <2>6. /\ s \in SoundStates /\ f.left \subseteq OutEdges(Last(s.path))
        /\ s.idx < Len(call.seq) /\ Len(s.path) < MaxPathLen
    BY <1>1, <2>5 DEF Frames
  <2>7. PICK t \in Trails : Stands(t, s) /\ Owned(owner, <<"frame", n>>) = Via(t, f.left)
    BY <1>1, <2>4 DEF FrameAccount
  <2> DEFINE A == along(i)
             w == Len(A)
             a == <<"frame", n>>
             b == [m \in {1, 2} |-> <<"frame", IF w = 2 THEN n + 3 - m ELSE n + m>>]
             g == rest(i)
             C == calls(i)
  <2>8. A \in Seq(SoundStates) /\ w \in 0..2 /\ DOMAIN A = 1..w /\ A = Along(s, call.graph.edges[i])
    <3> DEFINE S == {x \in SoundStates : x.idx <= s.idx + 1}
    <3>1. A \in Seq(S)  BY <1>2, <2>6, AlongSound, InvCall
    <3>2. S \subseteq SoundStates  OBVIOUS
    <3> HIDE DEF S, A
    <3>3. A \in Seq(SoundStates)  BY <3>1, <3>2, SeqMonotonic
    <3>4. w \in Nat /\ DOMAIN A = 1..w  BY <3>3, LenProperties
    <3>5. DOMAIN A \in {{}, {1}, {1, 2}}
      <4>1. i \in OutEdges(Last(s.path))  BY <1>2, <2>6
      <4>2. DOMAIN Moves(s, call.graph.edges[i]) \in {{}, {1}, {1, 2}}
        BY <2>6, <2>7, <4>1, Branches, InvCall
      <4> QED  BY <4>2 DEF A, Along
    <3>6. 3 \notin DOMAIN A  BY <3>5
    <3>7. w \in 0..2  BY <3>4, <3>6
    <3> QED  BY <3>3, <3>4, <3>7 DEF A
  <2>9. /\ g.state = s /\ g.begun /\ g.left = f.left \ {i} /\ g \in Frames
    BY <1>1, <2>5 DEF Frames
  <2>10. C \in Seq(Frames) /\ Len(C) = w /\ \A m \in 1..w : C[m] = Waiting(A[m])
    <3>1. \A m \in 1..w : Waiting(A[m]) \in Frames  BY <2>8, ElementOfSeq, WaitingFrame
    <3>2. C = [m \in 1..w |-> Waiting(A[m])]  BY <2>8
    <3> HIDE DEF A, w, C
    <3>3. C \in [1..w -> Frames] /\ w \in Nat  BY <2>8, <3>1, <3>2
    <3> QED  BY <3>2, <3>3, SeqDef
  <2>11. stack' = C \o <<g>> \o tl  BY <1>2
  <2> HIDE DEF C, g, A, w, s, tl, n, f
  <2>12. /\ a \in Slots /\ b \in [{1, 2} -> Slots] /\ a # b[1] /\ a # b[2] /\ b[1] # b[2]
    BY <2>4, <2>8 DEF Slots
  <2>13. \A m \in {1, 2} : b[m] = <<"frame", IF w = 2 THEN n + 3 - m ELSE n + m>>  OBVIOUS
  <2>14. Owned(owner, b[1]) = {} /\ Owned(owner, b[2]) = {}
    <3>1. \A m \in {1, 2} : /\ n + 3 - m \in Nat /\ n + 3 - m \notin 1..n
                            /\ n + m \in Nat /\ n + m \notin 1..n
      BY <2>4
    <3>2. \A m \in {1, 2} : Owned(owner, b[m]) = {}  BY <2>4, <2>13, <3>1
    <3> QED  BY <3>2
  <2> HIDE DEF b
  <2>15. PICK o2 \in Owners : Deals(o2, owner, a, b, t, s, f.left, i)
    <3> DEFINE L == f.left
    <3>1. IsCall(call) /\ i \in L /\ L \subseteq OutEdges(Last(s.path)) /\ Owned(owner, a) = Via(t, L)
      BY <1>2, <2>6, <2>7, InvCall DEF f
    <3> HIDE DEF a, L
    <3>2. \E o2 \in Owners : Deals(o2, owner, a, b, t, s, L, i)
      BY <2>6, <2>7, <2>12, <2>14, <3>1, EdgeHands
    <3> QED  BY <3>2 DEF L
  <2>16. /\ Owned(o2, a) = Via(t, f.left \ {i})
         /\ \A m \in {1, 2} :
              IF m \in 1..w THEN \E u \in Trails : Stands(u, A[m]) /\ Owned(o2, b[m]) = Under(u)
              ELSE Owned(o2, b[m]) = {}
         /\ \A x \in Slots : x \notin {a, b[1], b[2]} => Owned(o2, x) = Owned(owner, x)
    BY <2>8, <2>15 DEF Deals
  <2>17. /\ SameArea(o2, owner, "unstarted") /\ SameArea(o2, owner, "seed")
         /\ SameArea(o2, owner, "queued") /\ SameArea(o2, owner, "emitted")
    <3> DEFINE S == {a, b[1], b[2]}
    <3>1. \A k \in Nat : /\ <<"unstarted", k>> \notin S /\ <<"seed", k>> \notin S
                         /\ <<"queued", k>> \notin S /\ <<"emitted", k>> \notin S
      BY <2>13
    <3>2. \A x \in Slots : x \notin S => Owned(o2, x) = Owned(owner, x)  BY <2>16
    <3> HIDE DEF S
    <3> QED  BY <3>1, <3>2, OtherAreas
  <2>18. \A d \in Nat : d \notin {n, n + 1, n + 2} => Owned(o2, <<"frame", d>>) = Owned(owner, <<"frame", d>>)
    <3>1. \A d \in Nat : d \notin {n, n + 1, n + 2} =>
            <<"frame", d>> \in Slots /\ <<"frame", d>> \notin {a, b[1], b[2]}
      <4>1. \A m \in {1, 2} : (IF w = 2 THEN n + 3 - m ELSE n + m) \in {n + 1, n + 2}  BY <2>4
      <4>2. \A m \in {1, 2} : \A d \in Nat : d \notin {n, n + 1, n + 2} => <<"frame", d>> # b[m]
        BY <2>13, <4>1
      <4> QED  BY <4>2 DEF Slots
    <3> QED  BY <2>16, <3>1
  <2> DEFINE top == C \o <<g>>
  <2>19. /\ top \in Seq(Frames) /\ Len(top) = w + 1
         /\ \A m \in 1..w : top[m] = C[m]
         /\ top[w + 1] = g
    <3>1. <<g>> \in Seq(Frames) /\ Len(<<g>>) = 1 /\ <<g>>[1] = g  BY <2>9
    <3> DEFINE G == <<g>>
    <3> HIDE DEF G
    <3>2. /\ C \o G \in Seq(Frames) /\ Len(C \o G) = Len(C) + Len(G)
          /\ \A k \in 1..Len(C) + Len(G) :
               (C \o G)[k] = IF k <= Len(C) THEN C[k] ELSE G[k - Len(C)]
      BY <2>10, <3>1, ConcatProperties DEF G
    <3>3. /\ Len(C) = w /\ w \in Nat /\ Len(G) = 1 /\ G[1] = g  BY <2>8, <2>10, <3>1 DEF G
    <3>4. w + 1 \in 1..w + 1 /\ ~(w + 1 <= w) /\ (w + 1) - w = 1  BY <3>3
    <3>5. \A k \in 1..w : k \in 1..w + 1 /\ k <= w  BY <3>3
    <3> QED  BY <3>2, <3>3, <3>4, <3>5 DEF G
  <2>20. stack' = top \o tl  BY <2>11
  <2> HIDE DEF top
  <2>21. StackAccount(o2, top \o tl)
    <3>1. ASSUME NEW d \in 1..Len(tl)
          PROVE  FrameAccount(o2, d, tl[Len(tl) + 1 - d])
      <4>1. d \in 1..n - 1 /\ Len(tl) + 1 - d = n - d /\ d \in Nat /\ d \notin {n, n + 1, n + 2}
        BY <2>4, <2>5
      <4>2. FrameAccount(owner, d, tl[n - d])  BY <2>4, <4>1
      <4> QED  BY <2>18, <4>1, <4>2 DEF FrameAccount
    <3>2. ASSUME NEW j \in 1..Len(top)
          PROVE  FrameAccount(o2, Len(tl) + Len(top) + 1 - j, top[j])
      <4>1. CASE j = w + 1
        <5>1. Len(tl) + Len(top) + 1 - j = n /\ top[j] = g  BY <2>4, <2>5, <2>8, <2>19, <4>1
        <5>2. FrameAccount(o2, n, g)  BY <2>7, <2>9, <2>16 DEF FrameAccount
        <5> QED  BY <5>1, <5>2
      <4>2. CASE j \in 1..w
        <5>1. top[j] = Waiting(A[j])  BY <2>10, <2>19, <4>2
        <5>2. Len(tl) + Len(top) + 1 - j = n + w + 1 - j  BY <2>4, <2>5, <2>8, <2>19, <4>2
        <5>3. j \in {1, 2} /\ n + w + 1 - j = IF w = 2 THEN n + 3 - j ELSE n + j
          BY <2>4, <2>8, <4>2
        <5>4. b[j] = <<"frame", n + w + 1 - j>>  BY <2>13, <5>3
        <5>5. PICK u \in Trails : Stands(u, A[j]) /\ Owned(o2, b[j]) = Under(u)
          BY <2>16, <4>2, <5>3
        <5>6. FrameAccount(o2, n + w + 1 - j, Waiting(A[j]))
          BY <5>4, <5>5 DEF FrameAccount, Waiting
        <5> QED  BY <5>1, <5>2, <5>6
      <4> QED  BY <2>8, <2>19, <4>1, <4>2
    <3>3. ASSUME NEW d \in Nat, d \notin 1..Len(top) + Len(tl)
          PROVE  Owned(o2, <<"frame", d>>) = {}
      <4>1. d \notin 1..n + w  BY <2>4, <2>5, <2>8, <2>19, <3>3
      <4>2. CASE d \in {n + 1, n + 2}
        <5>1. \E m \in {1, 2} : d = IF w = 2 THEN n + 3 - m ELSE n + m  BY <2>4, <2>8, <4>2
        <5>2. PICK m \in {1, 2} : d = IF w = 2 THEN n + 3 - m ELSE n + m  BY <5>1
        <5>3. m \notin 1..w /\ b[m] = <<"frame", d>>  BY <2>4, <2>8, <2>13, <4>1, <5>2
        <5> QED  BY <2>16, <5>3
      <4>3. CASE d \notin {n + 1, n + 2}
        <5>1. d # n /\ d \notin 1..n  BY <2>4, <2>8, <4>1
        <5> QED  BY <2>4, <2>18, <4>3, <5>1
      <4> QED  BY <4>2, <4>3
    <3> QED  BY <2>5, <2>19, <3>1, <3>2, <3>3, StackParts
  <2>22. /\ StartAccount(o2, left) /\ QueueAccount(o2, queue, head, {})
         /\ SeedAccount(o2, seeds, taken) /\ OutAccount(o2, out)
    BY <2>2, <2>17, AreasKept
  <2>23. StartAccount(o2, ToStart(phase', left'))  BY <1>1, <2>22 DEF ToStart
  <2>24. QueueAccount(o2, queue', head', IF phase' = "breadth" THEN left' ELSE {})
    BY <1>1, <2>22
  <2>25. SeedAccount(o2, seeds', IF phase' = "done" THEN Len(seeds') ELSE taken')
    BY <1>1, <2>22
  <2>26. StackAccount(o2, stack') /\ OutAccount(o2, out')  BY <1>1, <2>20, <2>21, <2>22
  <2> QED  BY <1>1, <2>3, <2>23, <2>24, <2>25, <2>26, ExactKept
<1> QED  BY <1>3, <1>4

\* A call of dfs() that returns has no trail left.
LEMMA DfsReturnExact ==
  ASSUME KernelInv, ExactInv, DfsReturn
  PROVE  ExactInv'
<1>1. /\ phase = "depth" /\ stack # <<>> /\ Head(stack).begun /\ Head(stack).left = {}
      /\ stack' = Tail(stack) /\ call' = call
      /\ UNCHANGED <<phase, left, queue, head, seeds, taken, out, overflow>>
  BY DEF DfsReturn
<1>2. CASE overflow  BY <1>1, <1>2 DEF ExactInv
<1>3. CASE ~overflow
  <2>1. PICK owner \in Owners : Accounted(owner)  BY <1>3 DEF ExactInv
  <2>2. /\ StartAccount(owner, left) /\ QueueAccount(owner, queue, head, {})
        /\ SeedAccount(owner, seeds, taken)
        /\ StackAccount(owner, stack) /\ OutAccount(owner, out)
    BY <1>1, <2>1 DEF Accounted, ToStart
  <2>3. Shape'  BY <1>1, <1>3, DepthShape DEF ExactInv
  <2>4. Owned(owner, <<"frame", Len(stack)>>) = {}
    <3>1. FrameAccount(owner, Len(stack), Head(stack))
      BY <1>1, <2>2, StackTop DEF KernelInv
    <3>2. \A t \in Trails : Via(t, {}) = {}  BY DEF Via
    <3> QED  BY <1>1, <3>1, <3>2 DEF FrameAccount
  <2>5. StackAccount(owner, Tail(stack))
    BY <1>1, <2>2, <2>4, StackPopped DEF KernelInv
  <2>6. StartAccount(owner, ToStart(phase', left'))  BY <1>1, <2>2 DEF ToStart
  <2>7. QueueAccount(owner, queue', head', IF phase' = "breadth" THEN left' ELSE {})
    BY <1>1, <2>2
  <2>8. SeedAccount(owner, seeds', IF phase' = "done" THEN Len(seeds') ELSE taken')
    BY <1>1, <2>2
  <2>9. StackAccount(owner, stack') /\ OutAccount(owner, out')  BY <1>1, <2>2, <2>5
  <2> QED  BY <1>1, <2>3, <2>6, <2>7, <2>8, <2>9, ExactKept
<1> QED  BY <1>2, <1>3

\* At the start all trails are with the start vertices.
LEMMA ExactInit ==
  ASSUME Init
  PROVE  ExactInv
<1> DEFINE owner == [T \in Full |-> <<"unstarted", 0>>]
<1>1. /\ call \in Calls /\ phase = "called" /\ left = {} /\ queue = <<>> /\ head = 0
      /\ seeds = <<>> /\ taken = 0 /\ stack = <<>> /\ out = <<>>
  BY DEF Init
<1>2. owner \in Owners  BY DEF Owners, Slots
<1>3. \A T \in Full : owner[T] = <<"unstarted", 0>>  OBVIOUS
<1> HIDE DEF owner
<1>4. Len(<<>>) = 0 /\ \A k \in Nat : k \notin 1..0  BY EmptySeq
<1>5. StartAccount(owner, ToStart(phase, left))
  <2>1. ASSUME NEW T \in Full
        PROVE  T[1].at \in StartPositions
    <3>1. PICK i \in StartPositions : T[1] = StartPoint(i)  BY DEF Full, Trails
    <3> QED  BY <3>1 DEF StartPoint
  <2>2. From(StartPositions) = Full  BY <2>1 DEF From
  <2>3. \A k \in Nat : Owned(owner, <<"unstarted", k>>) = IF k = 0 THEN Full ELSE {}
    BY <1>3 DEF Owned
  <2> QED  BY <1>1, <2>2, <2>3 DEF StartAccount, ToStart
<1>6. \A k \in Nat, area \in {"queued", "seed", "frame", "emitted"} : Owned(owner, <<area, k>>) = {}
  BY <1>3 DEF Owned
<1>7. QueueAccount(owner, queue, head, IF phase = "breadth" THEN left ELSE {})
  BY <1>1, <1>4, <1>6 DEF QueueAccount
<1>8. SeedAccount(owner, seeds, IF phase = "done" THEN Len(seeds) ELSE taken)
  BY <1>1, <1>4, <1>6 DEF SeedAccount
<1>9. StackAccount(owner, stack) /\ OutAccount(owner, out)
  BY <1>1, <1>4, <1>6 DEF StackAccount, OutAccount
<1>10. Shape  BY <1>1, <1>4 DEF Shape
<1> QED  BY <1>2, <1>5, <1>7, <1>8, <1>9, <1>10 DEF ExactInv, Accounted

\* Every step keeps the invariant.
LEMMA ExactStep == KernelInv /\ ExactInv /\ [Next]_vars => ExactInv'
<1> SUFFICES ASSUME KernelInv, ExactInv, [Next]_vars
             PROVE  ExactInv'
  OBVIOUS
<1>1. CASE AllocFails \/ Begin \/ StartsDone \/ DepthDone  BY <1>1, PhaseExact
<1>2. CASE BreadthDone  BY <1>2, ReturnExact
<1>3. CASE EnqueueStart  BY <1>3, EnqueueExact
<1>4. CASE Dequeue  BY <1>4, DequeueExact
<1>5. CASE BreadthEdge  BY <1>5, BreadthEdgeExact
<1>6. CASE McetStart  BY <1>6, McetStartExact
<1>7. CASE HcetSeed  BY <1>7, HcetSeedExact
<1>8. CASE DfsCall  BY <1>8, DfsCallExact
<1>9. CASE DfsEdge  BY <1>9, DfsEdgeExact
<1>10. CASE DfsReturn  BY <1>10, DfsReturnExact
<1>11. CASE UNCHANGED vars
  <2>1. /\ call' = call
        /\ UNCHANGED <<phase, left, queue, head, seeds, taken, stack, out, overflow>>
    BY <1>11 DEF vars
  <2>2. CASE overflow  BY <2>1, <2>2 DEF ExactInv
  <2>3. CASE ~overflow
    <3>1. PICK owner \in Owners : Accounted(owner)  BY <2>3 DEF ExactInv
    <3>2. Shape'  BY <2>1, <2>3 DEF ExactInv, Shape
    <3> QED  BY <2>1, <3>1, <3>2, ExactKept DEF Accounted
  <2> QED  BY <2>2, <2>3
<1> QED
  BY <1>1, <1>2, <1>3, <1>4, <1>5, <1>6, <1>7, <1>8, <1>9, <1>10, <1>11 DEF Next

----------------------------------------------------------------------------
(* The count: the full trails of a path are its walks and readings.        *)

WalkOf(T) == [m \in 1..Len(T) - 1 |-> T[m + 1].at]
ReadingOf(T) == [m \in 1..Len(T) |-> T[m].idx]

TrailsOf(path) == {T \in Full : Events(T) = path}
WalksOf(v, path) == {w \in Walks(v) : Route(v, w) = path}

\* A walk is a sequence of edges, and its route a sequence of one event more.
LEMMA WalkTypes ==
  ASSUME NEW v, NEW w \in Walks(v)
  PROVE  /\ Len(w) \in 0..MaxPathLen /\ w \in [1..Len(w) -> DOMAIN call.graph.edges]
         /\ DOMAIN Route(v, w) = 1..Len(w) + 1 /\ Len(Route(v, w)) = Len(w) + 1
         /\ Route(v, w)[1] = v
         /\ \A k \in 1..Len(w) : /\ Route(v, w)[k + 1] = call.graph.edges[w[k]].dst
                                 /\ call.graph.edges[w[k]].src = Route(v, w)[k]
                                 /\ EdgeTemporalOk(Route(v, w)[k], Route(v, w)[k + 1], Time(v),
                                                   call.graph.edges[w[k]])
<1> DEFINE D == DOMAIN call.graph.edges
<1>1. PICK n \in 0..MaxPathLen : w \in [1..n -> D]  BY DEF Walks
<1> HIDE DEF D
<1>2. n \in Nat  BY KernelAssumption
<1>3. w \in Seq(D) /\ Len(w) = n  BY <1>1, <1>2, SeqDef
<1> DEFINE p == Route(v, w)
<1>4. p = [k \in 1..n + 1 |-> IF k = 1 THEN v ELSE call.graph.edges[w[k - 1]].dst]
  BY <1>3 DEF Route
<1>5. \A k \in DOMAIN w : /\ call.graph.edges[w[k]].src = p[k]
                          /\ EdgeTemporalOk(call.graph.edges[w[k]].src, call.graph.edges[w[k]].dst,
                                            Time(v), call.graph.edges[w[k]])
  BY DEF Walks
<1> HIDE DEF p
<1>6. DOMAIN p = 1..n + 1 /\ Len(p) = n + 1 /\ p[1] = v
  BY <1>2, <1>4
<1>7. ASSUME NEW k \in 1..n
      PROVE  /\ p[k + 1] = call.graph.edges[w[k]].dst
             /\ call.graph.edges[w[k]].src = p[k]
             /\ EdgeTemporalOk(p[k], p[k + 1], Time(v), call.graph.edges[w[k]])
  <2>1. k + 1 \in 1..n + 1 /\ k + 1 # 1 /\ (k + 1) - 1 = k  BY <1>2
  <2>2. p[k + 1] = call.graph.edges[w[k]].dst  BY <1>4, <2>1
  <2>3. k \in DOMAIN w  BY <1>1
  <2> QED  BY <1>5, <2>2, <2>3
<1> QED  BY <1>1, <1>3, <1>6, <1>7 DEF p, D

\* A full trail is a walk and a reading of its path.
LEMMA TrailIsWalkRead ==
  ASSUME IsCall(call), call \in Calls, UniqueIds, NEW i \in StartPositions,
         NEW n \in 0..MaxPathLen, NEW path, path[1] = call.graph.order[i],
         NEW T \in TrailsOf(path), Len(T) = n + 1
  PROVE  /\ T[1] = StartPoint(i)
         /\ WalkOf(T) \in WalksOf(call.graph.order[i], path)
         /\ ReadingOf(T) \in Readings(path)
<1> DEFINE v == call.graph.order[i]
           w == WalkOf(T)
           r == ReadingOf(T)
           E == DOMAIN call.graph.edges
<1>1. T \in Full /\ T \in Trails /\ Events(T) = path  BY DEF TrailsOf, Full
<1>2. /\ Len(T) \in Nat \ {0} /\ n \in Nat /\ Last(T) = T[n + 1]
      /\ \A k \in 1..n + 1 : T[k] \in Points
  BY <1>1, TrailTypes
<1>3. path = [k \in 1..n + 1 |-> T[k].vertex]  BY <1>1 DEF Events
<1>4. Len(path) = n + 1 /\ \A k \in 1..n + 1 : path[k] = T[k].vertex  BY <1>2, <1>3
<1>5. T[1] = StartPoint(i)
  <2>1. PICK j \in StartPositions : T[1] = StartPoint(j)  BY <1>1 DEF Trails
  <2>2. T[1].vertex = call.graph.order[j]  BY <2>1 DEF StartPoint
  <2>3. T[1].vertex = call.graph.order[i]  BY <1>2, <1>4
  <2>4. i = j  BY <2>2, <2>3 DEF UniqueIds, StartPositions
  <2> QED  BY <2>1, <2>4
<1>6. T[1].vertex = v /\ T[1].idx = 1 /\ T[n + 1].idx = Len(call.seq)
  BY <1>1, <1>2, <1>5 DEF StartPoint, Full
<1>7. ASSUME NEW k \in 1..n
      PROVE  Follows(Time(v), T[k], T[k + 1]) /\ k \in 1..n + 1 /\ k + 1 \in 1..n + 1
  <2>1. k \in Nat \ {0} /\ k < Len(T)  BY <1>2
  <2> QED  BY <1>1, <1>2, <1>6, <2>1, FullFollows
<1>8. w = [m \in 1..n |-> T[m + 1].at]
  BY <1>2 DEF WalkOf
<1> HIDE DEF w, v
<1>9. w \in [1..n -> E]
  <2>1. \A k \in 1..n : T[k + 1].at \in E  BY <1>7 DEF Follows, OutEdges
  <2> QED  BY <1>8, <2>1
<1>10. Len(w) = n /\ DOMAIN w = 1..n  BY <1>2, <1>9, SeqDef
<1>11. Route(v, w) = path
  <2>1. Route(v, w) = [k \in 1..n + 1 |-> IF k = 1 THEN v ELSE call.graph.edges[w[k - 1]].dst]
    BY <1>10 DEF Route
  <2>2. ASSUME NEW k \in 1..n + 1, k # 1
        PROVE  call.graph.edges[w[k - 1]].dst = T[k].vertex
    <3> DEFINE m == k - 1
    <3>1. m \in 1..n /\ m + 1 = k  BY <1>2, <2>2
    <3> HIDE DEF m
    <3>2. w[m] = T[k].at  BY <1>8, <3>1
    <3>3. Follows(Time(v), T[m], T[k])  BY <1>7, <3>1
    <3> QED  BY <3>2, <3>3 DEF Follows, m
  <2>3. \A k \in 1..n + 1 : (IF k = 1 THEN v ELSE call.graph.edges[w[k - 1]].dst) = T[k].vertex
    BY <1>6, <2>2
  <2> QED  BY <1>3, <2>1, <2>3
<1>12. w \in Walks(v)
  <2>1. ASSUME NEW k \in DOMAIN w
        PROVE  /\ call.graph.edges[w[k]].src = Route(v, w)[k]
               /\ EdgeTemporalOk(call.graph.edges[w[k]].src, call.graph.edges[w[k]].dst,
                                 Time(v), call.graph.edges[w[k]])
    <3>1. Follows(Time(v), T[k], T[k + 1]) /\ k \in 1..n + 1  BY <1>7, <1>10
    <3>2. w[k] = T[k + 1].at  BY <1>8, <1>10
    <3>3. call.graph.edges[w[k]].src = T[k].vertex  BY <3>1, <3>2 DEF Follows, OutEdges
    <3>4. Route(v, w)[k] = T[k].vertex  BY <1>4, <1>11, <3>1
    <3> QED  BY <3>1, <3>2, <3>3, <3>4 DEF Follows
  <2>2. w \in UNION {[1..m -> E] : m \in 0..MaxPathLen}  BY <1>9
  <2> QED  BY <2>1, <2>2 DEF Walks
<1>13. r \in Readings(path)
  <2>1. r = [m \in 1..n + 1 |-> T[m].idx]  BY DEF ReadingOf
  <2> HIDE DEF r
  <2>2. Len(path) \in Nat /\ 1 \in 1..n + 1 /\ n + 1 \in 1..n + 1  BY <1>2, <1>4
  <2>3. r \in [1..Len(path) -> 1..Len(call.seq)]  BY <1>2, <1>4, <2>1 DEF Points
  <2>4. r[1] = 1 /\ r[Len(path)] = Len(call.seq)  BY <1>4, <1>6, <2>1, <2>2
  <2>5. ASSUME NEW k \in 1..Len(path) - 1
        PROVE  /\ r[k] < Len(call.seq)
               /\ LET step == call.seq[r[k] + 1]
                      gain == r[k + 1] - r[k]
                  IN  \/ gain = 1 /\ Type(path[k + 1]) = step.name
                      \/ gain = 0 /\ (Type(path[k + 1]) # step.name \/ step.kleene_plus)
    <3>1. k \in 1..n  BY <1>2, <1>4
    <3>2. Follows(Time(v), T[k], T[k + 1]) /\ k \in 1..n + 1 /\ k + 1 \in 1..n + 1  BY <1>7, <3>1
    <3>3. r[k] = T[k].idx /\ r[k + 1] = T[k + 1].idx /\ path[k + 1] = T[k + 1].vertex
      BY <1>4, <2>1, <3>2
    <3>4. r[k] \in Int /\ r[k + 1] \in Int  BY <1>2, <3>2, <3>3 DEF Points
    <3> QED  BY <3>2, <3>3, <3>4 DEF Follows
  <2> QED  BY <2>3, <2>4, <2>5 DEF Readings, Progress
<1> QED  BY <1>5, <1>11, <1>12, <1>13 DEF WalksOf, w, v, r

\* A walk and a reading of its path make a full trail.
LEMMA WalkReadIsTrail ==
  ASSUME IsCall(call), NEW i \in StartPositions, NEW n \in 0..MaxPathLen,
         NEW path, Len(path) = n + 1
  PROVE  \A w \in WalksOf(call.graph.order[i], path), r \in Readings(path) :
           \E T \in TrailsOf(path) : WalkOf(T) = w /\ ReadingOf(T) = r
<1> TAKE w \in WalksOf(call.graph.order[i], path), r \in Readings(path)
<1> DEFINE v == call.graph.order[i]
           T == [m \in 1..n + 1 |-> [at |-> IF m = 1 THEN i ELSE w[m - 1],
                                     vertex |-> path[m], idx |-> r[m]]]
<1>1. w \in Walks(v) /\ Route(v, w) = path  BY DEF WalksOf
<1>2. n \in Nat /\ v \in Vertices /\ i \in Nat
  <2>1. call.graph.order \in Seq(Vertices)  BY DEF IsCall, IsGraph, Vertices
  <2> QED  BY <2>1, KernelAssumption, LenProperties, ElementOfSeq DEF StartPositions
<1>3. /\ Len(w) = n /\ w \in [1..n -> DOMAIN call.graph.edges]
      /\ DOMAIN path = 1..n + 1 /\ path[1] = v
      /\ \A k \in 1..n : /\ path[k + 1] = call.graph.edges[w[k]].dst
                         /\ call.graph.edges[w[k]].src = path[k]
                         /\ EdgeTemporalOk(path[k], path[k + 1], Time(v), call.graph.edges[w[k]])
  <2>1. Len(path) = Len(w) + 1 /\ Len(w) \in Nat  BY <1>1, WalkTypes, KernelAssumption
  <2>2. Len(w) = n  BY <1>2, <2>1
  <2>3. /\ w \in [1..Len(w) -> DOMAIN call.graph.edges]
        /\ DOMAIN Route(v, w) = 1..Len(w) + 1 /\ Route(v, w)[1] = v
        /\ \A k \in 1..Len(w) : /\ Route(v, w)[k + 1] = call.graph.edges[w[k]].dst
                                /\ call.graph.edges[w[k]].src = Route(v, w)[k]
                                /\ EdgeTemporalOk(Route(v, w)[k], Route(v, w)[k + 1], Time(v),
                                                  call.graph.edges[w[k]])
    BY <1>1, WalkTypes
  <2> HIDE DEF v
  <2> QED  BY <1>1, <2>2, <2>3
<1>4. /\ r \in [1..n + 1 -> 1..Len(call.seq)] /\ r[1] = 1 /\ r[n + 1] = Len(call.seq)
      /\ \A k \in 1..n : /\ r[k] < Len(call.seq)
                         /\ LET step == call.seq[r[k] + 1]
                                gain == r[k + 1] - r[k]
                            IN  \/ gain = 1 /\ Type(path[k + 1]) = step.name
                                \/ gain = 0 /\ (Type(path[k + 1]) # step.name \/ step.kleene_plus)
  BY <1>2 DEF Readings, Progress
<1> HIDE DEF v
<1>5. \A k \in 1..n + 1 : path[k] \in Vertices
  <2> SUFFICES ASSUME NEW k \in 1..n + 1, k # 1 PROVE path[k] \in Vertices
    BY <1>2, <1>3
  <2> DEFINE m == k - 1
  <2>1. m \in 1..n /\ m + 1 = k  BY <1>2
  <2> HIDE DEF m
  <2> QED  BY <1>3, <2>1 DEF EdgeTemporalOk
<1>6. \A k \in 1..n + 1 : (IF k = 1 THEN i ELSE w[k - 1]) \in Nat
  <2>1. DOMAIN call.graph.edges \subseteq Nat
    <3>1. call.graph.edges \in Seq(Edge)  BY DEF IsCall, IsGraph
    <3> QED  BY <3>1, LenProperties
  <2> SUFFICES ASSUME NEW k \in 1..n + 1, k # 1 PROVE w[k - 1] \in Nat
    BY <1>2
  <2>2. k - 1 \in 1..n  BY <1>2
  <2> QED  BY <1>3, <2>1, <2>2
<1>7. \A k \in 1..n + 1 : /\ T[k].at = IF k = 1 THEN i ELSE w[k - 1]
                          /\ T[k].vertex = path[k] /\ T[k].idx = r[k]
                          /\ T[k] \in Points
  BY <1>4, <1>5, <1>6 DEF Points
<1>8. T[1] = StartPoint(i)
  <2>1. 1 \in 1..n + 1  BY <1>2
  <2> QED  BY <1>3, <1>4, <2>1 DEF StartPoint, v
<1>9. DOMAIN T = 1..n + 1  OBVIOUS
<1>10. T = [k \in 1..n + 1 |-> T[k]]  OBVIOUS
<1> HIDE DEF T
<1>11. T \in Seq(Points) /\ Len(T) = n + 1 /\ T # <<>>
  <2>1. T \in [1..n + 1 -> Points] /\ n + 1 \in Nat  BY <1>2, <1>7, <1>10
  <2>2. T \in Seq(Points) /\ Len(T) = n + 1  BY <2>1, SeqDef
  <2> QED  BY <1>2, <2>2, EmptySeq
<1>12. ASSUME NEW k \in 1..n
       PROVE  Follows(Time(v), T[k], T[k + 1])
  <2>1. k \in 1..n + 1 /\ k + 1 \in 1..n + 1 /\ k + 1 # 1 /\ (k + 1) - 1 = k  BY <1>2
  <2>2. /\ T[k].vertex = path[k] /\ T[k].idx = r[k]
        /\ T[k + 1].vertex = path[k + 1] /\ T[k + 1].idx = r[k + 1]
        /\ T[k + 1].at = w[k]
    BY <1>7, <2>1
  <2>3. w[k] \in OutEdges(path[k])  BY <1>3 DEF OutEdges
  <2>4. r[k] \in Int /\ r[k + 1] \in Int  BY <1>4, <2>1
  <2>5. \/ r[k + 1] = r[k] + 1 /\ Type(path[k + 1]) = call.seq[r[k] + 1].name
        \/ /\ r[k + 1] = r[k]
           /\ Type(path[k + 1]) # call.seq[r[k] + 1].name \/ call.seq[r[k] + 1].kleene_plus
    BY <1>4, <2>4
  <2> QED  BY <1>3, <1>4, <2>2, <2>3, <2>5 DEF Follows
<1>13. T \in Trails
  <2>1. T[1].vertex = v  BY <1>8 DEF StartPoint, v
  <2>2. Len(T) - 1 = n  BY <1>2, <1>11
  <2> QED  BY <1>8, <1>11, <1>12, <2>1, <2>2 DEF Trails
<1>14. T \in TrailsOf(path)
  <2>1. Last(T) = T[n + 1] /\ n + 1 \in 1..n + 1  BY <1>2, <1>11 DEF Last
  <2>2. T \in Full
    <3>1. T[n + 1].idx = Len(call.seq)  BY <1>4, <1>7, <2>1
    <3> QED  BY <1>13, <2>1, <3>1 DEF Full
  <2>3. path = [k \in 1..n + 1 |-> path[k]]
    <3>1. path = Route(v, w)  BY <1>1
    <3> QED  BY <1>3, <3>1 DEF Route
  <2>4. Events(T) = path  BY <1>7, <1>11, <2>3 DEF Events
  <2> QED  BY <2>2, <2>4 DEF TrailsOf
<1>15. WalkOf(T) = w
  <2>1. WalkOf(T) = [m \in 1..n |-> T[m + 1].at]  BY <1>2, <1>11 DEF WalkOf
  <2>2. \A m \in 1..n : T[m + 1].at = w[m]
    <3> SUFFICES ASSUME NEW m \in 1..n PROVE T[m + 1].at = w[m]
      OBVIOUS
    <3>1. m + 1 \in 1..n + 1 /\ m + 1 # 1 /\ (m + 1) - 1 = m  BY <1>2
    <3> QED  BY <1>7, <3>1
  <2>3. w = [m \in 1..n |-> w[m]]  BY <1>3
  <2> QED  BY <2>1, <2>2, <2>3
<1>16. ReadingOf(T) = r
  <2>1. ReadingOf(T) = [m \in 1..n + 1 |-> r[m]]  BY <1>7, <1>11 DEF ReadingOf
  <2> QED  BY <1>4, <2>1
<1> QED  BY <1>11, <1>14, <1>15, <1>16

\* A set of functions from a finite interval to a finite set is finite.
LEMMA FunctionsFinite ==
  ASSUME NEW n \in Nat, NEW D, IsFiniteSet(D), NEW S, S \subseteq [1..n -> D]
  PROVE  IsFiniteSet(S)
<1> DEFINE graph(f) == {<<k, f[k]>> : k \in 1..n}
           G == [f \in S |-> graph(f)]
           P == SUBSET ((1..n) \X D)
<1>1. IsFiniteSet(P)
  <2>1. IsFiniteSet(1..n)  BY FS_Interval
  <2>2. IsFiniteSet((1..n) \X D)  BY <2>1, FS_Product
  <2> QED  BY <2>2, FS_SUBSET
<1>2. ASSUME NEW f \in S
      PROVE  graph(f) \in P
  <2>1. \A k \in 1..n : f[k] \in D  OBVIOUS
  <2> QED  BY <2>1
<1>3. ASSUME NEW f \in S, NEW g \in S, graph(f) = graph(g)
      PROVE  f = g
  <2>1. ASSUME NEW k \in 1..n
        PROVE  f[k] = g[k]
    <3>1. <<k, f[k]>> \in graph(g)  BY <1>3
    <3>2. PICK m \in 1..n : <<k, f[k]>> = <<m, g[m]>>  BY <3>1
    <3> QED  BY <3>2
  <2>2. f \in [1..n -> D] /\ g \in [1..n -> D]  OBVIOUS
  <2> QED  BY <2>1, <2>2
<1>4. \A f \in S : G[f] = graph(f)  OBVIOUS
<1> HIDE DEF graph
<1>5. G \in [S -> P]  BY <1>2
<1> HIDE DEF P
<1>6. \A f, g \in S : G[f] = G[g] => f = g  BY <1>3, <1>4
<1>7. G \in Injection(S, P)
  <2> HIDE DEF G
  <2> QED  BY <1>5, <1>6 DEF Injection, IsInjective
<1> QED  BY <1>1, <1>7, FS_Injection

\* The full trails of a path are as many as its walks times its readings.
LEMMA TrailsCounted ==
  ASSUME call \in Calls, UniqueIds, NEW i \in StartPositions,
         NEW es \in Walks(call.graph.order[i])
  PROVE  LET v == call.graph.order[i]
             path == Route(v, es)
         IN  /\ IsFiniteSet(WalksOf(v, path)) /\ IsFiniteSet(Readings(path))
             /\ ExistsBijection(TrailsOf(path), WalksOf(v, path) \X Readings(path))
<1> DEFINE v == call.graph.order[i]
           path == Route(v, es)
           n == Len(es)
           W == WalksOf(v, path)
           R == Readings(path)
           F == [T \in TrailsOf(path) |-> <<WalkOf(T), ReadingOf(T)>>]
<1>1. IsCall(call)  BY KernelAssumption
<1>2. /\ n \in 0..MaxPathLen /\ n \in Nat
      /\ DOMAIN path = 1..n + 1 /\ Len(path) = n + 1 /\ path[1] = v
  BY WalkTypes, KernelAssumption
<1> HIDE DEF path, n
<1>3. IsFiniteSet(W)
  <2> DEFINE D == DOMAIN call.graph.edges
  <2>1. IsFiniteSet(D)
    <3>1. call.graph.edges \in Seq(Edge)  BY <1>1 DEF IsCall, IsGraph
    <3>2. D = 1..Len(call.graph.edges) /\ Len(call.graph.edges) \in Nat
      BY <3>1, LenProperties
    <3> QED  BY <3>2, FS_Interval
  <2>2. ASSUME NEW w \in W
        PROVE  w \in [1..n -> D]
    <3>1. w \in Walks(v) /\ Route(v, w) = path  BY DEF WalksOf
    <3>2. Len(w) \in Nat /\ w \in [1..Len(w) -> D] /\ Len(path) = Len(w) + 1
      BY <3>1, WalkTypes, KernelAssumption
    <3>3. Len(w) = n
      <4>1. Len(w) \in Nat /\ n \in Nat /\ Len(w) + 1 = n + 1  BY <1>2, <3>2
      <4> HIDE DEF W, R, F, v
      <4> QED  BY <4>1
    <3> QED  BY <3>2, <3>3
  <2> HIDE DEF D
  <2>3. W \subseteq [1..n -> D]  BY <2>2
  <2> HIDE DEF W
  <2> QED  BY <1>2, <2>1, <2>3, FunctionsFinite
<1>4. IsFiniteSet(R)
  <2>1. R \subseteq [1..n + 1 -> 1..Len(call.seq)]  BY <1>2 DEF Readings, Progress
  <2>2. IsFiniteSet(1..Len(call.seq))
    <3>1. Len(call.seq) \in Int  BY <1>1, CallTypes
    <3> QED  BY <3>1, FS_Interval
  <2>3. n + 1 \in Nat  BY <1>2
  <2> HIDE DEF R
  <2> QED  BY <2>1, <2>2, <2>3, FunctionsFinite
<1>5. ASSUME NEW T \in TrailsOf(path)
      PROVE  /\ Len(T) = n + 1 /\ T \in Seq(Points) /\ \A k \in 1..n + 1 : T[k] \in Points
             /\ \A k \in 1..n + 1 : T[k].vertex = path[k]
             /\ T[1] = StartPoint(i)
             /\ WalkOf(T) \in W /\ ReadingOf(T) \in R
             /\ \A k \in 1..n : WalkOf(T)[k] = T[k + 1].at
             /\ \A k \in 1..n + 1 : ReadingOf(T)[k] = T[k].idx
  <2>1. T \in Trails /\ Events(T) = path  BY DEF TrailsOf, Full
  <2>2. Len(T) \in Nat /\ T \in Seq(Points) /\ \A k \in 1..Len(T) : T[k] \in Points
    BY <2>1, TrailTypes
  <2>3. path = [k \in 1..Len(T) |-> T[k].vertex]  BY <2>1 DEF Events
  <2>4. Len(path) = Len(T)  BY <2>2, <2>3
  <2>5. Len(T) = n + 1  BY <1>2, <2>4
  <2>6. T[1] = StartPoint(i) /\ WalkOf(T) \in W /\ ReadingOf(T) \in R
    BY <1>1, <1>2, <2>5, TrailIsWalkRead
  <2>7. Len(T) - 1 = n  BY <1>2, <2>5
  <2>8. \A k \in 1..n : WalkOf(T)[k] = T[k + 1].at  BY <2>7 DEF WalkOf
  <2>9. \A k \in 1..n + 1 : ReadingOf(T)[k] = T[k].idx  BY <2>5 DEF ReadingOf
  <2>10. \A k \in 1..n + 1 : T[k].vertex = path[k]  BY <2>3, <2>5
  <2> QED  BY <2>2, <2>5, <2>6, <2>8, <2>9, <2>10
<1>6. \A T \in TrailsOf(path) : F[T] = <<WalkOf(T), ReadingOf(T)>>
  OBVIOUS
<1> HIDE DEF W, R
<1>7. F \in [TrailsOf(path) -> W \X R]  BY <1>5
<1>8. ASSUME NEW T \in TrailsOf(path), NEW U \in TrailsOf(path), F[T] = F[U]
      PROVE  T = U
  <2>1. WalkOf(T) = WalkOf(U) /\ ReadingOf(T) = ReadingOf(U)  BY <1>6, <1>8
  <2>2. ASSUME NEW k \in 1..n + 1
        PROVE  T[k] = U[k]
    <3>1. T[k] \in Points /\ U[k] \in Points  BY <1>5
    <3>2. T[k].vertex = U[k].vertex /\ T[k].idx = U[k].idx  BY <1>5, <2>1
    <3>3. T[k].at = U[k].at
      <4>1. CASE k = 1  BY <1>5, <4>1
      <4>2. CASE k # 1
        <5> DEFINE m == k - 1
        <5>1. m \in 1..n /\ m + 1 = k  BY <1>2, <4>2
        <5> HIDE DEF m
        <5> QED  BY <1>5, <2>1, <5>1
      <4> QED  BY <4>1, <4>2
    <3> QED  BY <3>1, <3>2, <3>3 DEF Points
  <2>3. Len(T) = n + 1 /\ Len(U) = n + 1 /\ T \in Seq(Points) /\ U \in Seq(Points)  BY <1>5
  <2> QED  BY <2>2, <2>3, SeqEqual
<1>9. ASSUME NEW p \in W \X R
      PROVE  \E T \in TrailsOf(path) : F[T] = p
  <2>1. PICK w \in W, r \in R : p = <<w, r>>  OBVIOUS
  <2>2. w \in WalksOf(call.graph.order[i], path) /\ r \in Readings(path)  BY DEF W, R
  <2>3. Len(path) = n + 1 /\ n \in 0..MaxPathLen  BY <1>2
  <2> HIDE DEF F
  <2>4. \A x \in WalksOf(call.graph.order[i], path), y \in Readings(path) :
          \E T \in TrailsOf(path) : WalkOf(T) = x /\ ReadingOf(T) = y
    BY <1>1, <2>3, WalkReadIsTrail
  <2> QED  BY <1>6, <2>1, <2>2, <2>4
<1>10. F \in Bijection(TrailsOf(path), W \X R)
  <2> HIDE DEF F
  <2> QED  BY <1>7, <1>8, <1>9 DEF Bijection, Injection, Surjection, IsInjective
<1> QED  BY <1>3, <1>4, <1>10 DEF ExistsBijection, W, R, path

\* In the end every full trail has been emitted, by one result of its own.
LEMMA EmittedCounted ==
  ASSUME KernelInv, ExactInv, phase = "done", ~overflow, NEW path
  PROVE  LET K == {k \in DOMAIN out : out[k] = path}
         IN  IsFiniteSet(K) /\ ExistsBijection(K, TrailsOf(path))
<1> DEFINE K == {k \in DOMAIN out : out[k] = path}
<1>1. head = Len(queue) /\ stack = <<>>  BY DEF ExactInv, Shape
<1>2. DOMAIN out = 1..Len(out) /\ Len(out) \in Nat
  <2>1. out \in Seq(SoundPaths(Len(call.seq)))  BY DEF KernelInv
  <2> QED  BY <2>1, LenProperties
<1>3. PICK owner \in Owners : Accounted(owner)  BY DEF ExactInv
<1>4. ASSUME NEW k \in Nat
      PROVE  Owned(owner, <<"unstarted", k>>) = {}
  <2>1. StartAccount(owner, {})  BY <1>3 DEF Accounted, ToStart
  <2> QED  BY <2>1 DEF StartAccount, From
<1>5. ASSUME NEW k \in Nat
      PROVE  Owned(owner, <<"queued", k>>) = {}
  <2>1. QueueAccount(owner, queue, Len(queue), {})  BY <1>1, <1>3 DEF Accounted
  <2>2. CASE k \in 1..Len(queue)
    <3>1. ~(Len(queue) < k)  BY <2>2
    <3>2. QueuedAccount(owner, k, queue[k], Len(queue), {})  BY <2>1, <2>2 DEF QueueAccount
    <3>3. \A t : Via(t, {}) = {}  BY DEF Via
    <3> QED  BY <3>1, <3>2, <3>3 DEF QueuedAccount
  <2>3. CASE k \notin 1..Len(queue)  BY <2>1, <2>3 DEF QueueAccount
  <2> QED  BY <2>2, <2>3
<1>6. ASSUME NEW k \in Nat
      PROVE  Owned(owner, <<"seed", k>>) = {}
  <2>1. SeedAccount(owner, seeds, Len(seeds))  BY <1>3 DEF Accounted
  <2>2. CASE k \in 1..Len(seeds)
    <3>1. ~(Len(seeds) < k)  BY <2>2
    <3>2. SeededAccount(owner, k, seeds[k], Len(seeds))  BY <2>1, <2>2 DEF SeedAccount
    <3> QED  BY <3>1, <3>2 DEF SeededAccount
  <2>3. CASE k \notin 1..Len(seeds)  BY <2>1, <2>3 DEF SeedAccount
  <2> QED  BY <2>2, <2>3
<1>7. ASSUME NEW k \in Nat
      PROVE  Owned(owner, <<"frame", k>>) = {}
  <2>1. StackAccount(owner, <<>>)  BY <1>1, <1>3 DEF Accounted
  <2>2. k \notin 1..Len(<<>>)  OBVIOUS
  <2> QED  BY <2>1, <2>2 DEF StackAccount
<1>8. ASSUME NEW k \in Nat
      PROVE  IF k \in 1..Len(out) THEN EmittedAccount(owner, k, out[k])
             ELSE Owned(owner, <<"emitted", k>>) = {}
  BY <1>3 DEF Accounted, OutAccount
<1> DEFINE H(k, t) == out[k] = Events(t) /\ Owned(owner, <<"emitted", k>>) = {t}
           tr == [k \in K |-> CHOOSE t \in Full : H(k, t)]
<1>9. ASSUME NEW k \in K
      PROVE  /\ tr[k] \in TrailsOf(path) /\ owner[tr[k]] = <<"emitted", k>>
             /\ Owned(owner, <<"emitted", k>>) = {tr[k]}
  <2>1. k \in 1..Len(out) /\ k \in Nat /\ out[k] = path  BY <1>2
  <2>2. \E t \in Full : H(k, t)  BY <1>8, <2>1 DEF EmittedAccount
  <2>3. tr[k] \in Full /\ H(k, tr[k])  BY <2>2
  <2>4. tr[k] \in Owned(owner, <<"emitted", k>>)  BY <2>3
  <2> QED  BY <2>1, <2>3, <2>4 DEF TrailsOf, Owned
<1> HIDE DEF H
<1>10. ASSUME NEW T \in TrailsOf(path)
       PROVE  \E k \in K : tr[k] = T
  <2>1. T \in Full /\ Events(T) = path  BY DEF TrailsOf
  <2>2. PICK area \in {"unstarted", "queued", "seed", "frame", "emitted"}, k \in Nat :
          owner[T] = <<area, k>>
    <3>1. owner[T] \in Slots  BY <2>1 DEF Owners
    <3> QED  BY <3>1 DEF Slots
  <2>3. T \in Owned(owner, <<area, k>>)  BY <2>1, <2>2 DEF Owned
  <2>4. T \in Owned(owner, <<"emitted", k>>)
    <3>1. area = "emitted"  BY <1>4, <1>5, <1>6, <1>7, <2>3
    <3> QED  BY <2>3, <3>1
  <2>5. k \in 1..Len(out)  BY <1>8, <2>4
  <2>6. PICK t \in Full : out[k] = Events(t) /\ Owned(owner, <<"emitted", k>>) = {t}
    BY <1>8, <2>5 DEF EmittedAccount
  <2>7. T = t  BY <2>4, <2>6
  <2>8. k \in K  BY <1>2, <2>1, <2>5, <2>6, <2>7
  <2>9. Owned(owner, <<"emitted", k>>) = {tr[k]}  BY <1>9, <2>8
  <2> HIDE DEF tr
  <2> QED  BY <2>4, <2>8, <2>9
<1>11. tr \in [K -> TrailsOf(path)]
  <2>1. tr = [k \in K |-> tr[k]]  OBVIOUS
  <2> HIDE DEF tr
  <2> QED  BY <1>9, <2>1
<1>12. \A j, k \in K : tr[j] = tr[k] => j = k
  <2> SUFFICES ASSUME NEW j \in K, NEW k \in K, tr[j] = tr[k] PROVE j = k
    OBVIOUS
  <2>1. owner[tr[j]] = <<"emitted", j>> /\ owner[tr[k]] = <<"emitted", k>>  BY <1>9
  <2> HIDE DEF tr
  <2> QED  BY <2>1
<1> HIDE DEF tr
<1>13. tr \in Bijection(K, TrailsOf(path))
  BY <1>10, <1>11, <1>12 DEF Bijection, Injection, Surjection, IsInjective
<1>14. IsFiniteSet(K)
  <2>1. IsFiniteSet(DOMAIN out)  BY <1>2, FS_Interval
  <2> QED  BY <2>1, FS_Subset
<1> QED  BY <1>13, <1>14 DEF ExistsBijection

\* A call that ends without overflow has emitted the right number of paths.
LEMMA InvExact == UniqueIds /\ KernelInv /\ ExactInv => ResultsExact
<1> SUFFICES ASSUME UniqueIds, KernelInv, ExactInv, phase = "done", ~overflow,
                    NEW i \in StartPositions, NEW es \in Walks(call.graph.order[i])
             PROVE  LET v == call.graph.order[i]
                        path == Route(v, es)
                    IN  Cardinality({k \in DOMAIN out : out[k] = path})
                          = Cardinality({w \in Walks(v) : Route(v, w) = path})
                              * Cardinality(Readings(path))
  BY DEF ResultsExact
<1> DEFINE v == call.graph.order[i]
           path == Route(v, es)
           K == {k \in DOMAIN out : out[k] = path}
           T == TrailsOf(path)
           W == WalksOf(v, path)
           R == Readings(path)
<1>1. call \in Calls  BY DEF KernelInv
<1>2. IsFiniteSet(K) /\ ExistsBijection(K, T)  BY EmittedCounted
<1>3. IsFiniteSet(W) /\ IsFiniteSet(R) /\ ExistsBijection(T, W \X R)  BY <1>1, TrailsCounted
<1> HIDE DEF K, T, R
<1>4. IsFiniteSet(T) /\ Cardinality(T) = Cardinality(K)  BY <1>2, FS_Bijection
<1>5. Cardinality(W \X R) = Cardinality(T)  BY <1>3, <1>4, FS_Bijection
<1>6. Cardinality(W \X R) = Cardinality(W) * Cardinality(R)  BY <1>3, FS_Product
<1>7. Cardinality(K) = Cardinality(W) * Cardinality(R)  BY <1>4, <1>5, <1>6
<1> QED  BY <1>7 DEF K, R, WalksOf

\* ResultsExact: provided no two vertices of a graph have the same id, a call
\* that reports no overflow has emitted every path exactly as often as there
\* are walks of edges along it and readings of it - whichever engine ran,
\* wherever H-CET switched, for every graph, query and size of the arrays.
THEOREM ResultsAlwaysExact == UniqueIds => (Spec => []ResultsExact)
<1> SUFFICES ASSUME UniqueIds PROVE Spec => []ResultsExact
  OBVIOUS
<1>1. Init => ExactInv  BY ExactInit
<1>2. KernelInv /\ ExactInv /\ [Next]_vars => ExactInv'  BY ExactStep
<1>3. KernelInv /\ ExactInv => ResultsExact  BY InvExact
<1>4. Spec => []KernelInv  BY KernelInvariant
<1> QED  BY <1>1, <1>2, <1>3, <1>4, PTL DEF Spec
=============================================================================
