-------------------------- MODULE TrendMatch_proofs --------------------------
(***************************************************************************)
(* What the search of TrendMatch finds: for every query and every sequence *)
(* of events, the paths the pattern means.                                 *)
(***************************************************************************)
EXTENDS TrendSearch, FiniteSetTheorems, SequenceTheorems, WellFoundedInduction, TLAPS

-----------------------------------------------------------------------------
(* The search ends: a point needs points of a lower rank only.             *)

KindRank(kind) == CASE kind = "rec" -> 2 [] kind = "consume_repeats" -> 1 [] kind = "loop" -> 0

RankOf(n, m, kind, step, pos) == 3 * (n + 1 - step) + 2 * (m + 1 - pos) + KindRank(kind)

Rank(q, ids, at) == RankOf(Len(q.steps), Len(ids), at.kind, at.step, at.pos)

\* A query and a sequence of events have lengths.
HaveLengths(q, ids) == Len(q.steps) \in Nat /\ Len(ids) \in Nat

\* The points that rest, taken and the like refer to.
RestPoint(at) == Point("rec", at.step + 1, 0, at.pos, at.first)
ConsumePoint(at) == Point("consume_repeats", at.step, 0, at.pos, at.first)
LoopPoint(at) == Point("loop", at.step, at.reps, at.pos, at.first)
TakenPoint(at) == Point("consume_repeats", at.step, at.reps + 1, at.pos + 1,
                        IF at.first = 0 THEN at.pos ELSE at.first)
NextPoint(at) == Point("loop", at.step, at.reps, at.pos + 1, at.first)

\* The fields of a point.
LEMMA PointFields ==
  ASSUME NEW q, NEW ids, HaveLengths(q, ids), NEW at \in Points(q, ids)
  PROVE  /\ at.kind \in {"rec", "consume_repeats", "loop"}
         /\ at.step \in 1..Len(q.steps) + 1 /\ at.reps \in Nat
         /\ at.pos \in 1..Len(ids) + 1 /\ at.first \in 0..Len(ids)
         /\ at = Point(at.kind, at.step, at.reps, at.pos, at.first)
BY DEF Points, Point

\* Points and their ranks.
LEMMA PointRank ==
  ASSUME NEW q, NEW ids, HaveLengths(q, ids),
         NEW kind \in {"rec", "consume_repeats", "loop"}, NEW step \in 1..Len(q.steps) + 1,
         NEW reps \in Nat, NEW pos \in 1..Len(ids) + 1, NEW first \in 0..Len(ids)
  PROVE  /\ Point(kind, step, reps, pos, first) \in Points(q, ids)
         /\ Rank(q, ids, Point(kind, step, reps, pos, first))
              = RankOf(Len(q.steps), Len(ids), kind, step, pos)
BY DEF Point, Points, Rank

LEMMA RankNat ==
  ASSUME NEW n \in Nat, NEW m \in Nat, NEW kind \in {"rec", "consume_repeats", "loop"},
         NEW step \in 1..n + 1, NEW pos \in 1..m + 1
  PROVE  KindRank(kind) \in 0..2 /\ RankOf(n, m, kind, step, pos) \in Nat
<1>1. KindRank(kind) \in 0..2
  BY DEF KindRank
<1> QED
  BY <1>1 DEF RankOf

\* The points called from a point are of a lower rank.
LEMMA CallsDescend ==
  ASSUME NEW q, NEW ids, HaveLengths(q, ids), NEW at \in Points(q, ids),
         at.step <= Len(q.steps)
  PROVE  /\ /\ RestPoint(at) \in Points(q, ids)
            /\ Rank(q, ids, RestPoint(at)) < Rank(q, ids, at)
         /\ at.kind = "rec" =>
              /\ ConsumePoint(at) \in Points(q, ids)
              /\ Rank(q, ids, ConsumePoint(at)) < Rank(q, ids, at)
         /\ at.kind = "consume_repeats" =>
              /\ LoopPoint(at) \in Points(q, ids)
              /\ Rank(q, ids, LoopPoint(at)) < Rank(q, ids, at)
         /\ at.kind = "loop" /\ at.pos <= Len(ids) =>
              /\ TakenPoint(at) \in Points(q, ids) /\ NextPoint(at) \in Points(q, ids)
              /\ Rank(q, ids, TakenPoint(at)) < Rank(q, ids, at)
              /\ Rank(q, ids, NextPoint(at)) < Rank(q, ids, at)
<1> DEFINE n == Len(q.steps)
           m == Len(ids)
           k == at.kind
           s == at.step
           r == at.reps
           p == at.pos
           f == at.first
           R(x) == Rank(q, ids, x)
           P == Points(q, ids)
<1>1. /\ n \in Nat /\ m \in Nat /\ k \in {"rec", "consume_repeats", "loop"}
      /\ s \in 1..n + 1 /\ r \in Nat /\ p \in 1..m + 1 /\ f \in 0..m
      /\ at = Point(k, s, r, p, f)
  BY PointFields DEF HaveLengths
<1>2. s \in 1..n
  <2>1. s <= n
    OBVIOUS
  <2> HIDE DEF s, n
  <2> QED BY <2>1, <1>1
<1>3. /\ KindRank("rec") = 2 /\ KindRank("consume_repeats") = 1 /\ KindRank("loop") = 0
  BY DEF KindRank
<1>4. \A kind \in {"rec", "consume_repeats", "loop"}, step \in 1..n + 1, reps \in Nat,
         pos \in 1..m + 1, first \in 0..m :
        /\ Point(kind, step, reps, pos, first) \in P
        /\ R(Point(kind, step, reps, pos, first))
             = RankOf(n, m, kind, step, pos)
  BY PointRank
<1>5. R(at) = 3 * (n + 1 - s) + 2 * (m + 1 - p) + KindRank(k) /\ KindRank(k) \in 0..2
  <2> HIDE DEF n, m, k, s, r, p, f, R, P
  <2>1. R(Point(k, s, r, p, f)) = RankOf(n, m, k, s, p)
    BY <1>1, <1>4
  <2>2. R(at) = RankOf(n, m, k, s, p)
    BY <1>1, <2>1
  <2>3. RankOf(n, m, k, s, p) = 3 * (n + 1 - s) + 2 * (m + 1 - p) + KindRank(k)
    BY DEF RankOf
  <2>4. KindRank(k) \in 0..2
    BY <1>1, RankNat
  <2> QED BY <2>2, <2>3, <2>4
<1>6. /\ RestPoint(at) = Point("rec", s + 1, 0, p, f)
      /\ ConsumePoint(at) = Point("consume_repeats", s, 0, p, f)
      /\ LoopPoint(at) = Point("loop", s, r, p, f)
      /\ TakenPoint(at) = Point("consume_repeats", s, r + 1, p + 1, IF f = 0 THEN p ELSE f)
      /\ NextPoint(at) = Point("loop", s, r, p + 1, f)
  BY DEF RestPoint, ConsumePoint, LoopPoint, TakenPoint, NextPoint
<1> SUFFICES /\ RestPoint(at) \in P /\ R(RestPoint(at)) < R(at)
             /\ k = "rec" => ConsumePoint(at) \in P /\ R(ConsumePoint(at)) < R(at)
             /\ k = "consume_repeats" => LoopPoint(at) \in P /\ R(LoopPoint(at)) < R(at)
             /\ k = "loop" /\ p <= m =>
                  /\ TakenPoint(at) \in P /\ NextPoint(at) \in P
                  /\ R(TakenPoint(at)) < R(at) /\ R(NextPoint(at)) < R(at)
  OBVIOUS
<1> HIDE DEF n, m, k, s, r, p, f, R, P
<1>7. RestPoint(at) \in P /\ R(RestPoint(at)) < R(at)
  <2>1. s + 1 \in 1..n + 1
    BY <1>1, <1>2
  <2>2. /\ RestPoint(at) \in P
        /\ R(RestPoint(at)) = 3 * (n + 1 - (s + 1)) + 2 * (m + 1 - p) + 2
    BY <1>1, <1>3, <1>4, <1>6, <2>1 DEF RankOf
  <2> QED BY <1>1, <1>5, <2>2
<1>8. k = "rec" => ConsumePoint(at) \in P /\ R(ConsumePoint(at)) < R(at)
  <2>1. /\ ConsumePoint(at) \in P
        /\ R(ConsumePoint(at)) = 3 * (n + 1 - s) + 2 * (m + 1 - p) + 1
    BY <1>1, <1>3, <1>4, <1>6 DEF RankOf
  <2> QED BY <1>1, <1>3, <1>5, <2>1
<1>9. k = "consume_repeats" => LoopPoint(at) \in P /\ R(LoopPoint(at)) < R(at)
  <2>1. LoopPoint(at) \in P /\ R(LoopPoint(at)) = 3 * (n + 1 - s) + 2 * (m + 1 - p) + 0
    BY <1>1, <1>3, <1>4, <1>6 DEF RankOf
  <2> QED BY <1>1, <1>3, <1>5, <2>1
<1>10. ASSUME k = "loop", p <= m
       PROVE  /\ TakenPoint(at) \in P /\ NextPoint(at) \in P
              /\ R(TakenPoint(at)) < R(at) /\ R(NextPoint(at)) < R(at)
  <2> DEFINE begun == IF f = 0 THEN p ELSE f
  <2>1. p + 1 \in 1..m + 1 /\ r + 1 \in Nat /\ begun \in 0..m
    BY <1>1, <1>10
  <2>4. TakenPoint(at) = Point("consume_repeats", s, r + 1, p + 1, begun)
    BY <1>6
  <2> HIDE DEF begun
  <2>2. /\ TakenPoint(at) \in P
        /\ R(TakenPoint(at)) = 3 * (n + 1 - s) + 2 * (m + 1 - (p + 1)) + 1
    BY <1>1, <1>3, <1>4, <2>1, <2>4 DEF RankOf
  <2>3. /\ NextPoint(at) \in P
        /\ R(NextPoint(at)) = 3 * (n + 1 - s) + 2 * (m + 1 - (p + 1)) + 0
    BY <1>1, <1>3, <1>4, <1>6, <2>1 DEF RankOf
  <2> QED BY <1>1, <1>3, <1>5, <1>10, <2>2, <2>3
<1> QED
  BY <1>7, <1>8, <1>9, <1>10

\* What is appended at a point is settled by what is appended at points of a
\* lower rank.
LEMMA AppendedLocal ==
  ASSUME NEW q, NEW evts, NEW ids, HaveLengths(q, ids), NEW f, NEW g,
         NEW at \in Points(q, ids),
         \A b \in Points(q, ids) : Rank(q, ids, b) < Rank(q, ids, at) => f[b] = g[b]
  PROVE  Appended(q, evts, ids, f, at) = Appended(q, evts, ids, g, at)
<1>1. /\ at.kind \in {"rec", "consume_repeats", "loop"}
      /\ at.step \in 1..Len(q.steps) + 1
  BY PointFields
<1>2. CASE at.step > Len(q.steps)
  BY <1>2 DEF Appended
<1>3. CASE at.step <= Len(q.steps)
  <2>1. f[RestPoint(at)] = g[RestPoint(at)]
    BY <1>3, CallsDescend
  <2>2. ~(at.step > Len(q.steps))
    BY <1>1, <1>3 DEF HaveLengths
  <2>3. CASE at.kind = "rec"
    <3>1. f[ConsumePoint(at)] = g[ConsumePoint(at)]
      BY <1>3, <2>3, CallsDescend
    <3> QED
      BY <2>1, <2>2, <2>3, <3>1 DEF Appended, RestPoint, ConsumePoint
  <2>4. CASE at.kind = "consume_repeats"
    <3>1. f[LoopPoint(at)] = g[LoopPoint(at)]
      BY <1>3, <2>4, CallsDescend
    <3> QED
      BY <2>1, <2>2, <2>4, <3>1 DEF Appended, RestPoint, LoopPoint
  <2>5. CASE at.kind = "loop"
    <3>1. CASE at.pos > Len(ids)
      BY <2>2, <2>5, <3>1 DEF Appended
    <3>2. CASE ~(at.pos > Len(ids))
      <4>1. at.pos <= Len(ids)
        BY <3>2, PointFields DEF HaveLengths
      <4>2. f[TakenPoint(at)] = g[TakenPoint(at)] /\ f[NextPoint(at)] = g[NextPoint(at)]
        BY <1>3, <2>5, <4>1, CallsDescend
      <4> QED
        BY <2>2, <2>5, <3>2, <4>2 DEF Appended, TakenPoint, NextPoint
    <3> QED
      BY <3>1, <3>2
  <2> QED
    BY <1>1, <2>3, <2>4, <2>5
<1> QED
  BY <1>1, <1>2, <1>3 DEF HaveLengths

\* Every set of natural numbers that is not empty has a least element.
LEMMA LeastRank ==
  ASSUME NEW S, S \subseteq Nat, S # {}
  PROVE  \E n \in S : \A m \in S : n <= m
<1>1. PICK n \in S : \A m \in S : ~ (<<m, n>> \in OpToRel(<, Nat))
  BY WFMin, NatLessThanWellFounded
<1>2. \A m \in S : ~ (m < n)
  BY <1>1 DEF OpToRel
<1> QED
  BY <1>2

\* What is appended at each point.
Lists(q, evts, ids) ==
  CHOOSE list : list = [at \in Points(q, ids) |-> Appended(q, evts, ids, list, at)]

\* Up to any rank there are lists as Appended asks: those of the points of
\* the next rank are made from them.
LEMMA ListsExist ==
  ASSUME NEW q, NEW evts, NEW ids, HaveLengths(q, ids)
  PROVE  \E list : list = [at \in Points(q, ids) |-> Appended(q, evts, ids, list, at)]
<1> DEFINE P == Points(q, ids)
           R(x) == Rank(q, ids, x)
           Below(r) == {at \in P : R(at) < r}
           Good(r) == \E f : \A at \in Below(r) : f[at] = Appended(q, evts, ids, f, at)
           top == 3 * (Len(q.steps) + 1) + 2 * (Len(ids) + 1) + 3
<1>1. \A at \in P : R(at) \in Nat /\ R(at) < top
  <2> TAKE at \in P
  <2> DEFINE n == Len(q.steps)
             m == Len(ids)
             s == at.step
             p == at.pos
             k == at.kind
  <2>1. n \in Nat /\ m \in Nat /\ s \in 1..n + 1 /\ p \in 1..m + 1
        /\ k \in {"rec", "consume_repeats", "loop"} /\ R(at) = RankOf(n, m, k, s, p)
    BY PointFields DEF HaveLengths, Rank
  <2>2. top = 3 * (n + 1) + 2 * (m + 1) + 3
    OBVIOUS
  <2> HIDE DEF n, m, s, p, k, R, top
  <2>3. KindRank(k) \in 0..2 /\ RankOf(n, m, k, s, p) \in Nat
    BY <2>1, RankNat
  <2>4. RankOf(n, m, k, s, p) = 3 * (n + 1 - s) + 2 * (m + 1 - p) + KindRank(k)
    BY DEF RankOf
  <2> QED BY <2>1, <2>2, <2>3, <2>4
<1>2. top \in Nat
  <2> DEFINE n == Len(q.steps)
             m == Len(ids)
  <2>1. n \in Nat /\ m \in Nat /\ top = 3 * (n + 1) + 2 * (m + 1) + 3
    BY DEF HaveLengths
  <2> HIDE DEF n, m, top
  <2> QED BY <2>1
<1>3. \A f, g : \A at \in P : (\A b \in P : R(b) < R(at) => f[b] = g[b])
                 => Appended(q, evts, ids, f, at) = Appended(q, evts, ids, g, at)
  BY AppendedLocal
<1> HIDE DEF P, R, top
<1>4. \A r \in Nat : Good(r)
  <2> DEFINE Bad == {r \in Nat : ~Good(r)}
  <2> SUFFICES ASSUME Bad # {} PROVE FALSE
    OBVIOUS
  <2>1. PICK r \in Bad : \A s \in Bad : r <= s
    BY LeastRank
  <2>2. r # 0
    <3>1. Below(0) = {}
      BY <1>1
    <3>2. Good(0)
      BY <3>1
    <3> QED BY <3>2
  <2>3. r - 1 \in Nat /\ r - 1 \notin Bad
    BY <2>1, <2>2
  <2>4. PICK f : \A at \in Below(r - 1) : f[at] = Appended(q, evts, ids, f, at)
    BY <2>3
  <2> DEFINE g == [at \in P |-> Appended(q, evts, ids, f, at)]
  <2>5. ASSUME NEW at \in Below(r) PROVE g[at] = Appended(q, evts, ids, g, at)
    <3>1. ASSUME NEW b \in P, R(b) < R(at) PROVE f[b] = g[b]
      <4>1. b \in Below(r - 1)
        BY <1>1, <2>3, <3>1
      <4> QED BY <2>4, <4>1
    <3>2. Appended(q, evts, ids, f, at) = Appended(q, evts, ids, g, at)
      <4> HIDE DEF g
      <4> QED BY <1>3, <3>1
    <3> QED BY <3>2
  <2>6. Good(r)
    <3> HIDE DEF g
    <3> QED BY <2>5
  <2> QED BY <2>6
<1>5. PICK f : \A at \in Below(top) : f[at] = Appended(q, evts, ids, f, at)
  BY <1>2, <1>4
<1>6. Below(top) = P
  BY <1>1
<1> DEFINE g == [at \in P |-> Appended(q, evts, ids, f, at)]
<1>7. \A at \in P : f[at] = g[at]
  BY <1>5, <1>6
<1>8. \A at \in P : Appended(q, evts, ids, f, at) = Appended(q, evts, ids, g, at)
  <2> HIDE DEF g
  <2> QED BY <1>3, <1>7
<1>9. g = [at \in P |-> Appended(q, evts, ids, g, at)]
  <2> DEFINE h == [at \in P |-> Appended(q, evts, ids, g, at)]
  <2>1. \A at \in P : g[at] = h[at]
    BY <1>8
  <2> QED BY <2>1
<1> QED
  BY <1>9 DEF P

LEMMA ListsAppend ==
  ASSUME NEW q, NEW evts, NEW ids, HaveLengths(q, ids), NEW at \in Points(q, ids)
  PROVE  Lists(q, evts, ids)[at] = Appended(q, evts, ids, Lists(q, evts, ids), at)
<1>1. Lists(q, evts, ids)
        = [x \in Points(q, ids) |-> Appended(q, evts, ids, Lists(q, evts, ids), x)]
  BY ListsExist DEF Lists
<1> HIDE DEF Lists
<1> QED
  BY <1>1, Zenon

LEMMA ListingIsListed ==
  ASSUME NEW q, NEW evts, NEW ids
  PROVE  Listing(q, evts, ids) = Lists(q, evts, ids)[Point("rec", 1, 0, 1, 0)]
BY DEF Listing, Lists

-----------------------------------------------------------------------------
(* Readings: what a path appended from a point on is made of.              *)

\* The event at position i is of a type of step k; it is neither before the
\* event at position b nor too long after it.
OfStep(q, evts, ids, k, i) == evts[ids[i]].event_type \in q.steps[k].aliases
Near(q, evts, ids, b, i) ==
  LET age == evts[ids[i]].event_time_ms - evts[ids[b]].event_time_ms
  IN  0 <= age /\ age <= q.within_ms

\* After reps repetitions of step k the search may consume given more; the
\* first of them is checked before (loop) or was no matter (none).
Enough(q, k, kind, reps, given) ==
  /\ reps + given >= q.steps[k].min_repeats
  /\ \/ q.steps[k].max_repeats = Unlimited
     \/ reps + given <= q.steps[k].max_repeats
     \/ given = IF kind = "loop" THEN 1 ELSE 0
  /\ kind = "loop" => given >= 1

\* Positions p of len events and the places c where the steps from the one
\* of the point on are parted: step k has the events c[k] + 1 to c[k + 1].
InOrder(len, p) == \A i, j \in 1..len : i < j => p[i] < p[j]
Parted(q, at, len, c) ==
  /\ c \in [at.step..Len(q.steps) + 1 -> 0..len]
  /\ c[at.step] = 0 /\ c[Len(q.steps) + 1] = len
  /\ \A j, k \in at.step..Len(q.steps) + 1 : j <= k => c[j] <= c[k]
Counted(q, at, c) ==
  \A k \in at.step..Len(q.steps) :
    IF k = at.step THEN Enough(q, k, at.kind, IF at.kind = "rec" THEN 0 ELSE at.reps, c[k + 1])
                   ELSE Enough(q, k, "rec", 0, c[k + 1] - c[k])
Typed(q, evts, ids, at, p, c) ==
  \A k \in at.step..Len(q.steps) : \A j \in c[k] + 1..c[k + 1] : OfStep(q, evts, ids, k, p[j])
Begin(at, p) == IF at.first = 0 THEN p[1] ELSE at.first
Timely(q, evts, ids, at, len, p) == \A j \in 1..len : Near(q, evts, ids, Begin(at, p), p[j])

Reads(q, evts, ids, at, len, p, c) ==
  /\ len \in Nat /\ p \in [1..len -> at.pos..Len(ids)] /\ InOrder(len, p)
  /\ Parted(q, at, len, c) /\ Counted(q, at, c) /\ Typed(q, evts, ids, at, p, c)
  /\ Timely(q, evts, ids, at, len, p)
  /\ at.first = 0 => len # 0

PathOf(ids, len, p) == [j \in 1..len |-> ids[p[j]]]

IsRead(q, evts, ids, at, path) ==
  \E len, p, c : Reads(q, evts, ids, at, len, p, c) /\ path = PathOf(ids, len, p)

\* Where the step of the point gets no event the rest of the steps have them
\* all.
LEMMA RestOfReads ==
  ASSUME NEW q, IsQuery(q), NEW evts, NEW ids, Len(ids) \in Nat, NEW at \in Points(q, ids),
         at.step <= Len(q.steps), NEW len, NEW p, NEW c,
         Reads(q, evts, ids, at, len, p, c), c[at.step + 1] = 0
  PROVE  \E d : Reads(q, evts, ids, RestPoint(at), len, p, d)
<1> DEFINE n == Len(q.steps)
           s == at.step
           r == RestPoint(at)
           d == [k \in s + 1..n + 1 |-> c[k]]
<1>1. /\ r.kind = "rec" /\ r.step = s + 1 /\ r.reps = 0 /\ r.pos = at.pos /\ r.first = at.first
      /\ r = RestPoint(at) /\ s = at.step /\ n = Len(q.steps)
  BY DEF RestPoint, Point
<1>2. n \in Nat /\ s \in 1..n
  BY PointFields DEF HaveLengths, IsQuery
<1>3. /\ Reads(q, evts, ids, at, len, p, c) /\ len \in Nat
      /\ c \in [s..n + 1 -> 0..len] /\ c[s] = 0 /\ c[s + 1] = 0 /\ c[n + 1] = len
      /\ \A j, k \in s..n + 1 : j <= k => c[j] <= c[k]
  BY DEF Reads, Parted
<1> HIDE DEF n, s, r
<1>4. d \in [s + 1..n + 1 -> 0..len] /\ \A k \in s + 1..n + 1 : d[k] = c[k]
  BY <1>2, <1>3
<1> HIDE DEF d
<1>5. Parted(q, r, len, d)
  <2>1. n + 1 \in s + 1..n + 1 /\ s + 1 \in s + 1..n + 1
        /\ \A k \in s + 1..n + 1 : k \in s..n + 1
    BY <1>2
  <2>2. d[s + 1] = 0 /\ d[n + 1] = len
    BY <1>3, <1>4, <2>1
  <2>3. \A j, k \in s + 1..n + 1 : j <= k => d[j] <= d[k]
    BY <1>3, <1>4, <2>1
  <2> QED BY <1>1, <1>4, <2>2, <2>3 DEF Parted
<1>6. Counted(q, r, d)
  <2> SUFFICES ASSUME NEW k \in s + 1..n
               PROVE  /\ k = s + 1 => Enough(q, k, "rec", 0, d[k + 1])
                      /\ k # s + 1 => Enough(q, k, "rec", 0, d[k + 1] - d[k])
    BY <1>1 DEF Counted
  <2>1. Enough(q, k, "rec", 0, c[k + 1] - c[k])
    BY <1>1, <1>2, <1>3 DEF Reads, Counted
  <2>2. k \in s + 1..n + 1 /\ k + 1 \in s + 1..n + 1 /\ k + 1 \in s..n + 1
    BY <1>2
  <2>3. d[k + 1] = c[k + 1] /\ d[k] = c[k] /\ c[k + 1] \in Int
    BY <1>2, <1>3, <1>4, <2>2
  <2>4. k = s + 1 => c[k + 1] - c[k] = d[k + 1]
    BY <1>3, <2>3
  <2> QED BY <2>1, <2>3, <2>4
<1>7. Typed(q, evts, ids, r, p, d)
  <2> SUFFICES ASSUME NEW k \in s + 1..n, NEW j \in d[k] + 1..d[k + 1]
               PROVE  OfStep(q, evts, ids, k, p[j])
    BY <1>1 DEF Typed
  <2>1. k \in s + 1..n + 1 /\ k + 1 \in s + 1..n + 1 /\ k \in s..n
    BY <1>2
  <2>2. j \in c[k] + 1..c[k + 1]
    BY <1>4, <2>1
  <2> QED BY <1>1, <1>3, <2>1, <2>2 DEF Reads, Typed
<1>8. Timely(q, evts, ids, r, len, p)
  BY <1>1, <1>3 DEF Reads, Timely, Begin
<1>9. Reads(q, evts, ids, r, len, p, d)
  BY <1>1, <1>3, <1>5, <1>6, <1>7, <1>8 DEF Reads
<1> QED
  BY <1>1, <1>9

\* And what is read for the rest of the steps is read with none for this one.
LEMMA ReadsOfRest ==
  ASSUME NEW q, IsQuery(q), NEW evts, NEW ids, Len(ids) \in Nat, NEW at \in Points(q, ids),
         at.step <= Len(q.steps), NEW len, NEW p, NEW d,
         Reads(q, evts, ids, RestPoint(at), len, p, d),
         Enough(q, at.step, at.kind, IF at.kind = "rec" THEN 0 ELSE at.reps, 0)
  PROVE  \E c : Reads(q, evts, ids, at, len, p, c) /\ c[at.step + 1] = 0
<1> DEFINE n == Len(q.steps)
           s == at.step
           r == RestPoint(at)
           c == [k \in s..n + 1 |-> IF k = s THEN 0 ELSE d[k]]
<1>1. /\ r.kind = "rec" /\ r.step = s + 1 /\ r.reps = 0 /\ r.pos = at.pos /\ r.first = at.first
      /\ s = at.step /\ n = Len(q.steps)
  BY DEF RestPoint, Point
<1>2. n \in Nat /\ s \in 1..n
  BY PointFields DEF HaveLengths, IsQuery
<1>3. /\ Reads(q, evts, ids, r, len, p, d) /\ len \in Nat
      /\ d \in [s + 1..n + 1 -> 0..len] /\ d[s + 1] = 0 /\ d[n + 1] = len
      /\ \A j, k \in s + 1..n + 1 : j <= k => d[j] <= d[k]
  BY <1>1 DEF Reads, Parted
<1> HIDE DEF n, s, r
<1>4. c \in [s..n + 1 -> 0..len] /\ c[s] = 0 /\ \A k \in s + 1..n + 1 : c[k] = d[k]
  BY <1>2, <1>3
<1> HIDE DEF c
<1>5. Parted(q, at, len, c)
  <2>1. n + 1 \in s + 1..n + 1 /\ \A k \in s..n + 1 : k # s => k \in s + 1..n + 1
    BY <1>2
  <2>2. c[n + 1] = len
    BY <1>3, <1>4, <2>1
  <2>3. \A j, k \in s..n + 1 : j <= k => c[j] <= c[k]
    BY <1>2, <1>3, <1>4, <2>1
  <2> QED BY <1>1, <1>4, <2>2, <2>3 DEF Parted
<1>6. Counted(q, at, c)
  <2>1. c[s + 1] = 0
    BY <1>2, <1>3, <1>4
  <2> SUFFICES ASSUME NEW k \in s..n, k # s
               PROVE  Enough(q, k, "rec", 0, c[k + 1] - c[k])
    BY <1>1, <2>1 DEF Counted
  <2>2. k \in s + 1..n + 1 /\ k + 1 \in s + 1..n + 1 /\ k \in s + 1..n
    BY <1>2
  <2>3. IF k = s + 1 THEN Enough(q, k, "rec", 0, d[k + 1])
                     ELSE Enough(q, k, "rec", 0, d[k + 1] - d[k])
    BY <1>1, <1>3, <2>2 DEF Reads, Counted
  <2>4. d[k + 1] = c[k + 1] /\ d[k] = c[k] /\ c[k + 1] \in Int
    BY <1>3, <1>4, <2>2
  <2>5. k = s + 1 => c[k + 1] - c[k] = d[k + 1]
    BY <1>3, <2>4
  <2> QED BY <2>3, <2>4, <2>5
<1>7. Typed(q, evts, ids, at, p, c)
  <2> SUFFICES ASSUME NEW k \in s..n, NEW j \in c[k] + 1..c[k + 1]
               PROVE  OfStep(q, evts, ids, k, p[j])
    BY <1>1 DEF Typed
  <2>1. k # s
    BY <1>2, <1>3, <1>4
  <2>2. k \in s + 1..n + 1 /\ k + 1 \in s + 1..n + 1 /\ k \in s + 1..n
    BY <1>2, <2>1
  <2>3. j \in d[k] + 1..d[k + 1]
    BY <1>4, <2>2
  <2> QED BY <1>1, <1>3, <2>2, <2>3 DEF Reads, Typed
<1>8. Timely(q, evts, ids, at, len, p)
  BY <1>1, <1>3 DEF Reads, Timely, Begin
<1>9. Reads(q, evts, ids, at, len, p, c)
  BY <1>1, <1>3, <1>5, <1>6, <1>7, <1>8 DEF Reads
<1>10. c[s + 1] = 0
  BY <1>2, <1>3, <1>4
<1> QED
  BY <1>1, <1>9, <1>10

\* Whether an event may be taken.
LEMMA TakeIsNear ==
  ASSUME NEW q, NEW evts, NEW ids, NEW k, NEW i, NEW first
  PROVE  MayTake(q, evts, ids, q.steps[k], i, first) <=>
           /\ OfStep(q, evts, ids, k, i)
           /\ Near(q, evts, ids, IF first = 0 THEN i ELSE first, i)
<1>1. CASE first = 0
  BY <1>1 DEF MayTake, OfStep, Near
<1>2. CASE first # 0
  BY <1>2 DEF MayTake, OfStep, Near
<1> QED
  BY <1>1, <1>2

\* The positions after the first.
Shifted(len, p, r) == \A j \in 1..len : r[j] = p[j + 1]

\* A path with the event at pos in front.
LEMMA PathInFront ==
  ASSUME NEW ids, NEW len \in Nat, NEW more, more = len + 1, NEW p, NEW r,
         Shifted(len, p, r)
  PROVE  PathOf(ids, more, p) = <<ids[p[1]]>> \o PathOf(ids, len, r)
<1> DEFINE a == <<ids[p[1]]>>
           b == PathOf(ids, len, r)
           S == {ids[r[j]] : j \in 1..len} \cup {ids[p[1]]}
<1>1. a \in Seq(S) /\ Len(a) = 1 /\ a[1] = ids[p[1]]
  OBVIOUS
<1>2. b \in Seq(S) /\ Len(b) = len /\ \A j \in 1..len : b[j] = ids[r[j]]
  BY IsASeq DEF PathOf
<1> HIDE DEF a, b, S
<1>3. /\ a \o b \in Seq(S) /\ Len(a \o b) = more
      /\ \A i \in 1..more : (a \o b)[i] = IF i <= 1 THEN a[i] ELSE b[i - 1]
  <2>1. /\ a \o b \in Seq(S) /\ Len(a \o b) = Len(a) + Len(b)
        /\ \A i \in 1..Len(a) + Len(b) : (a \o b)[i] = IF i <= Len(a) THEN a[i] ELSE b[i - Len(a)]
    BY ONLY <1>1, <1>2, ConcatProperties
  <2>2. Len(a) + Len(b) = more
    BY <1>1, <1>2
  <2> QED BY <1>1, <2>1, <2>2
<1>4. PathOf(ids, more, p) \in [1..more -> {ids[p[j]] : j \in 1..more}]
  BY DEF PathOf
<1>5. \A i \in 1..more : PathOf(ids, more, p)[i] = (a \o b)[i]
  <2> TAKE i \in 1..more
  <2>1. PathOf(ids, more, p)[i] = ids[p[i]]
    BY DEF PathOf
  <2>2. CASE i = 1
    BY <1>1, <1>3, <2>1, <2>2
  <2>3. CASE i # 1
    <3>1. i - 1 \in 1..len /\ (i - 1) + 1 = i
      BY <2>3
    <3>2. p[i] = r[i - 1]
      BY <3>1 DEF Shifted
    <3> QED BY <1>2, <1>3, <2>1, <2>3, <3>1, <3>2
  <2> QED BY <2>2, <2>3
<1>6. a \o b = [i \in 1..more |-> (a \o b)[i]]
  BY <1>3, LenProperties
<1> QED
  BY <1>4, <1>5, <1>6 DEF a, b, PathOf

LEMMA PathTail ==
  ASSUME NEW ids, NEW len \in Nat \ {0}, NEW p
  PROVE  PathOf(ids, len, p)
           = <<ids[p[1]]>> \o PathOf(ids, len - 1, [j \in 1..len - 1 |-> p[j + 1]])
<1>1. PICK l, r : l = len - 1 /\ r = [j \in 1..l |-> p[j + 1]]
  OBVIOUS
<1>2. l \in Nat /\ len = l + 1
  BY <1>1
<1>3. Shifted(l, p, r)
  BY <1>1 DEF Shifted
<1>4. PathOf(ids, len, p) = <<ids[p[1]]>> \o PathOf(ids, l, r)
  BY ONLY <1>2, <1>3, PathInFront
<1> QED BY <1>1, <1>4

\* A path of one id and what is read from where an event was taken.
ReadInFront(q, evts, ids, at, x, path) ==
  \E l, r, d : Reads(q, evts, ids, TakenPoint(at), l, r, d) /\ path = <<x>> \o PathOf(ids, l, r)

\* When the event at the point's position is read, it may be taken, and the
\* others are read from where it was.
LEMMA TakenOfReads ==
  ASSUME NEW q, IsQuery(q), NEW evts, NEW ids, Len(ids) \in Nat, NEW at \in Points(q, ids),
         at.step <= Len(q.steps), at.kind = "loop", NEW len, NEW p, NEW c,
         Reads(q, evts, ids, at, len, p, c), p[1] = at.pos
  PROVE  /\ at.pos <= Len(ids)
         /\ MayTake(q, evts, ids, q.steps[at.step], at.pos, at.first)
         /\ ReadInFront(q, evts, ids, at, ids[at.pos], PathOf(ids, len, p))
<1> DEFINE n == Len(q.steps)
           m == Len(ids)
           s == at.step
           b == at.pos
           t == TakenPoint(at)
           l == len - 1
           r == [j \in 1..l |-> p[j + 1]]
           d == [k \in s..n + 1 |-> IF k = s THEN 0 ELSE c[k] - 1]
<1>1. /\ t.kind = "consume_repeats" /\ t.step = s /\ t.reps = at.reps + 1 /\ t.pos = b + 1
      /\ t.first = IF at.first = 0 THEN b ELSE at.first
      /\ s = at.step /\ n = Len(q.steps) /\ m = Len(ids) /\ b = at.pos /\ t = TakenPoint(at)
  BY DEF TakenPoint, Point
<1>2. n \in Nat /\ m \in Nat /\ s \in 1..n /\ b \in 1..m + 1 /\ at.first \in 0..m /\ at.reps \in Nat
  BY PointFields DEF HaveLengths, IsQuery
<1>3. /\ Reads(q, evts, ids, at, len, p, c) /\ len \in Nat
      /\ p \in [1..len -> b..m] /\ InOrder(len, p)
      /\ c \in [s..n + 1 -> 0..len] /\ c[s] = 0 /\ c[n + 1] = len
      /\ \A j, k \in s..n + 1 : j <= k => c[j] <= c[k]
      /\ Enough(q, s, "loop", at.reps, c[s + 1])
  <2>1. Counted(q, at, c)
    BY DEF Reads
  <2>2. Enough(q, s, "loop", at.reps, c[s + 1])
    BY <1>2, <2>1 DEF Counted
  <2> QED BY <2>2 DEF Reads, Parted
<1>4. p[1] = b
  OBVIOUS
<1> HIDE DEF n, m, s, b, t
<1>5. /\ c[s + 1] \in 1..len /\ len \in Nat \ {0} /\ l \in Nat /\ l + 1 = len /\ b <= m
      /\ \A k \in s + 1..n + 1 : c[k] \in 1..len
  <2>1. s + 1 \in s..n + 1 /\ \A k \in s + 1..n + 1 : k \in s..n + 1
    BY <1>2
  <2>2. c[s + 1] >= 1
    BY <1>3 DEF Enough
  <2>3. c[s + 1] \in 1..len
    BY <1>3, <2>1, <2>2
  <2>4. len # 0
    BY <2>3, <1>3
  <2>5. b \in b..m
    BY <1>3, <1>4, <2>4
  <2>6. \A k \in s + 1..n + 1 : c[k] \in 0..len /\ c[s + 1] <= c[k]
    BY <1>3, <2>1
  <2> QED BY <1>2, <1>3, <2>3, <2>4, <2>5, <2>6
<1>6. MayTake(q, evts, ids, q.steps[s], b, at.first)
  <2>1. OfStep(q, evts, ids, s, p[1])
    <3>1. Typed(q, evts, ids, at, p, c)
      BY <1>3 DEF Reads
    <3>2. 1 \in c[s] + 1..c[s + 1] /\ s \in s..n
      BY <1>2, <1>3, <1>5
    <3> QED BY <1>1, <3>1, <3>2 DEF Typed
  <2>2. Near(q, evts, ids, Begin(at, p), p[1])
    <3>1. Timely(q, evts, ids, at, len, p)
      BY <1>3 DEF Reads
    <3>2. 1 \in 1..len
      BY <1>5
    <3> QED BY <3>1, <3>2 DEF Timely
  <2>3. Begin(at, p) = IF at.first = 0 THEN b ELSE at.first
    BY <1>4 DEF Begin
  <2> QED BY <1>4, <2>1, <2>2, <2>3, TakeIsNear
<1>7. /\ \A j \in 1..l : r[j] = p[j + 1]
      /\ r \in [1..l -> b + 1..m] /\ InOrder(l, r)
  <2>1. \A j \in 1..l : j + 1 \in 1..len /\ 1 \in 1..len
    BY <1>5
  <2>2. \A j \in 1..l : p[j + 1] \in b..m /\ p[1] < p[j + 1]
    BY <1>3, <2>1 DEF InOrder
  <2>3. \A j \in 1..l : p[j + 1] \in b + 1..m
    BY <1>2, <1>4, <2>2
  <2>4. \A j \in 1..l : r[j] = p[j + 1]
    OBVIOUS
  <2>5. \A i, j \in 1..l : i < j => i + 1 < j + 1
    OBVIOUS
  <2>6. InOrder(l, r)
    <3> HIDE DEF r, l
    <3> QED BY <1>3, <2>1, <2>4, <2>5 DEF InOrder
  <2> QED BY <2>3, <2>6
<1>8. /\ d \in [s..n + 1 -> 0..l] /\ d[s] = 0 /\ \A k \in s + 1..n + 1 : d[k] = c[k] - 1
  <2>1. \A k \in s..n + 1 : k # s => k \in s + 1..n + 1
    BY <1>2
  <2>2. \A k \in s..n + 1 : (IF k = s THEN 0 ELSE c[k] - 1) \in 0..l
    BY <1>3, <1>5, <2>1
  <2> QED BY <1>2, <2>2
<1>15. len \in Nat \ {0} => PathOf(ids, len, p) = <<ids[p[1]]>> \o PathOf(ids, l, r)
  BY PathTail
<1> HIDE DEF l, r, d
<1>9. Parted(q, t, l, d)
  <2>1. n + 1 \in s + 1..n + 1 /\ \A k \in s..n + 1 : k # s => k \in s + 1..n + 1
    BY <1>2
  <2>2. d[n + 1] = l
    BY <1>3, <1>5, <1>8, <2>1
  <2>3. ASSUME NEW j \in s..n + 1, NEW k \in s..n + 1, j <= k PROVE d[j] <= d[k]
    <3>1. d[j] \in 0..l /\ d[k] \in 0..l
      BY <1>8
    <3>2. CASE j = s
      BY <1>8, <3>1, <3>2
    <3>3. CASE j # s
      <4>1. k # s
        BY <1>2, <2>3, <3>3
      <4>2. d[j] = c[j] - 1 /\ d[k] = c[k] - 1 /\ c[j] <= c[k] /\ c[j] \in 1..len /\ c[k] \in 1..len
        BY <1>3, <1>5, <1>8, <2>1, <2>3, <3>3, <4>1
      <4> QED BY <4>2
    <3> QED BY <3>2, <3>3
  <2> QED BY <1>1, <1>8, <2>2, <2>3 DEF Parted
<1>10. Counted(q, t, d)
  <2>1. d[s + 1] = c[s + 1] - 1
    BY <1>2, <1>8
  <2>2. Enough(q, s, "consume_repeats", at.reps + 1, d[s + 1])
    <3>1. q.steps[s].max_repeats \in Int \/ q.steps[s].max_repeats = Unlimited
      BY <1>1, <1>2 DEF IsQuery
    <3> QED BY <1>2, <1>3, <1>5, <2>1, <3>1, SMTT(30) DEF Enough
  <2>3. ASSUME NEW k \in s..n, k # s PROVE Enough(q, k, "rec", 0, d[k + 1] - d[k])
    <3>1. Enough(q, k, "rec", 0, c[k + 1] - c[k])
      BY <1>1, <1>3, <2>3 DEF Reads, Counted
    <3>2. k \in s + 1..n + 1 /\ k + 1 \in s + 1..n + 1
      BY <1>2, <2>3
    <3>3. d[k + 1] - d[k] = c[k + 1] - c[k]
      BY <1>5, <1>8, <3>2
    <3> QED BY <3>1, <3>3
  <2> QED BY <1>1, <2>2, <2>3 DEF Counted
<1>11. Typed(q, evts, ids, t, r, d)
  <2> SUFFICES ASSUME NEW k \in s..n, NEW j \in d[k] + 1..d[k + 1]
               PROVE  OfStep(q, evts, ids, k, r[j])
    BY <1>1 DEF Typed
  <2>1. k \in s..n + 1 /\ k + 1 \in s + 1..n + 1 /\ k + 1 \in s..n + 1
        /\ (k # s => k \in s + 1..n + 1)
    BY <1>2
  <2>2. d[k] \in 0..l /\ d[k + 1] \in 0..l /\ d[k + 1] = c[k + 1] - 1 /\ c[k + 1] \in 1..len
    BY <1>5, <1>8, <2>1
  <2>3. j \in 1..l
    BY <1>5, <2>2
  <2>6. r[j] = p[j + 1]
    BY <1>7, <2>3
  <2>4. j + 1 \in c[k] + 1..c[k + 1]
    <3>1. CASE k = s
      BY <1>3, <1>8, <2>2, <3>1, SMTT(30)
    <3>2. CASE k # s
      <4>1. d[k] = c[k] - 1 /\ c[k] \in 1..len
        BY <1>5, <1>8, <2>1, <3>2
      <4> QED BY <2>2, <4>1, SMTT(30)
    <3> QED BY <3>1, <3>2
  <2>5. OfStep(q, evts, ids, k, p[j + 1])
    BY <1>1, <1>3, <2>4 DEF Reads, Typed
  <2> QED BY <2>5, <2>6
<1>12. Timely(q, evts, ids, t, l, r)
  <2>1. t.first # 0 /\ t.first = Begin(at, p)
    BY <1>1, <1>2, <1>4 DEF Begin
  <2>2. Begin(t, r) = Begin(at, p)
    BY <2>1 DEF Begin
  <2>3. \A j \in 1..l : j + 1 \in 1..len
    BY <1>5
  <2>4. Timely(q, evts, ids, at, len, p)
    BY <1>3 DEF Reads
  <2> QED BY <1>7, <2>2, <2>3, <2>4 DEF Timely
<1>13. Reads(q, evts, ids, t, l, r, d)
  <2>1. t.first # 0
    BY <1>1, <1>2
  <2> QED BY <1>1, <1>5, <1>7, <1>9, <1>10, <1>11, <1>12, <2>1 DEF Reads
<1>14. PathOf(ids, len, p) = <<ids[b]>> \o PathOf(ids, l, r)
  <2>1. PathOf(ids, len, p) = <<ids[p[1]]>> \o PathOf(ids, l, r)
    BY <1>5, <1>15
  <2> QED BY <1>4, <2>1
<1> QED
  BY <1>1, <1>5, <1>6, <1>13, <1>14 DEF ReadInFront

\* And what is read from where an event was taken is read with it.
LEMMA ReadsOfTaken ==
  ASSUME NEW q, IsQuery(q), NEW evts, NEW ids, Len(ids) \in Nat, NEW at \in Points(q, ids),
         at.step <= Len(q.steps), at.kind = "loop", at.pos <= Len(ids),
         MayTake(q, evts, ids, q.steps[at.step], at.pos, at.first),
         NEW l, NEW r, NEW d, Reads(q, evts, ids, TakenPoint(at), l, r, d)
  PROVE  IsRead(q, evts, ids, at, <<ids[at.pos]>> \o PathOf(ids, l, r))
<1> DEFINE n == Len(q.steps)
           m == Len(ids)
           s == at.step
           b == at.pos
           t == TakenPoint(at)
           len == l + 1
           p == [j \in 1..len |-> IF j = 1 THEN b ELSE r[j - 1]]
           c == [k \in s..n + 1 |-> IF k = s THEN 0 ELSE d[k] + 1]
<1>1. /\ t.kind = "consume_repeats" /\ t.step = s /\ t.reps = at.reps + 1 /\ t.pos = b + 1
      /\ t.first = IF at.first = 0 THEN b ELSE at.first
      /\ s = at.step /\ n = Len(q.steps) /\ m = Len(ids) /\ b = at.pos /\ t = TakenPoint(at)
  BY DEF TakenPoint, Point
<1>2. n \in Nat /\ m \in Nat /\ s \in 1..n /\ b \in 1..m /\ at.first \in 0..m /\ at.reps \in Nat
  BY PointFields DEF HaveLengths, IsQuery
<1>3. /\ Reads(q, evts, ids, t, l, r, d) /\ l \in Nat
      /\ r \in [1..l -> b + 1..m] /\ InOrder(l, r)
      /\ d \in [s..n + 1 -> 0..l] /\ d[s] = 0 /\ d[n + 1] = l
      /\ \A j, k \in s..n + 1 : j <= k => d[j] <= d[k]
      /\ Enough(q, s, "consume_repeats", at.reps + 1, d[s + 1])
  <2>1. Counted(q, t, d)
    BY DEF Reads
  <2>2. Enough(q, s, "consume_repeats", at.reps + 1, d[s + 1])
    BY <1>1, <1>2, <2>1 DEF Counted
  <2> QED BY <1>1, <2>2 DEF Reads, Parted
<1>4. OfStep(q, evts, ids, s, b) /\ Near(q, evts, ids, t.first, b)
  BY <1>1, TakeIsNear
<1>15. l \in Nat => len \in Nat \ {0} /\ l = len - 1
  OBVIOUS
<1> HIDE DEF n, m, s, b, t
<1>5. len \in Nat \ {0} /\ l = len - 1
  BY <1>3, <1>15
<1>6. /\ p \in [1..len -> b..m] /\ p[1] = b /\ \A j \in 1..l : p[j + 1] = r[j]
  <2>1. \A j \in 1..len : j # 1 => j - 1 \in 1..l
    BY <1>3
  <2>2. \A j \in 1..len : (IF j = 1 THEN b ELSE r[j - 1]) \in b..m
    BY <1>2, <1>3, <2>1
  <2>3. \A j \in 1..l : j + 1 \in 1..len /\ j + 1 # 1 /\ (j + 1) - 1 = j
    BY <1>3
  <2>4. 1 \in 1..len
    BY <1>3
  <2>5. \A j \in 1..l : p[j + 1] = r[j]
    BY <2>3
  <2> QED BY <2>2, <2>4, <2>5
<1>7. /\ c \in [s..n + 1 -> 0..len] /\ c[s] = 0 /\ \A k \in s + 1..n + 1 : c[k] = d[k] + 1
  <2>1. \A k \in s..n + 1 : (IF k = s THEN 0 ELSE d[k] + 1) \in 0..len
    BY <1>3
  <2> QED BY <1>2, <2>1
<1> HIDE DEF len, p, c
<1>8. \A j \in 1..len : j # 1 => j - 1 \in 1..l /\ p[j] = r[j - 1]
  <2> TAKE j \in 1..len
  <2> HAVE j # 1
  <2>1. j - 1 \in 1..l /\ (j - 1) + 1 = j
    BY <1>3, <1>5
  <2> QED BY <1>6, <2>1
<1>9. InOrder(len, p)
  <2> SUFFICES ASSUME NEW i \in 1..len, NEW j \in 1..len, i < j PROVE p[i] < p[j]
    BY DEF InOrder
  <2>1. j # 1 /\ j - 1 \in 1..l /\ p[j] = r[j - 1] /\ r[j - 1] \in b + 1..m
    BY <1>3, <1>5, <1>8
  <2>2. CASE i = 1
    BY <1>2, <1>6, <2>1, <2>2
  <2>3. CASE i # 1
    <3>1. i - 1 \in 1..l /\ p[i] = r[i - 1] /\ i - 1 < j - 1
      BY <1>5, <1>8, <2>3
    <3> QED BY <1>3, <2>1, <3>1 DEF InOrder
  <2> QED BY <2>2, <2>3
<1>10. Parted(q, at, len, c)
  <2>1. n + 1 \in s + 1..n + 1 /\ \A k \in s..n + 1 : k # s => k \in s + 1..n + 1
    BY <1>2
  <2>2. c[n + 1] = len
    BY <1>3, <1>5, <1>7, <2>1
  <2>3. ASSUME NEW j \in s..n + 1, NEW k \in s..n + 1, j <= k PROVE c[j] <= c[k]
    <3>1. c[j] \in 0..len /\ c[k] \in 0..len
      BY <1>7
    <3>2. CASE j = s
      BY <1>7, <3>1, <3>2
    <3>3. CASE j # s
      <4>1. k # s
        BY <1>2, <2>3, <3>3
      <4>2. c[j] = d[j] + 1 /\ c[k] = d[k] + 1 /\ d[j] <= d[k] /\ d[j] \in 0..l /\ d[k] \in 0..l
        BY <1>3, <1>7, <2>1, <2>3, <3>3, <4>1
      <4> QED BY <4>2
    <3> QED BY <3>2, <3>3
  <2> QED BY <1>1, <1>7, <2>2, <2>3 DEF Parted
<1>11. Counted(q, at, c)
  <2>1. c[s + 1] = d[s + 1] + 1 /\ d[s + 1] \in 0..l
    BY <1>2, <1>3, <1>7
  <2>2. Enough(q, s, "loop", at.reps, c[s + 1])
    <3>1. q.steps[s].max_repeats \in Int \/ q.steps[s].max_repeats = Unlimited
      BY <1>1, <1>2 DEF IsQuery
    <3>5. PICK x, y : x = at.reps /\ y = d[s + 1]
      OBVIOUS
    <3>6. x \in Nat /\ y \in Nat
      BY <1>2, <1>3, <2>1, <3>5
    <3>7. x + (y + 1) = (x + 1) + y /\ y + 1 >= 1
      BY <3>6
    <3>2. at.reps + c[s + 1] = (at.reps + 1) + d[s + 1] /\ c[s + 1] >= 1
      BY <2>1, <3>5, <3>7
    <3>3. d[s + 1] = 0 => c[s + 1] = 1
      BY <2>1
    <3>4. Enough(q, s, "consume_repeats", at.reps + 1, d[s + 1])
      BY <1>3
    <3> QED BY <3>1, <3>2, <3>3, <3>4 DEF Enough
  <2>3. ASSUME NEW k \in s..n, k # s PROVE Enough(q, k, "rec", 0, c[k + 1] - c[k])
    <3>1. Enough(q, k, "rec", 0, d[k + 1] - d[k])
      BY <1>1, <1>3, <2>3 DEF Reads, Counted
    <3>2. k \in s + 1..n + 1 /\ k + 1 \in s + 1..n + 1 /\ k \in s..n + 1 /\ k + 1 \in s..n + 1
      BY <1>2, <2>3
    <3>3. d[k + 1] - d[k] = c[k + 1] - c[k]
      BY <1>3, <1>7, <3>2
    <3> QED BY <3>1, <3>3
  <2> QED BY <1>1, <2>2, <2>3 DEF Counted
<1>12. Typed(q, evts, ids, at, p, c)
  <2> SUFFICES ASSUME NEW k \in s..n, NEW j \in c[k] + 1..c[k + 1]
               PROVE  OfStep(q, evts, ids, k, p[j])
    BY <1>1 DEF Typed
  <2>1. k \in s..n + 1 /\ k + 1 \in s + 1..n + 1 /\ k + 1 \in s..n + 1
        /\ (k # s => k \in s + 1..n + 1)
    BY <1>2
  <2>2. c[k] \in 0..len /\ c[k + 1] = d[k + 1] + 1 /\ d[k + 1] \in 0..l
    BY <1>3, <1>7, <2>1
  <2>3. j \in 1..len
    BY <1>5, <2>2
  <2>4. CASE j = 1
    <3>1. k = s
      <4>1. k # s => c[k] = d[k] + 1 /\ d[k] \in 0..l
        BY <1>3, <1>7, <2>1
      <4> QED BY <2>2, <2>4, <4>1
    <3> QED BY <1>4, <1>6, <2>4, <3>1
  <2>5. CASE j # 1
    <3>1. j - 1 \in 1..l /\ p[j] = r[j - 1]
      BY <1>8, <2>3, <2>5
    <3>2. j - 1 \in d[k] + 1..d[k + 1]
      <4>1. CASE k = s
        BY <1>3, <2>2, <3>1, <4>1, SMTT(30)
      <4>2. CASE k # s
        <5>1. c[k] = d[k] + 1 /\ d[k] \in 0..l
          BY <1>3, <1>7, <2>1, <4>2
        <5> QED BY <2>2, <5>1
      <4> QED BY <4>1, <4>2
    <3>3. OfStep(q, evts, ids, k, r[j - 1])
      BY <1>1, <1>3, <3>2 DEF Reads, Typed
    <3> QED BY <3>1, <3>3
  <2> QED BY <2>4, <2>5
<1>13. Timely(q, evts, ids, at, len, p)
  <2>1. t.first # 0 /\ t.first = Begin(at, p)
    BY <1>1, <1>2, <1>6 DEF Begin
  <2>2. Begin(t, r) = Begin(at, p)
    BY <2>1 DEF Begin
  <2>3. Timely(q, evts, ids, t, l, r)
    BY <1>3 DEF Reads
  <2>4. ASSUME NEW j \in 1..len PROVE Near(q, evts, ids, Begin(at, p), p[j])
    <3>1. CASE j = 1
      BY <1>4, <1>6, <2>1, <3>1
    <3>2. CASE j # 1
      BY <1>8, <2>2, <2>3, <3>2 DEF Timely
    <3> QED BY <3>1, <3>2
  <2> QED BY <2>4 DEF Timely
<1>14. Reads(q, evts, ids, at, len, p, c)
  BY <1>1, <1>5, <1>6, <1>9, <1>10, <1>11, <1>12, <1>13 DEF Reads
<1>16. Shifted(l, p, r) /\ len = l + 1
  BY <1>3, <1>5, <1>6 DEF Shifted
<1>17. PathOf(ids, len, p) = <<ids[b]>> \o PathOf(ids, l, r)
  <2>1. l \in Nat
    BY <1>3
  <2>2. PathOf(ids, len, p) = <<ids[p[1]]>> \o PathOf(ids, l, r)
    BY ONLY <1>16, <2>1, PathInFront
  <2>3. p[1] = b
    BY <1>6
  <2> QED BY <2>2, <2>3
<1> QED
  BY <1>1, <1>14, <1>17 DEF IsRead

\* Nothing is read in the loop from behind the last event; what is read
\* without the event at the point's position is read from the next one.
LEMMA ReadsOfLoop ==
  ASSUME NEW q, IsQuery(q), NEW evts, NEW ids, Len(ids) \in Nat, NEW at \in Points(q, ids),
         at.step <= Len(q.steps), at.kind = "loop", NEW len, NEW p, NEW c
  PROVE  /\ Reads(q, evts, ids, at, len, p, c) => at.pos <= Len(ids)
         /\ Reads(q, evts, ids, NextPoint(at), len, p, c)
              <=> Reads(q, evts, ids, at, len, p, c) /\ p[1] # at.pos
<1> DEFINE n == Len(q.steps)
           m == Len(ids)
           s == at.step
           b == at.pos
           t == NextPoint(at)
<1>1. /\ t.kind = "loop" /\ t.step = s /\ t.reps = at.reps /\ t.pos = b + 1 /\ t.first = at.first
      /\ s = at.step /\ n = Len(q.steps) /\ m = Len(ids) /\ b = at.pos /\ t = NextPoint(at)
  BY DEF NextPoint, Point
<1>2. n \in Nat /\ m \in Nat /\ s \in 1..n /\ b \in 1..m + 1
  BY PointFields DEF HaveLengths, IsQuery
<1> HIDE DEF n, m, s, b, t
<1>3. /\ Parted(q, t, len, c) <=> Parted(q, at, len, c)
      /\ Counted(q, t, c) <=> Counted(q, at, c)
      /\ Typed(q, evts, ids, t, p, c) <=> Typed(q, evts, ids, at, p, c)
      /\ Timely(q, evts, ids, t, len, p) <=> Timely(q, evts, ids, at, len, p)
  BY <1>1 DEF Parted, Counted, Typed, Timely, Begin
<1>4. ASSUME len \in Nat, Parted(q, at, len, c), Counted(q, at, c)
      PROVE  len # 0
  <2>1. Enough(q, s, "loop", at.reps, c[s + 1])
    BY <1>1, <1>2, <1>4 DEF Counted
  <2>2. c[s + 1] \in 0..len /\ c[s + 1] >= 1
    BY <1>1, <1>2, <1>4, <2>1 DEF Parted, Enough
  <2> QED BY <1>4, <2>2
<1>5. ASSUME Reads(q, evts, ids, at, len, p, c) PROVE b <= m /\ 1 \in 1..len
  <2>1. len \in Nat /\ len # 0 /\ p \in [1..len -> b..m]
    BY <1>1, <1>4, <1>5 DEF Reads
  <2>2. 1 \in 1..len
    BY <2>1
  <2>3. p[1] \in b..m
    BY <2>1, <2>2
  <2> QED BY <1>2, <2>2, <2>3
<1>6. ASSUME Reads(q, evts, ids, at, len, p, c), p[1] # b
      PROVE  Reads(q, evts, ids, t, len, p, c)
  <2>1. len \in Nat /\ p \in [1..len -> b..m] /\ InOrder(len, p) /\ 1 \in 1..len
    BY <1>1, <1>5, <1>6 DEF Reads
  <2>2. ASSUME NEW j \in 1..len PROVE p[j] \in b + 1..m
    <3>1. p[1] \in b..m /\ p[j] \in b..m
      BY <2>1
    <3>2. j # 1 => p[1] < p[j]
      BY <2>1 DEF InOrder
    <3> QED BY <1>2, <1>6, <3>1, <3>2
  <2>3. p \in [1..len -> b + 1..m]
    BY <2>1, <2>2
  <2> QED BY <1>1, <1>3, <1>6, <2>1, <2>3 DEF Reads
<1>7. ASSUME Reads(q, evts, ids, t, len, p, c)
      PROVE  Reads(q, evts, ids, at, len, p, c) /\ p[1] # b
  <2>1. len \in Nat /\ p \in [1..len -> b + 1..m] /\ InOrder(len, p)
    BY <1>1, <1>7 DEF Reads
  <2>2. len # 0
    BY <1>3, <1>4, <1>7, <2>1 DEF Reads
  <2>3. p[1] \in b + 1..m
    BY <2>1, <2>2
  <2>4. p \in [1..len -> b..m]
    BY <1>2, <2>1
  <2>5. Reads(q, evts, ids, at, len, p, c)
    BY <1>1, <1>3, <1>7, <2>1, <2>4 DEF Reads
  <2> QED BY <1>2, <2>3, <2>5
<1> QED
  BY <1>1, <1>5, <1>6, <1>7

\* The loop is entered where one more repetition may be consumed.
LEMMA ReadsOfConsume ==
  ASSUME NEW q, IsQuery(q), NEW evts, NEW ids, Len(ids) \in Nat, NEW at \in Points(q, ids),
         at.step <= Len(q.steps), at.kind = "consume_repeats", NEW len, NEW p, NEW c
  PROVE  Reads(q, evts, ids, LoopPoint(at), len, p, c) /\ MayRepeat(q.steps[at.step], at.reps)
           <=> Reads(q, evts, ids, at, len, p, c) /\ c[at.step + 1] # 0
<1> DEFINE n == Len(q.steps)
           s == at.step
           t == LoopPoint(at)
           max == q.steps[s].max_repeats
<1>1. /\ t.kind = "loop" /\ t.step = s /\ t.reps = at.reps /\ t.pos = at.pos /\ t.first = at.first
      /\ s = at.step /\ n = Len(q.steps) /\ t = LoopPoint(at)
  BY DEF LoopPoint, Point
<1>2. n \in Nat /\ s \in 1..n /\ at.reps \in Nat
  BY PointFields DEF HaveLengths, IsQuery
<1>3. max \in Nat \/ max = Unlimited
  BY <1>1, <1>2 DEF IsQuery
<1>4. max = q.steps[s].max_repeats
  OBVIOUS
<1> HIDE DEF n, s, t, max
<1>5. /\ Parted(q, t, len, c) <=> Parted(q, at, len, c)
      /\ Typed(q, evts, ids, t, p, c) <=> Typed(q, evts, ids, at, p, c)
      /\ Timely(q, evts, ids, t, len, p) <=> Timely(q, evts, ids, at, len, p)
  BY <1>1 DEF Parted, Typed, Timely, Begin
<1>6. Counted(q, t, c) => Enough(q, s, "loop", at.reps, c[s + 1])
  BY <1>1, <1>2 DEF Counted
<1>7. Counted(q, at, c) => Enough(q, s, "consume_repeats", at.reps, c[s + 1])
  BY <1>1, <1>2 DEF Counted
<1>8. len \in Nat /\ Parted(q, at, len, c) => c[s + 1] \in Nat
  BY <1>1, <1>2 DEF Parted
<1>9. MayRepeat(q.steps[s], at.reps) <=> max = Unlimited \/ at.reps < max
  BY <1>4 DEF MayRepeat
<1>10. ASSUME NEW g \in Nat
       PROVE  Enough(q, s, "loop", at.reps, g) /\ MayRepeat(q.steps[s], at.reps)
                <=> Enough(q, s, "consume_repeats", at.reps, g) /\ g # 0
  <2>1. PICK x \in Nat : x = at.reps
    BY <1>2
  <2>2. Enough(q, s, "loop", x, g) <=>
          /\ x + g >= q.steps[s].min_repeats
          /\ max = Unlimited \/ x + g <= max \/ g = 1
          /\ g >= 1
    BY <1>4 DEF Enough
  <2>3. Enough(q, s, "consume_repeats", x, g) <=>
          /\ x + g >= q.steps[s].min_repeats
          /\ max = Unlimited \/ x + g <= max \/ g = 0
    BY <1>4 DEF Enough
  <2>4. max \in Nat => (x + g <= max /\ g >= 1 => x < max) /\ (x < max /\ g = 1 => x + g <= max)
    OBVIOUS
  <2>5. g # 0 <=> g >= 1
    OBVIOUS
  <2> QED BY <1>3, <1>9, <2>1, <2>2, <2>3, <2>4, <2>5
<1>11. ASSUME len \in Nat, Parted(q, at, len, c)
       PROVE  Counted(q, t, c) /\ MayRepeat(q.steps[s], at.reps)
                <=> Counted(q, at, c) /\ c[s + 1] # 0
  <2>1. /\ Counted(q, t, c) <=>
             /\ Enough(q, s, "loop", at.reps, c[s + 1])
             /\ \A k \in s..n : k # s => Enough(q, k, "rec", 0, c[k + 1] - c[k])
        /\ Counted(q, at, c) <=>
             /\ Enough(q, s, "consume_repeats", at.reps, c[s + 1])
             /\ \A k \in s..n : k # s => Enough(q, k, "rec", 0, c[k + 1] - c[k])
    <3>1. s \in s..n
      BY <1>2
    <3> QED BY <1>1, <3>1 DEF Counted
  <2> QED BY <1>8, <1>10, <1>11, <2>1
<1> QED
  BY <1>1, <1>5, <1>11 DEF Reads

\* rec begins with no repetition consumed.
LEMMA ReadsOfRec ==
  ASSUME NEW q, IsQuery(q), NEW evts, NEW ids, Len(ids) \in Nat, NEW at \in Points(q, ids),
         at.step <= Len(q.steps), at.kind = "rec", NEW len, NEW p, NEW c
  PROVE  Reads(q, evts, ids, ConsumePoint(at), len, p, c) <=> Reads(q, evts, ids, at, len, p, c)
<1> DEFINE t == ConsumePoint(at)
<1>1. /\ t.kind = "consume_repeats" /\ t.step = at.step /\ t.reps = 0 /\ t.pos = at.pos
      /\ t.first = at.first /\ t = ConsumePoint(at)
  BY DEF ConsumePoint, Point
<1> HIDE DEF t
<1>2. /\ Parted(q, t, len, c) <=> Parted(q, at, len, c)
      /\ Typed(q, evts, ids, t, p, c) <=> Typed(q, evts, ids, at, p, c)
      /\ Timely(q, evts, ids, t, len, p) <=> Timely(q, evts, ids, at, len, p)
  BY <1>1 DEF Parted, Typed, Timely, Begin
<1>3. \A k, g : Enough(q, k, "rec", 0, g) <=> Enough(q, k, "consume_repeats", 0, g)
  BY DEF Enough
<1>4. Counted(q, t, c) <=> Counted(q, at, c)
  BY <1>1, <1>3 DEF Counted
<1> QED
  BY <1>1, <1>2, <1>4 DEF Reads

\* Behind the last step there is nothing left to append.
LEMMA ReadsOfEnd ==
  ASSUME NEW q, IsQuery(q), NEW evts, NEW ids, Len(ids) \in Nat, NEW at \in Points(q, ids),
         at.step > Len(q.steps), NEW path
  PROVE  IsRead(q, evts, ids, at, path) <=> at.first # 0 /\ path = <<>>
<1> DEFINE n == Len(q.steps)
<1>1. n \in Nat /\ at.step = n + 1 /\ n = Len(q.steps) /\ at.pos \in Int
  BY PointFields DEF HaveLengths, IsQuery
<1> HIDE DEF n
<1>2. \A p : PathOf(ids, 0, p) = <<>>
  <2> TAKE p
  <2>1. PathOf(ids, 0, p) \in Seq({ids[p[j]] : j \in 1..0}) /\ Len(PathOf(ids, 0, p)) = 0
    BY IsASeq DEF PathOf
  <2> QED BY <2>1, EmptySeq
<1>3. ASSUME NEW len, NEW p, NEW c, Reads(q, evts, ids, at, len, p, c)
      PROVE  len = 0 /\ at.first # 0
  BY <1>1, <1>3 DEF Reads, Parted
<1>4. ASSUME at.first # 0
      PROVE  \E len, p, c : Reads(q, evts, ids, at, len, p, c) /\ len = 0
  <2> DEFINE p == [j \in 1..0 |-> 0]
             c == [k \in n + 1..n + 1 |-> 0]
  <2>1. p \in [1..0 -> at.pos..Len(ids)] /\ InOrder(0, p) /\ Timely(q, evts, ids, at, 0, p)
    BY DEF InOrder, Timely
  <2>2. c \in [n + 1..n + 1 -> 0..0] /\ c[n + 1] = 0
    BY <1>1
  <2>3. Parted(q, at, 0, c)
    <3>1. \A j \in n + 1..n + 1 : c[j] = 0
      OBVIOUS
    <3> HIDE DEF c
    <3> QED BY <1>1, <2>2, <3>1 DEF Parted
  <2>4. Counted(q, at, c) /\ Typed(q, evts, ids, at, p, c)
    <3>1. at.step..Len(q.steps) = {}
      BY <1>1
    <3> QED BY <3>1 DEF Counted, Typed
  <2> HIDE DEF p, c
  <2>5. Reads(q, evts, ids, at, 0, p, c)
    BY <1>4, <2>1, <2>3, <2>4 DEF Reads
  <2> QED BY <2>5
<1> QED
  BY <1>2, <1>3, <1>4 DEF IsRead

-----------------------------------------------------------------------------
(* What is listed is what is read.                                         *)

Listed(path, list) == \E i \in DOMAIN list : list[i] = path

\* Lists one after the other, and a list with one id in front of each path.
LEMMA ListedConcat ==
  ASSUME NEW S, NEW a \in Seq(S), NEW b \in Seq(S)
  PROVE  /\ a \o b \in Seq(S)
         /\ \A path : Listed(path, a \o b) <=> Listed(path, a) \/ Listed(path, b)
<1>1. /\ a \o b \in Seq(S) /\ Len(a \o b) = Len(a) + Len(b)
      /\ \A i \in 1..Len(a) + Len(b) : (a \o b)[i] = IF i <= Len(a) THEN a[i] ELSE b[i - Len(a)]
  BY ConcatProperties
<1>2. /\ Len(a) \in Nat /\ DOMAIN a = 1..Len(a) /\ Len(b) \in Nat /\ DOMAIN b = 1..Len(b)
      /\ DOMAIN (a \o b) = 1..Len(a) + Len(b)
  BY <1>1, LenProperties
<1>3. \A i \in 1..Len(a) : i \in 1..Len(a) + Len(b) /\ (a \o b)[i] = a[i]
  BY <1>1, <1>2
<1>4. \A i \in 1..Len(b) : Len(a) + i \in 1..Len(a) + Len(b) /\ (a \o b)[Len(a) + i] = b[i]
  <2> TAKE i \in 1..Len(b)
  <2>1. Len(a) + i \in 1..Len(a) + Len(b) /\ ~(Len(a) + i <= Len(a)) /\ (Len(a) + i) - Len(a) = i
    BY <1>2
  <2> QED BY <1>1, <2>1
<1>5. \A i \in 1..Len(a) + Len(b) :
        \/ i \in 1..Len(a) /\ (a \o b)[i] = a[i]
        \/ i - Len(a) \in 1..Len(b) /\ (a \o b)[i] = b[i - Len(a)]
  BY <1>1, <1>2
<1> QED
  BY <1>1, <1>2, <1>3, <1>4, <1>5, SMTT(30) DEF Listed

InFront(x, list) == [j \in DOMAIN list |-> <<x>> \o list[j]]

HasInFront(path, x, list) == \E s : Listed(s, list) /\ path = <<x>> \o s

LEMMA ListedInFront ==
  ASSUME NEW E, NEW list \in Seq(Seq(E)), NEW x \in E
  PROVE  /\ InFront(x, list) \in Seq(Seq(E))
         /\ \A path : Listed(path, InFront(x, list)) <=> HasInFront(path, x, list)
<1>1. Len(list) \in Nat /\ DOMAIN list = 1..Len(list) /\ \A j \in DOMAIN list : list[j] \in Seq(E)
  BY LenProperties
<1>2. \A j \in 1..Len(list) : <<x>> \o list[j] \in Seq(E)
  BY <1>1, ConcatProperties
<1>3. InFront(x, list) \in Seq(Seq(E))
  BY <1>1, <1>2, IsASeq DEF InFront
<1> QED
  BY <1>3 DEF Listed, InFront, HasInFront

\* Nothing and the empty path.
LEMMA ListedNone ==
  ASSUME NEW E
  PROVE  /\ <<>> \in Seq(Seq(E)) /\ \A path : ~Listed(path, <<>>)
         /\ << <<>> >> \in Seq(Seq(E)) /\ \A path : Listed(path, << <<>> >>) <=> path = <<>>
<1>1. <<>> \in Seq(Seq(E)) /\ DOMAIN <<>> = {}
  OBVIOUS
<1>2. << <<>> >> \in Seq(Seq(E)) /\ DOMAIN << <<>> >> = {1} /\ << <<>> >>[1] = <<>>
  <2>1. <<>> \in Seq(E)
    OBVIOUS
  <2> QED BY <2>1
<1> QED
  BY <1>1, <1>2 DEF Listed

\* The paths of a point are lists of ids, and those that are read from it.
Exact(q, evts, ids, at) ==
  /\ Lists(q, evts, ids)[at] \in Seq(Seq({ids[i] : i \in 1..Len(ids)}))
  /\ \A path : Listed(path, Lists(q, evts, ids)[at]) <=> IsRead(q, evts, ids, at, path)

\* A step without an event may be none where enough were consumed.
LEMMA NoneIsEnough ==
  ASSUME NEW q, IsQuery(q), NEW k \in 1..Len(q.steps), NEW kind, kind # "loop", NEW reps \in Nat
  PROVE  Enough(q, k, kind, reps, 0) <=> reps >= q.steps[k].min_repeats
BY DEF Enough

\* What is read from a point with no event for its step.
ReadAlone(q, evts, ids, at, path) ==
  \E len, p, c : /\ Reads(q, evts, ids, at, len, p, c) /\ c[at.step + 1] = 0
                 /\ path = PathOf(ids, len, p)

LEMMA ReadWithNone ==
  ASSUME NEW q, IsQuery(q), NEW evts, NEW ids, Len(ids) \in Nat, NEW at \in Points(q, ids),
         at.step <= Len(q.steps), at.kind # "loop", NEW path, NEW reps,
         reps = IF at.kind = "rec" THEN 0 ELSE at.reps
  PROVE  IsRead(q, evts, ids, RestPoint(at), path) /\ reps >= q.steps[at.step].min_repeats
           <=> ReadAlone(q, evts, ids, at, path)
<1> DEFINE s == at.step
<1>1. s \in 1..Len(q.steps) /\ reps \in Nat /\ Len(q.steps) \in Nat
  BY PointFields DEF HaveLengths, IsQuery
<1>2. Enough(q, s, at.kind, reps, 0) <=> reps >= q.steps[s].min_repeats
  BY <1>1, NoneIsEnough
<1>3. ASSUME NEW len, NEW p, NEW c, Reads(q, evts, ids, at, len, p, c), c[s + 1] = 0,
             path = PathOf(ids, len, p)
      PROVE  IsRead(q, evts, ids, RestPoint(at), path) /\ Enough(q, s, at.kind, reps, 0)
  <2>1. Enough(q, s, at.kind, reps, c[s + 1])
    <3>1. s \in s..Len(q.steps)
      BY <1>1
    <3> QED BY <1>3, <3>1 DEF Reads, Counted
  <2>2. \E d : Reads(q, evts, ids, RestPoint(at), len, p, d)
    BY <1>3, RestOfReads
  <2> QED BY <1>3, <2>1, <2>2 DEF IsRead
<1>4. ASSUME NEW len, NEW p, NEW d, Reads(q, evts, ids, RestPoint(at), len, p, d),
             Enough(q, s, at.kind, reps, 0), path = PathOf(ids, len, p)
      PROVE  \E c : Reads(q, evts, ids, at, len, p, c) /\ c[s + 1] = 0
  <2>1. \E c : Reads(q, evts, ids, at, len, p, c) /\ c[s + 1] = 0
    BY <1>4, ReadsOfRest
  <2> QED BY <2>1
<1> QED
  BY <1>2, <1>3, <1>4 DEF IsRead, ReadAlone

\* If the lists of the points of lower rank are exact, this one is.
LEMMA ExactStep ==
  ASSUME NEW q, IsQuery(q), NEW evts, NEW ids, Len(ids) \in Nat, NEW at \in Points(q, ids),
         \A b \in Points(q, ids) : Rank(q, ids, b) < Rank(q, ids, at) => Exact(q, evts, ids, b)
  PROVE  Exact(q, evts, ids, at)
<1> DEFINE E == {ids[i] : i \in 1..Len(ids)}
           list == Lists(q, evts, ids)
           n == Len(q.steps)
           s == at.step
           step == q.steps[s]
           none == <<>>
<1>0. HaveLengths(q, ids)
  BY DEF HaveLengths, IsQuery
<1>1. list[at] = Appended(q, evts, ids, list, at)
  BY <1>0, ListsAppend
<1>2. /\ at.kind \in {"rec", "consume_repeats", "loop"} /\ s \in 1..n + 1 /\ n \in Nat
      /\ at.reps \in Nat /\ at.pos \in 1..Len(ids) + 1 /\ at.first \in 0..Len(ids)
  BY <1>0, PointFields DEF IsQuery
<1>3. none \in Seq(Seq(E)) /\ \A path : ~Listed(path, none)
  BY ListedNone
<1> HIDE DEF E, list, none
<1>4. CASE s > n
  <2>1. list[at] = IF at.first = 0 THEN <<>> ELSE << <<>> >>
    BY <1>1, <1>4 DEF Appended
  <2>2. list[at] \in Seq(Seq(E)) /\ \A path : Listed(path, list[at]) <=> at.first # 0 /\ path = <<>>
    BY <2>1, ListedNone
  <2>3. \A path : IsRead(q, evts, ids, at, path) <=> at.first # 0 /\ path = <<>>
    BY <1>4, ReadsOfEnd
  <2> QED BY <2>2, <2>3 DEF Exact, list, E
<1>5. CASE s <= n
  <2> DEFINE rest == list[RestPoint(at)]
  <2>1. rest \in Seq(Seq(E)) /\ \A path : Listed(path, rest) <=> IsRead(q, evts, ids, RestPoint(at), path)
    BY <1>0, <1>5, CallsDescend DEF Exact, list, E
  <2>2. ~(s > n)
    BY <1>2, <1>5
  <2> HIDE DEF rest
  <2>3. CASE at.kind = "rec"
    <3> DEFINE a == IF Optional(step) THEN rest ELSE none
               b == list[ConsumePoint(at)]
    <3>1. b \in Seq(Seq(E)) /\ \A path : Listed(path, b) <=> IsRead(q, evts, ids, ConsumePoint(at), path)
      BY <1>0, <1>5, <2>3, CallsDescend DEF Exact, list, E
    <3>2. list[at] = a \o b
      BY <1>1, <2>2, <2>3 DEF Appended, RestPoint, ConsumePoint, rest, none
    <3>3. a \in Seq(Seq(E)) /\ \A path : Listed(path, a) <=> Optional(step) /\ Listed(path, rest)
      BY <1>3, <2>1
    <3> HIDE DEF a, b
    <3>4. /\ list[at] \in Seq(Seq(E))
          /\ \A path : Listed(path, list[at]) <=> Listed(path, a) \/ Listed(path, b)
      BY <3>1, <3>2, <3>3, ListedConcat
    <3>5. ASSUME NEW path
          PROVE  IsRead(q, evts, ids, ConsumePoint(at), path) <=> IsRead(q, evts, ids, at, path)
      BY <1>5, <2>3, ReadsOfRec DEF IsRead
    <3>6. ASSUME NEW path, Optional(step), IsRead(q, evts, ids, RestPoint(at), path)
          PROVE  IsRead(q, evts, ids, at, path)
      <4>1. 0 >= step.min_repeats
        BY <3>6 DEF Optional
      <4>2. \E len, p, c : Reads(q, evts, ids, at, len, p, c) /\ path = PathOf(ids, len, p)
        <5>1. at.kind # "loop" /\ at.step <= Len(q.steps) /\ 0 = IF at.kind = "rec" THEN 0 ELSE at.reps
          BY <1>5, <2>3
        <5>2. IsRead(q, evts, ids, RestPoint(at), path) /\ 0 >= q.steps[at.step].min_repeats
          BY <3>6, <4>1
        <5>4. IsRead(q, evts, ids, RestPoint(at), path) /\ 0 >= q.steps[at.step].min_repeats
                <=> ReadAlone(q, evts, ids, at, path)
          BY <5>1, ReadWithNone
        <5> QED BY <5>2, <5>4 DEF ReadAlone
      <4> QED BY <4>2 DEF IsRead
    <3> QED BY <2>1, <3>1, <3>3, <3>4, <3>5, <3>6 DEF Exact, list, E
  <2>4. CASE at.kind = "consume_repeats"
    <3> DEFINE a == IF at.reps >= step.min_repeats THEN rest ELSE none
               loop == list[LoopPoint(at)]
               b == IF MayRepeat(step, at.reps) THEN loop ELSE none
    <3>1. loop \in Seq(Seq(E)) /\ \A path : Listed(path, loop) <=> IsRead(q, evts, ids, LoopPoint(at), path)
      BY <1>0, <1>5, <2>4, CallsDescend DEF Exact, list, E
    <3>2. list[at] = a \o b
      BY <1>1, <2>2, <2>4 DEF Appended, RestPoint, LoopPoint, rest, none
    <3>3. /\ a \in Seq(Seq(E))
          /\ \A path : Listed(path, a) <=> at.reps >= step.min_repeats /\ Listed(path, rest)
      BY <1>3, <2>1
    <3>4. b \in Seq(Seq(E)) /\ \A path : Listed(path, b) <=> MayRepeat(step, at.reps) /\ Listed(path, loop)
      BY <1>3, <3>1
    <3> HIDE DEF a, b, loop
    <3>5. /\ list[at] \in Seq(Seq(E))
          /\ \A path : Listed(path, list[at]) <=> Listed(path, a) \/ Listed(path, b)
      BY <3>2, <3>3, <3>4, ListedConcat
    <3>6. ASSUME NEW path
          PROVE  Listed(path, a) <=> ReadAlone(q, evts, ids, at, path)
      <4>1. at.kind # "loop" /\ at.step <= Len(q.steps)
            /\ at.reps = IF at.kind = "rec" THEN 0 ELSE at.reps
        BY <1>5, <2>4
      <4>2. IsRead(q, evts, ids, RestPoint(at), path) /\ at.reps >= q.steps[at.step].min_repeats
              <=> ReadAlone(q, evts, ids, at, path)
        BY <4>1, ReadWithNone
      <4> QED BY <2>1, <3>3, <4>2
    <3>7. ASSUME NEW path
          PROVE  Listed(path, b) <=>
                   \E len, p, c : /\ Reads(q, evts, ids, at, len, p, c) /\ c[s + 1] # 0
                                  /\ path = PathOf(ids, len, p)
      <4>1. \A len, p, c :
              Reads(q, evts, ids, LoopPoint(at), len, p, c) /\ MayRepeat(q.steps[at.step], at.reps)
                <=> Reads(q, evts, ids, at, len, p, c) /\ c[at.step + 1] # 0
        BY <1>5, <2>4, ReadsOfConsume
      <4>2. Listed(path, b) <=> /\ MayRepeat(q.steps[at.step], at.reps)
                                /\ IsRead(q, evts, ids, LoopPoint(at), path)
        BY <3>1, <3>4
      <4> QED BY <4>1, <4>2 DEF IsRead
    <3>8. ASSUME NEW path
          PROVE  Listed(path, list[at]) <=> IsRead(q, evts, ids, at, path)
      BY <3>5, <3>6, <3>7 DEF IsRead, ReadAlone
    <3> QED BY <3>5, <3>8 DEF Exact, list, E
  <2>5. CASE at.kind = "loop"
    <3>1. CASE at.pos > Len(ids)
      <4>1. list[at] = none
        BY <1>1, <2>2, <2>5, <3>1 DEF Appended, none
      <4>2. \A path : ~IsRead(q, evts, ids, at, path)
        <5>1. \A len, p, c : Reads(q, evts, ids, at, len, p, c) => at.pos <= Len(ids)
          BY <1>5, <2>5, ReadsOfLoop
        <5>2. ~(at.pos <= Len(ids))
          BY <1>2, <3>1
        <5> QED BY <5>1, <5>2 DEF IsRead
      <4> QED BY <1>3, <4>1, <4>2 DEF Exact, list, E
    <3>2. CASE at.pos <= Len(ids)
      <4> DEFINE x == ids[at.pos]
                 take == MayTake(q, evts, ids, step, at.pos, at.first)
                 taken == list[TakenPoint(at)]
                 front == InFront(x, taken)
                 a == IF take THEN front ELSE none
                 b == list[NextPoint(at)]
      <4>1. /\ taken \in Seq(Seq(E)) /\ b \in Seq(Seq(E))
            /\ \A path : Listed(path, taken) <=> IsRead(q, evts, ids, TakenPoint(at), path)
            /\ \A path : Listed(path, b) <=> IsRead(q, evts, ids, NextPoint(at), path)
        BY <1>0, <1>5, <2>5, <3>2, CallsDescend DEF Exact, list, E
      <4>2. ~(at.pos > Len(ids)) /\ x \in E
        BY <1>2, <3>2 DEF E
      <4>3. list[at] = a \o b
        BY <1>1, <2>2, <2>5, <4>2 DEF Appended, TakenPoint, NextPoint, InFront, none
      <4>4. /\ front \in Seq(Seq(E))
            /\ \A path : Listed(path, front) <=> \E r : Listed(r, taken) /\ path = <<x>> \o r
        <5> HIDE DEF taken, x
        <5>1. taken \in Seq(Seq(E)) /\ x \in E
          BY <4>1, <4>2
        <5>2. InFront(x, taken) \in Seq(Seq(E))
          BY <5>1, ListedInFront
        <5>3. ASSUME NEW path
              PROVE  Listed(path, InFront(x, taken)) <=> HasInFront(path, x, taken)
          BY <5>1, ListedInFront
        <5> QED BY <5>2, <5>3 DEF HasInFront
      <4> HIDE DEF front
      <4>5. a \in Seq(Seq(E)) /\ \A path : Listed(path, a) <=> take /\ Listed(path, front)
        BY <1>3, <4>4
      <4> HIDE DEF a, b, x, take, taken
      <4>6. /\ list[at] \in Seq(Seq(E))
            /\ \A path : Listed(path, list[at]) <=> Listed(path, a) \/ Listed(path, b)
        BY <4>1, <4>3, <4>5, ListedConcat
      <4>7. ASSUME NEW path
            PROVE  Listed(path, b) <=>
                     \E len, p, c : /\ Reads(q, evts, ids, at, len, p, c) /\ p[1] # at.pos
                                    /\ path = PathOf(ids, len, p)
        <5>1. \A len, p, c : Reads(q, evts, ids, NextPoint(at), len, p, c)
                               <=> Reads(q, evts, ids, at, len, p, c) /\ p[1] # at.pos
          BY <1>5, <2>5, ReadsOfLoop
        <5> QED BY <4>1, <5>1 DEF IsRead
      <4>8. ASSUME NEW path, Listed(path, a)
            PROVE  IsRead(q, evts, ids, at, path)
        <5>1. PICK l, r, d : /\ Reads(q, evts, ids, TakenPoint(at), l, r, d)
                             /\ path = <<x>> \o PathOf(ids, l, r)
          <6>1. PICK tail : Listed(tail, taken) /\ path = <<x>> \o tail
            BY <4>4, <4>5, <4>8
          <6>2. IsRead(q, evts, ids, TakenPoint(at), tail)
            BY <4>1, <6>1
          <6> QED BY <6>1, <6>2 DEF IsRead
        <5>2. take
          BY <4>5, <4>8
        <5>3. IsRead(q, evts, ids, at, <<ids[at.pos]>> \o PathOf(ids, l, r))
          <6>1. MayTake(q, evts, ids, q.steps[at.step], at.pos, at.first)
            BY <5>2 DEF take
          <6>2. at.step <= Len(q.steps)
            BY <1>5
          <6>3. Reads(q, evts, ids, TakenPoint(at), l, r, d)
            BY <5>1
          <6> QED BY <2>5, <3>2, <6>1, <6>2, <6>3, ReadsOfTaken
        <5> QED BY <5>1, <5>3 DEF x
      <4>9. ASSUME NEW path, NEW len, NEW p, NEW c, Reads(q, evts, ids, at, len, p, c),
                   p[1] = at.pos, path = PathOf(ids, len, p)
            PROVE  Listed(path, a)
        <5>1. take /\ ReadInFront(q, evts, ids, at, x, path)
          <6>1. at.step <= Len(q.steps)
            BY <1>5
          <6>2. /\ MayTake(q, evts, ids, q.steps[at.step], at.pos, at.first)
                /\ ReadInFront(q, evts, ids, at, ids[at.pos], PathOf(ids, len, p))
            BY <2>5, <4>9, <6>1, TakenOfReads
          <6> QED BY <4>9, <6>2 DEF take, x
        <5>2. \E r : IsRead(q, evts, ids, TakenPoint(at), r) /\ path = <<x>> \o r
          BY <5>1 DEF IsRead, ReadInFront
        <5> QED BY <4>1, <4>4, <4>5, <5>1, <5>2
      <4>10. ASSUME NEW path
             PROVE  Listed(path, list[at]) <=> IsRead(q, evts, ids, at, path)
        <5>1. ASSUME IsRead(q, evts, ids, at, path) PROVE Listed(path, a) \/ Listed(path, b)
          <6>1. PICK len, p, c : Reads(q, evts, ids, at, len, p, c) /\ path = PathOf(ids, len, p)
            BY <5>1 DEF IsRead
          <6> QED BY <4>7, <4>9, <6>1
        <5>2. ASSUME Listed(path, b) PROVE IsRead(q, evts, ids, at, path)
          BY <4>7, <5>2 DEF IsRead
        <5> QED BY <4>6, <4>8, <5>1, <5>2
      <4> QED BY <4>6, <4>10 DEF Exact, list, E
    <3> QED BY <1>2, <3>1, <3>2
  <2> QED BY <1>2, <2>3, <2>4, <2>5
<1> QED
  BY <1>2, <1>4, <1>5

LEMMA ListsAreExact ==
  ASSUME NEW q, IsQuery(q), NEW evts, NEW ids, Len(ids) \in Nat, NEW at \in Points(q, ids)
  PROVE  Exact(q, evts, ids, at)
<1> DEFINE Bad == {b \in Points(q, ids) : ~Exact(q, evts, ids, b)}
           Ranks == {Rank(q, ids, b) : b \in Bad}
<1> SUFFICES ASSUME Bad # {} PROVE FALSE
  OBVIOUS
<1>1. Ranks \subseteq Nat /\ Ranks # {}
  <2>1. ASSUME NEW b \in Points(q, ids) PROVE Rank(q, ids, b) \in Nat
    BY PointFields, RankNat DEF HaveLengths, IsQuery, Rank
  <2> QED BY <2>1
<1>2. PICK r \in Ranks : \A x \in Ranks : r <= x
  BY <1>1, LeastRank
<1>3. PICK b \in Bad : Rank(q, ids, b) = r
  BY <1>2
<1>4. \A x \in Points(q, ids) : Rank(q, ids, x) < Rank(q, ids, b) => Exact(q, evts, ids, x)
  <2> TAKE x \in Points(q, ids)
  <2> HAVE Rank(q, ids, x) < Rank(q, ids, b)
  <2>1. Rank(q, ids, x) \in Nat
    BY PointFields, RankNat DEF HaveLengths, IsQuery, Rank
  <2>2. Rank(q, ids, x) \notin Ranks
    <3> HIDE DEF Ranks
    <3>1. r \in Nat /\ Rank(q, ids, x) < r
      BY <1>1, <1>3
    <3> QED BY <1>2, <2>1, <3>1
  <2> QED BY <2>2
<1>5. Exact(q, evts, ids, b)
  BY <1>4, ExactStep
<1> QED
  BY <1>5

-----------------------------------------------------------------------------
(* The paths that are listed are those the pattern means.                  *)

Meant(q, evts, ids, p) == p \in Chains(q, evts, ids) /\ Fits(q, evts, ids, p)
PathAt(ids, p) == [j \in DOMAIN p |-> ids[p[j]]]

LEMMA MeaningOf ==
  ASSUME NEW q, NEW evts, NEW ids, NEW path
  PROVE  path \in Meaning(q, evts, ids) <=> \E p : Meant(q, evts, ids, p) /\ path = PathAt(ids, p)
BY DEF Meaning, Meant, PathAt

\* Positions in order are no more than there are.
LEMMA InOrderIsShort ==
  ASSUME NEW len \in Nat, NEW m \in Nat, NEW p \in [1..len -> 1..m], InOrder(len, p)
  PROVE  len <= m
<1>1. \A i, j \in 1..len : i # j => p[i] # p[j]
  <2> TAKE i, j \in 1..len
  <2> HAVE i # j
  <2>1. p[i] \in 1..m /\ p[j] \in 1..m
    OBVIOUS
  <2>2. CASE i < j
    BY <2>1, <2>2 DEF InOrder
  <2>3. CASE j < i
    BY <2>1, <2>3 DEF InOrder
  <2> QED BY <2>2, <2>3
<1>2. p \in Injection(1..len, 1..m)
  BY <1>1 DEF Injection, IsInjective
<1>3. /\ IsFiniteSet(1..m) /\ Cardinality(1..m) = m /\ Cardinality(1..len) = len
  BY FS_Interval
<1> QED
  BY <1>2, <1>3, FS_Injection

\* A function on 1..len is a sequence of that length.
LEMMA PositionsLen ==
  ASSUME NEW len \in Nat, NEW S, NEW p \in [1..len -> S]
  PROVE  p \in Seq(S) /\ Len(p) = len /\ DOMAIN p = 1..len
OBVIOUS

LEMMA ReadIsMeant ==
  ASSUME NEW q, IsQuery(q), NEW evts, NEW ids, InTime(evts, ids),
         NEW len, NEW p, NEW c, Reads(q, evts, ids, Point("rec", 1, 0, 1, 0), len, p, c)
  PROVE  Meant(q, evts, ids, p) /\ PathOf(ids, len, p) = PathAt(ids, p)
<1> DEFINE n == Len(q.steps)
           m == Len(ids)
           at == Point("rec", 1, 0, 1, 0)
<1>1. at.kind = "rec" /\ at.step = 1 /\ at.reps = 0 /\ at.pos = 1 /\ at.first = 0
  BY DEF Point
<1>2. n \in Nat /\ m \in Nat /\ DOMAIN ids = 1..m /\ m = Len(ids) /\ n = Len(q.steps)
  BY DEF IsQuery, InTime
<1> HIDE DEF n, m, at
<1>3. /\ len \in Nat /\ len # 0 /\ p \in [1..len -> 1..m] /\ InOrder(len, p)
      /\ Parted(q, at, len, c) /\ Counted(q, at, c) /\ Typed(q, evts, ids, at, p, c)
      /\ Timely(q, evts, ids, at, len, p)
  BY <1>1, <1>2 DEF Reads, at
<1>4. Len(p) = len /\ DOMAIN p = 1..len
  BY <1>3, PositionsLen
<1>5. p \in Chains(q, evts, ids)
  <2>1. len \in DOMAIN ids
    BY <1>2, <1>3, InOrderIsShort
  <2>2. p \in UNION {[1..k -> DOMAIN ids] : k \in DOMAIN ids}
    BY <1>2, <1>3, <2>1
  <2>3. Near(q, evts, ids, p[1], p[len])
    BY <1>1, <1>3 DEF Timely, Begin
  <2>4. evts[ids[p[len]]].event_time_ms - evts[ids[p[1]]].event_time_ms <= q.within_ms
    BY <2>3 DEF Near
  <2> QED BY <1>3, <1>4, <2>2, <2>4 DEF Chains, InOrder
<1>6. Fits(q, evts, ids, p)
  <2>1. /\ c \in [1..n + 1 -> 0..len] /\ c[1] = 0 /\ c[n + 1] = len
        /\ \A j, k \in 1..n + 1 : j <= k => c[j] <= c[k]
    BY <1>1, <1>2, <1>3 DEF Parted
  <2>2. ASSUME NEW k \in 1..n
        PROVE  /\ \A j \in c[k] + 1..c[k + 1] : evts[ids[p[j]]].event_type \in q.steps[k].aliases
               /\ c[k + 1] - c[k] >= q.steps[k].min_repeats
               /\ \/ q.steps[k].max_repeats = Unlimited
                  \/ c[k + 1] - c[k] <= q.steps[k].max_repeats
    <3>1. \A j \in c[k] + 1..c[k + 1] : OfStep(q, evts, ids, k, p[j])
      BY <1>1, <1>2, <1>3 DEF Typed
    <3>2. c[k] \in Nat /\ c[k + 1] \in Nat /\ (k = 1 => c[k] = 0)
      <4>1. k \in 1..n + 1 /\ k + 1 \in 1..n + 1
        BY <1>2
      <4>2. c[k] \in 0..len /\ c[k + 1] \in 0..len
        BY <2>1, <4>1
      <4> QED BY <1>3, <2>1, <4>2
    <3>3. Enough(q, k, "rec", 0, c[k + 1] - c[k])
      <4>1. CASE k = 1
        <5>1. Enough(q, k, "rec", 0, c[k + 1])
          BY <1>1, <1>2, <1>3, <4>1 DEF Counted
        <5>2. c[k + 1] - c[k] = c[k + 1]
          BY <3>2, <4>1
        <5> QED BY <5>1, <5>2
      <4>2. CASE k # 1
        BY <1>1, <1>2, <1>3, <4>2 DEF Counted
      <4> QED BY <4>1, <4>2
    <3>4. /\ q.steps[k].min_repeats \in Nat /\ q.steps[k].max_repeats \in Nat \cup {Unlimited}
      BY <1>2 DEF IsQuery
    <3>5. c[k + 1] - c[k] \in Int /\ 0 + (c[k + 1] - c[k]) = c[k + 1] - c[k]
      BY <3>2
    <3>6. /\ c[k + 1] - c[k] >= q.steps[k].min_repeats
          /\ \/ q.steps[k].max_repeats = Unlimited
             \/ c[k + 1] - c[k] <= q.steps[k].max_repeats
             \/ c[k + 1] - c[k] = 0
      BY <3>3, <3>5 DEF Enough
    <3> QED BY <3>1, <3>4, <3>5, <3>6 DEF OfStep
  <2> QED BY <1>2, <1>4, <2>1, <2>2 DEF Fits
<1> QED
  BY <1>4, <1>5, <1>6 DEF Meant, PathOf, PathAt

LEMMA MeantIsRead ==
  ASSUME NEW q, IsQuery(q), NEW evts, NEW ids, InTime(evts, ids),
         NEW p, Meant(q, evts, ids, p)
  PROVE  IsRead(q, evts, ids, Point("rec", 1, 0, 1, 0), PathAt(ids, p))
<1> DEFINE n == Len(q.steps)
           m == Len(ids)
           at == Point("rec", 1, 0, 1, 0)
<1>1. at.kind = "rec" /\ at.step = 1 /\ at.reps = 0 /\ at.pos = 1 /\ at.first = 0
  BY DEF Point
<1>2. n \in Nat /\ m \in Nat /\ DOMAIN ids = 1..m /\ m = Len(ids) /\ n = Len(q.steps)
  BY DEF IsQuery, InTime
<1> HIDE DEF n, m, at
<1>3. PICK len \in 1..m : p \in [1..len -> 1..m]
  BY <1>2 DEF Meant, Chains
<1>4. len \in Nat /\ len # 0 /\ Len(p) = len /\ DOMAIN p = 1..len
  BY <1>2, <1>3, PositionsLen
<1>5. /\ InOrder(len, p)
      /\ evts[ids[p[len]]].event_time_ms - evts[ids[p[1]]].event_time_ms <= q.within_ms
  BY <1>4 DEF Meant, Chains, InOrder
<1>6. PICK c \in [1..n + 1 -> 0..len] :
        /\ c[1] = 0 /\ c[n + 1] = len
        /\ \A j, k \in 1..n + 1 : j <= k => c[j] <= c[k]
        /\ \A k \in 1..n :
             /\ \A j \in c[k] + 1..c[k + 1] : evts[ids[p[j]]].event_type \in q.steps[k].aliases
             /\ c[k + 1] - c[k] >= q.steps[k].min_repeats
             /\ \/ q.steps[k].max_repeats = Unlimited
                \/ c[k + 1] - c[k] <= q.steps[k].max_repeats
  BY <1>2, <1>4 DEF Meant, Fits
<1>7. Parted(q, at, len, c)
  BY <1>1, <1>2, <1>6 DEF Parted
<1>8. Counted(q, at, c)
  <2> SUFFICES ASSUME NEW k \in 1..n
               PROVE  /\ k = 1 => Enough(q, k, "rec", 0, c[k + 1])
                      /\ k # 1 => Enough(q, k, "rec", 0, c[k + 1] - c[k])
    BY <1>1, <1>2 DEF Counted
  <2>1. c[k] \in Nat /\ c[k + 1] \in Nat /\ (k = 1 => c[k] = 0)
    <3>1. k \in 1..n + 1 /\ k + 1 \in 1..n + 1
      BY <1>2
    <3>2. c[k] \in 0..len /\ c[k + 1] \in 0..len
      BY <1>6, <3>1
    <3> QED BY <1>4, <1>6, <3>2
  <2>2. c[k + 1] - c[k] \in Int /\ 0 + (c[k + 1] - c[k]) = c[k + 1] - c[k]
    BY <2>1
  <2>3. Enough(q, k, "rec", 0, c[k + 1] - c[k])
    BY <1>6, <2>2 DEF Enough
  <2>4. k = 1 => c[k + 1] - c[k] = c[k + 1]
    BY <2>1
  <2> QED BY <2>3, <2>4
<1>9. Typed(q, evts, ids, at, p, c)
  BY <1>1, <1>2, <1>6 DEF Typed, OfStep
<1>10. Timely(q, evts, ids, at, len, p)
  <2> SUFFICES ASSUME NEW j \in 1..len PROVE Near(q, evts, ids, p[1], p[j])
    BY <1>1 DEF Timely, Begin
  <2> DEFINE time(i) == evts[ids[i]].event_time_ms
  <2>1. p[1] \in 1..m /\ p[j] \in 1..m /\ p[len] \in 1..m
    BY <1>3, <1>4
  <2>2. \A i \in 1..m : time(i) \in Int
    BY <1>2 DEF InTime
  <2>3. \A h, i \in 1..m : h < i => time(h) <= time(i)
    BY <1>2 DEF InTime
  <2>4. (1 = j \/ p[1] < p[j]) /\ (j = len \/ p[j] < p[len])
    BY <1>3, <1>4, <1>5 DEF InOrder
  <2>5. time(p[len]) - time(p[1]) <= q.within_ms
    BY <1>5
  <2>6. q.within_ms \in Int
    BY DEF IsQuery
  <2> SUFFICES 0 <= time(p[j]) - time(p[1]) /\ time(p[j]) - time(p[1]) <= q.within_ms
    BY DEF Near
  <2> HIDE DEF time
  <2>7. time(p[1]) <= time(p[j])
    BY <2>1, <2>2, <2>3, <2>4
  <2>8. time(p[j]) <= time(p[len])
    BY <2>1, <2>2, <2>3, <2>4
  <2>9. time(p[1]) \in Int /\ time(p[j]) \in Int /\ time(p[len]) \in Int
    BY <2>1, <2>2
  <2> QED BY <2>5, <2>6, <2>7, <2>8, <2>9
<1>11. Reads(q, evts, ids, at, len, p, c)
  BY <1>1, <1>2, <1>3, <1>4, <1>5, <1>7, <1>8, <1>9, <1>10 DEF Reads
<1>12. PathAt(ids, p) = PathOf(ids, len, p)
  BY <1>4 DEF PathOf, PathAt
<1> QED
  BY <1>11, <1>12 DEF IsRead, at

\* The search without a limit finds the paths that the pattern means.
LEMMA ListingIsMeaning ==
  ASSUME NEW q, IsQuery(q), NEW evts, NEW ids, InTime(evts, ids)
  PROVE  ToSet(Listing(q, evts, ids)) = Meaning(q, evts, ids)
<1> DEFINE at == Point("rec", 1, 0, 1, 0)
<1>1. HaveLengths(q, ids) /\ Len(ids) \in Nat
  BY DEF IsQuery, InTime, HaveLengths
<1>2. at \in Points(q, ids)
  <2>1. 1 \in 1..Len(q.steps) + 1 /\ 1 \in 1..Len(ids) + 1 /\ 0 \in 0..Len(ids)
    BY <1>1 DEF HaveLengths
  <2> QED BY <1>1, <2>1 DEF Point, Points
<1>3. Exact(q, evts, ids, at)
  BY <1>1, <1>2, ListsAreExact
<1>4. \A path : path \in ToSet(Listing(q, evts, ids)) <=> IsRead(q, evts, ids, at, path)
  BY <1>3, ListingIsListed DEF Exact, Listed, ToSet
<1>5. ASSUME NEW path, IsRead(q, evts, ids, at, path) PROVE path \in Meaning(q, evts, ids)
  <2>1. PICK len, p, c : Reads(q, evts, ids, at, len, p, c) /\ path = PathOf(ids, len, p)
    BY <1>5 DEF IsRead
  <2>2. Meant(q, evts, ids, p) /\ PathOf(ids, len, p) = PathAt(ids, p)
    BY <2>1, ReadIsMeant
  <2> QED BY <2>1, <2>2, MeaningOf
<1>6. ASSUME NEW path, path \in Meaning(q, evts, ids) PROVE IsRead(q, evts, ids, at, path)
  <2>1. PICK p : Meant(q, evts, ids, p) /\ path = PathAt(ids, p)
    BY <1>6, MeaningOf
  <2> QED BY <2>1, MeantIsRead
<1> QED
  BY <1>4, <1>5, <1>6

-----------------------------------------------------------------------------
(* Sorting, and the candidates.                                            *)

IsOrder(S, less) ==
  /\ \A x \in S : <<x, x>> \notin less
  /\ \A x, y, z \in S : <<x, y>> \in less /\ <<y, z>> \in less => <<x, z>> \in less
  /\ \A x, y \in S : x = y \/ <<x, y>> \in less \/ <<y, x>> \in less

\* Each member of a finite set in an order has its place by the number of
\* those before it.
LEMMA RankedInOrder ==
  ASSUME NEW S, IsFiniteSet(S), NEW less, IsOrder(S, less),
         NEW n, n = Cardinality(S), NEW R, R = Ranked(S, less)
  PROVE  /\ n \in Nat /\ R \in [1..n -> S]
         /\ \A x \in S : \E j \in 1..n : R[j] = x
         /\ \A j, k \in 1..n : j < k => <<R[j], R[k]>> \in less
<1> DEFINE Before(x) == {y \in S : <<y, x>> \in less}
           rank(x) == Cardinality(Before(x))
<1>1. n \in Nat
  BY FS_CardinalityType
<1>2. ASSUME NEW x \in S
      PROVE  IsFiniteSet(Before(x)) /\ rank(x) \in 0..n - 1
  <2>1. Before(x) \subseteq S \ {x} /\ x \in S
    BY DEF IsOrder
  <2>2. IsFiniteSet(S \ {x}) /\ Cardinality(S \ {x}) = n - 1
    BY FS_RemoveElement
  <2>3. IsFiniteSet(Before(x)) /\ rank(x) <= n - 1
    <3> HIDE DEF Before
    <3> QED BY <2>1, <2>2, FS_Subset
  <2>4. rank(x) \in Nat
    <3> HIDE DEF Before
    <3> QED BY <2>3, FS_CardinalityType
  <2> HIDE DEF rank
  <2> QED BY <1>1, <2>3, <2>4
<1>3. ASSUME NEW x \in S, NEW y \in S, <<x, y>> \in less
      PROVE  rank(x) < rank(y)
  <2>1. Before(x) \subseteq Before(y)
    BY <1>3 DEF IsOrder
  <2>2. x \in Before(y) /\ x \notin Before(x)
    BY <1>3 DEF IsOrder
  <2>3. IsFiniteSet(Before(y)) /\ rank(x) \in Int /\ rank(y) \in Int
    BY <1>2
  <2>4. rank(x) <= rank(y) /\ rank(x) # rank(y)
    <3> HIDE DEF Before
    <3> QED BY <2>1, <2>2, <2>3, FS_Subset
  <2> HIDE DEF rank
  <2> QED BY <2>3, <2>4
<1> HIDE DEF rank
<1>11. \A x \in S : rank(x) \in Int
  <2> TAKE x \in S
  <2>1. rank(x) \in 0..n - 1
    BY <1>2
  <2> QED BY <1>1, <2>1
<1>4. \A x, y \in S : rank(x) = rank(y) => x = y
  <2> TAKE x, y \in S
  <2> HAVE rank(x) = rank(y)
  <2>1. rank(x) \in Int /\ rank(y) \in Int
    BY <1>11
  <2>2. ~(rank(x) < rank(y)) /\ ~(rank(y) < rank(x))
    BY <2>1
  <2> QED BY <2>2, <1>3 DEF IsOrder
<1>5. \A j \in 1..n : \E x \in S : rank(x) = j - 1
  <2> DEFINE f == [x \in S |-> rank(x)]
  <2>1. f \in [S -> 0..n - 1] /\ \A x, y \in S : f[x] = f[y] => x = y
    BY <1>2, <1>4
  <2>2. f \in Injection(S, 0..n - 1)
    <3> HIDE DEF f
    <3> QED BY <2>1 DEF Injection, IsInjective
  <2>3. IsFiniteSet(0..n - 1) /\ Cardinality(0..n - 1) = n
    <3>1. 0 \in Int /\ n - 1 \in Int /\ (IF 0 > n - 1 THEN 0 ELSE n - 1 - 0 + 1) = n
      BY <1>1
    <3> QED BY <3>1, FS_Interval
  <2>4. f \in Surjection(S, 0..n - 1)
    <3> HIDE DEF f
    <3> QED BY <2>2, <2>3, FS_Injection
  <2>5. \A i \in 0..n - 1 : \E x \in S : f[x] = i
    BY <2>4 DEF Surjection
  <2> TAKE j \in 1..n
  <2>6. j - 1 \in 0..n - 1
    BY <1>1
  <2> QED BY <2>5, <2>6
<1>6. R = [j \in 1..n |-> CHOOSE x \in S : rank(x) = j - 1]
  BY DEF Ranked, rank
<1>7. \A j \in 1..n : R[j] \in S /\ rank(R[j]) = j - 1
  BY <1>5, <1>6
<1>8. R \in [1..n -> S]
  BY <1>6, <1>7
<1>9. ASSUME NEW x \in S PROVE \E j \in 1..n : R[j] = x
  <2>1. rank(x) \in 0..n - 1
    BY <1>2
  <2>2. rank(x) + 1 \in 1..n /\ (rank(x) + 1) - 1 = rank(x)
    BY <1>1, <2>1
  <2>3. R[rank(x) + 1] \in S /\ rank(R[rank(x) + 1]) = rank(x)
    BY <1>7, <2>2
  <2> QED BY <1>4, <2>2, <2>3
<1>10. ASSUME NEW j \in 1..n, NEW k \in 1..n, j < k PROVE <<R[j], R[k]>> \in less
  <2>1. rank(R[j]) < rank(R[k]) /\ R[j] \in S /\ R[k] \in S
    BY <1>1, <1>7, <1>10
  <2>2. R[j] # R[k] /\ <<R[k], R[j]>> \notin less
    <3>1. rank(R[j]) \in Int /\ rank(R[k]) \in Int
      BY <1>11, <2>1
    <3>2. ~(rank(R[k]) < rank(R[j])) /\ rank(R[j]) # rank(R[k])
      BY <2>1, <3>1
    <3> QED BY <1>3, <2>1, <3>2
  <2> QED BY <2>1, <2>2 DEF IsOrder
<1> QED
  BY <1>1, <1>8, <1>9, <1>10

Kept(q, evts, ids) == {i \in DOMAIN ids : evts[ids[i]].event_type \in ReferencedTypes(q)}

\* The candidates are the events at the positions kept, in order.
Places(q, evts, ids, n, place) ==
  /\ n \in Nat /\ place \in [1..n -> Kept(q, evts, ids)]
  /\ \A i \in Kept(q, evts, ids) : \E j \in 1..n : place[j] = i
  /\ \A j, k \in 1..n : j < k => place[j] < place[k]
  /\ Candidates(q, evts, ids) = [j \in 1..n |-> ids[place[j]]]

LEMMA CandidatesHavePlaces ==
  ASSUME NEW q, NEW evts, NEW ids, InTime(evts, ids)
  PROVE  \E n, place : Places(q, evts, ids, n, place)
<1> DEFINE K == Kept(q, evts, ids)
           less == {p \in K \X K : p[1] < p[2]}
           n == Cardinality(K)
           place == Ranked(K, less)
<1>1. Len(ids) \in Nat /\ DOMAIN ids = 1..Len(ids)
  BY DEF InTime
<1>2. K \subseteq 1..Len(ids) /\ IsFiniteSet(K)
  <2>1. K \subseteq 1..Len(ids) /\ IsFiniteSet(1..Len(ids))
    BY <1>1, FS_Interval DEF Kept
  <2> HIDE DEF K
  <2> QED BY <2>1, FS_Subset
<1>3. \A x, y \in K : <<x, y>> \in less <=> x < y
  OBVIOUS
<1>4. K \subseteq Int
  BY <1>1, <1>2
<1>5. Candidates(q, evts, ids) = [j \in DOMAIN place |-> ids[place[j]]]
  BY DEF Candidates, Kept
<1> HIDE DEF K, less
<1>6. IsOrder(K, less)
  BY <1>3, <1>4 DEF IsOrder
<1>7. /\ n \in Nat /\ place \in [1..n -> K]
      /\ \A i \in K : \E j \in 1..n : place[j] = i
      /\ \A j, k \in 1..n : j < k => <<place[j], place[k]>> \in less
  BY <1>2, <1>6, RankedInOrder
<1> HIDE DEF n, place
<1>8. \A j, k \in 1..n : j < k => place[j] < place[k]
  BY <1>3, <1>7
<1>9. Places(q, evts, ids, n, place)
  BY <1>5, <1>7, <1>8 DEF Places, K
<1> QED
  BY <1>9

\* The candidates are in the order of their times.
LEMMA CandidatesInTime ==
  ASSUME NEW q, NEW evts, NEW ids, InTime(evts, ids)
  PROVE  /\ InTime(evts, Candidates(q, evts, ids))
         /\ ToSet(Candidates(q, evts, ids)) = {ids[i] : i \in Kept(q, evts, ids)}
<1> DEFINE cand == Candidates(q, evts, ids)
<1>1. PICK n, place : Places(q, evts, ids, n, place)
  BY CandidatesHavePlaces
<1>2. n \in Nat /\ cand = [j \in 1..n |-> ids[place[j]]]
  BY <1>1 DEF Places
<1> HIDE DEF cand
<1>3. \A j \in 1..n : place[j] \in Kept(q, evts, ids) /\ place[j] \in DOMAIN ids
  BY <1>1 DEF Places, Kept
<1>4. \A i \in DOMAIN ids : ids[i] \in DOMAIN evts /\ i \in Int
  BY DEF InTime
<1>5. cand \in Seq(DOMAIN evts) /\ DOMAIN cand = 1..n /\ \A j \in 1..n : cand[j] = ids[place[j]]
  <2>1. \A j \in 1..n : ids[place[j]] \in DOMAIN evts
    BY <1>3, <1>4
  <2> QED BY <1>2, <2>1, IsASeq
<1>6. \A i, j \in 1..n : i < j =>
        evts[cand[i]].event_time_ms <= evts[cand[j]].event_time_ms
  <2> TAKE i, j \in 1..n
  <2> HAVE i < j
  <2>1. place[i] < place[j] /\ place[i] \in DOMAIN ids /\ place[j] \in DOMAIN ids
    BY <1>1, <1>3 DEF Places
  <2> QED BY <1>5, <2>1 DEF InTime
<1>7. InTime(evts, cand)
  BY <1>3, <1>5, <1>6 DEF InTime
<1>8. ToSet(cand) = {ids[i] : i \in Kept(q, evts, ids)}
  <2>1. ToSet(cand) = {cand[j] : j \in 1..n}
    BY <1>5 DEF ToSet
  <2>2. \A i \in Kept(q, evts, ids) : \E j \in 1..n : cand[j] = ids[i]
    BY <1>1, <1>5 DEF Places
  <2> QED BY <1>3, <1>5, <2>1, <2>2
<1> QED
  BY <1>7, <1>8 DEF cand

\* Meaning is about the events at the positions only.
SameEvents(len, cand, r, ids, p) ==
  /\ len \in Nat /\ len # 0 /\ p \in [1..len -> DOMAIN ids] /\ r \in [1..len -> DOMAIN cand]
  /\ \A j \in 1..len : cand[r[j]] = ids[p[j]]

LEMMA MovedIsMeant ==
  ASSUME NEW q, IsQuery(q), NEW evts, NEW ids, NEW cand, InTime(evts, cand),
         NEW len, NEW p, NEW r, SameEvents(len, cand, r, ids, p), InOrder(len, r),
         Meant(q, evts, ids, p)
  PROVE  Meant(q, evts, cand, r) /\ PathAt(cand, r) = PathAt(ids, p)
<1>0. /\ len \in Nat /\ len # 0 /\ p \in [1..len -> DOMAIN ids] /\ r \in [1..len -> DOMAIN cand]
      /\ \A j \in 1..len : cand[r[j]] = ids[p[j]]
  BY DEF SameEvents
<1>1. Len(p) = len /\ DOMAIN p = 1..len /\ Len(r) = len /\ DOMAIN r = 1..len
  BY <1>0, PositionsLen
<1>2. len \in DOMAIN cand
  <2>1. Len(cand) \in Nat /\ DOMAIN cand = 1..Len(cand)
    BY DEF InTime
  <2>2. len <= Len(cand)
    BY <1>0, <2>1, InOrderIsShort
  <2> QED BY <1>0, <2>1, <2>2
<1>3. 1 \in 1..len /\ len \in 1..len
  BY <1>0
<1>4. evts[ids[p[len]]].event_time_ms - evts[ids[p[1]]].event_time_ms <= q.within_ms
  BY <1>1 DEF Meant, Chains
<1>5. r \in Chains(q, evts, cand)
  <2>1. r \in UNION {[1..k -> DOMAIN cand] : k \in DOMAIN cand}
    BY <1>0, <1>2
  <2>2. evts[cand[r[len]]].event_time_ms - evts[cand[r[1]]].event_time_ms <= q.within_ms
    BY <1>0, <1>3, <1>4
  <2> QED BY <1>1, <2>1, <2>2 DEF Chains, InOrder
<1>6. Fits(q, evts, cand, r)
  <2>1. PICK c \in [1..Len(q.steps) + 1 -> 0..len] :
          /\ c[1] = 0 /\ c[Len(q.steps) + 1] = len
          /\ \A j, k \in 1..Len(q.steps) + 1 : j <= k => c[j] <= c[k]
          /\ \A k \in 1..Len(q.steps) :
               /\ \A j \in c[k] + 1..c[k + 1] : evts[ids[p[j]]].event_type \in q.steps[k].aliases
               /\ c[k + 1] - c[k] >= q.steps[k].min_repeats
               /\ \/ q.steps[k].max_repeats = Unlimited
                  \/ c[k + 1] - c[k] <= q.steps[k].max_repeats
    BY <1>1 DEF Meant, Fits
  <2>2. ASSUME NEW k \in 1..Len(q.steps), NEW j \in c[k] + 1..c[k + 1], Len(q.steps) \in Nat
        PROVE  evts[cand[r[j]]].event_type \in q.steps[k].aliases
    <3>1. c[k] \in 0..len /\ c[k + 1] \in 0..len
      <4>1. k \in 1..Len(q.steps) + 1 /\ k + 1 \in 1..Len(q.steps) + 1
        BY <2>2
      <4> QED BY <2>1, <4>1
    <3>2. j \in 1..len
      BY <1>0, <3>1
    <3> QED BY <1>0, <2>1, <3>2
  <2>3. Len(q.steps) \in Nat
    BY DEF IsQuery
  <2> QED BY <1>1, <2>1, <2>2, <2>3 DEF Fits
<1> QED
  BY <1>0, <1>1, <1>5, <1>6 DEF Meant, PathAt

\* Every event of a path is of a type of the query.
LEMMA MeantIsKept ==
  ASSUME NEW q, IsQuery(q), NEW evts, NEW ids, InTime(evts, ids), NEW p,
         Meant(q, evts, ids, p)
  PROVE  \A j \in DOMAIN p : p[j] \in Kept(q, evts, ids)
<1> DEFINE n == Len(q.steps)
           m == Len(ids)
<1>1. n \in Nat /\ m \in Nat /\ DOMAIN ids = 1..m /\ n = Len(q.steps) /\ DOMAIN q.steps = 1..n
  BY DEF IsQuery, InTime
<1> HIDE DEF n, m
<1>2. PICK len \in 1..m : p \in [1..len -> 1..m]
  BY <1>1 DEF Meant, Chains
<1>3. len \in Nat /\ Len(p) = len /\ DOMAIN p = 1..len
  BY <1>1, <1>2, PositionsLen
<1>4. PICK c \in [1..n + 1 -> 0..len] :
        /\ c[1] = 0 /\ c[n + 1] = len
        /\ \A k \in 1..n : \A j \in c[k] + 1..c[k + 1] :
             evts[ids[p[j]]].event_type \in q.steps[k].aliases
  BY <1>1, <1>3 DEF Meant, Fits
<1> TAKE j \in DOMAIN p
<1>5. j \in 1..len
  BY <1>3
<1> DEFINE Up == {k \in 1..n + 1 : j <= c[k]}
<1>6. Up \subseteq Nat /\ n + 1 \in Up
  BY <1>1, <1>3, <1>4, <1>5
<1>7. PICK k \in Up : \A h \in Up : k <= h
  <2> HIDE DEF Up
  <2> QED BY <1>6, LeastRank
<1>8. k \in 1..n + 1 /\ j <= c[k] /\ k # 1
  BY <1>4, <1>5, <1>7
<1>9. k - 1 \in 1..n /\ k - 1 \in 1..n + 1 /\ k - 1 \notin Up /\ (k - 1) + 1 = k
  BY <1>1, <1>7, <1>8, SMTT(30)
<1>10. c[k] \in 0..len /\ c[k - 1] \in 0..len /\ ~(j <= c[k - 1])
  BY <1>4, <1>8, <1>9
<1>11. j \in c[k - 1] + 1..c[k]
  BY <1>3, <1>5, <1>8, <1>10
<1>12. evts[ids[p[j]]].event_type \in q.steps[k - 1].aliases
  BY <1>4, <1>9, <1>11
<1>13. evts[ids[p[j]]].event_type \in ReferencedTypes(q)
  BY <1>1, <1>9, <1>12 DEF ReferencedTypes
<1> QED
  BY <1>1, <1>2, <1>5, <1>13 DEF Kept

\* The pattern means the same for the candidates as for all events.
LEMMA CandidatesMeanTheSame ==
  ASSUME NEW q, IsQuery(q), NEW evts, NEW ids,
         InTime(evts, ids)
  PROVE  Meaning(q, evts, Candidates(q, evts, ids)) = Meaning(q, evts, ids)
<1> DEFINE cand == Candidates(q, evts, ids)
           K == Kept(q, evts, ids)
<1>1. PICK n, place : Places(q, evts, ids, n, place)
  BY CandidatesHavePlaces
<1>2. /\ n \in Nat /\ place \in [1..n -> K] /\ K \subseteq DOMAIN ids
      /\ \A i \in K : \E j \in 1..n : place[j] = i
      /\ \A j, k \in 1..n : j < k => place[j] < place[k]
      /\ cand = [j \in 1..n |-> ids[place[j]]]
  BY <1>1 DEF Places, Kept
<1>3. InTime(evts, cand)
  BY CandidatesInTime
<1> HIDE DEF cand, K
<1>4. /\ DOMAIN cand = 1..n /\ Len(ids) \in Nat /\ DOMAIN ids = 1..Len(ids)
      /\ \A j \in 1..n : cand[j] = ids[place[j]]
  BY <1>2 DEF InTime
<1>5. ASSUME NEW r, Meant(q, evts, cand, r)
      PROVE  \E p : Meant(q, evts, ids, p) /\ PathAt(cand, r) = PathAt(ids, p)
  <2>1. PICK len \in 1..n : r \in [1..len -> 1..n]
    BY <1>4, <1>5 DEF Meant, Chains
  <2>2. len \in Nat /\ len # 0 /\ DOMAIN r = 1..len
    BY <1>2, <2>1
  <2>3. InOrder(len, r)
    BY <1>5, <2>2 DEF Meant, Chains, InOrder
  <2> DEFINE p == [j \in 1..len |-> place[r[j]]]
  <2>4. p \in [1..len -> DOMAIN ids] /\ \A j \in 1..len : ids[p[j]] = cand[r[j]]
    BY <1>2, <1>4, <2>1
  <2>5. InOrder(len, p)
    BY <1>2, <2>1, <2>3 DEF InOrder
  <2> HIDE DEF p
  <2>6. r \in [1..len -> DOMAIN cand]
    BY <1>4, <2>1
  <2>7. Meant(q, evts, ids, p) /\ PathAt(ids, p) = PathAt(cand, r)
    <3>1. SameEvents(len, ids, p, cand, r)
      BY <2>2, <2>4, <2>6 DEF SameEvents
    <3> QED BY <3>1, <1>5, <2>5, MovedIsMeant
  <2> QED BY <2>7
<1>6. ASSUME NEW p, Meant(q, evts, ids, p)
      PROVE  \E r : Meant(q, evts, cand, r) /\ PathAt(cand, r) = PathAt(ids, p)
  <2>1. PICK len \in DOMAIN ids : p \in [1..len -> DOMAIN ids]
    BY <1>6 DEF Meant, Chains
  <2>2. len \in Nat /\ len # 0 /\ DOMAIN p = 1..len
    BY <1>4, <2>1
  <2>3. InOrder(len, p)
    BY <1>6, <2>2 DEF Meant, Chains, InOrder
  <2>4. \A j \in 1..len : p[j] \in K
    BY <1>6, <2>2, MeantIsKept DEF K
  <2> DEFINE r == [j \in 1..len |-> CHOOSE k \in 1..n : place[k] = p[j]]
  <2>5. \A j \in 1..len : r[j] \in 1..n /\ place[r[j]] = p[j]
    BY <1>2, <2>4
  <2>6. r \in [1..len -> 1..n]
    BY <2>5
  <2> HIDE DEF r
  <2>7. InOrder(len, r)
    <3> SUFFICES ASSUME NEW i \in 1..len, NEW j \in 1..len, i < j PROVE r[i] < r[j]
      BY DEF InOrder
    <3>4. i < j
      OBVIOUS
    <3>1. p[i] < p[j] /\ p[i] \in Int /\ p[j] \in Int
      <4>1. p[i] \in DOMAIN ids /\ p[j] \in DOMAIN ids
        BY <2>1
      <4> QED BY <1>4, <2>3, <3>4, <4>1 DEF InOrder
    <3>2. ~(r[j] < r[i]) /\ r[i] # r[j]
      <4>1. ASSUME r[j] < r[i] PROVE FALSE
        <5>1. p[j] < p[i]
          BY <1>2, <2>5, <4>1
        <5> QED BY <3>1, <5>1
      <4>2. ASSUME r[i] = r[j] PROVE FALSE
        <5>1. p[j] = p[i]
          BY <2>5, <4>2
        <5> QED BY <3>1, <5>1
      <4> QED BY <4>1, <4>2
    <3>3. r[i] \in 1..n /\ r[j] \in 1..n
      BY <2>5
    <3> QED BY <1>2, <3>2, <3>3
  <2>8. r \in [1..len -> DOMAIN cand] /\ \A j \in 1..len : cand[r[j]] = ids[p[j]]
    BY <1>4, <2>5, <2>6
  <2>9. Meant(q, evts, cand, r) /\ PathAt(cand, r) = PathAt(ids, p)
    <3>1. SameEvents(len, cand, r, ids, p)
      BY <2>1, <2>2, <2>8 DEF SameEvents
    <3> QED BY <3>1, <1>3, <1>6, <2>7, MovedIsMeant
  <2> QED BY <2>9
<1>7. ASSUME NEW path
      PROVE  path \in Meaning(q, evts, cand) <=> path \in Meaning(q, evts, ids)
  BY <1>5, <1>6, MeaningOf
<1> QED
  BY <1>7 DEF cand

\* The search of the candidates without a limit.
LEMMA CandidatesListed ==
  ASSUME NEW q, IsQuery(q), NEW evts, NEW ids,
         InTime(evts, ids)
  PROVE  ToSet(Listing(q, evts, Candidates(q, evts, ids))) = Meaning(q, evts, ids)
BY CandidatesInTime, CandidatesMeanTheSame, ListingIsMeaning

-----------------------------------------------------------------------------
(* The limit on matches, and the validation of a path.                     *)

\* Of the listed paths the first ones are kept, at most cap.
LEMMA LimitKeepsFirst ==
  ASSUME NEW S, NEW list \in Seq(S), NEW cap \in Nat, NEW kept,
         kept = SubSeq(list, 1, IF Len(list) < cap THEN Len(list) ELSE cap)
  PROVE  /\ ToSet(kept) \subseteq ToSet(list)
         /\ Len(kept) < cap => ToSet(kept) = ToSet(list)
<1> DEFINE len == Len(list)
           k == IF len < cap THEN len ELSE cap
<1>1. len \in Nat /\ DOMAIN list = 1..len /\ k \in 0..len
  BY LenProperties
<1>2. kept = SubSeq(list, 1, k)
  OBVIOUS
<1> HIDE DEF len, k
<1>3. Len(kept) = k /\ DOMAIN kept = 1..k /\ \A i \in 1..k : kept[i] = list[i]
  <2>1. \A i \in 1..k : i \in 1..len /\ i \in DOMAIN list
    BY <1>1
  <2> QED BY <1>1, <1>2, <2>1
<1>4. ToSet(kept) \subseteq ToSet(list)
  BY <1>1, <1>3 DEF ToSet
<1>5. ASSUME Len(kept) < cap PROVE ToSet(kept) = ToSet(list)
  <2>1. k = len
    BY <1>1, <1>3, <1>5 DEF k
  <2> QED BY <1>1, <1>3, <2>1 DEF ToSet
<1> QED
  BY <1>4, <1>5

\* Values are one or differ as their number says.
LEMMA ValuesCounted ==
  ASSUME NEW K, IsFiniteSet(K), NEW v, NEW T, T = {v[j] : j \in K}
  PROVE  /\ Cardinality(T) <= 1 <=> \A j, k \in K : v[j] = v[k]
         /\ Cardinality(T) = Cardinality(K) <=> \A j, k \in K : j # k => v[j] # v[k]
<1> DEFINE f == [j \in K |-> v[j]]
<1>1. f \in Surjection(K, T) /\ (f \in Injection(K, T) <=> \A j, k \in K : j # k => v[j] # v[k])
  BY DEF Surjection, Injection, IsInjective
<1> HIDE DEF f
<1>2. IsFiniteSet(T) /\ (Cardinality(T) = Cardinality(K) <=> f \in Injection(K, T))
  BY <1>1, FS_Surjection
<1>3. Cardinality(T) \in Nat
  BY <1>2, FS_CardinalityType
<1>4. ASSUME Cardinality(T) <= 1 PROVE \A j, k \in K : v[j] = v[k]
  <2>1. CASE Cardinality(T) = 0
    <3>1. T = {}
      BY <1>2, <2>1, FS_EmptySet
    <3> QED BY <3>1
  <2>2. CASE Cardinality(T) = 1
    <3>1. PICK x : T = {x}
      BY <1>2, <2>2, FS_Singleton
    <3> QED BY <3>1
  <2> QED BY <1>3, <1>4, <2>1, <2>2
<1>5. ASSUME \A j, k \in K : v[j] = v[k] PROVE Cardinality(T) <= 1
  <2>1. CASE K = {}
    <3>1. T = {}
      BY <2>1
    <3> QED BY <3>1, FS_EmptySet
  <2>2. CASE K # {}
    <3>1. PICK j \in K : TRUE
      BY <2>2
    <3>2. T = {v[j]}
      BY <1>5, <3>1
    <3>3. Cardinality({v[j]}) = 1
      BY FS_Singleton
    <3> QED BY <3>2, <3>3
  <2> QED BY <2>1, <2>2
<1> QED
  BY <1>1, <1>2, <1>4, <1>5

\* A relation holds on a path where the values are counted so; where it
\* cannot be told, the code raises an exception.
LEMMA RelationIsCounted ==
  ASSUME NEW r, NEW evts, NEW path, IsFiniteSet(DOMAIN path)
  PROVE  /\ Supported(r) => (ValidateRelation(r, evts, path) <=> Agree(r, evts, path))
         /\ ~Supported(r) => /\ ValidateRelation(r, evts, path)
                             /\ RelationRaises(r, evts, path) <=> ~Agree(r, evts, path)
<1> DEFINE value(j) == evts[path[j]].field[r.field]
           held == Held(r, evts, path)
           known == {j \in DOMAIN path : /\ r.steps = {} \/ j - 1 \in r.steps
                                         /\ value(j) # NoValue}
           v == [j \in DOMAIN path |-> value(j)]
           w == [j \in DOMAIN path |-> j]
           T == {value(j) : j \in known}
<1>1. held = known /\ known \subseteq DOMAIN path
  BY DEF Held
<1>2. IsFiniteSet(known)
  <2> HIDE DEF known
  <2> QED BY <1>1, FS_Subset
<1>3. /\ T = {v[j] : j \in known} /\ \A j \in known : v[j] = value(j)
      /\ known = {w[j] : j \in known} /\ \A j \in known : w[j] = j
  OBVIOUS
<1>4. ValidateRelation(r, evts, path) <=>
        \A j, k \in held : /\ r.op = "same" => value(j) = value(k)
                           /\ r.op = "different" /\ j # k => value(j) # value(k)
  BY DEF ValidateRelation
<1>5. RelationRaises(r, evts, path) <=> ~Supported(r) /\ \E j, k \in held : j # k
  BY DEF RelationRaises
<1>6. Agree(r, evts, path) <=> CASE r.op = "same"      -> Cardinality(T) <= 1
                                 [] r.op = "different" -> Cardinality(T) = Cardinality(known)
                                 [] OTHER              -> Cardinality(known) <= 1
  BY DEF Agree
<1> HIDE DEF held, known, v, w, T, value
<1>7. /\ Cardinality(T) <= 1 <=> \A j, k \in known : v[j] = v[k]
      /\ Cardinality(T) = Cardinality(known) <=> \A j, k \in known : j # k => v[j] # v[k]
  BY <1>2, <1>3, ValuesCounted
<1>8. /\ Cardinality(T) <= 1 <=> \A j, k \in known : value(j) = value(k)
      /\ Cardinality(T) = Cardinality(known)
           <=> \A j, k \in known : j # k => value(j) # value(k)
  BY <1>3, <1>7
<1>9. Cardinality(known) <= 1 <=> \A j, k \in known : j = k
  <2>1. Cardinality(known) <= 1 <=> \A j, k \in known : w[j] = w[k]
    BY <1>2, <1>3, ValuesCounted
  <2> QED BY <1>3, <2>1
<1>10. CASE r.op = "same"
  BY <1>1, <1>4, <1>6, <1>8, <1>10 DEF Supported
<1>11. CASE r.op = "different"
  BY <1>1, <1>4, <1>6, <1>8, <1>11 DEF Supported
<1>12. CASE r.op \notin {"same", "different"}
  <2>1. ~Supported(r) /\ ValidateRelation(r, evts, path)
    BY <1>4, <1>12 DEF Supported
  <2>2. Agree(r, evts, path) <=> Cardinality(known) <= 1
    BY <1>6, <1>12
  <2> QED BY <1>1, <1>5, <1>9, <2>1, <2>2
<1> QED
  BY <1>10, <1>11, <1>12

\* A path the pattern means has an event, and its events are known.
LEMMA PathOfMeaning ==
  ASSUME NEW q, NEW evts, NEW ids, InTime(evts, ids),
         NEW path, path \in Meaning(q, evts, ids)
  PROVE  /\ Len(path) \in Nat /\ Len(path) # 0 /\ DOMAIN path = 1..Len(path) /\ path # <<>>
         /\ \A j \in 1..Len(path) : evts[path[j]].event_time_ms \in Int
<1>1. PICK p : Meant(q, evts, ids, p) /\ path = PathAt(ids, p)
  BY MeaningOf
<1>2. Len(ids) \in Nat /\ DOMAIN ids = 1..Len(ids)
  BY DEF InTime
<1>3. PICK len \in DOMAIN ids : p \in [1..len -> DOMAIN ids]
  BY <1>1 DEF Meant, Chains
<1>4. len \in Nat /\ len # 0 /\ DOMAIN p = 1..len
  BY <1>2, <1>3
<1>5. path = [j \in 1..len |-> ids[p[j]]]
  BY <1>1, <1>4 DEF PathAt
<1>6. path \in [1..len -> {ids[i] : i \in DOMAIN ids}]
  BY <1>3, <1>5
<1>7. Len(path) = len /\ DOMAIN path = 1..len
  BY <1>4, <1>6, PositionsLen
<1>8. path # <<>>
  BY <1>4, <1>7
<1>9. \A j \in 1..len : evts[path[j]].event_time_ms \in Int
  BY <1>3, <1>5 DEF InTime
<1> QED
  BY <1>4, <1>7, <1>8, <1>9

\* The events that no candidate stands for are of no forbidden type.
LEMMA AbsenceIsUndisturbed ==
  ASSUME NEW q, IsQuery(q), NEW evts, NEW ids, InTime(evts, ids),
         NEW path, path \in Meaning(q, evts, ids)
  PROVE  ValidateAbsence(q, evts, Candidates(q, evts, ids), path)
           <=> Undisturbed(q, evts, ids, path)
<1> DEFINE cand == Candidates(q, evts, ids)
           start == evts[path[1]].event_time_ms
           end == evts[path[Len(path)]].event_time_ms
           Bad(i, a) == /\ evts[i].partition_key = evts[path[1]].partition_key
                        /\ start <= evts[i].event_time_ms /\ evts[i].event_time_ms <= end
                        /\ a.within_ms = Unlimited \/ evts[i].event_time_ms - start <= a.within_ms
                        /\ evts[i].event_type = a.event_type
           Fine(i, a) == \/ evts[i].event_type # a.event_type
                         \/ evts[i].partition_key # evts[path[1]].partition_key
                         \/ evts[i].event_time_ms \notin start..end
                         \/ a.within_ms # Unlimited
                            /\ evts[i].event_time_ms > start + a.within_ms
<1>1. /\ Len(path) \in Nat /\ Len(path) # 0 /\ DOMAIN path = 1..Len(path) /\ path # <<>>
      /\ \A j \in 1..Len(path) : evts[path[j]].event_time_ms \in Int
  BY PathOfMeaning
<1>2. start \in Int /\ end \in Int
  <2>1. 1 \in 1..Len(path) /\ Len(path) \in 1..Len(path)
    BY <1>1
  <2> QED BY <1>1, <2>1
<1>3. Head(path) = path[1] /\ Last(path) = path[Len(path)]
  BY DEF Last
<1>4. ToSet(ids) = {ids[i] : i \in DOMAIN ids}
  BY DEF ToSet
<1>5. \A i \in ToSet(ids) : evts[i].event_time_ms \in Int
  BY <1>4 DEF InTime
<1>6. \A i : i \in ToSet(cand) <=> i \in ToSet(ids) /\ evts[i].event_type \in ReferencedTypes(q)
  BY <1>4, CandidatesInTime DEF Kept
<1> HIDE DEF cand
<1>7. ASSUME NEW i \in ToSet(ids), NEW a \in q.absence
      PROVE  Fine(i, a) <=> ~Bad(i, a)
  <2> DEFINE t == evts[i].event_time_ms
             w == a.within_ms
  <2>1. t \in Int /\ w \in Int \cup {Unlimited} /\ Unlimited \notin Int
    BY <1>5, MatchAssumption DEF IsQuery
  <2> HIDE DEF t, w, start, end
  <2>2. t \notin start..end <=> ~(start <= t /\ t <= end)
    BY <1>2, <2>1
  <2>3. w # Unlimited /\ t > start + w <=> ~(w = Unlimited \/ t - start <= w)
    BY <1>2, <2>1
  <2> QED BY <2>2, <2>3 DEF t, w
<1>8. \A i \in ToSet(ids) : \A a \in q.absence :
        i \notin ToSet(cand) => Fine(i, a)
  <2> TAKE i \in ToSet(ids)
  <2> TAKE a \in q.absence
  <2> HAVE i \notin ToSet(cand)
  <2>1. evts[i].event_type \notin ReferencedTypes(q)
    BY <1>6
  <2>2. a.event_type \in ReferencedTypes(q)
    <3>1. a.event_type \in {b.event_type : b \in q.absence}
      OBVIOUS
    <3> QED BY <3>1, Zenon DEF ReferencedTypes
  <2> QED BY <2>1, <2>2
<1>9. ValidateAbsence(q, evts, cand, path)
        <=> \A i \in ToSet(cand) \ ToSet(path) : \A a \in q.absence : ~Bad(i, a)
  BY <1>3 DEF ValidateAbsence
<1>10. Undisturbed(q, evts, ids, path)
        <=> \A i \in ToSet(ids) \ ToSet(path) : \A a \in q.absence : Fine(i, a)
  BY DEF Undisturbed
<1> HIDE DEF Bad, Fine
<1> QED
  BY <1>6, <1>7, <1>8, <1>9, <1>10 DEF cand

\* A path that raises no exception is valid where no event disturbs it and
\* its relations hold; one that does raises it over a relation without a
\* meaning.
LEMMA ValidIsMeant ==
  ASSUME NEW q, IsQuery(q), NEW evts, NEW ids, InTime(evts, ids),
         NEW path, path \in Meaning(q, evts, ids)
  PROVE  /\ ~PathRaises(q, evts, Candidates(q, evts, ids), path)
              => (ValidatePath(q, evts, Candidates(q, evts, ids), path)
                    <=> Undisturbed(q, evts, ids, path) /\ Related(q, evts, path))
         /\ PathRaises(q, evts, Candidates(q, evts, ids), path)
              => \E k \in DOMAIN q.relations : ~Supported(q.relations[k])
<1> DEFINE cand == Candidates(q, evts, ids)
           Holds(k) == ValidateRelation(q.relations[k], evts, path)
           Fails(k) == RelationRaises(q.relations[k], evts, path)
           Means(k) == Agree(q.relations[k], evts, path)
           Told(k) == Supported(q.relations[k])
           D == DOMAIN q.relations
<1>1. /\ Len(path) \in Nat /\ DOMAIN path = 1..Len(path) /\ path # <<>>
  BY PathOfMeaning
<1>2. IsFiniteSet(DOMAIN path)
  BY <1>1, FS_Interval
<1>3. \A k \in D : /\ Told(k) => (Holds(k) <=> Means(k))
                   /\ ~Told(k) => Holds(k) /\ (Fails(k) <=> ~Means(k))
  BY <1>2, RelationIsCounted
<1>4. \A k \in D : Fails(k) => ~Told(k)
  BY DEF RelationRaises
<1>5. D = 1..Len(q.relations) /\ Len(q.relations) \in Nat
  BY DEF IsQuery
<1>6. ValidateAbsence(q, evts, cand, path) <=> Undisturbed(q, evts, ids, path)
  BY AbsenceIsUndisturbed
<1>7. /\ ValidatePath(q, evts, cand, path)
           <=> ValidateAbsence(q, evts, cand, path) /\ \A k \in D : Holds(k)
      /\ PathRaises(q, evts, cand, path)
           <=> /\ ValidateAbsence(q, evts, cand, path)
               /\ \E k \in D : Fails(k) /\ \A j \in 1..k - 1 : Holds(j)
      /\ Related(q, evts, path) <=> \A k \in D : Means(k)
  BY <1>1 DEF ValidatePath, PathRaises, Related
<1> HIDE DEF cand, Holds, Fails, Means, D
<1>8. ASSUME ~PathRaises(q, evts, cand, path), Undisturbed(q, evts, ids, path)
      PROVE  (\A k \in D : Holds(k)) <=> (\A k \in D : Means(k))
  <2>1. ASSUME \A k \in D : Means(k) PROVE \A k \in D : Holds(k)
    BY <1>3, <2>1
  <2>2. ASSUME \A k \in D : Holds(k), NEW k \in D PROVE Means(k)
    <3>1. \A j \in 1..k - 1 : j \in D
      BY <1>5
    <3>2. ~Fails(k)
      BY <1>6, <1>7, <1>8, <2>2, <3>1
    <3> QED BY <1>3, <2>2, <3>2
  <2> QED BY <2>1, <2>2
<1>9. PathRaises(q, evts, cand, path) => \E k \in DOMAIN q.relations : ~Supported(q.relations[k])
  BY <1>4, <1>7 DEF D
<1> QED
  BY <1>6, <1>7, <1>8, <1>9 DEF cand

-----------------------------------------------------------------------------
(* One call, with any input.                                               *)

IsInput(in) == IsQuery(in.query) /\ InTime(in.evts, in.ids) /\ in.cap \in Nat

\* What a call answers.
LEMMA AnswersOfCall ==
  ASSUME NEW q, IsQuery(q), NEW evts, NEW ids, InTime(evts, ids), NEW cap \in Nat,
         NEW kept, kept = MatchQueryPaths(q, evts, Candidates(q, evts, ids), cap),
         NEW valid, valid = {path \in Meaning(q, evts, ids) :
                               Undisturbed(q, evts, ids, path) /\ Related(q, evts, path)}
  PROVE  /\ ToSet(kept) \subseteq Meaning(q, evts, ids)
         /\ Len(kept) < cap => ToSet(kept) = Meaning(q, evts, ids)
         /\ ~QueryRaises(q, evts, ids, cap) =>
              /\ QueryPaths(q, evts, ids, cap) \subseteq valid
              /\ Len(kept) < cap => QueryPaths(q, evts, ids, cap) = valid
         /\ QueryRaises(q, evts, ids, cap) => \E k \in DOMAIN q.relations : ~Supported(q.relations[k])
<1> DEFINE cand == Candidates(q, evts, ids)
           list == Listing(q, evts, cand)
           E == {cand[i] : i \in 1..Len(cand)}
           at == Point("rec", 1, 0, 1, 0)
<1>1. InTime(evts, cand)
  BY CandidatesInTime
<1>2. ToSet(list) = Meaning(q, evts, ids)
  BY CandidatesListed
<1>3. list \in Seq(Seq(E))
  <2> HIDE DEF cand
  <2>1. Len(q.steps) \in Nat /\ Len(cand) \in Nat
    BY <1>1 DEF IsQuery, InTime
  <2>2. at \in Points(q, cand)
    <3>1. 1 \in 1..Len(q.steps) + 1 /\ 1 \in 1..Len(cand) + 1 /\ 0 \in 0..Len(cand)
      BY <2>1
    <3> QED BY <2>1, <3>1 DEF Point, Points
  <2>3. Exact(q, evts, cand, at)
    BY <2>1, <2>2, ListsAreExact
  <2> QED BY <2>3, ListingIsListed DEF Exact
<1>4. kept = SubSeq(list, 1, IF Len(list) < cap THEN Len(list) ELSE cap)
  BY DEF MatchQueryPaths
<1>5. /\ QueryPaths(q, evts, ids, cap) = {path \in ToSet(kept) : ValidatePath(q, evts, cand, path)}
      /\ QueryRaises(q, evts, ids, cap)
           <=> \E path \in ToSet(kept) : PathRaises(q, evts, cand, path)
  BY DEF QueryPaths, QueryRaises
<1> HIDE DEF list, E
<1>6. /\ ToSet(kept) \subseteq ToSet(list)
      /\ Len(kept) < cap => ToSet(kept) = ToSet(list)
  BY <1>3, <1>4, LimitKeepsFirst
<1>7. \A path \in Meaning(q, evts, ids) :
        /\ ~PathRaises(q, evts, cand, path) =>
             (ValidatePath(q, evts, cand, path)
                <=> Undisturbed(q, evts, ids, path) /\ Related(q, evts, path))
        /\ PathRaises(q, evts, cand, path) =>
             \E k \in DOMAIN q.relations : ~Supported(q.relations[k])
  BY ValidIsMeant
<1> HIDE DEF cand
<1>8. ASSUME ~QueryRaises(q, evts, ids, cap)
      PROVE  /\ QueryPaths(q, evts, ids, cap) \subseteq valid
             /\ Len(kept) < cap => QueryPaths(q, evts, ids, cap) = valid
  BY <1>2, <1>5, <1>6, <1>7, <1>8
<1>9. QueryRaises(q, evts, ids, cap) => \E k \in DOMAIN q.relations : ~Supported(q.relations[k])
  BY <1>2, <1>5, <1>6, <1>7
<1> QED
  BY <1>2, <1>6, <1>8, <1>9

SearchInv ==
  /\ IsInput(input)
  /\ called =>
       /\ found = MatchQueryPaths(input.query, input.evts,
                                  Candidates(input.query, input.evts, input.ids), input.cap)
       /\ raised = QueryRaises(input.query, input.evts, input.ids, input.cap)
       /\ ~raised => trends = QueryPaths(input.query, input.evts, input.ids, input.cap)

LEMMA SearchInvariant == SearchSpec => []SearchInv
<1>1. SearchInit => SearchInv
  BY InputsAssumption DEF SearchInit, SearchInv, IsInput
<1>2. SearchInv /\ [Call]_searchVars => SearchInv'
  <2> SUFFICES ASSUME SearchInv, [Call]_searchVars PROVE SearchInv'
    OBVIOUS
  <2>1. CASE Call
    BY <2>1 DEF SearchInv, Call
  <2>2. CASE UNCHANGED searchVars
    BY <2>2 DEF SearchInv, searchVars
  <2> QED BY <2>1, <2>2
<1> QED
  BY <1>1, <1>2, PTL DEF SearchSpec

\* For every query the parser makes, every sequence of events in the order of
\* their times and every limit on matches: _match_query_paths finds paths
\* that the pattern means, and below the limit all of them.
THEOREM SearchIsAlwaysExact == SearchSpec => []SearchIsExact
<1>1. SearchInv => SearchIsExact
  <2> SUFFICES ASSUME SearchInv, called PROVE
        /\ ToSet(found) \subseteq Meaning(input.query, input.evts, input.ids)
        /\ Len(found) < input.cap => ToSet(found) = Meaning(input.query, input.evts, input.ids)
    BY DEF SearchIsExact
  <2> QED BY AnswersOfCall DEF SearchInv, IsInput
<1> QED
  BY <1>1, SearchInvariant, PTL

\* Those of them are trends that no forbidden event disturbs and whose events
\* agree or differ as the relations ask, whatever the conditions; the call
\* fails only over a relation that asks for neither.
THEOREM TrendsAreAlwaysValid == SearchSpec => []TrendsAreValid
<1>1. SearchInv => TrendsAreValid
  <2> DEFINE valid == {path \in Meaning(input.query, input.evts, input.ids) :
                         /\ Undisturbed(input.query, input.evts, input.ids, path)
                         /\ Related(input.query, input.evts, path)}
           odd == \E k \in DOMAIN input.query.relations : ~Supported(input.query.relations[k])
  <2> SUFFICES ASSUME SearchInv, called
               PROVE  IF raised THEN odd
                      ELSE trends \subseteq valid /\ (Len(found) < input.cap => trends = valid)
    BY DEF TrendsAreValid
  <2> HIDE DEF valid, odd
  <2> QED BY AnswersOfCall DEF SearchInv, IsInput, valid, odd
<1> QED
  BY <1>1, SearchInvariant, PTL

=============================================================================
