------------------------ MODULE ParallelHcet_proofs ------------------------
(***************************************************************************)
(* Proofs about ParallelHcet: the shards partition the vertices, the       *)
(* blocks of the arena are apart and always fit, the arena outlives the    *)
(* threads, and the merged result is exact - for any number of vertices,   *)
(* threads and matches and any sizes.                                      *)
(***************************************************************************)
EXTENDS ParallelHcet, FiniteSetTheorems, TLAPS

(* Arithmetic: quotients and remainders, and rounding up.                  *)

\* Quotient and remainder.
LEMMA DivMod ==
  ASSUME NEW N \in Nat, NEW d \in Nat \ {0}
  PROVE  /\ N \div d \in Nat
         /\ N % d \in 0..d - 1
         /\ N = d * (N \div d) + (N % d)
  BY Z3

\* A product of naturals is one.
LEMMA Product ==
  ASSUME NEW x \in Nat, NEW y \in Nat
  PROVE  x * y \in Nat
  BY Z3

\* A product grows with its factor.
LEMMA ProductMonotone ==
  ASSUME NEW x \in Int, NEW y \in Int, NEW z \in Nat, x <= y
  PROVE  x * z <= y * z
  BY Z3

\* A multiple has no remainder.
LEMMA MultipleMod ==
  ASSUME NEW q \in Nat, NEW d \in Nat \ {0}
  PROVE  (d * q) % d = 0
<1> DEFINE x == d * q
           p == x \div d
           r == x % d
<1>1. x \in Nat  BY Product
<1>2. p \in Nat /\ r \in 0..d - 1 /\ x = d * p + r  BY <1>1, DivMod
<1>3. d * (q - p) = r  BY <1>2, Z3
<1> HIDE DEF x, p, r
<1>4. CASE q - p >= 1
  <2>1. 1 * d <= (q - p) * d  BY <1>2, <1>4, ProductMonotone
  <2> QED  BY <1>2, <1>3, <2>1, Z3
<1>5. CASE q - p <= -1
  <2>1. (q - p) * d <= (-1) * d  BY <1>2, <1>5, ProductMonotone
  <2> QED  BY <1>2, <1>3, <2>1, Z3
<1>6. CASE q - p = 0
  <2>1. r = 0 BY <1>3, <1>6, <1>2, Z3
  <2> QED  BY <2>1 DEF r, x
<1> QED  BY <1>2, <1>4, <1>5, <1>6

\* Rounding up gives a multiple, at most one alignment further.
LEMMA AlignUpBounds ==
  ASSUME NEW k \in Nat, NEW a \in Nat \ {0}
  PROVE  /\ AlignUp(k, a) \in Nat
         /\ k <= AlignUp(k, a)
         /\ AlignUp(k, a) < k + a
         /\ AlignUp(k, a) % a = 0
<1> DEFINE q == k \div a
           r == k % a
<1>1. q \in Nat /\ r \in 0..a - 1 /\ k = a * q + r  BY DivMod
<1>2. CASE r = 0
  BY <1>1, <1>2 DEF AlignUp
<1>3. CASE r # 0
  <2>1. AlignUp(k, a) = k + (a - r)  BY <1>3 DEF AlignUp
  <2>2. k + (a - r) = a * (q + 1)  BY <1>1, Z3
  <2>3. (a * (q + 1)) % a = 0  BY <1>1, MultipleMod
  <2> QED  BY <1>1, <1>3, <2>1, <2>2, <2>3
<1> QED  BY <1>2, <1>3

----------------------------------------------------------------------------
(* The shards.                                                             *)

\* The ranges cover the vertices, each by one worker.
LEMMA ShardsTile ==
  ASSUME n \in Nat \ {0}
  PROVE  /\ \A w \in 1..n : ShardOf(w) \subseteq 1..NVertices
         /\ \A v \in 1..NVertices :
              \E w \in 1..n : v \in ShardOf(w) /\ \A x \in 1..n : v \in ShardOf(x) => x = w
<1> DEFINE b == NVertices \div n
           r == NVertices % n
           B(w) == (w - 1) * b + Least(w - 1, r)
<1>1. b \in Nat /\ r \in 0..n - 1 /\ NVertices \in Nat /\ NVertices = n * b + r
  BY DivMod, ParallelAssumption
<1>2. ASSUME NEW w \in 1..n
      PROVE  ShardOf(w) = B(w) + 1 .. B(w + 1)
  <2>0. b \in Nat /\ w \in Int /\ w + 1 - 1 = w  BY <1>1
  <2>1. (w + 1 - 1) * b = (w - 1) * b + b
    <3>1. w * b = (w - 1) * b + b  BY <2>0, Z3
    <3> QED  BY <2>0, <3>1
  <2>2. (w - 1) * b \in Int  BY <2>0, Z3
  <2>3. B(w) + b + (IF w <= r THEN 1 ELSE 0) = B(w + 1)
    BY <1>1, <2>1, <2>2 DEF Least
  <2> QED  BY <2>3 DEF ShardOf
<1> HIDE DEF b, r
<1>3. ASSUME NEW w \in 1..n + 1, NEW x \in 1..n + 1, w <= x
      PROVE  B(w) <= B(x) /\ B(w) \in Int /\ B(x) \in Int
  <2>1. (w - 1) * b <= (x - 1) * b
    BY <1>1, <1>3, ProductMonotone
  <2>2. (w - 1) * b \in Int /\ (x - 1) * b \in Int  BY <1>1, Z3
  <2> QED  BY <1>1, <1>3, <2>1, <2>2 DEF Least
<1>4. B(1) = 0 /\ B(n + 1) = NVertices
  <2>1. (1 - 1) * b = 0 /\ (n + 1 - 1) * b = n * b  BY <1>1, Z3
  <2> QED  BY <1>1, <2>1 DEF Least
<1>5. ASSUME NEW w \in 1..n
      PROVE  ShardOf(w) \subseteq 1..NVertices
  <2>1. B(1) <= B(w) /\ B(w) \in Int
    <3>1. 1 \in 1..n + 1 /\ w \in 1..n + 1 /\ 1 <= w  BY <1>1
    <3> QED  BY <1>3, <3>1
  <2>2. B(w + 1) <= B(n + 1) /\ B(w + 1) \in Int
    <3>1. w + 1 \in 1..n + 1 /\ n + 1 \in 1..n + 1 /\ w + 1 <= n + 1  BY <1>1
    <3> QED  BY <1>3, <3>1
  <2>3. ShardOf(w) = B(w) + 1 .. B(w + 1)  BY <1>2
  <2>4. B(w) >= 0 /\ B(w + 1) <= NVertices /\ NVertices \in Int
    BY <1>1, <1>4, <2>1, <2>2
  <2> HIDE DEF B
  <2> QED  BY <2>1, <2>2, <2>3, <2>4
<1>6. ASSUME NEW w \in 1..n, NEW x \in 1..n, w < x
      PROVE  ShardOf(w) \cap ShardOf(x) = {}
  <2>1. B(w + 1) <= B(x) /\ B(w + 1) \in Int /\ B(x) \in Int
    <3>1. w + 1 \in 1..n + 1 /\ x \in 1..n + 1 /\ w + 1 <= x  BY <1>1, <1>6
    <3> QED  BY <1>3, <3>1
  <2>2. B(w) \in Int /\ B(x + 1) \in Int
    <3>1. w \in 1..n + 1 /\ x + 1 \in 1..n + 1 /\ w <= x + 1  BY <1>1, <1>6
    <3> QED  BY <1>3, <3>1
  <2> HIDE DEF B
  <2> QED  BY <1>2, <2>1, <2>2
<1>7. ASSUME NEW v \in 1..NVertices
      PROVE  \E w \in 1..n : v \in ShardOf(w)
  <2>1. CASE v <= r * (b + 1)
    <3> DEFINE c == b + 1
               u == v - 1
               q == u \div c
               m == u % c
    <3>1. q \in Nat /\ m \in 0..b /\ v - 1 = (b + 1) * q + m
      <4>1. u \in Nat /\ c \in Nat \ {0} /\ c - 1 = b  BY <1>1
      <4> HIDE DEF u, c
      <4>2. q \in Nat /\ m \in 0..c - 1 /\ u = c * q + m
        BY <4>1, DivMod
      <4> HIDE DEF q, m
      <4> QED  BY <4>1, <4>2 DEF u, c
    <3> HIDE DEF u, q, m
    <3>2. q < r
      <4>1. SUFFICES ASSUME q >= r PROVE FALSE
        BY <3>1, <1>1
      <4>2. r * (b + 1) <= q * (b + 1)  BY <4>1, <3>1, <1>1, ProductMonotone
      <4>3. q * (b + 1) = (b + 1) * q  BY <3>1, <1>1, Z3
      <4>4. q * (b + 1) \in Int /\ r * (b + 1) \in Int  BY <3>1, <1>1, Z3
      <4> QED  BY <2>1, <3>1, <4>2, <4>3, <4>4, <1>1
    <3>3. q + 1 \in 1..n  BY <3>1, <3>2, <1>1
    <3>4. (b + 1) * q = q * b + q /\ (q + 1) * b = q * b + b /\ q * b \in Int
      BY <3>1, <1>1, Z3
    <3>5. B(q + 1) = q * b + q /\ B(q + 2) = q * b + b + q + 1
      <4>1. (q + 1) - 1 = q /\ (q + 2) - 1 = q + 1  BY <3>1
      <4>2. Least(q, r) = q /\ Least(q + 1, r) = q + 1  BY <3>1, <3>2, <1>1 DEF Least
      <4>3. B(q + 1) = q * b + q
        <5>1. B(q + 1) = ((q + 1) - 1) * b + Least((q + 1) - 1, r)  OBVIOUS
        <5> QED  BY <4>1, <4>2, <5>1, Zenon
      <4>4. B(q + 2) = (q + 1) * b + (q + 1)
        <5>1. B(q + 2) = ((q + 2) - 1) * b + Least((q + 2) - 1, r)  OBVIOUS
        <5> QED  BY <4>1, <4>2, <5>1, Zenon
      <4>5. (q + 1) * b + (q + 1) = q * b + b + q + 1  BY <3>1, <3>4, <1>1
      <4> QED  BY <4>3, <4>4, <4>5
    <3>6. ShardOf(q + 1) = B(q + 1) + 1 .. B(q + 2)
      <4>1. q + 1 + 1 = q + 2  BY <3>1
      <4> QED  BY <1>2, <3>3, <4>1
    <3> HIDE DEF B
    <3> QED  BY <1>1, <3>1, <3>3, <3>4, <3>5, <3>6
  <2>2. CASE v > r * (b + 1)
    <3>1. r * (b + 1) = r * b + r /\ r * b \in Int /\ n * b \in Int  BY <1>1, Z3
    <3>2. b >= 1
      <4>1. SUFFICES ASSUME b = 0 PROVE FALSE  BY <1>1
      <4>2. n * b = 0 /\ r * b = 0  BY <4>1, <1>1, Z3
      <4> QED  BY <2>2, <3>1, <4>2, <1>1
    <3> DEFINE u == v - r * b - r - 1
               q == u \div b
               m == u % b
    <3>3. u \in Nat  BY <2>2, <3>1, <1>1
    <3>4. q \in Nat /\ m \in 0..b - 1 /\ u = b * q + m
      <4>1. b \in Nat \ {0}  BY <3>2, <1>1
      <4> HIDE DEF u
      <4> QED  BY <4>1, <3>3, DivMod
    <3>5. v = r * b + r + 1 + b * q + m /\ b * q \in Int
      <4>1. b * q \in Int  BY <3>4, <1>1, Z3
      <4>2. u = v - r * b - r - 1  OBVIOUS
      <4> HIDE DEF u, q, m
      <4> QED  BY <3>1, <3>3, <3>4, <4>1, <4>2, <1>1
    <3> HIDE DEF u, q, m
    <3>6. r + q < n
      <4>1. SUFFICES ASSUME r + q >= n PROVE FALSE
        BY <3>4, <1>1
      <4>2. n * b <= (r + q) * b  BY <4>1, <3>4, <1>1, ProductMonotone
      <4>3. (r + q) * b = r * b + b * q  BY <3>4, <1>1, Z3
      <4> QED  BY <3>1, <3>4, <3>5, <4>2, <4>3, <1>1
    <3>7. r + q + 1 \in 1..n  BY <3>4, <3>6, <1>1
    <3>8. (r + q + 1 - 1) * b = r * b + b * q /\ (r + q + 2 - 1) * b = r * b + b * q + b
      BY <3>4, <1>1, Z3
    <3>9. B(r + q + 1) = r * b + b * q + r /\ B(r + q + 2) = r * b + b * q + b + r
      BY <3>1, <3>4, <3>5, <3>8, <1>1 DEF Least
    <3>10. ShardOf(r + q + 1) = B(r + q + 1) + 1 .. B(r + q + 2)
      <4>1. r + q + 1 + 1 = r + q + 2  BY <3>4, <1>1
      <4> QED  BY <1>2, <3>7, <4>1
    <3> HIDE DEF B
    <3> QED  BY <1>1, <3>1, <3>4, <3>5, <3>7, <3>9, <3>10
  <2>3. r * (b + 1) \in Int  BY <1>1, Z3
  <2> QED  BY <1>1, <2>1, <2>2, <2>3
<1>8. ASSUME NEW v \in 1..NVertices, NEW w \in 1..n, NEW x \in 1..n,
             v \in ShardOf(w), v \in ShardOf(x)
      PROVE  x = w
  BY <1>6, <1>8
<1> QED  BY <1>5, <1>7, <1>8

----------------------------------------------------------------------------
(* The arena.                                                              *)

\* No block is empty, so none is refused for its size.
LEMMA SizesPositive ==
  ASSUME n \in Nat \ {0}
  PROVE  \A name \in BlockNames : SizeOf(name) \in Nat \ {0}
<1> DEFINE Times(s) == n * s
<1>1. ASSUME NEW s \in Nat \ {0}
      PROVE  n * s \in Nat \ {0}
  <2>1. 1 * s <= n * s  BY ProductMonotone
  <2>2. n * s \in Nat  BY Product
  <2> QED  BY <2>1, <2>2
<1>2. /\ n * ContextBytes \in Nat \ {0} /\ n * ResultBytes \in Nat \ {0}
      /\ n * HandleBytes \in Nat \ {0} /\ n * FlagBytes \in Nat \ {0}
  BY <1>1, ParallelAssumption
<1> QED  BY <1>2 DEF SizeOf, BlockNames

\* Where there is room for the bytes and the alignment a block is cut.
LEMMA CutSucceeds ==
  ASSUME NEW ws, NEW bytes \in Nat \ {0},
         ws.offset \in Nat, ws.capacity \in Nat,
         ws.offset + WordBytes + bytes <= ws.capacity
  PROVE  LET b == Cut(ws, bytes) IN
           /\ b # NoBlock
           /\ b \in [at : Nat, size : Nat] /\ b.size = bytes
           /\ b.at % WordBytes = 0
           /\ ws.offset <= b.at
           /\ b.at + bytes <= ws.offset + WordBytes + bytes
<1> DEFINE at == AlignUp(ws.offset, WordBytes)
<1>1. WordBytes \in Nat \ {0}  BY ParallelAssumption
<1>2. /\ at \in Nat /\ ws.offset <= at
      /\ at < ws.offset + WordBytes /\ at % WordBytes = 0
  BY <1>1, AlignUpBounds
<1> HIDE DEF at
<1>3. ~(at > ws.capacity \/ bytes > ws.capacity - at)
  BY <1>1, <1>2
<1>4. Cut(ws, bytes) = [at |-> at, size |-> bytes]
  BY <1>3 DEF Cut, at
<1> QED  BY <1>1, <1>2, <1>4 DEF NoBlock

\* The offset after a block that was cut.
LEMMA AfterCut ==
  ASSUME NEW ws \in [open : BOOLEAN, capacity : Nat, offset : Nat], ws.open,
         NEW b, b # NoBlock
  PROVE  After(ws, b) = [open |-> TRUE, capacity |-> ws.capacity, offset |-> b.at + b.size]
  BY DEF After

\* The arena opened for n workers takes the four blocks, one after the other.
ArenaReady ==
  /\ arena \in [open : BOOLEAN, capacity : Nat, offset : Nat]
  /\ arena.open
  /\ arena.offset = 0
  /\ arena.capacity >= NeededBytes

\* In an arena as large as asked for all four cuts succeed, and the blocks
\* are apart.
LEMMA FourCutsFit ==
  ASSUME n \in Nat \ {0}, ArenaReady, CutArena
  PROVE  /\ pc' = "create"
         /\ arena' \in [open : BOOLEAN, capacity : Nat, offset : Nat]
         /\ arena'.open /\ arena'.capacity = arena.capacity
         /\ block' \in [BlockNames -> [at : Nat, size : Nat]]
         /\ \A a \in BlockNames :
              /\ block'[a].at % WordBytes = 0
              /\ block'[a].size = SizeOf(a)
              /\ block'[a].at + block'[a].size <= arena.capacity
              /\ \A b \in BlockNames \ {a} :
                   \/ block'[a].at + block'[a].size <= block'[b].at
                   \/ block'[b].at + block'[b].size <= block'[a].at
         /\ shard' = [w \in Workers |-> IF w <= n THEN ShardOf(w) ELSE {}]
<1> DEFINE s1 == SizeOf("workers")
           s2 == SizeOf("results")
           s3 == SizeOf("tids")
           s4 == SizeOf("launched")
           b1 == Cut(arena, s1)
           a1 == After(arena, b1)
           b2 == Cut(a1, s2)
           a2 == After(a1, b2)
           b3 == Cut(a2, s3)
           a3 == After(a2, b3)
           b4 == Cut(a3, s4)
<1>1. /\ s1 \in Nat \ {0} /\ s2 \in Nat \ {0} /\ s3 \in Nat \ {0} /\ s4 \in Nat \ {0}
  BY SizesPositive DEF BlockNames
<1>2. /\ arena.capacity \in Nat /\ arena.offset = 0 /\ arena.open
      /\ arena.capacity >= s1 + s2 + s3 + s4 + 4096
  <2>1. NeededBytes = s1 + s2 + s3 + s4 + 4096  BY DEF NeededBytes, SizeOf
  <2> QED  BY <2>1 DEF ArenaReady
<1>w. WordBytes \in 1..1024  BY ParallelAssumption
<1> HIDE DEF s1, s2, s3, s4
<1>3. /\ b1 # NoBlock /\ b1 \in [at : Nat, size : Nat] /\ b1.size = s1
      /\ b1.at % WordBytes = 0
      /\ b1.at + s1 <= WordBytes + s1
  <2>1. arena.offset + WordBytes + s1 <= arena.capacity  BY <1>1, <1>2, <1>w
  <2> QED  BY <1>1, <1>2, <1>w, <2>1, CutSucceeds
<1> HIDE DEF b1
<1>4. a1 = [open |-> TRUE, capacity |-> arena.capacity, offset |-> b1.at + s1]
  <2>1. arena \in [open : BOOLEAN, capacity : Nat, offset : Nat] /\ arena.open
    BY <1>1, <1>2 DEF ArenaReady
  <2>2. After(arena, b1) = [open |-> TRUE, capacity |-> arena.capacity, offset |-> b1.at + b1.size]
    BY <1>3, <2>1, AfterCut
  <2> QED  BY <1>3, <2>2, <1>2
<1> HIDE DEF a1
<1>5. /\ b2 # NoBlock /\ b2 \in [at : Nat, size : Nat] /\ b2.size = s2
      /\ b2.at % WordBytes = 0
      /\ b1.at + s1 <= b2.at
      /\ b2.at + s2 <= b1.at + s1 + WordBytes + s2
  <2>1. a1.offset \in Nat /\ a1.capacity \in Nat
        /\ a1.offset + WordBytes + s2 <= a1.capacity
    BY <1>1, <1>2, <1>3, <1>4, <1>w
  <2> QED  BY <1>1, <1>4, <2>1, CutSucceeds
<1> HIDE DEF b2
<1>6. a2 = [open |-> TRUE, capacity |-> arena.capacity, offset |-> b2.at + s2]
  <2>1. a1 \in [open : BOOLEAN, capacity : Nat, offset : Nat] /\ a1.open
    BY <1>1, <1>2, <1>3, <1>4, <1>5 DEF ArenaReady
  <2>2. After(a1, b2) = [open |-> TRUE, capacity |-> a1.capacity, offset |-> b2.at + b2.size]
    BY <1>5, <2>1, AfterCut
  <2> QED  BY <1>5, <2>2, <1>4
<1> HIDE DEF a2
<1>7. /\ b3 # NoBlock /\ b3 \in [at : Nat, size : Nat] /\ b3.size = s3
      /\ b3.at % WordBytes = 0
      /\ b2.at + s2 <= b3.at
      /\ b3.at + s3 <= b2.at + s2 + WordBytes + s3
  <2>1. a2.offset \in Nat /\ a2.capacity \in Nat
        /\ a2.offset + WordBytes + s3 <= a2.capacity
    BY <1>1, <1>2, <1>3, <1>5, <1>6, <1>w
  <2> QED  BY <1>1, <1>6, <2>1, CutSucceeds
<1> HIDE DEF b3
<1>8. a3 = [open |-> TRUE, capacity |-> arena.capacity, offset |-> b3.at + s3]
  <2>1. a2 \in [open : BOOLEAN, capacity : Nat, offset : Nat] /\ a2.open
    BY <1>1, <1>2, <1>3, <1>4, <1>5, <1>6, <1>7 DEF ArenaReady
  <2>2. After(a2, b3) = [open |-> TRUE, capacity |-> a2.capacity, offset |-> b3.at + b3.size]
    BY <1>7, <2>1, AfterCut
  <2> QED  BY <1>7, <2>2, <1>6
<1> HIDE DEF a3
<1>9. /\ b4 # NoBlock /\ b4 \in [at : Nat, size : Nat] /\ b4.size = s4
      /\ b4.at % WordBytes = 0
      /\ b3.at + s3 <= b4.at
      /\ b4.at + s4 <= b3.at + s3 + WordBytes + s4
  <2>1. a3.offset \in Nat /\ a3.capacity \in Nat
        /\ a3.offset + WordBytes + s4 <= a3.capacity
    BY <1>1, <1>2, <1>3, <1>5, <1>7, <1>8, <1>w
  <2> QED  BY <1>1, <1>8, <2>1, CutSucceeds
<1>10. After(a3, b4) = [open |-> TRUE, capacity |-> arena.capacity, offset |-> b4.at + s4]
  <2>1. a3 \in [open : BOOLEAN, capacity : Nat, offset : Nat] /\ a3.open
    BY <1>1, <1>2, <1>7, <1>8
  <2> HIDE DEF b4
  <2>2. After(a3, b4) = [open |-> TRUE, capacity |-> a3.capacity, offset |-> b4.at + b4.size]
    BY <1>9, <2>1, AfterCut
  <2> QED  BY <1>8, <1>9, <2>2
<1>11. NoBlock \notin {b1, b2, b3, b4}
  BY <1>3, <1>5, <1>7, <1>9
<1>12. /\ pc' = "create"
       /\ arena' = After(a3, b4)
       /\ block' = [name \in BlockNames |->
                      CASE name = "workers" -> b1
                        [] name = "results" -> b2
                        [] name = "tids"    -> b3
                        [] OTHER            -> b4]
       /\ shard' = [w \in Workers |-> IF w <= n THEN ShardOf(w) ELSE {}]
  BY <1>11 DEF CutArena, b1, a1, b2, a2, b3, a3, s1, s2, s3, s4
<1> HIDE DEF b4
<1>13. /\ block'["workers"] = b1 /\ block'["results"] = b2
       /\ block'["tids"] = b3 /\ block'["launched"] = b4
  BY <1>12 DEF BlockNames
<1>14. /\ b1.size = s1 /\ b2.size = s2 /\ b3.size = s3 /\ b4.size = s4
  BY <1>3, <1>5, <1>7, <1>9
<1>15. \A a \in BlockNames :
              /\ block'[a].at \in Nat /\ block'[a].size \in Nat
              /\ block'[a].at % WordBytes = 0
              /\ block'[a].size = SizeOf(a)
              /\ block'[a].at + block'[a].size <= arena.capacity
  BY <1>1, <1>2, <1>3, <1>5, <1>7, <1>9, <1>13, <1>14, <1>w
     DEF BlockNames, s1, s2, s3, s4
<1>16. \A a, b \in BlockNames : a # b =>
                   \/ block'[a].at + block'[a].size <= block'[b].at
                   \/ block'[b].at + block'[b].size <= block'[a].at
  BY <1>1, <1>3, <1>5, <1>7, <1>9, <1>13, <1>14 DEF BlockNames
<1>17. block' \in [BlockNames -> [at : Nat, size : Nat]]
  <2>1. /\ b1 \in [at : Nat, size : Nat] /\ b2 \in [at : Nat, size : Nat]
        /\ b3 \in [at : Nat, size : Nat] /\ b4 \in [at : Nat, size : Nat]
    BY <1>1, <1>3, <1>5, <1>7, <1>9
  <2> QED  BY <1>12, <2>1 DEF BlockNames
<1>18. /\ arena' \in [open : BOOLEAN, capacity : Nat, offset : Nat]
       /\ arena'.open /\ arena'.capacity = arena.capacity
  BY <1>1, <1>2, <1>9, <1>10, <1>12
<1> QED  BY <1>12, <1>15, <1>16, <1>17, <1>18

----------------------------------------------------------------------------
(* Matches.                                                                *)

\* The matches of some vertices are matches.
LEMMA MatchesWithin ==
  ASSUME NEW V \in SUBSET (1..NVertices)
  PROVE  MatchesOf(V) \subseteq All
  BY DEF MatchesOf, All

\* What has the matches of every vertex has all.
LEMMA MatchesCovered ==
  ASSUME NEW S, \A v \in 1..NVertices : MatchesOf({v}) \subseteq S
  PROVE  All \subseteq S
<1> SUFFICES ASSUME NEW m \in All PROVE m \in S
  OBVIOUS
<1>1. PICK v \in 1..NVertices : m \in {<<v, k>> : k \in 1..matches[v]}
  BY DEF All, MatchesOf
<1>2. m \in MatchesOf({v})
  BY <1>1 DEF MatchesOf
<1> QED  BY <1>2

\* There are finitely many matches.
LEMMA AllFinite ==
  ASSUME matches \in MatchCounts
  PROVE  IsFiniteSet(All)
<1> DEFINE f == [v \in 1..NVertices |-> {v} \X (1..matches[v])]
           Sets == {f[v] : v \in 1..NVertices}
<1>1. ASSUME NEW v \in 1..NVertices
      PROVE  IsFiniteSet(f[v]) /\ f[v] = {<<v, k>> : k \in 1..matches[v]}
  <2>1. matches[v] \in Nat  BY ParallelAssumption
  <2>2. IsFiniteSet({v})  BY FS_Singleton
  <2>3. IsFiniteSet(1..matches[v])  BY <2>1, FS_Interval
  <2>4. IsFiniteSet({v} \X (1..matches[v]))  BY <2>2, <2>3, FS_Product
  <2> QED  BY <2>4
<1>2. f \in Surjection(1..NVertices, Sets)
  BY DEF Surjection
<1>3. IsFiniteSet(1..NVertices)  BY ParallelAssumption, FS_Interval
<1>4. IsFiniteSet(Sets)  BY <1>2, <1>3, FS_Surjection
<1>5. IsFiniteSet(UNION Sets)
  <2>1. \A T \in Sets : IsFiniteSet(T)  BY <1>1
  <2> HIDE DEF Sets
  <2> QED  BY <1>4, <2>1, FS_UNION
<1>6. All = UNION Sets
  BY <1>1 DEF All, MatchesOf
<1> QED  BY <1>5, <1>6

----------------------------------------------------------------------------
(* The inductive invariant.  A thread runs only between its creation and   *)
(* its join; a worker that has ended left the promised results; while the  *)
(* buffers are merged, those of the workers before the cursor are in.      *)

ArenaInv ==
  /\ pc = "start" => cursor = 1
  /\ pc = "cut" => ArenaReady
  /\ InParallel => arena.open

ShardInv == InParallel => \A w \in 1..n : shard[w] = ShardOf(w)

ThreadInv ==
  \A w \in Workers :
    /\ pc \in {"start", "open", "cut", "alone"} => thread[w] = "none"
    /\ pc = "create" => /\ w >= cursor => thread[w] = "none"
                        /\ w < cursor => thread[w] # "none"
    /\ pc = "join" => /\ w > n => thread[w] = "none"
                      /\ w <= n => thread[w] # "none"
                      /\ w < cursor => thread[w] # "running"
    /\ pc = "merge" => /\ thread[w] # "running"
                       /\ w <= n => thread[w] = "ended"
    /\ pc = "done" => thread[w] # "running"

FoundInv ==
  \A w \in Workers :
    thread[w] = "ended" /\ ~spilled[w] => found[w] = MatchesOf(shard[w])

OutInv ==
  /\ pc \in {"start", "open", "cut", "alone", "create", "join"} => out = {} /\ ~overflow
  /\ pc = "merge" /\ ~overflow => \A w \in 1..cursor - 1 : MatchesOf(shard[w]) \subseteq out
  /\ pc = "done" /\ ~overflow => out = All
  /\ Cardinality(out) <= MaxPaths

ParallelInv ==
  /\ ParallelTypeOK
  /\ ArenaInv
  /\ BlocksApart
  /\ ShardInv
  /\ ThreadInv
  /\ FoundInv
  /\ OutInv

\* There is a worker at least.
LEMMA WorkersExist ==
  ASSUME n \in Workers
  PROVE  n \in Nat \ {0}
  BY ParallelAssumption DEF Workers

\* The ranges kept are the ranges computed.
LEMMA ShardInvPartitions ==
  ASSUME ParallelTypeOK, ShardInv
  PROVE  ShardsPartition
<1>1. n \in Nat \ {0}  BY WorkersExist DEF ParallelTypeOK
<1> QED  BY <1>1, ShardsTile DEF ShardInv, ShardsPartition

\* The invariant holds when the call begins.
LEMMA InitInv == Init => ParallelInv
<1> SUFFICES ASSUME Init PROVE ParallelInv
  OBVIOUS
<1>1. ParallelTypeOK
  <2>1. n \in Workers /\ cursor \in 1..n + 1
    BY ParallelAssumption DEF Init, Workers
  <2>2. /\ arena \in [open : BOOLEAN, capacity : Nat, offset : Nat]
        /\ block \in [BlockNames -> [at : Nat, size : Nat]]
    BY DEF Init, Closed, NoBlock
  <2>3. /\ shard \in [Workers -> SUBSET (1..NVertices)]
        /\ thread \in [Workers -> {"none", "running", "ended"}]
        /\ found \in [Workers -> SUBSET All]
        /\ spilled \in [Workers -> BOOLEAN]
    BY DEF Init
  <2> QED  BY <2>1, <2>2, <2>3 DEF Init, ParallelTypeOK
<1>2. Cardinality(out) <= MaxPaths
  BY FS_EmptySet, ParallelAssumption DEF Init
<1> QED  BY <1>1, <1>2
         DEF Init, ParallelInv, ArenaInv, BlocksApart, ShardInv, ThreadInv, FoundInv,
             OutInv, InParallel

\* The number of threads is within its bounds.
LEMMA ThreadsInRange ==
  ASSUME request \in Requests
  PROVE  Threads \in Workers
  BY ParallelAssumption DEF Threads, Workers, Least, Most

\* The steps of the calling thread before and after the parallel part.
LEMMA SequentialSteps ==
  ASSUME ParallelInv, Start \/ OpenArena \/ OpenFails \/ SearchAlone \/ CloseArena
  PROVE  ParallelInv'
<1> USE DEF ParallelInv
<1>1. CASE Start
  <2>1. ParallelTypeOK'
    <3>1. n' \in Workers  BY <1>1, ThreadsInRange DEF Start, ParallelTypeOK
    <3>2. cursor' \in 1..n' + 1  BY <1>1, <3>1 DEF Start, ArenaInv, Workers
    <3>3. All' = All  BY <1>1 DEF Start, callVars, All, MatchesOf
    <3> QED  BY <1>1, <3>1, <3>2, <3>3
             DEF Start, ParallelTypeOK, callVars, arenaVars, workVars
  <2> QED  BY <1>1, <2>1
           DEF Start, ParallelTypeOK, callVars, arenaVars, workVars, ArenaInv, BlocksApart,
               ShardInv, ThreadInv, FoundInv, OutInv, InParallel, MatchesOf, ArenaReady
<1>2. CASE OpenArena
  <2>0. n \in Nat \ {0}  BY WorkersExist DEF ParallelTypeOK
  <2>1. NeededBytes \in Nat
    <3>1. /\ n * ContextBytes \in Nat /\ n * ResultBytes \in Nat
          /\ n * HandleBytes \in Nat /\ n * FlagBytes \in Nat
      BY <2>0, Product, ParallelAssumption
    <3> QED  BY <3>1 DEF NeededBytes
  <2>2. minimum \in Nat  BY ParallelAssumption DEF ParallelTypeOK
  <2>3. Most(NeededBytes, minimum) \in Nat /\ Most(NeededBytes, minimum) >= NeededBytes
    BY <2>1, <2>2 DEF Most
  <2>4. arena'.capacity \in Nat /\ arena'.capacity >= NeededBytes
    <3>1. PageBytes \in Nat \ {0}  BY DEF PageBytes
    <3>2. arena'.capacity = AlignUp(Most(NeededBytes, minimum), PageBytes)
      BY <1>2 DEF OpenArena
    <3> QED  BY <2>1, <2>3, <3>1, <3>2, AlignUpBounds
  <2>5. ArenaReady'
    BY <1>2, <2>4 DEF OpenArena, ArenaReady, NeededBytes
  <2>6. ParallelTypeOK'
    BY <1>2, <2>5
       DEF OpenArena, ArenaReady, ParallelTypeOK, callVars, workVars, All, MatchesOf
  <2> QED  BY <1>2, <2>5, <2>6
           DEF OpenArena, callVars, workVars, ArenaInv, BlocksApart, ShardInv, ThreadInv,
               FoundInv, OutInv, InParallel, MatchesOf
<1>3. CASE OpenFails
  BY <1>3 DEF OpenFails, ParallelTypeOK, callVars, arenaVars, workVars, ArenaInv,
              BlocksApart, ShardInv, ThreadInv, FoundInv, OutInv, InParallel, All, MatchesOf
<1>4. CASE SearchAlone
  <2>1. /\ out' \subseteq All
        /\ overflow' \in BOOLEAN
        /\ Cardinality(out') <= MaxPaths
        /\ ~overflow' => out' = All
    BY <1>4 DEF SearchAlone, SearchResults, All
  <2>2. All' = All  BY <1>4 DEF SearchAlone, callVars, All, MatchesOf
  <2>3. ParallelTypeOK'
    BY <1>4, <2>1, <2>2 DEF SearchAlone, ParallelTypeOK, callVars, arenaVars, workVars
  <2> QED  BY <1>4, <2>1, <2>2, <2>3
           DEF SearchAlone, callVars, arenaVars, workVars, ArenaInv, BlocksApart, ShardInv,
               ThreadInv, FoundInv, OutInv, InParallel, MatchesOf
<1>5. CASE CloseArena
  <2>1. ~overflow => All \subseteq out
    <3> SUFFICES ASSUME ~overflow, NEW v \in 1..NVertices
                 PROVE  MatchesOf({v}) \subseteq out
      BY MatchesCovered
    <3>1. InParallel /\ pc = "merge" /\ cursor > n  BY <1>5 DEF CloseArena, InParallel
    <3>2. PICK w \in 1..n : v \in shard[w]
      BY <3>1, ShardInvPartitions DEF ShardsPartition
    <3>3. w \in 1..cursor - 1
      BY <3>1, WorkersExist DEF ParallelTypeOK
    <3>4. MatchesOf(shard[w]) \subseteq out  BY <3>1, <3>3 DEF OutInv
    <3> QED  BY <3>2, <3>4 DEF MatchesOf
  <2>2. All' = All  BY <1>5 DEF CloseArena, callVars, All, MatchesOf
  <2>3. ParallelTypeOK'
    BY <1>5, <2>2 DEF CloseArena, ParallelTypeOK, callVars, workVars, Closed
  <2>4. OutInv'
    BY <1>5, <2>1, <2>2 DEF CloseArena, OutInv, ParallelTypeOK
  <2> QED  BY <1>5, <2>2, <2>3, <2>4
           DEF CloseArena, callVars, workVars, ArenaInv, BlocksApart, ShardInv, ThreadInv,
               FoundInv, InParallel, MatchesOf, ParallelTypeOK
<1> QED  BY <1>1, <1>2, <1>3, <1>4, <1>5

\* Cutting the arena, and the loops that change only the cursor.
LEMMA LoopSteps ==
  ASSUME ParallelInv, CutArena \/ AllCreated \/ Join \/ AllJoined
  PROVE  ParallelInv'
<1> USE DEF ParallelInv
<1>0. n \in Nat \ {0} /\ cursor \in 1..n + 1 /\ n \in 1..MaxThreads
  BY WorkersExist DEF ParallelTypeOK, Workers
<1>1. CASE CutArena
  <2>1. ArenaReady  BY <1>1 DEF CutArena, ArenaInv
  <2>2. UNCHANGED <<callVars, n, workVars, out, overflow>> /\ cursor' = 1 /\ pc = "cut"
    BY <1>1 DEF CutArena
  <2>3. /\ pc' = "create"
        /\ arena' \in [open : BOOLEAN, capacity : Nat, offset : Nat]
        /\ arena'.open /\ arena'.capacity = arena.capacity
        /\ block' \in [BlockNames -> [at : Nat, size : Nat]]
        /\ shard' = [w \in Workers |-> IF w <= n THEN ShardOf(w) ELSE {}]
    BY <1>0, <1>1, <2>1, FourCutsFit
  <2>4. BlocksApart'
    BY <1>0, <1>1, <2>1, <2>2, <2>3, FourCutsFit DEF BlocksApart, SizeOf
  <2>5. ShardInv'
    <3>1. n' = n  BY <2>2
    <3> SUFFICES ASSUME NEW w \in 1..n PROVE shard'[w] = ShardOf(w)'
      BY <3>1 DEF ShardInv
    <3>2. shard'[w] = ShardOf(w)
      <4>1. w \in Workers /\ w <= n  BY <1>0, ParallelAssumption DEF Workers
      <4> QED  BY <2>3, <4>1
    <3>3. ShardOf(w)' = ShardOf(w)  BY <3>1 DEF ShardOf
    <3> QED  BY <3>2, <3>3
  <2>6. shard' \in [Workers -> SUBSET (1..NVertices)]
    BY <1>0, <2>3, ShardsTile DEF Workers
  <2>7. All' = All  BY <2>2 DEF callVars, All, MatchesOf
  <2>8. ParallelTypeOK'
    BY <1>0, <2>2, <2>3, <2>6, <2>7 DEF ParallelTypeOK, callVars, workVars
  <2>9. ArenaInv' /\ ThreadInv' /\ OutInv'
    BY <1>0, <2>2, <2>3
       DEF callVars, workVars, ArenaInv, ThreadInv, OutInv, InParallel, Workers
  <2>10. FoundInv'
    BY <2>2 DEF workVars, FoundInv, ThreadInv
  <2> QED  BY <2>4, <2>5, <2>8, <2>9, <2>10
<1>2. CASE AllCreated
  BY <1>0, <1>2
     DEF AllCreated, ParallelTypeOK, callVars, arenaVars, workVars, ArenaInv, BlocksApart,
         ShardInv, ThreadInv, FoundInv, OutInv, InParallel, All, MatchesOf, Workers, SizeOf, ShardOf
<1>3. CASE Join
  BY <1>0, <1>3
     DEF Join, ParallelTypeOK, callVars, arenaVars, workVars, ArenaInv, BlocksApart,
         ShardInv, ThreadInv, FoundInv, OutInv, InParallel, All, MatchesOf, Workers, SizeOf, ShardOf
<1>4. CASE AllJoined
  BY <1>0, <1>4
     DEF AllJoined, ParallelTypeOK, callVars, arenaVars, workVars, ArenaInv, BlocksApart,
         ShardInv, ThreadInv, FoundInv, OutInv, InParallel, All, MatchesOf, Workers, SizeOf, ShardOf
<1> QED  BY <1>1, <1>2, <1>3, <1>4

\* A search of a shard, on its own thread or on the caller's.
LEMMA ReturnsKeepsFound ==
  ASSUME ParallelTypeOK, FoundInv, NEW w \in Workers, Returns(w), UNCHANGED <<matches, shard>>
  PROVE  /\ thread' = [thread EXCEPT ![w] = "ended"]
         /\ thread' \in [Workers -> {"none", "running", "ended"}]
         /\ found' \in [Workers -> SUBSET All]
         /\ spilled' \in [Workers -> BOOLEAN]
         /\ FoundInv'
<1>1. PICK r \in SearchResults(shard[w]) :
        /\ found' = [found EXCEPT ![w] = r.got]
        /\ spilled' = [spilled EXCEPT ![w] = r.spill]
        /\ thread' = [thread EXCEPT ![w] = "ended"]
  BY DEF Returns
<1>2. /\ r.got \subseteq MatchesOf(shard[w]) /\ r.spill \in BOOLEAN
      /\ ~r.spill => r.got = MatchesOf(shard[w])
  BY DEF SearchResults
<1>3. r.got \subseteq All
  <2>1. shard[w] \in SUBSET (1..NVertices)  BY DEF ParallelTypeOK
  <2> QED  BY <1>2, <2>1, MatchesWithin
<1>4. /\ thread' \in [Workers -> {"none", "running", "ended"}]
      /\ found' \in [Workers -> SUBSET All]
      /\ spilled' \in [Workers -> BOOLEAN]
  BY <1>1, <1>2, <1>3 DEF ParallelTypeOK
<1>5. ASSUME NEW x \in Workers, thread'[x] = "ended", ~spilled'[x]
      PROVE  found'[x] = MatchesOf(shard[x])'
  <2>1. MatchesOf(shard[x])' = MatchesOf(shard[x])  BY DEF MatchesOf
  <2>2. CASE x = w  BY <1>1, <1>2, <1>5, <2>1, <2>2 DEF ParallelTypeOK
  <2>3. CASE x # w  BY <1>1, <1>5, <2>1, <2>3 DEF ParallelTypeOK, FoundInv
  <2> QED  BY <2>2, <2>3
<1> QED  BY <1>1, <1>4, <1>5 DEF FoundInv

\* Creating a thread, running a shard and ending keep the invariant.
LEMMA ThreadSteps ==
  ASSUME ParallelInv, Create \/ \E w \in Workers : WorkerEnds(w)
  PROVE  ParallelInv'
<1> USE DEF ParallelInv
<1>0. n \in Nat \ {0} /\ cursor \in 1..n + 1 /\ n \in 1..MaxThreads
  BY WorkersExist DEF ParallelTypeOK, Workers
<1>1. /\ UNCHANGED <<callVars, pc, n, arenaVars, shard, out, overflow>>
      /\ pc \in {"create", "join"}
  <2>1. CASE Create
    BY <2>1 DEF Create, Returns
  <2>2. ASSUME NEW w \in Workers, WorkerEnds(w)
        PROVE  /\ UNCHANGED <<callVars, pc, n, arenaVars, shard, out, overflow>>
               /\ pc \in {"create", "join"}
    BY <2>2 DEF WorkerEnds, ThreadInv, ParallelTypeOK
  <2> QED  BY <2>1, <2>2
<1>2. All' = All  BY <1>1 DEF callVars, All, MatchesOf
<1>3. BlocksApart' /\ ShardInv' /\ ArenaInv' /\ OutInv'
  BY <1>1 DEF callVars, arenaVars, BlocksApart, ShardInv, ArenaInv, OutInv, InParallel,
              SizeOf, ShardOf
<1>4. CASE Create
  <2>1. cursor \in Workers /\ cursor' = cursor + 1 /\ cursor <= n /\ pc = "create"
    <3>1. cursor' = cursor + 1 /\ cursor <= n /\ pc = "create"  BY <1>4 DEF Create
    <3> QED  BY <1>0, <3>1, ParallelAssumption DEF Workers
  <2>2. /\ \E v \in {"running", "ended"} : thread' = [thread EXCEPT ![cursor] = v]
        /\ thread' \in [Workers -> {"none", "running", "ended"}]
        /\ found' \in [Workers -> SUBSET All]
        /\ spilled' \in [Workers -> BOOLEAN]
        /\ FoundInv'
    <3>1. CASE /\ thread' = [thread EXCEPT ![cursor] = "running"]
               /\ UNCHANGED <<found, spilled>>
      BY <1>1, <2>1, <3>1 DEF ParallelTypeOK, FoundInv, callVars, MatchesOf
    <3>2. CASE Returns(cursor)
      BY <1>1, <2>1, <3>2, ReturnsKeepsFound DEF callVars
    <3> QED  BY <1>4, <3>1, <3>2 DEF Create
  <2>3. ThreadInv'
    BY <1>0, <1>1, <2>1, <2>2 DEF ThreadInv, ParallelTypeOK, Workers
  <2>4. ParallelTypeOK'
    BY <1>0, <1>1, <1>2, <2>1, <2>2 DEF ParallelTypeOK, callVars, arenaVars
  <2> QED  BY <1>3, <2>2, <2>3, <2>4
<1>5. ASSUME NEW w \in Workers, WorkerEnds(w)
      PROVE  ParallelInv'
  <2>1. thread[w] = "running" /\ Returns(w) /\ cursor' = cursor
    BY <1>5 DEF WorkerEnds
  <2>2. /\ thread' = [thread EXCEPT ![w] = "ended"]
        /\ thread' \in [Workers -> {"none", "running", "ended"}]
        /\ found' \in [Workers -> SUBSET All]
        /\ spilled' \in [Workers -> BOOLEAN]
        /\ FoundInv'
    BY <1>1, <2>1, ReturnsKeepsFound DEF callVars
  <2>3. ThreadInv'
    BY <1>0, <1>1, <2>1, <2>2 DEF ThreadInv, ParallelTypeOK, Workers
  <2>4. ParallelTypeOK'
    BY <1>0, <1>1, <1>2, <2>1, <2>2 DEF ParallelTypeOK, callVars, arenaVars
  <2>5. OutInv'
    BY <1>1, <2>1 DEF OutInv, callVars
  <2> QED  BY <1>3, <2>2, <2>3, <2>4, <2>5
<1> QED  BY <1>4, <1>5

\* One buffer is merged: all of it, or as much as there is room for.
LEMMA MergeStep ==
  ASSUME ParallelInv, Merge
  PROVE  ParallelInv'
<1> USE DEF ParallelInv
<1>0. /\ n \in Nat \ {0} /\ cursor \in 1..n + 1 /\ n \in 1..MaxThreads
      /\ cursor <= n /\ cursor' = cursor + 1 /\ pc = "merge"
  BY WorkersExist DEF ParallelTypeOK, Workers, Merge
<1>1. UNCHANGED <<callVars, pc, n, arenaVars, shard, workVars>>
  BY DEF Merge
<1>2. PICK kept \in SUBSET found[cursor] :
        /\ kept = found[cursor] \/ Cardinality(out) + Cardinality(kept) = MaxPaths
        /\ Cardinality(out) + Cardinality(kept) <= MaxPaths
        /\ out' = out \cup kept
        /\ overflow' = (overflow \/ spilled[cursor] \/ kept # found[cursor])
  BY DEF Merge, Truncated
<1>3. cursor \in Workers /\ found[cursor] \subseteq All
  <2>1. cursor \in Workers  BY <1>0, ParallelAssumption DEF Workers
  <2> QED  BY <2>1 DEF ParallelTypeOK
<1>4. All' = All  BY <1>1 DEF callVars, All, MatchesOf
<1>5. out' \subseteq All /\ overflow' \in BOOLEAN
  BY <1>2, <1>3 DEF ParallelTypeOK
<1>6. Cardinality(out') <= MaxPaths
  <2>1. IsFiniteSet(All)  BY AllFinite DEF ParallelTypeOK
  <2>2. IsFiniteSet(out) /\ IsFiniteSet(kept) /\ IsFiniteSet(out \cap kept)
    BY <1>2, <1>3, <2>1, FS_Subset DEF ParallelTypeOK
  <2>3. Cardinality(out \cup kept) =
          Cardinality(out) + Cardinality(kept) - Cardinality(out \cap kept)
    BY <2>2, FS_Union
  <2>4. /\ Cardinality(out) \in Nat /\ Cardinality(kept) \in Nat
        /\ Cardinality(out \cap kept) \in Nat
    BY <2>2, FS_CardinalityType
  <2> QED  BY <1>2, <2>3, <2>4, ParallelAssumption
<1>7. ASSUME ~overflow', NEW w \in 1..cursor' - 1
      PROVE  MatchesOf(shard[w]) \subseteq out'
  <2>1. CASE w < cursor
    <3>1. w \in 1..cursor - 1  BY <1>0, <2>1
    <3>2. MatchesOf(shard[w]) \subseteq out  BY <1>0, <1>2, <1>7, <3>1 DEF OutInv
    <3> QED  BY <1>2, <3>2
  <2>2. CASE w = cursor
    <3>1. thread[cursor] = "ended"  BY <1>0, <1>3 DEF ThreadInv
    <3>2. kept = MatchesOf(shard[cursor])  BY <1>2, <1>3, <1>7, <3>1 DEF FoundInv
    <3> QED  BY <1>2, <2>2, <3>2
  <2> QED  BY <1>0, <2>1, <2>2
<1>8. OutInv'
  BY <1>0, <1>1, <1>6, <1>7 DEF OutInv, callVars, MatchesOf
<1>9. ParallelTypeOK'
  BY <1>0, <1>1, <1>4, <1>5 DEF ParallelTypeOK, callVars, arenaVars, workVars
<1>10. BlocksApart' /\ ShardInv' /\ ArenaInv' /\ ThreadInv' /\ FoundInv'
  BY <1>0, <1>1 DEF callVars, arenaVars, workVars, BlocksApart, ShardInv, ArenaInv, ThreadInv,
                    FoundInv, InParallel, SizeOf, ShardOf, MatchesOf
<1> QED  BY <1>8, <1>9, <1>10

\* Every step keeps the invariant.
LEMMA StepInv == ParallelInv /\ [Next]_vars => ParallelInv'
<1> SUFFICES ASSUME ParallelInv, [Next]_vars
             PROVE  ParallelInv'
  OBVIOUS
<1>1. CASE Start \/ OpenArena \/ OpenFails \/ SearchAlone \/ CloseArena
  BY <1>1, SequentialSteps
<1>2. CASE CutArena \/ AllCreated \/ Join \/ AllJoined
  BY <1>2, LoopSteps
<1>3. CASE Create \/ \E w \in Workers : WorkerEnds(w)
  BY <1>3, ThreadSteps
<1>4. CASE Merge
  BY <1>4, MergeStep
<1>5. CASE UNCHANGED vars
  <2> USE <1>5 DEF vars, callVars, arenaVars, workVars, ParallelInv
  <2>1. All' = All  BY DEF All, MatchesOf
  <2>2. ParallelTypeOK'  BY <2>1 DEF ParallelTypeOK
  <2>3. ArenaInv'  BY DEF ArenaInv, ArenaReady, InParallel, NeededBytes
  <2>4. BlocksApart'  BY DEF BlocksApart, InParallel, SizeOf
  <2>5. ShardInv'  BY DEF ShardInv, InParallel, ShardOf
  <2>6. ThreadInv'  BY DEF ThreadInv
  <2>7. FoundInv'  BY DEF FoundInv, MatchesOf
  <2>8. OutInv'  BY <2>1 DEF OutInv, MatchesOf
  <2> QED  BY <2>2, <2>3, <2>4, <2>5, <2>6, <2>7, <2>8
<1> QED  BY <1>1, <1>2, <1>3, <1>4, <1>5 DEF Next

----------------------------------------------------------------------------
(* The theorems: for every number of vertices, threads and matches, every  *)
(* capacity and all sizes of the blocks.                                   *)

\* The invariant holds in every reachable state, so the code that creates,
\* joins and merges finds what it expects at each of its steps.
THEOREM ParallelInvariant == Spec => []ParallelInv
<1>1. Init => ParallelInv  BY InitInv
<1>2. ParallelInv /\ [Next]_vars => ParallelInv'  BY StepInv
<1> QED  BY <1>1, <1>2, PTL DEF Spec

\* Every variable of the call keeps its type; the cursor of the loops stays
\* within one past the last worker.
THEOREM ParallelTypes == Spec => []ParallelTypeOK
<1>1. ParallelInv => ParallelTypeOK  BY DEF ParallelInv
<1> QED  BY <1>1, ParallelInvariant, PTL

\* The ranges computed from the quotient and the remainder give every start
\* vertex to exactly one worker.
THEOREM ShardsArePartition == Spec => []ShardsPartition
<1>1. ParallelInv => ShardsPartition
  BY ShardInvPartitions DEF ParallelInv
<1> QED  BY <1>1, ParallelInvariant, PTL

\* The blocks cut out of the arena are aligned, in bounds and disjoint.
THEOREM BlocksAreApart == Spec => []BlocksApart
<1>1. ParallelInv => BlocksApart  BY DEF ParallelInv
<1> QED  BY <1>1, ParallelInvariant, PTL

\* No thread runs after the arena that holds its buffers was closed.
THEOREM ArenaIsOutlived == Spec => []ArenaOutlivesThreads
<1>1. ParallelInv => ArenaOutlivesThreads
  BY DEF ParallelInv, ParallelTypeOK, ThreadInv, ArenaInv, InParallel, ArenaOutlivesThreads
<1> QED  BY <1>1, ParallelInvariant, PTL

\* The merged result is that of one thread's search, unless it overflowed.
THEOREM ParallelIsExact == Spec => []ParallelExact
<1>1. ParallelInv => ParallelExact  BY DEF ParallelInv, OutInv, ParallelExact
<1> QED  BY <1>1, ParallelInvariant, PTL

\* The arena asked for holds the four blocks, whatever their sizes and the
\* alignment between them: the fall back to the search by one thread for want
\* of room is never taken.
THEOREM ArenaIsLargeEnough == Spec => ArenaLargeEnough
<1>1. ParallelInv /\ [Next]_vars => [pc = "cut" => pc' = "create"]_vars
  <2> SUFFICES ASSUME ParallelInv, Next, pc = "cut"
               PROVE  pc' = "create"
    OBVIOUS
  <2>1. CutArena
    <3>1. ASSUME NEW w \in Workers, WorkerEnds(w) PROVE FALSE
      BY <3>1 DEF WorkerEnds, ParallelInv, ThreadInv
    <3> QED
      BY <3>1 DEF Next, Start, OpenArena, OpenFails, Create, AllCreated, Join, AllJoined,
                  Merge, CloseArena, SearchAlone
  <2>2. ArenaReady /\ n \in Nat \ {0}
    BY WorkersExist DEF ParallelInv, ParallelTypeOK, ArenaInv
  <2> QED  BY <2>1, <2>2, FourCutsFit
<1> QED  BY <1>1, ParallelInvariant, PTL DEF Spec, ArenaLargeEnough
=============================================================================
