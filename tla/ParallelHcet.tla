---------------------------- MODULE ParallelHcet ----------------------------
(***************************************************************************)
(* The parallel execution of H-CET, cet_execute_hcet_parallel_ex of        *)
(* src/c_engine/src/parallel_hcet.c, with the workspace arena of           *)
(* src/c_engine/src/runtime.c.                                             *)
(*                                                                         *)
(* The calling thread opens the arena, cuts the workers' contexts, result  *)
(* buffers, thread handles and launch flags out of it, divides the start   *)
(* vertices among the workers, creates a thread for each (or runs the      *)
(* shard itself), joins the threads, merges their results and closes the   *)
(* arena.  When the arena cannot be opened it searches alone.              *)
(*                                                                         *)
(* Abstractions.  The search of a range of start vertices is what        *)
(* CetKernel promises of it (ResultsExact): either every match that starts *)
(* in the range, or overflow and some of them, at most MaxPaths in any     *)
(* case.  The threads share no data but the graph and the query, which     *)
(* nothing writes, so a search is one step.  Results are sets; a match is  *)
(* named by its start vertex and a number.  Sizes are in bytes.  The build *)
(* has threads (CET_ENABLE_PTHREADS); an arena from mmap and one from      *)
(* calloc are used alike.                                                  *)
(***************************************************************************)
EXTENDS Integers, FiniteSets

CONSTANTS
  NVertices,      \* g->vcount
  MaxThreads,     \* CET_MAX_NATIVE_THREADS
  MaxPaths,       \* CET_MAX_PATHS
  Requests,       \* the values of cfg->native_threads
  WorkspaceBytes, \* the values of cfg->mmap_workspace_bytes
  MatchCounts,    \* how many matches start at each vertex: functions
  WordBytes,      \* sizeof(void*), the least alignment
  ContextBytes,   \* sizeof(cet_worker_ctx_t)
  ResultBytes,    \* sizeof(cet_result_t)
  HandleBytes,    \* sizeof(pthread_t)
  FlagBytes       \* sizeof(int)

PageBytes == 4096

ASSUME ParallelAssumption ==
  /\ NVertices \in Nat
  /\ MaxThreads \in Nat \ {0}
  /\ MaxPaths \in Nat
  /\ Requests \subseteq Nat
  /\ WorkspaceBytes \subseteq Nat
  /\ MatchCounts \subseteq [1..NVertices -> Nat]
  /\ WordBytes \in 1..1024
  /\ ContextBytes \in Nat \ {0}
  /\ ResultBytes \in Nat \ {0}
  /\ HandleBytes \in Nat \ {0}
  /\ FlagBytes \in Nat \ {0}

VARIABLES
  request,        \* cfg->native_threads
  minimum,        \* cfg->mmap_workspace_bytes
  matches,        \* how many matches start at each vertex
  pc,             \* where the calling thread is
  n,              \* workers_n
  cursor,         \* the worker a loop of the calling thread is at
  arena,          \* the workspace: whether open, its capacity and offset
  block,          \* what was cut out of it: address and size
  shard,          \* the range of start vertices of each worker
  thread,         \* "none", "running" or "ended" for each worker
  found,          \* the worker's result buffer
  spilled,        \* the worker's stats.overflow
  out,            \* the result
  overflow        \* stats->overflow

callVars  == <<request, minimum, matches>>
arenaVars == <<arena, block>>
workVars  == <<thread, found, spilled>>
vars == <<callVars, pc, n, cursor, arenaVars, shard, workVars, out, overflow>>

Workers == 1..MaxThreads
Least(a, b) == IF a <= b THEN a ELSE b
Most(a, b)  == IF a <= b THEN b ELSE a

----------------------------------------------------------------------------
(* The arena.                                                              *)

AlignUp(k, a) == IF k % a = 0 THEN k ELSE k + (a - (k % a))

Closed == [open |-> FALSE, capacity |-> 0, offset |-> 0]
NoBlock == [at |-> 0, size |-> 0]

BlockNames == {"workers", "results", "tids", "launched"}
SizeOf(name) ==
  CASE name = "workers" -> n * ContextBytes
    [] name = "results" -> n * ResultBytes
    [] name = "tids"    -> n * HandleBytes
    [] OTHER            -> n * FlagBytes

\* cet_workspace_alloc: the next aligned address, or NoBlock for NULL when
\* the rest of the arena is too small.
Cut(ws, bytes) ==
  LET at == AlignUp(ws.offset, WordBytes)
  IN  IF at > ws.capacity \/ bytes > ws.capacity - at THEN NoBlock
      ELSE [at |-> at, size |-> bytes]

\* Mutant of After: the offset stays at the start of the block.
AfterStart(ws, b) == IF b = NoBlock THEN ws ELSE [ws EXCEPT !.offset = b.at]

After(ws, b) == IF b = NoBlock THEN ws ELSE [ws EXCEPT !.offset = b.at + b.size]

NeededBytes ==
  n * ContextBytes + n * ResultBytes + n * HandleBytes + n * FlagBytes + 4096

----------------------------------------------------------------------------
(* The matches of a range of start vertices, and what a search of it may   *)
(* return.                                                                 *)

MatchesOf(vertices) ==
  UNION {{<<v, k>> : k \in 1..matches[v]} : v \in vertices}

All == MatchesOf(1..NVertices)

SearchResults(vertices) ==
  {r \in [got : SUBSET MatchesOf(vertices), spill : BOOLEAN] :
     /\ Cardinality(r.got) <= MaxPaths
     /\ ~r.spill => r.got = MatchesOf(vertices)}

\* Mutant of Threads: any number of threads up to one for each vertex.
ThreadsUncapped ==
  IF NVertices > 0 THEN Least(Most(request, 1), NVertices) ELSE Most(request, 1)

\* normalize_threads: no more threads than vertices, if there are any.
Threads ==
  LET wanted == Least(Most(request, 1), MaxThreads)
  IN  IF NVertices > 0 THEN Least(wanted, NVertices) ELSE wanted

\* Mutant of ShardOf: the ranges begin as if they all had the same length.
ShardOfUnshifted(w) ==
  LET base  == NVertices \div n
      begin == (w - 1) * base
  IN  begin + 1 .. begin + base + (IF w <= NVertices % n THEN 1 ELSE 0)

\* The ranges: NVertices \div n vertices each, and one more for the first
\* NVertices % n workers.
ShardOf(w) ==
  LET base  == NVertices \div n
      rem   == NVertices % n
      begin == (w - 1) * base + Least(w - 1, rem)
  IN  begin + 1 .. begin + base + (IF w <= rem THEN 1 ELSE 0)

----------------------------------------------------------------------------

Init ==
  /\ request \in Requests
  /\ minimum \in WorkspaceBytes
  /\ matches \in MatchCounts
  /\ pc = "start" /\ n = 1 /\ cursor = 1
  /\ arena = Closed
  /\ block = [name \in BlockNames |-> NoBlock]
  /\ shard = [w \in Workers |-> {}]
  /\ thread = [w \in Workers |-> "none"]
  /\ found = [w \in Workers |-> {}]
  /\ spilled = [w \in Workers |-> FALSE]
  /\ out = {} /\ overflow = FALSE

\* One thread is enough, or the workers need an arena.
Start ==
  /\ pc = "start"
  /\ n' = Threads
  /\ pc' = IF Threads <= 1 THEN "alone" ELSE "open"
  /\ UNCHANGED <<callVars, cursor, arenaVars, shard, workVars, out, overflow>>

\* cet_workspace_open succeeds, by mmap or by calloc ...
OpenArena ==
  /\ pc = "open"
  /\ pc' = "cut"
  /\ arena' = [open |-> TRUE, offset |-> 0,
               capacity |-> AlignUp(Most(NeededBytes, minimum), PageBytes)]
  /\ UNCHANGED <<callVars, n, cursor, block, shard, workVars, out, overflow>>

\* ... or fails.
OpenFails ==
  /\ pc = "open"
  /\ pc' = "alone"
  /\ UNCHANGED <<callVars, n, cursor, arenaVars, shard, workVars, out, overflow>>

\* The four blocks are cut one after the other; should one not fit, the
\* arena is closed and the caller searches alone.
CutArena ==
  /\ pc = "cut"
  /\ LET workers  == Cut(arena, SizeOf("workers"))
         a1       == After(arena, workers)
         results  == Cut(a1, SizeOf("results"))
         a2       == After(a1, results)
         tids     == Cut(a2, SizeOf("tids"))
         a3       == After(a2, tids)
         launched == Cut(a3, SizeOf("launched"))
     IN  IF NoBlock \in {workers, results, tids, launched}
           THEN /\ pc' = "alone"
                /\ arena' = Closed
                /\ UNCHANGED <<block, shard>>
           ELSE /\ pc' = "create"
                /\ arena' = After(a3, launched)
                /\ block' = [name \in BlockNames |->
                               CASE name = "workers" -> workers
                                 [] name = "results" -> results
                                 [] name = "tids"    -> tids
                                 [] OTHER            -> launched]
                /\ shard' = [w \in Workers |-> IF w <= n THEN ShardOf(w) ELSE {}]
  /\ cursor' = 1
  /\ UNCHANGED <<callVars, n, workVars, out, overflow>>

\* A search ends with its results in the buffer of the worker.
Returns(w) ==
  /\ \E r \in SearchResults(shard[w]) :
       /\ found' = [found EXCEPT ![w] = r.got]
       /\ spilled' = [spilled EXCEPT ![w] = r.spill]
  /\ thread' = [thread EXCEPT ![w] = "ended"]

\* Mutant of Create: the shard of a thread that failed to start is not run.
CreateWithoutFallback ==
  /\ pc = "create"
  /\ cursor <= n
  /\ cursor' = cursor + 1
  /\ thread' \in {thread, [thread EXCEPT ![cursor] = "running"]}
  /\ UNCHANGED <<found, spilled, callVars, pc, n, arenaVars, shard, out, overflow>>

\* pthread_create: the new thread takes the shard, or the caller does.
Create ==
  /\ pc = "create"
  /\ cursor <= n
  /\ cursor' = cursor + 1
  /\ \/ /\ thread' = [thread EXCEPT ![cursor] = "running"]
        /\ UNCHANGED <<found, spilled>>
     \/ Returns(cursor)
  /\ UNCHANGED <<callVars, pc, n, arenaVars, shard, out, overflow>>

\* A worker thread finishes at any time after it was created.
WorkerEnds(w) ==
  /\ thread[w] = "running"
  /\ Returns(w)
  /\ UNCHANGED <<callVars, pc, n, cursor, arenaVars, shard, out, overflow>>

AllCreated ==
  /\ pc = "create"
  /\ cursor > n
  /\ pc' = "join" /\ cursor' = 1
  /\ UNCHANGED <<callVars, n, arenaVars, shard, workVars, out, overflow>>

\* Mutant of Join: a thread that still runs is passed over.
JoinRunning ==
  /\ pc = "join"
  /\ cursor <= n
  /\ thread[cursor] \in {"running", "ended"}
  /\ cursor' = cursor + 1
  /\ UNCHANGED <<callVars, pc, n, arenaVars, shard, workVars, out, overflow>>

\* pthread_join waits for the thread; a shard the caller ran has ended.
Join ==
  /\ pc = "join"
  /\ cursor <= n
  /\ thread[cursor] = "ended"
  /\ cursor' = cursor + 1
  /\ UNCHANGED <<callVars, pc, n, arenaVars, shard, workVars, out, overflow>>

AllJoined ==
  /\ pc = "join"
  /\ cursor > n
  /\ pc' = "merge" /\ cursor' = 1
  /\ UNCHANGED <<callVars, n, arenaVars, shard, workVars, out, overflow>>

\* Mutant of Truncated: what the merge itself cuts off is not reported.
TruncatedByWorker(w, kept) == spilled[w]

\* Results are missing: a search cut them off, or the merge does.
Truncated(w, kept) == spilled[w] \/ kept # found[w]

\* The buffers are merged in the order of the workers while there is room.
Merge ==
  /\ pc = "merge"
  /\ cursor <= n
  /\ cursor' = cursor + 1
  /\ \E kept \in SUBSET found[cursor] :
       /\ \/ kept = found[cursor]
          \/ Cardinality(out) + Cardinality(kept) = MaxPaths
       /\ Cardinality(out) + Cardinality(kept) <= MaxPaths
       /\ out' = out \cup kept
       /\ overflow' = (overflow \/ Truncated(cursor, kept))
  /\ UNCHANGED <<callVars, pc, n, arenaVars, shard, workVars>>

\* cet_workspace_close gives the memory back: the buffers are gone.
CloseArena ==
  /\ pc = "merge"
  /\ cursor > n
  /\ pc' = "done"
  /\ arena' = Closed
  /\ UNCHANGED <<callVars, n, cursor, block, shard, workVars, out, overflow>>

\* cet_execute_hcet_ex on all the vertices.
SearchAlone ==
  /\ pc = "alone"
  /\ pc' = "done"
  /\ \E r \in SearchResults(1..NVertices) : out' = r.got /\ overflow' = r.spill
  /\ UNCHANGED <<callVars, n, cursor, arenaVars, shard, workVars>>

Next ==
  \/ Start \/ OpenArena \/ OpenFails \/ CutArena
  \/ Create \/ AllCreated \/ Join \/ AllJoined \/ Merge \/ CloseArena
  \/ SearchAlone
  \/ \E w \in Workers : WorkerEnds(w)

Spec == Init /\ [][Next]_vars

----------------------------------------------------------------------------

ParallelTypeOK ==
  /\ request \in Requests /\ minimum \in WorkspaceBytes /\ matches \in MatchCounts
  /\ pc \in {"start", "open", "cut", "create", "join", "merge", "alone", "done"}
  /\ n \in Workers
  /\ cursor \in 1..n + 1
  /\ arena \in [open : BOOLEAN, capacity : Nat, offset : Nat]
  /\ block \in [BlockNames -> [at : Nat, size : Nat]]
  /\ shard \in [Workers -> SUBSET (1..NVertices)]
  /\ thread \in [Workers -> {"none", "running", "ended"}]
  /\ found \in [Workers -> SUBSET All]
  /\ spilled \in [Workers -> BOOLEAN]
  /\ out \subseteq All
  /\ overflow \in BOOLEAN

InParallel == pc \in {"create", "join", "merge"}

\* Every start vertex belongs to the shard of exactly one worker: the ranges
\* computed from the quotient and the remainder neither overlap nor leave a
\* gap.
ShardsPartition ==
  InParallel =>
    \A v \in 1..NVertices :
      \E w \in 1..n : v \in shard[w] /\ \A x \in 1..n : v \in shard[x] => x = w

\* The blocks cut out of the arena are aligned, lie inside it and do not
\* overlap: no worker's buffer is another's, or the caller's thread handles.
BlocksApart ==
  InParallel =>
    \A a \in BlockNames :
      /\ block[a].at % WordBytes = 0
      /\ block[a].size = SizeOf(a)
      /\ block[a].at + block[a].size <= arena.capacity
      /\ \A b \in BlockNames \ {a} :
           \/ block[a].at + block[a].size <= block[b].at
           \/ block[b].at + block[b].size <= block[a].at

\* The memory of the arena is given back only when no thread uses it.
ArenaOutlivesThreads ==
  \A w \in Workers : thread[w] = "running" => arena.open

\* The arena asked for is always large enough for the four blocks, so once it
\* is open the search runs in parallel.
ArenaLargeEnough == [][pc = "cut" => pc' = "create"]_vars

\* Whatever threads were created, failed to be created or ended first, the
\* result is that of the search by one thread: every match once, unless
\* overflow is reported; never more than there is room for.
ParallelExact ==
  /\ pc = "done" /\ ~overflow => out = All
  /\ Cardinality(out) <= MaxPaths
=============================================================================
