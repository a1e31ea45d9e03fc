----------------------------- MODULE CetKernel -----------------------------
(***************************************************************************)
(* The search engines of the native kernel, src/c_engine/src/algorithms.c: *)
(* M-CET (depth first), T-CET (breadth first) and H-CET (breadth first for *)
(* a prefix of the pattern, then depth first from every path found).       *)
(*                                                                         *)
(* A call searches a graph for the paths that match a query.  Every step   *)
(* examines one edge, takes up one state of the search or emits one path,  *)
(* so the arrays of the code - the queue of the breadth-first search, the  *)
(* results - fill up as they do there and each bound bites where it does.  *)
(* The recursion of dfs() is a stack of its calls.                         *)
(*                                                                         *)
(* Abstractions.  Vertices are looked up by id; ids are unique in a graph  *)
(* (UniqueIds).  The adjacency list of a vertex is its set of edges, taken *)
(* from the last to the first.  A query has at least one step              *)
(* (cet_parse_query fails otherwise), skips every event that does not      *)
(* match (cet_parse_query sets skip_till_any_match), and has no predicate  *)
(* functions (the bridge never sets one).  Of the statistics only overflow *)
(* is kept, and the partial cache of T-CET, which is filled and thrown     *)
(* away, is left out.                                                      *)
(***************************************************************************)
EXTENDS Integers, Sequences, FiniteSets

CONSTANTS
  EventTypes,     \* the values of event_type
  Calls,          \* the calls of the kernel (IsCall)
  MaxPaths,       \* CET_MAX_PATHS: results, and states of a breadth-first search
  MaxPathLen      \* CET_MAX_PATH_LEN: events of a path

VARIABLES
  call,           \* the arguments: graph, query, engine, range of start vertices
  phase,          \* "called", "starts", "breadth", "depth" or "done"
  left,           \* start positions or edges still to be examined
  queue,          \* the states of the breadth-first search ever enqueued
  head,           \* how many of them have been taken up
  seeds,          \* the paths found by the breadth-first search
  taken,          \* how many of them the depth-first search has taken up
  stack,          \* the calls of dfs(), innermost first
  out,            \* the paths emitted
  overflow        \* stats->overflow

vars == <<call, phase, left, queue, head, seeds, taken, stack, out, overflow>>

----------------------------------------------------------------------------
(* Graphs and queries.                                                     *)

Edge == [src : Int, dst : Int, window_start_ms : Int, window_end_ms : Int]

\* order lists the vertices, edges the edges; an edge may name unknown ones.
IsGraph(g) ==
  /\ g.vertex \in [DOMAIN g.vertex -> [event_type : EventTypes, event_time_ms : Int]]
  /\ g.order \in Seq(DOMAIN g.vertex)
  /\ g.edges \in Seq(Edge)

IsCall(c) ==
  /\ IsGraph(c.graph)
  /\ c.seq \in Seq([name : EventTypes, kleene_plus : BOOLEAN])
  /\ c.seq # <<>>
  /\ c.within_ms \in Int            \* negative: no limit
  /\ c.engine \in {"mcet", "tcet", "hcet"}
  /\ c.switch_depth \in Nat         \* of "hcet"
  /\ c.begin \in Nat /\ c.end \in Nat

ASSUME KernelAssumption ==
  /\ MaxPaths \in Nat \ {0}
  /\ MaxPathLen \in Nat \ {0}
  /\ \A c \in Calls : IsCall(c)

\* No two vertices of a graph have the same id: validate_events refuses them.
UniqueIds ==
  \A c \in Calls : \A i, j \in DOMAIN c.graph.order :
    c.graph.order[i] = c.graph.order[j] => i = j

Vertices == DOMAIN call.graph.vertex
Type(v)  == call.graph.vertex[v].event_type
Time(v)  == call.graph.vertex[v].event_time_ms
Last(path) == path[Len(path)]

\* Positions of the vertices a search may start from: all of them for M-CET,
\* those of the range [begin, end) for the others.
StartPositions ==
  {i \in DOMAIN call.graph.order :
     /\ Type(call.graph.order[i]) = call.seq[1].name
     /\ call.engine = "mcet" \/ i \in call.begin + 1 .. call.end}

OutEdges(v) == {i \in DOMAIN call.graph.edges : call.graph.edges[i].src = v}

\* H-CET with a switch depth of 0 or 1 is T-CET.
Hybrid == call.engine = "hcet" /\ call.switch_depth > 1

\* The number of steps the breadth-first search matches.
PrefixLen ==
  IF Hybrid /\ call.switch_depth < Len(call.seq) THEN call.switch_depth ELSE Len(call.seq)

----------------------------------------------------------------------------
(* States of a search: the path so far, the number of steps matched, and   *)
(* the time of the first event.                                            *)

State(path, idx, start_ts) == [path |-> path, idx |-> idx, start_ts |-> start_ts]

StartState(i) ==
  LET v == call.graph.order[i] IN State(<<v>>, 1, Time(v))

EdgeTemporalOk(prev, nxt, start_ts, e) ==
  /\ nxt \in Vertices
  /\ Time(nxt) >= start_ts
  /\ Time(nxt) >= Time(prev)
  /\ call.within_ms >= 0 => Time(nxt) - start_ts <= call.within_ms
  /\ e.window_end_ms > e.window_start_ms =>
       /\ e.window_start_ms <= Time(prev) /\ Time(prev) <= e.window_end_ms
       /\ e.window_start_ms <= Time(nxt) /\ Time(nxt) <= e.window_end_ms

TypeMatch(v, idx) == idx < Len(call.seq) /\ Type(v) = call.seq[idx + 1].name

\* How far an edge may bring a state: 0, it stays at its step (a repetition
\* or an event skipped), or 1, it advances; staying is tried first.
Moves(s, e) ==
  IF ~EdgeTemporalOk(Last(s.path), e.dst, s.start_ts, e) THEN <<>>
  ELSE IF ~TypeMatch(e.dst, s.idx) THEN <<0>>
  ELSE IF call.seq[s.idx + 1].kleene_plus THEN <<0, 1>>
  ELSE <<1>>

\* The states an edge leads to.
Along(s, e) ==
  [m \in DOMAIN Moves(s, e) |->
     State(Append(s.path, e.dst), s.idx + Moves(s, e)[m], s.start_ts)]

\* Mutant of TooLong: the bound is tested one event late.
TooLongByOne(path) == Len(path) > MaxPathLen

\* No event can be appended to the path.
TooLong(path) == Len(path) >= MaxPathLen

\* An array of MaxPaths entries takes what there is room for.
Fill(array, new) ==
  IF Len(array) + Len(new) <= MaxPaths THEN array \o new
  ELSE array \o SubSeq(new, 1, MaxPaths - Len(array))

\* Mutant of Spills: the first entry cut off goes unnoticed.
SpillsLate(array, new) == Len(array) + Len(new) > MaxPaths + 1

Spills(array, new) == Len(array) + Len(new) > MaxPaths

\* The edge or start position whose turn it is.
Latest(i)   == i \in left /\ \A j \in left : j <= i
Earliest(i) == i \in left /\ \A j \in left : i <= j

----------------------------------------------------------------------------

Init ==
  /\ call \in Calls
  /\ phase = "called"
  /\ left = {} /\ queue = <<>> /\ head = 0
  /\ seeds = <<>> /\ taken = 0 /\ stack = <<>>
  /\ out = <<>> /\ overflow = FALSE

\* A failure to allocate the queue, the seeds or the index of edges ends the
\* call without results; the failed prefix of H-CET has no seeds to go on from.
AllocFails ==
  /\ \/ phase = "called"
     \/ phase = "breadth" /\ left = {} /\ head = Len(queue) /\ Hybrid
  /\ phase' = "done"
  /\ overflow' = TRUE
  /\ UNCHANGED <<call, left, queue, head, seeds, taken, stack, out>>

Begin ==
  /\ phase = "called"
  /\ phase' = IF call.engine = "mcet" THEN "depth" ELSE "starts"
  /\ left' = StartPositions
  /\ UNCHANGED <<call, queue, head, seeds, taken, stack, out, overflow>>

\* Breadth first: the start vertices are enqueued until the queue is full.
EnqueueStart ==
  /\ phase = "starts"
  /\ \E i \in left :
       /\ Earliest(i)
       /\ queue' = Fill(queue, <<StartState(i)>>)
       /\ overflow' = (overflow \/ Spills(queue, <<StartState(i)>>))
       /\ left' = IF Spills(queue, <<StartState(i)>>) THEN {} ELSE left \ {i}
  /\ UNCHANGED <<call, phase, head, seeds, taken, stack, out>>

StartsDone ==
  /\ phase = "starts"
  /\ left = {}
  /\ phase' = "breadth"
  /\ UNCHANGED <<call, left, queue, head, seeds, taken, stack, out, overflow>>

\* Take up the next state: a whole (prefix of the) pattern is emitted.
Dequeue ==
  /\ phase = "breadth"
  /\ left = {}
  /\ head < Len(queue)
  /\ head' = head + 1
  /\ LET s == queue[head + 1] IN
       IF s.idx >= PrefixLen
         THEN /\ seeds' = Fill(seeds, <<s.path>>)
              /\ overflow' = (overflow \/ Spills(seeds, <<s.path>>))
              /\ UNCHANGED left
         ELSE /\ left' = OutEdges(Last(s.path))
              /\ UNCHANGED <<seeds, overflow>>
  /\ UNCHANGED <<call, phase, queue, taken, stack, out>>

\* Examine one edge of the state taken up last.
BreadthEdge ==
  /\ phase = "breadth"
  /\ \E i \in left :
       /\ Latest(i)
       /\ left' = left \ {i}
       /\ LET s     == queue[head]
              along == Along(s, call.graph.edges[i])
              new   == IF TooLong(s.path) THEN <<>> ELSE along
          IN  /\ queue' = Fill(queue, new)
              /\ overflow' = \/ overflow
                             \/ TooLong(s.path) /\ along # <<>>
                             \/ Spills(queue, new)
  /\ UNCHANGED <<call, phase, head, seeds, taken, stack, out>>

\* T-CET returns what it found; H-CET goes on from it.
BreadthDone ==
  /\ phase = "breadth"
  /\ left = {}
  /\ head = Len(queue)
  /\ IF Hybrid
       THEN phase' = "depth" /\ UNCHANGED out
       ELSE phase' = "done" /\ out' = seeds
  /\ UNCHANGED <<call, left, queue, head, seeds, taken, stack, overflow>>

----------------------------------------------------------------------------

Emit(path) ==
  /\ out' = Fill(out, <<path>>)
  /\ overflow' = (overflow \/ Spills(out, <<path>>))

Waiting(s) == [state |-> s, begun |-> FALSE, left |-> {}]

\* M-CET starts a depth-first search at every start vertex.
McetStart ==
  /\ phase = "depth"
  /\ stack = <<>>
  /\ \E i \in left :
       /\ Earliest(i)
       /\ left' = left \ {i}
       /\ stack' = <<Waiting(StartState(i))>>
  /\ UNCHANGED <<call, phase, queue, head, seeds, taken, out, overflow>>

\* Mutant of SeedState: the time allowed is counted from the switch.
SeedStateFromSwitch(path) == State(path, PrefixLen, Time(Last(path)))

\* The state at which the depth-first search takes over a path.
SeedState(path) == State(path, PrefixLen, Time(path[1]))

\* H-CET starts one from every path found breadth first, at the step after
\* the prefix, or emits the path if there is none.
HcetSeed ==
  /\ phase = "depth"
  /\ stack = <<>>
  /\ taken < Len(seeds)
  /\ taken' = taken + 1
  /\ LET path == seeds[taken + 1] IN
       IF PrefixLen >= Len(call.seq)
         THEN Emit(path) /\ UNCHANGED stack
         ELSE /\ stack' = <<Waiting(SeedState(path))>>
              /\ UNCHANGED <<out, overflow>>
  /\ UNCHANGED <<call, phase, left, queue, head, seeds>>

\* A call of dfs() begins: a path too long is given up, even a whole one,
\* and a whole one emitted; otherwise the edges of its last vertex are next.
DfsCall ==
  /\ phase = "depth"
  /\ stack # <<>>
  /\ ~Head(stack).begun
  /\ LET s == Head(stack).state IN
       \/ /\ TooLong(s.path)
          /\ overflow' = TRUE
          /\ stack' = Tail(stack)
          /\ UNCHANGED out
       \/ /\ ~TooLong(s.path)
          /\ s.idx >= Len(call.seq)
          /\ Emit(s.path)
          /\ stack' = Tail(stack)
       \/ /\ ~TooLong(s.path)
          /\ s.idx < Len(call.seq)
          /\ stack' = <<[state |-> s, begun |-> TRUE, left |-> OutEdges(Last(s.path))]>>
                        \o Tail(stack)
          /\ UNCHANGED <<out, overflow>>
  /\ UNCHANGED <<call, phase, left, queue, head, seeds, taken>>

\* dfs() calls itself along one edge, once for every move.
DfsEdge ==
  /\ phase = "depth"
  /\ stack # <<>>
  /\ Head(stack).begun
  /\ \E i \in Head(stack).left :
       /\ \A j \in Head(stack).left : j <= i
       /\ LET top   == Head(stack)
              along == Along(top.state, call.graph.edges[i])
          IN  stack' = [m \in DOMAIN along |-> Waiting(along[m])]
                       \o <<[top EXCEPT !.left = @ \ {i}]>> \o Tail(stack)
  /\ UNCHANGED <<call, phase, left, queue, head, seeds, taken, out, overflow>>

\* Mutant of DfsReturn: the first call never returns.
DfsReturnNested ==
  /\ phase = "depth"
  /\ Len(stack) > 1
  /\ Head(stack).begun
  /\ Head(stack).left = {}
  /\ stack' = Tail(stack)
  /\ UNCHANGED <<call, phase, left, queue, head, seeds, taken, out, overflow>>

DfsReturn ==
  /\ phase = "depth"
  /\ stack # <<>>
  /\ Head(stack).begun
  /\ Head(stack).left = {}
  /\ stack' = Tail(stack)
  /\ UNCHANGED <<call, phase, left, queue, head, seeds, taken, out, overflow>>

DepthDone ==
  /\ phase = "depth"
  /\ stack = <<>>
  /\ left = {}
  /\ taken = Len(seeds)
  /\ phase' = "done"
  /\ UNCHANGED <<call, left, queue, head, seeds, taken, stack, out, overflow>>

Next ==
  \/ AllocFails \/ Begin
  \/ EnqueueStart \/ StartsDone \/ Dequeue \/ BreadthEdge \/ BreadthDone
  \/ McetStart \/ HcetSeed \/ DfsCall \/ DfsEdge \/ DfsReturn \/ DepthDone

\* One thread runs the call to its end.
Spec == Init /\ [][Next]_vars /\ WF_vars(Next)

----------------------------------------------------------------------------
(* What a path of the results must be.                                     *)

\* The events of the path follow edges of the graph in time, within the time
\* allowed since the first one and inside the windows of the edges.
Causal(path) ==
  /\ \A k \in 1..Len(path) - 1 :
       /\ Time(path[k]) <= Time(path[k + 1])
       /\ \E i \in OutEdges(path[k]) :
            LET e == call.graph.edges[i] IN
              /\ e.dst = path[k + 1]
              /\ \/ e.window_end_ms <= e.window_start_ms
                 \/ /\ e.window_start_ms <= Time(path[k])
                    /\ Time(path[k + 1]) <= e.window_end_ms
  /\ call.within_ms >= 0 =>
       \A k \in 1..Len(path) : Time(path[k]) - Time(path[1]) <= call.within_ms

\* Some events of the path, the first one first, match the first n steps in
\* order.
Covers(path, n) ==
  \E at \in [1..n -> 1..Len(path)] :
    /\ at[1] = 1
    /\ \A i, j \in 1..n : i < j => at[i] < at[j]
    /\ \A i \in 1..n : Type(path[at[i]]) = call.seq[i].name

StartsInRange(path) == \E i \in StartPositions : path[1] = call.graph.order[i]

\* States and variables are within the arrays that hold them.
SearchState ==
  [path : Seq(Vertices), idx : 1..Len(call.seq), start_ts : Int]

KernelTypeOK ==
  /\ IsCall(call)
  /\ phase \in {"called", "starts", "breadth", "depth", "done"}
  /\ left \subseteq DOMAIN call.graph.order \cup DOMAIN call.graph.edges
  /\ queue \in Seq(SearchState) /\ Len(queue) <= MaxPaths
  /\ \A k \in DOMAIN queue : Len(queue[k].path) \in 1..MaxPathLen
  /\ head \in 0..Len(queue)
  /\ seeds \in Seq(Seq(Vertices)) /\ Len(seeds) <= MaxPaths
  /\ taken \in 0..Len(seeds)
  /\ stack \in Seq([state : SearchState, begun : BOOLEAN,
                    left : SUBSET DOMAIN call.graph.edges])
  /\ \A k \in DOMAIN stack : Len(stack[k].state.path) \in 1..MaxPathLen
  /\ out \in Seq(Seq(Vertices)) /\ Len(out) <= MaxPaths
  /\ overflow \in BOOLEAN

\* Every path emitted starts in the range searched, follows the graph in time
\* and contains the whole pattern in order, its last event matching the last
\* step: the checks of edge_temporal_ok and type_and_pred_match hold along
\* it, whichever engine found it and wherever H-CET switched.
PathsSound ==
  \A k \in DOMAIN out :
    /\ StartsInRange(out[k])
    /\ Causal(out[k])
    /\ Covers(out[k], Len(call.seq))
    /\ Type(Last(out[k])) = call.seq[Len(call.seq)].name

----------------------------------------------------------------------------
(* Which paths there are, apart from any order of search.                  *)

\* The vertices along a sequence of edges from v.
Route(v, es) ==
  [k \in 1..Len(es) + 1 |-> IF k = 1 THEN v ELSE call.graph.edges[es[k - 1]].dst]

\* The sequences of edges from v a search may follow.
Walks(v) ==
  {es \in UNION {[1..n -> DOMAIN call.graph.edges] : n \in 0..MaxPathLen} :
     \A k \in DOMAIN es :
       LET e == call.graph.edges[es[k]] IN
         /\ e.src = Route(v, es)[k]
         /\ EdgeTemporalOk(e.src, e.dst, Time(v), e)}

\* The ways of following the steps along a path: an event that can be the
\* next step is taken as that step or, where the step repeats, as a repetition
\* before it; any other is skipped; nothing follows the last step.  reached[k]
\* is the number of steps matched by the first k events.
Progress(path) ==
  {reached \in [1..Len(path) -> 1..Len(call.seq)] :
     /\ reached[1] = 1
     /\ \A k \in 1..Len(path) - 1 :
          /\ reached[k] < Len(call.seq)
          /\ LET step == call.seq[reached[k] + 1]
                 gain == reached[k + 1] - reached[k]
             IN  \/ gain = 1 /\ Type(path[k + 1]) = step.name
                 \/ gain = 0 /\ (Type(path[k + 1]) # step.name \/ step.kleene_plus)}

\* The ways of reading a path as a match: its last event completes the pattern.
Readings(path) == {reached \in Progress(path) : reached[Len(path)] = Len(call.seq)}

\* A call that reports no overflow has emitted every match exactly as often
\* as there are edges to walk and ways to read it, so the three engines, at
\* every switch depth, find the same; nothing is cut off silently.
ResultsExact ==
  phase = "done" /\ ~overflow =>
    \A i \in StartPositions :
      LET v == call.graph.order[i] IN
        \A es \in Walks(v) :
          LET path == Route(v, es) IN
            Cardinality({k \in DOMAIN out : out[k] = path})
              = Cardinality({w \in Walks(v) : Route(v, w) = path})
                  * Cardinality(Readings(path))

----------------------------------------------------------------------------
(* What a call has to hold, and what it gives up.                          *)

\* Everything a search may go through: the start, the edges taken and the
\* steps matched on the way.
Partials ==
  UNION {UNION {{[start |-> i, walk |-> es, reached |-> reached] :
                   reached \in Progress(Route(call.graph.order[i], es))} :
                  es \in Walks(call.graph.order[i])} : i \in StartPositions}

Length(p) == Len(p.walk) + 1
Matched(p) == p.reached[Length(p)]

DepthFirst == call.engine = "mcet" \/ PrefixLen < Len(call.seq)

\* What goes through the queue, and what a call of dfs() begins with.
Queued(p) ==
  call.engine # "mcet" /\ \A k \in 1..Len(p.walk) : p.reached[k] < PrefixLen
Descended(p) ==
  DepthFirst /\ (call.engine = "mcet" \/ Matched(p) >= PrefixLen)

\* More states than the queue has entries, or more results than there is room
\* for; an event beyond the longest path of the breadth-first search, or a
\* path of dfs() as long as the longest, which it gives up even when whole.
Exceeds ==
  LET partials == Partials
  IN  \/ \E p \in partials : Queued(p) /\ Length(p) > MaxPathLen
      \/ \E p \in partials : Descended(p) /\ Length(p) >= MaxPathLen
      \/ Cardinality({p \in partials : Queued(p) /\ Length(p) <= MaxPathLen}) > MaxPaths
      \/ Cardinality({p \in partials : Matched(p) = Len(call.seq)}) > MaxPaths

\* Overflow is reported whenever the call has more to go through than its
\* arrays hold, and otherwise only with empty results, as after a failed
\* allocation.
OverflowExact ==
  phase = "done" => IF overflow THEN out = <<>> \/ Exceeds ELSE ~Exceeds

\* A call of the kernel returns.
Terminates == <>(phase = "done")
=============================================================================
