---------------------------- MODULE BatchRuntime ----------------------------
(***************************************************************************)
(* The batch runtime: CETRuntimeV4 of src/bindings/python/                 *)
(* multi_query_runtime.py, with the filter and the native pattern of       *)
(* dsl.py and the checks of event_contracts.py.  It runs every query over  *)
(* a list of events: it builds the graph of the candidate events           *)
(* (SecurityGraph), lets the native kernel search it for the sequence the  *)
(* kernel can express (CetKernel), and validates the rest on every path    *)
(* found (TrendMatch).                                                     *)
(*                                                                         *)
(* The notebooks call it with one native thread and without                *)
(* raise_on_overflow, so a search that gives something up says so only in  *)
(* its statistics; the call of the parallel engine then never fails, but   *)
(* for an empty pattern, which the parser of the kernel has refused.       *)
(*                                                                         *)
(* Abstractions.  Events are records as for SecurityGraph, with a number   *)
(* for an id; in a list two of them may have one id, but the ids of a list *)
(* stay apart when the bridge narrows them to a C int.  A step has,        *)
(* besides the set of its aliases, the first one, canonical.  Operators    *)
(* of a predicate have one spelling each, and the only values float()      *)
(* takes are numbers.  The kernel's results are those ResultsExact and     *)
(* OverflowExact of CetKernel establish: all matches or, after an          *)
(* overflow, any part of them.  Native patterns are no longer than         *)
(* CET_MAX_SEQ, beyond which they are cut off, and names no longer than    *)
(* the kernel's.  Risk scores and features are left out, and so are        *)
(* exceptions of theirs, of Python's regular expressions and memory, and   *)
(* of values that cannot be hashed.                                        *)
(***************************************************************************)
EXTENDS TrendMatch

CONSTANTS
  EntityKeys, EmptyValue, MaxGap,   \* as for SecurityGraph
  MaxPathLen, MaxPaths,             \* CET_MAX_PATH_LEN, CET_MAX_PATHS
  MaxEvents, MaxEdges,              \* CET_MAX_EVENTS, CET_MAX_EDGES
  MaxInt,                           \* the greatest C int
  Numbers,                          \* the values float() takes
  TextMatches                       \* <<operator, pattern, text>>: the text matches

ASSUME BatchAssumption ==
  /\ IsFiniteSet(EntityKeys)
  /\ MaxGap \in Int \cup {Unlimited}
  /\ MaxPathLen \in Nat \ {0}
  /\ MaxInt \in Nat

Graph == INSTANCE SecurityGraph

\* The operators of the kernel for one call, whatever the search has done.
Kernel(c) == INSTANCE CetKernel WITH
  call <- c, EventTypes <- {}, Calls <- {},
  phase <- "called", left <- {}, queue <- <<>>, head <- 0, seeds <- <<>>,
  taken <- 0, stack <- <<>>, out <- <<>>, overflow <- FALSE

----------------------------------------------------------------------------

\* validate_events: no two events of the list share an id; a list is a set of
\* positions and the events at them.
ValidEvents(list, at) ==
  \A i, j \in list : at[i].event_id = at[j].event_id => i = j

Compared(p, e) == p.event_type = NoValue \/ e.event_type = p.event_type

\* FieldPredicate.evaluate, where it does not raise.
Evaluate(p, e) ==
  LET actual  == e.field[p.field]
      numbers == actual \in Numbers /\ p.value \in Numbers
  IN  \/ ~Compared(p, e)
      \/ p.op = "exists"     /\ actual # NoValue
      \/ p.op = "not_exists" /\ actual = NoValue
      \/ p.op = "eq"         /\ actual = p.value
      \/ p.op = "ne"         /\ actual # p.value
      \/ p.op = "in"         /\ actual \in p.value
      \/ p.op = "not_in"     /\ actual \notin p.value
      \/ p.op \in {"contains", "regex"} /\ actual # NoValue /\ <<p.op, p.value, actual>> \in TextMatches
      \/ p.op = "gt"         /\ numbers /\ actual > p.value
      \/ p.op = "gte"        /\ numbers /\ actual >= p.value
      \/ p.op = "lt"         /\ numbers /\ actual < p.value
      \/ p.op = "lte"        /\ numbers /\ actual <= p.value

PredicateOps ==
  {"exists", "not_exists", "eq", "ne", "in", "not_in", "contains", "regex",
   "gt", "gte", "lt", "lte"}

\* Any other operator raises an exception over two numbers.
EvaluateRaises(p, e) ==
  /\ p.op \notin PredicateOps /\ Compared(p, e)
  /\ e.field[p.field] \in Numbers /\ p.value \in Numbers

\* filter_events_for_query
FilterEvents(q, events) ==
  {e \in events : /\ e.event_type \in ReferencedTypes(q)
                  /\ \A k \in DOMAIN q.where : Evaluate(q.where[k], e)}

\* Predicates are evaluated in turn up to the first that does not hold.
FilterRaises(q, events) ==
  \E e \in events : /\ e.event_type \in ReferencedTypes(q)
                    /\ \E k \in DOMAIN q.where :
                         /\ EvaluateRaises(q.where[k], e)
                         /\ \A j \in 1..k - 1 : Evaluate(q.where[j], e)

NativeToken(step) ==
  [name        |-> step.canonical,
   kleene_plus |-> step.min_repeats = 1 /\ step.max_repeats = Unlimited]

\* Mutant of NativePattern: optional steps are asked for.
NativePatternWithOptional(q) == [k \in DOMAIN q.steps |-> NativeToken(q.steps[k])]

\* What the kernel is asked to find: steps that may be missing are left out,
\* alternatives but the first are lost, and repeat bounds too.
NativePattern(q) ==
  LET asked == {k \in DOMAIN q.steps : ~Optional(q.steps[k])}
      place == Ranked(asked, {p \in asked \X asked : p[1] < p[2]})
  IN  [k \in DOMAIN place |-> NativeToken(q.steps[place[k]])]

\* The call of the kernel for a query over events.
HcetCall(q, events) ==
  [graph |-> Graph!Build(events), seq |-> NativePattern(q), within_ms |-> q.within_ms,
   engine |-> "hcet", switch_depth |-> 2, begin |-> 0, end |-> Cardinality(events)]

\* The paths it is to find, each with the number of times it is among the
\* results.
NativeMatches(q, events) ==
  LET c == HcetCall(q, events)
      starts == {c.graph.order[i] : i \in Kernel(c)!StartPositions}
      routed == UNION {{<<v, es>> : es \in Kernel(c)!Walks(v)} : v \in starts}
      paths  == {Kernel(c)!Route(w[1], w[2]) : w \in routed}
  IN  {[path   |-> p,
        copies |-> Cardinality({w \in routed : Kernel(c)!Route(w[1], w[2]) = p})
                     * Cardinality(Kernel(c)!Readings(p))] :
         p \in {r \in paths : Kernel(c)!Readings(r) # {}}}

\* Some of the matches, as often as they are found or less.
Parts(matches) ==
  {part \in SUBSET UNION {[path : {m.path}, copies : 1..m.copies] : m \in matches} :
     \A m, n \in part : m.path = n.path => m = n}

\* What run_hcet may return: all matches unless the search exceeds the arrays
\* of the kernel, or none where these cannot be allocated.
RunHcet(q, events) ==
  {[overflow |-> TRUE, matches |-> {}]}
  \cup IF Kernel(HcetCall(q, events))!Exceeds
         THEN [overflow : {TRUE},
               matches  : Parts({m \in NativeMatches(q, events) : Len(m.path) <= MaxPathLen})]
         ELSE {[overflow |-> FALSE, matches |-> NativeMatches(q, events)]}

\* _build_graph raises.
TooLarge(events) ==
  Cardinality(events) > MaxEvents \/ Cardinality(Graph!Edges(events)) > MaxEdges

\* An id as a C int.
CInts == -(MaxInt + 1)..MaxInt
Narrow(id) ==
  IF id \in CInts THEN id ELSE ((id + MaxInt + 1) % (2 * (MaxInt + 1))) - (MaxInt + 1)

----------------------------------------------------------------------------

EventsById(events) ==
  [i \in {e.event_id : e \in events} |-> CHOOSE e \in events : e.event_id = i]

\* The matches as they come back, those of unknown ids left out.
Returned(events, matches) ==
  {m \in {[n EXCEPT !.path = [k \in DOMAIN n.path |-> Narrow(n.path[k])]] : n \in matches} :
     ToSet(m.path) \subseteq {e.event_id : e \in events}}

\* Those that satisfy what the kernel cannot express.
Validated(q, events, matches) ==
  LET by_id == EventsById(events)
      ids   == SetToSeq(DOMAIN by_id)
  IN  {[query |-> q.id, partition |-> by_id[m.path[1]].partition_key,
        path |-> m.path, copies |-> m.copies] :
         m \in {n \in matches : ValidatePath(q, by_id, ids, n.path)}}

\* The validation of one of them raises.
ValidationRaises(q, events, matches) ==
  LET by_id == EventsById(events)
  IN  \E m \in matches : PathRaises(q, by_id, SetToSeq(DOMAIN by_id), m.path)

Result(raised, overflow, trends) == [raised |-> raised, overflow |-> overflow, trends |-> trends]
Raised == Result(TRUE, FALSE, {})

\* _run_query: what it may come to.  The kernel cannot parse an empty pattern.
RunQuery(q, events) ==
  LET cand == FilterEvents(q, events)
      found(r) == Returned(cand, r.matches)
  IN  IF FilterRaises(q, events) THEN {Raised}
      ELSE IF cand = {} THEN {Result(FALSE, FALSE, {})}
      ELSE IF NativePattern(q) = <<>> \/ TooLarge(cand) THEN {Raised}
      ELSE {IF ValidationRaises(q, cand, found(r)) THEN Raised
            ELSE Result(FALSE, r.overflow, Validated(q, cand, found(r))) :
              r \in RunHcet(q, cand)}

\* run over the registry's enabled queries: one result of each.  The list is a
\* set of positions and the events at them.
Run(queries, list, at) ==
  LET events   == {at[i] : i \in list}
      possible == UNION {{q} \X RunQuery(q, events) : q \in queries}
      together(f) == IF \E q \in queries : f[q].raised THEN Raised
                     ELSE Result(FALSE, \E q \in queries : f[q].overflow,
                                 UNION {f[q].trends : q \in queries})
  IN  IF ~ValidEvents(list, at) THEN {Raised}
      ELSE {together(f) : f \in {g \in [queries -> {o[2] : o \in possible}] :
                                   \A q \in queries : <<q, g[q]>> \in possible}}

----------------------------------------------------------------------------

\* What a query asks for: every match of its native pattern among the events
\* it keeps that is valid, whatever the kernel and the bridge make of it.  The
\* native pattern is not empty.
WholeTrends(q, events) ==
  LET cand == FilterEvents(q, events) IN Validated(q, cand, NativeMatches(q, cand))
=============================================================================
