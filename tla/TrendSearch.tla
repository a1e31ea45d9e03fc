----------------------------- MODULE TrendSearch -----------------------------
(***************************************************************************)
(* The search of TrendMatch as a program that is called once, with any     *)
(* input, and what its answer ought to be: the paths that the pattern of   *)
(* the query means, said without a search.                                 *)
(***************************************************************************)
EXTENDS TrendMatch

CONSTANT Inputs   \* kinds of calls: their logs (evts, ids), queries and limits on matches

\* Ids of known events, in the order of their times.
InTime(evts, ids) ==
  /\ ids \in Seq(DOMAIN evts)
  /\ \A i \in DOMAIN ids : evts[ids[i]].event_time_ms \in Int
  /\ \A i, j \in DOMAIN ids :
       i < j => evts[ids[i]].event_time_ms <= evts[ids[j]].event_time_ms

ASSUME InputsAssumption ==
  \A k \in Inputs : /\ \A log \in k.logs : InTime(log.evts, log.ids)
                     /\ \A query \in k.queries : IsQuery(query)
                     /\ k.caps \subseteq Nat

VARIABLES input, called, found, raised, trends

searchVars == <<input, called, found, raised, trends>>

SearchInit ==
  /\ \E k \in Inputs : \E log \in k.logs, query \in k.queries, cap \in k.caps :
       input = [kind |-> k.kind, evts |-> log.evts, ids |-> log.ids, query |-> query, cap |-> cap]
  /\ called = FALSE /\ found = <<>> /\ raised = FALSE /\ trends = {}

Call ==
  /\ ~called
  /\ called' = TRUE
  /\ LET q == input.query
     IN  /\ found' = MatchQueryPaths(q, input.evts, Candidates(q, input.evts, input.ids), input.cap)
         /\ raised' = QueryRaises(q, input.evts, input.ids, input.cap)
         /\ trends' = IF raised' THEN {} ELSE QueryPaths(q, input.evts, input.ids, input.cap)
  /\ UNCHANGED input

SearchSpec == SearchInit /\ [][Call]_searchVars

----------------------------------------------------------------------------
(* What a pattern means.                                                   *)

\* The non-empty sequences of positions in order whose events span at most
\* within_ms.
Chains(q, evts, ids) ==
  {p \in UNION {[1..len -> DOMAIN ids] : len \in DOMAIN ids} :
     /\ \A i, j \in DOMAIN p : i < j => p[i] < p[j]
     /\ evts[ids[p[Len(p)]]].event_time_ms - evts[ids[p[1]]].event_time_ms <= q.within_ms}

\* The events can be parted among the steps in order, step k getting those
\* after cut[k] up to cut[k + 1], so that every event has a type of its step
\* and every step gets as many events as it asks for.
Fits(q, evts, ids, p) ==
  \E cut \in [1..Len(q.steps) + 1 -> 0..Len(p)] :
    /\ cut[1] = 0 /\ cut[Len(q.steps) + 1] = Len(p)
    /\ \A j, k \in 1..Len(q.steps) + 1 : j <= k => cut[j] <= cut[k]
    /\ \A k \in 1..Len(q.steps) :
         /\ \A j \in cut[k] + 1..cut[k + 1] : evts[ids[p[j]]].event_type \in q.steps[k].aliases
         /\ cut[k + 1] - cut[k] >= q.steps[k].min_repeats
         /\ \/ q.steps[k].max_repeats = Unlimited
            \/ cut[k + 1] - cut[k] <= q.steps[k].max_repeats

\* The ids at these positions are the paths that the pattern means.
Meaning(q, evts, ids) ==
  {[j \in DOMAIN p |-> ids[p[j]]] : p \in {c \in Chains(q, evts, ids) : Fits(q, evts, ids, c)}}

\* No event but those of the path, of its partition, from its first event to
\* its last and within the window of an absence condition, is of the type
\* that the condition forbids.
Undisturbed(q, evts, ids, path) ==
  LET start == evts[path[1]].event_time_ms
      end   == evts[path[Len(path)]].event_time_ms
  IN  \A i \in ToSet(ids) \ ToSet(path) : \A a \in q.absence :
        \/ evts[i].event_type # a.event_type
        \/ evts[i].partition_key # evts[path[1]].partition_key
        \/ evts[i].event_time_ms \notin start..end
        \/ a.within_ms # Unlimited /\ evts[i].event_time_ms > start + a.within_ms

\* The values of a relation's field are one, or as many as the events that
\* have one, events without one left aside; no other relation can be told of
\* more than one event.
Agree(r, evts, path) ==
  LET known == {j \in DOMAIN path : /\ r.steps = {} \/ j - 1 \in r.steps
                                    /\ evts[path[j]].field[r.field] # NoValue}
      kinds == Cardinality({evts[path[j]].field[r.field] : j \in known})
  IN  CASE r.op = "same"      -> kinds <= 1
        [] r.op = "different" -> kinds = Cardinality(known)
        [] OTHER              -> Cardinality(known) <= 1

Related(q, evts, path) == \A k \in DOMAIN q.relations : Agree(q.relations[k], evts, path)

\* The search finds paths that the pattern means, and all of them unless it
\* stopped at the limit on matches.
SearchIsExact ==
  called => LET meaning == Meaning(input.query, input.evts, input.ids)
            IN  /\ ToSet(found) \subseteq meaning
                /\ Len(found) < input.cap => ToSet(found) = meaning

\* The trends are paths the pattern means that no forbidden event disturbs
\* and whose events agree or differ as the query asks, and all of them unless
\* the search stopped at the limit on matches.  An evaluation fails only over
\* a relation that is neither of the two.
TrendsAreValid ==
  called => LET valid == {path \in Meaning(input.query, input.evts, input.ids) :
                            /\ Undisturbed(input.query, input.evts, input.ids, path)
                            /\ Related(input.query, input.evts, path)}
            IN  IF raised
                  THEN \E k \in DOMAIN input.query.relations : ~Supported(input.query.relations[k])
                  ELSE /\ trends \subseteq valid
                       /\ Len(found) < input.cap => trends = valid
=============================================================================
