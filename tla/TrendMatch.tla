----------------------------- MODULE TrendMatch -----------------------------
(***************************************************************************)
(* How one standing query finds its trends in the events of a partition:   *)
(* _match_query_paths of src/bindings/python/standing/runtime.py and the   *)
(* path validation of src/bindings/python/dsl.py.                          *)
(*                                                                         *)
(* A query is a record with its id, its steps, within_ms, its absence      *)
(* conditions (without field predicates), the sequence of its relation     *)
(* constraints and that of its predicates on event fields, where, which    *)
(* only the batch runtime consults; the query's text is parsed elsewhere,  *)
(* by a parser that takes any operator of a relation or a predicate.  A    *)
(* relation names each place of a path once.  A step matches an event type *)
(* among its aliases and repeats between min_repeats and max_repeats times.*)
(* evts maps event ids to events, ids is the sequence of candidate ids in  *)
(* the order (event_time_ms, event_id), and a path is a sequence of event  *)
(* ids.                                                                    *)
(***************************************************************************)
EXTENDS Integers, Sequences, FiniteSets, SequencesExt

CONSTANTS
  Unlimited,   \* no upper repeat bound, no absence window
  NoValue      \* a field that is missing or None

ASSUME MatchAssumption == Unlimited \notin Int

\* Queries as the parser makes them.
IsQuery(q) ==
  /\ Len(q.steps) \in Nat /\ DOMAIN q.steps = 1..Len(q.steps)
  /\ q.within_ms \in Int
  /\ \A k \in 1..Len(q.steps) : /\ q.steps[k].min_repeats \in Nat
                               /\ q.steps[k].max_repeats \in Nat \cup {Unlimited}
  /\ \A a \in q.absence : a.within_ms \in Int \cup {Unlimited}
  /\ Len(q.relations) \in Nat /\ DOMAIN q.relations = 1..Len(q.relations)
  /\ Len(q.where) \in Nat /\ DOMAIN q.where = 1..Len(q.where)

Optional(step) == step.min_repeats = 0

\* One more repetition may be consumed.  Without a bound the code allows as
\* many repetitions as there are events left, which never stops it.
MayRepeat(step, reps) == step.max_repeats = Unlimited \/ reps < step.max_repeats

\* The members of a finite set in the order less, a set of pairs: sorted().
Ranked(S, less) ==
  [j \in 1..Cardinality(S) |->
     CHOOSE x \in S : Cardinality({y \in S : <<y, x>> \in less}) = j - 1]

\* Mutant of MayTake: the end of the time window is left out.
MayTakeOpenEnd(q, evts, ids, step, pos, first) ==
  LET start == IF first = 0 THEN ids[pos] ELSE ids[first]
      age   == evts[ids[pos]].event_time_ms - evts[start].event_time_ms
  IN  evts[ids[pos]].event_type \in step.aliases /\ 0 <= age /\ age < q.within_ms

\* The event at position pos may be the next of step's repetitions: it is of
\* a type of the step and at most within_ms after the first event of the
\* path, which it is itself when the path is empty (first = 0).
MayTake(q, evts, ids, step, pos, first) ==
  LET start == IF first = 0 THEN ids[pos] ELSE ids[first]
      age   == evts[ids[pos]].event_time_ms - evts[start].event_time_ms
  IN  evts[ids[pos]].event_type \in step.aliases /\ 0 <= age /\ age <= q.within_ms

(***************************************************************************)
(* The depth-first search.  A point of it is a call of rec or of           *)
(* consume_repeats, or a turn of the loop in the latter, with what it      *)
(* reads: the step, the repetitions consumed for it, the position it       *)
(* continues at and the position the path began at (0: it is empty).       *)
(***************************************************************************)
Point(kind, step, reps, pos, first) ==
  [kind |-> kind, step |-> step, reps |-> reps, pos |-> pos, first |-> first]

Points(q, ids) ==
  [kind : {"rec", "consume_repeats", "loop"}, step : 1..Len(q.steps) + 1, reps : Nat,
   pos : 1..Len(ids) + 1, first : 0..Len(ids)]

\* What the search appends to its path from a point on, in the order of the
\* code and as often as it gets there.  rec lists the paths that leave an
\* optional step out before it calls consume_repeats, which lists them again.
Appended(q, evts, ids, list, at) ==
  LET step == q.steps[at.step]
      rest == list[Point("rec", at.step + 1, 0, at.pos, at.first)]
      begun == IF at.first = 0 THEN at.pos ELSE at.first
      taken == list[Point("consume_repeats", at.step, at.reps + 1, at.pos + 1, begun)]
  IN  IF at.step > Len(q.steps) THEN IF at.first = 0 THEN <<>> ELSE << <<>> >>
      ELSE CASE at.kind = "rec" ->
                  (IF Optional(step) THEN rest ELSE <<>>)
                  \o list[Point("consume_repeats", at.step, 0, at.pos, at.first)]
             [] at.kind = "consume_repeats" ->
                  (IF at.reps >= step.min_repeats THEN rest ELSE <<>>)
                  \o (IF MayRepeat(step, at.reps)
                        THEN list[Point("loop", at.step, at.reps, at.pos, at.first)] ELSE <<>>)
             [] at.kind = "loop" ->
                  IF at.pos > Len(ids) THEN <<>>
                  ELSE (IF MayTake(q, evts, ids, step, at.pos, at.first)
                          THEN [j \in DOMAIN taken |-> <<ids[at.pos]>> \o taken[j]] ELSE <<>>)
                       \o list[Point("loop", at.step, at.reps, at.pos + 1, at.first)]

\* Every path the search would find without a limit on matches.
Listing(q, evts, ids) ==
  LET list[at \in Points(q, ids)] == Appended(q, evts, ids, list, at)
  IN  list[Point("rec", 1, 0, 1, 0)]

\* Mutant of MatchQueryPaths: the search is started anew at every event.
MatchFromEveryEvent(q, evts, ids, maxMatches) ==
  LET all == FlattenSeq([j \in 1..Len(ids) |-> Listing(q, evts, SubSeq(ids, j, Len(ids)))])
  IN  SubSeq(all, 1, IF Len(all) < maxMatches THEN Len(all) ELSE maxMatches)

\* The search stops once max_matches paths are found.
MatchQueryPaths(q, evts, ids, maxMatches) ==
  LET all == Listing(q, evts, ids)
  IN  SubSeq(all, 1, IF Len(all) < maxMatches THEN Len(all) ELSE maxMatches)

----------------------------------------------------------------------------
(* Validation of a path.                                                   *)

\* No candidate outside the path, from the partition of its first event and
\* between its ends in time, is of a forbidden type within the window of the
\* absence condition.
ValidateAbsence(q, evts, ids, path) ==
  LET start == evts[Head(path)].event_time_ms
      end   == evts[Last(path)].event_time_ms
  IN  \A i \in ToSet(ids) \ ToSet(path) : \A a \in q.absence :
        ~ /\ evts[i].partition_key = evts[Head(path)].partition_key
          /\ start <= evts[i].event_time_ms /\ evts[i].event_time_ms <= end
          /\ a.within_ms = Unlimited \/ evts[i].event_time_ms - start <= a.within_ms
          /\ evts[i].event_type = a.event_type

\* Mutant of ValidateRelation: a missing value counts as a value.
ValidateRelationWithMissing(r, evts, path) ==
  LET held == IF r.steps = {} THEN DOMAIN path ELSE {k \in DOMAIN path : k - 1 \in r.steps}
      value(k) == evts[path[k]].field[r.field]
  IN  \A j, k \in held : /\ r.op = "same" => value(j) = value(k)
                         /\ r.op = "different" /\ j # k => value(j) # value(k)

\* The chosen places of the path (0-based; all of them when none is named)
\* whose events have a value of the field.
Held(r, evts, path) ==
  {k \in DOMAIN path : /\ r.steps = {} \/ k - 1 \in r.steps
                       /\ evts[path[k]].field[r.field] # NoValue}

\* The values are all the same, or all different.
ValidateRelation(r, evts, path) ==
  LET value(k) == evts[path[k]].field[r.field]
  IN  \A j, k \in Held(r, evts, path) : /\ r.op = "same" => value(j) = value(k)
                                        /\ r.op = "different" /\ j # k => value(j) # value(k)

Supported(r) == r.op \in {"same", "different"}

\* Two values under any other operator raise an exception.
RelationRaises(r, evts, path) ==
  ~Supported(r) /\ \E j, k \in Held(r, evts, path) : j # k

ValidatePath(q, evts, ids, path) ==
  /\ path # <<>>
  /\ ValidateAbsence(q, evts, ids, path)
  /\ \A k \in DOMAIN q.relations : ValidateRelation(q.relations[k], evts, path)

\* The relations are validated in turn up to the first that does not hold.
PathRaises(q, evts, ids, path) ==
  /\ path # <<>>
  /\ ValidateAbsence(q, evts, ids, path)
  /\ \E k \in DOMAIN q.relations :
       /\ RelationRaises(q.relations[k], evts, path)
       /\ \A j \in 1..k - 1 : ValidateRelation(q.relations[j], evts, path)

\* Event types the query names in its steps or absence conditions.
ReferencedTypes(q) ==
  (UNION {q.steps[k].aliases : k \in DOMAIN q.steps}) \cup {a.event_type : a \in q.absence}

Candidates(q, evts, ids) ==
  LET kept  == {i \in DOMAIN ids : evts[ids[i]].event_type \in ReferencedTypes(q)}
      place == Ranked(kept, {p \in kept \X kept : p[1] < p[2]})
  IN  [j \in DOMAIN place |-> ids[place[j]]]

\* The paths of the trends of one query over the events of a partition.  The
\* candidates are bound and not defined, for TLC to compute them once.
QueryPaths(q, evts, ids, maxMatches) ==
  UNION {{path \in ToSet(MatchQueryPaths(q, evts, cand, maxMatches)) :
            ValidatePath(q, evts, cand, path)} : cand \in {Candidates(q, evts, ids)}}

\* Their validation raises instead.
QueryRaises(q, evts, ids, maxMatches) ==
  \E cand \in {Candidates(q, evts, ids)} :
    \E path \in ToSet(MatchQueryPaths(q, evts, cand, maxMatches)) :
      PathRaises(q, evts, cand, path)
=============================================================================
