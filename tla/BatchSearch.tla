---------------------------- MODULE BatchSearch -----------------------------
(***************************************************************************)
(* The two ways the code finds the trends of a query, called with the same *)
(* events: the standing matcher (TrendSearch) and the batch runtime        *)
(* (BatchRuntime), which has the native kernel search for as much of the   *)
(* pattern as the kernel can express.                                      *)
(***************************************************************************)
EXTENDS TrendSearch, BatchRuntime

\* The events of one partition, each under its id, in the order of both.
IsPartition(evts, ids) ==
  /\ ids \in Seq(DOMAIN evts)
  /\ \A i \in DOMAIN ids : /\ evts[ids[i]].event_id = ids[i]
                           /\ ids[i] \in Int /\ evts[ids[i]].event_time_ms \in Int
                           /\ evts[ids[i]].partition_key \in Int
  /\ \A i, j \in DOMAIN ids : /\ evts[ids[i]].partition_key = evts[ids[j]].partition_key
                              /\ i < j => Graph!Before(evts[ids[i]], evts[ids[j]])

\* Ids the bridge keeps apart.
StayApart(ids) == \A i, j \in DOMAIN ids : Narrow(ids[i]) = Narrow(ids[j]) => ids[i] = ids[j]

\* The inputs of kind "batch" are what validate_events lets through.
ASSUME BatchInputsAssumption ==
  \A k \in Inputs : k.kind = "batch" =>
    \A log \in k.logs : IsPartition(log.evts, log.ids) /\ StayApart(log.ids)

VARIABLE batch   \* what the batch runtime comes to

BatchInit == SearchInit /\ batch = Result(FALSE, FALSE, {})

BatchCall ==
  /\ Call
  /\ batch' \in IF input.kind = "batch"
                  THEN Run({input.query}, DOMAIN input.ids,
                           [i \in DOMAIN input.ids |-> input.evts[input.ids[i]]])
                  ELSE {Result(FALSE, FALSE, {})}

BatchSpec == BatchInit /\ [][BatchCall]_<<searchVars, batch>>

----------------------------------------------------------------------------

\* The second event is not before the first.
NotBefore(a, b) == ~Graph!Before(input.evts[b], input.evts[a])

\* A query with nothing but a sequence, each step of one type and the first
\* not optional, for a graph that links its events.
SequenceOnly(q) ==
  /\ q.where = <<>> /\ q.absence = {} /\ q.relations = <<>>
  /\ MaxGap = Unlimited \/ q.within_ms <= MaxGap
  /\ \A k \in DOMAIN q.steps : q.steps[k].aliases = {q.steps[k].canonical}
  /\ ~Optional(q.steps[1])

\* The batch runtime has searched all of the graph.
Searched == called /\ input.kind = "batch" /\ ~batch.raised /\ ~batch.overflow

BatchPaths == {t.path : t \in batch.trends}

\* Where a trend begins that the standing runtime finds, the batch runtime
\* has one that begins there too and ends no later.
Superset ==
  Searched /\ SequenceOnly(input.query) =>
    \A path \in trends : \E b \in BatchPaths : b[1] = path[1] /\ NotBefore(Last(b), Last(path))

\* What the native kernel is asked for, over a graph of the candidates, is a
\* superset, if the events' ids are C ints and no overflow is reported.  Two
\* things are set apart: a step with alternatives, of which the kernel is told
\* only the first, and a first step that may be missing, without which the
\* kernel begins later.
NativeSuperset == ToSet(input.ids) \subseteq CInts => Superset

\* The tables keep "event_id BIGINT" and "the native engine executes the
\* sequence superset": what these two promise together, the same for any id.
WideIdsSuperset == Superset

\* "The native engine executes the sequence superset", whatever the steps.
SequenceSuperset ==
  Searched =>
    \A path \in trends : \E b \in BatchPaths : NotBefore(path[1], b[1]) /\ NotBefore(Last(b), Last(path))
=============================================================================
