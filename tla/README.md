# TLA+ models of 0xDSI-CET

Models, model-checking runs and machine-checked proofs for 0xDSI-CET, a
detector of complex event trends in security telemetry: events are kept as a
temporal graph, queries such as `LOGIN,PRIV+,EXFIL within 10 min` select paths of
events (trends), and the trends are reported, kept up to date and retracted.

All paths below are relative to `src/`.

## The system

| Component | Source | State | Operations | Talks to |
|---|---|---|---|---|
| Temporal graph state | `bindings/python/standing/runtime.py` | events by id, ids by partition, edges by source and by destination, revision | upsert_event, remove_event, snapshot, load_snapshot | called by the standing runtime |
| Standing matcher, path validation | `standing/runtime.py`, `dsl.py` | none (pure search) | _match_query_paths, validate_path | called for every query and partition |
| Standing runtime, sinks | `standing/runtime.py`, `standing/sinks.py` | active trends; what each sink was told | process_event, remove_event, replay; emit | graph, matcher, registry, sinks |
| Query DSL | `dsl.py` | none | parsing, predicates, native pattern | registry, matcher, batch runtime |
| Query registry | `query_registry.py` | queries by id and version | add, get, enabled, validation | everything that runs queries |
| C kernel | `c_engine/src/algorithms.c` | search stack, state queue, result table, statistics | M-CET, T-CET, H-CET | bridge, parallel runtime |
| Parallel runtime, arena | `c_engine/src/parallel_hcet.c`, `runtime.c` | workers, their results, the arena | shard, run, merge; open, alloc, close | kernel |
| C parser, graph, windows | `c_engine/src/dsl.c`, `graph.c`, `sliding.c` | graph tables | parse, add vertex and edge, list windows | bridge |
| Optimizer, partial cache | `c_engine/src/optimizer.c` | plan, cache | greedy, branch and bound, delta, touch | kernel, bridge |
| ctypes bridge | `bindings/python/bridge.py` | none | edge construction, execution | batch runtime |
| Multi-query runtime | `multi_query_runtime.py` | none | filter, execute, validate | bridge, DSL |
| Security graph builder | `security_graph.py` | none | relation edges | batch runtime, bridge |
| Partial state | `state.py`, `jobs/state_ttl_prod.py` | partial trends | upsert, compact, expire | batch jobs |
| Event contracts | `event_contracts.py` | none | validate_events | batch runtime |
| Production notebook | `notebooks/0xDSI_CET_Databricks_prod.py` | Delta tables: buffer, trends, metrics, dead letters; the offsets of the stream | process_batch | kernel, tables |
| Main and v4 notebooks | `notebooks/0xDSI_CET_Databricks_main.py`, `..._v4.py` | Delta tables: buffer, trends, dead letters; offsets | process_batch | batch runtime, tables |
| ZeroBus ingest | `jobs/zerobus_to_delta_ingest_prod.py`, `connectors/` | the event table | poll, append | the source, the notebooks |
| Replay pipeline | `jobs/late_event_replay_prod.py`, `recompute_trends_prod.py`, `retract_and_upsert_v2.sql` | impacted windows, recomputed trends | detect, recompute, retract, upsert | tables of the production notebook |
| Standing notebook and job | `notebooks/0xDSI_CET_Standing_Runtime.py`, `jobs/standing_runtime_replay_prod.py` | output tables | run a runtime over a batch | standing runtime |
| Analytics, adapters, tooling | `features.py`, `risk.py`, ... | none | pure functions | – |

What is hard in it:

- **Standing runtime.** A mutation changes one event, but edges, the partition
  index and the trends of one or two partitions depend on it. Only one partition
  is evaluated. The dictionary of active trends is replaced before the changes
  are delivered, and a sink may raise in between. The process may restart over
  an older graph. Correct means: both edge maps agree and hold only edges of the
  events as stored; active is the graph's trends; every reader is told what it
  does not know, in an order that never leaves it wrong.
- **Matcher.** Optional and repeated steps reach one path more than once, while
  a limit counts every reach. Correct means: the search finds exactly what the
  pattern means unless it stopped at its limit.
- **Kernel.** Three search orders with different cut-offs for long paths and
  full arrays. Correct means: every path emitted follows the graph in time and
  contains the pattern, each engine finds every match unless it reports an
  overflow, and a search ends even where events of equal time are linked in a
  circle.
- **Parallel kernel.** Threads that start or fail to, and end in any order,
  write into one arena. Correct means: shards cover every start vertex once, the
  arena's blocks are apart and outlive the threads, the merge is exact or
  reported as cut off.
- **Production stream.** A batch reads and writes four tables one after another;
  the driver may fail between any two, and the batch runs again on tables it has
  already changed. Spark evaluates the view of the buffer after the buffer was
  rewritten. Rows expire by the clock. Correct means: the buffer holds whatever
  may still share a trend with a row to come, what a batch finds is a trend of
  everything read so far, and a batch is written off only when its trends are in
  the table, once each.
- **Replay pipeline.** Four jobs repair the trends table after late events, beside
  the stream that writes it. Correct means: no valid trend is withdrawn, and in
  the end the windows hold exactly the trends of the event table.
- **Ingest and main notebook.** The ingest job begins with the first message in
  every run, a failed batch is appended to the buffer again, and the rows of a
  partition may be read by several tasks. Correct means: events are given up only
  for these reasons, and nothing is missed without them.

The hazards, each at its line and with the properties that cover it or the
reason why none does, are in `PROJECT.json`.

## Modules

| Module | What it is |
|---|---|
| `TemporalGraph` | the class TemporalGraphState: one action per method |
| `TrendMatch` | the matcher and the path validation, as operators |
| `TrendSearch` | one call of them with any input, and what a pattern means (abstract specification) |
| `TemporalFeed` | the graph with a history: only ever fed new events |
| `StandingRuntime` | the class StandingTrendRuntime over the two, with its sinks, faults and restarts |
| `StandingFaults` | the runtime with a history: a sink has raised |
| `StandingView` | what the runtime promises to the reader of a sink (abstract specification) |
| `SecurityGraph` | the graph builder of the batch runtime, as operators |
| `CetKernel` | the three engines of the native kernel, edge by edge |
| `ParallelHcet` | H-CET on several threads with its arena |
| `BatchRuntime` | the batch runtime: filter, native pattern, graph, kernel, validation, as operators |
| `BatchSearch` | one call of it beside one of the standing matcher, with the same events |
| `ChainSearch` | what the kernel finds in the rows of one bucket of the production notebook, as operators |
| `MicroBatch` | the production notebook: tables, offsets, failures |
| `ReplayPipeline` | the four replay jobs beside `MicroBatch` on its tables |
| `ZeroBusIngest` | the ingest job and its re-runs |
| `MainBatch` | the main and the v4 notebook over `BatchRuntime`, fed by `ZeroBusIngest` |
| `MCTemporalGraph`, `MCTrendMatch`, `MCStandingRuntime`, `MCStandingFaults`, `MCCetKernel`, `MCParallelHcet`, `MCLakehouse`, `MCMainBatch` | instances for TLC |
| `TrendMatch_proofs`, `StandingRuntime_proofs` (with `TemporalGraph`), `CetKernel_proofs`, `ParallelHcet_proofs`, `BatchRuntime_proofs`, `BatchSearch_proofs`, `MainBatch_proofs`, `ReplayPipeline_proofs` (with `ChainSearch`) | theorems and proofs |

`StandingRuntime` is made of `TemporalGraph` and `TrendMatch`. `MCCetKernel` gives
`CetKernel` the graphs that `SecurityGraph` builds. `ParallelHcet` uses, for the
search of a shard, what `CetKernel` is checked to promise (`ResultsExact`).
`BatchRuntime` composes `SecurityGraph`, the results of `CetKernel` and the
validation of `TrendMatch`; `BatchSearch` gives one input to `TrendSearch` and to
`BatchRuntime` and compares the two; `ReplayPipeline` extends `MicroBatch`, which extends
`ChainSearch`; `MainBatch` extends `BatchRuntime` and `ZeroBusIngest`.

### How they correspond to the code

**TemporalGraph.** `events`, `byPartition`, `edgesBySrc`, `edgesByDst` and
`revision` are the attributes of the class; `saved` is the last snapshot taken.
`UpsertEvent` is the whole of `upsert_event`: it takes the event out of the index
and erases its edges when it is known, stores it, and adds temporal, entity and
parent edges, in this order (`Reindexed`, `KeptBySrc`/`KeptByDst`, `Stored`,
`RebuiltEdges`, `AddBySrc`/`AddByDst`). `_remove_edges_touching` is `RemoveBySrc`
and `RemoveByDst`, which keep the code's way of finding in one map what to erase
in the other: that the two agree is a theorem, not an assumption.
`RemoveEvent` keeps the code's treatment of the empty partition key (line 198).
Lists of edges are sets (the code keeps one edge per source, destination and
relation), and evidence dictionaries, features and the unread `mutation_log` are
left out.

**TrendMatch.** `Listing` is the depth-first search of `rec` and
`consume_repeats` with the order and the multiplicity of what it finds, because
the limit `max_matches` counts every path found; `MatchQueryPaths` cuts it off
there. A `Point` is a call of either function, or a turn of the loop, with what
it reads; `Appended` is what it appends to the result, in terms of the calls it
makes. A candidate the loop skips for its time or type is one `MayTake` refuses;
the check for an event twice in a path never bites, as positions only grow.
`Ranked` is `sorted()`. `ValidatePath` is `validate_path`; `QueryPaths` is the loop of
`_evaluate_query_partition`. A query is its parsed form. `TrendSearch` calls them
once, with any input, and says without a search what the answer ought to be: a
path is meant (`Meaning`) if its events, in order and within the time, can be
cut into as many stretches as the pattern has steps (`Fits`). The parser takes any
word for the operator of a relation and the validator raises at one it does not
know, once two values are to be compared; `RelationRaises`, `PathRaises` and
`QueryRaises` are this exception, after the conditions that were tested before it.

**StandingRuntime.** `active` holds the keys of the dictionary: a trend is its
query, partition and path, which is what the code hashes into a trend id.
`ProcessEvent` and `RemoveAndEvaluate` are the two entry points up to the
replacement of `active`; the loop over events and sinks at lines 331–333 is
`DeliverPositive` and `DeliverCancel`, one call of `sink.emit` each, so that a
fault may strike between any two. No other call starts before it ends (`Idle`), as
the code is synchronous. `SinkFails` is a sink that raises, `Snapshot` and
`Restart` are the graph saved and a new runtime built over it. `view[s]` is what
the reader of sink `s` believes. Within one kind the order of deliveries is
arbitrary (the code sorts by hash), positive matches come before cancellations.

**SecurityGraph.** `Build` is `SecurityGraphBuilder.build`: vertices in order of
partition, time and id; edges between neighbours of a partition, neighbours
among the events of one value of one key, and a child and its parent process.
`EdgeOf` is `_add_edge` with its direction, gap and self-loop rules.

**CetKernel.** `queue` and `head` are `qbuf`, `tail` and `head` of the
breadth-first search (entries are never reused, as in the code); `seeds` is the
result of the prefix; `stack` is the recursion of `dfs`, a record for each call with
the edges it has yet to examine; `out` and `overflow` are the result and
`stats->overflow`. `Moves` is the part the engines share: `edge_temporal_ok`,
`type_and_pred_match`, repetition and skipping, in the order they are tried.
`Fill` and `Spills` are an array with room for `MaxPaths` entries. T-CET is
`EnqueueStart`, `Dequeue`, `BreadthEdge`, `BreadthDone`; M-CET is `McetStart` and the three
`Dfs...` actions; H-CET is the first up to its prefix and then `HcetSeed` with the
latter. `AllocFails` is each `calloc` that may fail. The long path is treated
differently by the two halves, as in the code: `BreadthEdge` refuses the edge after
event `MaxPathLen`, `DfsCall` gives up a path that has reached it. `Exceeds` says of
a call, without a search, that it has more partial matches, results or events to go
through than the arrays hold; `OverflowExact`, that this is when an overflow is
reported.

**ParallelHcet.** `pc` is where the caller is in `cet_execute_hcet_parallel_ex`
and `cursor` its loop variable, so that a thread may end between any two of its
steps. `Create` is one `pthread_create`, which starts the worker or makes the
caller run the shard; `Join` one `pthread_join`; `Merge` the results of one worker.
`arena` and `block` are the workspace and what `cet_workspace_alloc` cut out of it,
with the sizes in bytes of a 64-bit build in the run. The search of a shard is
one step: threads share only the graph and the query, which nobody writes.

**BatchRuntime.** `RunQuery` is `_run_query` from the filter to the validation of
the paths, as the set of what the call may come to: an exception, or trends and
whether the kernel reported an overflow. `NativePattern` is what the kernel is asked
for, `NativeMatches` the paths that are there in the graph of the candidates, with
their multiplicity, by the operators of `CetKernel` itself. `RunHcet` is what the
kernel returns: all of them, or, where `Exceeds` says so, an overflow with any part of
those shorter than its longest path (`Parts`); none if an allocation fails. `Narrow` is
the conversion of an id to a C int on its way through the bridge, and `Returned` drops
paths that come back with ids nobody knows. The exceptions are a duplicate id, a
predicate with an unknown operator (`FilterRaises`), a pattern with nothing for the
kernel to search, more events or edges than its graph takes (`TooLarge`), and a
relation with an unknown operator (`ValidationRaises`). `Run` puts the queries
together; one that raises takes the results of all with it. Native searches run on
one thread here, so the parallel kernel's error codes do not arise: its one failing
precondition, an empty pattern, is refused by the parser of the kernel before. In
`BatchSearch` one step, `BatchCall`, is a call of the standing matcher and one of
`run`, with one query and the events of one partition.

**ChainSearch.** `process_partition` of the production notebook sorts the rows of
a (query, partition) bucket and links neighbours only, so a path is a stretch of
the sorted rows. `Segment` is such a stretch, `Readings` the ways the kernel can
match it (a path is emitted once for each), `Search` the result rows.

**MicroBatch.** `offset` and `plan` are the offsets written off and planned by
Structured Streaming, `pc` is where `process_batch` stands, and the remaining
variables are the tables, each as a set or a function on its merge key. Each read
and write of a table in `process_batch` is an action: `StartBatch`
(`normalize_current_events`, building the view), `MergeBuffer` and `ExpireBuffer`
(`upsert_event_buffer`), `SearchBuckets` (`process_partition` on the view),
`MergeTrends`, `MergeDlq`, `MergeMetrics`, `Commit`. `Fail` may strike between any
two and leaves the tables as they are. `SearchBuckets` takes the buffer as it was
when the view was built or as it is when the view is evaluated, because Spark does
not say which; `Views` keeps either copy of a duplicate, as `dropDuplicates` does.

**ReplayPipeline.** `Detect`, `Recompute`, `Retract` and `Upsert` are the jobs, in
this order; `stage` is the last one that wrote its table, and the script may be run
again when both its MERGEs are done. The scan for late events knows the lateness in
whole minutes (`Changed`). `recomputed_at` and
`disturbed` record what the event table had when a replay read it and whether
others wrote since; the jobs do not read them.

**ZeroBusIngest, MainBatch.** `AppendBatch` is one append of the job, `Rerun` its
next process, which begins with the first message and has another salt for
`hash()`. `notebook` says which of the two notebooks is deployed. `StartBatch`,
`Process`, `MergeTrends`, `WriteErrors`, `ExpireBuffer` and `Commit` are the steps
of `process_batch`; `reader` in `Process` gives every row to any task, as Spark may, and
`Outcomes` is what the batch runtime may come to for each of their buckets. Nothing
but the statistics in the rows tells a search that was cut short: `together` records,
for the property, which partitions one task read whole and searched without an
overflow.

The definitions named "Mutant of ..." are altered forms of the definition that
follows them, one for each checked property: replacing the definition by its
mutant makes TLC report that property.

## Runs

| Run | Question | States |
|---|---|---|
| `graph` | do edges, index and both maps stay right under any order of upserts, replacements, removals, snapshots and restores? | 320 000 |
| `match` | does the search find what a pattern means, are the trends the valid paths, and does the batch runtime find a trend wherever one begins? | 129 000 |
| `standing_moves` | do deliveries keep readers in step, is nothing cancelled that is valid, and does a call repair its partition, when events also move? | 15 000 |
| `standing_faults` | what survives raising sinks and restarts? | 318 000 |
| `standing_reader` | with two queries, two partitions and tight limits, are the active trends the graph's, and does the runtime implement `StandingView`, with convergence? | 9 000 |
| `kernel` | does each engine find exactly the matches of the graph, or report an overflow, and return? | 61 000 |
| `parallel` | is the result of several threads that of one, and is the arena used within its bounds and its life? | 17 000 |
| `lakehouse` | do the tables of the production stream lose or double nothing, with failures anywhere and a replay beside it, and is a replay exact? | 318 000 |
| `main` | which events does the main or v4 notebook give up, and what does it find, after re-runs of the ingest job, failures and any spread of rows? | 110 000 |
| `doc_metrics`, `doc_superset`, `doc_ids` | three statements of the documentation that the code does not keep (see below) | – |

Bounds, and why they are enough:

- `graph`: three events and four mutations suffice for a third event between two
  others, for an event that changes its partition, time or entity, for one that
  is removed and comes back, and for a restore over a changed graph. Each
  behaviour draws its events from one of three families, since temporal, entity
  and parent edges depend on different fields. Late arrival is checked with four
  events of four times and two partitions. A temporal edge involves two
  neighbours, an entity edge two events, a parent edge a child and the latest of
  its candidates: three events show every interaction.
- `match`: for the search, four events, three types, time gaps around the window, nine patterns
  that cover plain, repeated, bounded, optional and alternative steps, a step
  repeated next to itself and one of three steps; limits 0, 1, 2 and one that is never
  reached; absence without and with a window, relations over all or some places with
  missing values and one with an unknown operator behind another, twelve sets in all.
  A wrong boundary or a step handled twice shows in two or three events. For
  the batch runtime the same logs and patterns: with three steps H-CET goes
  depth-first, a path may have four events and is given up there at the fourth, and
  the ids are C ints (`MaxInt` 7; in `doc_ids`, 2, some are not).
- `standing_*`: a trend takes two events; three events in two partitions give a
  partition with two trends, a trend with a replacement at hand, and a second
  partition that must be left alone. Five (or four, three) mutations allow a
  trend to appear, disappear and come back. Two sinks are enough for one to be
  ahead of the other. In `standing_reader` window and limit are 2, so that trends
  are also pushed out by them.
- `kernel`: all graphs the builder makes of four events of two types (the first
  or second of type A) in five layouts: a chain, a chain with entity edges beside
  it, so that a pair has two edges, two partitions with a user in common, a
  process with the time of its parent, so that edges form a circle, and events
  out of order with gaps too long for an edge. Five patterns with and without
  repetition, with a time limit and without, H-CET at every switch depth and on
  ranges that are the whole, a part and beyond the end. Capacity 8 for arrays and 5
  for paths: both are exceeded by some calls and not by others.
- `parallel`: four vertices among up to three threads give shards of equal and of
  different length; 0 and 9 threads are asked for; three distributions of matches
  fit the result, exceed it together, or exceed it in one shard. The proofs
  cover other sizes, also those where alignment pads.
- `lakehouse`: six event tables of three or four rows, chosen so that an event
  comes late between two of a trend or before them, one is corrected out of its
  trend, a row has a null, and a path can be read twice; two queries within one
  unit of time, lateness 1, a clock to 3 so that rows expire, and minutes of two units, so that
  the scan for late rows takes the lateness for none; one failure, of the
  driver or of the engine; one replay, by scan (the ranges of change feed are
  covered by the proofs). Batches begin and end anywhere. A trend takes two rows, a
  row between them a third, and a replacement a fourth. The proofs cover all other
  sizes.
- `main`: four deliveries of two or three messages (the limit is two), two runs
  of the ingest job with two salts, one failure, two tasks, a clock to 2 and a
  retention of 1, so that rows expire before and after their use. One delivery has
  messages without ids, whose hashes are beyond the C ints (`MaxInt` 7), so that their
  trends are lost. The graph takes three events and one edge and the kernel three
  results, so that re-runs also exceed it.
- `MaxRevision` bounds the number of mutations and is the only bound inside the
  specification. TLC's deadlock check is off where the bound stops it.

Fairness: in `CetKernel` one thread runs the call to its end, and every step is a
loop iteration or a call that waits for nothing (`WF_vars(Next)`). In
`StandingRuntime` only `Deliver` is weakly fair (`FairPinnedSpec`). Its steps are a
Python loop over lists that waits for nothing but `sink.emit`; a call once begun
runs to its end. Nothing forces events to arrive. In `doc_metrics`
`WF_vars(Stream /\ ProcessBatch)`: a batch under way goes on, and a stream that
stopped is started again from its checkpoint. No file of `resources/` configures that;
`runbooks/operations.md:6` asks the operator for it ("Restart stream from
checkpoint."). Without a restart the batch stays where it is and its duration is not
reported either. Nothing forces rows to arrive, time to pass or replays to run. The
other runs need no fairness.

### Where documentation and code differ

- `doc_metrics`: `dashboards/metrics_spec_v2.md:3` says "Runtime metrics emitted by
  `notebooks/0xDSI_CET_Databricks_prod.py`" and lists `batch_duration_seconds`. A
  batch in which nothing is found never emits it: `merge_metrics` is given an empty
  frame whose schema lacks the column it reads, raises, and the stream runs the
  same batch again for ever (`NothingFound`).
- `doc_superset`: `docs/CET_DSL_V4.md:22` says "The native engine executes the
  sequence superset". Of a step with alternatives the kernel is asked for the
  first alternative only, so a trend that begins with another is never found.
  `NativeSuperset` of the run `match` is what does hold, and is proved: where the call
  does not raise, no overflow is reported and the ids are C ints, a path is found
  wherever a trend begins, if no step has alternatives and the first may not be
  missing.
- `doc_ids`: the same sentence and `docs/CET_PRODUCTION_RUNBOOK.md:16`, by which the event
  table has `event_id BIGINT`. The bridge hands ids to the kernel as C ints
  (`bridge.py:58`, `187`), they come back altered, and `multi_query_runtime.py:77-79` skips
  paths of unknown ids: for any id beyond 32 bits the superset is lost, without an
  error.

Further things the models show and no run reports:

- The v7 page promises "Cancel/retraction events when a previously active trend
  disappears". An event delivered again under another `partition_key` leaves its
  old trends active until a call touches the old partition; `CallsRepairView`, a
  theorem, says that then they are cancelled. If a sink raises, `active` was
  already replaced and the undelivered cancellations are never sent. After a
  restart over a saved graph `active` starts empty, and what disappears is not
  cancelled.
- The standing runtime does not consult a query's `where`.
- Removing an event whose partition key is the empty string leaves its id in the
  index (`IndexExact` excepts that key). A trend pushed out of the window is
  cancelled as "match no longer valid" although it still is (`CancelsAreInvalid`
  is checked within the limits).
- In the kernel, events of equal time can be linked both ways by relations of
  different kinds, so that a path may contain an event twice; parallel edges emit
  a path once for each way of walking it (`ResultsExact` counts them); a path of
  exactly `CET_MAX_PATH_LEN` events is emitted by breadth-first search and given
  up, with an overflow, by depth-first search. In the parallel runtime the
  fallback "parallel workspace too small" is never taken (`ArenaLargeEnough`, a
  theorem).
- Production stream: where a path can be read in several ways (an inner step that
  repeats), the result has several rows with one id; the first MERGE inserts them
  all, the next one is refused by Delta and the stream stops there
  (`MergeTrendsRefused`; `OneRowPerTrend` excepts such patterns). A trend found
  again keeps its old times in the merge of the stream. `paths_found` is summed
  over rows that each have the count of the whole bucket. A row with a null type
  is dropped by the stream before neighbours are linked and not by the
  recomputation, so that the two disagree about what is a path.
- Replays: a trend that straddles the edge of the window is not found again, being
  only partly inside, and is retracted although it is valid (A at 0 and B at 1
  with a window from 1). `RetractionsJustified` is about trends inside. With a
  failed detection the windows of both attempts stay.
- Main notebook: a batch that is run again is appended to the buffer again; its
  events have duplicate ids then and the partition goes to the dead letters in
  every batch that reads them, until they expire. A second run of the ingest job
  has the same effect for messages with ids; those without get a new id per
  process. That id is a hash of 63 bits, so what the kernel finds with it is skipped
  (`doc_ids`): such messages are in no trend of the main and v4 notebooks.
  `ColocatedComplete` therefore speaks of ids that are C ints. A limit of zero messages
  lets one through.
- Main and v4 leave `raise_on_overflow` off: what a search did not find for lack of room
  is missing without an error, although `docs/CET_PRODUCTION_RUNBOOK.md:85` calls
  truncation "a correctness risk". A query with an unknown operator is accepted by
  the parser and sends each partition that reaches it to the dead letters, with the
  results of all other queries.
- Two notebooks create `cet_complete_trends_v2` with different columns.

## Proofs

`StandingRuntime_proofs`, its first part, from the assumptions on constants in `TemporalGraph`
(event ids are integers, the two special keys differ, payloads are events):

- `TypeCorrect`, `MapsAlwaysAgree`, `EdgesAlwaysForward`, `IndexAlwaysExact` and
  `EntityEdgesAlwaysExact` are `Spec => []...`. None is inductive alone. The
  erasure of an event's edges is right only if the two maps agree, and the edges
  of a replaced event are gone only if the erasure was right. A restore brings
  back a saved state, so the snapshot must satisfy everything the live state
  does: the inductive invariant speaks of both. `EntityEdgesExact` needs in
  addition that the new event's edges cover every partner in both directions.
- `ParentEdgesAlwaysSound`: the condition on a parent edge reads its two ends only,
  so it is one more part of what the same invariant says of each edge.
- `OtherEdgesAlwaysKept` is the action property, from the same invariant: storing or
  removing an event leaves every edge between two others as it was.
- `LateEventsAlwaysLinked` (`TemporalFeed`): two neighbours of a partition that got a
  new event were neighbours before or one of them is the new event, whose edges
  are made in both directions. A history variable ends the claim with the first
  event replaced, removed or restored.

`TrendMatch_proofs`, for every query the parser makes (`IsQuery`), every sequence of
events in the order of their times (`InTime`) and every limit:

- `SearchIsAlwaysExact`. The search is a recursive function of its points. A call
  needs the results of calls of lower rank only (`CallsDescend`: later in the
  pattern, or later in the events, or nearer the loop), so a function with the
  equations of `Appended` exists (`ListsExist`, by a least counterexample) and
  `Listing` is it. A *reading* of a path from a point on (`Reads`) is its positions and
  the places where one step ends and the next begins, with the counts the point
  has still to fill; for
  each kind of point what is read from it is what is read from the points it
  needs (`ReadsOfRec`, `ReadsOfConsume`, `ReadsOfLoop` and, with an event taken or
  given back, `TakenOfReads` and `ReadsOfTaken`). So at every point what is listed is
  what can be read (`ListsAreExact`, again by a least counterexample), and at the
  first point what can be read is what can be cut (`ReadIsMeant`, `MeantIsRead`).
  Events of other types do not matter (`CandidatesMeanTheSame`), which takes that
  sorting gives each member of a finite set its place (`RankedInOrder`, by
  counting). The limit keeps a prefix (`LimitKeepsFirst`).
- `TrendsAreAlwaysValid`: for a path that is meant the code's pairwise comparison of
  values is a comparison of their number (`RelationIsCounted`), and the absence
  conditions, tested on the candidates, hold of all events (`AbsenceIsUndisturbed`),
  because a forbidden type is a candidate's type. The evaluation raises for nothing
  but a relation that is neither `same` nor `different`.

`StandingRuntime_proofs`, its second part:

- `RuntimeAlwaysTypeOK`, `ReadersAlwaysCatchUp`, `DeliveriesAlwaysAlternate` and
  `CallsAlwaysRepairView` hold for `ReliableSpec`, events that move included, without any assumption on
  the matcher. The invariant relates, for every sink, its view, what waits and
  what is active, with the event in delivery and the sinks that have it; and
  positive matches are finished before a cancellation begins.
- `ActiveIsAlwaysLive` holds for `PinnedSpec`: `active` is the union of all
  partitions' trends, since a mutation leaves the stored events of the other
  partitions alone (from the graph's `IndexExact` and `TypeOK`). Its hypothesis: no
  event has the empty partition key. That an empty graph has no trends is a
  lemma (`NoEventsNoTrends`).
- `ActiveIsAlwaysMeant`, under the same hypothesis, joins this to what the matcher is
  proved to find: what is active for a partition are paths that the patterns mean
  over the window of its stored events, undisturbed and related as the queries
  ask, and all of them for a query that does not reach `MaxMatches`. It takes that
  the stored events stay finitely many, so that sorting them is well defined
  (`SortedInTime`), and that the last of a sorted sequence are sorted
  (`WindowInTime`). The theorems of `TrendMatch_proofs` come in by an instance
  (`Search`), whose operators are shown to be the runtime's one by one.
- `AlwaysShownOrForgotten`, with sinks that raise and restarts (`FaultSpec`), has
  the same hypothesis. `NoPositiveLostUnlessFailed`, of the same
  specification, has none: it follows from the part of the delivery invariant
  (`CoreInv`) that restarts keep as long as no sink has raised.
- `CancelsAlwaysInvalid`: what waits to be cancelled is no trend of its partition as
  it is. Its hypothesis (`LimitsNotReached`) is that the state as it is fills
  neither the window nor the limit on matches: otherwise a valid match is
  cancelled that was pushed out, as the property itself says of the window.
- `RuntimeImplementsReader`: where no event has the empty key and cancellations are on,
  every step maps to a step or a stutter of `StandingView`.

`CetKernel_proofs`, from `KernelAssumption` (the arrays have room for one entry;
calls are calls), for every graph - built by `SecurityGraph` or not - query,
engine, switch depth, range and capacity:

- `KernelTypes` and `PathsAlwaysSound`. The invariant says that every path kept
  anywhere - in the queue, in the seeds, on the stack, in the result - is sound
  for the number of steps it has matched, and that what is left to examine are
  edges of the state in hand. The heart is `ExtendedSound`: an edge that passes the
  checks extends a sound path to a sound one. The time of the first event must
  travel with the state, and H-CET must find it again at the switch.
- `ResultsAlwaysExact`, for vertices with unique ids (`UniqueIds`, which the wrappers
  validate): what the search has done so far is exactly what it no longer has to
  do. A trail is a walk with the steps read along it; trails form a tree, and one
  that has matched the last step is a leaf. As long as there is no overflow, every
  full trail belongs to exactly one of: start vertices to come, an entry of the
  queue, a seed, a frame of the stack with an edge it has still to examine, a path
  emitted (`ExactInv`). At the end the last is left, and the full trails of a path
  are counted by a bijection with pairs of a walk and a reading, of any length.

`ParallelHcet_proofs`, from `ParallelAssumption` (sizes are positive, a pointer has
at most 1024 bytes), for any number of vertices, threads and matches:

- `ShardsArePartition`: division with remainder tiles the vertices.
- `BlocksAreApart` and `ArenaIsLargeEnough`: four cuts lose at most an alignment
  each, which the 4096 bytes of slack cover.
- `ArenaIsOutlived`: a thread runs only from its creation to its join.
- `ParallelIsExact`: the results merged so far are those of the workers before the
  cursor, unless an overflow was reported; with the partition of the vertices
  that is everything.

`ReplayPipeline_proofs`, first of `ChainSearch`, for any rows with integer times and ids:

- `SameStretch`: a view that has all rows between two events searches the stretch
  between them as well as the whole does. Everything below rests on it: it is why
  a buffer, or a window, is enough.
- `OrderedEnds` and `SamePathSameEnds`: where no two rows have one id, two stretches
  with the same path have the same ends. Sorting is a choice of the row with so
  many before it, and the proof counts.
- `OneReading`: a pattern of which no inner step repeats reads a path in one way
  only. Induction is by a least counterexample.

Then, from `MicroAssumption` and `ReplayAssumption` (columns have
their types, queries have a step, `None` is no replay), for any queries, event
tables, bounds, failures and replays:

- `LakeAlwaysTypeOK` and `OneRowPerTrendAlways`, from `TypeInv`: positions, what an
  attempt has in hand, the rows of the buffer, and the rows of the tables.
- `BufferAlwaysHoldsLive`, from `HeldInv`, which says of buffer *and* snapshot, at
  each point of a batch, which rows they have. "Live" is measured by the clock,
  so rows held stay held while time passes; rows of one key are the same row as
  long as no two of the partition's have one id (`Settled`), the hypothesis of the
  property, because the merge replaces by id.
- `LiveTrendsAreReal` and `CommitsAreComplete`, from `FoundInv`: with `HeldInv` either
  evaluation of the lazy view has all unexpired rows (`ViewIsComplete`), by
  `SameStretch` it finds exactly the unexpired trends (`SearchIsComplete`), and each
  table keeps what it was given until the batch is written off.
- `RetractionsAreJustified` and `ReplaysAreExact`, from `RepairInv`: a replay finds
  again the trends inside its windows (`RecomputeFinds`), what it retracted is not
  among them, and after both MERGEs no other trend that overlaps a window is
  active. That the times in the table are those of the event table takes
  `SamePathSameEnds`.

`BatchRuntime_proofs` has the lemmas of the next two about `BatchRuntime`: what the
vertices and edges of a built graph are, what a walk and a reading of the kernel
are in terms of the events, and that a match or a trend of some events is one of
fewer events (`EdgeKept`, `MatchKept`, `TrendKept`).

`BatchSearch_proofs`, from the assumptions of `TrendSearch`, `BatchRuntime` and
`BatchSearch` (queries are such as the parser makes, events such as `validate_events`
lets through, `MaxGap` is a number or none, a path of the kernel has room for an
event), for any queries and events:

- `SequencesAreFound`. The two searches do not find the same paths: the standing
  matcher skips events, the kernel walks along edges, and takes an event as the next
  step whenever it can. The proof goes from one to the other. A trend of the
  standing matcher has a reading among the candidates (`AnswersOfCall`,
  `CandidatesMeanTheSame`); the first event that each obligatory step got is a place
  of each token of the native pattern, in order (`TokensFound`). Neighbours among the
  candidates of a partition have an edge (`NextLinked`), so the kernel can walk from
  the first event of the trend along *all* candidates to its last (`PartLinkable`,
  `PartWalked`). Along that walk a greedy reading is never behind the places of the
  tokens (`NotBehind`), so it is complete at the last of them at the latest
  (`GreedyReading`, `SpanFound`), and without further conditions the match is a trend
  (`MatchIsTrend`). The hypotheses are those of the property: `where`, `absence` and
  `relations` empty, since the kernel emits one path where the matcher emits many and
  the conditions may refuse it; one type for each step, since the kernel is told no
  alternatives (`doc_superset`); an obligatory first step, since without it the kernel
  begins later; no edge left out for a gap shorter than `within_ms`; ids that are C
  ints (`doc_ids`); and a call that neither raised nor reported an overflow. That all
  matches are returned then is what `ResultsExact` and `OverflowExact` say of the kernel;
  that narrowing leaves a C int as it is, and so the paths, is a lemma.

`MainBatch_proofs`, from the assumptions of `ZeroBusIngest`, `BatchRuntime` and
`MainBatch` (columns have their types, lists of the configuration are finite,
queries are such as the parser makes):

- `MainAlwaysTypeOK`; `GivenUpForReason`: a run that raises does so for two rows of one
  id, for a query with an unknown operator or with nothing for the kernel to search
  (`Odd`), or for more events or edges than the graph takes (`OutcomeOf`). If the two
  rows are rows of the table, the table has a duplicate, and if they are two
  copies of one row, the buffer got it in two attempts of a batch.
- `TrendsAcrossBatches`, for any messages, queries, event attributes, failures and
  spread of rows over tasks. The buffer is a part of the event table, so the graph
  of a bucket has some of the events of the graph of all; the proof compares the
  two searches. A trend through the batch lies within the longest `within_ms` of it
  (`TrendInTime`), so the filter on the buffer keeps its events. The trends meant are those
  of ids that are C ints, which the bridge gives back, and of a partition that one task
  read and searched without an overflow, as the property says. What a search walks
  along is then found among fewer events too: an edge of neighbours in time or of
  one entity becomes an edge of neighbours again, and a parent that was the last
  candidate stays the last (`EdgeKept`); a reading of the walk is a reading still
  (`MatchKept`), and validation reads the path and the candidates between its ends
  only (`ValidKept`, `TrendKept`). From there an invariant (`AnsweredInv`) follows the
  trends through the results of the tasks and the MERGE, or the partition into the
  dead letters, while the clock only lets go of rows. It needs that the buffer has
  every row read that is not expired (`Buffered`), which a batch that was run again
  keeps. Its hypothesis is that no query has a negative `within_ms`. The parser takes
  any integer (`dsl.py:307`) and the kernel takes a negative one for no limit
  (`algorithms.c:114`), but then the notebook's `lower` (line 172) lies *after* the first
  event of the batch, and trends are missed: with a window of -1 TLC finds such a
  batch.

Only model-checked: liveness (`Converges`, in `ReaderSpec`, and `Terminates`), which is
out of the prover's reach, and `OverflowExact`, for which each array would need a
count of what went through it. Of `ReaderSpec` everything but `Converges` is the theorem
`RuntimeImplementsReader`.

## Not modelled, and the plan

Left out, with the reason:

- Parsing (DSL, registry, C parser), the conversion of texts to numbers in `where`
  and the matching of regular expressions (the constants `Numbers` and `TextMatches`
  stand for both): string handling without state.
- `graph.c`, `dsl.c`, `sliding.c`: fixed tables; `CetKernel` takes the graphs they
  accept, and `BatchRuntime` raises for those they do not. The optimizer: no search uses
  its plan. Of the marshalling in the bridge, that two ids of one list become one when
  narrowed: `IdAssumption` excludes it.
- The silent truncation of the kernel in the production notebook and the replay jobs:
  `ChainSearch` takes its arrays for large enough (a hazard without a property).
- Partial state and its clean-up job: nothing fills the store at this commit.
- The standing notebook and replay job: every batch is `StandingRuntime` from its
  initial state, and its tables are only appended to.
- The SDP and demonstration notebooks (declarations and prints), `replay_diff_prod`
  and `replay_validation.sql` (reports), analytics, adapters, tooling, dashboards.

What would come next: a proof of `OverflowExact`; the truncated search (`RunHcet`) in
`ChainSearch`, with properties of the production tables that say what is lost then;
and ids that narrow to the same C int.
