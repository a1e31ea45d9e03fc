----------------------------- MODULE MicroBatch -----------------------------
(***************************************************************************)
(* The production stream, src/notebooks/0xDSI_CET_Databricks_prod.py: a    *)
(* Structured Streaming query that calls process_batch for every           *)
(* micro-batch of the event table, and the Delta tables it writes.         *)
(*                                                                         *)
(* Every read and write of a table is an action, because a failure between *)
(* two of them leaves the first one's effect behind and the batch is run   *)
(* again: the offsets of a batch are fixed before it starts and written    *)
(* off as done after it ends.  A MERGE, a DELETE and an append of Delta    *)
(* are atomic.  Spark is lazy: the view of the buffer is evaluated after   *)
(* the buffer was written, on the contents it had when the view was built  *)
(* or on the new ones.                                                     *)
(*                                                                         *)
(* Abstractions.  A row whose type is NullType has a null for its type; no  *)
(* other column is null, and event_time is event_time_ms.  Queries are     *)
(* those enabled, at least one, and do not change.  The offset a batch     *)
(* starts at stands for its batch_id.  Scores, severities and engine       *)
(* statistics are left out, and dlq_id is the bucket and batch (one error  *)
(* text).  The cached result is not evaluated twice.                       *)
(***************************************************************************)
EXTENDS ChainSearch

CONSTANTS
  Queries,        \* the enabled queries of cet_queries
  Pattern,        \* the steps of each query
  within_ms,      \* the time allowed to each query
  Lateness,       \* ALLOWED_LATENESS_MS
  Logs,           \* what the event table may come to hold
  NullType,       \* the type of a row with a null in a required column
  None,           \* no replay_id
  MaxNow,         \* bound: the clock stops
  MaxFailures     \* bound: failures of a batch and of the engine

VARIABLES
  log, arrived,   \* cet_events holds the first arrived rows of log
  now,            \* current_timestamp()
  offset,         \* rows of the batches that are done
  plan,           \* the end of the batch to be done next; 0: not planned
  pc,             \* where process_batch stands
  current,        \* current_events
  snapshot,       \* the buffer when the combined view was built
  found, errors,  \* out_df: paths found, buckets the engine failed on
  searched_at,    \* when the view was evaluated
  failures,       \* failures so far
  buffer,         \* cet_event_buffer: pairs of query and row
  trends,         \* cet_complete_trends_v2, by trend_id
  metrics,        \* cet_metrics_v2, by batch and bucket
  durations,      \* the batches with a batch_duration_seconds
  dlq             \* cet_dead_letter_v2

environment == <<log, arrived, now>>
attempt == <<current, snapshot, found, errors, searched_at>>
microVars == <<environment, offset, plan, pc, attempt, failures,
               buffer, trends, metrics, durations, dlq>>

ASSUME MicroAssumption ==
  /\ Queries # {}
  /\ \A q \in Queries :
       /\ Pattern[q] # <<>>
       /\ Pattern[q] \in Seq([name : STRING \ {NullType}, kleene_plus : BOOLEAN])
       /\ within_ms[q] \in Int
  /\ Lateness \in Nat
  /\ MaxNow \in Nat /\ MaxFailures \in Nat
  /\ \A l \in Logs :
       /\ l \in Seq([partition_key : STRING, event_id : Int,
                     event_type : STRING \cup {NullType}, event_time_ms : Int])

----------------------------------------------------------------------------
(* The event table.                                                        *)

Rows(n) == {log[i] : i \in 1..n}
RowsOfBatch == {log[i] : i \in offset + 1..plan}

Complete(rows) == {r \in rows : r.event_type # NullType}
Key(r) == <<r.partition_key, r.event_id>>
PartitionsOf(rows) == {r.partition_key : r \in rows}
Of(rows, p) == {r \in rows : r.partition_key = p}

\* dropDuplicates: one of the rows of each key, any of them.
OneCopies(rows, key) ==
  LET doubtful == {r \in rows : \E s \in rows : s # r /\ key[s] = key[r]}
  IN  {kept \in {rows \ gone : gone \in SUBSET doubtful} :
         /\ \A r, s \in kept : key[r] = key[s] => r = s
         /\ \A r \in rows : \E s \in kept : key[s] = key[r]}

\* normalize_current_events
Normalized(rows) == OneCopies(Complete(rows), [r \in Complete(rows) |-> Key(r)])

----------------------------------------------------------------------------
(* The buffer.                                                             *)

BufferKey(x) == <<x[1], Key(x[2])>>
Expanded(rows) == Queries \X rows

\* Mutant of ExpiresAt: the time allowed to the query is left out.
ExpiresAfterLateness(x) == x[2].event_time_ms + Lateness

ExpiresAt(x) == x[2].event_time_ms + within_ms[x[1]] + Lateness

Views(pairs) == OneCopies(pairs, [x \in pairs |-> BufferKey(x)])

\* upsert_event_buffer, the MERGE
Upserted(old, rows) ==
  LET keys == {BufferKey(x) : x \in Expanded(rows)}
  IN  {x \in old : BufferKey(x) \notin keys} \cup Expanded(rows)

\* Mutant of Combined: the buffer is not read.
CombinedWithoutBuffer(old, rows) == Expanded(rows)

\* combined_buffer_and_current: the rows of the batch's partitions that have
\* not expired, and those of the batch.
Combined(old, rows) ==
  {x \in old : x[2].partition_key \in PartitionsOf(rows) /\ ExpiresAt(x) >= now}
    \cup Expanded(rows)

----------------------------------------------------------------------------
(* Results and their merge into the tables.                                *)

Buckets(rows) == Queries \X PartitionsOf(rows)

\* The rows of a bucket in a view.
InBucket(view, b) == Of({x[2] : x \in {y \in view : y[1] = b[1]}}, b[2])

\* The result rows of a bucket; the first two parts are those of the trend id.
Trend(b, result) ==
  [query |-> b[1], partition |-> b[2], path |-> result.path,
   start |-> result.start, end |-> result.end, copies |-> result.copies]
ResultsOf(view, b) ==
  {Trend(b, r) : r \in Search(Pattern[b[1]], within_ms[b[1]], InBucket(view, b))}

TrendId(t) == <<t.query, t.partition, t.path>>
Ids(ts) == {TrendId(t) : t \in ts}
BucketOf(t) == <<t.query, t.partition>>
RowOf(ts, id) == CHOOSE t \in ts : TrendId(t) = id

\* Several source rows match one row of the target: a MERGE refuses that.
Ambiguous(ts) == \E t \in ts : TrendId(t) \in DOMAIN trends /\ t.copies > 1

\* WHEN NOT MATCHED THEN INSERT: the rows of a new trend.
Inserted(t, replay) ==
  [copies |-> t.copies, status |-> "active", start |-> t.start, end |-> t.end,
   replay_id |-> replay]

\* Mutant of WithTrends: the rows are appended, not merged.
WithTrendsAppended(ts) ==
  [id \in DOMAIN trends \cup Ids(ts) |->
     IF id \notin Ids(ts) THEN trends[id]
     ELSE IF id \in DOMAIN trends
       THEN [Inserted(RowOf(ts, id), None) EXCEPT !.copies = @ + trends[id].copies]
       ELSE Inserted(RowOf(ts, id), None)]

\* merge_trends: the times of a trend that is there already stay as they are.
WithTrends(ts) ==
  [id \in DOMAIN trends \cup Ids(ts) |->
     IF id \notin Ids(ts) THEN trends[id]
     ELSE IF id \in DOMAIN trends
       THEN [trends[id] EXCEPT !.status = "active", !.replay_id = None]
       ELSE Inserted(RowOf(ts, id), None)]

\* The rows of the result for a bucket: a path counts as often as the kernel
\* emitted it, and each row has paths_found = len(match.paths).
RowCount(b) == MapThenSumSet(LAMBDA t : t.copies, {t \in found : BucketOf(t) = b})
MetricsOf(b) ==
  [paths_found     |-> RowCount(b) * RowCount(b),
   success_records |-> RowCount(b),
   error_records   |-> IF b \in errors THEN 1 ELSE 0]

----------------------------------------------------------------------------

MicroInit ==
  /\ log \in Logs /\ arrived = 0 /\ now = 0
  /\ offset = 0 /\ plan = 0 /\ pc = "idle"
  /\ current = {} /\ snapshot = {} /\ found = {} /\ errors = {} /\ searched_at = 0
  /\ failures = 0
  /\ buffer = {} /\ trends = <<>>
  /\ metrics = <<>> /\ durations = {} /\ dlq = {}

tables == <<buffer, trends, metrics, durations, dlq>>

\* A row is appended to the event table.
Arrive ==
  /\ arrived < Len(log)
  /\ arrived' = arrived + 1
  /\ UNCHANGED <<log, now, offset, plan, pc, attempt, failures, tables>>

Tick ==
  /\ now < MaxNow
  /\ now' = now + 1
  /\ UNCHANGED <<log, arrived, offset, plan, pc, attempt, failures, tables>>

\* The offsets of the next batch are fixed.
PlanBatch ==
  /\ pc = "idle" /\ plan = 0
  /\ plan' \in offset + 1..arrived
  /\ UNCHANGED <<environment, offset, pc, attempt, failures, tables>>

\* process_batch starts; a batch without a usable row is done at once.
StartBatch ==
  /\ pc = "idle" /\ plan # 0
  /\ current' \in Normalized(RowsOfBatch)
  /\ snapshot' = buffer
  /\ pc' = IF current' = {} THEN "measured" ELSE "started"
  /\ UNCHANGED <<environment, offset, plan, found, errors, searched_at, failures, tables>>

MergeBuffer ==
  /\ pc = "started"
  /\ buffer' = Upserted(buffer, current)
  /\ pc' = "buffered"
  /\ UNCHANGED <<environment, offset, plan, attempt, failures, trends, metrics, durations, dlq>>

ExpireBuffer ==
  /\ pc = "buffered"
  /\ buffer' = {x \in buffer : ExpiresAt(x) >= now}
  /\ pc' = "expired"
  /\ UNCHANGED <<environment, offset, plan, attempt, failures, trends, metrics, durations, dlq>>

\* The view is evaluated and searched, bucket by bucket; an exception of the
\* engine makes an error row of the bucket.
SearchBuckets ==
  /\ pc = "expired"
  /\ \E old \in {snapshot, buffer} :
       \E view \in Views(Combined(old, current)) :
         \E failed \in SUBSET Buckets(current) :
           /\ failed # {} => failures < MaxFailures
           /\ failures' = IF failed = {} THEN failures ELSE failures + 1
           /\ errors' = failed
           /\ found' = UNION {ResultsOf(view, b) : b \in Buckets(current) \ failed}
  /\ searched_at' = now
  /\ pc' = "searched"
  /\ UNCHANGED <<environment, offset, plan, current, snapshot, tables>>

\* process_batch raises: the stream stops and the batch is to be run again.
Stop ==
  /\ pc' = "idle"
  /\ current' = {} /\ snapshot' = {} /\ found' = {} /\ errors' = {} /\ searched_at' = 0
  /\ UNCHANGED <<environment, offset, plan, tables>>

\* Without a result row, merge_metrics is given a frame without the column
\* engine_stats, which it reads.
NothingFound ==
  /\ pc = "searched"
  /\ found = {} /\ errors = {}
  /\ Stop
  /\ UNCHANGED failures

MergeTrends ==
  /\ pc = "searched"
  /\ found # {} \/ errors # {}
  /\ ~Ambiguous(found)
  /\ trends' = WithTrends(found)
  /\ pc' = "merged"
  /\ UNCHANGED <<environment, offset, plan, attempt, failures, buffer, metrics, durations, dlq>>

MergeTrendsRefused ==
  /\ pc = "searched"
  /\ Ambiguous(found)
  /\ Stop
  /\ UNCHANGED failures

MergeDlq ==
  /\ pc = "merged"
  /\ dlq' = dlq \cup {<<offset, b>> : b \in errors}
  /\ pc' = "lettered"
  /\ UNCHANGED <<environment, offset, plan, attempt, failures, buffer, trends, metrics, durations>>

\* The metrics of the buckets with a result row, and the duration.
MergeMetrics ==
  /\ pc = "lettered"
  /\ LET new == {<<offset, b>> : b \in {BucketOf(t) : t \in found} \cup errors}
     IN  metrics' = [k \in DOMAIN metrics \cup new |->
                       IF k \in new THEN MetricsOf(k[2]) ELSE metrics[k]]
  /\ durations' = durations \cup {offset}
  /\ pc' = "measured"
  /\ UNCHANGED <<environment, offset, plan, attempt, failures, buffer, trends, dlq>>

\* Mutant of Commit: the next batch starts one row too late.
CommitBeyond ==
  /\ pc = "measured"
  /\ offset' = plan + 1
  /\ plan' = 0
  /\ pc' = "idle"
  /\ current' = {} /\ snapshot' = {} /\ found' = {} /\ errors' = {} /\ searched_at' = 0
  /\ UNCHANGED <<environment, failures, tables>>

\* process_batch returned: the batch is written off.
Commit ==
  /\ pc = "measured"
  /\ offset' = plan
  /\ plan' = 0
  /\ pc' = "idle"
  /\ current' = {} /\ snapshot' = {} /\ found' = {} /\ errors' = {} /\ searched_at' = 0
  /\ UNCHANGED <<environment, failures, tables>>

\* The driver fails at any point.
Fail ==
  /\ pc # "idle"
  /\ failures < MaxFailures
  /\ failures' = failures + 1
  /\ Stop

ProcessBatch ==
  \/ PlanBatch \/ StartBatch \/ MergeBuffer \/ ExpireBuffer \/ SearchBuckets
  \/ NothingFound \/ MergeTrends \/ MergeTrendsRefused \/ MergeDlq \/ MergeMetrics \/ Commit

MicroNext == Arrive \/ Tick \/ ProcessBatch \/ Fail
=============================================================================
