------------------------------ MODULE MainBatch ------------------------------
(***************************************************************************)
(* The streaming notebooks built on the batch runtime:                     *)
(* src/notebooks/0xDSI_CET_Databricks_main.py ("main") and the one it      *)
(* supersedes, 0xDSI_CET_Databricks_v4.py ("v4"), over the event table     *)
(* that ZeroBusIngest fills.  A deployment runs one of them.               *)
(*                                                                         *)
(* Main appends every micro-batch to a buffer and searches the buffer; v4  *)
(* searches the rows of the batch alone.  The rows searched are not        *)
(* repartitioned: Spark reads them in any number of tasks, and a task runs *)
(* the queries over the rows of each partition key it happens to have.     *)
(* A batch that fails is run again from its beginning, with the same rows. *)
(*                                                                         *)
(* Abstractions.  event_time is event_time_ms and a day is one unit of     *)
(* time.  The notebooks' queries are those enabled and do not change; an   *)
(* offset stands for the batch_id it begins.  Of the metrics, which tell   *)
(* what the other tables hold, and of risk scores nothing is kept.         *)
(***************************************************************************)
EXTENDS BatchRuntime, ZeroBusIngest

CONSTANTS
  Queries,        \* the queries of the registry
  Retention,      \* BUFFER_RETENTION_DAYS
  Tasks,          \* the tasks that read the rows
  MaxFailures     \* bound: failures of a batch

VARIABLES
  notebook,       \* "main" or "v4"
  offset, plan,   \* end of the batches done, and of the one to do (0: none)
  pc,             \* where process_batch stands
  failures,       \* failures of a batch so far
  buffer,         \* cet_event_buffer_v5: <<failures when appended, table row>>
  out,            \* result rows: trends, and keys of the buckets that raised
  together,       \* partition keys that one task had all rows of and searched wholly
  trends,         \* cet_complete_trends_v2: number of rows of each trend
  letters         \* cet_dead_letter_v4 and _v5

batchVars == <<notebook, offset, plan, pc, failures, buffer, out, together, trends, letters>>
vars == <<ingestVars, batchVars>>

ASSUME MainAssumption ==
  /\ IsFiniteSet(Queries) /\ Queries # {}
  /\ \A q \in Queries : IsQuery(q)
  /\ Retention \in Nat /\ MaxFailures \in Nat

\* The bridge keeps the ids of the messages apart.
ASSUME IdAssumption ==
  \A l \in Messages :
    LET ids == UNION {IF l[i].event_id = Missing THEN {Hash[s][l[i]] : s \in Salts}
                      ELSE {l[i].event_id} : i \in DOMAIN l}
    IN  \A i, j \in ids : Narrow(i) = Narrow(j) => i = j

----------------------------------------------------------------------------

BatchRows == offset + 1..plan
PartitionsIn(rows) == {table[i].partition_key : i \in rows}

LeastTime(rows) ==
  CHOOSE t \in {table[i].event_time_ms : i \in rows} :
    \A i \in rows : t <= table[i].event_time_ms

MAX_WITHIN_MS == CHOOSE w \in {q.within_ms : q \in Queries} : \A q \in Queries : q.within_ms <= w

\* Mutant of History: from the first event of the batch on.
HistoryFromBatch ==
  {b \in buffer : /\ table[b[2]].event_time_ms >= LeastTime(BatchRows)
                  /\ table[b[2]].partition_key \in PartitionsIn(BatchRows)}

\* Mutant of History: the rows of the batch are added to what they are in.
HistoryWithIncoming ==
  {b \in buffer : /\ table[b[2]].event_time_ms >= LeastTime(BatchRows) - MAX_WITHIN_MS
                  /\ table[b[2]].partition_key \in PartitionsIn(BatchRows)}
    \cup {<<-1, i>> : i \in BatchRows}

\* What main searches: the copies in the buffer of rows of the batch's
\* partitions that may share a trend with one of the batch.
History ==
  {b \in buffer : /\ table[b[2]].event_time_ms >= LeastTime(BatchRows) - MAX_WITHIN_MS
                  /\ table[b[2]].partition_key \in PartitionsIn(BatchRows)}

Searched == IF notebook = "main" THEN History ELSE {<<failures, i>> : i \in BatchRows}

Trend(t) == [status |-> "ok", id |-> <<t.query, t.partition, t.path>>, copies |-> t.copies]
Error(key) == [status |-> "err", key |-> key]

\* process_partition for the rows of one partition key a task has read: the
\* result rows it may come to, and whether the kernel gave something up, which
\* nothing but the statistics in the rows tells.
Processed(key, bucket) ==
  {[rows     |-> IF r.raised THEN {Error(key)} ELSE {Trend(t) : t \in r.trends},
    overflow |-> r.overflow] :
     r \in Run(Queries, bucket, [b \in bucket |-> table[b[2]]])}

OfKey(rows, key) == {b \in rows : table[b[2]].partition_key = key}
Keys(rows) == {table[b[2]].partition_key : b \in rows}

\* The keys that the tasks have rows of; reader tells who reads what.
Buckets(reader, rows) == {<<reader[b], table[b[2]].partition_key>> : b \in rows}

\* What they may come to, bucket by bucket.
Outcomes(reader, rows) ==
  LET buckets == Buckets(reader, rows)
      possible == UNION {{k} \X Processed(k[2], {b \in OfKey(rows, k[2]) : reader[b] = k[1]}) :
                           k \in buckets}
  IN  {f \in [buckets -> {o[2] : o \in possible}] : \A k \in buckets : <<k, f[k]>> \in possible}

Ids == {row[2].id : row \in {r \in out : r[2].status = "ok"}}
Errors == {row[2].key : row \in {r \in out : r[2].status = "err"}}
Rows(id) == MapThenSumSet(LAMBDA row : row[2].copies,
                          {r \in out : r[2].status = "ok" /\ r[2].id = id})

----------------------------------------------------------------------------

Init ==
  /\ IngestInit
  /\ notebook \in {"main", "v4"}
  /\ offset = 0 /\ plan = 0 /\ pc = "idle" /\ failures = 0
  /\ buffer = {} /\ out = {} /\ together = {} /\ trends = <<>> /\ letters = {}

\* The offsets of the next batch are fixed.
PlanBatch ==
  /\ pc = "idle" /\ plan = 0
  /\ plan' \in offset + 1..Len(table)
  /\ UNCHANGED <<ingestVars, notebook, offset, pc, failures, buffer, out, together, trends, letters>>

\* Main appends the batch to its buffer, again when the batch is run again.
StartBatch ==
  /\ pc = "idle" /\ plan # 0
  /\ pc' = "started"
  /\ buffer' = IF notebook = "main" THEN buffer \cup {<<failures, i>> : i \in BatchRows}
               ELSE buffer
  /\ UNCHANGED <<ingestVars, notebook, offset, plan, failures, out, together, trends, letters>>

\* The rows are searched; without a result the batch is done.
Process ==
  /\ pc = "started"
  /\ \E reader \in [Searched -> Tasks] : \E outcome \in Outcomes(reader, Searched) :
       LET buckets == Buckets(reader, Searched)
       IN  /\ out' = UNION {{k[1]} \X outcome[k].rows : k \in buckets}
           /\ together' = {key \in Keys(Searched) :
                             /\ \A b, c \in OfKey(Searched, key) : reader[b] = reader[c]
                             /\ \A k \in buckets : k[2] = key => ~outcome[k].overflow}
  /\ pc' = IF out' = {} THEN "done" ELSE "processed"
  /\ UNCHANGED <<ingestVars, notebook, offset, plan, failures, buffer, trends, letters>>

\* Several rows of the results match one row of the table: a MERGE raises.
Ambiguous == \E id \in Ids : id \in DOMAIN trends /\ Rows(id) > 1

MergeTrends ==
  /\ pc = "processed"
  /\ ~Ambiguous
  /\ trends' = [id \in DOMAIN trends \cup Ids |->
                  IF id \in DOMAIN trends THEN trends[id] ELSE Rows(id)]
  /\ pc' = "merged"
  /\ UNCHANGED <<ingestVars, notebook, offset, plan, failures, buffer, out, together, letters>>

WriteErrors ==
  /\ pc = "merged"
  /\ letters' = letters \cup {<<offset, key>> : key \in Errors}
  /\ pc' = "lettered"
  /\ UNCHANGED <<ingestVars, notebook, offset, plan, failures, buffer, out, together, trends>>

\* The DELETE of main; v4 is done.
ExpireBuffer ==
  /\ pc = "lettered"
  /\ buffer' = {b \in buffer : table[b[2]].event_time_ms >= now - Retention}
  /\ pc' = "done"
  /\ UNCHANGED <<ingestVars, notebook, offset, plan, failures, out, together, trends, letters>>

\* Mutant of Commit: the next batch starts one row too late.
CommitBeyond ==
  /\ pc = "done"
  /\ offset' = plan + 1
  /\ plan' = 0 /\ pc' = "idle" /\ out' = {} /\ together' = {}
  /\ UNCHANGED <<ingestVars, notebook, failures, buffer, trends, letters>>

Commit ==
  /\ pc = "done"
  /\ offset' = plan
  /\ plan' = 0 /\ pc' = "idle" /\ out' = {} /\ together' = {}
  /\ UNCHANGED <<ingestVars, notebook, failures, buffer, trends, letters>>

\* The driver fails, or the MERGE raises: the batch is to be run again.
Fail ==
  /\ pc # "idle"
  /\ failures < MaxFailures
  /\ failures' = failures + 1
  /\ pc' = "idle" /\ out' = {} /\ together' = {}
  /\ UNCHANGED <<ingestVars, notebook, offset, plan, buffer, trends, letters>>

ProcessBatch ==
  PlanBatch \/ StartBatch \/ Process \/ MergeTrends \/ WriteErrors \/ ExpireBuffer \/ Commit

Next == (Ingest /\ UNCHANGED batchVars) \/ ProcessBatch \/ Fail
Spec == Init /\ [][Next]_vars

----------------------------------------------------------------------------

\* Positions stay inside the event table and what is kept is about rows the
\* notebook has read.
MainTypeOK ==
  /\ source \in Messages /\ emitted \in 0..Len(source) /\ salt \in Salts
  /\ runs \in 1..MaxRuns /\ now \in 0..MaxNow
  /\ notebook \in {"main", "v4"}
  /\ offset \in 0..Len(table)
  /\ plan = 0 \/ plan \in offset + 1..Len(table)
  /\ pc \in {"idle", "started", "processed", "merged", "lettered", "done"}
  /\ pc # "idle" => plan # 0
  /\ failures \in 0..MaxFailures
  /\ buffer \subseteq (0..failures) \X (1..(IF plan = 0 THEN offset ELSE plan))
  /\ \A row \in out : row[1] \in Tasks
  /\ \A letter \in letters : letter[1] \in 0..Len(table)

Duplicate(key) ==
  \E i, j \in DOMAIN table : /\ i # j /\ table[i].event_id = table[j].event_id
                             /\ table[i].partition_key = key /\ table[j].partition_key = key

\* A query the batch runtime may raise for: it leaves nothing for the kernel
\* to search, or has an operator that is none.
Odd(q) ==
  \/ NativePattern(q) = <<>>
  \/ \E k \in DOMAIN q.where : q.where[k].op \notin PredicateOps
  \/ \E k \in DOMAIN q.relations : ~Supported(q.relations[k])

\* Events are given up, and with them every trend of their partition in the
\* batch, only if the ingest job has written an id of the partition twice, if
\* main ran a batch again, which appends it to the buffer again, if a query is
\* odd, or if some events of the partition are more than the kernel takes.
NoDeadLetterWithoutRetry ==
  \A letter \in letters :
    \/ Duplicate(letter[2])
    \/ notebook = "main" /\ failures > 0
    \/ \E q \in Queries : Odd(q)
    \/ \E rows \in SUBSET {i \in DOMAIN table : table[i].partition_key = letter[2]} :
         TooLarge({table[i] : i \in rows})

\* The trends of a partition with an event of the batch, in everything read
\* so far, whose events are not older than the buffer keeps them and have ids
\* that are C ints: a trend with another id is lost, as is that of a message
\* without one, whose hash is as wide as the machine's words.
TrendsOfBatch(key) ==
  LET rows == {i \in 1..plan : table[i].partition_key = key}
      ids  == {table[i].event_id : i \in rows \cap BatchRows}
      kept == {table[i].event_id :
                 i \in {j \in rows : table[j].event_time_ms >= now - Retention}}
  IN  {<<t.query, t.partition, t.path>> :
         t \in {u \in UNION {WholeTrends(q, {table[i] : i \in rows}) : q \in Queries} :
                  ToSet(u.path) \cap ids # {} /\ ToSet(u.path) \subseteq kept \cap CInts}}

\* "Delta event buffer for cross-microbatch CET windows": when main is done
\* with a batch, the table has every trend through an event of the batch that
\* the events so far make, in each partition that is not in the dead letters,
\* has no id twice and whose buffered rows one task read and searched without
\* an overflow.
ColocatedComplete ==
  [][offset' # offset /\ notebook = "main" =>
       \A key \in PartitionsIn(BatchRows) :
         \/ key \notin together
         \/ <<offset, key>> \in letters
         \/ Duplicate(key)
         \/ TrendsOfBatch(key) \subseteq DOMAIN trends]_vars
=============================================================================
