--------------------------- MODULE ReplayPipeline ---------------------------
(***************************************************************************)
(* The repair of trends after late or corrected events, beside the stream  *)
(* of MicroBatch on the same tables: src/jobs/late_event_replay_prod.py    *)
(* (Detect), src/jobs/recompute_trends_prod.py (Recompute) and the two     *)
(* MERGEs of src/jobs/retract_and_upsert_v2.sql (Retract, Upsert).         *)
(*                                                                         *)
(* The jobs of a replay run in that order; one that failed after it wrote  *)
(* its table runs again before the next does, and the script may be run    *)
(* again when it has closed the replay.  A job that fails before it writes *)
(* leaves nothing behind and is a stuttering step.                         *)
(*                                                                         *)
(* Abstractions.  The window of days the scan looks back over holds every  *)
(* row.  Recompute does not ask for complete rows: a row with a null       *)
(* matches no step but is part of the chain.                               *)
(***************************************************************************)
EXTENDS MicroBatch

CONSTANTS
  Replays,        \* the replay ids
  Scan,           \* no startMs and endMs: scan for late events
  Minute,         \* milliseconds of a minute
  ChangedMs       \* of each replay: <<startMs, endMs>>, or Scan

VARIABLES
  stage,          \* the last job of a replay that wrote its table
  windows,        \* cet_impacted_windows_v2
  recomputed,     \* cet_recomputed_trends_v2, by replay
  recomputed_at,  \* rows of the event table when it was written
  disturbed       \* whether events or trends were written since

replayVars == <<stage, windows, recomputed, recomputed_at, disturbed>>
vars == <<microVars, replayVars>>

ASSUME ReplayAssumption ==
  /\ None \notin Replays
  /\ Minute \in Nat \ {0}
  /\ \A r \in Replays : ChangedMs[r] = Scan \/ ChangedMs[r] \in Int \X Int

----------------------------------------------------------------------------

\* The rows of the event table a replay is about; the scan for late ones
\* knows whole minutes of lateness only.
Changed(r) ==
  {row \in Rows(arrived) :
     IF ChangedMs[r] = Scan
       THEN row.event_time_ms < now - (Lateness \div Minute) * Minute
       ELSE ChangedMs[r][1] <= row.event_time_ms /\ row.event_time_ms <= ChangedMs[r][2]}

\* The window of a bucket, wide enough for every path through such a row.
WindowOf(r, b) ==
  LET times == {row.event_time_ms : row \in Of(Changed(r), b[2])}
      width == within_ms[b[1]] + Lateness
  IN  [replay |-> r, bucket |-> b, start |-> Min(times) - width, end |-> Max(times) + width]

WindowsOf(r) == {w \in windows : w.replay = r}

InWindow(row, w) ==
  /\ row.partition_key = w.bucket[2]
  /\ w.start <= row.event_time_ms /\ row.event_time_ms <= w.end

\* The rows recompute reads, with the query they are read for.
Impacted(r) ==
  UNION {{w.bucket[1]} \X {row \in Rows(arrived) : InWindow(row, w)} : w \in WindowsOf(r)}

\* Mutant of Stale: whether the trend was found again is not asked.
StaleOverlapping(r) ==
  {id \in DOMAIN trends :
     /\ trends[id].status = "active"
     /\ \E w \in WindowsOf(r) : /\ w.bucket = <<id[1], id[2]>>
                                /\ trends[id].end >= w.start /\ trends[id].start <= w.end}

\* Mutant of Stale: trends that cover a window instead of overlapping it.
StaleCovering(r) ==
  {id \in DOMAIN trends \ Ids(recomputed[r]) :
     /\ trends[id].status = "active"
     /\ \E w \in WindowsOf(r) : /\ w.bucket = <<id[1], id[2]>>
                                /\ trends[id].end >= w.end /\ trends[id].start <= w.start}

\* Active trends that overlap a window and were not found again.
Stale(r) ==
  {id \in DOMAIN trends \ Ids(recomputed[r]) :
     /\ trends[id].status = "active"
     /\ \E w \in WindowsOf(r) : /\ w.bucket = <<id[1], id[2]>>
                                /\ trends[id].end >= w.start /\ trends[id].start <= w.end}

----------------------------------------------------------------------------

ReplayInit ==
  /\ stage = [r \in Replays |-> "new"]
  /\ windows = {}
  /\ recomputed = [r \in Replays |-> {}]
  /\ recomputed_at = [r \in Replays |-> 0]
  /\ disturbed = [r \in Replays |-> FALSE]

\* The windows are appended to those of an earlier run.
Detect(r) ==
  /\ stage[r] \in {"new", "detected"}
  /\ windows' = windows \cup {WindowOf(r, b) : b \in Buckets(Changed(r))}
  /\ stage' = [stage EXCEPT ![r] = "detected"]
  /\ UNCHANGED <<microVars, recomputed, recomputed_at, disturbed>>

\* The job fails if there is no window; the rows of an earlier run go.
Recompute(r) ==
  /\ stage[r] \in {"detected", "recomputed"}
  /\ WindowsOf(r) # {}
  /\ \E view \in Views(Impacted(r)) :
       recomputed' = [recomputed EXCEPT ![r] =
         UNION {ResultsOf(view, b) : b \in {<<x[1], x[2].partition_key>> : x \in view}}]
  /\ recomputed_at' = [recomputed_at EXCEPT ![r] = arrived]
  /\ disturbed' = [disturbed EXCEPT ![r] = FALSE]
  /\ stage' = [stage EXCEPT ![r] = "recomputed"]
  /\ UNCHANGED <<microVars, windows>>

\* The trends table is written beside other replays that are not closed.
DisturbOthers(r) == disturbed' = [s \in Replays |-> disturbed[s] \/ s # r]

Retract(r) ==
  /\ stage[r] \in {"recomputed", "retracted", "closed"}
  /\ trends' = [id \in DOMAIN trends |->
                  IF id \in Stale(r)
                    THEN [trends[id] EXCEPT !.status = "retracted", !.replay_id = r]
                    ELSE trends[id]]
  /\ stage' = [stage EXCEPT ![r] = "retracted"]
  /\ DisturbOthers(r)
  /\ UNCHANGED <<environment, offset, plan, pc, attempt, failures, buffer, metrics,
                 durations, dlq, windows, recomputed, recomputed_at>>

\* Found again, a trend is active again, with the times it has now.
Upsert(r) ==
  /\ stage[r] = "retracted"
  /\ ~Ambiguous(recomputed[r])
  /\ trends' = [id \in DOMAIN trends \cup Ids(recomputed[r]) |->
                  IF id \notin Ids(recomputed[r]) THEN trends[id]
                  ELSE IF id \in DOMAIN trends
                    THEN [Inserted(RowOf(recomputed[r], id), r)
                            EXCEPT !.copies = trends[id].copies]
                    ELSE Inserted(RowOf(recomputed[r], id), r)]
  /\ stage' = [stage EXCEPT ![r] = "closed"]
  /\ DisturbOthers(r)
  /\ UNCHANGED <<environment, offset, plan, pc, attempt, failures, buffer, metrics,
                 durations, dlq, windows, recomputed, recomputed_at>>

Replay == \E r \in Replays : Detect(r) \/ Recompute(r) \/ Retract(r) \/ Upsert(r)

\* A step of the stream beside the replays.
Stream ==
  /\ MicroNext
  /\ disturbed' = [r \in Replays |-> \/ disturbed[r]
                                     \/ arrived' # arrived \/ trends' # trends]
  /\ UNCHANGED <<stage, windows, recomputed, recomputed_at>>

Init == MicroInit /\ ReplayInit
Next == Stream \/ Replay
Spec == Init /\ [][Next]_vars

\* Whenever the stream stopped it is restarted from its checkpoint, as the
\* runbook of operations asks, and a batch goes on.
FairSpec == Spec /\ WF_vars(Stream /\ ProcessBatch)

----------------------------------------------------------------------------
(* What the tables must hold.                                              *)

Statuses == {"active", "retracted"}

\* Every table and position is of its type: a batch is planned inside the
\* event table, and the buffer holds complete rows the stream has read.
LakeTypeOK ==
  /\ log \in Logs /\ arrived \in 0..Len(log) /\ now \in 0..MaxNow
  /\ offset \in 0..arrived
  /\ plan = 0 \/ plan \in offset + 1..arrived
  /\ pc \in {"idle", "started", "buffered", "expired", "searched", "merged",
             "lettered", "measured"}
  /\ pc # "idle" => plan # 0
  /\ current \subseteq Complete(RowsOfBatch)
  /\ errors \subseteq Buckets(current)
  /\ failures \in 0..MaxFailures
  /\ buffer \subseteq Queries \X Complete(Rows(arrived))
  /\ \A x, y \in buffer : BufferKey(x) = BufferKey(y) => x = y
  /\ \A id \in DOMAIN trends : /\ trends[id].status \in Statuses
                               /\ trends[id].replay_id \in Replays \cup {None}
  /\ durations \subseteq 0..arrived
  /\ stage \in [Replays -> {"new", "detected", "recomputed", "retracted", "closed"}]
  /\ \A w \in windows : w.replay \in Replays /\ w.bucket[1] \in Queries
  /\ recomputed_at \in [Replays -> 0..arrived]
  /\ disturbed \in [Replays -> BOOLEAN]

\* No two rows of the partition have one id, in a set of rows.
Settled(rows, p) == \A r, s \in Of(rows, p) : Key(r) = Key(s) => r = s

\* A row of a batch that is done stays in the buffer of a query until the
\* time allowed to the query and the lateness have passed since its event,
\* whatever failed in between; otherwise a trend across batches is lost.
BufferHoldsLive ==
  \A q \in Queries : \A r \in Complete(Rows(offset)) :
    /\ Settled(Complete(Rows(arrived)), r.partition_key)
    /\ now <= r.event_time_ms + within_ms[q] + Lateness
    => <<q, r>> \in buffer

\* The rows a batch has to search: all complete ones up to its end.
ReadSoFar(p) == Of(Complete(Rows(plan)), p)

\* The trends of a bucket in a set of rows whose first event is at least as
\* late as the time given.
TrendsOf(b, rows, from) ==
  {Trend(b, r) : r \in {s \in Search(Pattern[b[1]], within_ms[b[1]], rows) : s.start >= from}}

Unexpired(q) == searched_at - within_ms[q] - Lateness

\* What a batch finds is a trend of everything read so far, buffered or not,
\* as long as its first event had not expired: no row of an earlier batch is
\* missing between two events of its path.
LiveTrendsReal ==
  \A t \in found :
    /\ t.start >= Unexpired(t.query)
    /\ Settled(Complete(Rows(plan)), t.partition)
    => t \in TrendsOf(BucketOf(t), ReadSoFar(t.partition), Unexpired(t.query))

\* A batch is written off only when every trend of what was read so far, in
\* the partitions of the batch, is in the trends table, unless the engine
\* failed on the bucket: crashes and retries lose none.
CommitsComplete ==
  [][offset' # offset =>
       \A b \in Buckets(Complete(RowsOfBatch)) :
         \/ <<offset, b>> \in dlq
         \/ ~Settled(Complete(Rows(plan)), b[2])
         \/ Ids(TrendsOf(b, ReadSoFar(b[2]), Unexpired(b[1]))) \subseteq DOMAIN trends]_vars

\* Only its first and its last step may repeat, so a path can be read in one
\* way only.
ReadsOnce(q) == \A k \in 2..Len(Pattern[q]) - 1 : ~Pattern[q][k].kleene_plus

\* However often a trend is merged, by the batches of the stream, by their
\* retries and by replays, the table has one row of it, provided the pattern
\* finds no path twice.
OneRowPerTrend == \A id \in DOMAIN trends : ReadsOnce(id[1]) => trends[id].copies = 1

Inside(row, w) == w.start <= row.start /\ row.end <= w.end

\* The trends inside a window in the first n rows of the event table.
TrendsInside(w, n) ==
  {t \in TrendsOf(w.bucket, Of(Rows(n), w.bucket[2]), w.start) : t.end <= w.end}

\* A trend a replay retracted is not one that the event table, as the replay
\* read it, has inside the window: valid trends are not withdrawn.
RetractionsJustified ==
  \A id \in DOMAIN trends : \A w \in windows :
    /\ trends[id].status = "retracted" /\ trends[id].replay_id = w.replay
    /\ w.bucket = <<id[1], id[2]>>
    /\ Settled(Rows(recomputed_at[w.replay]), w.bucket[2])
    => id \notin Ids(TrendsInside(w, recomputed_at[w.replay]))

\* Once a replay is closed and as long as neither events nor trends were
\* written meanwhile by others, the active trends inside a window are exactly
\* those of the event table.
ReplayExact ==
  \A w \in windows :
    /\ stage[w.replay] = "closed" /\ ~disturbed[w.replay]
    /\ Settled(Rows(arrived), w.bucket[2])
    => {id \in DOMAIN trends : /\ <<id[1], id[2]>> = w.bucket
                               /\ trends[id].status = "active" /\ Inside(trends[id], w)}
       = Ids(TrendsInside(w, arrived))

\* "Runtime metrics emitted by notebooks/0xDSI_CET_Databricks_prod.py":
\* every batch that is started reports its duration.
DurationReported ==
  \A n \in UNION {DOMAIN l : l \in Logs} :
    (pc # "idle" /\ offset = n - 1 /\ current # {}) ~> n - 1 \in durations
=============================================================================
