-------------------------- MODULE MainBatch_proofs --------------------------
(***************************************************************************)
(* Theorems about the main and the v4 notebook of MainBatch and the ingest *)
(* job before them, for any messages, queries, tasks and failures.         *)
(***************************************************************************)
EXTENDS MainBatch, BatchRuntime_proofs

-----------------------------------------------------------------------------
(* The ingest job.                                                         *)

IngestInv ==
  /\ source \in Messages /\ emitted \in 0..Len(source) /\ salt \in Salts
  /\ runs \in 1..MaxRuns /\ now \in 0..MaxNow
  /\ \E T : table \in Seq(T)

\* Events are appended to the table; those it has stay where they are.
LEMMA TableAppended ==
  ASSUME NEW T, NEW t \in Seq(T), NEW n \in Nat, NEW new
  PROVE  LET u == t \o [i \in 1..n |-> new[i]]
         IN  /\ \E U : u \in Seq(U)
             /\ Len(t) \in Nat /\ Len(u) \in Nat /\ Len(t) <= Len(u)
             /\ DOMAIN t = 1..Len(t) /\ DOMAIN u = 1..Len(u)
             /\ \A i \in 1..Len(t) : u[i] = t[i]
<1> DEFINE s == [i \in 1..n |-> new[i]]
           S == T \cup {new[i] : i \in 1..n}
<1>1. t \in Seq(S)
  BY SeqMonotonic, T \subseteq S
<1>2. s \in [1..n -> S]
  OBVIOUS
<1> HIDE DEF S
<1>3. s \in Seq(S) /\ Len(s) = n
  BY <1>2
<1> HIDE DEF s
<1>4. Len(t) \in Nat /\ Len(s) \in Nat
  BY <1>1, <1>3, LenProperties
<1>5. (t \o s) \in Seq(S) /\ Len(t \o s) = Len(t) + Len(s)
  BY <1>1, <1>3, ConcatProperties
<1>6. \A i \in 1..Len(t) : (t \o s)[i] = t[i]
  <2> SUFFICES ASSUME NEW i \in 1..Len(t) PROVE (t \o s)[i] = t[i]
    OBVIOUS
  <2>1. i \in 1..Len(t) + Len(s) /\ i <= Len(t)
    BY <1>4
  <2> QED
    BY <1>1, <1>3, <2>1, ConcatProperties
<1>7. /\ DOMAIN t = 1..Len(t) /\ DOMAIN (t \o s) = 1..Len(t \o s)
      /\ Len(t \o s) \in Nat /\ Len(t) <= Len(t \o s)
  BY <1>1, <1>4, <1>5, LenProperties
<1> QED
  BY <1>4, <1>5, <1>6, <1>7 DEF s

LEMMA IngestStep ==
  ASSUME IngestInv, (Ingest /\ UNCHANGED batchVars) \/ UNCHANGED ingestVars
  PROVE  /\ IngestInv'
         /\ Len(table) \in Nat /\ Len(table') \in Nat /\ Len(table) <= Len(table')
         /\ DOMAIN table = 1..Len(table) /\ DOMAIN table' = 1..Len(table')
         /\ \A i \in 1..Len(table) : table'[i] = table[i]
<1>1. /\ Len(source) \in Nat /\ emitted \in Nat /\ emitted <= Len(source)
      /\ batch_size \in Nat \ {0} /\ MaxRuns \in Nat /\ MaxNow \in Nat
      /\ Missing \notin Int /\ (max_messages = Missing \/ max_messages \in Int)
  BY IngestAssumption DEF IngestInv
<1>2. Len(table) \in Nat /\ DOMAIN table = 1..Len(table)
  BY DEF IngestInv
<1>3. CASE table' = table /\ source' = source
  <2>1. \/ UNCHANGED <<emitted, salt, runs, now>>
        \/ emitted' = 0 /\ salt' \in Salts /\ runs < MaxRuns /\ runs' = runs + 1 /\ now' = now
        \/ now < MaxNow /\ now' = now + 1 /\ UNCHANGED <<emitted, salt, runs>>
        \/ emitted < Limit /\ emitted' = BatchEnd /\ UNCHANGED <<salt, runs, now>>
    BY DEF Ingest, AppendBatch, Rerun, Tick, ingestVars
  <2>2. emitted < Limit => BatchEnd \in 0..Len(source)
    BY <1>1 DEF Limit, BatchEnd
  <2> QED
    BY <1>1, <1>2, <1>3, <2>1, <2>2 DEF IngestInv
<1>4. CASE AppendBatch
  <2>1. BatchEnd \in 0..Len(source) /\ BatchEnd - emitted \in Nat
    BY <1>1, <1>4 DEF Limit, BatchEnd, AppendBatch
  <2> DEFINE n == BatchEnd - emitted
             new == [i \in 1..n |-> Event(source[emitted + i])]
  <2>2. table' = table \o [i \in 1..n |-> new[i]]
    BY <1>4 DEF AppendBatch
  <2>3. UNCHANGED <<source, salt, runs, now>> /\ emitted' = BatchEnd
    BY <1>4 DEF AppendBatch
  <2>4. PICK T : table \in Seq(T)
    BY DEF IngestInv
  <2> HIDE DEF new, n
  <2>5. n \in Nat
    BY <2>1 DEF n
  <2>6. /\ \E U : table' \in Seq(U)
        /\ Len(table) \in Nat /\ Len(table') \in Nat /\ Len(table) <= Len(table')
        /\ DOMAIN table = 1..Len(table) /\ DOMAIN table' = 1..Len(table')
        /\ \A i \in 1..Len(table) : table'[i] = table[i]
    BY <2>2, <2>4, <2>5, TableAppended
  <2> QED
    BY <2>1, <2>3, <2>6 DEF IngestInv
<1> QED
  BY <1>3, <1>4 DEF Ingest, Rerun, Tick, ingestVars

-----------------------------------------------------------------------------
(* The notebooks.                                                          *)

\* Up to where the batches done and the one to be done have read.
Upto == IF plan = 0 THEN offset ELSE plan

BatchInv ==
  /\ notebook \in {"main", "v4"}
  /\ offset \in 0..Len(table)
  /\ plan = 0 \/ plan \in offset + 1..Len(table)
  /\ pc \in {"idle", "started", "processed", "merged", "lettered", "done"}
  /\ pc # "idle" => plan # 0
  /\ failures \in 0..MaxFailures
  /\ buffer \subseteq (0..failures) \X (1..Upto)
  /\ \A row \in out : row[1] \in Tasks
  /\ \A letter \in letters : letter[1] \in 0..Len(table)

\* Why a partition may be given up.
Explained(key) ==
  \/ Duplicate(key)
  \/ notebook = "main" /\ failures > 0
  \/ \E q \in Queries : Odd(q)
  \/ \E rows \in SUBSET {i \in DOMAIN table : table[i].partition_key = key} :
       TooLarge({table[i] : i \in rows})

GivenUpInv ==
  /\ \A key \in Errors : Explained(key)
  /\ \A letter \in letters : Explained(letter[2])

\* The rows searched are rows read, one copy of each unless a batch was run
\* again.
LEMMA SearchedRead ==
  ASSUME IngestInv, BatchInv, pc = "started", NEW b \in Searched
  PROVE  /\ b = <<b[1], b[2]>> /\ b[1] \in 0..failures /\ b[2] \in 1..Len(table)
         /\ notebook = "v4" => b[1] = failures
<1>1. /\ Len(table) \in Nat /\ failures \in Nat
      /\ offset \in 0..Len(table) /\ plan \in offset + 1..Len(table)
  BY LenProperties, MainAssumption DEF IngestInv, BatchInv
<1>2. Upto \in 1..Len(table) /\ BatchRows \subseteq 1..Upto
  BY <1>1 DEF Upto, BatchRows
<1>3. CASE notebook = "main"
  <2>1. b \in buffer
    BY <1>3 DEF Searched, History
  <2>2. buffer \subseteq (0..failures) \X (1..Upto)
    BY DEF BatchInv
  <2> QED
    BY <1>1, <1>2, <1>3, <2>1, <2>2
<1>4. CASE notebook = "v4"
  <2>1. PICK i \in BatchRows : b = <<failures, i>>
    BY <1>4 DEF Searched
  <2> QED
    BY <1>1, <1>2, <1>4, <2>1
<1> QED
  BY <1>3, <1>4 DEF BatchInv

\* What becomes of the bucket k, the rows of its key that its task has.
BucketRows(reader, rows, k) == {b \in OfKey(rows, k[2]) : reader[b] = k[1]}

\* The rows it finds at them, and the result of a run that comes to an outcome.
TableAt(bucket) == [b \in bucket |-> table[b[2]]]

ComesOf(o, key, r) ==
  /\ o.rows = IF r.raised THEN {Error(key)} ELSE {Trend(t) : t \in r.trends}
  /\ o.overflow = r.overflow

LEMMA OutcomeOf ==
  ASSUME NEW reader, NEW rows, NEW outcome \in Outcomes(reader, rows),
         NEW k \in Buckets(reader, rows), NEW bucket, bucket = BucketRows(reader, rows, k),
         NEW at, at = TableAt(bucket)
  PROVE  \E r \in Run(Queries, bucket, at) : ComesOf(outcome[k], k[2], r)
<1> DEFINE of(j) == Processed(j[2], {b \in OfKey(rows, j[2]) : reader[b] = j[1]})
           possible == UNION {{j} \X of(j) : j \in Buckets(reader, rows)}
<1>1. <<k, outcome[k]>> \in possible
  BY DEF Outcomes
<1>2. \A j, o : <<j, o>> \in possible => o \in of(j)
  <2> HIDE DEF of
  <2> QED OBVIOUS
<1>3. outcome[k] \in of(k)
  <2> HIDE DEF possible, of
  <2> QED BY <1>1, <1>2
<1>4. outcome[k] \in Processed(k[2], bucket)
  BY <1>3 DEF BucketRows
<1>5. Processed(k[2], bucket) =
        {[rows     |-> IF r.raised THEN {Error(k[2])} ELSE {Trend(t) : t \in r.trends},
          overflow |-> r.overflow] : r \in Run(Queries, bucket, at)}
  BY DEF Processed, TableAt
<1>6. PICK r \in Run(Queries, bucket, at) :
        outcome[k] = [rows     |-> IF r.raised THEN {Error(k[2])} ELSE {Trend(t) : t \in r.trends},
                      overflow |-> r.overflow]
  BY <1>4, <1>5
<1> DEFINE some == IF r.raised THEN {Error(k[2])} ELSE {Trend(t) : t \in r.trends}
           overflow == r.overflow
<1>7. outcome[k] = [rows |-> some, overflow |-> overflow]
  BY <1>6
<1> HIDE DEF some, overflow
<1>8. outcome[k].rows = some /\ outcome[k].overflow = overflow
  BY <1>7
<1>9. ComesOf(outcome[k], k[2], r)
  BY <1>8, Zenon DEF some, overflow, ComesOf
<1> QED
  BY <1>9

\* A task's rows of a partition key raise only for a reason.
LEMMA RaisesForReason ==
  ASSUME IngestInv, BatchInv, pc = "started", NEW key, NEW bucket, bucket \subseteq OfKey(Searched, key),
         NEW at, at = TableAt(bucket),
         NEW r \in Run(Queries, bucket, at), r.raised
  PROVE  Explained(key)
<1>0. DOMAIN table = 1..Len(table)
  BY LenProperties DEF IngestInv
<1>1. CASE \E q \in Queries : \E o \in RunQuery(q, EventsAt(bucket, at)) : o.raised
  <2> DEFINE E == EventsAt(bucket, at)
  <2>1. PICK q \in Queries : \E o \in RunQuery(q, E) : o.raised
    BY <1>1
  <2> HIDE DEF E
  <2>2. Odd(q) \/ \E F \in SUBSET E : TooLarge(F)
    BY <2>1, QueryRaisesFor DEF Odd
  <2>3. CASE \E F \in SUBSET E : TooLarge(F)
    <3>1. PICK F \in SUBSET E : TooLarge(F)
      BY <2>3
    <3> DEFINE all == {i \in DOMAIN table : table[i].partition_key = key}
               rows == {i \in all : table[i] \in F}
    <3>2. \A e \in E : \E i \in all : e = table[i]
      <4> TAKE e \in E
      <4>1. PICK b \in bucket : e = table[b[2]]
        BY DEF E, EventsAt, TableAt
      <4>2. b \in Searched /\ table[b[2]].partition_key = key
        BY <4>1 DEF OfKey
      <4>3. b[2] \in 1..Len(table)
        BY <4>2, SearchedRead
      <4> QED
        BY <1>0, <4>1, <4>2, <4>3
    <3>3. {table[i] : i \in rows} = F
      BY <3>2
    <3>4. rows \in SUBSET all
      OBVIOUS
    <3> QED
      BY <3>1, <3>3, <3>4 DEF Explained
  <2> QED
    BY <2>2, <2>3 DEF Explained
<1>2. CASE ~ValidEvents(bucket, at)
  <2>1. PICK i \in bucket, j \in bucket : at[i].event_id = at[j].event_id /\ i # j
    BY <1>2 DEF ValidEvents
  <2>2. /\ i \in Searched /\ table[i[2]].partition_key = key /\ at[i] = table[i[2]]
        /\ j \in Searched /\ table[j[2]].partition_key = key /\ at[j] = table[j[2]]
    BY DEF OfKey, TableAt
  <2>3. /\ i = <<i[1], i[2]>> /\ i[1] \in 0..failures /\ i[2] \in 1..Len(table)
        /\ j = <<j[1], j[2]>> /\ j[1] \in 0..failures /\ j[2] \in 1..Len(table)
        /\ notebook = "v4" => i[1] = failures /\ j[1] = failures
    BY <2>2, SearchedRead
  <2>4. CASE i[2] # j[2]
    <3>1. Duplicate(key)
      BY <1>0, <2>1, <2>2, <2>3, <2>4 DEF Duplicate
    <3> QED
      BY <3>1 DEF Explained
  <2>5. CASE i[2] = j[2]
    <3>1. i[1] # j[1]
      BY <2>1, <2>3, <2>5
    <3>2. notebook = "main" /\ failures > 0
      BY <2>3, <3>1, MainAssumption DEF BatchInv
    <3> QED
      BY <3>2 DEF Explained
  <2> QED
    BY <2>4, <2>5
<1> QED
  BY <1>1, <1>2, RunAnswers

\* What is explained stays so.
LEMMA StaysExplained ==
  ASSUME IngestInv, BatchInv, [Next]_vars, NEW key, Explained(key)
  PROVE  Explained(key)'
<1>1. /\ DOMAIN table \subseteq DOMAIN table'
      /\ \A i \in DOMAIN table : table'[i] = table[i]
  <2>1. CASE (Ingest /\ UNCHANGED batchVars) \/ UNCHANGED ingestVars
    BY <2>1, IngestStep
  <2>2. CASE ProcessBatch \/ Fail
    BY <2>2 DEF ProcessBatch, PlanBatch, StartBatch, Process, MergeTrends, WriteErrors,
       ExpireBuffer, Commit, Fail, ingestVars
  <2> QED
    BY <2>1, <2>2 DEF Next, vars
<1>2. notebook' = notebook /\ failures \in Nat /\ (failures' = failures \/ failures' = failures + 1)
  BY MainAssumption DEF BatchInv, Next, Ingest, AppendBatch, Rerun, Tick, ProcessBatch, PlanBatch,
     StartBatch, Process, MergeTrends, WriteErrors, ExpireBuffer, Commit, Fail, batchVars, vars
<1>3. CASE Duplicate(key)
  <2>1. Duplicate(key)'
    BY <1>1, <1>3 DEF Duplicate
  <2> QED
    BY <2>1 DEF Explained
<1>4. CASE notebook = "main" /\ failures > 0
  BY <1>2, <1>4 DEF Explained
<1>5. CASE \E q \in Queries : Odd(q)
  <2>1. (\E q \in Queries : Odd(q))'
    BY <1>5
  <2> QED
    BY <2>1 DEF Explained
<1>6. CASE \E rows \in SUBSET {i \in DOMAIN table : table[i].partition_key = key} :
             TooLarge({table[i] : i \in rows})
  <2>1. PICK rows \in SUBSET {i \in DOMAIN table : table[i].partition_key = key} :
          TooLarge({table[i] : i \in rows})
    BY <1>6
  <2>2. \A i \in rows : i \in DOMAIN table' /\ table'[i] = table[i] /\ table'[i].partition_key = key
    BY <1>1
  <2>3. {table'[i] : i \in rows} = {table[i] : i \in rows}
    BY <2>2
  <2>4. (\E few \in SUBSET {i \in DOMAIN table : table[i].partition_key = key} :
           TooLarge({table[i] : i \in few}))'
    BY <2>1, <2>2, <2>3
  <2> QED
    BY <2>4 DEF Explained
<1> QED
  BY <1>3, <1>4, <1>5, <1>6 DEF Explained

LEMMA BatchInit == Init => IngestInv /\ BatchInv /\ GivenUpInv
<1> SUFFICES ASSUME Init PROVE IngestInv /\ BatchInv /\ GivenUpInv
  OBVIOUS
<1>1. Len(source) \in Nat /\ MaxRuns \in Nat \ {0} /\ MaxNow \in Nat /\ MaxFailures \in Nat
  BY IngestAssumption, MainAssumption, LenProperties DEF Init, IngestInit
<1>2. <<>> \in Seq({}) /\ Len(<<>>) = 0
  BY EmptySeq
<1>3. IngestInv
  BY <1>1, <1>2 DEF Init, IngestInit, IngestInv
<1>4. BatchInv
  BY <1>1, <1>2 DEF Init, IngestInit, BatchInv
<1> QED
  BY <1>3, <1>4 DEF Init, GivenUpInv, Errors

LEMMA BatchStep == IngestInv /\ BatchInv /\ [Next]_vars => IngestInv' /\ BatchInv'
<1> SUFFICES ASSUME IngestInv, BatchInv, [Next]_vars PROVE IngestInv' /\ BatchInv'
  OBVIOUS
<1>1. CASE (Ingest /\ UNCHANGED batchVars) \/ UNCHANGED vars
  <2>1. /\ IngestInv' /\ Len(table) \in Nat /\ Len(table') \in Nat /\ Len(table) <= Len(table')
    BY <1>1, IngestStep DEF vars
  <2>2. UNCHANGED batchVars
    BY <1>1 DEF vars
  <2>3. /\ offset' \in 0..Len(table') /\ (plan' = 0 \/ plan' \in offset' + 1..Len(table'))
        /\ \A letter \in letters' : letter[1] \in 0..Len(table')
    BY <2>1, <2>2 DEF BatchInv, batchVars
  <2> QED
    BY <2>1, <2>2, <2>3 DEF BatchInv, batchVars, Upto
<1>2. CASE ProcessBatch \/ Fail
  <2>1. UNCHANGED ingestVars
    BY <1>2 DEF ProcessBatch, PlanBatch, StartBatch, Process, MergeTrends, WriteErrors,
       ExpireBuffer, Commit, Fail
  <2>2. IngestInv'
    BY <2>1, IngestStep
  <2>3. /\ Len(table) \in Nat /\ failures \in Nat /\ MaxFailures \in Nat /\ offset \in Nat
        /\ table' = table
    BY <2>1, MainAssumption, IngestStep DEF BatchInv, ingestVars
  <2> USE <2>3 DEF BatchInv
  <2>4. CASE PlanBatch
    <3>1. /\ plan = 0 /\ plan' \in offset + 1..Len(table) /\ pc = "idle"
          /\ UNCHANGED <<notebook, offset, pc, failures, buffer, out, letters>>
      BY <2>4 DEF PlanBatch
    <3>2. 1..Upto \subseteq 1..Upto'
      BY <3>1 DEF Upto
    <3> QED
      BY <3>1, <3>2, <2>2
  <2>5. CASE StartBatch
    <3>1. /\ plan # 0 /\ pc' = "started"
          /\ buffer' \subseteq buffer \cup {<<failures, i>> : i \in BatchRows}
          /\ UNCHANGED <<notebook, offset, plan, failures, out, letters>>
      BY <2>5 DEF StartBatch
    <3>2. BatchRows \subseteq 1..Upto /\ Upto' = Upto
      BY <3>1 DEF BatchRows, Upto
    <3>3. ASSUME NEW b \in buffer'
          PROVE  b \in (0..failures') \X (1..Upto')
      <4>1. CASE b \in buffer
        BY <3>1, <3>2, <4>1
      <4>2. CASE b \in {<<failures, i>> : i \in BatchRows}
        BY <3>1, <3>2, <4>2
      <4> QED
        BY <3>1, <4>1, <4>2
    <3> QED
      BY <3>1, <3>2, <3>3, <2>2
  <2>6. CASE Process
    <3>0. PICK reader \in [Searched -> Tasks] : \E outcome \in Outcomes(reader, Searched) :
            out' = UNION {{k[1]} \X outcome[k].rows : k \in Buckets(reader, Searched)}
      BY <2>6 DEF Process
    <3>1. PICK outcome \in Outcomes(reader, Searched) :
            out' = UNION {{k[1]} \X outcome[k].rows : k \in Buckets(reader, Searched)}
      BY <3>0
    <3>2. \A row \in out' : row[1] \in Tasks
      <4>1. \A k \in Buckets(reader, Searched) : k[1] \in Tasks
        BY DEF Buckets
      <4> QED
        BY <3>1, <4>1
    <3>3. /\ pc # "idle" /\ pc' \in {"processed", "done"}
          /\ UNCHANGED <<notebook, offset, plan, failures, buffer, letters>>
      BY <2>6 DEF Process
    <3> QED
      BY <3>2, <3>3, <2>2 DEF Upto
  <2>7. CASE MergeTrends
    BY <2>2, <2>7 DEF MergeTrends, Upto
  <2>8. CASE WriteErrors
    <3>1. /\ letters' = letters \cup {<<offset, key>> : key \in Errors}
          /\ pc = "merged" /\ pc' = "lettered"
          /\ UNCHANGED <<notebook, offset, plan, failures, buffer, out>>
      BY <2>8 DEF WriteErrors
    <3> QED
      BY <2>2, <3>1 DEF Upto
  <2>9. CASE ExpireBuffer
    BY <2>2, <2>9 DEF ExpireBuffer, Upto
  <2>10. CASE Commit
    BY <2>2, <2>10 DEF Commit, Upto
  <2>11. CASE Fail
    <3>1. /\ failures' = failures + 1 /\ failures < MaxFailures /\ pc' = "idle" /\ out' = {}
          /\ UNCHANGED <<notebook, offset, plan, buffer, letters>>
      BY <2>11 DEF Fail
    <3>2. 0..failures \subseteq 0..failures' /\ Upto' = Upto
      BY <3>1 DEF Upto
    <3> QED
      BY <2>2, <3>1, <3>2
  <2> QED
    BY <1>2, <2>4, <2>5, <2>6, <2>7, <2>8, <2>9, <2>10, <2>11 DEF ProcessBatch
<1> QED
  BY <1>1, <1>2 DEF Next

LEMMA GivenUpStep == GivenUpInv /\ IngestInv /\ BatchInv /\ [Next]_vars => GivenUpInv'
<1> SUFFICES ASSUME GivenUpInv, IngestInv, BatchInv, [Next]_vars PROVE GivenUpInv'
  OBVIOUS
<1>1. \A letter \in letters : Explained(letter[2])'
  BY StaysExplained DEF GivenUpInv
<1>2. \A key \in Errors : Explained(key)'
  BY StaysExplained DEF GivenUpInv
<1>3. CASE Process
  <2>0. PICK reader \in [Searched -> Tasks] : \E outcome \in Outcomes(reader, Searched) :
          out' = UNION {{k[1]} \X outcome[k].rows : k \in Buckets(reader, Searched)}
    BY <1>3 DEF Process
  <2>1. PICK outcome \in Outcomes(reader, Searched) :
          out' = UNION {{k[1]} \X outcome[k].rows : k \in Buckets(reader, Searched)}
    BY <2>0
  <2>2. pc = "started" /\ letters' = letters
    BY <1>3 DEF Process
  <2>3. ASSUME NEW row \in out', row[2].status = "err"
        PROVE  Explained(row[2].key)
    <3>1. PICK k \in Buckets(reader, Searched) : row[2] \in outcome[k].rows
      BY <2>1
    <3> DEFINE bucket == BucketRows(reader, Searched, k)
               at == TableAt(bucket)
    <3>2. bucket \subseteq OfKey(Searched, k[2])
      BY DEF BucketRows
    <3>9. bucket = BucketRows(reader, Searched, k) /\ at = TableAt(bucket)
      OBVIOUS
    <3> HIDE DEF bucket, at
    <3>3. PICK r \in Run(Queries, bucket, at) : ComesOf(outcome[k], k[2], r)
      BY <2>1, <3>1, <3>9, OutcomeOf
    <3>4. \A t : Trend(t).status # "err"
      BY DEF Trend
    <3>5. r.raised /\ row[2] = Error(k[2])
      BY <2>3, <3>1, <3>3, <3>4 DEF ComesOf
    <3>6. row[2].key = k[2]
      BY <3>5 DEF Error
    <3>7. Explained(k[2])
      BY <2>2, <3>2, <3>5, <3>9, RaisesForReason
    <3> QED
      BY <3>6, <3>7
  <2>4. \A key \in Errors' : Explained(key)'
    BY <2>3, StaysExplained DEF Errors
  <2> QED
    BY <1>1, <2>2, <2>4 DEF GivenUpInv
<1>4. CASE WriteErrors
  <2>1. letters' = letters \cup {<<offset, key>> : key \in Errors} /\ out' = out
    BY <1>4 DEF WriteErrors
  <2> QED
    BY <1>1, <1>2, <2>1 DEF GivenUpInv, Errors
<1>5. CASE ~Process /\ ~WriteErrors
  <2>1. letters' = letters /\ out' \in {out, {}}
    BY <1>5 DEF Next, ProcessBatch, PlanBatch, StartBatch, MergeTrends, ExpireBuffer, Commit,
       Fail, vars, batchVars
  <2>2. Errors' \subseteq Errors
    BY <2>1 DEF Errors
  <2> QED
    BY <1>1, <1>2, <2>1, <2>2 DEF GivenUpInv
<1> QED
  BY <1>3, <1>4, <1>5

-----------------------------------------------------------------------------

MainInv == IngestInv /\ BatchInv /\ GivenUpInv

LEMMA MainInvHolds == Spec => []MainInv
<1>1. Init => MainInv
  BY BatchInit DEF MainInv
<1>2. MainInv /\ [Next]_vars => MainInv'
  BY BatchStep, GivenUpStep DEF MainInv
<1> QED
  BY <1>1, <1>2, PTL DEF Spec

\* Positions stay inside the event table, in any run of the ingest job and of
\* either notebook.
THEOREM MainAlwaysTypeOK == Spec => []MainTypeOK
<1>1. MainInv => MainTypeOK
  BY DEF MainInv, IngestInv, BatchInv, MainTypeOK, Upto
<1> QED
  BY <1>1, MainInvHolds, PTL

\* Events are given up only for a duplicate id in the event table, for a batch
\* main ran again, for a query the runtime may raise for, or for more events
\* or edges than the kernel takes.
THEOREM GivenUpForReason == Spec => []NoDeadLetterWithoutRetry
<1>1. MainInv => NoDeadLetterWithoutRetry
  BY DEF MainInv, GivenUpInv, Explained, NoDeadLetterWithoutRetry
<1> QED
  BY <1>1, MainInvHolds, PTL

Typed ==
  \A i \in DOMAIN table : /\ table[i].partition_key \in Int /\ table[i].event_time_ms \in Int
                          /\ table[i].event_id \in Int

\* Main's buffer has what it has read and does not yet let go.
Buffered ==
  notebook = "main" =>
    \A i \in 1..(IF pc = "idle" THEN offset ELSE plan) :
      table[i].event_time_ms >= now - Retention => \E f \in Int : <<f, i>> \in buffer

\* What becomes of a partition that one task has had whole.
Answered(key) ==
  \/ Duplicate(key)
  \/ TrendsOfBatch(key) \subseteq (IF pc = "processed" THEN Ids ELSE DOMAIN trends)
  \/ IF pc \in {"processed", "merged"} THEN key \in Errors ELSE <<offset, key>> \in letters

AnsweredInv ==
  notebook = "main" /\ pc \notin {"idle", "started"} => \A key \in together : Answered(key)

\* A step keeps the rows of the table, and the clock does not go back.
LEMMA TableGrows ==
  ASSUME IngestInv, BatchInv, [Next]_vars
  PROVE  /\ Len(table) \in Nat /\ Len(table') \in Nat /\ Len(table) <= Len(table')
         /\ DOMAIN table = 1..Len(table) /\ DOMAIN table' = 1..Len(table')
         /\ \A i \in 1..Len(table) : table'[i] = table[i]
         /\ now \in Int /\ now' \in Int /\ now <= now' /\ notebook' = notebook
<1>1. CASE (Ingest /\ UNCHANGED batchVars) \/ UNCHANGED vars
  <2>1. /\ Len(table) \in Nat /\ Len(table') \in Nat /\ Len(table) <= Len(table')
        /\ DOMAIN table = 1..Len(table) /\ DOMAIN table' = 1..Len(table')
        /\ \A i \in 1..Len(table) : table'[i] = table[i]
    BY <1>1, IngestStep DEF vars
  <2>2. now \in Int
    BY DEF IngestInv
  <2>3. (now' = now \/ now' = now + 1) /\ notebook' = notebook
    BY <1>1 DEF Ingest, AppendBatch, Rerun, Tick, vars, ingestVars, batchVars
  <2> QED
    BY <2>1, <2>2, <2>3
<1>2. CASE ProcessBatch \/ Fail
  <2>1. UNCHANGED ingestVars /\ notebook' = notebook
    BY <1>2 DEF ProcessBatch, PlanBatch, StartBatch, Process, MergeTrends, WriteErrors,
       ExpireBuffer, Commit, Fail
  <2>2. /\ Len(table) \in Nat /\ DOMAIN table = 1..Len(table) /\ now \in Int
    BY LenProperties DEF IngestInv
  <2> QED
    BY <2>1, <2>2 DEF ingestVars
<1> QED
  BY <1>1, <1>2 DEF Next

LEMMA TypedStep ==
  ASSUME Typed, IngestInv, BatchInv, [Next]_vars
  PROVE  Typed'
<1>1. CASE AppendBatch
  <2> DEFINE n == BatchEnd - emitted
             new == [i \in 1..n |-> Event(source[emitted + i])]
  <2>1. table' = table \o new /\ emitted < Limit
    BY <1>1 DEF AppendBatch
  <2>2. /\ Len(source) \in Nat /\ emitted \in Nat /\ emitted <= Len(source)
        /\ batch_size \in Nat \ {0} /\ (max_messages = Missing \/ max_messages \in Int)
        /\ source \in Messages /\ source \in Seq({source[i] : i \in DOMAIN source})
        /\ now \in Int /\ salt \in Salts
    BY IngestAssumption DEF IngestInv
  <2>3. BatchEnd \in 0..Len(source) /\ n \in Nat
    BY <2>1, <2>2 DEF Limit, BatchEnd
  <2>4. DOMAIN source = 1..Len(source)
    BY <2>2
  <2>5. \A i \in 1..n : emitted + i \in DOMAIN source
    BY <2>2, <2>3, <2>4
  <2>6. \A i \in 1..n : /\ new[i].partition_key \in Int /\ new[i].event_time_ms \in Int
                        /\ new[i].event_id \in Int
    <3> TAKE i \in 1..n
    <3> DEFINE m == source[emitted + i]
    <3>1. /\ m.event_id \in Int \cup {Missing} /\ \A s \in Salts : Hash[s][m] \in Int
          /\ m.event_time_ms \in Int \cup {Missing} /\ m.partition_key \in Int
      BY <2>2, <2>5, IngestAssumption
    <3>2. new[i] = Event(m)
      OBVIOUS
    <3> HIDE DEF m, new
    <3> QED
      BY <2>2, <3>1, <3>2 DEF Event
  <2>7. new \in [1..n -> {new[i] : i \in 1..n}]
    OBVIOUS
  <2>8. PICK T : table \in Seq(T)
    BY DEF IngestInv
  <2> HIDE DEF new, n
  <2>9. new \in Seq({new[i] : i \in 1..n}) /\ Len(new) = n
    BY <2>3, <2>7
  <2>10. /\ Len(table) \in Nat /\ DOMAIN table = 1..Len(table)
         /\ DOMAIN (table \o new) = 1..Len(table) + n
         /\ \A i \in 1..Len(table) + n :
              (table \o new)[i] = IF i <= Len(table) THEN table[i] ELSE new[i - Len(table)]
    BY <2>3, <2>8, <2>9
  <2>11. \A i \in 1..Len(table) + n : i <= Len(table) => i \in DOMAIN table
    BY <2>3, <2>10
  <2>12. \A i \in 1..Len(table) + n : ~(i <= Len(table)) => i - Len(table) \in 1..n
    BY <2>3, <2>10
  <2> QED
    BY <2>1, <2>6, <2>10, <2>11, <2>12 DEF Typed
<1>2. CASE ~AppendBatch
  <2>1. table' = table
    BY <1>2 DEF Next, Ingest, Rerun, Tick, ProcessBatch, PlanBatch, StartBatch, Process,
       MergeTrends, WriteErrors, ExpireBuffer, Commit, Fail, ingestVars, vars
  <2> QED
    BY <2>1 DEF Typed
<1> QED
  BY <1>1, <1>2

LEMMA BufferedStep ==
  ASSUME Buffered, Typed, IngestInv, BatchInv, [Next]_vars
  PROVE  Buffered'
<1> DEFINE upto == IF pc = "idle" THEN offset ELSE plan
           Kept(i) == table[i].event_time_ms >= now - Retention
           In(i) == \E f \in Int : <<f, i>> \in buffer
<1>1. /\ Len(table) \in Nat /\ DOMAIN table = 1..Len(table)
      /\ \A i \in 1..Len(table) : table'[i] = table[i]
      /\ now \in Int /\ now' \in Int /\ now <= now' /\ notebook' = notebook
  BY TableGrows
<1>2. /\ offset \in 0..Len(table) /\ (plan = 0 \/ plan \in offset + 1..Len(table))
      /\ (pc # "idle" => plan # 0) /\ failures \in 0..MaxFailures
      /\ Retention \in Nat /\ MaxFailures \in Nat
  BY MainAssumption DEF BatchInv
<1>3. upto \in 0..Len(table) /\ 1..upto \subseteq 1..Len(table) /\ 1..offset \subseteq 1..upto
  BY <1>1, <1>2
<1>4. \A i \in 1..Len(table) : Kept(i)' => Kept(i)
  <2> TAKE i \in 1..Len(table)
  <2>1. table'[i] = table[i] /\ table[i].event_time_ms \in Int
    BY <1>1 DEF Typed
  <2> QED
    BY <1>1, <1>2, <2>1
<1>5. notebook = "main" => \A i \in 1..upto : Kept(i) => In(i)
  BY DEF Buffered
<1>6. Buffered' <=> (notebook' = "main" => \A i \in 1..upto' : Kept(i)' => In(i)')
  BY DEF Buffered
<1>7. CASE buffer' = buffer /\ 1..upto' \subseteq 1..upto
  <2>1. ASSUME notebook = "main", NEW i \in 1..upto', Kept(i)' PROVE In(i)'
    <3>1. i \in 1..upto /\ i \in 1..Len(table)
      BY <1>3, <1>7
    <3>2. In(i)
      BY <1>4, <1>5, <2>1, <3>1
    <3> QED
      BY <1>7, <3>2
  <2> HIDE DEF Kept, In, upto
  <2> QED
    BY <1>1, <1>6, <2>1
<1>8. CASE StartBatch
  <2>1. /\ pc = "idle" /\ plan # 0 /\ pc' = "started" /\ plan' = plan /\ offset' = offset
        /\ notebook = "main" => buffer' = buffer \cup {<<failures, i>> : i \in BatchRows}
    BY <1>8 DEF StartBatch
  <2>2. upto = offset /\ upto' = plan /\ plan \in offset + 1..Len(table) /\ failures \in Int
    BY <1>2, <2>1
  <2>3. \A i \in 1..upto' : i \in 1..upto \/ i \in BatchRows
    BY <1>1, <1>2, <2>2 DEF BatchRows
  <2>4. 1..upto' \subseteq 1..Len(table)
    BY <1>1, <1>2, <2>2
  <2>5. ASSUME notebook = "main", NEW i \in 1..upto', Kept(i)' PROVE In(i)'
    <3>1. CASE i \in 1..upto
      <4>1. In(i)
        BY <1>4, <1>5, <2>4, <2>5, <3>1
      <4> QED
        BY <2>1, <2>5, <4>1
    <3>2. CASE i \in BatchRows
      <4>1. <<failures, i>> \in buffer'
        BY <2>1, <2>5, <3>2
      <4> QED
        BY <2>2, <4>1
    <3> QED
      BY <2>3, <3>1, <3>2
  <2> HIDE DEF Kept, In, upto
  <2> QED
    BY <1>1, <1>6, <2>5
<1>9. CASE ExpireBuffer
  <2>1. /\ buffer' = {b \in buffer : table[b[2]].event_time_ms >= now - Retention}
        /\ pc = "lettered" /\ pc' = "done" /\ UNCHANGED <<offset, plan>>
    BY <1>9 DEF ExpireBuffer
  <2>2. upto' = upto
    BY <2>1
  <2>3. ASSUME notebook = "main", NEW i \in 1..upto, Kept(i)' PROVE In(i)'
    <3>1. Kept(i) /\ In(i)
      BY <1>3, <1>4, <1>5, <2>3
    <3>2. PICK f \in Int : <<f, i>> \in buffer
      BY <3>1
    <3>3. <<f, i>> \in buffer'
      BY <2>1, <3>1, <3>2
    <3> QED
      BY <3>3
  <2> HIDE DEF Kept, In, upto
  <2> QED
    BY <1>1, <1>6, <2>2, <2>3
<1>10. CASE ~StartBatch /\ ~ExpireBuffer
  <2>1. buffer' = buffer
    BY <1>10 DEF Next, ProcessBatch, PlanBatch, Process, MergeTrends, WriteErrors, Commit,
       Fail, vars, batchVars
  <2>2. \/ UNCHANGED <<pc, offset, plan>>
        \/ pc = "idle" /\ pc' = "idle" /\ offset' = offset
        \/ pc # "idle" /\ pc' # "idle" /\ plan' = plan
        \/ pc # "idle" /\ pc' = "idle" /\ offset' = plan
        \/ pc # "idle" /\ pc' = "idle" /\ offset' = offset
    BY <1>10 DEF Next, ProcessBatch, PlanBatch, Process, MergeTrends, WriteErrors, Commit,
       Fail, vars, batchVars
  <2>3. upto' = upto \/ (upto' = offset)
    BY <2>2
  <2>4. 1..upto' \subseteq 1..upto
    BY <1>3, <2>3
  <2> QED
    BY <1>7, <2>1, <2>4
<1> QED
  BY <1>8, <1>9, <1>10

-----------------------------------------------------------------------------
(* What main searches has every trend of the batch.                        *)

IsImage(S, f, R) == S = {f[r] : r \in R}

LEMMA ImageBounds ==
  ASSUME NEW R, IsFiniteSet(R), R # {}, NEW f, NEW S, IsImage(S, f, R), S \subseteq Int
  PROVE  /\ \E least \in S : \A x \in S : least <= x
         /\ \E most \in S : \A x \in S : x <= most
<1> DEFINE g == [r \in R |-> f[r]]
<1>1. g \in Surjection(R, S)
  BY DEF Surjection, IsImage
<1>2. S # {}
  BY DEF IsImage
<1> HIDE DEF g
<1>3. IsFiniteSet(S)
  BY <1>1, FS_Surjection
<1> QED
  BY ONLY <1>2, <1>3, S \subseteq Int, Bounds

\* Bounds of the history of a batch.
LEMMA HistoryBounds ==
  ASSUME Typed, IngestInv, BatchInv, plan # 0
  PROVE  /\ LeastTime(BatchRows) \in Int
         /\ \A i \in BatchRows : LeastTime(BatchRows) <= table[i].event_time_ms
         /\ MAX_WITHIN_MS \in Int /\ \A q \in Queries : q.within_ms <= MAX_WITHIN_MS
<1>1. /\ Len(table) \in Nat /\ DOMAIN table = 1..Len(table)
      /\ offset \in 0..Len(table) /\ plan \in offset + 1..Len(table)
  BY LenProperties DEF IngestInv, BatchInv
<1>2. IsFiniteSet(BatchRows) /\ plan \in BatchRows /\ BatchRows \subseteq DOMAIN table
  <2>1. offset + 1 \in Int /\ plan \in Int
    BY <1>1
  <2>2. IsFiniteSet(offset + 1..plan)
    BY <2>1, FS_Interval
  <2> QED
    BY <1>1, <2>2 DEF BatchRows
<1>4. LeastTime(BatchRows) \in Int /\ \A i \in BatchRows : LeastTime(BatchRows) <= table[i].event_time_ms
  <2> DEFINE f == [i \in BatchRows |-> table[i].event_time_ms]
             T == {table[i].event_time_ms : i \in BatchRows}
  <2>1. IsImage(T, f, BatchRows) /\ T \subseteq Int
    BY <1>2 DEF Typed, IsImage
  <2>2. BatchRows # {}
    BY <1>2
  <2>3. \E least \in T : \A x \in T : least <= x
    <3> HIDE DEF f, T
    <3> QED BY <1>2, <2>1, <2>2, ImageBounds
  <2>4. \E t \in T : \A i \in BatchRows : t <= table[i].event_time_ms
    BY <2>3
  <2>5. LeastTime(BatchRows) \in T /\ \A i \in BatchRows : LeastTime(BatchRows) <= table[i].event_time_ms
    <3> HIDE DEF f
    <3> QED BY <2>4 DEF LeastTime
  <2> QED
    BY <1>2, <2>5 DEF Typed
<1>5. MAX_WITHIN_MS \in Int /\ \A q \in Queries : q.within_ms <= MAX_WITHIN_MS
  <2> DEFINE f == [q \in Queries |-> q.within_ms]
             W == {q.within_ms : q \in Queries}
  <2>1. IsImage(W, f, Queries) /\ W \subseteq Int
    BY MainAssumption DEF IsQuery, IsImage
  <2>2. \E most \in W : \A x \in W : x <= most
    <3> HIDE DEF f, W
    <3> QED BY <2>1, MainAssumption, ImageBounds
  <2>3. \E w \in W : \A q \in Queries : q.within_ms <= w
    BY <2>2
  <2>4. MAX_WITHIN_MS \in W /\ \A q \in Queries : q.within_ms <= MAX_WITHIN_MS
    <3> HIDE DEF f
    <3> QED BY <2>3 DEF MAX_WITHIN_MS
  <2> QED
    BY <2>4, MainAssumption DEF IsQuery
<1> QED
  BY <1>4, <1>5

\* The ids of the trends of a list of events that the bridge leaves as they are.
TrendIds(E) ==
  {<<t.query, t.partition, t.path>> :
     t \in {u \in UNION {WholeTrends(q, E) : q \in Queries} : ToSet(u.path) \subseteq CInts}}
EventsOf(key) == {table[i] : i \in {j \in 1..plan : table[j].partition_key = key}}
BucketOf(key) == {table[b[2]] : b \in OfKey(History, key)}

LEMMA RowsListable ==
  ASSUME Typed, IngestInv, BatchInv, NEW key, ~Duplicate(key)
  PROVE  /\ Listable(EventsOf(key))
         /\ \A i, j \in {k \in 1..plan : table[k].partition_key = key} :
              table[i].event_id = table[j].event_id => i = j
<1> DEFINE rows == {j \in 1..plan : table[j].partition_key = key}
<1>1. /\ Len(table) \in Nat /\ DOMAIN table = 1..Len(table)
      /\ offset \in 0..Len(table) /\ (plan = 0 \/ plan \in offset + 1..Len(table))
  BY LenProperties DEF IngestInv, BatchInv
<1>2. plan \in Nat /\ 1..plan \subseteq DOMAIN table
  BY <1>1
<1>3. \A i, j \in rows : table[i].event_id = table[j].event_id => i = j
  BY <1>2 DEF Duplicate
<1>4. IsFiniteSet(rows)
  <2>1. IsFiniteSet(1..plan) /\ rows \subseteq 1..plan
    BY <1>2, FS_Interval
  <2> HIDE DEF rows
  <2> QED
    BY <2>1, FS_Subset
<1>5. IsFiniteSet(EventsOf(key))
  <2> DEFINE f == [i \in rows |-> table[i]]
  <2>1. f \in Surjection(rows, EventsOf(key))
    BY DEF Surjection, EventsOf
  <2> HIDE DEF rows, f
  <2> QED
    BY <1>4, <2>1, FS_Surjection
<1>6. \A e \in EventsOf(key) : e.partition_key \in Int /\ e.event_time_ms \in Int /\ e.event_id \in Int
  BY <1>2 DEF EventsOf, Typed
<1>7. \A a, b \in EventsOf(key) : a.event_id = b.event_id => a = b
  BY <1>3 DEF EventsOf
<1>8. Listable(EventsOf(key))
  BY <1>5, <1>6, <1>7 DEF Listable
<1> QED
  BY <1>3, <1>8

LEMMA BucketRead ==
  ASSUME IngestInv, BatchInv, pc = "started", NEW key
  PROVE  BucketOf(key) \subseteq EventsOf(key)
<1>1. /\ offset \in 0..Len(table) /\ plan \in offset + 1..Len(table) /\ Len(table) \in Nat
      /\ buffer \subseteq (0..failures) \X (1..Upto)
  BY LenProperties DEF IngestInv, BatchInv
<1>2. buffer \subseteq (0..failures) \X (1..plan)
  BY <1>1 DEF Upto
<1> QED
  BY <1>2 DEF EventsOf, BucketOf, OfKey, History

LEMMA HistoryComplete ==
  ASSUME Typed, IngestInv, BatchInv, Buffered, pc = "started", notebook = "main",
         \A q \in Queries : q.within_ms \in Nat,
         NEW key \in PartitionsIn(BatchRows), ~Duplicate(key)
  PROVE  TrendsOfBatch(key) \subseteq TrendIds(BucketOf(key))
<1> DEFINE rows == {i \in 1..plan : table[i].partition_key = key}
           ids  == {table[i].event_id : i \in rows \cap BatchRows}
           kept == {table[i].event_id : i \in {j \in rows : table[j].event_time_ms >= now - Retention}}
           E == EventsOf(key)
           H == BucketOf(key)
<1>1. /\ Len(table) \in Nat /\ DOMAIN table = 1..Len(table)
      /\ plan \in 1..Len(table) /\ BatchRows \subseteq 1..plan /\ 1..plan \subseteq DOMAIN table
      /\ buffer \subseteq (0..failures) \X (1..plan) /\ now \in Int /\ Retention \in Nat
  <2>1. /\ Len(table) \in Nat /\ DOMAIN table = 1..Len(table)
        /\ offset \in 0..Len(table) /\ plan \in offset + 1..Len(table)
        /\ buffer \subseteq (0..failures) \X (1..Upto)
    BY LenProperties DEF IngestInv, BatchInv
  <2>2. plan # 0
    BY <2>1
  <2> QED
    BY <2>1, <2>2, MainAssumption DEF BatchRows, Upto, IngestInv
<1>2. /\ Listable(E)
      /\ \A i, j \in rows : table[i].event_id = table[j].event_id => i = j
  BY RowsListable
<1>3. E = {table[i] : i \in rows}
  BY DEF EventsOf
<1>4. H \subseteq E
  BY <1>1 DEF EventsOf, BucketOf, OfKey, History
<1>5. TrendsOfBatch(key) =
        {<<t.query, t.partition, t.path>> :
           t \in {u \in UNION {WholeTrends(q, E) : q \in Queries} :
                    ToSet(u.path) \cap ids # {} /\ ToSet(u.path) \subseteq kept \cap CInts}}
  BY <1>3 DEF TrendsOfBatch
<1> HIDE DEF E, H, ids, kept
<1>6. ASSUME NEW t \in UNION {WholeTrends(q, E) : q \in Queries},
             ToSet(t.path) \cap ids # {}, ToSet(t.path) \subseteq kept \cap CInts
      PROVE  <<t.query, t.partition, t.path>> \in TrendIds(H)
  <2>1. PICK q \in Queries : t \in WholeTrends(q, E)
    OBVIOUS
  <2>2. PICK n \in Nat : t.path \in [1..n + 1 -> IdsOf(E)]
    BY <1>2, <2>1, TrendInTime
  <2>3. PICK c \in 1..n + 1 : t.path[c] \in ids
    BY <1>6, <2>2 DEF ToSet
  <2>4. PICK i \in rows \cap BatchRows : table[i].event_id = t.path[c]
    BY <2>3 DEF ids
  <2>5. \A k \in DOMAIN t.path : t.path[k] \in IdsOf(H)
    <3> TAKE k \in DOMAIN t.path
    <3>1. t.path[k] \in kept
      BY <1>6 DEF ToSet
    <3>2. PICK j \in rows : table[j].event_id = t.path[k] /\ table[j].event_time_ms >= now - Retention
      BY <3>1 DEF kept
    <3>3. PICK f \in Int : <<f, j>> \in buffer
      BY <3>2 DEF Buffered
    <3>4. table[i] \in E /\ table[j] \in E
      BY <1>3
    <3>5. table[i].event_time_ms - table[j].event_time_ms <= q.within_ms
      BY <1>2, <2>1, <2>2, <2>4, <3>2, <3>4, TrendInTime
    <3>6. /\ LeastTime(BatchRows) \in Int /\ LeastTime(BatchRows) <= table[i].event_time_ms
          /\ MAX_WITHIN_MS \in Int /\ q.within_ms <= MAX_WITHIN_MS /\ q.within_ms \in Int
      BY <1>1, <2>4, HistoryBounds, MainAssumption DEF IsQuery
    <3>7. table[i].event_time_ms \in Int /\ table[j].event_time_ms \in Int
      BY <1>1 DEF Typed
    <3>8. table[j].event_time_ms >= LeastTime(BatchRows) - MAX_WITHIN_MS
      BY <3>5, <3>6, <3>7
    <3>9. <<f, j>> \in OfKey(History, key)
      BY <3>3, <3>8 DEF OfKey, History
    <3>10. table[j] \in H
      BY <3>9 DEF H, BucketOf
    <3> QED
      BY <3>2, <3>10 DEF IdsOf
  <2>6. IsQuery(q)
    BY MainAssumption
  <2>7. PICK u \in WholeTrends(q, H) : u.query = t.query /\ u.partition = t.partition /\ u.path = t.path
    BY <1>2, <1>4, <2>1, <2>5, <2>6, TrendKept
  <2>8. u \in UNION {WholeTrends(p, H) : p \in Queries} /\ ToSet(u.path) \subseteq CInts
    BY <1>6, <2>7
  <2> QED
    BY <2>7, <2>8 DEF TrendIds
<1> QED
  BY <1>5, <1>6 DEF H

\* What a task that has a partition whole adds to the results, if the search
\* has not reported an overflow.
LEMMA PartitionProcessed ==
  ASSUME notebook = "main", NEW reader \in [Searched -> Tasks],
         NEW outcome \in Outcomes(reader, Searched),
         NEW key \in Keys(Searched),
         \A b, c \in OfKey(Searched, key) : reader[b] = reader[c],
         \A k \in Buckets(reader, Searched) : k[2] = key => ~outcome[k].overflow,
         NEW H, H = BucketOf(key), Listable(H)
  PROVE  LET found == UNION {outcome[k].rows : k \in Buckets(reader, Searched)}
         IN  \/ Error(key) \in found
             \/ \A q \in Queries : \A t \in WholeTrends(q, H) :
                  ToSet(t.path) \subseteq CInts => Trend(t) \in found
<1>1. Searched = History
  BY DEF Searched
<1>2. PICK b \in Searched : table[b[2]].partition_key = key
  BY DEF Keys
<1> DEFINE k == <<reader[b], key>>
           bucket == OfKey(History, key)
           at == TableAt(bucket)
           found == UNION {outcome[j].rows : j \in Buckets(reader, Searched)}
<1>3. k \in Buckets(reader, Searched) /\ k[2] = key
  BY <1>2 DEF Buckets
<1>4. BucketRows(reader, Searched, k) = bucket
  <2>1. b \in OfKey(Searched, key)
    BY <1>2 DEF OfKey
  <2> QED
    BY <1>1, <2>1 DEF BucketRows
<1>5. H = EventsAt(bucket, at)
  BY DEF BucketOf, EventsAt, TableAt
<1>10. at = TableAt(bucket) /\ bucket = BucketRows(reader, Searched, k)
  BY <1>4
<1> HIDE DEF k, bucket, at
<1>6. PICK r \in Run(Queries, bucket, at) :
        /\ outcome[k].rows = IF r.raised THEN {Error(key)} ELSE {Trend(t) : t \in r.trends}
        /\ outcome[k].overflow = r.overflow
  <2>1. \E r \in Run(Queries, bucket, at) : ComesOf(outcome[k], k[2], r)
    <3>1. /\ outcome \in Outcomes(reader, Searched) /\ k \in Buckets(reader, Searched)
          /\ bucket = BucketRows(reader, Searched, k) /\ at = TableAt(bucket)
      BY <1>3, <1>10
    <3> QED
      BY ONLY <3>1, OutcomeOf
  <2> QED
    BY <1>3, <2>1 DEF ComesOf
<1>7. ~r.overflow /\ outcome[k].rows \subseteq found
  BY <1>3, <1>6
<1>8. CASE r.raised
  BY <1>6, <1>7, <1>8
<1>9. CASE ~r.raised
  <2>1. ASSUME NEW q \in Queries, NEW t \in WholeTrends(q, H), ToSet(t.path) \subseteq CInts
        PROVE  Trend(t) \in found
    <3>1. PICK o \in RunQuery(q, H) : ~o.raised /\ ~o.overflow /\ o.trends \subseteq r.trends
      <4>1. r \in Run(Queries, bucket, at) /\ H = EventsAt(bucket, at) /\ ~r.raised /\ ~r.overflow
        BY <1>5, <1>6, <1>7, <1>9, Zenon
      <4> QED
        BY ONLY <4>1, <2>1, RunAnswers
    <3>2. t \in o.trends
      BY <2>1, <3>1, ExactRuns
    <3> QED
      BY <1>6, <1>7, <1>9, <3>1, <3>2
  <2> QED
    BY <2>1
<1> QED
  BY <1>8, <1>9

\* The batch, and so the trends asked for, stay the same while it is done;
\* fewer of them are kept as the clock goes on.
LEMMA TrendsOfBatchStays ==
  ASSUME IngestInv, BatchInv, Typed, [Next]_vars, plan' = plan, offset' = offset, plan # 0, NEW key
  PROVE  TrendsOfBatch(key)' \subseteq TrendsOfBatch(key)
<1>1. /\ Len(table) \in Nat /\ DOMAIN table = 1..Len(table)
      /\ \A i \in 1..Len(table) : table'[i] = table[i]
      /\ now \in Int /\ now' \in Int /\ now <= now'
  BY TableGrows
<1>2. 1..plan \subseteq 1..Len(table) /\ Retention \in Nat /\ 1..plan' = 1..plan
  BY <1>1, MainAssumption DEF BatchInv
<1> DEFINE rows == {i \in 1..plan : table[i].partition_key = key}
           ids  == {table[i].event_id : i \in rows \cap BatchRows}
           kept == {table[i].event_id : i \in {j \in rows : table[j].event_time_ms >= now - Retention}}
           E == {table[i] : i \in rows}
           Asked(F, few, keep) ==
             {<<t.query, t.partition, t.path>> :
                t \in {u \in UNION {WholeTrends(q, F) : q \in Queries} :
                         ToSet(u.path) \cap few # {} /\ ToSet(u.path) \subseteq keep \cap CInts}}
<1>3. TrendsOfBatch(key) = Asked(E, ids, kept)
  BY DEF TrendsOfBatch
<1>4. TrendsOfBatch(key)' = Asked(E, ids, kept)'
  BY DEF TrendsOfBatch
<1>5. rows' = rows
  BY <1>1, <1>2
<1>6. \A i \in rows : i \in 1..Len(table) /\ table'[i] = table[i] /\ table[i].event_time_ms \in Int
  BY <1>1, <1>2 DEF Typed
<1>7. BatchRows' = BatchRows
  BY DEF BatchRows
<1>8. E' = E /\ ids' = ids
  <2> HIDE DEF rows
  <2> QED BY <1>5, <1>6, <1>7
<1>9. kept' \subseteq kept
  <2>1. \A i \in rows : table[i].event_time_ms >= now' - Retention => table[i].event_time_ms >= now - Retention
    BY <1>1, <1>2, <1>6
  <2> HIDE DEF rows
  <2>2. kept' = {table[i].event_id : i \in {j \in rows : table[j].event_time_ms >= now' - Retention}}
    BY <1>5, <1>6
  <2> QED BY <2>1, <2>2
<1> HIDE DEF E, ids, kept
<1>10. Asked(E, ids, kept') \subseteq Asked(E, ids, kept)
  <2> DEFINE asked(keep) == {u \in UNION {WholeTrends(q, E) : q \in Queries} :
                               ToSet(u.path) \cap ids # {} /\ ToSet(u.path) \subseteq keep \cap CInts}
  <2>1. asked(kept') \subseteq asked(kept)
    BY <1>9
  <2> HIDE DEF asked
  <2>2. {<<t.query, t.partition, t.path>> : t \in asked(kept')}
          \subseteq {<<t.query, t.partition, t.path>> : t \in asked(kept)}
    BY <2>1
  <2> QED
    BY <2>2 DEF asked
<1>11. Asked(E, ids, kept)' = Asked(E, ids, kept')
  BY <1>8
<1> QED
  BY <1>3, <1>4, <1>10, <1>11

LEMMA DuplicateStays ==
  ASSUME IngestInv, BatchInv, [Next]_vars, NEW key, Duplicate(key)
  PROVE  Duplicate(key)'
<1>1. /\ DOMAIN table \subseteq DOMAIN table'
      /\ \A i \in DOMAIN table : table'[i] = table[i]
  BY TableGrows
<1> QED
  BY <1>1 DEF Duplicate

LEMMA AnsweredStep ==
  ASSUME AnsweredInv, Buffered, Typed, IngestInv, BatchInv, [Next]_vars,
         \A q \in Queries : q.within_ms \in Nat
  PROVE  AnsweredInv'
<1>1. notebook' = notebook
  BY TableGrows
<1>2. pc # "idle" => plan # 0
  BY DEF BatchInv
<1>3. CASE Process
  <2>0. PICK reader \in [Searched -> Tasks] : \E outcome \in Outcomes(reader, Searched) :
          /\ out' = UNION {{k[1]} \X outcome[k].rows : k \in Buckets(reader, Searched)}
          /\ together' = {key \in Keys(Searched) :
                            /\ \A b, c \in OfKey(Searched, key) : reader[b] = reader[c]
                            /\ \A k \in Buckets(reader, Searched) :
                                 k[2] = key => ~outcome[k].overflow}
    BY <1>3 DEF Process
  <2>1. PICK outcome \in Outcomes(reader, Searched) :
          /\ out' = UNION {{k[1]} \X outcome[k].rows : k \in Buckets(reader, Searched)}
          /\ together' = {key \in Keys(Searched) :
                            /\ \A b, c \in OfKey(Searched, key) : reader[b] = reader[c]
                            /\ \A k \in Buckets(reader, Searched) :
                                 k[2] = key => ~outcome[k].overflow}
    BY <2>0
  <2>2. /\ pc = "started" /\ pc' = IF out' = {} THEN "done" ELSE "processed"
        /\ UNCHANGED <<ingestVars, notebook, offset, plan>>
    BY <1>3 DEF Process
  <2>3. ASSUME notebook = "main", NEW key \in together'
        PROVE  Answered(key)'
    <3>1. Searched = History
      BY <2>3 DEF Searched
    <3>2. /\ key \in Keys(Searched) /\ \A b, c \in OfKey(Searched, key) : reader[b] = reader[c]
          /\ \A k \in Buckets(reader, Searched) : k[2] = key => ~outcome[k].overflow
      BY <2>1, <2>3
    <3>3. key \in PartitionsIn(BatchRows)
      BY <3>1, <3>2 DEF Keys, History
    <3> DEFINE found == UNION {outcome[k].rows : k \in Buckets(reader, Searched)}
    <3>4. \A x \in found : \E row \in out' : row[2] = x
      <4> TAKE x \in found
      <4>1. PICK k \in Buckets(reader, Searched) : x \in outcome[k].rows
        OBVIOUS
      <4>2. <<k[1], x>> \in out'
        BY <2>1, <4>1
      <4> QED
        BY <4>2
    <3> HIDE DEF found
    <3>5. CASE Duplicate(key)
      BY <3>5, DuplicateStays DEF Answered
    <3>6. CASE ~Duplicate(key)
      <4>1. TrendsOfBatch(key)' \subseteq TrendIds(BucketOf(key))
        <5>1. TrendsOfBatch(key) \subseteq TrendIds(BucketOf(key))
          BY <2>2, <2>3, <3>3, <3>6, HistoryComplete
        <5>2. TrendsOfBatch(key)' \subseteq TrendsOfBatch(key)
          BY <1>2, <2>2, TrendsOfBatchStays
        <5> QED BY <5>1, <5>2
      <4>0. Listable(BucketOf(key))
        <5>1. Listable(EventsOf(key))
          BY <3>6, RowsListable
        <5>2. BucketOf(key) \subseteq EventsOf(key)
          BY <2>2, BucketRead
        <5> QED BY <5>1, <5>2, ListableSubset
      <4>2. \/ Error(key) \in found
            \/ \A q \in Queries : \A t \in WholeTrends(q, BucketOf(key)) :
                 ToSet(t.path) \subseteq CInts => Trend(t) \in found
        BY <2>3, <3>2, <4>0, PartitionProcessed DEF found
      <4>3. CASE Error(key) \in found
        <5>2. PICK row \in out' : row[2] = Error(key)
          BY <3>4, <4>3
        <5>3. row[2].status = "err" /\ row[2].key = key
          BY <5>2 DEF Error
        <5>4. key \in Errors'
          BY <5>3 DEF Errors
        <5>5. pc' = "processed"
          BY <2>2, <5>2
        <5> QED
          BY <5>4, <5>5 DEF Answered
      <4>4. CASE \A q \in Queries : \A t \in WholeTrends(q, BucketOf(key)) :
                   ToSet(t.path) \subseteq CInts => Trend(t) \in found
        <5>2. ASSUME NEW q \in Queries, NEW t \in WholeTrends(q, BucketOf(key)),
                     ToSet(t.path) \subseteq CInts
              PROVE  <<t.query, t.partition, t.path>> \in Ids' /\ out' # {}
          <6>1. PICK row \in out' : row[2] = Trend(t)
            BY <3>4, <4>4, <5>2
          <6>2. row[2].status = "ok" /\ row[2].id = <<t.query, t.partition, t.path>>
            BY <6>1 DEF Trend
          <6> QED
            BY <6>1, <6>2 DEF Ids
        <5>3. TrendIds(BucketOf(key)) \subseteq Ids'
          BY <5>2 DEF TrendIds
        <5>4. CASE pc' = "processed"
          BY <4>1, <5>3, <5>4 DEF Answered
        <5>5. CASE out' = {}
          <6>1. TrendIds(BucketOf(key)) = {}
            BY <5>2, <5>5 DEF TrendIds
          <6>2. TrendsOfBatch(key)' = {}
            BY <4>1, <6>1
          <6> QED
            BY <6>2 DEF Answered
        <5> QED
          BY <2>2, <5>4, <5>5
      <4> QED
        BY <4>2, <4>3, <4>4
    <3> QED
      BY <3>5, <3>6
  <2> QED
    BY <1>1, <2>3 DEF AnsweredInv
<1>4. CASE pc' \in {"idle", "started"}
  BY <1>4 DEF AnsweredInv
<1>5. CASE ~Process /\ pc' \notin {"idle", "started"}
  <2>1. /\ pc \notin {"idle", "started"} /\ UNCHANGED <<offset, plan, together, out>>
        /\ \/ MergeTrends
           \/ WriteErrors
           \/ ExpireBuffer /\ UNCHANGED <<trends, letters>>
           \/ UNCHANGED <<pc, trends, letters>>
    BY <1>5 DEF Next, ProcessBatch, PlanBatch, StartBatch, Process, MergeTrends, WriteErrors,
       ExpireBuffer, Commit, Fail, vars, batchVars
  <2>2. ASSUME notebook = "main", NEW key \in together
        PROVE  Answered(key)'
    <3>1. Answered(key)
      BY <2>1, <2>2 DEF AnsweredInv
    <3>2. Duplicate(key) => Duplicate(key)'
      BY DuplicateStays
    <3>3. TrendsOfBatch(key)' \subseteq TrendsOfBatch(key)
      BY <1>2, <2>1, TrendsOfBatchStays
    <3>4. Ids' = Ids /\ Errors' = Errors
      BY <2>1 DEF Ids, Errors
    <3>5. CASE MergeTrends
      <4>1. pc = "processed" /\ pc' = "merged" /\ DOMAIN trends' = DOMAIN trends \cup Ids
        BY <3>5 DEF MergeTrends
      <4> QED
        BY <3>1, <3>2, <3>3, <3>4, <4>1 DEF Answered
    <3>6. CASE WriteErrors
      <4>1. /\ pc = "merged" /\ pc' = "lettered" /\ trends' = trends
            /\ letters' = letters \cup {<<offset, k>> : k \in Errors}
        BY <3>6 DEF WriteErrors
      <4> QED
        BY <2>1, <3>1, <3>2, <3>3, <3>4, <4>1 DEF Answered
    <3>7. CASE ExpireBuffer /\ UNCHANGED <<trends, letters>>
      <4>1. pc = "lettered" /\ pc' = "done"
        BY <3>7 DEF ExpireBuffer
      <4> QED
        BY <2>1, <3>1, <3>2, <3>3, <3>4, <3>7, <4>1 DEF Answered
    <3>8. CASE UNCHANGED <<pc, trends, letters>>
      BY <2>1, <3>1, <3>2, <3>3, <3>4, <3>8 DEF Answered
    <3> QED
      BY <2>1, <3>5, <3>6, <3>7, <3>8
  <2> QED
    BY <1>1, <2>1, <2>2 DEF AnsweredInv
<1> QED
  BY <1>3, <1>4, <1>5

CompleteInv == IngestInv /\ BatchInv /\ Typed /\ Buffered /\ AnsweredInv

\* However the tasks read the rows and however often a batch fails, main ends
\* a batch with every trend through it, if its ids are C ints and one task
\* read its partition and searched it without an overflow.
THEOREM TrendsAcrossBatches ==
  ASSUME \A q \in Queries : q.within_ms \in Nat
  PROVE  Spec => ColocatedComplete
<1>1. Init => CompleteInv
  <2> SUFFICES ASSUME Init PROVE CompleteInv
    OBVIOUS
  <2>1. IngestInv /\ BatchInv
    BY BatchInit
  <2>2. table = <<>> /\ pc = "idle" /\ offset = 0 /\ together = {}
    BY DEF Init, IngestInit
  <2> QED
    BY <2>1, <2>2 DEF CompleteInv, Typed, Buffered, AnsweredInv
<1>2. CompleteInv /\ [Next]_vars => CompleteInv'
  BY BatchStep, TypedStep, BufferedStep, AnsweredStep DEF CompleteInv
<1>3. CompleteInv /\ [Next]_vars =>
        [offset' # offset /\ notebook = "main" =>
           \A key \in PartitionsIn(BatchRows) :
             \/ key \notin together
             \/ <<offset, key>> \in letters
             \/ Duplicate(key)
             \/ TrendsOfBatch(key) \subseteq DOMAIN trends]_vars
  <2> SUFFICES ASSUME CompleteInv, Next, offset' # offset, notebook = "main",
                      NEW key \in together
               PROVE  \/ <<offset, key>> \in letters
                      \/ Duplicate(key)
                      \/ TrendsOfBatch(key) \subseteq DOMAIN trends
    OBVIOUS
  <2>1. pc = "done"
    BY DEF Next, ProcessBatch, PlanBatch, StartBatch, Process, MergeTrends, WriteErrors,
       ExpireBuffer, Commit, Fail, batchVars
  <2>2. Answered(key)
    BY <2>1 DEF CompleteInv, AnsweredInv
  <2> QED
    BY <2>1, <2>2 DEF Answered
<1> QED
  BY <1>1, <1>2, <1>3, PTL DEF Spec, ColocatedComplete
=============================================================================
