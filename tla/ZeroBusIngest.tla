---------------------------- MODULE ZeroBusIngest ----------------------------
(***************************************************************************)
(* The ingest job, src/jobs/zerobus_to_delta_ingest_prod.py, over the      *)
(* client of src/bindings/python/connectors/zerobus.py and                 *)
(* normalize_connector_event of connectors/base.py.                        *)
(*                                                                         *)
(* A run of the job reads the source's messages from the first one and     *)
(* appends them to the event table in batches; an append is atomic.  It    *)
(* keeps no position: a run that fails, and one that is scheduled again,   *)
(* begins with the first message.  A message without an id is given the    *)
(* hash of its text, which Python salts anew in every process; one without *)
(* a time is given the time of the run.                                    *)
(*                                                                         *)
(* Abstractions.  The three transports deliver the same messages to every  *)
(* run.  Ids that are no numbers cannot be written to the table and are    *)
(* left out.                                                               *)
(***************************************************************************)
EXTENDS Integers, Sequences, FiniteSets

CONSTANTS
  Messages,       \* the sequences of messages the source may deliver
  Missing,        \* an id or a time a message does not have
  Salts, Hash,    \* Hash[salt][message]: hash() under a salt
  batch_size,
  max_messages,   \* or Missing for None
  MaxRuns,        \* bound: runs of the job
  MaxNow          \* bound: the clock stops

VARIABLES
  source,         \* the messages of the source
  emitted,        \* messages read by this run
  salt,           \* of this run's process
  runs,           \* runs begun
  table,          \* the event table, cet_events
  now             \* the clock

ingestVars == <<source, emitted, salt, runs, table, now>>

ASSUME IngestAssumption ==
  /\ batch_size \in Nat \ {0}
  /\ MaxRuns \in Nat \ {0} /\ MaxNow \in Nat
  /\ Missing \notin Int
  /\ max_messages = Missing \/ max_messages \in Int
  /\ \A l \in Messages : l \in Seq({l[i] : i \in DOMAIN l})
  /\ \A l \in Messages : \A i \in DOMAIN l :
       /\ l[i].event_id \in Int \cup {Missing} /\ \A s \in Salts : Hash[s][l[i]] \in Int
       /\ l[i].event_time_ms \in Int \cup {Missing} /\ l[i].partition_key \in Int

\* normalize_connector_event
Event(m) ==
  [event_id      |-> IF m.event_id = Missing THEN Hash[salt][m] ELSE m.event_id,
   partition_key |-> m.partition_key,
   event_type    |-> m.event_type,
   event_time_ms |-> IF m.event_time_ms = Missing THEN now ELSE m.event_time_ms,
   field         |-> m.field]

\* poll_normalized tests the limit after it has yielded an event.
Limit ==
  IF max_messages = Missing \/ max_messages > Len(source) THEN Len(source)
  ELSE IF max_messages < 1 /\ source # <<>> THEN 1
  ELSE max_messages

\* batches: full ones, and what is left at the end.
BatchEnd == IF emitted + batch_size < Limit THEN emitted + batch_size ELSE Limit

IngestInit ==
  /\ source \in Messages
  /\ emitted = 0 /\ salt \in Salts /\ runs = 1
  /\ table = <<>> /\ now = 0

AppendBatch ==
  /\ emitted < Limit
  /\ table' = table \o [i \in 1..BatchEnd - emitted |-> Event(source[emitted + i])]
  /\ emitted' = BatchEnd
  /\ UNCHANGED <<source, salt, runs, now>>

\* The job failed, or is done, and is run again.
Rerun ==
  /\ emitted > 0
  /\ runs < MaxRuns
  /\ runs' = runs + 1
  /\ emitted' = 0
  /\ salt' \in Salts
  /\ UNCHANGED <<source, table, now>>

Tick ==
  /\ now < MaxNow
  /\ now' = now + 1
  /\ UNCHANGED <<source, emitted, salt, runs, table>>

Ingest == AppendBatch \/ Rerun \/ Tick
=============================================================================
