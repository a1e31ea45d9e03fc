--------------------------- MODULE StandingRuntime ---------------------------
(***************************************************************************)
(* The standing-query runtime: the class StandingTrendRuntime of           *)
(* src/bindings/python/standing/runtime.py over the temporal graph of      *)
(* TemporalGraph, the matcher of TrendMatch and the sinks of sinks.py.     *)
(*                                                                         *)
(* process_event and remove_event mutate the graph, evaluate the enabled   *)
(* queries again over one partition, replace that partition's entries of   *)
(* the dictionary active, and then hand the differences to every sink, one *)
(* event and one sink at a time: new trends first, then cancellations.     *)
(* The calls are synchronous, so no mutation happens between two           *)
(* deliveries; a sink that raises ends the call, and a restart may strike  *)
(* anywhere.  replay is process_event on a sorted list of events.          *)
(*                                                                         *)
(* Abstractions.  A trend is its query, partition and path, the three      *)
(* things its trend_id hashes; features, risk score and evidence are left  *)
(* out.  The order of deliveries of one kind is arbitrary, since the code  *)
(* sorts by hash.  What a sink has received is kept as the set of trends   *)
(* its reader takes to be active: a positive match adds, a cancellation    *)
(* removes.  The relations of the queries are those the validator knows; a *)
(* query with any other, which the parser takes, makes every call that has *)
(* to tell it raise, after the event is stored and before active changes.  *)
(***************************************************************************)
EXTENDS TemporalGraph, SequencesExt

CONSTANTS
  Queries,            \* the enabled queries of the registry
  NSinks,             \* number of sinks, delivered to in the order 1, 2, ...
  MaxWindow,          \* max_window_events_per_partition
  MaxMatches,         \* max_matches_per_query_partition
  EmitCancellations   \* emit_cancellations

INSTANCE TrendMatch

ASSUME RuntimeAssumption ==
  /\ NSinks \in Nat \ {0}
  /\ MaxWindow \in Nat \ {0}
  /\ MaxMatches \in Nat
  /\ EmitCancellations \in BOOLEAN
  /\ \A q \in Queries : IsQuery(q) /\ \A k \in DOMAIN q.relations : Supported(q.relations[k])

VARIABLES
  active,     \* the trend ids the runtime holds as active (keys of active)
  positives,  \* positive_match events of this call not yet delivered to all
  cancels,    \* cancel_match events of this call not yet delivered to all
  current,    \* the event in delivery that some sinks have: a set of one, or {}
  sink,       \* the sink the next delivery goes to
  view        \* view[s]: the trends the reader of sink s takes to be active

runtimeVars == <<active, positives, cancels, current, sink, view>>
vars == <<graphVars, runtimeVars>>

Sinks == 1..NSinks

----------------------------------------------------------------------------
(* Evaluation of a partition.                                              *)

\* The events events_for_partition returns, by id.
StoredIn(evts, index, p) == [i \in Members(evts, index, p) |-> evts[i]]

SortedIds(stored) ==
  LET ids == DOMAIN stored
  IN  Ranked(ids, {p \in ids \X ids : p[1] # p[2] /\ Precedes(stored, p[1], p[2])})

\* The last n of the ids.
Window(ids, n) == IF Len(ids) > n THEN SubSeq(ids, Len(ids) - n + 1, Len(ids)) ELSE ids

\* The trends of partition p given its events: those of every query over the
\* window of events, as far as the matcher's limit lets it list them.  The
\* window is bound and not defined, for TLC to compute it once.
CurrentTrends(stored, p) ==
  UNION {{[query |-> q.id, partition_key |-> p, path |-> path] :
            path \in QueryPaths(q, stored, ids, MaxMatches)} :
         q \in Queries, ids \in {Window(SortedIds(stored), MaxWindow)}}

\* Mutant of Reevaluate: the trends of other partitions are taken for old ones
\* of p.
ReevaluateForgetsOthers(p) ==
  LET now == CurrentTrends(StoredIn(events', byPartition', p), p)
  IN  /\ positives' = now \ active
      /\ cancels' = IF EmitCancellations THEN active \ now ELSE {}
      /\ active' = now
      /\ UNCHANGED <<current, sink, view>>

\* Mutant of Reevaluate: the trends that disappeared are not erased.
ReevaluateKeepsPrevious(p) ==
  LET now      == CurrentTrends(StoredIn(events', byPartition', p), p)
      previous == {t \in active : t.partition_key = p}
  IN  /\ positives' = now \ previous
      /\ cancels' = IF EmitCancellations THEN previous \ now ELSE {}
      /\ active' = active \cup now
      /\ UNCHANGED <<current, sink, view>>

\* Mutant of Reevaluate: the old trends are erased before the comparison.
ReevaluateAnnouncesAll(p) ==
  LET now      == CurrentTrends(StoredIn(events', byPartition', p), p)
      previous == {t \in active : t.partition_key = p}
  IN  /\ positives' = now
      /\ cancels' = IF EmitCancellations THEN previous \ now ELSE {}
      /\ active' = (active \ previous) \cup now
      /\ UNCHANGED <<current, sink, view>>

\* Mutant of Reevaluate: every old trend is cancelled.
ReevaluateCancelsAll(p) ==
  LET now      == CurrentTrends(StoredIn(events', byPartition', p), p)
      previous == {t \in active : t.partition_key = p}
  IN  /\ positives' = now \ previous
      /\ cancels' = IF EmitCancellations THEN previous ELSE {}
      /\ active' = (active \ previous) \cup now
      /\ UNCHANGED <<current, sink, view>>

\* Mutant of Reevaluate: the partition is read before the mutation.
ReevaluateBefore(p) ==
  LET now      == CurrentTrends(StoredIn(events, byPartition, p), p)
      previous == {t \in active : t.partition_key = p}
  IN  /\ positives' = now \ previous
      /\ cancels' = IF EmitCancellations THEN previous \ now ELSE {}
      /\ active' = (active \ previous) \cup now
      /\ UNCHANGED <<current, sink, view>>

\* The difference between what partition p shows now and what it showed
\* before; active is replaced before anything is delivered.
Reevaluate(p) ==
  LET now      == CurrentTrends(StoredIn(events', byPartition', p), p)
      previous == {t \in active : t.partition_key = p}
  IN  /\ positives' = now \ previous
      /\ cancels' = IF EmitCancellations THEN previous \ now ELSE {}
      /\ active' = (active \ previous) \cup now
      /\ UNCHANGED <<current, sink, view>>

\* No call is in progress.
Idle == positives = {} /\ cancels = {}

----------------------------------------------------------------------------
(* Operations.                                                             *)

RuntimeInit ==
  /\ Init
  /\ active = {} /\ positives = {} /\ cancels = {}
  /\ current = {} /\ sink = 1
  /\ view = [s \in Sinks |-> {}]

\* Only the partition the event is in now is evaluated.
ProcessEvent(x, ev) ==
  /\ Idle
  /\ UpsertEvent(x, ev)
  /\ Reevaluate(ev.partition_key)

\* Nothing is evaluated when the event was not stored or its key is empty.
RemoveAndEvaluate(x) ==
  /\ Idle
  /\ RemoveEvent(x)
  /\ IF x \in DOMAIN events /\ events[x].partition_key # EmptyKey
       THEN Reevaluate(events[x].partition_key)
       ELSE UNCHANGED runtimeVars

\* Mutant of NextCancels: cancellations do not wait for positive matches.
NextCancelsUnordered == IF current = {} THEN cancels ELSE current \cap cancels

\* An event goes to every sink before the next one starts; cancellations
\* follow the positive matches.
NextPositives == IF current = {} THEN positives ELSE current \cap positives
NextCancels ==
  IF current = {}
    THEN IF positives = {} THEN cancels ELSE {}
    ELSE current \cap cancels

\* Mutant of Advance: the delivered event is remembered after the last sink.
AdvanceWithoutReset(t) ==
  /\ sink' = IF sink = NSinks THEN 1 ELSE sink + 1
  /\ current' = {t}

Advance(t) ==
  IF sink = NSinks
    THEN sink' = 1 /\ current' = {}
    ELSE sink' = sink + 1 /\ current' = {t}

\* One call of sink.emit.
DeliverPositive ==
  \E t \in NextPositives :
    /\ view' = [view EXCEPT ![sink] = @ \cup {t}]
    /\ positives' = IF sink = NSinks THEN positives \ {t} ELSE positives
    /\ Advance(t)
    /\ UNCHANGED <<cancels, active, graphVars>>

DeliverCancel ==
  \E t \in NextCancels :
    /\ view' = [view EXCEPT ![sink] = @ \ {t}]
    /\ cancels' = IF sink = NSinks THEN cancels \ {t} ELSE cancels
    /\ Advance(t)
    /\ UNCHANGED <<positives, active, graphVars>>

AbandonCall == positives' = {} /\ cancels' = {} /\ current' = {} /\ sink' = 1

\* sink.emit raises: the exception leaves process_event or remove_event, and
\* what was not delivered yet is lost.
SinkFails ==
  /\ ~Idle
  /\ AbandonCall
  /\ UNCHANGED <<active, view, graphVars>>

Snapshot == Idle /\ TakeSnapshot /\ UNCHANGED runtimeVars

\* Mutant of Restart: active survives although the graph is an older one.
RestartKeepsActive ==
  /\ LoadSnapshot
  /\ AbandonCall
  /\ UNCHANGED <<active, view>>

\* Mutant of Restart: active is computed again, and nothing is delivered.
RestartRebuildsActive ==
  /\ LoadSnapshot
  /\ AbandonCall
  /\ active' = UNION {CurrentTrends(StoredIn(events', byPartition', p), p) : p \in Partitions}
  /\ UNCHANGED view

\* The process stops and a new runtime is built over the restored graph: its
\* dictionary active is empty.  The sinks keep what they received.
Restart ==
  /\ LoadSnapshot
  /\ AbandonCall
  /\ active' = {}
  /\ UNCHANGED view

RemoveAny == \E x \in EventIds : RemoveAndEvaluate(x)
ProcessAny == \E x \in EventIds, ev \in Payloads : ProcessEvent(x, ev)

\* An event that is delivered again, changed or not, is in the partition it
\* was in before.
ProcessPinned ==
  \E x \in EventIds, ev \in Payloads :
    /\ x \in DOMAIN events => events[x].partition_key = ev.partition_key
    /\ ProcessEvent(x, ev)

Deliver == DeliverPositive \/ DeliverCancel

\* The runtime without faults: sinks never raise, nothing is restarted.
ReliableSpec == RuntimeInit /\ [][ProcessAny \/ RemoveAny \/ Deliver]_vars

\* The same with events that keep their partition.  A call that has begun
\* delivers to the end: the loop over the sinks waits for nothing.
PinnedNext == ProcessPinned \/ RemoveAny \/ Deliver
PinnedSpec == RuntimeInit /\ [][PinnedNext]_vars
FairPinnedSpec == PinnedSpec /\ WF_vars(Deliver)

----------------------------------------------------------------------------
(* Properties.                                                             *)

Shown(p) == {t \in active : t.partition_key = p}
TrendsOf(p) == CurrentTrends(StoredIn(events, byPartition, p), p)

\* The trends of all partitions as the graph stands.
LiveTrends == UNION {TrendsOf(p) : p \in Partitions}

\* The trends without the limits on the window and on the number of matches.
UnlimitedTrends(stored, p) ==
  UNION {{[query |-> q.id, partition_key |-> p, path |-> path] :
            path \in QueryPaths(q, stored, ids, Len(Listing(q, stored, Candidates(q, stored, ids))))} :
         q \in Queries, ids \in {SortedIds(stored)}}

\* What is waiting to be delivered fits the state of the call: an event in
\* delivery is one of those waiting, and has passed at least one sink.
RuntimeTypeOK ==
  /\ positives \cap cancels = {}
  /\ sink \in Sinks
  /\ current \subseteq positives \cup cancels
  /\ IsFiniteSet(current) /\ Cardinality(current) <= 1
  /\ current = {} <=> sink = 1
  /\ DOMAIN view = Sinks

\* While a call delivers, what a reader has plus what is waiting is what the
\* runtime holds: no delivery is missing and none is superfluous.
ReadersCatchUp ==
  \A s \in Sinks :
    /\ active \subseteq view[s] \cup positives
    /\ EmitCancellations => (view[s] \cup positives) \ cancels = active

\* A positive match is only ever delivered to a reader that does not hold the
\* trend, a cancellation only to one that does: the two alternate.
DeliveriesAlternate ==
  [][/\ DeliverPositive => view' # view
     /\ DeliverCancel => view' # view]_vars

\* Everything the runtime holds as active is a trend of the graph as it is,
\* and every trend of the graph is held, in all partitions, although only the
\* partition of the last event was evaluated.
ActiveIsLive == active = LiveTrends

\* A trend is cancelled only when it is no longer a valid match, not when it
\* was pushed out by the window or by the limit on matches.
CancelsAreInvalid ==
  \A t \in cancels :
    t \notin UnlimitedTrends(StoredIn(events, byPartition, t.partition_key), t.partition_key)

\* A restart forgets whole partitions: what is held as active for one is
\* either exactly its trends or, until it is evaluated again, nothing.
ShownOrForgotten == \A p \in Partitions : Shown(p) \in {{}, TrendsOf(p)}

\* After restarts every reader still gets all that the runtime holds.
NoLostPositive == Idle => \A s \in Sinks : active \subseteq view[s]

\* The step stores a new or changed event in p, or removes one from it.
Touches(p) ==
  /\ revision' > revision
  /\ \/ \E x \in DOMAIN events' :
          /\ events'[x].partition_key = p
          /\ x \in DOMAIN events => events'[x] # events[x]
     \/ /\ p # EmptyKey
        /\ \E x \in DOMAIN events \ DOMAIN events' : events[x].partition_key = p

\* A call that touches a partition brings every reader to the trends that
\* partition has, whatever went unnoticed before: stale trends that an event
\* left behind when it moved to another partition are cancelled then.
CallsRepairView ==
  [][\A p \in Partitions : Touches(p) =>
       LET trends == CurrentTrends(StoredIn(events', byPartition', p), p)
       IN  \A s \in Sinks :
             {t \in (view[s] \cup positives') \ cancels' : t.partition_key = p} = trends]_vars

\* What the runtime promises to the reader of its last sink.
Reader == INSTANCE StandingView WITH live <- LiveTrends, view <- view[NSinks]
ReaderSpec == Reader!Spec
============================================================================
