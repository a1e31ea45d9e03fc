---------------------------- MODULE TemporalFeed ----------------------------
(***************************************************************************)
(* The temporal graph with a history: whether it has only ever been fed    *)
(* new events, in whatever order of their times.                           *)
(***************************************************************************)
EXTENDS TemporalGraph

VARIABLE feed   \* history: nothing was replaced, removed or restored

FeedInit == Init /\ feed = TRUE

FeedUpsert(x, ev) ==
  /\ UpsertEvent(x, ev)
  /\ feed' = IF x \in DOMAIN events THEN FALSE ELSE feed

FeedRemove(x) == RemoveEvent(x) /\ feed' = FALSE

FeedSave == TakeSnapshot /\ UNCHANGED feed

FeedRestore == LoadSnapshot /\ feed' = FALSE

FeedNext ==
  \/ \E x \in EventIds, ev \in Payloads : FeedUpsert(x, ev)
  \/ \E x \in EventIds : FeedRemove(x)
  \/ FeedSave
  \/ FeedRestore

FeedSpec == FeedInit /\ [][FeedNext]_<<graphVars, feed>>

\* Without removals and replacements every two neighbours of a partition are
\* joined by a temporal edge when they are near enough, in whatever order
\* they arrived: an event that arrives late is linked on both sides.
LateEventsLinked == feed => NeighboursLinked
=============================================================================
