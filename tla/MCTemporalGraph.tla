-------------------------- MODULE MCTemporalGraph --------------------------
(* Small instances of TemporalGraph, with the history of TemporalFeed.     *)
EXTENDS TemporalFeed

CONSTANTS u1, u2

\* All bodies over the given partitions and times with the given values of
\* the three fields used.
Bodies(parts, times, users, procs, parents) ==
  {[partition_key |-> p, event_type |-> "A", event_time_ms |-> t,
    field |-> [f \in FieldNames |->
                 CASE f = "user_id" -> u
                   [] f = "process_id" -> pr
                   [] f = "parent_process_id" -> pa]] :
     p \in parts, t \in times, u \in users, pr \in procs, pa \in parents}

MCTypes == {"A"}
MCEntityKeys == {"user_id"}
MCValues == {u1, u2}

\* Each behaviour draws its events from one family, which varies what one
\* kind of edge depends on.
Families ==
  [\* Two partitions, two times, an event with or without the shared user.
   entity |-> Bodies({DefaultKey, EmptyKey}, {0, 2}, {u1, NoValue}, {NoValue}, {NoValue}),
   \* One partition; a parent process, its children, a process that is its
   \* own parent, at two times.
   parent |-> Bodies({DefaultKey}, {0, 1}, {NoValue}, {u1, NoValue}, {u1, NoValue}),
   \* Many times, so that a late event falls between two earlier ones.
   insert |-> Bodies({DefaultKey, EmptyKey}, 0..3, {NoValue}, {NoValue}, {NoValue})]

AllPayloads == UNION {Families[f] : f \in DOMAIN Families}

VARIABLE family

\* FeedNext over one family and three ids, or, for the family "insert", a feed
\* of four new events: nothing is replaced, removed, saved or restored.
FamilyNext ==
  /\ UNCHANGED family
  /\ \/ /\ family = "insert"
        /\ \E x \in EventIds \ DOMAIN events, ev \in Families[family] : FeedUpsert(x, ev)
     \/ /\ family # "insert"
        /\ \/ \E x \in EventIds \ {4}, ev \in Families[family] : FeedUpsert(x, ev)
           \/ \E x \in EventIds \ {4} : FeedRemove(x)
           \/ FeedSave
           \/ FeedRestore

\* The history is kept for the family "insert" only: it has more states.
FamilyInit == Init /\ family \in DOMAIN Families /\ feed = (family = "insert")
FamilySpec == FamilyInit /\ [][FamilyNext]_<<graphVars, feed, family>>
=============================================================================
