---------------------------- MODULE MCCetKernel ----------------------------
(***************************************************************************)
(* Model-checking instance of CetKernel: calls on graphs the builder of    *)
(* the batch runtime (SecurityGraph) makes of four events.                 *)
(***************************************************************************)
EXTENDS CetKernel

CONSTANTS NoValue, EmptyValue, Unlimited, MaxGap

INSTANCE SecurityGraph WITH EntityKeys <- {"user_id"}

Absent == <<NoValue, NoValue, NoValue, NoValue>>

\* Four events, column by column; parent names a process by its number.
Events(type, time, key, user, parent) ==
  {[event_id      |-> i,
    partition_key |-> key[i],
    event_type    |-> type[i],
    event_time_ms |-> time[i],
    field         |-> [f \in {"user_id", "process_id", "parent_process_id"} |->
                         CASE f = "user_id"    -> user[i]
                           [] f = "process_id" -> i
                           [] OTHER            -> parent[i]]] : i \in 1..4}

\* One after the other; linked by users as well, so that some pairs have two
\* edges; in two partitions with a user in common; a process that has the
\* time of its parent; and out of order with gaps too long for an edge.
EventSets ==
  LET ones == <<1, 1, 1, 1>>
  IN  UNION {{Events(type, <<0, 1, 2, 3>>, ones, Absent, Absent),
              Events(type, <<0, 1, 2, 3>>, ones, <<7, 8, 7, 7>>, Absent),
              Events(type, <<0, 1, 1, 2>>, <<1, 2, 1, 2>>, <<EmptyValue, 7, 7, EmptyValue>>, Absent),
              Events(type, <<0, 1, 1, 2>>, ones, Absent, <<NoValue, 3, NoValue, 1>>),
              Events(type, <<5, 0, 1, 3>>, <<1, 1, 1, 2>>, <<7, 7, NoValue, 7>>, Absent)} :
               type \in {t \in [1..4 -> {"A", "B"}] : t[1] = "A" \/ t[2] = "A"}}

One(t)  == [name |-> t, kleene_plus |-> FALSE]
Many(t) == [name |-> t, kleene_plus |-> TRUE]

Queries ==
  {<<One("A")>>, <<Many("A"), One("B")>>, <<One("A"), Many("B")>>,
   <<One("A"), One("B"), One("B")>>, <<One("A"), Many("A"), One("B")>>}

\* The engine, its switch depth and its range of start vertices.
Engines == {<<"mcet", 0, 0, 4>>, <<"tcet", 0, 0, 4>>, <<"tcet", 0, 1, 2>>,
            <<"hcet", 1, 1, 9>>, <<"hcet", 2, 0, 4>>, <<"hcet", 2, 1, 3>>, <<"hcet", 3, 0, 4>>}

KernelCalls ==
  {[graph |-> g, seq |-> q, within_ms |-> w, engine |-> e[1], switch_depth |-> e[2],
    begin |-> e[3], end |-> e[4]] :
     g \in {Build(events) : events \in EventSets}, q \in Queries, w \in {2, -1}, e \in Engines}

\* The builder makes graphs in which an id names one vertex.
ASSUME InstanceUnique == UniqueIds

=============================================================================
