---------------------------- MODULE MCLakehouse ----------------------------
(***************************************************************************)
(* Model-checking instance of ReplayPipeline: what the event table comes   *)
(* to hold, and the queries.                                               *)
(***************************************************************************)
EXTENDS ReplayPipeline

One(type)  == [name |-> type, kleene_plus |-> FALSE]
Many(type) == [name |-> type, kleene_plus |-> TRUE]

\* A,B+ and A,A+,B: an A between the first and the last can be read twice.
Patterns == [q \in Queries |-> IF q = "last" THEN <<One("A"), Many("B")>>
                               ELSE <<One("A"), Many("A"), One("B")>>]
Within == [q \in Queries |-> 1]

Row(p, id, type, time) ==
  [partition_key |-> p, event_id |-> id, event_type |-> type, event_time_ms |-> time]

\* An event that comes late between two of a trend, or before them with
\* another partition beside; one corrected out of its trend; a row with a null
\* in a trend; an event in a trend that comes before it; a path read twice.
LakeLogs ==
  {<<Row("p", 1, "A", 0), Row("p", 3, "B", 1), Row("p", 2, "C", 1)>>,
   <<Row("p", 2, "B", 1), Row("o", 2, "B", 1), Row("p", 1, "A", 0)>>,
   <<Row("p", 1, "A", 0), Row("p", 2, "B", 0), Row("p", 2, "B", 3)>>,
   <<Row("p", 1, "A", 0), Row("p", 2, NullType, 0), Row("p", 3, "B", 1)>>,
   <<Row("p", 2, "C", 1), Row("p", 1, "A", 0), Row("p", 3, "B", 1)>>,
   <<Row("p", 1, "A", 0), Row("p", 2, "A", 0), Row("p", 3, "A", 0), Row("p", 4, "B", 1)>>}

Ranges == [r \in Replays |-> IF r = "scan" THEN Scan ELSE <<0, 1>>]
=============================================================================
