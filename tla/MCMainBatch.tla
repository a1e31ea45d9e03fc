----------------------------- MODULE MCMainBatch -----------------------------
(* Model-checking instance of MainBatch: what the source delivers, and the *)
(* queries.                                                                *)
EXTENDS MainBatch, TLC

TaskSymmetry == Permutations(Tasks)

Once(type) ==
  [aliases |-> {type}, canonical |-> type, min_repeats |-> 1, max_repeats |-> 1]

\* A,B within 1.
MCQueries ==
  {[id |-> "q", steps |-> <<Once("A"), Once("B")>>, within_ms |-> 1,
    where |-> <<>>, absence |-> {}, relations |-> <<>>]}

Message(id, key, type, time) ==
  [event_id |-> id, partition_key |-> key, event_type |-> type, event_time_ms |-> time,
   field |-> [f \in {"process_id", "parent_process_id"} |-> NoValue]]

\* A trend whose first event comes last; one whose first event comes first,
\* and one message more than the limit; two partitions; messages without an id
\* or a time.
MCMessages ==
  {<<Message(2, 1, "B", 1), Message(1, 1, "A", 0)>>,
   <<Message(1, 1, "A", 0), Message(2, 1, "B", 1), Message(3, 1, "B", 1)>>,
   <<Message(1, 1, "A", 0), Message(2, 2, "B", Missing)>>,
   <<Message(Missing, 1, "A", 0), Message(Missing, 1, "B", Missing)>>}

MCHash ==
  [s \in Salts |-> [m \in UNION {{l[i] : i \in DOMAIN l} : l \in MCMessages} |->
                      10 * s + IF m.event_type = "A" THEN 0 ELSE 1]]
==============================================================================
