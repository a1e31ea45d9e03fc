------------------------- MODULE MCStandingRuntime -------------------------
(* Small instances of StandingRuntime for TLC.                             *)
EXTENDS StandingRuntime

CONSTANTS u1, u2

MCTypes == {"A", "B", "C"}
MCEntityKeys == {"user_id"}
MCValues == {u1, u2}

Body(p, type, t, u) ==
  [partition_key |-> p, event_type |-> type, event_time_ms |-> t,
   field |-> [f \in FieldNames |-> IF f = "user_id" THEN u ELSE NoValue]]

Step(types, min, max) == [aliases |-> types, min_repeats |-> min, max_repeats |-> max]
Query(id, steps, within, absence, relations) ==
  [id |-> id, steps |-> steps, within_ms |-> within,
   absence |-> absence, relations |-> relations, where |-> <<>>]
One(type) == Step({type}, 1, 1)

\* "A,B" within 2.
QueryAB == Query("q", <<One("A"), One("B")>>, 2, {}, <<>>)

\* "A+,B" within 2 without a C between, all of one user.
QueryABwithoutC ==
  Query("r", <<Step({"A"}, 1, Unlimited), One("B")>>, 2,
        {[event_type |-> "C", within_ms |-> Unlimited]},
        <<[field |-> "user_id", op |-> "same", steps |-> {}]>>)

OneQuery == {QueryAB}
TwoQueries == {QueryAB, QueryABwithoutC}

TypedPayloads ==
  {Body(p, type, t, NoValue) : p \in {"default", "p"}, type \in {"A", "B"}, t \in {0, 2}}
  \cup {Body("default", "C", 1, NoValue)}

SmallPayloads ==
  {Body("p", "A", 0, NoValue), Body("p", "B", 1, NoValue), Body("p", "A", 1, u1),
   Body("p", "C", 1, u1), Body("default", "A", 0, u1), Body("default", "B", 1, u2)}

\* Enough for a trend in each partition with two events.
FaultPayloads ==
  {Body(p, "A", 0, NoValue) : p \in {"default", "p"}} \cup
  {Body(p, "B", 1, NoValue) : p \in {"default", "p"}}
============================================================================
