---------------------------- MODULE MCTrendMatch ----------------------------
(***************************************************************************)
(* The search of TrendMatch compared with what a pattern means, over all   *)
(* short event sequences and a family of patterns, and the batch runtime   *)
(* compared with it.  Each behaviour picks an input and calls a matcher    *)
(* once.                                                                   *)
(***************************************************************************)
EXTENDS BatchSearch, TLC

CONSTANTS NEvents, Caps, u1, u2

Types == {"A", "B", "C"}

Step(types, min, max) ==
  [aliases |-> types, canonical |-> CHOOSE t \in types : TRUE,
   min_repeats |-> min, max_repeats |-> max]
One(type) == Step({type}, 1, 1)
Pattern(steps) ==
  [id |-> "q", steps |-> steps, within_ms |-> 2, where |-> <<>>, absence |-> {}, relations |-> <<>>]

\* A,B   A+,B   A,B?,C   A{2,2},B   (A|B),C   A+,A   A?,B+   B?   A,B+,C
Patterns ==
  {Pattern(s) : s \in {
     <<One("A"), One("B")>>,
     <<Step({"A"}, 1, Unlimited), One("B")>>,
     <<One("A"), Step({"B"}, 0, 1), One("C")>>,
     <<Step({"A"}, 2, 2), One("B")>>,
     <<Step({"A", "B"}, 1, 1), One("C")>>,
     <<Step({"A"}, 1, Unlimited), One("A")>>,
     <<Step({"A"}, 0, 1), Step({"B"}, 1, Unlimited)>>,
     <<Step({"B"}, 0, 1)>>,
     <<One("A"), Step({"B"}, 1, Unlimited), One("C")>>}}

Relation(op, steps) == [field |-> "user_id", op |-> op, steps |-> steps]

\* Conditions on a path: a C between, an A soon after its start, one user, two,
\* and an operator there is not, after another relation.
Conditioned ==
  {[Pattern(<<Step({"A"}, 1, Unlimited), One("B")>>) EXCEPT !.absence = a, !.relations = r] :
     a \in {{}, {[event_type |-> "C", within_ms |-> Unlimited]},
            {[event_type |-> "A", within_ms |-> 1]}},
     r \in {<<>>, <<Relation("same", {})>>, <<Relation("different", {0, 1})>>,
            <<Relation("same", {1, 2}), Relation("differs", {0, 1})>>}}

\* Times of the events in their order; gaps beyond within_ms occur.
Clocks == {c \in [1..NEvents -> 0..3] : c[1] = 0 /\ \A i \in 1..NEvents - 1 : c[i] <= c[i + 1]}

\* The first event has user u1, the later ones the users given.
Log(types, clock, users) ==
  [ids  |-> [i \in 1..NEvents |-> i],
   evts |-> [i \in 1..NEvents |->
     [event_id |-> i, partition_key |-> 1, event_type |-> types[i], event_time_ms |-> clock[i],
      field |-> [f \in {"user_id", "process_id", "parent_process_id"} |->
                   IF f = "user_id" THEN users[i] ELSE NoValue]]]]

\* The search alone, with any limit on matches.
PatternInputs ==
  [kind    |-> "pattern",
   logs    |-> {Log(t, c, [i \in 1..NEvents |-> NoValue]) :
                  t \in [1..NEvents -> Types], c \in {d \in Clocks : d[NEvents] \in {2, 3}}},
   queries |-> Patterns,
   caps    |-> Caps]

\* The search with the validation of its paths.
ConditionInputs ==
  [kind    |-> "condition",
   logs    |-> {Log(t, [i \in 1..NEvents |-> i - 1], u) :
                  t \in [1..NEvents -> Types],
                  u \in {w \in [1..NEvents -> {u1, u2, NoValue}] : w[1] = u1}},
   queries |-> Conditioned,
   caps    |-> {100}]

\* The batch runtime, with users that give the graph edges between events
\* that are not neighbours.
BatchInputs ==
  [kind    |-> "batch",
   logs    |-> {Log(t, c, u) : t \in [1..NEvents -> Types],
                  c \in {<<0, 0, 1, 1>>, <<0, 1, 2, 3>>, <<0, 1, 3, 3>>},
                  u \in {<<u1, NoValue, u2, u1>>, <<u1, u1, u2, u1>>}},
   queries |-> {p \in Patterns : NativePattern(p) # <<>>},
   caps    |-> {100}]

MatchInputs == {PatternInputs, ConditionInputs, BatchInputs}
=============================================================================
