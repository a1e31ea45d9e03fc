---------------------------- MODULE StandingView ----------------------------
(***************************************************************************)
(* What the standing-query runtime promises to the reader of a sink,       *)
(* whatever happens inside: src/bindings/python/standing/runtime.py and    *)
(* docs/STANDING_TREND_RUNTIME_V7.md.                                      *)
(*                                                                         *)
(* live is the set of trends of the event graph, view what the reader      *)
(* takes to be active from the positive matches and cancellations it got.  *)
(* The graph changes only when the reader is up to date, and every         *)
(* delivery brings view nearer to live.                                    *)
(***************************************************************************)
VARIABLES live, view

Init == live = {} /\ view = {}

\* An event is processed or removed.
Change == view = live /\ UNCHANGED view

\* A positive match reaches the reader.
Announce == \E t \in live \ view : view' = view \cup {t} /\ UNCHANGED live

\* A cancellation reaches the reader, after all positive matches did.
Retract == \E t \in view \ live :
             live \subseteq view /\ view' = view \ {t} /\ UNCHANGED live

Next == Change \/ Announce \/ Retract

Safety == Init /\ [][Next]_<<live, view>>

\* The reader is up to date again and again.
Converges == []<>(view = live)

Spec == Safety /\ Converges
=============================================================================
