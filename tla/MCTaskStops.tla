----------------------------- MODULE MCTaskStops -----------------------------
(***************************************************************************)
(* TaskStops with at most three of the callers and sends in one behaviour, *)
(* and another task queued only where two stops overlap without a send.    *)
(***************************************************************************)
EXTENDS TaskStops

CONSTANTS c1, c2, f1, s1, s2

\* Callers and sends are interchangeable among themselves, so the first of each
\* comes before the second.
Casts ==
  {[callers |-> {c1}, sends |-> {s1, s2}, owner |-> FALSE],
   [callers |-> {f1}, sends |-> {s1, s2}, owner |-> FALSE],
   [callers |-> {c1, f1}, sends |-> {s1}, owner |-> FALSE],
   [callers |-> {c1, c2}, sends |-> {}, owner |-> TRUE],
   [callers |-> {c1, c2}, sends |-> {s1}, owner |-> FALSE],
   [callers |-> {c1}, sends |-> {s1}, owner |-> TRUE],
   [callers |-> {f1}, sends |-> {s1}, owner |-> TRUE]}

MCInit ==
  /\ Init
  /\ \E cast \in Casts :
       /\ \A c \in Callers : pc[c] = "idle" <=> c \in cast.callers
       /\ \A s \in Sends : sends[s].state = "idle" <=> s \in cast.sends
       /\ interrupts["owner"] = "no" <=> cast.owner
       /\ job = "queued" <=> cast.sends = {}

MCSpec == MCInit /\ [][Next]_vars /\ WF_vars(Advances)
=============================================================================
