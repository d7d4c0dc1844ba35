----------------------------- MODULE DurableReply -----------------------------
(***************************************************************************)
(* What streaming promises of a reply, whatever crashes                    *)
(* (turnEngine/PartialJournal.ts and historyService.ts, comments of flush, *)
(* commitFinal and commitPartial): what a restart would recover of it only *)
(* grows, listeners are told of nothing a restart could lose, and a        *)
(* finished reply stays as it is.  Only a reply that was given up, or has  *)
(* no parts, may vanish.                                                   *)
(***************************************************************************)
EXTENDS Naturals

CONSTANTS Turns, MaxParts

VARIABLES
  reply,      \* what a restart would recover of each turn's reply
  announced,  \* the parts of it that listeners were told of
  givenUp     \* the turns whose reply was discarded, or could not be written

vars == <<reply, announced, givenUp>>

Absent == [parts |-> 0, end |-> "absent"]
Replies == [parts : 0..MaxParts, end : {"open", "final"}]
Empty == [parts |-> 0, end |-> "open"]

Init == /\ reply = [t \in Turns |-> Absent]
        /\ announced = [t \in Turns |-> 0]
        /\ givenUp = {}

\* A reply that begins is empty, an open one grows and may be finished; only what
\* was given up or is empty vanishes.
Begins(t) == reply[t] = Absent /\ reply'[t] = Empty

Grows(t) == reply[t].end = "open" /\ reply'[t] \in Replies /\ reply'[t].parts >= reply[t].parts

Vanishes(t) == /\ reply[t].end = "open" /\ reply'[t] \in {Absent, Empty}
               /\ t \in givenUp \/ reply[t].parts = 0

\* A step may touch several replies: a write replaces the partial of another one.
Change == /\ reply' \in [Turns -> Replies \cup {Absent}]
          /\ \A t \in Turns : reply'[t] # reply[t] => Begins(t) \/ Grows(t) \/ Vanishes(t)
          /\ UNCHANGED <<announced, givenUp>>

Announce(t) == /\ \E n \in announced[t]..reply[t].parts :
                    announced' = [announced EXCEPT ![t] = n]
               /\ UNCHANGED <<reply, givenUp>>

GiveUp(t) == /\ givenUp' = givenUp \cup {t}
             /\ UNCHANGED <<reply, announced>>

Next == Change \/ \E t \in Turns : Announce(t) \/ GiveUp(t)

Spec == Init /\ [][Next]_vars
===============================================================================
