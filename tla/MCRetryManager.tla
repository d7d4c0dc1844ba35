--------------------------- MODULE MCRetryManager ---------------------------
(***************************************************************************)
(* RetryManager with two turns, the first of which is t1, and two calls    *)
(* back on top of an outermost one.                                        *)
(***************************************************************************)
EXTENDS RetryManager

CONSTANTS t1, t2

\* Whoever is called may make any call of the manager.
EveryCall == Calls

InOrder == turns[t2].at # "idle" => turns[t1].at # "idle"

MCSpec == Init /\ [][Next /\ InOrder']_vars /\ Fairness
=============================================================================
