--------------------------- MODULE MCTurnCoordinator ---------------------------
(***************************************************************************)
(* TurnCoordinator for TLC.  Waiters and readers are model values: nothing *)
(* orders them, so they are interchangeable.  The bounds and the calls of  *)
(* each instance are in its configuration file.                            *)
(***************************************************************************)
EXTENDS TurnCoordinator, TLC

Symmetry == Permutations(Waiters) \cup Permutations(Readers)
=============================================================================
