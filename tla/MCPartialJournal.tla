--------------------------- MODULE MCPartialJournal ---------------------------
(***************************************************************************)
(* An instance of PartialJournal: a turn that may take every path, and one *)
(* after it whose reply just streams; then two turns that both retry, fail *)
(* or are stopped.                                                         *)
(***************************************************************************)
EXTENDS PartialJournal, TLC

Both(paths) == [t \in Turns |-> paths]

TwoTurns == {(1 :> Optional) @@ (2 :> {}), Both({"stop"}),
             Both({"retry", "announce"}), Both({"fail", "soft-stop"})}
================================================================================
