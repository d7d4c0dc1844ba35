------------------------------ MODULE MCFileLock ------------------------------
(* Small instances of FileLock: a1 and a2 run in one process, a3 in another. *)
EXTENDS FileLock, TLC

CONSTANTS a1, a2, a3, p1, p2

TwoProcesses == (a1 :> p1) @@ (a2 :> p1) @@ (a3 :> p2)
\* a1 and a2 are interchangeable: nothing but their process tells them apart.
Peers == Permutations({a1, a2})

OneEach == (a1 :> p1) @@ (a2 :> p2)
=============================================================================
