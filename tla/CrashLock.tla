------------------------------ MODULE CrashLock ------------------------------
(***************************************************************************)
(* What the cross-process file lock promises its callers                    *)
(* (node/utils/concurrency/fileLock.ts, module comment): at most one caller *)
(* owns the lock; a caller that goes away without releasing it leaves an    *)
(* orphaned record, which nobody owns and which must be recovered before    *)
(* the lock can be had again.                                               *)
(***************************************************************************)
CONSTANTS Actors, Free, Orphaned

VARIABLE owner

Init == owner \in {Free, Orphaned}

\* A caller gets the lock only when no record of anybody stands in its way.
Acquire(a) == /\ owner = Free
              /\ owner' = a

Release(a) == /\ owner = a
              /\ owner' = Free

\* The owner dies, or gives up removing its record.
Lose(a) == /\ owner = a
           /\ owner' = Orphaned

Recover == /\ owner = Orphaned
           /\ owner' = Free

Next == \/ Recover
        \/ \E a \in Actors : Acquire(a) \/ Release(a) \/ Lose(a)

Spec == Init /\ [][Next]_owner
=============================================================================
