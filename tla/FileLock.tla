------------------------------- MODULE FileLock -------------------------------
(***************************************************************************)
(* node/utils/concurrency/fileLock.ts: the lock file several Xum processes  *)
(* share, and the nested reclaim guards that serialize taking over the      *)
(* record of a dead owner.  Level 0 is the lock path, level n + 1 is the    *)
(* guard "<path of level n>.reclaim".  An actor is one acquisition loop of  *)
(* one process; every await of the code is a step boundary.  A process may  *)
(* die at any step: its records stay on disk, its actors are then those of  *)
(* the process that replaces it (possibly with the same pid).               *)
(***************************************************************************)
EXTENDS Naturals, FiniteSets

CONSTANTS
  Actors,        \* acquisition loops
  Procs,         \* operating-system processes
  ProcOf,        \* the process an actor runs in
  MaxDepth,      \* MAX_RECLAIM_DEPTH
  Nonces,        \* token nonces; a fresh token is one nothing refers to
  NoToken,       \* an absent file, an unset local
  Departed,      \* the writer of a record left before the model starts
  Left,          \* the levels at which such a record may lie
  Malformed,     \* content that parses to no owner
  OlderBuild,    \* whether one older build unlinks a guard it judged stale
  MaxCrashes,    \* bound on process deaths
  MaxFaults      \* bound on file-system calls that fail

ASSUME ParametersAssumption ==
  /\ ProcOf \in [Actors -> Procs]
  /\ MaxDepth \in Nat /\ MaxCrashes \in Nat /\ MaxFaults \in Nat
  /\ Nonces \subseteq Nat /\ Left \subseteq 0 .. MaxDepth
  /\ OlderBuild \in BOOLEAN
  /\ Departed \notin Actors
  /\ LET Written == (Actors \union {Departed}) \X Nat
     IN  Malformed \notin Written /\ NoToken \notin Written /\ NoToken # Malformed

\* The paths: a reclaim at the last depth is refused, so none needs a guard there.
Levels == 0 .. MaxDepth

Remnant(l) == <<Departed, l>>
Tokens == (Actors \X Nonces) \union {Remnant(l) : l \in Levels} \union {Malformed}

Pcs == {"idle", "linking", "observing", "judging", "guarding", "verifying",
        "renaming", "checking", "restoring", "held", "releasing", "unlinking"}

VARIABLES
  file,        \* content of each path
  liveTokens,  \* the registries of tokens their processes may still write
  unproven,    \* unregistered records other processes cannot judge dead
  preserved,   \* displaced records kept in graveyard files
  pc, level,   \* an actor's program counter and the depth it reclaims at
  own, seat,   \* the token it has published and the level it published it at
  observed,    \* the content it judged
  grave,       \* the record it moved aside
  older,       \* the older build: 0, the guard it judged stale, or MaxDepth + 1 once done
  crashes, faults

shared == <<file, liveTokens, unproven, preserved>>
locals == <<pc, level, own, seat, observed, grave>>
vars == <<shared, locals, older, crashes, faults>>

Init ==
  /\ file \in {f \in [Levels -> {Remnant(l) : l \in Levels} \union {Malformed, NoToken}] :
                 \A l \in Levels : \/ f[l] = NoToken
                                   \/ l \in Left /\ f[l] = Remnant(l)
                                   \/ l = 0 /\ f[l] = Malformed}
  /\ liveTokens = {}
  /\ unproven = {Malformed}
  /\ preserved = {}
  /\ pc = [a \in Actors |-> "idle"]
  /\ level = [a \in Actors |-> 0]
  /\ own = [a \in Actors |-> NoToken]
  /\ seat = [a \in Actors |-> 0]
  /\ observed = [a \in Actors |-> NoToken]
  /\ grave = [a \in Actors |-> NoToken]
  /\ older = 0
  /\ crashes = 0
  /\ faults = 0

-----------------------------------------------------------------------------
(* State functions                                                           *)

InUse == {file[l] : l \in Levels} \union preserved
           \union UNION {{own[a], observed[a], grave[a]} : a \in Actors}

\* makeOwnershipToken: the nonce is random, so nothing refers to the token yet.
FreshTokens(a) == ({a} \X Nonces) \ InUse
MakeToken(a) == CHOOSE t \in FreshTokens(a) : TRUE

\* judgeHolder: a registered token is live; an unregistered one is dead to the
\* process that wrote it (its own pid), and to the others once that pid is gone
\* or reused.
SameProcess(a, t) == t[1] \in Actors /\ ProcOf[t[1]] = ProcOf[a]
JudgedDead(a, t) ==
  /\ t \notin liveTokens
  /\ t \in unproven => t # Malformed /\ SameProcess(a, t)

Goto(a, from, to) ==
  /\ pc[a] = from
  /\ pc' = [pc EXCEPT ![a] = to]

\* The acquisition ends, or (past the deadline check) polls again: what the
\* round judged is forgotten.
Leave(a, to) ==
  /\ pc' = [pc EXCEPT ![a] = to]
  /\ observed' = [observed EXCEPT ![a] = NoToken]
  /\ level' = [level EXCEPT ![a] = 0]

EndRound(a) == \E to \in {"linking", "idle"} : Leave(a, to)

\* As mutated: the record is written whether or not the path exists.
PublishOverwrite(a, l) ==
  /\ FreshTokens(a) # {}
  /\ LET t == MakeToken(a)
     IN  /\ file' = [file EXCEPT ![l] = t]
         /\ own' = [own EXCEPT ![a] = t]
         /\ liveTokens' = liveTokens \union {t}
         /\ unproven' = unproven \ {t}
  /\ seat' = [seat EXCEPT ![a] = l]

\* fs.link of a complete token: fails when the path exists.
Publish(a, l) ==
  /\ file[l] = NoToken
  /\ FreshTokens(a) # {}
  /\ LET t == MakeToken(a)
     IN  /\ file' = [file EXCEPT ![l] = t]
         /\ own' = [own EXCEPT ![a] = t]
         /\ liveTokens' = liveTokens \union {t}
         /\ unproven' = unproven \ {t}
  /\ seat' = [seat EXCEPT ![a] = l]

\* liveTokens.delete, after release's last possible write.
Retire(a) ==
  /\ liveTokens' = liveTokens \ {own[a]}
  /\ own' = [own EXCEPT ![a] = NoToken]
  /\ seat' = [seat EXCEPT ![a] = 0]
  /\ \/ seat[a] = 0 /\ Leave(a, "idle")
     \/ seat[a] # 0 /\ EndRound(a)

outside == <<older, crashes, faults>>

\* A file-system call fails.
Fault == /\ faults < MaxFaults
         /\ faults' = faults + 1
         /\ UNCHANGED <<older, crashes>>

-----------------------------------------------------------------------------
(* acquireProcessFileLock                                                    *)

Start(a) ==
  /\ Goto(a, "idle", "linking")
  /\ UNCHANGED <<shared, level, own, seat, observed, grave, outside>>

LinkLock(a) ==
  /\ Goto(a, "linking", "held")
  /\ Publish(a, 0)
  /\ UNCHANGED <<preserved, level, observed, grave, outside>>

FindHeld(a) ==
  /\ file[0] # NoToken
  /\ Goto(a, "linking", "observing")
  /\ UNCHANGED <<shared, level, own, seat, observed, grave, outside>>

\* An error other than EEXIST ends the acquisition.
FailLink(a) ==
  /\ Fault
  /\ pc[a] \in {"linking", "guarding"}
  /\ Leave(a, "idle")
  /\ UNCHANGED <<shared, own, seat, grave>>

-----------------------------------------------------------------------------
(* reclaimStaleFileLock, withReclaimGuard                                    *)

Observe(a) ==
  /\ file[level[a]] # NoToken
  /\ Goto(a, "observing", "judging")
  /\ observed' = [observed EXCEPT ![a] = file[level[a]]]
  /\ UNCHANGED <<shared, level, own, seat, grave, outside>>

\* Already released or reclaimed.
FindGone(a) ==
  /\ pc[a] = "observing"
  /\ file[level[a]] = NoToken
  /\ EndRound(a)
  /\ UNCHANGED <<shared, own, seat, grave, outside>>

\* A live or indeterminate owner, or a dead one too many guards deep.
Refuse(a) ==
  /\ pc[a] = "judging"
  /\ ~JudgedDead(a, observed[a]) \/ level[a] = MaxDepth
  /\ EndRound(a)
  /\ UNCHANGED <<shared, own, seat, grave, outside>>

JudgeDead(a) ==
  /\ JudgedDead(a, observed[a])
  /\ level[a] < MaxDepth
  /\ Goto(a, "judging", "guarding")
  /\ UNCHANGED <<shared, level, own, seat, observed, grave, outside>>

LinkGuard(a) ==
  /\ Goto(a, "guarding", "verifying")
  /\ Publish(a, level[a] + 1)
  /\ UNCHANGED <<preserved, level, observed, grave, outside>>

\* As mutated: a held guard ends the round, whoever left it.
GiveUpOnGuard(a) ==
  /\ pc[a] = "guarding"
  /\ file[level[a] + 1] # NoToken
  /\ EndRound(a)
  /\ UNCHANGED <<shared, own, seat, grave, outside>>

\* The guard is held: it is judged and reclaimed like a lock, one level up.
FindGuardHeld(a) ==
  /\ pc[a] = "guarding"
  /\ file[level[a] + 1] # NoToken
  /\ Goto(a, "guarding", "observing")
  /\ level' = [level EXCEPT ![a] = @ + 1]
  /\ observed' = [observed EXCEPT ![a] = NoToken]
  /\ UNCHANGED <<shared, own, seat, grave, outside>>

\* As mutated: the content is not compared again under the guard.
SkipVerification(a) ==
  /\ Goto(a, "verifying", "renaming")
  /\ UNCHANGED <<shared, level, own, seat, observed, grave, outside>>

\* Under the guard the content must still be the one judged stale.
Verify(a) ==
  /\ file[level[a]] = observed[a]
  /\ Goto(a, "verifying", "renaming")
  /\ UNCHANGED <<shared, level, own, seat, observed, grave, outside>>

AbandonReclaim(a) ==
  /\ \/ pc[a] = "verifying" /\ file[level[a]] # observed[a]
     \/ pc[a] = "renaming" /\ file[level[a]] = NoToken
  /\ Goto(a, pc[a], "releasing")
  /\ UNCHANGED <<shared, level, own, seat, observed, grave, outside>>

Rename(a) ==
  /\ file[level[a]] # NoToken
  /\ Goto(a, "renaming", "checking")
  /\ grave' = [grave EXCEPT ![a] = file[level[a]]]
  /\ file' = [file EXCEPT ![level[a]] = NoToken]
  /\ UNCHANGED <<liveTokens, unproven, preserved, level, own, seat, observed, outside>>

\* As mutated: the record moved aside is not compared with the judged one.
RemoveAnyGrave(a) ==
  /\ Goto(a, "checking", "releasing")
  /\ grave' = [grave EXCEPT ![a] = NoToken]
  /\ UNCHANGED <<shared, level, own, seat, observed, outside>>

\* The record moved aside is the judged one: remove it.
RemoveGrave(a) ==
  /\ grave[a] = observed[a]
  /\ Goto(a, "checking", "releasing")
  /\ grave' = [grave EXCEPT ![a] = NoToken]
  /\ UNCHANGED <<shared, level, own, seat, observed, outside>>

FindDisplaced(a) ==
  /\ grave[a] # observed[a]
  /\ Goto(a, "checking", "restoring")
  /\ UNCHANGED <<shared, level, own, seat, observed, grave, outside>>

Restore(a) ==
  /\ file[level[a]] = NoToken
  /\ Goto(a, "restoring", "releasing")
  /\ file' = [file EXCEPT ![level[a]] = grave[a]]
  /\ grave' = [grave EXCEPT ![a] = NoToken]
  /\ UNCHANGED <<liveTokens, unproven, preserved, level, own, seat, observed, outside>>

\* A third process took the emptied path: the displaced record is kept.
Preserve(a) ==
  /\ file[level[a]] # NoToken
  /\ Goto(a, "restoring", "releasing")
  /\ preserved' = preserved \union {grave[a]}
  /\ grave' = [grave EXCEPT ![a] = NoToken]
  /\ UNCHANGED <<file, liveTokens, unproven, level, own, seat, observed, outside>>

\* A read or the rename fails: nothing to judge, nothing to displace, and a
\* moved record that cannot be read is taken for the judged one.
FailReclaim(a) ==
  /\ Fault
  /\ \/ /\ pc[a] = "observing"
        /\ EndRound(a)
        /\ UNCHANGED grave
     \/ /\ pc[a] \in {"verifying", "renaming", "checking"}
        /\ Goto(a, pc[a], "releasing")
        /\ grave' = [grave EXCEPT ![a] = NoToken]
        /\ UNCHANGED <<level, observed>>
  /\ UNCHANGED <<shared, own, seat>>

-----------------------------------------------------------------------------
(* releaseFileLock, for the lock and for a guard                             *)

EndSection(a) ==
  /\ Goto(a, "held", "releasing")
  /\ UNCHANGED <<shared, level, own, seat, observed, grave, outside>>

ReadBack(a) ==
  /\ file[seat[a]] = own[a]
  /\ Goto(a, "releasing", "unlinking")
  /\ UNCHANGED <<shared, level, own, seat, observed, grave, outside>>

\* Another owner's record, or none, is at the path: leave it alone.
LeaveChanged(a) ==
  /\ pc[a] = "releasing"
  /\ file[seat[a]] # own[a]
  /\ Retire(a)
  /\ UNCHANGED <<file, unproven, preserved, grave, outside>>

Unlink(a) ==
  /\ pc[a] = "unlinking"
  /\ file' = [file EXCEPT ![seat[a]] = NoToken]
  /\ Retire(a)
  /\ UNCHANGED <<unproven, preserved, grave, outside>>

\* Every attempt failed: the record stays, and names a process that lives.
GiveUpRelease(a) ==
  /\ Fault
  /\ pc[a] \in {"releasing", "unlinking"}
  /\ unproven' = unproven \union {own[a]}
  /\ Retire(a)
  /\ UNCHANGED <<file, preserved, grave>>

-----------------------------------------------------------------------------
(* The environment: process death, the lease of a malformed record, and an   *)
(* older build that plain-unlinks a guard it judged stale                     *)

Crash(p) ==
  /\ crashes < MaxCrashes
  /\ crashes' = crashes + 1
  /\ liveTokens' = liveTokens \ {t \in liveTokens : ProcOf[t[1]] = p}
  /\ unproven' = {t \in unproven : t = Malformed \/ ProcOf[t[1]] # p}
  /\ pc' = [a \in Actors |-> IF ProcOf[a] = p THEN "idle" ELSE pc[a]]
  /\ level' = [a \in Actors |-> IF ProcOf[a] = p THEN 0 ELSE level[a]]
  /\ seat' = [a \in Actors |-> IF ProcOf[a] = p THEN 0 ELSE seat[a]]
  /\ own' = [a \in Actors |-> IF ProcOf[a] = p THEN NoToken ELSE own[a]]
  /\ observed' = [a \in Actors |-> IF ProcOf[a] = p THEN NoToken ELSE observed[a]]
  /\ grave' = [a \in Actors |-> IF ProcOf[a] = p THEN NoToken ELSE grave[a]]
  /\ preserved' = preserved \union ({grave[a] : a \in {b \in Actors : ProcOf[b] = p}} \ {NoToken})
  /\ UNCHANGED <<file, older, faults>>

\* The malformed record outlives the stale-lock lease.
Age ==
  /\ Malformed \in unproven
  /\ unproven' = unproven \ {Malformed}
  /\ UNCHANGED <<file, liveTokens, preserved, locals, outside>>

OlderJudges(l) ==
  /\ OlderBuild /\ older = 0 /\ l # 0
  /\ file[l] # NoToken /\ file[l] \notin liveTokens \union unproven
  /\ older' = l
  /\ UNCHANGED <<shared, locals, crashes, faults>>

OlderUnlinks ==
  /\ older \in 1 .. MaxDepth
  /\ file' = [file EXCEPT ![older] = NoToken]
  /\ older' = MaxDepth + 1
  /\ UNCHANGED <<liveTokens, unproven, preserved, locals, crashes, faults>>

-----------------------------------------------------------------------------
Reclaim(a) ==
  \/ Observe(a) \/ FindGone(a) \/ Refuse(a) \/ JudgeDead(a)
  \/ LinkGuard(a) \/ FindGuardHeld(a) \/ Verify(a) \/ AbandonReclaim(a)
  \/ Rename(a) \/ RemoveGrave(a) \/ FindDisplaced(a) \/ Restore(a) \/ Preserve(a)

\* What an acquisition or a release does by itself, once begun.
Progress(a) == \/ LinkLock(a) \/ FindHeld(a) \/ Reclaim(a)
               \/ ReadBack(a) \/ LeaveChanged(a) \/ Unlink(a)

Next ==
  \/ \E a \in Actors : \/ Progress(a) \/ Start(a) \/ EndSection(a)
                       \/ FailLink(a) \/ FailReclaim(a) \/ GiveUpRelease(a)
  \/ \E p \in Procs : Crash(p)
  \/ Age
  \/ \E l \in Levels : OlderJudges(l)
  \/ OlderUnlinks

Spec == Init /\ [][Next]_vars

\* A file-system call returns, and the poll timer fires; nothing makes a caller
\* start, finish its section or live.
FairSpec == Spec /\ \A a \in Actors : WF_vars(Progress(a))

-----------------------------------------------------------------------------
(* Properties                                                                *)

TypeOK ==
  /\ file \in [Levels -> Tokens \union {NoToken}]
  /\ liveTokens \subseteq Actors \X Nonces
  /\ unproven \subseteq (Actors \X Nonces) \union {Malformed}
  /\ preserved \subseteq Tokens
  /\ pc \in [Actors -> Pcs]
  /\ level \in [Actors -> Levels]
  /\ own \in [Actors -> (Actors \X Nonces) \union {NoToken}]
  /\ seat \in [Actors -> Levels]
  /\ observed \in [Actors -> Tokens \union {NoToken}]
  /\ grave \in [Actors -> Tokens \union {NoToken}]
  /\ older \in 0 .. MaxDepth + 1
  /\ crashes \in 0 .. MaxCrashes
  /\ faults \in 0 .. MaxFaults

Published(a) == own[a] # NoToken

\* Whoever believes it owns the lock or a reclaim guard has its record at that
\* path, until it removes it itself or dies: no reclaimer displaces a live owner
\* (module comment of fileLock.ts, "Invariant"; assertStillOwned never fails).
OwnerHasRecord == \A a \in Actors : Published(a) => file[seat[a]] = own[a]

\* A record moved aside is the one judged stale: the re-read under the guard
\* leaves no window, so the restoration path serves only older builds.
ClaimIsStale ==
  \A a \in Actors : pc[a] = "checking" => grave[a] = observed[a]

\* A reclaimer that moved a live owner's record aside after all (the older build
\* removed its guard under it) puts it back or keeps it: it never destroys the
\* only evidence its owner has, unless it cannot read what it moved.
ReclaimersKeepEvidence ==
  [][\A a \in Actors :
       grave[a] \in liveTokens /\ grave'[a] # grave[a]
         => grave[a] \in preserved' \union {file'[level[a]]} \/ faults' # faults]_vars

Orphan == /\ file[0] # NoToken
          /\ file[0] \notin liveTokens \union unproven

\* The record of a dead owner does not outlast a caller that keeps trying, also
\* when reclaimers died holding the guards below the depth bound.
OrphanCleared ==
  \A a \in Actors : (Orphan /\ pc[a] # "idle") ~> (~Orphan \/ pc[a] = "idle")

\* The lock file implements a lock whose owner may die: the owner is the actor
\* whose record is at the path, and a record nobody stands behind is an orphan.
Holder(a) == Published(a) /\ seat[a] = 0 /\ file[0] = own[a]
Owner == IF file[0] = NoToken THEN "free"
         ELSE IF \E a \in Actors : Holder(a) THEN CHOOSE a \in Actors : Holder(a)
         ELSE "orphaned"

Abstract == INSTANCE CrashLock WITH owner <- Owner, Free <- "free", Orphaned <- "orphaned"
ImplementsCrashLock == Abstract!Spec
=============================================================================
