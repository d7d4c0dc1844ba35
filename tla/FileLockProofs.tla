--------------------------- MODULE FileLockProofs ---------------------------
(***************************************************************************)
(* Proofs about FileLock for any number of actors, processes, tokens and    *)
(* guard levels, any number of crashes and of failing file-system calls: a  *)
(* reclaimer destroys no record of a live owner; and, in a deployment       *)
(* without the older build, an owner's record stays at its path, a          *)
(* reclaimer claims only what it judged dead, and the lock file implements  *)
(* CrashLock.                                                               *)
(***************************************************************************)
EXTENDS FileLock, TLAPS

Sections == {"verifying", "renaming", "checking", "restoring", "held",
             "releasing", "unlinking"}

\* Where an actor is tells what it has: a token inside a section, a record moved
\* aside until it is dealt with, and, once judged dead, a content that stays dead.
LocalInv ==
  \A a \in Actors :
    /\ own[a] # NoToken <=> pc[a] \in Sections
    /\ grave[a] # NoToken <=> pc[a] \in {"checking", "restoring"}
    /\ pc[a] = "judging" => observed[a] # NoToken
    /\ pc[a] \in {"guarding", "verifying", "renaming", "checking"}
         => observed[a] # NoToken /\ observed[a] \notin liveTokens
    /\ pc[a] \in {"guarding", "verifying", "renaming", "checking"} => level[a] < MaxDepth

\* What holds in every deployment, one with an older build included.
Base == TypeOK /\ LocalInv

\* Inside a section the actor's own registered token is at its path.
OwnerInv ==
  \A a \in Actors :
    own[a] # NoToken => /\ own[a] \in liveTokens
                        /\ own[a][1] = a
                        /\ file[seat[a]] = own[a]

\* A reclaimer's guard is one level above what it reclaims.
SeatInv ==
  \A a \in Actors :
    /\ pc[a] \in {"verifying", "renaming", "checking"} => seat[a] = level[a] + 1
    /\ pc[a] = "held" => seat[a] = 0

\* Once verified under the guard, what was judged dead stays at its path until
\* the reclaimer moves it.
ClaimInv ==
  \A a \in Actors :
    /\ pc[a] = "renaming" => file[level[a]] = observed[a]
    /\ pc[a] = "checking" => grave[a] = observed[a]
    /\ pc[a] # "restoring"

Inv == Base /\ OwnerInv /\ SeatInv /\ ClaimInv /\ older = 0

-----------------------------------------------------------------------------
\* A freshly made token is its maker's, and nothing refers to it yet.
LEMMA MakeTokenFresh ==
  ASSUME NEW a \in Actors, FreshTokens(a) # {}
  PROVE  /\ MakeToken(a) \in {a} \X Nonces
         /\ \A l \in Levels : file[l] # MakeToken(a)
         /\ \A b \in Actors : own[b] # MakeToken(a) /\ observed[b] # MakeToken(a)
                                /\ grave[b] # MakeToken(a)
<1>1. MakeToken(a) \in FreshTokens(a)
  BY DEF MakeToken
<1>2. MakeToken(a) \in {a} \X Nonces /\ MakeToken(a) \notin InUse
  BY <1>1 DEF FreshTokens
<1>3. ASSUME NEW l \in Levels PROVE file[l] \in InUse
  BY DEF InUse
<1>4. ASSUME NEW b \in Actors PROVE own[b] \in InUse /\ observed[b] \in InUse /\ grave[b] \in InUse
  <2>1. {own[b], observed[b], grave[b]} \in {{own[c], observed[c], grave[c]} : c \in Actors}
    OBVIOUS
  <2>2. {own[b], observed[b], grave[b]} \subseteq InUse
    BY <2>1 DEF InUse
  <2> QED BY <2>2
<1> QED BY <1>2, <1>3, <1>4

\* Two actors never have the same token, so they never own the same path.
LEMMA SeatsAreDistinct ==
  ASSUME OwnerInv, NEW a \in Actors, NEW b \in Actors,
         own[a] # NoToken, own[b] # NoToken, seat[a] = seat[b]
  PROVE  a = b
BY DEF OwnerInv

LEMMA InitInv == Init => Inv
<1> SUFFICES ASSUME Init PROVE Inv
  OBVIOUS
<1> USE ParametersAssumption
<1>1. 0 \in Levels /\ 0 \in 0 .. MaxDepth + 1 /\ 0 \in 0 .. MaxCrashes /\ 0 \in 0 .. MaxFaults
  BY DEF Levels
<1>2. file \in [Levels -> Tokens \union {NoToken}]
  BY DEF Init, Tokens
<1>3. TypeOK
  BY <1>1, <1>2 DEF Init, TypeOK, Tokens, Pcs
<1> QED BY <1>3 DEF Init, Inv, Base, LocalInv, OwnerInv, SeatInv, ClaimInv, Sections

\* Giving up a token leaves the actor's locals in their types.
LEMMA RetireTypes ==
  ASSUME TypeOK, NEW a \in Actors, Retire(a)
  PROVE  /\ pc' \in [Actors -> Pcs]
         /\ level' \in [Actors -> Levels]
         /\ own' \in [Actors -> (Actors \X Nonces) \union {NoToken}]
         /\ seat' \in [Actors -> Levels]
         /\ observed' \in [Actors -> Tokens \union {NoToken}]
<1>1. 0 \in Levels
  BY ParametersAssumption DEF Levels
<1>2. PICK to \in {"idle", "linking"} : Leave(a, to)
  BY DEF Retire, EndRound
<1> QED BY <1>1, <1>2 DEF Retire, Leave, TypeOK, Pcs

LEMMA FaultTypes ==
  ASSUME TypeOK, Fault
  PROVE  /\ faults' \in 0 .. MaxFaults
         /\ UNCHANGED <<older, crashes>>
BY ParametersAssumption DEF TypeOK, Fault

LEMMA NextTypeOK ==
  ASSUME Base, [Next]_vars
  PROVE  TypeOK'
<1> USE ParametersAssumption
<1> USE DEF TypeOK, Base, Levels, shared, locals, outside, Tokens, Pcs
<1>S. CASE UNCHANGED vars
  BY <1>S DEF vars
<1>1. ASSUME NEW a \in Actors, Start(a) PROVE TypeOK'
  BY <1>1 DEF Start, Goto
<1>2. ASSUME NEW a \in Actors, LinkLock(a) PROVE TypeOK'
  BY <1>2, MakeTokenFresh DEF LinkLock, Goto, Publish
<1>3. ASSUME NEW a \in Actors, FindHeld(a) PROVE TypeOK'
  BY <1>3 DEF FindHeld, Goto
<1>4. ASSUME NEW a \in Actors, FailLink(a) PROVE TypeOK'
  BY <1>4 DEF FailLink, Fault, Leave
<1>5. ASSUME NEW a \in Actors, Observe(a) PROVE TypeOK'
  BY <1>5 DEF Observe, Goto
<1>6. ASSUME NEW a \in Actors, FindGone(a) PROVE TypeOK'
  BY <1>6 DEF FindGone, EndRound, Leave
<1>7. ASSUME NEW a \in Actors, Refuse(a) PROVE TypeOK'
  BY <1>7 DEF Refuse, EndRound, Leave
<1>8. ASSUME NEW a \in Actors, JudgeDead(a) PROVE TypeOK'
  BY <1>8 DEF JudgeDead, Goto
<1>9. ASSUME NEW a \in Actors, LinkGuard(a) PROVE TypeOK'
  <2>1. level[a] + 1 \in Levels
    BY <1>9 DEF LocalInv, LinkGuard, Goto
  <2>2. MakeToken(a) \in {a} \X Nonces
    BY <1>9, MakeTokenFresh DEF LinkGuard, Publish
  <2> QED BY <1>9, <2>1, <2>2 DEF LinkGuard, Goto, Publish
<1>10. ASSUME NEW a \in Actors, FindGuardHeld(a) PROVE TypeOK'
  BY <1>10 DEF FindGuardHeld, Goto, LocalInv
<1>11. ASSUME NEW a \in Actors, Verify(a) PROVE TypeOK'
  BY <1>11 DEF Verify, Goto
<1>12. ASSUME NEW a \in Actors, AbandonReclaim(a) PROVE TypeOK'
  BY <1>12 DEF AbandonReclaim, Goto
<1>13. ASSUME NEW a \in Actors, Rename(a) PROVE TypeOK'
  BY <1>13 DEF Rename, Goto
<1>14. ASSUME NEW a \in Actors, RemoveGrave(a) PROVE TypeOK'
  BY <1>14 DEF RemoveGrave, Goto
<1>15. ASSUME NEW a \in Actors, FindDisplaced(a) PROVE TypeOK'
  BY <1>15 DEF FindDisplaced, Goto
<1>16. ASSUME NEW a \in Actors, Restore(a) PROVE TypeOK'
  BY <1>16 DEF Restore, Goto
<1>17. ASSUME NEW a \in Actors, Preserve(a) PROVE TypeOK'
  BY <1>17 DEF Preserve, Goto, LocalInv
<1>18. ASSUME NEW a \in Actors, FailReclaim(a) PROVE TypeOK'
  <2>0. Fault /\ UNCHANGED <<shared, own, seat>>
    BY <1>18 DEF FailReclaim
  <2>1. CASE pc[a] = "observing"
    <3>1. EndRound(a) /\ UNCHANGED grave
      BY <1>18, <2>1 DEF FailReclaim
    <3>2. PICK to \in {"idle", "linking"} : Leave(a, to)
      BY <3>1 DEF EndRound
    <3>3. 0 \in Levels
      OBVIOUS
    <3>4. level' \in [Actors -> Levels] /\ pc' \in [Actors -> Pcs]
          /\ observed' \in [Actors -> Tokens \union {NoToken}]
      BY <3>2, <3>3 DEF Leave
    <3> QED BY <2>0, <3>1, <3>4, FaultTypes
  <2>2. CASE pc[a] # "observing"
    <3>1. /\ Goto(a, pc[a], "releasing") /\ UNCHANGED <<level, observed>>
          /\ grave' = [grave EXCEPT ![a] = NoToken]
      BY <1>18, <2>2 DEF FailReclaim
    <3> QED BY <2>0, <3>1, FaultTypes DEF Goto
  <2> QED BY <2>1, <2>2
<1>19. ASSUME NEW a \in Actors, EndSection(a) PROVE TypeOK'
  BY <1>19 DEF EndSection, Goto
<1>20. ASSUME NEW a \in Actors, ReadBack(a) PROVE TypeOK'
  BY <1>20 DEF ReadBack, Goto
<1>21. ASSUME NEW a \in Actors, LeaveChanged(a) PROVE TypeOK'
  BY <1>21, RetireTypes DEF LeaveChanged, Retire
<1>22. ASSUME NEW a \in Actors, Unlink(a) PROVE TypeOK'
  BY <1>22, RetireTypes DEF Unlink, Retire
<1>23. ASSUME NEW a \in Actors, GiveUpRelease(a) PROVE TypeOK'
  <2>1. own[a] \in Actors \X Nonces
    BY <1>23 DEF GiveUpRelease, LocalInv, Sections
  <2>2. liveTokens' = liveTokens \ {own[a]} /\ unproven' = unproven \union {own[a]}
    BY <1>23 DEF GiveUpRelease, Retire
  <2> QED BY <1>23, <2>1, <2>2, RetireTypes, FaultTypes DEF GiveUpRelease
<1>c. ASSUME NEW p \in Procs, Crash(p) PROVE TypeOK'
  BY <1>c DEF Crash
<1>g. ASSUME Age PROVE TypeOK'
  BY <1>g DEF Age
<1>o. ASSUME OlderUnlinks PROVE TypeOK'
  BY <1>o DEF OlderUnlinks
<1>j. ASSUME NEW l \in Levels, OlderJudges(l) PROVE TypeOK'
  BY <1>j DEF OlderJudges
<1> QED
  BY <1>S, <1>1, <1>2, <1>3, <1>4, <1>5, <1>6, <1>7, <1>8, <1>9, <1>10, <1>11, <1>12, <1>13,
     <1>14, <1>15, <1>16, <1>17, <1>18, <1>19, <1>20, <1>21, <1>22, <1>23, <1>c, <1>g, <1>o, <1>j
     DEF Next, Progress, Reclaim

LEMMA NextLocalInv ==
  ASSUME Base, [Next]_vars
  PROVE  LocalInv'
<1> USE ParametersAssumption
<1> USE DEF Base, TypeOK, LocalInv, Sections, shared, locals, outside
<1>s. CASE UNCHANGED vars
  BY <1>s DEF vars
<1>1. ASSUME NEW a \in Actors, Start(a) PROVE LocalInv'
  BY <1>1 DEF Start, Goto
<1>2. ASSUME NEW a \in Actors, LinkLock(a) PROVE LocalInv'
  BY <1>2, MakeTokenFresh DEF LinkLock, Goto, Publish
<1>3. ASSUME NEW a \in Actors, FindHeld(a) PROVE LocalInv'
  BY <1>3 DEF FindHeld, Goto
<1>4. ASSUME NEW a \in Actors, FailLink(a) PROVE LocalInv'
  BY <1>4 DEF FailLink, Fault, Leave
<1>5. ASSUME NEW a \in Actors, Observe(a) PROVE LocalInv'
  BY <1>5 DEF Observe, Goto
<1>6. ASSUME NEW a \in Actors, FindGone(a) PROVE LocalInv'
  BY <1>6 DEF FindGone, EndRound, Leave
<1>7. ASSUME NEW a \in Actors, Refuse(a) PROVE LocalInv'
  BY <1>7 DEF Refuse, EndRound, Leave
<1>8. ASSUME NEW a \in Actors, JudgeDead(a) PROVE LocalInv'
  BY <1>8 DEF JudgeDead, Goto, JudgedDead
<1>9. ASSUME NEW a \in Actors, LinkGuard(a) PROVE LocalInv'
  BY <1>9, MakeTokenFresh DEF LinkGuard, Goto, Publish
<1>10. ASSUME NEW a \in Actors, FindGuardHeld(a) PROVE LocalInv'
  BY <1>10 DEF FindGuardHeld, Goto
<1>11. ASSUME NEW a \in Actors, Verify(a) PROVE LocalInv'
  BY <1>11 DEF Verify, Goto
<1>12. ASSUME NEW a \in Actors, AbandonReclaim(a) PROVE LocalInv'
  BY <1>12 DEF AbandonReclaim, Goto
<1>13. ASSUME NEW a \in Actors, Rename(a) PROVE LocalInv'
  BY <1>13 DEF Rename, Goto
<1>14. ASSUME NEW a \in Actors, RemoveGrave(a) PROVE LocalInv'
  BY <1>14 DEF RemoveGrave, Goto
<1>15. ASSUME NEW a \in Actors, FindDisplaced(a) PROVE LocalInv'
  BY <1>15 DEF FindDisplaced, Goto
<1>16. ASSUME NEW a \in Actors, Restore(a) PROVE LocalInv'
  BY <1>16 DEF Restore, Goto
<1>17. ASSUME NEW a \in Actors, Preserve(a) PROVE LocalInv'
  BY <1>17 DEF Preserve, Goto
<1>18. ASSUME NEW a \in Actors, FailReclaim(a) PROVE LocalInv'
  BY <1>18 DEF FailReclaim, Fault, EndRound, Leave, Goto
<1>19. ASSUME NEW a \in Actors, EndSection(a) PROVE LocalInv'
  BY <1>19 DEF EndSection, Goto
<1>20. ASSUME NEW a \in Actors, ReadBack(a) PROVE LocalInv'
  BY <1>20 DEF ReadBack, Goto
<1>21. ASSUME NEW a \in Actors, LeaveChanged(a) PROVE LocalInv'
  BY <1>21 DEF LeaveChanged, Retire, EndRound, Leave
<1>22. ASSUME NEW a \in Actors, Unlink(a) PROVE LocalInv'
  BY <1>22 DEF Unlink, Retire, EndRound, Leave
<1>23. ASSUME NEW a \in Actors, GiveUpRelease(a) PROVE LocalInv'
  BY <1>23 DEF GiveUpRelease, Fault, Retire, EndRound, Leave
<1>c. ASSUME NEW p \in Procs, Crash(p) PROVE LocalInv'
  BY <1>c DEF Crash
<1>g. ASSUME Age PROVE LocalInv'
  BY <1>g DEF Age
<1>o. ASSUME OlderUnlinks PROVE LocalInv'
  BY <1>o DEF OlderUnlinks
<1>j. ASSUME NEW l \in Levels, OlderJudges(l) PROVE LocalInv'
  BY <1>j DEF OlderJudges
<1> QED
  BY <1>s, <1>1, <1>2, <1>3, <1>4, <1>5, <1>6, <1>7, <1>8, <1>9, <1>10, <1>11, <1>12, <1>13,
     <1>14, <1>15, <1>16, <1>17, <1>18, <1>19, <1>20, <1>21, <1>22, <1>23, <1>c, <1>g, <1>o, <1>j
     DEF Next, Progress, Reclaim

LEMMA NextBase ==
  ASSUME Base, [Next]_vars
  PROVE  Base'
BY NextTypeOK, NextLocalInv DEF Base

LEMMA Basics == Spec => []Base
<1>1. Init => Base
  BY InitInv DEF Inv
<1>2. Base /\ [Next]_vars => Base'
  BY NextBase
<1> QED BY <1>1, <1>2, PTL DEF Spec

\* Whatever older builds unlink and whoever dies, a reclaimer that displaced a
\* live owner's record puts it back or keeps it, unless it fails to read it: what
\* it removes is what it judged dead, and the dead do not come back to life.
THEOREM EvidenceIsKept == Spec => ReclaimersKeepEvidence
<1>1. ASSUME Base, [Next]_vars, NEW a \in Actors, grave[a] \in liveTokens, grave'[a] # grave[a]
      PROVE  grave[a] \in preserved' \union {file'[level[a]]} \/ faults' # faults
  <2>1. /\ grave[a] # NoToken /\ pc[a] \in {"checking", "restoring"}
        /\ pc[a] = "checking" => observed[a] \notin liveTokens
    BY <1>1, ParametersAssumption DEF Base, TypeOK, LocalInv
  <2>2. ASSUME NEW b \in Actors, Progress(b)
        PROVE  grave[a] \in preserved' \union {file'[level[a]]}
    <3>1. b = a /\ (RemoveGrave(a) \/ Restore(a) \/ Preserve(a))
      BY <1>1, <2>1, <2>2 DEF Progress, Reclaim, LinkLock, FindHeld, Observe, FindGone, Refuse,
         JudgeDead, LinkGuard, FindGuardHeld, Verify, AbandonReclaim, Rename, RemoveGrave,
         FindDisplaced, Restore, Preserve, ReadBack, LeaveChanged, Unlink, Goto, Base, TypeOK
    <3>2. ~RemoveGrave(a)
      BY <1>1, <2>1 DEF RemoveGrave, Goto
    <3>3. CASE Restore(a)
      BY <1>1, <3>3 DEF Restore, Base, TypeOK
    <3>4. CASE Preserve(a)
      BY <3>4 DEF Preserve
    <3> QED BY <3>1, <3>2, <3>3, <3>4
  <2>3. ASSUME NEW b \in Actors, \/ Start(b) \/ EndSection(b) \/ FailLink(b)
                                \/ FailReclaim(b) \/ GiveUpRelease(b)
        PROVE  faults' # faults
    BY <1>1, <2>3 DEF Start, EndSection, FailLink, FailReclaim, GiveUpRelease, Fault, Base, TypeOK
  <2>4. ASSUME NEW p \in Procs, Crash(p)
        PROVE  grave[a] \in preserved'
    BY <1>1, <2>1, <2>4 DEF Crash
  <2>5. CASE Age \/ OlderUnlinks \/ (\E l \in Levels : OlderJudges(l)) \/ UNCHANGED vars
    BY <1>1, <2>5 DEF Age, OlderUnlinks, OlderJudges, locals, vars
  <2> QED BY <1>1, <2>2, <2>3, <2>4, <2>5 DEF Next
<1>2. Base /\ [Next]_vars
        => [\A a \in Actors :
              grave[a] \in liveTokens /\ grave'[a] # grave[a]
                => grave[a] \in preserved' \union {file'[level[a]]} \/ faults' # faults]_vars
  BY <1>1
<1> QED BY <1>2, Basics, PTL DEF Spec, ReclaimersKeepEvidence

\* Publishing a fresh token at a free path disturbs no other owner.
LEMMA PublishKeepsOwners ==
  ASSUME TypeOK, OwnerInv, NEW a \in Actors, NEW l \in Levels, NEW to \in Sections,
         Publish(a, l), own[a] = NoToken, pc' = [pc EXCEPT ![a] = to]
  PROVE  OwnerInv'
<1> DEFINE t == MakeToken(a)
<1>1. t \in {a} \X Nonces /\ t # NoToken
  BY MakeTokenFresh, ParametersAssumption DEF Publish
<1>2. /\ file' = [file EXCEPT ![l] = t] /\ own' = [own EXCEPT ![a] = t]
      /\ seat' = [seat EXCEPT ![a] = l] /\ liveTokens' = liveTokens \union {t}
      /\ file[l] = NoToken
  BY DEF Publish
<1> HIDE DEF t
<1>3. ASSUME NEW b \in Actors
      PROVE  own'[b] # NoToken => /\ own'[b] \in liveTokens'
                                  /\ own'[b][1] = b
                                  /\ file'[seat'[b]] = own'[b]
  <2>1. CASE b = a
    BY <1>1, <1>2, <2>1 DEF TypeOK
  <2>2. CASE b # a
    <3>1. own'[b] = own[b] /\ seat'[b] = seat[b] /\ pc'[b] = pc[b]
      BY <1>2, <2>2 DEF TypeOK
    <3>2. own[b] # NoToken => seat[b] # l
      BY <1>2 DEF OwnerInv
    <3>3. own[b] # NoToken => file'[seat[b]] = file[seat[b]]
      BY <1>2, <3>2 DEF TypeOK
    <3> QED BY <1>2, <3>1, <3>3 DEF OwnerInv
  <2> QED BY <2>1, <2>2
<1> QED BY <1>3 DEF OwnerInv

LEMMA NextOwnerInv ==
  ASSUME Inv, [Next]_vars, ~OlderBuild
  PROVE  OwnerInv'
<1> USE ParametersAssumption
<1> USE DEF Inv, Base, LocalInv, TypeOK, OwnerInv, Sections, shared, locals, outside
<1>s. CASE UNCHANGED vars
  BY <1>s DEF vars
<1>1. ASSUME NEW a \in Actors, Start(a) PROVE OwnerInv'
  BY <1>1 DEF Start, Goto
<1>2. ASSUME NEW a \in Actors, LinkLock(a) PROVE OwnerInv'
  <2>1. 0 \in Levels
    BY DEF Levels
  <2> QED BY <1>2, <2>1, PublishKeepsOwners DEF LinkLock, Goto
<1>3. ASSUME NEW a \in Actors, FindHeld(a) PROVE OwnerInv'
  BY <1>3 DEF FindHeld, Goto
<1>4. ASSUME NEW a \in Actors, FailLink(a) PROVE OwnerInv'
  BY <1>4 DEF FailLink, Fault, Leave
<1>5. ASSUME NEW a \in Actors, Observe(a) PROVE OwnerInv'
  BY <1>5 DEF Observe, Goto
<1>6. ASSUME NEW a \in Actors, FindGone(a) PROVE OwnerInv'
  BY <1>6 DEF FindGone, EndRound, Leave
<1>7. ASSUME NEW a \in Actors, Refuse(a) PROVE OwnerInv'
  BY <1>7 DEF Refuse, EndRound, Leave
<1>8. ASSUME NEW a \in Actors, JudgeDead(a) PROVE OwnerInv'
  BY <1>8 DEF JudgeDead, Goto
<1>9. ASSUME NEW a \in Actors, LinkGuard(a) PROVE OwnerInv'
  <2>1. level[a] + 1 \in Levels
    BY <1>9 DEF SeatInv, LinkGuard, Goto, Levels
  <2> QED BY <1>9, <2>1, PublishKeepsOwners DEF LinkGuard, Goto
<1>10. ASSUME NEW a \in Actors, FindGuardHeld(a) PROVE OwnerInv'
  BY <1>10 DEF FindGuardHeld, Goto
<1>11. ASSUME NEW a \in Actors, Verify(a) PROVE OwnerInv'
  BY <1>11 DEF Verify, Goto
<1>12. ASSUME NEW a \in Actors, AbandonReclaim(a) PROVE OwnerInv'
  BY <1>12 DEF AbandonReclaim, Goto
<1>13. ASSUME NEW a \in Actors, Rename(a) PROVE OwnerInv'
  <2>1. file[level[a]] \notin liveTokens
    BY <1>13 DEF Rename, Goto, ClaimInv
  <2>2. \A b \in Actors : own[b] # NoToken => seat[b] # level[a]
    BY <2>1
  <2> QED BY <1>13, <2>2 DEF Rename, Goto
<1>14. ASSUME NEW a \in Actors, RemoveGrave(a) PROVE OwnerInv'
  BY <1>14 DEF RemoveGrave, Goto
<1>15. ASSUME NEW a \in Actors, FindDisplaced(a) PROVE OwnerInv'
  BY <1>15 DEF FindDisplaced, Goto
<1>16. ASSUME NEW a \in Actors, Restore(a) PROVE OwnerInv'
  BY <1>16 DEF Restore, Goto
<1>17. ASSUME NEW a \in Actors, Preserve(a) PROVE OwnerInv'
  BY <1>17 DEF Preserve, Goto
<1>18. ASSUME NEW a \in Actors, FailReclaim(a) PROVE OwnerInv'
  BY <1>18 DEF FailReclaim, Fault, EndRound, Leave, Goto
<1>19. ASSUME NEW a \in Actors, EndSection(a) PROVE OwnerInv'
  BY <1>19 DEF EndSection, Goto
<1>20. ASSUME NEW a \in Actors, ReadBack(a) PROVE OwnerInv'
  BY <1>20 DEF ReadBack, Goto
<1>21. ASSUME NEW a \in Actors, LeaveChanged(a) PROVE OwnerInv'
  BY <1>21 DEF LeaveChanged, Retire, EndRound, Leave
<1>22. ASSUME NEW a \in Actors, Unlink(a) PROVE OwnerInv'
  BY <1>22 DEF Unlink, Retire, EndRound, Leave
<1>23. ASSUME NEW a \in Actors, GiveUpRelease(a) PROVE OwnerInv'
  BY <1>23 DEF GiveUpRelease, Fault, Retire, EndRound, Leave
<1>c. ASSUME NEW p \in Procs, Crash(p) PROVE OwnerInv'
  BY <1>c DEF Crash
<1>g. ASSUME Age PROVE OwnerInv'
  BY <1>g DEF Age
<1>o. ASSUME OlderUnlinks PROVE OwnerInv'
  BY <1>o DEF OlderUnlinks
<1>j. ASSUME NEW l \in Levels, OlderJudges(l) PROVE OwnerInv'
  BY <1>j DEF OlderJudges
<1> QED
  BY <1>s, <1>1, <1>2, <1>3, <1>4, <1>5, <1>6, <1>7, <1>8, <1>9, <1>10, <1>11, <1>12, <1>13,
     <1>14, <1>15, <1>16, <1>17, <1>18, <1>19, <1>20, <1>21, <1>22, <1>23, <1>c, <1>g, <1>o, <1>j
     DEF Next, Progress, Reclaim

LEMMA NextSeatInv ==
  ASSUME Inv, [Next]_vars, ~OlderBuild
  PROVE  SeatInv'
<1> USE ParametersAssumption
<1> USE DEF Inv, Base, LocalInv, TypeOK, SeatInv, Sections, shared, locals, outside
<1>s. CASE UNCHANGED vars
  BY <1>s DEF vars
<1>1. ASSUME NEW a \in Actors, Start(a) PROVE SeatInv'
  BY <1>1 DEF Start, Goto
<1>2. ASSUME NEW a \in Actors, LinkLock(a) PROVE SeatInv'
  BY <1>2, MakeTokenFresh DEF LinkLock, Goto, Publish
<1>3. ASSUME NEW a \in Actors, FindHeld(a) PROVE SeatInv'
  BY <1>3 DEF FindHeld, Goto
<1>4. ASSUME NEW a \in Actors, FailLink(a) PROVE SeatInv'
  BY <1>4 DEF FailLink, Fault, Leave
<1>5. ASSUME NEW a \in Actors, Observe(a) PROVE SeatInv'
  BY <1>5 DEF Observe, Goto
<1>6. ASSUME NEW a \in Actors, FindGone(a) PROVE SeatInv'
  BY <1>6 DEF FindGone, EndRound, Leave
<1>7. ASSUME NEW a \in Actors, Refuse(a) PROVE SeatInv'
  BY <1>7 DEF Refuse, EndRound, Leave
<1>8. ASSUME NEW a \in Actors, JudgeDead(a) PROVE SeatInv'
  BY <1>8 DEF JudgeDead, Goto
<1>9. ASSUME NEW a \in Actors, LinkGuard(a) PROVE SeatInv'
  BY <1>9, MakeTokenFresh DEF LinkGuard, Goto, Publish
<1>10. ASSUME NEW a \in Actors, FindGuardHeld(a) PROVE SeatInv'
  BY <1>10 DEF FindGuardHeld, Goto
<1>11. ASSUME NEW a \in Actors, Verify(a) PROVE SeatInv'
  BY <1>11 DEF Verify, Goto
<1>12. ASSUME NEW a \in Actors, AbandonReclaim(a) PROVE SeatInv'
  BY <1>12 DEF AbandonReclaim, Goto
<1>13. ASSUME NEW a \in Actors, Rename(a) PROVE SeatInv'
  BY <1>13 DEF Rename, Goto
<1>14. ASSUME NEW a \in Actors, RemoveGrave(a) PROVE SeatInv'
  BY <1>14 DEF RemoveGrave, Goto
<1>15. ASSUME NEW a \in Actors, FindDisplaced(a) PROVE SeatInv'
  BY <1>15 DEF FindDisplaced, Goto
<1>16. ASSUME NEW a \in Actors, Restore(a) PROVE SeatInv'
  BY <1>16 DEF Restore, Goto
<1>17. ASSUME NEW a \in Actors, Preserve(a) PROVE SeatInv'
  BY <1>17 DEF Preserve, Goto
<1>18. ASSUME NEW a \in Actors, FailReclaim(a) PROVE SeatInv'
  BY <1>18 DEF FailReclaim, Fault, EndRound, Leave, Goto
<1>19. ASSUME NEW a \in Actors, EndSection(a) PROVE SeatInv'
  BY <1>19 DEF EndSection, Goto
<1>20. ASSUME NEW a \in Actors, ReadBack(a) PROVE SeatInv'
  BY <1>20 DEF ReadBack, Goto
<1>21. ASSUME NEW a \in Actors, LeaveChanged(a) PROVE SeatInv'
  BY <1>21 DEF LeaveChanged, Retire, EndRound, Leave
<1>22. ASSUME NEW a \in Actors, Unlink(a) PROVE SeatInv'
  BY <1>22 DEF Unlink, Retire, EndRound, Leave
<1>23. ASSUME NEW a \in Actors, GiveUpRelease(a) PROVE SeatInv'
  BY <1>23 DEF GiveUpRelease, Fault, Retire, EndRound, Leave
<1>c. ASSUME NEW p \in Procs, Crash(p) PROVE SeatInv'
  BY <1>c DEF Crash
<1>g. ASSUME Age PROVE SeatInv'
  BY <1>g DEF Age
<1>o. ASSUME OlderUnlinks PROVE SeatInv'
  BY <1>o DEF OlderUnlinks
<1>j. ASSUME NEW l \in Levels, OlderJudges(l) PROVE SeatInv'
  BY <1>j DEF OlderJudges
<1> QED
  BY <1>s, <1>1, <1>2, <1>3, <1>4, <1>5, <1>6, <1>7, <1>8, <1>9, <1>10, <1>11, <1>12, <1>13,
     <1>14, <1>15, <1>16, <1>17, <1>18, <1>19, <1>20, <1>21, <1>22, <1>23, <1>c, <1>g, <1>o, <1>j
     DEF Next, Progress, Reclaim

LEMMA NextClaimInv ==
  ASSUME Inv, [Next]_vars, ~OlderBuild
  PROVE  ClaimInv'
<1> USE ParametersAssumption
<1> USE DEF Inv, Base, LocalInv, TypeOK, ClaimInv, Sections, shared, locals, outside
<1>s. CASE UNCHANGED vars
  BY <1>s DEF vars
<1>1. ASSUME NEW a \in Actors, Start(a) PROVE ClaimInv'
  BY <1>1 DEF Start, Goto
<1>2. ASSUME NEW a \in Actors, LinkLock(a) PROVE ClaimInv'
  BY <1>2, MakeTokenFresh DEF LinkLock, Goto, Publish
<1>3. ASSUME NEW a \in Actors, FindHeld(a) PROVE ClaimInv'
  BY <1>3 DEF FindHeld, Goto
<1>4. ASSUME NEW a \in Actors, FailLink(a) PROVE ClaimInv'
  BY <1>4 DEF FailLink, Fault, Leave
<1>5. ASSUME NEW a \in Actors, Observe(a) PROVE ClaimInv'
  BY <1>5 DEF Observe, Goto
<1>6. ASSUME NEW a \in Actors, FindGone(a) PROVE ClaimInv'
  BY <1>6 DEF FindGone, EndRound, Leave
<1>7. ASSUME NEW a \in Actors, Refuse(a) PROVE ClaimInv'
  BY <1>7 DEF Refuse, EndRound, Leave
<1>8. ASSUME NEW a \in Actors, JudgeDead(a) PROVE ClaimInv'
  BY <1>8 DEF JudgeDead, Goto, JudgedDead
<1>9. ASSUME NEW a \in Actors, LinkGuard(a) PROVE ClaimInv'
  BY <1>9, MakeTokenFresh DEF LinkGuard, Goto, Publish
<1>10. ASSUME NEW a \in Actors, FindGuardHeld(a) PROVE ClaimInv'
  BY <1>10 DEF FindGuardHeld, Goto
<1>11. ASSUME NEW a \in Actors, Verify(a) PROVE ClaimInv'
  BY <1>11 DEF Verify, Goto
<1>12. ASSUME NEW a \in Actors, AbandonReclaim(a) PROVE ClaimInv'
  BY <1>12 DEF AbandonReclaim, Goto
<1>13. ASSUME NEW a \in Actors, Rename(a) PROVE ClaimInv'
  <2>1. ASSUME NEW b \in Actors, pc[b] = "renaming", level[b] = level[a]
        PROVE  b = a
    <3>1. seat[a] = seat[b] /\ own[a] # NoToken /\ own[b] # NoToken
      BY <1>13, <2>1 DEF Rename, Goto, SeatInv, OwnerInv
    <3> QED BY <3>1, SeatsAreDistinct
  <2>2. pc[a] = "renaming" /\ pc' = [pc EXCEPT ![a] = "checking"]
        /\ file' = [file EXCEPT ![level[a]] = NoToken]
        /\ grave' = [grave EXCEPT ![a] = file[level[a]]]
        /\ UNCHANGED <<liveTokens, observed, level>>
    BY <1>13 DEF Rename, Goto
  <2> QED BY <2>1, <2>2
<1>14. ASSUME NEW a \in Actors, RemoveGrave(a) PROVE ClaimInv'
  BY <1>14 DEF RemoveGrave, Goto
<1>15. ASSUME NEW a \in Actors, FindDisplaced(a) PROVE ClaimInv'
  BY <1>15 DEF FindDisplaced, Goto
<1>16. ASSUME NEW a \in Actors, Restore(a) PROVE ClaimInv'
  BY <1>16 DEF Restore, Goto
<1>17. ASSUME NEW a \in Actors, Preserve(a) PROVE ClaimInv'
  BY <1>17 DEF Preserve, Goto
<1>18. ASSUME NEW a \in Actors, FailReclaim(a) PROVE ClaimInv'
  BY <1>18 DEF FailReclaim, Fault, EndRound, Leave, Goto
<1>19. ASSUME NEW a \in Actors, EndSection(a) PROVE ClaimInv'
  BY <1>19 DEF EndSection, Goto
<1>20. ASSUME NEW a \in Actors, ReadBack(a) PROVE ClaimInv'
  BY <1>20 DEF ReadBack, Goto
<1>21. ASSUME NEW a \in Actors, LeaveChanged(a) PROVE ClaimInv'
  BY <1>21 DEF LeaveChanged, Retire, EndRound, Leave
<1>22. ASSUME NEW a \in Actors, Unlink(a) PROVE ClaimInv'
  <2>1. ASSUME NEW b \in Actors, pc[b] = "renaming"
        PROVE  level[b] # seat[a]
    BY <1>22, <2>1 DEF Unlink, OwnerInv
  <2>2. PICK to \in {"idle", "linking"} : Leave(a, to)
    BY <1>22 DEF Unlink, Retire, EndRound
  <2> QED BY <1>22, <2>1, <2>2 DEF Unlink, Retire, Leave
<1>23. ASSUME NEW a \in Actors, GiveUpRelease(a) PROVE ClaimInv'
  BY <1>23 DEF GiveUpRelease, Fault, Retire, EndRound, Leave
<1>c. ASSUME NEW p \in Procs, Crash(p) PROVE ClaimInv'
  BY <1>c DEF Crash
<1>g. ASSUME Age PROVE ClaimInv'
  BY <1>g DEF Age
<1>o. ASSUME OlderUnlinks PROVE ClaimInv'
  BY <1>o DEF OlderUnlinks
<1>j. ASSUME NEW l \in Levels, OlderJudges(l) PROVE ClaimInv'
  BY <1>j DEF OlderJudges
<1> QED
  BY <1>s, <1>1, <1>2, <1>3, <1>4, <1>5, <1>6, <1>7, <1>8, <1>9, <1>10, <1>11, <1>12, <1>13,
     <1>14, <1>15, <1>16, <1>17, <1>18, <1>19, <1>20, <1>21, <1>22, <1>23, <1>c, <1>g, <1>o, <1>j
     DEF Next, Progress, Reclaim

LEMMA NextInv ==
  ASSUME Inv, [Next]_vars, ~OlderBuild
  PROVE  Inv'
<1>1. older' = 0
  <2> USE DEF outside, Fault, locals
  <2>1. CASE \E a \in Actors : Progress(a)
    BY <2>1 DEF Inv, Progress, Reclaim, LinkLock, FindHeld, Observe, FindGone, Refuse,
       JudgeDead, LinkGuard, FindGuardHeld, Verify, AbandonReclaim, Rename, RemoveGrave,
       FindDisplaced, Restore, Preserve, ReadBack, LeaveChanged, Unlink
  <2>2. CASE \E a \in Actors : \/ Start(a) \/ EndSection(a) \/ FailLink(a)
                               \/ FailReclaim(a) \/ GiveUpRelease(a)
    BY <2>2 DEF Inv, Start, EndSection, FailLink, FailReclaim, GiveUpRelease
  <2>3. CASE \/ \E p \in Procs : Crash(p)
            \/ Age \/ OlderUnlinks \/ \E l \in Levels : OlderJudges(l)
    BY <2>3 DEF Inv, Crash, Age, OlderUnlinks, OlderJudges
  <2>4. CASE UNCHANGED vars
    BY <2>4 DEF Inv, vars
  <2> QED BY <2>1, <2>2, <2>3, <2>4 DEF Next
<1> QED BY <1>1, NextBase, NextOwnerInv, NextSeatInv, NextClaimInv DEF Inv

THEOREM Invariance == ASSUME ~OlderBuild PROVE Spec => []Inv
<1>1. Inv /\ [Next]_vars => Inv'
  BY NextInv
<1> QED BY <1>1, InitInv, PTL DEF Spec

\* Whatever the interleaving, the crashes and the failing calls, an owner of the
\* lock or of a reclaim guard keeps its record at its path until it removes it
\* or dies: assertStillOwned never fails a live holder.
THEOREM NoLiveOwnerDisplaced == ASSUME ~OlderBuild PROVE Spec => []OwnerHasRecord
<1>1. Inv => OwnerHasRecord
  BY DEF Inv, OwnerInv, OwnerHasRecord, Published
<1> QED BY <1>1, Invariance, PTL

\* The rename under the guard never takes a record other than the judged one, so
\* the restoration path is dead code without the older build.
THEOREM ReclaimersClaimStaleRecords == ASSUME ~OlderBuild PROVE Spec => []ClaimIsStale
<1>1. Inv => ClaimIsStale
  BY DEF Inv, ClaimInv, ClaimIsStale
<1> QED BY <1>1, Invariance, PTL

-----------------------------------------------------------------------------
(* Refinement of CrashLock                                                   *)

LEMMA OwnerIsFree == file[0] = NoToken => Owner = "free"
BY DEF Owner

LEMMA OwnerIsHolder ==
  ASSUME Inv, NEW a \in Actors, Holder(a)
  PROVE  Owner = a
<1>1. \A b \in Actors : Holder(b) => b = a
  BY SeatsAreDistinct DEF Inv, Holder, Published
<1>2. file[0] # NoToken
  BY DEF Holder, Published
<1>3. (CHOOSE b \in Actors : Holder(b)) = a
  BY <1>1
<1> QED BY <1>2, <1>3 DEF Owner

LEMMA OwnerIsNobody ==
  ASSUME file[0] # NoToken, \A a \in Actors : ~Holder(a)
  PROVE  Owner = "orphaned"
BY DEF Owner

\* A step that leaves the record at the lock path and every holder alone is a
\* stutter of the abstract lock.
LEMMA OwnerUnchanged ==
  ASSUME Inv, Inv', file'[0] = file[0], \A a \in Actors : Holder(a)' <=> Holder(a)
  PROVE  Owner' = Owner
<1>1. CASE file[0] = NoToken
  BY <1>1 DEF Owner
<1>2. CASE file[0] # NoToken /\ \A a \in Actors : ~Holder(a)
  BY <1>2 DEF Owner
<1>3. ASSUME NEW a \in Actors, Holder(a) PROVE Owner' = Owner
  <2>1. Owner = a
    BY <1>3, OwnerIsHolder
  <2>2. \A b \in Actors : Holder(b)' => b = a
    BY <1>3, SeatsAreDistinct DEF Inv, Holder, Published
  <2>3. file'[0] # NoToken /\ Holder(a)'
    BY <1>3 DEF Holder, Published
  <2>4. (CHOOSE b \in Actors : Holder(b)') = a
    BY <2>2, <2>3
  <2>5. Owner' = a
    BY <2>3, <2>4 DEF Owner
  <2> QED BY <2>1, <2>5
<1> QED BY <1>1, <1>2, <1>3

LEMMA StepsImplement ==
  ASSUME Inv, [Next]_vars, ~OlderBuild
  PROVE  [Abstract!Next]_Owner
<1> USE ParametersAssumption
<1>0. Inv'
  BY NextInv
<1> USE DEF Inv, Base, LocalInv, shared, locals, outside
<1>t. file \in [Levels -> Tokens \union {NoToken}] /\ 0 \in Levels
  BY DEF TypeOK, Levels
<1>u. ASSUME UNCHANGED <<file, own, seat>> PROVE UNCHANGED Owner
  BY <1>0, <1>u, OwnerUnchanged DEF Holder, Published
<1>s. CASE UNCHANGED vars
  BY <1>s, <1>u DEF vars
<1>1. ASSUME NEW a \in Actors, Start(a) PROVE UNCHANGED Owner
  BY <1>1, <1>u DEF Start, Goto
<1>2. ASSUME NEW a \in Actors, FindHeld(a) PROVE UNCHANGED Owner
  BY <1>2, <1>u DEF FindHeld, Goto
<1>3. ASSUME NEW a \in Actors, FailLink(a) PROVE UNCHANGED Owner
  BY <1>3, <1>u DEF FailLink, Fault
<1>4. ASSUME NEW a \in Actors, Observe(a) PROVE UNCHANGED Owner
  BY <1>4, <1>u DEF Observe, Goto
<1>5. ASSUME NEW a \in Actors, FindGone(a) PROVE UNCHANGED Owner
  BY <1>5, <1>u DEF FindGone
<1>6. ASSUME NEW a \in Actors, Refuse(a) PROVE UNCHANGED Owner
  BY <1>6, <1>u DEF Refuse
<1>7. ASSUME NEW a \in Actors, JudgeDead(a) PROVE UNCHANGED Owner
  BY <1>7, <1>u DEF JudgeDead, Goto
<1>8. ASSUME NEW a \in Actors, FindGuardHeld(a) PROVE UNCHANGED Owner
  BY <1>8, <1>u DEF FindGuardHeld, Goto
<1>9. ASSUME NEW a \in Actors, Verify(a) PROVE UNCHANGED Owner
  BY <1>9, <1>u DEF Verify, Goto
<1>10. ASSUME NEW a \in Actors, AbandonReclaim(a) PROVE UNCHANGED Owner
  BY <1>10, <1>u DEF AbandonReclaim, Goto
<1>11. ASSUME NEW a \in Actors, RemoveGrave(a) PROVE UNCHANGED Owner
  BY <1>11, <1>u DEF RemoveGrave, Goto
<1>12. ASSUME NEW a \in Actors, FindDisplaced(a) PROVE UNCHANGED Owner
  BY <1>12, <1>u DEF FindDisplaced, Goto
<1>13. ASSUME NEW a \in Actors, Restore(a) PROVE UNCHANGED Owner
  BY <1>13, <1>u DEF Restore, Goto, ClaimInv
<1>14. ASSUME NEW a \in Actors, Preserve(a) PROVE UNCHANGED Owner
  BY <1>14, <1>u DEF Preserve, Goto, ClaimInv
<1>15. ASSUME NEW a \in Actors, FailReclaim(a) PROVE UNCHANGED Owner
  BY <1>15, <1>u DEF FailReclaim, Fault
<1>16. ASSUME NEW a \in Actors, EndSection(a) PROVE UNCHANGED Owner
  BY <1>16, <1>u DEF EndSection, Goto
<1>17. ASSUME NEW a \in Actors, ReadBack(a) PROVE UNCHANGED Owner
  BY <1>17, <1>u DEF ReadBack, Goto
<1>18. ASSUME NEW a \in Actors, LinkLock(a) PROVE Abstract!Acquire(a)
  <2>1. file[0] = NoToken
    BY <1>18 DEF LinkLock, Publish
  <2>2. Holder(a)'
    <3>1. pc'[a] = "held"
      BY <1>18 DEF LinkLock, Goto, TypeOK
    <3> QED BY <1>0, <3>1 DEF OwnerInv, SeatInv, Sections, Holder, Published
  <2>3. Owner' = a
    <3>1. \A b \in Actors : Holder(b)' => b = a
      <4>1. \A b \in Actors : Holder(b)' => own'[b] = file'[0] /\ own'[b][1] = b
        BY <1>0 DEF OwnerInv, Holder, Published
      <4> QED BY <2>2, <4>1
    <3>2. file'[0] # NoToken
      BY <2>2 DEF Holder, Published
    <3>3. (CHOOSE b \in Actors : Holder(b)') = a
      BY <2>2, <3>1
    <3> QED BY <2>2, <3>2, <3>3 DEF Owner
  <2> QED BY <2>1, <2>3, OwnerIsFree DEF Abstract!Acquire
<1>19. ASSUME NEW a \in Actors, LinkGuard(a) PROVE UNCHANGED Owner
  <2>0. level[a] \in Levels /\ level[a] + 1 # 0
    BY DEF TypeOK, Levels
  <2>1. own[a] = NoToken /\ level[a] + 1 # 0
    BY <1>19, <2>0 DEF LinkGuard, Goto, OwnerInv, Sections
  <2>2. file'[0] = file[0] /\ seat'[a] # 0
    BY <1>19, <1>t, <2>1 DEF LinkGuard, Publish, TypeOK
  <2>3. \A b \in Actors : Holder(b)' <=> Holder(b)
    BY <1>19, <2>1, <2>2 DEF LinkGuard, Publish, Holder, Published, TypeOK
  <2> QED BY <1>0, <2>2, <2>3, OwnerUnchanged
<1>20. ASSUME NEW a \in Actors, Rename(a) PROVE [Abstract!Next]_Owner
  <2>1. CASE level[a] = 0
    <3>1. file[0] # NoToken /\ \A b \in Actors : ~Holder(b)
      BY <1>20, <2>1 DEF Rename, Goto, ClaimInv, OwnerInv, Holder, Published
    <3>2. file'[0] = NoToken
      BY <1>20, <1>t, <2>1 DEF Rename
    <3> QED BY <3>1, <3>2, OwnerIsNobody DEF Owner, Abstract!Next, Abstract!Recover
  <2>2. CASE level[a] # 0
    <3>1. file'[0] = file[0] /\ UNCHANGED <<own, seat>>
      BY <1>20, <1>t, <2>2 DEF Rename, TypeOK
    <3> QED BY <1>0, <3>1, OwnerUnchanged DEF Holder, Published
  <2> QED BY <2>1, <2>2
<1>21. ASSUME NEW a \in Actors, LeaveChanged(a) PROVE UNCHANGED Owner
  BY <1>21 DEF LeaveChanged, OwnerInv, Sections
<1>22. ASSUME NEW a \in Actors, Unlink(a) \/ GiveUpRelease(a) PROVE [Abstract!Next]_Owner
  <2>1. own[a] # NoToken /\ file[seat[a]] = own[a] /\ seat[a] \in Levels
    BY <1>22 DEF Unlink, GiveUpRelease, OwnerInv, Sections, TypeOK
  <2>2. own' = [own EXCEPT ![a] = NoToken] /\ seat' = [seat EXCEPT ![a] = 0]
    BY <1>22 DEF Unlink, GiveUpRelease, Retire
  <2>3. CASE seat[a] = 0
    <3>1. Holder(a)
      BY <2>1, <2>3 DEF Holder, Published
    <3>2. Owner = a
      BY <3>1, OwnerIsHolder
    <3>3. CASE Unlink(a)
      <4>1. file'[0] = NoToken
        BY <1>t, <2>3, <3>3 DEF Unlink
      <4> QED BY <3>2, <4>1 DEF Owner, Abstract!Next, Abstract!Release
    <3>4. CASE GiveUpRelease(a)
      <4>1. file'[0] # NoToken
        BY <2>1, <2>3, <3>4 DEF GiveUpRelease
      <4>2. \A b \in Actors : ~Holder(b)'
        BY <2>1, <2>2, <2>3, <3>4, SeatsAreDistinct DEF GiveUpRelease, Holder, Published, TypeOK
      <4>3. Owner' = "orphaned"
        BY <4>1, <4>2 DEF Owner
      <4> QED BY <3>2, <4>3 DEF Abstract!Next, Abstract!Lose
    <3> QED BY <1>22, <3>3, <3>4
  <2>4. CASE seat[a] # 0
    <3>1. file'[0] = file[0]
      BY <1>22, <1>t, <2>1, <2>4 DEF Unlink, GiveUpRelease
    <3>2. \A b \in Actors : Holder(b)' <=> Holder(b)
      BY <2>2, <2>4, <3>1 DEF Holder, Published, TypeOK
    <3> QED BY <1>0, <3>1, <3>2, OwnerUnchanged
  <2> QED BY <2>3, <2>4
<1>23. ASSUME NEW p \in Procs, Crash(p) PROVE [Abstract!Next]_Owner
  <2>1. file' = file
    BY <1>23 DEF Crash
  <2>2. \A b \in Actors : Holder(b)' <=> Holder(b) /\ ProcOf[b] # p
    BY <1>23, <2>1 DEF Crash, Holder, Published
  <2>3. CASE \E a \in Actors : Holder(a) /\ ProcOf[a] = p
    <3>1. PICK a \in Actors : Holder(a) /\ ProcOf[a] = p
      BY <2>3
    <3>2. Owner = a
      BY <3>1, OwnerIsHolder
    <3>3. \A b \in Actors : ~Holder(b)'
      BY <2>2, <3>1, SeatsAreDistinct DEF Holder, Published
    <3>4. Owner' = "orphaned"
      BY <2>1, <3>1, <3>3 DEF Owner, Holder, Published
    <3> QED BY <3>2, <3>4 DEF Abstract!Next, Abstract!Lose
  <2>4. CASE ~ \E a \in Actors : Holder(a) /\ ProcOf[a] = p
    BY <1>0, <2>1, <2>2, <2>4, OwnerUnchanged
  <2> QED BY <2>3, <2>4
<1>24. ASSUME Age \/ OlderUnlinks \/ \E l \in Levels : OlderJudges(l) PROVE UNCHANGED Owner
  BY <1>24, <1>u DEF Age, OlderUnlinks, OlderJudges
<1>25. ASSUME NEW a \in Actors, Progress(a) \/ Start(a) \/ EndSection(a) \/ FailLink(a)
                               \/ FailReclaim(a) \/ GiveUpRelease(a)
       PROVE [Abstract!Next]_Owner
  BY <1>25, <1>1, <1>2, <1>3, <1>4, <1>5, <1>6, <1>7, <1>8, <1>9, <1>10, <1>11, <1>12, <1>13,
     <1>14, <1>15, <1>16, <1>17, <1>18, <1>19, <1>20, <1>21, <1>22
     DEF Progress, Reclaim, Abstract!Next
<1> QED BY <1>s, <1>23, <1>24, <1>25 DEF Next

\* The lock file is a lock whose owner may die: never two owners, and an orphaned
\* record is recovered before the lock is had again.
THEOREM FileLockImplementsCrashLock == ASSUME ~OlderBuild PROVE Spec => ImplementsCrashLock
<1>1. Init => Abstract!Init
  BY DEF Init, Abstract!Init, Owner, Holder, Published
<1>2. Inv /\ [Next]_vars => [Abstract!Next]_Owner
  BY StepsImplement
<1> QED BY <1>1, <1>2, Invariance, PTL DEF Spec, Abstract!Spec, ImplementsCrashLock
=============================================================================
