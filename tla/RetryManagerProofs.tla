-------------------------- MODULE RetryManagerProofs --------------------------
(***************************************************************************)
(* What the retry manager of RetryManager guarantees whatever its          *)
(* observers and finalizers call back, for any number of turns, retries    *)
(* and nested calls.  Inv says which calls in progress may still act on    *)
(* the manager (the current ones), which fiber and which claim each of     *)
(* them stands for, and what it owes the renderer.                         *)
(***************************************************************************)
EXTENDS RetryManager, SequenceTheorems, TLAPS

InProgress == 1..Len(calls)

\* A call in progress is the fiber's own, or one that retired a generation that
\* has no fiber yet.
WellFormed(f) ==
  /\ f.gen <= retryGeneration /\ f.fiber < f.gen
  /\ f.call = "fiber" =>
       /\ f.at \in {"claiming", "starting", "dropping", "telling", "finishing"}
       /\ fibers[f.gen] = IF f.at = "finishing" THEN "ended" ELSE "executing"
  /\ f.call # "fiber" =>
       /\ f.at \in {"retiring", "scheduling", "telling"}
       /\ fibers[f.gen] = "none"
  /\ f.at = "scheduling" => f.call = "failure"
  /\ f.tell => f.call \in {"abandon", "disable", "fiber"}

\* Calls nest in the order of their generations, on top of at most one fiber.
StackInv ==
  /\ \A i \in InProgress : WellFormed(calls[i])
  /\ \A i \in InProgress : calls[i].call = "fiber" => i = 1
  /\ \A i, j \in InProgress : i < j => calls[i].gen < calls[j].gen

\* What the call of the current generation may rely on.
Current(f) ==
  /\ f.call = "fiber" => retryFiber = f.gen
  /\ f.at = "starting" => retryOwnership = f.gen
  /\ f.call # "fiber" => retryFiber = None
  /\ f.at = "scheduling" => standing = f.gen /\ attempted /\ retryPending
  /\ f.call \in {"failure", "refusal"} => enabled

CurrentInv == \A i \in InProgress : calls[i].gen = retryGeneration => Current(calls[i])

\* A fiber that runs has its call in progress; one that waits is installed, or
\* about to be interrupted; the installed one was scheduled and is not retired.
FiberInv ==
  /\ \A g \in Generations : g > retryGeneration => fibers[g] = "none"
  /\ \A g \in Generations : fibers[g] = "executing" =>
       calls # <<>> /\ calls[1].call = "fiber" /\ calls[1].gen = g
  /\ \A g \in Generations : fibers[g] \in {"sleeping", "resending"} =>
       \/ retryFiber = g
       \/ \E i \in InProgress : calls[i].at = "retiring" /\ calls[i].fiber = g
  /\ retryFiber # None =>
       /\ retryFiber = retryGeneration /\ standing = retryFiber
       /\ enabled /\ attempted /\ fibers[retryFiber] # "none"

Scheduling == \E i \in InProgress : calls[i].at = "scheduling" /\ calls[i].gen = retryGeneration

PendingInv ==
  /\ retryPending <=> Scheduling \/ (retryFiber # None /\ fibers[retryFiber] = "sleeping")
  /\ pendingScheduledEvent = IF retryPending THEN retryGeneration ELSE None

\* One claim at most: of a fiber that runs, or of the installed one that awaits
\* its resend.
ClaimInv ==
  /\ \A g \in claims :
       /\ coordinatorRetry = g
       /\ fibers[g] = "executing" \/ (fibers[g] = "resending" /\ retryFiber = g)
  /\ coordinatorRetry # None => coordinatorRetry \in claims
  /\ retryOwnership # None => retryOwnership \in claims
  /\ retryFiber # None /\ fibers[retryFiber] = "resending" => retryOwnership = retryFiber
  /\ \A i \in InProgress : calls[i].at = "claiming" =>
       calls[i].gen \in claims /\ retryOwnership = None

\* A call that will tell the renderer that a retry is abandoned.
WillTell(f) == f.at = "retiring" /\ f.tell

\* A current call that will show the renderer another state of the retry.
WillShow(f) ==
  /\ f.gen = retryGeneration
  /\ \/ f.at = "retiring" /\ f.call \in {"failure", "refusal"}
     \/ f.at = "claiming"

ShownInv ==
  /\ shown \in {"scheduled", "starting"} =>
       attempted \/ \E i \in InProgress : WillTell(calls[i])
  /\ shown = "scheduled" =>
       retryPending \/ \E i \in InProgress : WillTell(calls[i]) \/ WillShow(calls[i])

\* A stream that a Stop found started under fewer Stops.
StopInv ==
  /\ \A t \in Turns : turns[t].stops <= autoRetryStops
  /\ \A t \in stopped : turns[t].stops < autoRetryStops /\ turns[t].at # "idle"

\* What the manager's variables range over, and the session's.
ManagerTypes ==
  /\ enabled \in BOOLEAN /\ attempted \in BOOLEAN /\ retryPending \in BOOLEAN
  /\ retryGeneration \in Generations \cup {None}
  /\ retryFiber \in Generations \cup {None}
  /\ pendingScheduledEvent \in Generations \cup {None}
  /\ retryOwnership \in Generations \cup {None}
  /\ coordinatorRetry \in Generations \cup {None}
  /\ standing \in Generations \cup {None}
  /\ fibers \in [Generations -> {"none", "sleeping", "executing", "resending", "ended"}]
  /\ claims \subseteq Generations
  /\ calls \in Seq(Frames) /\ Len(calls) \in 0..MaxDepth
  /\ shown \in {"nothing", "scheduled", "starting", "abandoned"}

SessionTypes ==
  /\ closing \in BOOLEAN
  /\ resends \in [Generations -> {"none", "resending", "failed", "settled"}]
  /\ turns \in [Turns -> [at : {"idle", "streaming", "failed", "handled"},
                          stops : Nat, gen : Generations \cup {None}]]
  /\ autoRetryStops \in Nat
  /\ stopped \subseteq Turns

ManagerInv ==
  /\ ManagerTypes /\ StackInv /\ CurrentInv /\ FiberInv
  /\ PendingInv /\ ClaimInv /\ ShownInv

SessionInv == SessionTypes /\ StopInv

-----------------------------------------------------------------------------
(***************************************************************************)
(* The stack of calls                                                      *)
(***************************************************************************)

\* The type invariant is the manager's part of it and the session's.
LEMMA Typed == TypeOK <=> ManagerTypes /\ SessionTypes
BY DEF TypeOK, ManagerTypes, SessionTypes

\* The innermost call is the last of a stack that is not empty.
LEMMA TopIsLast ==
  ASSUME ManagerTypes, ~Idle
  PROVE  /\ Len(calls) \in Nat \ {0} /\ Len(calls) \in InProgress
         /\ Top = calls[Len(calls)] /\ Top \in Frames
BY DEF ManagerTypes, Idle, Top, Last, InProgress

\* Returning leaves the calls below as they are.
LEMMA Popped ==
  ASSUME ManagerTypes, ~Idle
  PROVE  /\ Front(calls) \in Seq(Frames)
         /\ Len(Front(calls)) = Len(calls) - 1
         /\ \A i \in 1..Len(calls) - 1 : Front(calls)[i] = calls[i]
<1>1. Len(calls) \in Nat \ {0}
  BY TopIsLast
<1> DEFINE n == Len(calls) - 1
<1>2. /\ 1 \in Int /\ n \in Nat /\ n \in Int
      /\ \A i \in 1..n : calls[i] \in Frames
  BY <1>1 DEF ManagerTypes
<1> HIDE DEF n
<1>3. /\ SubSeq(calls, 1, n) \in Seq(Frames)
      /\ Len(SubSeq(calls, 1, n)) = IF 1 <= n THEN n - 1 + 1 ELSE 0
      /\ \A i \in 1..(n - 1 + 1) : SubSeq(calls, 1, n)[i] = calls[1 + i - 1]
  BY <1>2, SubSeqProperties
<1>4. Len(SubSeq(calls, 1, n)) = n
  BY <1>2, <1>3
<1>5. \A i \in 1..n : SubSeq(calls, 1, n)[i] = calls[i]
  <2> SUFFICES ASSUME NEW i \in 1..n PROVE SubSeq(calls, 1, n)[i] = calls[i]
    OBVIOUS
  <2>1. i \in 1..(n - 1 + 1) /\ 1 + i - 1 = i
    BY <1>2
  <2>2. QED
    BY <1>3, <2>1
<1>6. QED
  BY <1>3, <1>4, <1>5 DEF Front, n

\* As does a call on top of them.
LEMMA Pushed ==
  ASSUME NEW s \in Seq(Frames), NEW f \in Frames
  PROVE  /\ Append(s, f) \in Seq(Frames) /\ Len(s) \in Nat
         /\ Len(Append(s, f)) = Len(s) + 1
         /\ \A i \in 1..Len(s) : Append(s, f)[i] = s[i]
         /\ Append(s, f)[Len(s) + 1] = f
BY AppendProperties, LenProperties

-----------------------------------------------------------------------------
(***************************************************************************)
(* A call retires the current retry                                        *)
(***************************************************************************)

\* Whatever retires the current generation, from outside, from within a call, or
\* in place of a scheduling that threw, leaves the invariant.
LEMMA RetiringKeeps ==
  ASSUME ManagerInv, NEW call \in Calls, NEW outer,
         \/ outer = calls /\ Len(calls) < MaxDepth
         \/ ~Idle /\ Top.at = "scheduling" /\ outer = Front(calls),
         Retires(call, outer),
         call \in {"failure", "refusal"} => enabled /\ enabled',
         enabled' \in BOOLEAN,
         shown' \in {shown, "nothing"}, call = "cancel" => shown' = "nothing"
  PROVE  ManagerInv'
<1> USE DEF None
<1> PICK f : f = Frame(call, retryGeneration + 1)
  OBVIOUS
<1> PICK n : n = Len(outer)
  OBVIOUS
<1>1. /\ outer \in Seq(Frames) /\ n \in Nat /\ n < MaxDepth /\ n <= Len(calls)
      /\ Len(calls) \in Nat
      /\ \A i \in 1..n : outer[i] = calls[i]
      /\ \A i \in InProgress : i > n => calls[i].at = "scheduling" /\ i = n + 1 /\ n + 1 = Len(calls)
  <2>1. CASE outer = calls
    <3>1. calls \in Seq(Frames) /\ Len(calls) \in 0..MaxDepth /\ MaxDepth \in Nat
      BY BoundsAreNatural DEF ManagerInv, ManagerTypes
    <3>2. Len(calls) \in Nat /\ Len(calls) < MaxDepth
      BY <2>1, <3>1, TopIsLast, Popped DEF ManagerInv
    <3>3. QED
      BY <2>1, <3>1, <3>2 DEF InProgress
  <2>2. CASE ~Idle /\ Top.at = "scheduling" /\ outer = Front(calls)
    <3>1. Len(calls) \in 0..MaxDepth /\ MaxDepth \in Nat
      BY BoundsAreNatural DEF ManagerInv, ManagerTypes
    <3>2. QED
      BY <2>2, <3>1, Popped, TopIsLast DEF ManagerInv, InProgress
  <2>3. QED
    BY <2>1, <2>2
<1>2. /\ retryGeneration \in Nat /\ retryGeneration' = retryGeneration + 1
      /\ retryGeneration' \in Generations
  BY BoundsAreNatural DEF ManagerInv, ManagerTypes, Retires, Detaches, Generations
<1>3. /\ f \in Frames /\ f.call = call /\ f.gen = retryGeneration' /\ f.at = "retiring"
      /\ f.fiber = retryFiber /\ f.tell = Reports(call)
  <2>1. Reports(call) \in BOOLEAN /\ (retryOwnership \in claims) \in BOOLEAN
    BY DEF Reports
  <2>2. retryFiber \in Generations \cup {None}
    BY DEF ManagerInv, ManagerTypes
  <2>3. QED
    BY <1>2, <2>1, <2>2 DEF Frame, Frames
<1>4. /\ calls' \in Seq(Frames) /\ Len(calls') = n + 1
      /\ \A i \in 1..n : calls'[i] = calls[i]
      /\ calls'[n + 1] = f
  <2>1. calls' = Append(outer, f)
    BY DEF Retires
  <2>2. QED
    BY <1>1, <1>3, <2>1, Pushed
<1>5. /\ retryFiber' = None /\ retryOwnership' = None /\ retryPending' = FALSE
      /\ pendingScheduledEvent' = None /\ standing' = None /\ fibers' = fibers
      /\ claims' = claims \ {retryOwnership}
      /\ coordinatorRetry' = IF retryOwnership \in claims /\ coordinatorRetry = retryOwnership
                             THEN None ELSE coordinatorRetry
  BY DEF Retires, Detaches, Dispose
<1>6. attempted' = IF call \in {"failure", "refusal"} THEN attempted ELSE FALSE
  BY DEF Retires, Detaches
<1>7. InProgress' = 1..(n + 1) /\ InProgress = 1..Len(calls)
  BY <1>4 DEF InProgress
<1>8. ManagerTypes'
  <2>1. attempted' \in BOOLEAN
    BY <1>6 DEF ManagerInv, ManagerTypes
  <2>2. Len(calls)' \in 0..MaxDepth
    BY <1>1, <1>4, BoundsAreNatural
  <2>3. retryGeneration' \in Generations \cup {None}
    BY <1>2
  <2>4. coordinatorRetry' \in Generations \cup {None} /\ claims' \subseteq Generations
    BY <1>5 DEF ManagerInv, ManagerTypes
  <2>5. shown' \in {"nothing", "scheduled", "starting", "abandoned"}
    BY DEF ManagerInv, ManagerTypes
  <2>6. calls' \in Seq(Frames)
    BY <1>4
  <2>7. fibers' \in [Generations -> {"none", "sleeping", "executing", "resending", "ended"}]
    BY <1>5 DEF ManagerInv, ManagerTypes
  <2>8. QED
    BY <1>5, <2>1, <2>2, <2>3, <2>4, <2>5, <2>6, <2>7 DEF ManagerTypes
<1>9. \A i \in 1..n : calls[i].gen \in Nat /\ calls[i].gen < retryGeneration' /\ calls'[i] = calls[i]
  <2>1. \A i \in 1..n : calls[i] \in Frames
    BY <1>1, <1>4 DEF ManagerInv, ManagerTypes
  <2>2. \A i \in 1..n : calls[i].gen \in Nat /\ calls[i].gen <= retryGeneration
    BY <1>1, <1>7, <2>1 DEF ManagerInv, StackInv, WellFormed, Frames, Generations
  <2>3. QED
    BY <1>2, <1>4, <2>2
<1>10. StackInv'
  <2>1. \A i \in 1..n : WellFormed(calls[i])'
    BY <1>1, <1>2, <1>5, <1>7, <1>9 DEF ManagerInv, StackInv, WellFormed
  <2>2. WellFormed(f)'
    <3>1. f.gen <= retryGeneration' /\ f.fiber < f.gen
      BY <1>2, <1>3 DEF ManagerInv, FiberInv
    <3>2. fibers'[f.gen] = "none"
      BY <1>2, <1>3, <1>5 DEF ManagerInv, FiberInv
    <3>3. f.tell => f.call \in {"abandon", "disable", "fiber"}
      BY <1>3 DEF Reports
    <3>4. QED
      BY <1>3, <3>1, <3>2, <3>3 DEF WellFormed, Calls
  <2>3. \A i \in InProgress' : WellFormed(calls[i])'
    BY <1>1, <1>4, <1>7, <2>1, <2>2
  <2>4. \A i \in InProgress' : calls'[i].call = "fiber" => i = 1
    BY <1>1, <1>3, <1>4, <1>7 DEF ManagerInv, StackInv, Calls
  <2>5. \A i, j \in InProgress' : i < j => calls'[i].gen < calls'[j].gen
    BY <1>1, <1>3, <1>4, <1>7, <1>9 DEF ManagerInv, StackInv
  <2>6. QED
    BY <2>3, <2>4, <2>5 DEF StackInv
<1>11. CurrentInv'
  <2>1. Current(f)'
    BY <1>3, <1>5 DEF Current, Calls
  <2>2. QED
    BY <1>1, <1>2, <1>4, <1>7, <1>9, <2>1 DEF CurrentInv
<1>12. FiberInv'
  <2>1. \A g \in Generations : g > retryGeneration' => fibers'[g] = "none"
    BY <1>2, <1>5 DEF ManagerInv, FiberInv, Generations
  <2>2. \A g \in Generations : fibers'[g] = "executing" =>
          calls' # <<>> /\ calls'[1].call = "fiber" /\ calls'[1].gen = g
    <3> SUFFICES ASSUME NEW g \in Generations, fibers[g] = "executing"
                 PROVE  calls' # <<>> /\ calls'[1].call = "fiber" /\ calls'[1].gen = g
      BY <1>5
    <3>1. calls # <<>> /\ calls[1].call = "fiber" /\ calls[1].gen = g
      BY DEF ManagerInv, FiberInv
    <3>2. 1 \in InProgress /\ calls[1].at # "scheduling"
      BY <1>1, <1>7, <3>1, EmptySeq DEF ManagerInv, StackInv, WellFormed, ManagerTypes
    <3>3. 1 \in 1..n
      BY <1>1, <1>7, <3>2
    <3>4. QED
      BY <1>1, <1>4, <3>1, <3>3
  <2>3. \A g \in Generations : fibers'[g] \in {"sleeping", "resending"} =>
          \/ retryFiber' = g
          \/ \E i \in InProgress' : calls'[i].at = "retiring" /\ calls'[i].fiber = g
    <3> SUFFICES ASSUME NEW g \in Generations, fibers[g] \in {"sleeping", "resending"}
                 PROVE  \E i \in InProgress' : calls'[i].at = "retiring" /\ calls'[i].fiber = g
      BY <1>5
    <3>1. CASE retryFiber = g
      BY <1>1, <1>3, <1>4, <1>7, <3>1
    <3>2. CASE \E i \in InProgress : calls[i].at = "retiring" /\ calls[i].fiber = g
      BY <1>1, <1>4, <1>7, <3>2
    <3>3. QED
      BY <3>1, <3>2 DEF ManagerInv, FiberInv
  <2>4. QED
    BY <1>5, <2>1, <2>2, <2>3 DEF FiberInv
<1>13. PendingInv'
  <2>1. ~Scheduling'
    BY <1>1, <1>2, <1>3, <1>4, <1>7, <1>9 DEF Scheduling
  <2>2. QED
    BY <1>5, <2>1 DEF PendingInv
<1>14. ClaimInv'
  <2>1. \A g \in claims' :
          /\ coordinatorRetry' = g
          /\ fibers'[g] = "executing" \/ (fibers'[g] = "resending" /\ retryFiber' = g)
    BY <1>5 DEF ManagerInv, ManagerTypes, ClaimInv, Generations
  <2>2. coordinatorRetry' # None => coordinatorRetry' \in claims'
    BY <1>5 DEF ManagerInv, ClaimInv
  <2>3. \A i \in InProgress' : calls'[i].at = "claiming" => calls'[i].gen \in claims'
    <3> SUFFICES ASSUME NEW i \in InProgress', calls'[i].at = "claiming"
                 PROVE  calls'[i].gen \in claims'
      OBVIOUS
    <3>1. i \in 1..n /\ i \in InProgress /\ calls'[i] = calls[i]
      BY <1>1, <1>3, <1>4, <1>7
    <3>2. calls[i].gen \in claims /\ retryOwnership = None
      BY <3>1 DEF ManagerInv, ClaimInv
    <3>3. None \notin claims
      BY DEF ManagerInv, ManagerTypes, Generations
    <3>4. QED
      BY <1>5, <3>1, <3>2, <3>3
  <2>4. QED
    BY <1>5, <2>1, <2>2, <2>3 DEF ClaimInv
<1>15. ShownInv'
  <2>1. \A i \in InProgress : WillTell(calls[i]) => i \in InProgress' /\ WillTell(calls[i])'
    BY <1>1, <1>4, <1>7 DEF WillTell
  <2>2. n + 1 \in InProgress' /\ calls'[n + 1] = f
    BY <1>1, <1>4, <1>7
  <2>3. shown' \in {"scheduled", "starting"} =>
          attempted' \/ \E i \in InProgress' : WillTell(calls[i])'
    <3> SUFFICES ASSUME shown' \in {"scheduled", "starting"}, ~attempted'
                 PROVE  \E i \in InProgress' : WillTell(calls[i])'
      OBVIOUS
    <3>1. attempted \/ \E i \in InProgress : WillTell(calls[i])
      BY DEF ManagerInv, ShownInv
    <3>2. CASE attempted
      <4>1. call \in {"abandon", "disable"}
        BY <1>6, <3>2 DEF Calls
      <4>2. WillTell(calls[n + 1])'
        BY <1>3, <2>2, <3>2, <4>1 DEF WillTell, Reports
      <4>3. QED
        BY <2>2, <4>2
    <3>3. QED
      BY <2>1, <3>1, <3>2
  <2>4. shown' = "scheduled" =>
          \E i \in InProgress' : WillTell(calls[i])' \/ WillShow(calls[i])'
    <3>1. CASE call \in {"failure", "refusal"}
      BY <1>3, <2>2, <3>1 DEF WillShow
    <3>2. CASE call \notin {"failure", "refusal"}
      BY <1>6, <2>3, <3>2
    <3>3. QED
      BY <3>1, <3>2
  <2>5. QED
    BY <2>3, <2>4 DEF ShownInv
<1>16. QED
  BY <1>8, <1>10, <1>11, <1>12, <1>13, <1>14, <1>15 DEF ManagerInv

-----------------------------------------------------------------------------
(***************************************************************************)
(* A retired call goes on                                                  *)
(***************************************************************************)

\* Going on replaces the innermost call.
LEMMA Replaced ==
  ASSUME ManagerTypes, ~Idle, NEW f \in Frames
  PROVE  /\ Append(Front(calls), f) \in Seq(Frames)
         /\ Len(Append(Front(calls), f)) = Len(calls)
         /\ \A i \in 1..Len(calls) - 1 : Append(Front(calls), f)[i] = calls[i]
         /\ Append(Front(calls), f)[Len(calls)] = f
<1> PICK s : s = Front(calls)
  OBVIOUS
<1> PICK n : n = Len(calls)
  OBVIOUS
<1>1. n \in Nat \ {0}
  BY TopIsLast
<1>2. s \in Seq(Frames) /\ Len(s) = n - 1 /\ \A i \in 1..n - 1 : s[i] = calls[i]
  BY Popped
<1>3. /\ Append(s, f) \in Seq(Frames) /\ Len(Append(s, f)) = Len(s) + 1
      /\ \A i \in 1..Len(s) : Append(s, f)[i] = s[i]
      /\ Append(s, f)[Len(s) + 1] = f
  BY <1>2, Pushed
<1>4. QED
  BY <1>1, <1>2, <1>3

\* A call interrupts the fiber it detached and no other, and the claim of that one
\* was dropped before.
LEMMA InterruptsOnlyItsOwn ==
  ASSUME ManagerInv, ~Idle, Top.at = "retiring", Interrupts(Top.fiber)
  PROVE  /\ UNCHANGED <<claims, coordinatorRetry>>
         /\ fibers' \in [Generations -> {"none", "sleeping", "executing", "resending", "ended"}]
         /\ \A g \in Generations :
              IF g = Top.fiber /\ fibers[g] \in {"sleeping", "resending"}
              THEN fibers'[g] = "ended" ELSE fibers'[g] = fibers[g]
         /\ Top.fiber # retryGeneration
<1> USE DEF None
<1> PICK x : x = Top.fiber
  OBVIOUS
<1>1. /\ x \in Generations \cup {None} /\ Top.gen \in Generations
      /\ x < Top.gen /\ Top.gen <= retryGeneration
  BY TopIsLast DEF ManagerInv, StackInv, WellFormed, Frames
<1>2. x # retryGeneration /\ retryGeneration \in Nat
  BY <1>1 DEF ManagerInv, ManagerTypes, Generations
<1>3. x # None => retryFiber # x
  BY <1>2 DEF ManagerInv, FiberInv
<1>4. CASE x # None /\ fibers[x] \in {"sleeping", "resending"}
  <2>1. x \notin claims /\ x \in Generations
    BY <1>1, <1>3, <1>4 DEF ManagerInv, ClaimInv
  <2>2. claims' = claims \ {x} /\ coordinatorRetry' = coordinatorRetry
    BY <1>4, <2>1 DEF Interrupts, Dispose
  <2>3. fibers' = [fibers EXCEPT ![x] = "ended"]
    BY <1>4 DEF Interrupts
  <2>4. QED
    BY <1>2, <1>4, <2>1, <2>2, <2>3 DEF ManagerInv, ManagerTypes
<1>5. CASE ~(x # None /\ fibers[x] \in {"sleeping", "resending"})
  <2>1. fibers' = fibers /\ claims' = claims /\ coordinatorRetry' = coordinatorRetry
    BY <1>5 DEF Interrupts
  <2>2. \A g \in Generations : g # None
    BY DEF Generations
  <2>3. QED
    BY <1>2, <1>5, <2>1, <2>2 DEF ManagerInv, ManagerTypes
<1>6. QED
  BY <1>4, <1>5

\* A call that has dropped the claim schedules its retry, tells of an abandonment,
\* or returns.
LEMMA RetiredKeeps ==
  ASSUME ManagerInv, Retired
  PROVE  ManagerInv'
<1> USE DEF None
<1> PICK f : f = Top
  OBVIOUS
<1> PICK n : n = Len(calls)
  OBVIOUS
<1>1. /\ ~Idle /\ f.at = "retiring"
      /\ UNCHANGED <<enabled, retryGeneration, retryFiber, retryOwnership>>
  BY DEF Retired
<1>2. /\ n \in Nat \ {0} /\ n \in InProgress /\ InProgress = 1..n
      /\ f = calls[n] /\ f \in Frames /\ f.call # "fiber" /\ WellFormed(f)
      /\ f.gen \in Nat /\ retryGeneration \in Nat
  <2>1. n \in Nat \ {0} /\ n \in InProgress /\ InProgress = 1..n /\ f = calls[n] /\ f \in Frames
    BY <1>1, TopIsLast DEF ManagerInv, InProgress
  <2>2. WellFormed(f)
    BY <2>1 DEF ManagerInv, StackInv
  <2>3. QED
    BY <1>1, <2>1, <2>2 DEF WellFormed, Frames, Generations, ManagerInv, ManagerTypes
<1>3. /\ UNCHANGED <<claims, coordinatorRetry>>
      /\ fibers' \in [Generations -> {"none", "sleeping", "executing", "resending", "ended"}]
      /\ \A g \in Generations :
           IF g = f.fiber /\ fibers[g] \in {"sleeping", "resending"}
           THEN fibers'[g] = "ended" ELSE fibers'[g] = fibers[g]
      /\ f.fiber # retryGeneration
  BY <1>1, InterruptsOnlyItsOwn DEF Retired
<1>4. /\ calls' \in Seq(Frames) /\ Len(calls') \in {n - 1, n}
      /\ \A i \in 1..n - 1 : calls'[i] = calls[i]
      /\ Len(calls') = n - 1 =>
           /\ ~f.tell /\ (f.call \in {"failure", "refusal"} => f.gen # retryGeneration)
           /\ UNCHANGED <<attempted, pendingScheduledEvent, retryPending, standing, shown>>
      /\ Len(calls') = n =>
           /\ calls'[n].gen = f.gen /\ calls'[n].call = f.call /\ calls'[n].fiber = f.fiber
           /\ calls'[n].tell = f.tell
           /\ \/ /\ calls'[n].at = "scheduling"
                 /\ f.call = "failure" /\ f.gen = retryGeneration
                 /\ attempted' = TRUE /\ pendingScheduledEvent' = f.gen
                 /\ retryPending' = TRUE /\ shown' = "scheduled" /\ standing' = f.gen
              \/ /\ calls'[n].at = "telling" /\ shown' = "abandoned"
                 /\ UNCHANGED <<attempted, pendingScheduledEvent, retryPending, standing>>
  <2>1. ASSUME HasNothingToTell
        PROVE  /\ calls' \in Seq(Frames) /\ Len(calls') = n - 1
               /\ \A i \in 1..n - 1 : calls'[i] = calls[i]
               /\ ~f.tell /\ (f.call \in {"failure", "refusal"} => f.gen # retryGeneration)
               /\ UNCHANGED <<attempted, pendingScheduledEvent, retryPending, standing, shown>>
    BY <1>1, <2>1, Popped DEF HasNothingToTell, Returns, IsCurrent, ManagerInv
  <2>2. ASSUME NEW at \in {"scheduling", "telling"}, Proceeds(at)
        PROVE  /\ calls' \in Seq(Frames) /\ Len(calls') = n
               /\ \A i \in 1..n - 1 : calls'[i] = calls[i]
               /\ calls'[n].gen = f.gen /\ calls'[n].call = f.call /\ calls'[n].fiber = f.fiber
               /\ calls'[n].tell = f.tell /\ calls'[n].at = at
    <3> PICK next : next = [f EXCEPT !.at = at, !.out = TRUE]
      OBVIOUS
    <3>1. /\ next \in Frames /\ next.gen = f.gen /\ next.call = f.call /\ next.fiber = f.fiber
          /\ next.tell = f.tell /\ next.at = at
      BY <1>2 DEF Frames
    <3>2. calls' = Append(Front(calls), next)
      BY <2>2 DEF Proceeds
    <3>3. QED
      BY <1>1, <3>1, <3>2, Replaced DEF ManagerInv
  <2>3. CASE Schedules
    <3>1. /\ Proceeds("scheduling") /\ f.call = "failure" /\ f.gen = retryGeneration
          /\ attempted' = TRUE /\ pendingScheduledEvent' = f.gen
          /\ retryPending' = TRUE /\ shown' = "scheduled" /\ standing' = f.gen
      BY <2>3 DEF Schedules, IsCurrent
    <3>2. /\ calls' \in Seq(Frames) /\ Len(calls') = n
          /\ \A i \in 1..n - 1 : calls'[i] = calls[i]
          /\ calls'[n].gen = f.gen /\ calls'[n].call = f.call /\ calls'[n].fiber = f.fiber
          /\ calls'[n].tell = f.tell /\ calls'[n].at = "scheduling"
      BY <2>2, <3>1
    <3>3. QED
      BY <1>2, <3>1, <3>2
  <2>4. CASE Tells
    <3>1. /\ Proceeds("telling") /\ shown' = "abandoned"
          /\ UNCHANGED <<attempted, pendingScheduledEvent, retryPending, standing>>
      BY <2>4 DEF Tells
    <3>2. /\ calls' \in Seq(Frames) /\ Len(calls') = n
          /\ \A i \in 1..n - 1 : calls'[i] = calls[i]
          /\ calls'[n].gen = f.gen /\ calls'[n].call = f.call /\ calls'[n].fiber = f.fiber
          /\ calls'[n].tell = f.tell /\ calls'[n].at = "telling"
      BY <2>2, <3>1
    <3>3. QED
      BY <1>2, <3>1, <3>2
  <2>5. CASE HasNothingToTell
    <3>1. Len(calls') # n
      BY <1>2, <2>1, <2>5
    <3>2. QED
      BY <2>1, <2>5, <3>1
  <2>6. QED
    BY <2>3, <2>4, <2>5 DEF Retired
<1>5. ManagerTypes'
  <2>1. Len(calls)' \in 0..MaxDepth
    BY <1>2, <1>4, BoundsAreNatural DEF ManagerInv, ManagerTypes
  <2>2. /\ attempted' \in BOOLEAN /\ retryPending' \in BOOLEAN
        /\ pendingScheduledEvent' \in Generations \cup {None} /\ standing' \in Generations \cup {None}
        /\ shown' \in {"nothing", "scheduled", "starting", "abandoned"}
    BY <1>2, <1>4 DEF ManagerInv, ManagerTypes, Frames
  <2>3. QED
    BY <1>1, <1>3, <1>4, <2>1, <2>2 DEF ManagerInv, ManagerTypes
<1>6. InProgress' = 1..Len(calls') /\ 1..n - 1 \subseteq InProgress'
  BY <1>2, <1>4 DEF InProgress
<1>7. \A i \in InProgress' : i \in 1..n - 1 \/ (i = n /\ Len(calls') = n)
  BY <1>2, <1>4, <1>6
<1>8. \A i \in InProgress' : /\ calls'[i].gen = calls[i].gen /\ calls'[i].call = calls[i].call
                             /\ calls'[i].fiber = calls[i].fiber /\ calls'[i].tell = calls[i].tell
                             /\ i \in InProgress
  BY <1>2, <1>4, <1>7
<1>9. StackInv'
  <2>1. \A i \in InProgress' : WellFormed(calls[i])'
    <3> SUFFICES ASSUME NEW i \in InProgress' PROVE WellFormed(calls[i])'
      OBVIOUS
    <3>1. WellFormed(calls[i]) /\ calls[i] \in Frames
      BY <1>8 DEF ManagerInv, StackInv, ManagerTypes, InProgress
    <3>2. calls[i].gen \in Generations /\ fibers[calls[i].gen] \notin {"sleeping", "resending"}
      BY <3>1 DEF WellFormed, Frames
    <3>3. fibers'[calls[i].gen] = fibers[calls[i].gen]
      BY <1>3, <3>2
    <3>4. CASE i \in 1..n - 1
      BY <1>1, <1>4, <3>1, <3>3, <3>4 DEF WellFormed
    <3>5. CASE i = n /\ Len(calls') = n
      BY <1>1, <1>2, <1>4, <3>1, <3>3, <3>5 DEF WellFormed
    <3>6. QED
      BY <1>7, <3>4, <3>5
  <2>2. QED
    BY <1>8, <2>1 DEF ManagerInv, StackInv
<1>10. CurrentInv'
  <2> SUFFICES ASSUME NEW i \in InProgress', calls'[i].gen = retryGeneration
               PROVE  Current(calls[i])'
    BY <1>1 DEF CurrentInv
  <2>1. Current(calls[i])
    BY <1>8 DEF ManagerInv, CurrentInv
  <2>2. CASE i \in 1..n - 1
    <3>1. calls[i].gen < f.gen
      BY <1>2, <2>2 DEF ManagerInv, StackInv
    <3>2. QED
      BY <1>2, <1>8, <3>1 DEF WellFormed, ManagerInv, ManagerTypes
  <2>3. CASE i = n /\ Len(calls') = n
    BY <1>1, <1>2, <1>4, <2>1, <2>3 DEF Current
  <2>4. QED
    BY <1>7, <2>2, <2>3
<1>11. FiberInv'
  <2>1. \A g \in Generations : g > retryGeneration' => fibers'[g] = "none"
    BY <1>1, <1>3 DEF ManagerInv, FiberInv
  <2>2. \A g \in Generations : fibers'[g] = "executing" =>
          calls' # <<>> /\ calls'[1].call = "fiber" /\ calls'[1].gen = g
    <3> SUFFICES ASSUME NEW g \in Generations, fibers'[g] = "executing"
                 PROVE  calls' # <<>> /\ calls'[1].call = "fiber" /\ calls'[1].gen = g
      OBVIOUS
    <3>1. fibers[g] = "executing"
      BY <1>3
    <3>2. calls # <<>> /\ calls[1].call = "fiber" /\ calls[1].gen = g
      BY <3>1 DEF ManagerInv, FiberInv
    <3>3. 1 \in 1..n - 1
      BY <1>2, <3>2
    <3>4. QED
      BY <1>4, <1>6, <3>2, <3>3
  <2>3. \A g \in Generations : fibers'[g] \in {"sleeping", "resending"} =>
          \/ retryFiber' = g
          \/ \E i \in InProgress' : calls'[i].at = "retiring" /\ calls'[i].fiber = g
    <3> SUFFICES ASSUME NEW g \in Generations, fibers'[g] \in {"sleeping", "resending"}, retryFiber # g
                 PROVE  \E i \in InProgress' : calls'[i].at = "retiring" /\ calls'[i].fiber = g
      BY <1>1
    <3>1. fibers[g] \in {"sleeping", "resending"} /\ g # f.fiber
      BY <1>3
    <3>2. PICK i \in InProgress : calls[i].at = "retiring" /\ calls[i].fiber = g
      BY <3>1 DEF ManagerInv, FiberInv
    <3>3. i \in 1..n - 1
      BY <1>2, <3>1, <3>2
    <3>4. QED
      BY <1>4, <1>6, <3>2, <3>3
  <2>4. retryFiber' # None =>
          /\ retryFiber' = retryGeneration' /\ standing' = retryFiber'
          /\ enabled' /\ attempted' /\ fibers'[retryFiber'] # "none"
    <3> SUFFICES ASSUME retryFiber # None
                 PROVE  /\ retryFiber = retryGeneration /\ standing' = retryFiber
                        /\ enabled /\ attempted' /\ fibers'[retryFiber] # "none"
      BY <1>1
    <3>1. /\ retryFiber = retryGeneration /\ standing = retryFiber
          /\ enabled /\ attempted /\ fibers[retryFiber] # "none" /\ retryFiber \in Generations
      BY DEF ManagerInv, FiberInv, ManagerTypes
    <3>2. f.gen # retryGeneration
      BY <1>2 DEF ManagerInv, CurrentInv, Current
    <3>3. attempted' = attempted /\ standing' = standing
      BY <1>2, <1>4, <3>2
    <3>4. QED
      BY <1>3, <3>1, <3>3
  <2>5. QED
    BY <2>1, <2>2, <2>3, <2>4 DEF FiberInv
<1>12. retryFiber # None => fibers'[retryFiber] = fibers[retryFiber]
  BY <1>3 DEF ManagerInv, FiberInv, ManagerTypes
<1>13. PendingInv'
  <2>1. CASE Len(calls') = n /\ calls'[n].at = "scheduling"
    <3>1. Scheduling'
      BY <1>1, <1>2, <1>4, <1>6, <2>1 DEF Scheduling
    <3>2. QED
      BY <1>1, <1>4, <2>1, <3>1 DEF PendingInv
  <2>2. CASE ~(Len(calls') = n /\ calls'[n].at = "scheduling")
    <3>1. Scheduling' => Scheduling
      BY <1>1, <1>2, <1>4, <1>7, <1>8, <2>2 DEF Scheduling
    <3>2. Scheduling => Scheduling'
      <4> SUFFICES ASSUME NEW i \in InProgress, calls[i].at = "scheduling", calls[i].gen = retryGeneration
                   PROVE  Scheduling'
        BY DEF Scheduling
      <4>1. i \in 1..n - 1
        BY <1>1, <1>2
      <4>2. QED
        BY <1>1, <1>4, <1>6, <4>1 DEF Scheduling
    <3>3. UNCHANGED <<pendingScheduledEvent, retryPending>>
      BY <1>2, <1>4, <2>2
    <3>4. QED
      BY <1>1, <1>12, <3>1, <3>2, <3>3 DEF ManagerInv, PendingInv
  <2>3. QED
    BY <2>1, <2>2
<1>14. ClaimInv'
  <2>1. \A g \in claims : fibers'[g] = fibers[g]
    <3> SUFFICES ASSUME NEW g \in claims PROVE fibers'[g] = fibers[g]
      OBVIOUS
    <3>1. g \in Generations /\ g # None
      BY DEF ManagerInv, ManagerTypes, Generations
    <3>2. fibers[g] = "executing" \/ g = retryFiber
      BY DEF ManagerInv, ClaimInv
    <3>3. g = f.fiber => fibers[g] = "executing"
      BY <1>3, <3>1, <3>2 DEF ManagerInv, FiberInv
    <3>4. QED
      BY <1>3, <3>1, <3>3
  <2>2. \A i \in InProgress' : calls'[i].at = "claiming" =>
          calls'[i].gen \in claims /\ retryOwnership = None
    BY <1>2, <1>4, <1>7, <1>8 DEF ManagerInv, ClaimInv
  <2>3. QED
    BY <1>1, <1>3, <1>12, <2>1, <2>2 DEF ManagerInv, ClaimInv
<1>15. ShownInv'
  <2>1. CASE Len(calls') = n
    BY <1>4, <2>1 DEF ShownInv
  <2>2. CASE Len(calls') = n - 1
    <3>1. ~WillTell(f) /\ ~WillShow(f)
      BY <1>1, <1>2, <1>4, <2>2 DEF WillTell, WillShow
    <3>2. \A i \in InProgress : WillTell(calls[i]) => i \in InProgress' /\ WillTell(calls[i])'
      BY <1>2, <1>4, <1>6, <3>1 DEF WillTell
    <3>3. \A i \in InProgress : WillShow(calls[i]) => i \in InProgress' /\ WillShow(calls[i])'
      BY <1>1, <1>2, <1>4, <1>6, <3>1 DEF WillShow
    <3>4. QED
      BY <1>2, <1>4, <2>2, <3>2, <3>3 DEF ManagerInv, ShownInv
  <2>3. QED
    BY <1>4, <2>1, <2>2
<1>16. QED
  BY <1>5, <1>9, <1>10, <1>11, <1>13, <1>14, <1>15 DEF ManagerInv

-----------------------------------------------------------------------------
(***************************************************************************)
(* A call returns                                                          *)
(***************************************************************************)

\* A call with nothing left to do for the current generation just returns.
LEMMA ReturningKeeps ==
  ASSUME ManagerInv, ~Idle, Returns, UNCHANGED <<manager, shown, standing>>,
         Top.at \in {"telling", "finishing", "scheduling"},
         Top.at = "scheduling" => Top.gen # retryGeneration,
         Top.call = "fiber" => Top.at = "finishing"
  PROVE  ManagerInv'
<1> USE DEF None
<1> PICK n : n = Len(calls)
  OBVIOUS
<1>1. /\ n \in Nat \ {0} /\ n \in InProgress /\ InProgress = 1..n
      /\ Top = calls[n] /\ WellFormed(calls[n])
  BY TopIsLast DEF ManagerInv, InProgress, StackInv
<1>2. /\ calls' \in Seq(Frames) /\ Len(calls') = n - 1
      /\ \A i \in 1..n - 1 : calls'[i] = calls[i]
      /\ InProgress' = 1..n - 1
  BY Popped DEF ManagerInv, Returns, InProgress
<1>3. /\ UNCHANGED <<enabled, retryGeneration, attempted, retryFiber, retryPending>>
      /\ UNCHANGED <<pendingScheduledEvent, retryOwnership, fibers, claims, coordinatorRetry>>
      /\ UNCHANGED <<shown, standing>>
  BY DEF manager
<1>4. ManagerTypes'
  BY <1>1, <1>2, <1>3, BoundsAreNatural DEF ManagerInv, ManagerTypes
<1>5. StackInv'
  <2>1. \A i \in InProgress' : WellFormed(calls[i])'
    BY <1>1, <1>2, <1>3 DEF ManagerInv, StackInv, WellFormed
  <2>2. QED
    BY <1>1, <1>2, <2>1 DEF ManagerInv, StackInv
<1>6. CurrentInv'
  BY <1>1, <1>2, <1>3 DEF ManagerInv, CurrentInv, Current
<1>7. FiberInv'
  <2>1. \A g \in Generations : fibers[g] = "executing" =>
          calls' # <<>> /\ calls'[1].call = "fiber" /\ calls'[1].gen = g
    <3> SUFFICES ASSUME NEW g \in Generations, fibers[g] = "executing"
                 PROVE  calls' # <<>> /\ calls'[1].call = "fiber" /\ calls'[1].gen = g
      OBVIOUS
    <3>1. calls[1].call = "fiber" /\ calls[1].gen = g
      BY DEF ManagerInv, FiberInv
    <3>2. n # 1
      BY <1>1, <3>1 DEF WellFormed
    <3>3. 1 \in 1..n - 1 /\ Len(calls') # 0
      BY <1>1, <1>2, <3>2
    <3>4. QED
      BY <1>2, <3>1, <3>3
  <2>2. \A g \in Generations : fibers[g] \in {"sleeping", "resending"} =>
          \/ retryFiber = g
          \/ \E i \in InProgress' : calls'[i].at = "retiring" /\ calls'[i].fiber = g
    BY <1>1, <1>2 DEF ManagerInv, FiberInv
  <2>3. QED
    BY <1>3, <2>1, <2>2 DEF ManagerInv, FiberInv
<1>8. PendingInv'
  <2>1. Scheduling' <=> Scheduling
    BY <1>1, <1>2, <1>3 DEF Scheduling
  <2>2. QED
    BY <1>3, <2>1 DEF ManagerInv, PendingInv
<1>9. ClaimInv'
  BY <1>1, <1>2, <1>3 DEF ManagerInv, ClaimInv
<1>10. ShownInv'
  <2>1. \A i \in InProgress : WillTell(calls[i]) => i \in InProgress' /\ WillTell(calls[i])'
    BY <1>1, <1>2 DEF WillTell
  <2>2. \A i \in InProgress : WillShow(calls[i]) => i \in InProgress' /\ WillShow(calls[i])'
    BY <1>1, <1>2, <1>3 DEF WillShow, WellFormed
  <2>3. QED
    BY <1>3, <2>1, <2>2 DEF ManagerInv, ShownInv
<1>11. QED
  BY <1>4, <1>5, <1>6, <1>7, <1>8, <1>9, <1>10 DEF ManagerInv

\* A scheduling that nothing has retired forks its fiber.
LEMMA ScheduledKeeps ==
  ASSUME ManagerInv, Scheduled
  PROVE  ManagerInv'
<1> USE DEF None
<1> PICK f : f = Top
  OBVIOUS
<1> PICK n : n = Len(calls)
  OBVIOUS
<1>1. /\ ~Idle /\ f.at = "scheduling" /\ Returns
      /\ UNCHANGED <<enabled, retryGeneration, attempted, pendingScheduledEvent>>
      /\ UNCHANGED <<retryOwnership, claims, coordinatorRetry, shown, standing>>
  BY DEF Scheduled
<1>2. /\ n \in Nat \ {0} /\ n \in InProgress /\ InProgress = 1..n
      /\ f = calls[n] /\ f \in Frames /\ WellFormed(f) /\ f.call = "failure"
  <2>1. n \in Nat \ {0} /\ n \in InProgress /\ InProgress = 1..n /\ f = calls[n] /\ f \in Frames
    BY <1>1, TopIsLast DEF ManagerInv, InProgress
  <2>2. WellFormed(f)
    BY <2>1 DEF ManagerInv, StackInv
  <2>3. QED
    BY <1>1, <2>1, <2>2 DEF WellFormed
<1>3. CASE f.gen # retryGeneration
  <2>1. UNCHANGED <<manager, shown, standing>>
    BY <1>1, <1>3 DEF Scheduled, MayRun, IsCurrent, manager
  <2>2. QED
    BY <1>1, <1>2, <1>3, <2>1, ReturningKeeps
<1>4. CASE f.gen = retryGeneration
  <2>1. /\ enabled /\ retryFiber = None /\ standing = f.gen /\ attempted /\ retryPending
        /\ f.gen \in Generations /\ retryGeneration \in Nat
    BY <1>1, <1>2, <1>4 DEF ManagerInv, CurrentInv, Current, Frames, Generations
  <2>2. retryPending' = TRUE /\ retryFiber' = f.gen /\ fibers' = [fibers EXCEPT ![f.gen] = "sleeping"]
    BY <1>4, <2>1 DEF Scheduled, MayRun, IsCurrent
  <2>3. /\ fibers[f.gen] = "none" /\ fibers'[f.gen] = "sleeping"
        /\ \A g \in Generations : g # f.gen => fibers'[g] = fibers[g]
        /\ fibers' \in [Generations -> {"none", "sleeping", "executing", "resending", "ended"}]
    BY <1>2, <2>1, <2>2 DEF ManagerInv, ManagerTypes, WellFormed
  <2>4. /\ calls' \in Seq(Frames) /\ Len(calls') = n - 1
        /\ \A i \in 1..n - 1 : calls'[i] = calls[i]
        /\ InProgress' = 1..n - 1
    BY <1>1, Popped DEF ManagerInv, Returns, InProgress
  <2>5. ManagerTypes'
    BY <1>1, <1>2, <2>1, <2>2, <2>3, <2>4, BoundsAreNatural DEF ManagerInv, ManagerTypes
  <2>6. \A i \in 1..n - 1 : i \in InProgress /\ calls[i] \in Frames /\ calls[i].gen < f.gen /\ calls[i].gen # f.gen
    <3>1. \A i \in 1..n - 1 : i \in InProgress /\ calls[i] \in Frames /\ calls[i].gen < f.gen
      BY <1>2 DEF ManagerInv, StackInv, ManagerTypes
    <3>2. QED
      BY <2>1, <3>1 DEF Frames, Generations
  <2>7. StackInv'
    <3>1. \A i \in InProgress' : WellFormed(calls[i])'
      <4> SUFFICES ASSUME NEW i \in InProgress' PROVE WellFormed(calls[i])'
        OBVIOUS
      <4>1. WellFormed(calls[i]) /\ calls[i].gen \in Generations /\ calls[i].gen # f.gen
        BY <2>4, <2>6 DEF ManagerInv, StackInv, Frames
      <4>2. QED
        BY <1>1, <2>3, <2>4, <4>1 DEF WellFormed
    <3>2. QED
      BY <2>4, <2>6, <3>1 DEF ManagerInv, StackInv
  <2>8. CurrentInv'
    BY <1>1, <1>4, <2>4, <2>6 DEF CurrentInv
  <2>9. FiberInv'
    <3>1. \A g \in Generations : g > retryGeneration => fibers'[g] = "none"
      BY <1>4, <2>1, <2>3 DEF ManagerInv, FiberInv
    <3>2. \A g \in Generations : fibers'[g] = "executing" =>
            calls' # <<>> /\ calls'[1].call = "fiber" /\ calls'[1].gen = g
      <4> SUFFICES ASSUME NEW g \in Generations, fibers'[g] = "executing"
                   PROVE  calls' # <<>> /\ calls'[1].call = "fiber" /\ calls'[1].gen = g
        OBVIOUS
      <4>1. calls[1].call = "fiber" /\ calls[1].gen = g
        BY <2>3 DEF ManagerInv, FiberInv
      <4>2. 1 \in 1..n - 1 /\ Len(calls') # 0
        BY <1>2, <2>4, <4>1
      <4>3. QED
        BY <2>4, <4>1, <4>2
    <3>3. \A g \in Generations : fibers'[g] \in {"sleeping", "resending"} =>
            \/ retryFiber' = g
            \/ \E i \in InProgress' : calls'[i].at = "retiring" /\ calls'[i].fiber = g
      <4> SUFFICES ASSUME NEW g \in Generations, fibers'[g] \in {"sleeping", "resending"}, g # f.gen
                   PROVE  \E i \in InProgress' : calls'[i].at = "retiring" /\ calls'[i].fiber = g
        BY <2>2
      <4>1. fibers[g] \in {"sleeping", "resending"} /\ g # None
        BY <2>3 DEF Generations
      <4>2. PICK i \in InProgress : calls[i].at = "retiring" /\ calls[i].fiber = g
        BY <2>1, <4>1 DEF ManagerInv, FiberInv
      <4>3. i \in 1..n - 1
        BY <1>1, <1>2, <4>2
      <4>4. QED
        BY <2>4, <4>2, <4>3
    <3>4. QED
      BY <1>1, <1>4, <2>1, <2>2, <2>3, <3>1, <3>2, <3>3 DEF FiberInv
  <2>10. PendingInv'
    BY <1>1, <1>4, <2>1, <2>2, <2>3 DEF ManagerInv, PendingInv, Generations
  <2>11. ClaimInv'
    <3>1. \A g \in claims : /\ g \in Generations /\ g # f.gen /\ coordinatorRetry = g
                           /\ fibers'[g] = "executing"
      BY <2>1, <2>3 DEF ManagerInv, ManagerTypes, ClaimInv, Generations
    <3>2. \A i \in InProgress' : calls'[i].at = "claiming" =>
            calls'[i].gen \in claims /\ retryOwnership = None
      BY <2>4, <2>6 DEF ManagerInv, ClaimInv
    <3>3. QED
      BY <1>1, <2>1, <2>2, <2>3, <3>1, <3>2 DEF ManagerInv, ClaimInv
  <2>12. ShownInv'
    BY <1>1, <2>1, <2>2 DEF ShownInv
  <2>13. QED
    BY <2>5, <2>7, <2>8, <2>9, <2>10, <2>11, <2>12 DEF ManagerInv
<1>5. QED
  BY <1>3, <1>4

-----------------------------------------------------------------------------
(***************************************************************************)
(* The retry's fiber                                                       *)
(***************************************************************************)

\* While the fiber's own call is the innermost it is the only one.
LEMMA FiberAlone ==
  ASSUME ManagerInv, ~Idle, Top.call = "fiber" \/ Top.at \in {"claiming", "starting", "dropping", "finishing"}
  PROVE  /\ Len(calls) = 1 /\ InProgress = {1} /\ Top = calls[1]
         /\ Top \in Frames /\ WellFormed(Top) /\ Top.call = "fiber"
<1>1. /\ Len(calls) \in Nat \ {0} /\ Len(calls) \in InProgress
      /\ Top = calls[Len(calls)] /\ Top \in Frames
  BY TopIsLast DEF ManagerInv
<1>2. WellFormed(Top)
  BY <1>1 DEF ManagerInv, StackInv
<1>3. Top.call = "fiber"
  BY <1>2 DEF WellFormed
<1>4. Len(calls) = 1
  BY <1>1, <1>3 DEF ManagerInv, StackInv
<1>5. InProgress = {1}
  BY <1>4 DEF InProgress
<1>6. QED
  BY <1>1, <1>2, <1>3, <1>4, <1>5

\* A stack of one call is not empty.
LEMMA NotEmpty ==
  ASSUME NEW s, Len(s) = 1
  PROVE  s # <<>>
<1>1. Len(<<>>) = 0
  OBVIOUS
<1>2. QED
  BY <1>1

\* With no call in progress, a fiber that waits is the installed one and current.
LEMMA WaitingIsInstalled ==
  ASSUME ManagerInv, Idle, NEW g \in Generations, fibers[g] \in {"sleeping", "resending"}
  PROVE  /\ retryFiber = g /\ retryGeneration = g /\ standing = g /\ enabled /\ attempted
         /\ InProgress = {} /\ Len(calls) = 0
<1>1. Len(calls) = 0 /\ InProgress = {}
  BY EmptySeq DEF Idle, InProgress
<1>2. retryFiber = g /\ g # None
  BY <1>1 DEF ManagerInv, FiberInv, Generations, None
<1>3. QED
  BY <1>1, <1>2 DEF ManagerInv, FiberInv

\* The fiber ends, or abandons itself: in both it gives its claim up.
LEMMA FiberGivesUp ==
  ASSUME ManagerInv, NEW g \in Generations, NEW f \in Frames,
         \/ /\ ~Idle /\ Top.call = "fiber" /\ Top.gen = g /\ Top.at # "finishing"
            /\ Top.at = "claiming" => g # retryGeneration
         \/ Idle /\ fibers[g] = "resending",
         f.call = "fiber", f.gen = g, f.fiber = None, f.at \in {"dropping", "finishing"},
         calls' \in Seq(Frames), Len(calls') \in {0, 1},
         Len(calls') = 1 => calls'[1] = f,
         Len(calls') = 0 => f.at = "finishing",
         fibers' = [fibers EXCEPT ![g] = IF f.at = "finishing" THEN "ended" ELSE "executing"],
         retryOwnership' = IF retryOwnership = g THEN None ELSE retryOwnership,
         Dispose(g),
         UNCHANGED <<enabled, retryGeneration, attempted, retryFiber>>,
         UNCHANGED <<retryPending, pendingScheduledEvent, standing>>,
         shown' \in {shown, "nothing"}
  PROVE  ManagerInv'
<1> USE DEF None
<1>1. /\ \A i \in InProgress : i = 1 /\ calls[1].call = "fiber" /\ calls[1].gen = g
                               /\ calls[1].at \notin {"retiring", "scheduling", "finishing"}
                               /\ (calls[1].at = "claiming" => g # retryGeneration)
      /\ fibers[g] \in {"executing", "resending"}
      /\ g <= retryGeneration
      /\ g = retryGeneration => retryFiber = g
  <2>1. CASE ~Idle
    <3>1. /\ InProgress = {1} /\ Top = calls[1] /\ WellFormed(Top)
          /\ Top.call = "fiber" /\ Top.gen = g /\ Top.at # "finishing"
          /\ Top.at = "claiming" => g # retryGeneration
      BY <2>1, FiberAlone
    <3>2. QED
      BY <3>1 DEF WellFormed, ManagerInv, CurrentInv, Current
  <2>2. CASE Idle
    BY <2>2, WaitingIsInstalled DEF Generations
  <2>3. QED
    BY <2>1, <2>2
<1>2. /\ \A i \in InProgress' : i = 1 /\ Len(calls') = 1 /\ calls'[1] = f
      /\ InProgress' = 1..Len(calls')
  BY DEF InProgress
<1>3. /\ \A h \in Generations : h # g => fibers'[h] = fibers[h]
      /\ fibers'[g] = IF f.at = "finishing" THEN "ended" ELSE "executing"
      /\ fibers' \in [Generations -> {"none", "sleeping", "executing", "resending", "ended"}]
  BY DEF ManagerInv, ManagerTypes
<1>4. /\ claims' = claims \ {g}
      /\ coordinatorRetry' = IF g \in claims /\ coordinatorRetry = g THEN None ELSE coordinatorRetry
  BY DEF Dispose
<1>5. ManagerTypes'
  <2>1. Len(calls') \in 0..MaxDepth
    <3>1. 0 \in 0..MaxDepth /\ 1 \in 0..MaxDepth
      BY BoundsAreNatural
    <3>2. QED
      BY <3>1
  <2>2. QED
    BY <1>3, <1>4, <2>1 DEF ManagerInv, ManagerTypes
<1>6. StackInv'
  <2>1. WellFormed(f)'
    BY <1>1, <1>3 DEF WellFormed, Generations
  <2>2. QED
    BY <1>2, <2>1 DEF StackInv
<1>7. CurrentInv'
  BY <1>1, <1>2 DEF CurrentInv, Current
<1>8. FiberInv'
  <2>1. \A h \in Generations : h > retryGeneration => fibers'[h] = "none"
    BY <1>1, <1>3 DEF ManagerInv, ManagerTypes, FiberInv, Generations
  <2>2. \A h \in Generations : fibers'[h] = "executing" =>
          calls' # <<>> /\ calls'[1].call = "fiber" /\ calls'[1].gen = h
    <3> SUFFICES ASSUME NEW h \in Generations, fibers'[h] = "executing"
                 PROVE  calls' # <<>> /\ calls'[1].call = "fiber" /\ calls'[1].gen = h
      OBVIOUS
    <3>1. h = g
      <4> SUFFICES ASSUME h # g PROVE FALSE
        OBVIOUS
      <4>1. calls # <<>> /\ calls[1].gen = h
        BY <1>3 DEF ManagerInv, FiberInv
      <4>2. 1 \in InProgress
        BY <4>1, TopIsLast DEF Idle, InProgress, ManagerInv
      <4>3. QED
        BY <1>1, <4>1, <4>2
    <3>2. Len(calls') = 1
      BY <1>3, <3>1
    <3>3. calls' # <<>>
      BY <3>2, NotEmpty
    <3>4. calls'[1] = f
      BY <3>2
    <3>5. QED
      BY <3>1, <3>3, <3>4
  <2>3. \A h \in Generations : fibers'[h] \in {"sleeping", "resending"} => retryFiber = h
    BY <1>1, <1>3 DEF ManagerInv, FiberInv
  <2>4. retryFiber # None => fibers'[retryFiber] # "none"
    BY <1>3 DEF ManagerInv, ManagerTypes, FiberInv
  <2>5. QED
    BY <2>1, <2>2, <2>3, <2>4 DEF ManagerInv, FiberInv
<1>9. PendingInv'
  <2>1. ~Scheduling /\ ~Scheduling'
    BY <1>1, <1>2 DEF Scheduling
  <2>2. retryFiber # None => (fibers'[retryFiber] = "sleeping" <=> fibers[retryFiber] = "sleeping")
    BY <1>1, <1>3 DEF ManagerInv, ManagerTypes
  <2>3. QED
    BY <2>1, <2>2 DEF ManagerInv, PendingInv
<1>10. ClaimInv'
  <2>1. \A h \in claims' : h \in claims /\ h # g /\ h \in Generations /\ coordinatorRetry = h
    BY <1>4 DEF ManagerInv, ManagerTypes, ClaimInv
  <2>2. \A h \in claims' :
          /\ coordinatorRetry' = h
          /\ fibers'[h] = "executing" \/ (fibers'[h] = "resending" /\ retryFiber' = h)
    BY <1>3, <1>4, <2>1 DEF ManagerInv, ClaimInv
  <2>3. coordinatorRetry' # None => coordinatorRetry' \in claims'
    BY <1>4 DEF ManagerInv, ClaimInv
  <2>4. retryOwnership' # None => retryOwnership' \in claims'
    BY <1>4 DEF ManagerInv, ClaimInv
  <2>5. retryFiber' # None /\ fibers'[retryFiber'] = "resending" => retryOwnership' = retryFiber'
    BY <1>3 DEF ManagerInv, ManagerTypes, ClaimInv
  <2>6. \A i \in InProgress' : calls'[i].at # "claiming"
    BY <1>2
  <2>7. QED
    BY <2>2, <2>3, <2>4, <2>5, <2>6 DEF ClaimInv
<1>11. ShownInv'
  BY <1>1 DEF ManagerInv, ShownInv, WillTell, WillShow
<1>12. QED
  BY <1>5, <1>6, <1>7, <1>8, <1>9, <1>10, <1>11 DEF ManagerInv

\* The finalizer of a fiber that has a call in progress, or awaits its resend.
LEMMA FinishesKeeps ==
  ASSUME ManagerInv, NEW g \in Generations,
         \/ /\ ~Idle /\ Top.call = "fiber" /\ Top.gen = g /\ Top.at # "finishing"
            /\ Top.at = "claiming" => g # retryGeneration
         \/ Idle /\ fibers[g] = "resending",
         Finishes(g),
         UNCHANGED <<enabled, retryGeneration, attempted, retryFiber>>,
         UNCHANGED <<retryPending, pendingScheduledEvent, standing>>,
         shown' \in {shown, "nothing"}
  PROVE  ManagerInv'
<1> PICK f : f = [call |-> "fiber", gen |-> g, at |-> "finishing", fiber |-> None,
                  tell |-> FALSE, out |-> TRUE]
  OBVIOUS
<1>1. /\ f \in Frames /\ f.call = "fiber" /\ f.gen = g /\ f.fiber = None
      /\ f.at \in {"dropping", "finishing"} /\ f.at = "finishing"
  BY DEF Frames
<1> PICK outer : outer = IF ~Idle /\ Top.call = "fiber" /\ Top.gen = g THEN Front(calls) ELSE calls
  OBVIOUS
<1>2. outer \in Seq(Frames) /\ Len(outer) = 0
  <2>1. CASE ~Idle
    BY <2>1, Popped, FiberAlone DEF ManagerInv
  <2>2. CASE Idle
    BY <2>2, WaitingIsInstalled DEF ManagerInv, ManagerTypes
  <2>3. QED
    BY <2>1, <2>2
<1>3. /\ Append(outer, f) \in Seq(Frames) /\ Len(Append(outer, f)) = 1
      /\ Append(outer, f)[1] = f
  BY <1>1, <1>2, Pushed
<1>4. calls' = IF g \in claims THEN Append(outer, f) ELSE outer
  BY DEF Finishes
<1>5. /\ calls' \in Seq(Frames) /\ Len(calls') \in {0, 1}
      /\ Len(calls') = 1 => calls'[1] = f
      /\ Len(calls') = 0 => f.at = "finishing"
  BY <1>1, <1>2, <1>3, <1>4
<1>6. /\ fibers' = [fibers EXCEPT ![g] = IF f.at = "finishing" THEN "ended" ELSE "executing"]
      /\ retryOwnership' = IF retryOwnership = g THEN None ELSE retryOwnership
      /\ Dispose(g)
  BY <1>1 DEF Finishes
<1>7. QED
  BY <1>1, <1>5, <1>6, FiberGivesUp

\* A fiber whose retry failed to start drops its claim and goes on to report, or
\* just ends if it was retired.
LEMMA AbandonsItselfKeeps ==
  ASSUME ManagerInv, NEW g \in Generations,
         \/ ~Idle /\ Top.gen = g /\ Top.at = "starting"
         \/ Idle /\ fibers[g] = "resending",
         AbandonsItself(g),
         UNCHANGED <<enabled, retryGeneration, attempted, retryFiber>>,
         UNCHANGED <<retryPending, pendingScheduledEvent, standing>>,
         shown' \in {shown, "nothing"}
  PROVE  ManagerInv'
<1>1. \/ /\ ~Idle /\ Top.call = "fiber" /\ Top.gen = g /\ Top.at # "finishing"
         /\ Top.at = "claiming" => g # retryGeneration
      \/ Idle /\ fibers[g] = "resending"
  BY FiberAlone
<1>2. CASE ~MayRun(g)
  <2>1. Finishes(g)
    BY <1>2 DEF AbandonsItself
  <2>2. QED
    BY <1>1, <2>1, FinishesKeeps
<1>3. CASE MayRun(g)
  <2> PICK f : f = [call |-> "fiber", gen |-> g, at |-> "dropping", fiber |-> None,
                    tell |-> TRUE, out |-> g \in claims]
    OBVIOUS
  <2>1. (g \in claims) \in BOOLEAN
    OBVIOUS
  <2>2. /\ f \in Frames /\ f.call = "fiber" /\ f.gen = g /\ f.fiber = None
        /\ f.at \in {"dropping", "finishing"} /\ f.at # "finishing"
    BY <2>1 DEF Frames
  <2> PICK outer : outer = IF Idle THEN calls ELSE Front(calls)
    OBVIOUS
  <2>3. outer \in Seq(Frames) /\ Len(outer) = 0
    <3>1. CASE ~Idle
      BY <1>1, <3>1, Popped, FiberAlone DEF ManagerInv
    <3>2. CASE Idle
      BY <1>1, <3>2, WaitingIsInstalled DEF ManagerInv, ManagerTypes
    <3>3. QED
      BY <3>1, <3>2
  <2>4. /\ Append(outer, f) \in Seq(Frames) /\ Len(Append(outer, f)) = 1
        /\ Append(outer, f)[1] = f
    BY <2>2, <2>3, Pushed
  <2>5. calls' = Append(outer, f)
    BY <1>3 DEF AbandonsItself
  <2>6. /\ calls' \in Seq(Frames) /\ Len(calls') \in {0, 1}
        /\ Len(calls') = 1 => calls'[1] = f
        /\ Len(calls') = 0 => f.at = "finishing"
    BY <2>4, <2>5
  <2>7. /\ fibers' = [fibers EXCEPT ![g] = IF f.at = "finishing" THEN "ended" ELSE "executing"]
        /\ retryOwnership' = IF retryOwnership = g THEN None ELSE retryOwnership
        /\ Dispose(g)
    BY <1>3, <2>2 DEF AbandonsItself
  <2>8. QED
    BY <1>1, <2>2, <2>6, <2>7, FiberGivesUp
<1>4. QED
  BY <1>2, <1>3

\* The observer of the start throws: the fiber abandons itself, as above.
LEMMA StartingThrowsKeeps ==
  ASSUME ManagerInv, StartingThrows
  PROVE  ManagerInv'
<1>1. ~Idle /\ Top.at = "starting" /\ Top.gen \in Generations
  BY TopIsLast DEF StartingThrows, ManagerInv, Frames
<1>2. QED
  BY <1>1, AbandonsItselfKeeps DEF StartingThrows

\* The resend rejects: the fiber that waited for it abandons itself.
LEMMA RejectsKeeps ==
  ASSUME ManagerInv, NEW g \in Generations, Rejects(g)
  PROVE  ManagerInv'
BY AbandonsItselfKeeps DEF Rejects

\* The fiber has told its end, or its resend has resolved: it finishes.
LEMMA FiberEndsKeeps ==
  ASSUME ManagerInv, NEW g \in Generations, FiberEnds(g)
  PROVE  ManagerInv'
BY FinishesKeeps DEF FiberEnds

\* The fiber announces itself under its claim, or tells that it gave up: the call
\* in progress is the fiber's before and after.
LEMMA FiberProceeds ==
  ASSUME ManagerInv, ~Idle, NEW at, Proceeds(at),
         \/ /\ Top.at = "claiming" /\ at = "starting" /\ Top.gen = retryGeneration
            /\ retryOwnership' = Top.gen /\ shown' = "starting"
         \/ /\ Top.at = "dropping" /\ at = "telling"
            /\ retryOwnership' = retryOwnership /\ shown' = "abandoned",
         UNCHANGED <<enabled, retryGeneration, attempted, retryFiber, fibers>>,
         UNCHANGED <<retryPending, pendingScheduledEvent, standing, claims, coordinatorRetry>>
  PROVE  ManagerInv'
<1> USE DEF None
<1> PICK f : f = Top
  OBVIOUS
<1> PICK next : next = [f EXCEPT !.at = at, !.out = TRUE]
  OBVIOUS
<1>1. /\ Len(calls) = 1 /\ InProgress = {1} /\ f = calls[1] /\ calls # <<>>
      /\ f \in Frames /\ WellFormed(f) /\ f.call = "fiber"
  BY FiberAlone DEF Idle
<1>2. /\ next \in Frames /\ next.call = "fiber" /\ next.gen = f.gen /\ next.fiber = f.fiber
      /\ next.tell = f.tell /\ next.at = at
  BY <1>1 DEF Frames
<1>3. calls' \in Seq(Frames) /\ Len(calls') = 1 /\ calls'[1] = next /\ InProgress' = {1} /\ calls' # <<>>
  <2>1. calls' = Append(Front(calls), next)
    BY DEF Proceeds
  <2>2. calls' \in Seq(Frames) /\ Len(calls') = 1 /\ calls'[1] = next
    BY <1>1, <1>2, <2>1, Replaced DEF ManagerInv
  <2>3. calls' # <<>>
    BY <2>2, NotEmpty
  <2>4. InProgress' = {1}
    BY <2>2 DEF InProgress
  <2>5. QED
    BY <2>2, <2>3, <2>4
<1>4. f.gen \in Generations /\ f.gen # None
  BY <1>1 DEF Frames, Generations
<1>5. ManagerTypes'
  <2>1. Len(calls') \in 0..MaxDepth
    BY <1>3, BoundsAreNatural
  <2>2. QED
    BY <1>3, <1>4, <2>1 DEF ManagerInv, ManagerTypes
<1>6. StackInv'
  <2>1. WellFormed(next)'
    BY <1>1, <1>2 DEF WellFormed
  <2>2. QED
    BY <1>2, <1>3, <2>1 DEF StackInv
<1>7. CurrentInv'
  <2>1. f.gen = retryGeneration => retryFiber = f.gen
    BY <1>1 DEF ManagerInv, CurrentInv, Current
  <2>2. at = "telling" \/ (at = "starting" /\ retryOwnership' = f.gen)
    OBVIOUS
  <2>3. next.gen = retryGeneration => Current(next)'
    BY <1>2, <2>1, <2>2 DEF Current
  <2>4. QED
    BY <1>3, <2>3 DEF CurrentInv
<1>8. FiberInv'
  <2>1. \A g \in Generations : fibers[g] = "executing" => g = f.gen
    BY <1>1 DEF ManagerInv, FiberInv
  <2>2. \A g \in Generations : fibers[g] \in {"sleeping", "resending"} => retryFiber = g
    BY <1>1 DEF ManagerInv, FiberInv
  <2>3. QED
    BY <1>2, <1>3, <2>1, <2>2 DEF ManagerInv, FiberInv
<1>9. PendingInv'
  <2>1. ~Scheduling /\ ~Scheduling'
    BY <1>1, <1>2, <1>3 DEF Scheduling
  <2>2. QED
    BY <2>1 DEF ManagerInv, PendingInv
<1>10. ClaimInv'
  <2>1. f.at = "claiming" => f.gen \in claims
    BY <1>1 DEF ManagerInv, ClaimInv
  <2>2. retryFiber # None /\ fibers[retryFiber] = "resending" => retryOwnership' = retryFiber
    BY <1>1, <2>1 DEF ManagerInv, ClaimInv, FiberInv, WellFormed
  <2>3. QED
    BY <1>2, <1>3, <1>4, <2>1, <2>2 DEF ManagerInv, ClaimInv
<1>11. ShownInv'
  <2>1. f.gen = retryGeneration => attempted
    BY <1>1, <1>4 DEF ManagerInv, CurrentInv, Current, FiberInv
  <2>2. QED
    BY <2>1 DEF ShownInv
<1>12. QED
  BY <1>5, <1>6, <1>7, <1>8, <1>9, <1>10, <1>11 DEF ManagerInv

\* The backoff elapses: nothing was claimed, and the fiber is the installed one.
LEMMA WakesKeeps ==
  ASSUME ManagerInv, NEW g \in Generations, Wakes(g)
  PROVE  ManagerInv'
<1> USE DEF None
<1> PICK f : f = [call |-> "fiber", gen |-> g, at |-> "claiming", fiber |-> None,
                  tell |-> FALSE, out |-> TRUE]
  OBVIOUS
<1>1. /\ Idle /\ fibers[g] = "sleeping" /\ g \in Nat /\ g # None
      /\ UNCHANGED <<enabled, retryGeneration, attempted, retryFiber, retryOwnership, standing>>
      /\ shown' = shown
  BY DEF Wakes, Generations
<1>2. /\ retryFiber = g /\ retryGeneration = g /\ standing = g /\ enabled /\ attempted
      /\ InProgress = {} /\ calls = <<>>
  BY <1>1, WaitingIsInstalled DEF Idle
<1>3. claims = {} /\ coordinatorRetry = None /\ retryOwnership = None
  <2>1. \A h \in claims : FALSE
    BY <1>1, <1>2 DEF ManagerInv, ManagerTypes, ClaimInv, FiberInv
  <2>2. QED
    BY <2>1 DEF ManagerInv, ClaimInv
<1>4. /\ retryPending' = FALSE /\ pendingScheduledEvent' = None
      /\ claims' = {g} /\ coordinatorRetry' = g
      /\ fibers' = [fibers EXCEPT ![g] = "executing"] /\ calls' = <<f>>
  BY <1>2, <1>3 DEF Wakes, MayRun, IsCurrent
<1>5. /\ f \in Frames /\ f.call = "fiber" /\ f.gen = g /\ f.at = "claiming" /\ f.fiber = None /\ ~f.tell
  BY DEF Frames
<1>6. /\ calls' \in Seq(Frames) /\ Len(calls') = 1 /\ calls'[1] = f /\ calls' # <<>>
      /\ InProgress' = {1}
  <2>1. calls' \in Seq(Frames) /\ Len(calls') = 1 /\ calls'[1] = f
    BY <1>4, <1>5
  <2>2. QED
    BY <2>1, NotEmpty DEF InProgress
<1>7. /\ \A h \in Generations : h # g => fibers'[h] = fibers[h]
      /\ fibers'[g] = "executing"
      /\ fibers' \in [Generations -> {"none", "sleeping", "executing", "resending", "ended"}]
  BY <1>4 DEF ManagerInv, ManagerTypes
<1>8. \A h \in Generations : fibers'[h] # "sleeping" /\ fibers'[h] # "resending"
  BY <1>2, <1>7 DEF ManagerInv, FiberInv
<1>9. ManagerTypes'
  <2>1. Len(calls') \in 0..MaxDepth
    BY <1>6, BoundsAreNatural
  <2>2. QED
    BY <1>1, <1>4, <1>6, <1>7, <2>1 DEF ManagerInv, ManagerTypes
<1>10. StackInv'
  <2>1. WellFormed(f)'
    BY <1>1, <1>2, <1>5, <1>7 DEF WellFormed
  <2>2. \A i, j \in InProgress' : ~(i < j)
    BY <1>6
  <2>3. \A i \in InProgress' : i = 1 /\ calls'[i] = f
    BY <1>6
  <2>4. QED
    BY <2>1, <2>2, <2>3 DEF StackInv
<1>11. CurrentInv'
  BY <1>1, <1>2, <1>5, <1>6 DEF CurrentInv, Current
<1>12. FiberInv'
  <2>1. \A h \in Generations : fibers'[h] = "executing" => h = g
    BY <1>2, <1>7 DEF ManagerInv, FiberInv
  <2>2. \A h \in Generations : h > retryGeneration => fibers'[h] = "none"
    BY <1>1, <1>2, <1>7 DEF ManagerInv, FiberInv
  <2>3. QED
    BY <1>1, <1>2, <1>5, <1>6, <1>7, <1>8, <2>1, <2>2 DEF FiberInv
<1>13. PendingInv'
  <2>1. ~Scheduling'
    BY <1>5, <1>6 DEF Scheduling
  <2>2. QED
    BY <1>1, <1>2, <1>4, <1>7, <2>1 DEF PendingInv
<1>14. ClaimInv'
  BY <1>1, <1>2, <1>3, <1>4, <1>5, <1>6, <1>7 DEF ClaimInv
<1>15. ShownInv'
  <2>1. WillShow(calls[1])'
    BY <1>1, <1>2, <1>5, <1>6 DEF WillShow
  <2>2. QED
    BY <1>1, <1>2, <1>6, <2>1 DEF ShownInv
<1>16. QED
  BY <1>9, <1>10, <1>11, <1>12, <1>13, <1>14, <1>15 DEF ManagerInv

\* The claim is taken: the retry is announced, or it was retired and ends.
LEMMA ClaimedKeeps ==
  ASSUME ManagerInv, Claimed
  PROVE  ManagerInv'
<1>1. /\ ~Idle /\ Top.at = "claiming" /\ Top.call = "fiber" /\ Top = calls[1] /\ 1 \in InProgress
      /\ Top.gen \in Generations /\ Top.gen # None
      /\ UNCHANGED <<enabled, retryGeneration, attempted, retryFiber>>
      /\ UNCHANGED <<retryPending, pendingScheduledEvent, standing>>
  BY FiberAlone DEF Claimed, Frames, Generations, None
<1>2. Top.gen = retryGeneration => enabled
  BY <1>1 DEF ManagerInv, CurrentInv, Current, FiberInv
<1>3. CASE Top.gen = retryGeneration
  <2>1. MayRun(Top.gen)
    BY <1>2, <1>3 DEF MayRun, IsCurrent
  <2>2. /\ retryOwnership' = Top.gen /\ shown' = "starting" /\ Proceeds("starting")
        /\ UNCHANGED <<fibers, claims, coordinatorRetry>>
    BY <2>1 DEF Claimed
  <2>3. QED
    BY <1>1, <1>3, <2>2, FiberProceeds
<1>4. CASE Top.gen # retryGeneration
  <2>1. Finishes(Top.gen) /\ shown' = shown
    BY <1>4 DEF Claimed, MayRun, IsCurrent
  <2>2. QED
    BY <1>1, <1>4, <2>1, FinishesKeeps
<1>5. QED
  BY <1>3, <1>4

\* The fiber tells that the retry was abandoned once its claim is dropped.
LEMMA DroppedKeeps ==
  ASSUME ManagerInv, Dropped
  PROVE  ManagerInv'
BY FiberProceeds DEF Dropped, manager

\* The stream is resumed under the claim of the installed fiber.
LEMMA StartedKeeps ==
  ASSUME ManagerInv, Started
  PROVE  ManagerInv'
<1> USE DEF None
<1> PICK f : f = Top
  OBVIOUS
<1>1. /\ ~Idle /\ f.at = "starting" /\ f.call = "fiber" /\ f = calls[1] /\ WellFormed(f)
      /\ Len(calls) = 1 /\ InProgress = {1} /\ f.gen \in Generations /\ f.gen # None
      /\ UNCHANGED <<enabled, retryGeneration, attempted, retryFiber>>
      /\ UNCHANGED <<retryPending, pendingScheduledEvent, standing>>
      /\ shown' = shown
  BY FiberAlone DEF Started, Frames, Generations
<1>2. CASE ~MayRun(f.gen)
  <2>1. Finishes(f.gen)
    BY <1>2 DEF Started
  <2>2. QED
    BY <1>1, <2>1, FinishesKeeps
<1>3. CASE MayRun(f.gen)
  <2>1. /\ f.gen = retryGeneration /\ enabled /\ Returns
        /\ fibers' = [fibers EXCEPT ![f.gen] = "resending"]
        /\ UNCHANGED <<retryOwnership, claims, coordinatorRetry>>
    BY <1>3 DEF Started, MayRun, IsCurrent
  <2>2. retryFiber = f.gen /\ retryOwnership = f.gen /\ fibers[f.gen] = "executing"
    BY <1>1, <2>1 DEF ManagerInv, CurrentInv, Current, WellFormed
  <2>3. calls' \in Seq(Frames) /\ Len(calls') = 0 /\ InProgress' = {}
    <3>1. calls' \in Seq(Frames) /\ Len(calls') = 0
      BY <1>1, <2>1, Popped DEF ManagerInv, Returns
    <3>2. QED
      BY <3>1 DEF InProgress
  <2>4. /\ \A h \in Generations : h # f.gen => fibers'[h] = fibers[h]
        /\ fibers'[f.gen] = "resending"
        /\ fibers' \in [Generations -> {"none", "sleeping", "executing", "resending", "ended"}]
    BY <1>1, <2>1 DEF ManagerInv, ManagerTypes
  <2>5. ManagerTypes'
    <3>1. Len(calls') \in 0..MaxDepth
      BY <2>3, BoundsAreNatural
    <3>2. QED
      BY <1>1, <2>1, <2>3, <2>4, <3>1 DEF ManagerInv, ManagerTypes
  <2>6. StackInv' /\ CurrentInv'
    BY <2>3 DEF StackInv, CurrentInv
  <2>7. FiberInv'
    <3>1. \A h \in Generations : fibers'[h] # "executing"
      BY <1>1, <2>4 DEF ManagerInv, FiberInv
    <3>2. \A h \in Generations : fibers'[h] \in {"sleeping", "resending"} => retryFiber = h
      BY <1>1, <2>2, <2>4 DEF ManagerInv, FiberInv
    <3>3. \A h \in Generations : h > retryGeneration => fibers'[h] = "none"
      BY <1>1, <2>1, <2>4 DEF ManagerInv, FiberInv, Generations
    <3>4. QED
      BY <1>1, <2>1, <2>2, <2>4, <3>1, <3>2, <3>3 DEF ManagerInv, FiberInv
  <2>8. PendingInv'
    <3>1. ~Scheduling /\ ~Scheduling'
      BY <1>1, <2>3 DEF Scheduling
    <3>2. QED
      BY <1>1, <2>2, <2>4, <3>1 DEF ManagerInv, PendingInv
  <2>9. ClaimInv'
    <3>1. claims = {f.gen} /\ coordinatorRetry = f.gen
      BY <1>1, <2>2 DEF ManagerInv, ClaimInv
    <3>2. QED
      BY <1>1, <2>1, <2>2, <2>3, <2>4, <3>1 DEF ClaimInv
  <2>10. ShownInv'
    BY <1>1 DEF ManagerInv, ShownInv, WillTell, WillShow, WellFormed
  <2>11. QED
    BY <2>5, <2>6, <2>7, <2>8, <2>9, <2>10 DEF ManagerInv
<1>4. QED
  BY <1>2, <1>3

-----------------------------------------------------------------------------
(***************************************************************************)
(* Every step                                                              *)
(***************************************************************************)

\* What leaves the manager and its calls alone may still end what is shown.
LEMMA QuietKeeps ==
  ASSUME ManagerInv, UNCHANGED <<manager, calls, standing>>,
         shown' \in {shown, "nothing", "abandoned"}
  PROVE  ManagerInv'
<1>1. /\ UNCHANGED <<enabled, retryGeneration, attempted, retryFiber, retryPending>>
      /\ UNCHANGED <<pendingScheduledEvent, retryOwnership, fibers, claims, coordinatorRetry>>
      /\ UNCHANGED <<calls, standing>>
  BY DEF manager
<1>2. ManagerTypes'
  BY <1>1 DEF ManagerInv, ManagerTypes
<1>3. StackInv' /\ CurrentInv'
  BY <1>1 DEF ManagerInv, StackInv, WellFormed, CurrentInv, Current, InProgress
<1>4. FiberInv' /\ PendingInv' /\ ClaimInv'
  BY <1>1 DEF ManagerInv, FiberInv, PendingInv, Scheduling, ClaimInv, InProgress
<1>5. ShownInv'
  BY <1>1 DEF ManagerInv, ShownInv, WillTell, WillShow, InProgress
<1>6. QED
  BY <1>2, <1>3, <1>4, <1>5 DEF ManagerInv

\* Auto-retry is switched back on while nothing is scheduled.
LEMMA OptInKeeps ==
  ASSUME ManagerInv, OptIn
  PROVE  ManagerInv'
<1>1. /\ UNCHANGED <<retryGeneration, attempted, retryFiber, retryPending>>
      /\ UNCHANGED <<pendingScheduledEvent, retryOwnership, fibers, claims, coordinatorRetry>>
      /\ UNCHANGED <<calls, standing, shown>>
      /\ enabled' = TRUE
  BY DEF OptIn
<1>2. ManagerTypes'
  BY <1>1 DEF ManagerInv, ManagerTypes
<1>3. StackInv' /\ CurrentInv'
  BY <1>1 DEF ManagerInv, StackInv, WellFormed, CurrentInv, Current, InProgress
<1>4. FiberInv' /\ PendingInv' /\ ClaimInv'
  BY <1>1 DEF ManagerInv, FiberInv, PendingInv, Scheduling, ClaimInv, InProgress
<1>5. ShownInv'
  BY <1>1 DEF ManagerInv, ShownInv, WillTell, WillShow, InProgress
<1>6. QED
  BY <1>2, <1>3, <1>4, <1>5 DEF ManagerInv

\* Each operation of the manager, wherever there is room for a call.
LEMMA OperationKeeps ==
  ASSUME ManagerInv, Len(calls) < MaxDepth,
         \/ \E call \in {"failure", "refusal"} : Handles(call)
         \/ Cancels \/ Abandons \/ Disables
  PROVE  ManagerInv'
<1>1. enabled \in BOOLEAN
  BY DEF ManagerInv, ManagerTypes
<1>2. ASSUME NEW call \in {"failure", "refusal"}, Handles(call) PROVE ManagerInv'
  BY <1>1, <1>2, RetiringKeeps DEF Handles, Calls
<1>3. CASE Cancels
  BY <1>1, <1>3, RetiringKeeps DEF Cancels, Calls
<1>4. CASE Abandons
  BY <1>1, <1>4, RetiringKeeps DEF Abandons, Calls
<1>5. CASE Disables
  BY <1>5, RetiringKeeps DEF Disables, Calls
<1>6. QED
  BY <1>2, <1>3, <1>4, <1>5

\* An outermost call always fits on the stack.
LEMMA IdleHasRoom ==
  ASSUME ManagerInv, Idle
  PROVE  Len(calls) < MaxDepth
<1>1. Len(calls) = 0
  BY EmptySeq DEF Idle
<1>2. QED
  BY <1>1, BoundsAreNatural

\* The observer of a scheduling throws: what it installed is withdrawn, if it still
\* stands.
LEMMA SchedulingThrowsKeeps ==
  ASSUME ManagerInv, SchedulingThrows
  PROVE  ManagerInv'
<1>1. ~Idle /\ Top.at = "scheduling" /\ Top.call # "fiber"
  <2>1. ~Idle /\ Top.at = "scheduling"
    BY DEF SchedulingThrows
  <2>2. WellFormed(Top)
    BY <2>1, TopIsLast DEF ManagerInv, StackInv
  <2>3. QED
    BY <2>1, <2>2 DEF WellFormed
<1>2. CASE /\ Retires("cancel", Front(calls)) /\ shown' = "nothing" /\ enabled' = enabled
  <2>1. enabled \in BOOLEAN /\ "cancel" \in Calls
    BY DEF ManagerInv, ManagerTypes, Calls
  <2>2. QED
    BY <1>1, <1>2, <2>1, RetiringKeeps
<1>3. CASE ~IsCurrent(Top.gen) /\ Returns /\ UNCHANGED <<manager, shown, standing>>
  BY <1>1, <1>3, ReturningKeeps DEF IsCurrent
<1>4. QED
  BY <1>2, <1>3 DEF SchedulingThrows

\* The call that told of an abandoned retry returns.
LEMMA ToldKeeps ==
  ASSUME ManagerInv, Told
  PROVE  ManagerInv'
BY ReturningKeeps DEF Told

\* The finalizer of an ended fiber returns.
LEMMA FinishedKeeps ==
  ASSUME ManagerInv, Finished
  PROVE  ManagerInv'
BY ReturningKeeps DEF Finished

\* A step of the manager, of its fibers, of the resends or of the session.
LEMMA StepKeepsManager ==
  ASSUME ManagerInv, [Next]_vars
  PROVE  ManagerInv'
<1>1. CASE CallBack
  <2>1. Len(calls) < MaxDepth
    BY <1>1 DEF CallBack, CallsBack
  <2>2. QED
    BY <1>1, <2>1, OperationKeeps DEF CallBack
<1>2. CASE Continues
  BY <1>2, RetiredKeeps, ScheduledKeeps, SchedulingThrowsKeeps, ToldKeeps, ClaimedKeeps,
     StartedKeeps, StartingThrowsKeeps, DroppedKeeps, FinishedKeeps DEF Continues
<1>3. ASSUME NEW g \in Generations, FiberStep(g) PROVE ManagerInv'
  BY <1>3, WakesKeeps, FiberEndsKeeps, RejectsKeeps DEF FiberStep
<1>4. ASSUME NEW g \in Generations, ResendStep(g) PROVE ManagerInv'
  <2>1. CASE ResendEnds(g)
    <3>1. UNCHANGED <<manager, calls, standing>> /\ shown' \in {shown, "nothing", "abandoned"}
      BY <2>1 DEF ResendEnds
    <3>2. QED
      BY <3>1, QuietKeeps
  <2>2. CASE ResendFindsGoalInactive(g)
    BY <2>2, IdleHasRoom, OperationKeeps DEF ResendFindsGoalInactive
  <2>3. CASE ResendFails(g)
    BY <2>3, QuietKeeps DEF ResendFails
  <2>4. CASE ResendRetries(g)
    <3>1. Idle
      BY <2>4 DEF ResendRetries
    <3>2. CASE \E call \in {"failure", "refusal"} : Handles(call)
      BY <3>1, <3>2, IdleHasRoom, OperationKeeps
    <3>3. CASE UNCHANGED <<manager, calls, shown, standing>>
      BY <3>3, QuietKeeps
    <3>4. QED
      BY <2>4, <3>2, <3>3 DEF ResendRetries
  <2>5. QED
    BY <1>4, <2>1, <2>2, <2>3, <2>4 DEF ResendStep
<1>5. ASSUME NEW t \in Turns, TurnStep(t) PROVE ManagerInv'
  <2>1. CASE StreamStarts(t) \/ StreamFails(t)
    BY <2>1, QuietKeeps DEF StreamStarts, StreamFails
  <2>2. CASE FailureIsHandled(t)
    <3>1. Idle
      BY <2>2 DEF FailureIsHandled
    <3>2. CASE \E call \in {"failure", "refusal"} : Handles(call)
      BY <3>1, <3>2, IdleHasRoom, OperationKeeps
    <3>3. CASE UNCHANGED <<manager, calls, shown, standing>>
      BY <3>3, QuietKeeps
    <3>4. QED
      BY <2>2, <3>2, <3>3 DEF FailureIsHandled
  <2>3. QED
    BY <1>5, <2>1, <2>2 DEF TurnStep
<1>6. CASE Stop \/ Abandon \/ OptOut \/ Supersede \/ Close
  BY <1>6, IdleHasRoom, OperationKeeps DEF Stop, Abandon, OptOut, Supersede, Close
<1>7. CASE OptIn
  BY <1>7, OptInKeeps
<1>8. CASE UNCHANGED vars
  BY <1>8, QuietKeeps DEF vars
<1>9. QED
  BY <1>1, <1>2, <1>3, <1>4, <1>5, <1>6, <1>7, <1>8 DEF Next

\* What a Stop found running started under fewer Stops, and stays so.
LEMMA StepKeepsSession ==
  ASSUME ManagerTypes, SessionInv, [Next]_vars
  PROVE  SessionInv'
<1>1. /\ turns \in [Turns -> [at : {"idle", "streaming", "failed", "handled"},
                              stops : Nat, gen : Generations \cup {None}]]
      /\ autoRetryStops \in Nat /\ stopped \subseteq Turns /\ closing \in BOOLEAN
      /\ resends \in [Generations -> {"none", "resending", "failed", "settled"}]
      /\ retryGeneration \in Generations \cup {None}
  BY DEF SessionInv, SessionTypes, ManagerTypes
<1>2. ASSUME UNCHANGED session, resends' \in [Generations -> {"none", "resending", "failed", "settled"}]
      PROVE  SessionInv'
  BY <1>2 DEF session, SessionInv, SessionTypes, StopInv
<1>3. CASE CallBack \/ (Continues /\ ~Started)
  BY <1>1, <1>2, <1>3 DEF CallBack, Continues, Retired, Scheduled, SchedulingThrows, Told, Claimed,
     StartingThrows, Dropped, Finished
<1>4. CASE Started
  BY <1>1, <1>2, <1>4 DEF Started
<1>5. ASSUME NEW g \in Generations, FiberStep(g) \/ ResendStep(g) PROVE SessionInv'
  BY <1>1, <1>2, <1>5 DEF FiberStep, Wakes, FiberEnds, Rejects, ResendStep, ResendEnds,
     ResendFindsGoalInactive, ResendFails, ResendRetries, Settles
<1>6. ASSUME NEW t \in Turns, TurnStep(t) PROVE SessionInv'
  <2>1. CASE StreamStarts(t)
    <3>1. /\ turns[t].at = "idle" /\ UNCHANGED <<autoRetryStops, stopped, closing, resends>>
          /\ turns' = [turns EXCEPT ![t] = [at |-> "streaming", stops |-> autoRetryStops, gen |-> 0]]
      BY <2>1 DEF StreamStarts
    <3>2. SessionTypes'
      BY <1>1, <3>1 DEF SessionTypes, None
    <3>3. t \notin stopped
      BY <3>1 DEF SessionInv, StopInv
    <3>4. StopInv'
      BY <1>1, <3>1, <3>3 DEF SessionInv, StopInv
    <3>5. QED
      BY <3>2, <3>4 DEF SessionInv
  <2>2. CASE StreamFails(t)
    <3>1. /\ UNCHANGED <<autoRetryStops, stopped, closing, resends>>
          /\ turns' = [turns EXCEPT ![t].at = "failed", ![t].gen = retryGeneration]
      BY <2>2 DEF StreamFails
    <3>2. SessionTypes'
      BY <1>1, <3>1 DEF SessionTypes
    <3>3. StopInv'
      BY <1>1, <3>1 DEF SessionInv, StopInv
    <3>4. QED
      BY <3>2, <3>3 DEF SessionInv
  <2>3. CASE FailureIsHandled(t)
    <3>1. /\ UNCHANGED <<autoRetryStops, stopped, closing, resends>>
          /\ turns' = [turns EXCEPT ![t].at = "handled"]
      BY <2>3 DEF FailureIsHandled
    <3>2. SessionTypes'
      BY <1>1, <3>1 DEF SessionTypes
    <3>3. StopInv'
      BY <1>1, <3>1 DEF SessionInv, StopInv
    <3>4. QED
      BY <3>2, <3>3 DEF SessionInv
  <2>4. QED
    BY <1>6, <2>1, <2>2, <2>3 DEF TurnStep
<1>7. CASE Stop
  <2>1. /\ UNCHANGED <<turns, closing, resends>> /\ autoRetryStops' = autoRetryStops + 1
        /\ stopped' = stopped \cup {t \in Turns : turns[t].at \in {"streaming", "failed"}}
    BY <1>7 DEF Stop
  <2>2. \A t \in Turns : turns[t].stops \in Nat
    BY <1>1
  <2>3. SessionTypes'
    BY <1>1, <2>1 DEF SessionTypes
  <2>4. StopInv'
    BY <1>1, <2>1, <2>2 DEF SessionInv, StopInv
  <2>5. QED
    BY <2>3, <2>4 DEF SessionInv
<1>8. CASE Abandon \/ OptOut \/ Supersede \/ OptIn
  BY <1>1, <1>2, <1>8 DEF Abandon, OptOut, Supersede, OptIn
<1>9. CASE Close
  BY <1>9 DEF Close, SessionInv, SessionTypes, StopInv
<1>10. CASE UNCHANGED vars
  BY <1>1, <1>2, <1>10 DEF vars
<1>11. QED
  BY <1>3, <1>4, <1>5, <1>6, <1>7, <1>8, <1>9, <1>10 DEF Next, Continues

-----------------------------------------------------------------------------
(***************************************************************************)
(* Theorems                                                                *)
(***************************************************************************)

Inv == ManagerInv /\ SessionInv

\* A new manager, of a session whose turns are idle, satisfies the invariant.
LEMMA InitInv == Init => Inv
<1> SUFFICES ASSUME Init PROVE Inv
  OBVIOUS
<1> USE DEF Init, None
<1>1. Len(calls) = 0 /\ InProgress = {}
  BY EmptySeq DEF InProgress
<1>2. ManagerTypes
  <2>1. calls \in Seq(Frames) /\ Len(calls) \in 0..MaxDepth
    BY <1>1, BoundsAreNatural
  <2>2. fibers \in [Generations -> {"none", "sleeping", "executing", "resending", "ended"}]
    OBVIOUS
  <2>3. QED
    BY <2>1, <2>2 DEF ManagerTypes
<1>3. StackInv /\ CurrentInv /\ FiberInv /\ PendingInv /\ ClaimInv /\ ShownInv
  BY <1>1 DEF StackInv, CurrentInv, FiberInv, PendingInv, Scheduling, ClaimInv, ShownInv
<1>4. SessionInv
  <2>1. turns \in [Turns -> [at : {"idle", "streaming", "failed", "handled"},
                            stops : Nat, gen : Generations \cup {None}]]
    OBVIOUS
  <2>2. \A t \in Turns : turns[t].stops = 0
    OBVIOUS
  <2>3. resends \in [Generations -> {"none", "resending", "failed", "settled"}]
    OBVIOUS
  <2>4. autoRetryStops = 0 /\ stopped = {} /\ closing = FALSE
    OBVIOUS
  <2>5. SessionTypes
    <3> HIDE DEF Init, None
    <3> QED
      BY <2>1, <2>3, <2>4 DEF SessionTypes
  <2>6. StopInv
    <3> HIDE DEF Init, None
    <3> QED
      BY <2>2, <2>4 DEF StopInv
  <2>7. QED
    BY <2>5, <2>6 DEF SessionInv
<1>5. QED
  BY <1>2, <1>3, <1>4 DEF Inv, ManagerInv

\* The invariant holds throughout.
LEMMA Invariance == Spec => []Inv
<1>1. Inv /\ [Next]_vars => Inv'
  BY StepKeepsManager, StepKeepsSession DEF Inv, ManagerInv
<1>2. QED
  BY InitInv, <1>1, PTL DEF Spec

\* Every variable of the retry manager and of the session around it keeps its type.
THEOREM TypesOfRetries == Spec => []TypeOK
<1>1. Inv => TypeOK
  BY Typed DEF Inv, ManagerInv, SessionInv
<1>2. QED
  BY Invariance, <1>1, PTL

\* Whatever observers and finalizers call back, and however they throw, no call
\* leaves a second fiber, or a retry that is pending without one, behind.
THEOREM OneRetry == Spec => []OneRetryAtMost
<1>1. Inv => OneRetryAtMost
  <2> SUFFICES ASSUME Inv, Idle PROVE OneRetryAtMost
    BY DEF OneRetryAtMost
  <2>1. InProgress = {} /\ calls = <<>>
    BY EmptySeq DEF Idle, InProgress
  <2>2. \A g \in Generations : fibers[g] # "executing"
    BY <2>1 DEF Inv, ManagerInv, FiberInv
  <2>3. \A g \in Generations : fibers[g] \in {"sleeping", "resending"} => retryFiber = g /\ IsCurrent(g)
    BY WaitingIsInstalled DEF Inv, IsCurrent
  <2>4. retryPending <=> retryFiber # None /\ fibers[retryFiber] = "sleeping"
    BY <2>1 DEF Inv, ManagerInv, PendingInv, Scheduling
  <2>5. pendingScheduledEvent = IF retryPending THEN retryFiber ELSE None
    BY <2>4 DEF Inv, ManagerInv, PendingInv, FiberInv
  <2>6. QED
    BY <2>2, <2>3, <2>4, <2>5 DEF OneRetryAtMost
<1>2. QED
  BY Invariance, <1>1, PTL

\* However a retry ends, its claim is dropped: the session does not go on counting
\* as one that is about to retry.
THEOREM ClaimsGo == Spec => []ClaimsAreDropped
<1>1. Inv => ClaimsAreDropped
  <2> SUFFICES ASSUME Inv, Idle PROVE ClaimsAreDropped
    BY DEF ClaimsAreDropped
  <2>1. \A g \in Generations : fibers[g] # "executing" /\ g # None
    BY EmptySeq DEF Idle, Inv, ManagerInv, FiberInv, Generations, None
  <2>2. \A g \in Generations : fibers[g] = "resending" => retryOwnership = g /\ g \in claims
    BY <2>1, WaitingIsInstalled DEF Inv, ManagerInv, ClaimInv
  <2>3. \A g \in claims : g \in Generations /\ fibers[g] = "resending" /\ coordinatorRetry = g
    BY <2>1 DEF Inv, ManagerInv, ManagerTypes, ClaimInv
  <2>4. claims = {g \in Generations : fibers[g] = "resending"}
    BY <2>2, <2>3
  <2>5. coordinatorRetry = retryOwnership
    BY <2>2, <2>3 DEF Inv, ManagerInv, ClaimInv
  <2>6. claims = {retryOwnership} \ {None}
    BY <2>1, <2>2, <2>3 DEF Inv, ManagerInv, ClaimInv
  <2>7. QED
    BY <2>4, <2>5, <2>6 DEF ClaimsAreDropped
<1>2. QED
  BY Invariance, <1>1, PTL

\* The renderer never shows a countdown or a start that nothing will follow up.
THEOREM ShownIsReal == Spec => []ShownRetryIsReal
<1>1. Inv => ShownRetryIsReal
  <2> SUFFICES ASSUME Inv, Idle PROVE ShownRetryIsReal
    BY DEF ShownRetryIsReal
  <2>1. InProgress = {}
    BY EmptySeq DEF Idle, InProgress
  <2>2. QED
    BY <2>1 DEF Inv, ManagerInv, ShownInv, ShownRetryIsReal
<1>2. QED
  BY Invariance, <1>1, PTL

\* What acts for the current generation acts for the scheduling that stands.
LEMMA CurrentStands ==
  ASSUME ManagerInv, ~Idle, Top.gen = retryGeneration,
         Top.at \in {"claiming", "starting", "scheduling"}
  PROVE  standing = Top.gen
<1>1. Len(calls) \in InProgress /\ Top = calls[Len(calls)] /\ Top \in Frames /\ WellFormed(Top)
  BY TopIsLast DEF ManagerInv, StackInv
<1>2. Current(Top)
  BY <1>1 DEF ManagerInv, CurrentInv
<1>3. CASE Top.at = "scheduling"
  BY <1>2, <1>3 DEF Current
<1>4. CASE Top.at # "scheduling"
  <2>1. retryFiber = Top.gen /\ Top.gen # None
    BY <1>1, <1>2, <1>4 DEF Current, WellFormed, Frames, Generations, None
  <2>2. QED
    BY <2>1 DEF ManagerInv, FiberInv
<1>5. QED
  BY <1>3, <1>4

\* A stream is resumed only for the scheduling that stands.
LEMMA ResendsStand ==
  ASSUME ManagerInv, SessionTypes, [Next]_vars, NEW g \in Generations,
         resends[g] = "none", resends'[g] # "none"
  PROVE  standing = g
<1>1. resends \in [Generations -> {"none", "resending", "failed", "settled"}] /\ resends' # resends
  BY DEF SessionTypes
<1>2. CASE Started
  <2>1. ~Idle /\ Top.at = "starting" /\ MayRun(Top.gen)
    BY <1>1, <1>2 DEF Started
  <2>2. standing = Top.gen
    BY <2>1, CurrentStands DEF MayRun, IsCurrent
  <2>3. Top.gen = g
    BY <1>1, <1>2 DEF Started
  <2>4. QED
    BY <2>2, <2>3
<1>3. CASE CallBack \/ (Continues /\ ~Started)
  BY <1>1, <1>3 DEF CallBack, Continues, Retired, Scheduled, SchedulingThrows, Told, Claimed,
     StartingThrows, Dropped, Finished
<1>4. ASSUME NEW h \in Generations, FiberStep(h) PROVE FALSE
  BY <1>1, <1>4 DEF FiberStep, Wakes, FiberEnds, Rejects
<1>5. ASSUME NEW h \in Generations, ResendStep(h) PROVE FALSE
  BY <1>1, <1>5 DEF ResendStep, ResendEnds, ResendFindsGoalInactive, ResendFails, ResendRetries,
     Settles
<1>6. ASSUME NEW t \in Turns, TurnStep(t) PROVE FALSE
  BY <1>1, <1>6 DEF TurnStep, StreamStarts, StreamFails, FailureIsHandled
<1>7. CASE Stop \/ Abandon \/ OptOut \/ Supersede \/ OptIn \/ Close \/ UNCHANGED vars
  BY <1>1, <1>7 DEF Stop, Abandon, OptOut, Supersede, OptIn, Close, vars
<1>8. QED
  BY <1>2, <1>3, <1>4, <1>5, <1>6, <1>7 DEF Next, Continues

\* A retry is announced as starting only for the scheduling that stands.
LEMMA StartsStand ==
  ASSUME ManagerInv, [Next]_vars, shown # "starting", shown' = "starting"
  PROVE  standing = Top.gen
<1>1. CASE Claimed
  <2>1. ~Idle /\ Top.at = "claiming" /\ MayRun(Top.gen)
    BY <1>1 DEF Claimed
  <2>2. QED
    BY <2>1, CurrentStands DEF MayRun, IsCurrent
<1>2. CASE CallBack \/ (Continues /\ ~Claimed)
  BY <1>2 DEF CallBack, Handles, Cancels, Abandons, Disables, Continues, Retired, Schedules, Tells,
     HasNothingToTell, Scheduled, SchedulingThrows, Told, Started, StartingThrows, Dropped, Finished
<1>3. ASSUME NEW g \in Generations, FiberStep(g) \/ ResendStep(g) PROVE FALSE
  BY <1>3 DEF FiberStep, Wakes, FiberEnds, Rejects, ResendStep, ResendEnds,
     ResendFindsGoalInactive, ResendFails, ResendRetries, Handles, Abandons
<1>4. ASSUME NEW t \in Turns, TurnStep(t) PROVE FALSE
  BY <1>4 DEF TurnStep, StreamStarts, StreamFails, FailureIsHandled, Handles
<1>5. CASE Stop \/ Abandon \/ OptOut \/ Supersede \/ OptIn \/ Close \/ UNCHANGED vars
  BY <1>5 DEF Stop, Abandon, OptOut, Supersede, OptIn, Close, Abandons, Disables, Cancels, vars
<1>6. QED
  BY <1>1, <1>2, <1>3, <1>4, <1>5 DEF Next, Continues

\* A fiber is forked only for the scheduling that stands.
LEMMA ForksStand ==
  ASSUME ManagerInv, [Next]_vars, NEW g \in Generations, fibers[g] = "none", fibers'[g] # "none"
  PROVE  standing = g
<1>1. fibers \in [Generations -> {"none", "sleeping", "executing", "resending", "ended"}]
      /\ fibers' # fibers
  BY DEF ManagerInv, ManagerTypes
<1>2. ASSUME ~Idle, Top.at \in {"claiming", "starting"} PROVE fibers[Top.gen] = "executing"
  BY <1>2, FiberAlone DEF WellFormed
<1>3. CASE Scheduled
  <2>1. ~Idle /\ Top.at = "scheduling" /\ MayRun(Top.gen)
    BY <1>1, <1>3 DEF Scheduled
  <2>2. Top.gen = g
    BY <1>1, <1>3 DEF Scheduled
  <2>3. QED
    BY <2>1, <2>2, CurrentStands DEF MayRun, IsCurrent
<1>4. CASE Retired
  <2>1. ~Idle /\ Top.at = "retiring" /\ Interrupts(Top.fiber)
    BY <1>4 DEF Retired
  <2>2. QED
    BY <2>1, InterruptsOnlyItsOwn
<1>5. CASE Claimed
  BY <1>1, <1>2, <1>5 DEF Claimed, Finishes
<1>6. CASE Started
  BY <1>1, <1>2, <1>6 DEF Started, Finishes
<1>7. CASE StartingThrows
  BY <1>1, <1>2, <1>7 DEF StartingThrows, AbandonsItself, Finishes
<1>8. CASE SchedulingThrows \/ Told \/ Dropped \/ Finished
  BY <1>1, <1>8 DEF SchedulingThrows, Told, Dropped, Finished, manager, Retires, Detaches
<1>9. CASE CallBack
  BY <1>1, <1>9 DEF CallBack, Handles, Cancels, Abandons, Disables, Retires, Detaches
<1>10. ASSUME NEW h \in Generations, FiberStep(h) PROVE FALSE
  <2>1. CASE Wakes(h)
    BY <1>1, <2>1 DEF Wakes
  <2>2. CASE FiberEnds(h)
    <3>1. fibers[h] # "none"
      BY <2>2, FiberAlone DEF FiberEnds, WellFormed
    <3>2. QED
      BY <1>1, <2>2, <3>1 DEF FiberEnds, Finishes
  <2>3. CASE Rejects(h)
    BY <1>1, <2>3 DEF Rejects, AbandonsItself, Finishes
  <2>4. QED
    BY <1>10, <2>1, <2>2, <2>3 DEF FiberStep
<1>11. ASSUME NEW h \in Generations, ResendStep(h) PROVE FALSE
  BY <1>1, <1>11 DEF ResendStep, ResendEnds, ResendFindsGoalInactive, ResendFails, ResendRetries,
     Handles, Abandons, Retires, Detaches, manager
<1>12. ASSUME NEW t \in Turns, TurnStep(t) PROVE FALSE
  BY <1>1, <1>12 DEF TurnStep, StreamStarts, StreamFails, FailureIsHandled, Handles, Retires,
     Detaches, manager
<1>13. CASE Stop \/ Abandon \/ OptOut \/ Supersede \/ OptIn \/ Close \/ UNCHANGED vars
  BY <1>1, <1>13 DEF Stop, Abandon, OptOut, Supersede, OptIn, Close, Abandons, Disables, Cancels,
     Retires, Detaches, vars, manager
<1>14. QED
  BY <1>3, <1>4, <1>5, <1>6, <1>7, <1>8, <1>9, <1>10, <1>11, <1>12, <1>13 DEF Next, Continues

\* No retired retry is forked, announced or resent, however it was retired.
THEOREM RetiredIsOver == Spec => RetiredStaysRetired
<1>1. Inv /\ [Next]_vars =>
        [/\ \A g \in Generations : resends[g] = "none" /\ resends'[g] # "none" => standing = g
         /\ shown # "starting" /\ shown' = "starting" => standing = Top.gen
         /\ \A g \in Generations : fibers[g] = "none" /\ fibers'[g] # "none" => standing = g]_vars
  BY ResendsStand, StartsStand, ForksStand DEF Inv, SessionInv
<1>2. QED
  BY Invariance, <1>1, PTL DEF Spec, RetiredStaysRetired

\* A failure that a Stop overtook schedules nothing.
LEMMA StoppedSchedulesNothing ==
  ASSUME SessionInv, [Next]_vars, NEW t \in Turns,
         turns[t].at = "failed", turns'[t].at = "handled", t \in stopped
  PROVE  retryGeneration' = retryGeneration
<1>1. turns \in [Turns -> [at : {"idle", "streaming", "failed", "handled"},
                           stops : Nat, gen : Generations \cup {None}]]
      /\ turns' # turns
  BY DEF SessionInv, SessionTypes
<1>2. \A u \in Turns : ~StreamStarts(u) /\ ~StreamFails(u)
  BY <1>1 DEF StreamStarts, StreamFails
<1>3. ASSUME NEW u \in Turns, FailureIsHandled(u) PROVE retryGeneration' = retryGeneration
  <2>1. u = t
    BY <1>1, <1>3 DEF FailureIsHandled
  <2>2. turns[t].stops # autoRetryStops
    BY <1>1 DEF SessionInv, SessionTypes, StopInv
  <2>3. QED
    BY <1>3, <2>1, <2>2 DEF FailureIsHandled, FailureIsFresh, manager
<1>4. CASE CallBack \/ Continues \/ Stop \/ Abandon \/ OptOut \/ Supersede \/ OptIn \/ Close \/ UNCHANGED vars
  BY <1>1, <1>4 DEF CallBack, Continues, Retired, Scheduled, SchedulingThrows, Told, Claimed, Started,
     StartingThrows, Dropped, Finished, session, Stop, Abandon, OptOut, Supersede, OptIn, Close, vars
<1>5. ASSUME NEW g \in Generations, FiberStep(g) \/ ResendStep(g) PROVE FALSE
  BY <1>1, <1>5 DEF FiberStep, Wakes, FiberEnds, Rejects, ResendStep, ResendEnds,
     ResendFindsGoalInactive, ResendFails, ResendRetries, session
<1>6. QED
  BY <1>2, <1>3, <1>4, <1>5 DEF Next, TurnStep

\* The workspace that a Stop ended is not restarted by the failure of the turn it
\* stopped, for any number of turns, Stops and retries.
THEOREM StoppedIsNotRetried == Spec => StoppedTurnIsNotRetried
<1>1. Inv /\ [Next]_vars =>
        [\A t \in Turns :
           turns[t].at = "failed" /\ turns'[t].at = "handled" /\ t \in stopped
             => retryGeneration' = retryGeneration]_vars
  BY StoppedSchedulesNothing DEF Inv
<1>2. QED
  BY Invariance, <1>1, PTL DEF Spec, StoppedTurnIsNotRetried

===============================================================================
