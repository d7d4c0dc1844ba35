------------------------- MODULE TurnCoordinatorProofs -------------------------
(***************************************************************************)
(* The waiters of the coordinator and the types of its variables, for      *)
(* every number of turns, operations, waiters and nested dispatches.       *)
(*                                                                         *)
(* WaitersNotStranded is inductive once the types of what it reads, the    *)
(* frames whose observer is running and the stage of a coordinator without *)
(* an observation are added (Inv below).  A step either leaves the waiters *)
(* alone, or it is a dispatch, a quiet call, or the return of a dispatch;  *)
(* one lemma each carries the argument, and the actions follow from what   *)
(* TurnTransitionProofs says of their event.  Placed, that no caller is in *)
(* two batches, then shows that no release reaches another wait, and Rest  *)
(* types the variables the waiters do not depend on.                       *)
(*                                                                         *)
(* Owned then relates the coordinator's resources, the controller, the     *)
(* operation, the settlements and the streams, to the producers that own   *)
(* them, and Answered the promises of decisions to whoever answers them.   *)
(***************************************************************************)
EXTENDS TurnCoordinator, TurnTransitionProofs

WaitStates == {"off", "idle", "unbusy", "compaction"}

Types ==
  /\ s \in CoordinatorState
  /\ stack \in Seq(Frames)
  /\ idleWaiters \subseteq Waiters /\ unbusyWaiters \subseteq Waiters
  /\ compactionWaiters \subseteq Waiters
  /\ waiting \in [Waiters -> WaitStates]
  /\ prepared \in Nat

(* Only a frame whose head command called out has an observer running.     *)
Observers == \A i \in DOMAIN stack : stack[i].observing => stack[i].cmds # << >>

(* Without an observation there is no stage a waiter could be waiting for. *)
Window == s.token = None => s.tokenStage = "none"

Core == Types /\ Observers /\ Window /\ WaitersNotStranded

Issued == issued \in [turn : Nat, op : Nat, resv : Nat, token : Nat]

Inv == Core /\ Issued

-----------------------------------------------------------------------------
(* The stack.                                                              *)

LEMMA TopType ==
  ASSUME stack \in Seq(Frames), stack # << >>
  PROVE  /\ Top \in Frames /\ Len(stack) \in Nat \ {0}
         /\ DOMAIN stack = 1 .. Len(stack) /\ Len(stack) \in DOMAIN stack
<1>1. Len(stack) \in Nat /\ DOMAIN stack = 1 .. Len(stack)
  BY LenProperties
<1>2. Len(stack) \in Nat \ {0}
  BY EmptySeq
<1>3. Len(stack) \in 1 .. Len(stack)
  BY <1>1, <1>2
<1>4. Top \in Frames
  BY <1>3, ElementOfSeq DEF Top
<1> QED BY <1>1, <1>2, <1>3, <1>4

LEMMA ReplaceTop ==
  ASSUME Types, Observers, stack # << >>, NEW f \in Frames,
         f.detached = Top.detached, f.observing => f.cmds # << >>,
         stack' = [stack EXCEPT ![Len(stack)] = f]
  PROVE  stack' \in Seq(Frames) /\ Observers' /\ Detached' = Detached
<1>1. stack \in Seq(Frames) /\ Len(stack) \in 1 .. Len(stack)
      /\ DOMAIN stack = 1 .. Len(stack)
  BY TopType DEF Types
<1>2. /\ stack' \in Seq(Frames) /\ Len(stack') = Len(stack)
      /\ \A j \in 1 .. Len(stack) :
            stack'[j] = IF j = Len(stack) THEN f ELSE stack[j]
  BY <1>1, ExceptSeq
<1>3. DOMAIN stack' = DOMAIN stack
  OBVIOUS
<1>4. Observers'
  BY <1>1, <1>2, <1>3 DEF Observers
<1>5. \A j \in DOMAIN stack : stack'[j].detached = stack[j].detached
  BY <1>1, <1>2 DEF Top
<1>6. Detached' = Detached
  BY <1>3, <1>5 DEF Detached
<1> QED BY <1>2, <1>4, <1>6

LEMMA ConsumedTop ==
  ASSUME Types, Observers, stack # << >>, Top.cmds # << >>, PopCommand
  PROVE  stack' \in Seq(Frames) /\ Observers' /\ Detached' = Detached
<1>1. Top \in Frames
  BY TopType DEF Types
<1>2. Tail(Top.cmds) \in Seq(Command)
  BY <1>1, HeadTailProperties DEF Frames
<1>3. /\ Consumed(Top) \in Frames /\ Consumed(Top).detached = Top.detached
      /\ ~Consumed(Top).observing
  BY <1>1, <1>2 DEF Frames, Consumed
<1>4. stack' = [stack EXCEPT ![Len(stack)] = Consumed(Top)]
  BY DEF PopCommand, Top
<1> QED BY <1>3, <1>4, ReplaceTop

LEMMA EnteredTop ==
  ASSUME Types, Observers, stack # << >>, Top.cmds # << >>, EnterObserver
  PROVE  stack' \in Seq(Frames) /\ Observers' /\ Detached' = Detached
<1> DEFINE f == [Top EXCEPT !.observing = TRUE]
<1>1. Top \in Frames
  BY TopType DEF Types
<1>2. f \in Frames /\ f.detached = Top.detached /\ f.cmds # << >>
  BY <1>1 DEF Frames
<1>3. stack' = [stack EXCEPT ![Len(stack)] = f]
  BY DEF EnterObserver, Top
<1> HIDE DEF f
<1> QED BY <1>2, <1>3, ReplaceTop

(* A command that leaves the waiters alone.                                *)
LEMMA CommandStep ==
  ASSUME Core, stack # << >>, Top.cmds # << >>,
         PopCommand \/ EnterObserver,
         UNCHANGED <<s, idleWaiters, unbusyWaiters, compactionWaiters, waiting>>,
         prepared' \in Nat
  PROVE  Core'
<1>1. stack' \in Seq(Frames) /\ Observers' /\ Detached' = Detached
  BY ConsumedTop, EnteredTop DEF Core
<1>2. Types'
  BY <1>1 DEF Core, Types
<1>3. Window'
  BY DEF Core, Window
<1>4. WaitersNotStranded'
  BY <1>1 DEF Core, WaitersNotStranded, Busy, Reserved
<1> QED BY <1>1, <1>2, <1>3, <1>4 DEF Core

-----------------------------------------------------------------------------
(* A dispatch.  What it detaches from the registries its frame holds, and  *)
(* whatever is published idle has been detached.                           *)

LEMMA FrameType ==
  ASSUME NEW cmds \in Seq(Command), NEW detached \in SUBSET Waiters,
         NEW retired \in Nat, NEW then \in Continuations, NEW id \in Nat
  PROVE  LET f == Frame(cmds, detached, retired, then, id)
         IN f \in Frames /\ f.detached = detached /\ ~f.observing
BY DEF Frame, Frames

LEMMA PushFrame ==
  ASSUME Types, Observers, NEW f \in Frames, ~f.observing,
         stack' = Append(stack, f)
  PROVE  /\ stack' \in Seq(Frames) /\ Observers'
         /\ Detached' = Detached \cup f.detached
<1> DEFINE n == Len(stack)
<1>1. /\ stack \in Seq(Frames) /\ n \in Nat /\ DOMAIN stack = 1 .. n
  BY LenProperties DEF Types
<1>2. /\ stack' \in Seq(Frames) /\ Len(stack') = n + 1
      /\ \A i \in 1 .. n : stack'[i] = stack[i]
      /\ stack'[n + 1] = f
  BY <1>1, AppendProperties
<1>3. DOMAIN stack' = 1 .. n + 1
  BY <1>2, LenProperties
<1> HIDE DEF n
<1>4. DOMAIN stack' = DOMAIN stack \cup {n + 1}
  BY <1>1, <1>3
<1>5. Observers'
  BY <1>1, <1>2, <1>4 DEF Observers
<1>6. Detached' = Detached \cup f.detached
  BY <1>1, <1>2, <1>4 DEF Detached
<1> QED BY <1>2, <1>5, <1>6

(* The waiters after a dispatch from r: the batches it did not detach      *)
(* belong to a state in which their callers still have to wait.            *)
LEMMA DispatchStep ==
  ASSUME Core, NEW r, Regular(s, r), NEW prep \in Nat,
         NEW then \in Continuations, NEW id \in Nat,
         Dispatch(r, prep, then, id), UNCHANGED <<waiting, compactionWaiters>>
  PROVE  Core'
<1> DEFINE idle   == PublishesIdle(r.cmds)
           unbusy == ~Busy(r.s)
           gone   == idle /\ prep = r.s.turn
           out    == (IF idle THEN idleWaiters ELSE {})
                       \cup (IF unbusy THEN unbusyWaiters ELSE {})
           f == Frame(r.cmds, out, IF gone THEN prep ELSE None, then, id)
<1>1. /\ s' = r.s /\ stack' = Append(stack, f)
      /\ idleWaiters' = IF idle THEN {} ELSE idleWaiters
      /\ unbusyWaiters' = IF unbusy THEN {} ELSE unbusyWaiters
      /\ prepared' = IF gone THEN None ELSE prep
  BY DEF Dispatch, DispatchFrom
<1>2. Types /\ Observers /\ WaitersNotStranded /\ Window
  BY DEF Core
<1>3. /\ r.s \in CoordinatorState /\ r.cmds \in Seq(Command)
      /\ r.s.phase = "idle" => s.phase = "idle" \/ idle
      /\ r.s.life = s.life
      /\ r.s.token = s.token /\ r.s.tokenStage = s.tokenStage
  BY DEF Regular, SameWindow
<1> HIDE DEF idle, unbusy
<1>4. out \in SUBSET Waiters
  BY <1>2 DEF Types
<1> HIDE DEF gone
<1>5. None \in Nat /\ prepared' \in Nat /\ (IF gone THEN prep ELSE None) \in Nat
  BY <1>1 DEF None
<1> HIDE DEF out
<1>6. f \in Frames /\ f.detached = out /\ ~f.observing
  BY <1>3, <1>4, <1>5, FrameType
<1> HIDE DEF f
<1>7. /\ stack' \in Seq(Frames) /\ Observers'
      /\ Detached' = Detached \cup out
  BY <1>1, <1>2, <1>6, PushFrame
<1>8. Types'
  BY <1>1, <1>2, <1>3, <1>5, <1>7 DEF Types
<1>9. Window'
  BY <1>1, <1>2, <1>3 DEF Window
<1>10. WaitersNotStranded'
  <2>1. ASSUME NEW w \in Waiters
        PROVE  /\ waiting[w] = "idle" => w \in idleWaiters' \cup Detached'
               /\ waiting[w] = "unbusy" => w \in unbusyWaiters' \cup Detached'
               /\ waiting[w] = "compaction" => w \in compactionWaiters
    BY <1>1, <1>2, <1>7 DEF WaitersNotStranded, out
  <2>2. idleWaiters' # {} => s'.phase # "idle" /\ s'.life = "open"
    BY <1>1, <1>2, <1>3 DEF WaitersNotStranded
  <2>3. unbusyWaiters' # {} => Busy(s)' /\ s'.life = "open"
    BY <1>1, <1>2, <1>3 DEF WaitersNotStranded, unbusy
  <2>4. compactionWaiters # {} => s'.tokenStage \in {"stopping", "stopped"}
    BY <1>1, <1>2, <1>3 DEF WaitersNotStranded
  <2> QED BY <2>1, <2>2, <2>3, <2>4 DEF WaitersNotStranded
<1> QED BY <1>7, <1>8, <1>9, <1>10 DEF Core

LEMMA CallStep ==
  ASSUME Core, NEW r, Regular(s, r), Call(r)
  PROVE  Core'
<1>1. prepared \in Nat /\ None \in Nat /\ "none" \in Continuations
  BY DEF Core, Types, None, Continuations
<1> QED BY <1>1, DispatchStep DEF Call

-----------------------------------------------------------------------------
(* A call whose commands call nothing out.                                 *)

(* What such a call owes the callers waiting for a compaction.             *)
WindowKept(t) ==
  /\ t.token = None => t.tokenStage = "none"
  /\ s.tokenStage \in {"stopping", "stopped"} =>
        t.tokenStage \in {"stopping", "stopped"}

LEMMA SameWindowKept ==
  ASSUME Core, NEW t, SameWindow(s, t) PROVE WindowKept(t)
BY DEF Core, Window, SameWindow, WindowKept

LEMMA ReleasedType ==
  ASSUME waiting \in [Waiters -> WaitStates], NEW W
  PROVE  /\ Released(waiting, W) \in [Waiters -> WaitStates]
         /\ \A w \in Waiters :
               Released(waiting, W)[w] = IF w \in W THEN "off" ELSE waiting[w]
BY DEF Released, WaitStates

LEMMA QuietStep ==
  ASSUME Core, NEW t, NEW D, Still(s, t), WindowKept(t), Quietly(t, D),
         UNCHANGED compactionWaiters
  PROVE  Core'
<1>1. /\ s' = t /\ UNCHANGED <<stack, idleWaiters, prepared>>
      /\ unbusyWaiters' = IF Busy(t) THEN unbusyWaiters ELSE {}
      /\ waiting' = IF Busy(t) THEN waiting
                    ELSE Released(waiting, unbusyWaiters)
  BY DEF Quietly
<1>2. /\ t \in CoordinatorState /\ t.phase = s.phase /\ t.life = s.life
  BY DEF Still
<1>3. Types /\ Observers /\ WaitersNotStranded
  BY DEF Core
<1>4. /\ waiting' \in [Waiters -> WaitStates]
      /\ \A w \in Waiters : waiting'[w] =
            IF ~Busy(t) /\ w \in unbusyWaiters THEN "off" ELSE waiting[w]
  BY <1>1, <1>3, ReleasedType DEF Types
<1>5. Types'
  BY <1>1, <1>2, <1>3, <1>4 DEF Types
<1>6. Observers' /\ Detached' = Detached
  BY <1>1, <1>3 DEF Observers, Detached
<1>7. Window'
  BY <1>1 DEF Window, WindowKept
<1>8. WaitersNotStranded'
  <2>1. ASSUME NEW w \in Waiters
        PROVE  /\ waiting'[w] = "idle" => w \in idleWaiters' \cup Detached'
               /\ waiting'[w] = "unbusy" => w \in unbusyWaiters' \cup Detached'
               /\ waiting'[w] = "compaction" => w \in compactionWaiters'
    BY <1>1, <1>3, <1>4, <1>6 DEF WaitersNotStranded
  <2>2. idleWaiters' # {} => s'.phase # "idle" /\ s'.life = "open"
    BY <1>1, <1>2, <1>3 DEF WaitersNotStranded
  <2>3. unbusyWaiters' # {} => Busy(s)' /\ s'.life = "open"
    BY <1>1, <1>2, <1>3 DEF WaitersNotStranded
  <2>4. compactionWaiters' # {} => s'.tokenStage \in {"stopping", "stopped"}
    BY <1>1, <1>3 DEF WaitersNotStranded, WindowKept
  <2> QED BY <2>1, <2>2, <2>3, <2>4 DEF WaitersNotStranded
<1> QED BY <1>5, <1>6, <1>7, <1>8 DEF Core

(* A call that leaves the waiters and what they wait for as they are.      *)
LEMMA SilentStep ==
  ASSUME Core, NEW t, Still(s, t), SameWindow(s, t),
         t.reservations = s.reservations, s' = t,
         UNCHANGED <<stack, idleWaiters, unbusyWaiters, compactionWaiters,
                     waiting>>,
         prepared' \in Nat
  PROVE  Core'
<1>1. /\ t \in CoordinatorState /\ t.phase = s.phase /\ t.life = s.life
      /\ t.token = s.token /\ t.tokenStage = s.tokenStage
  BY DEF Still, SameWindow
<1>2. Types'
  BY <1>1 DEF Core, Types
<1>3. Observers' /\ Detached' = Detached
  BY DEF Core, Observers, Detached
<1>4. Window'
  BY <1>1 DEF Core, Window
<1>5. Busy(s)' <=> Busy(s)
  BY <1>1 DEF Busy, Reserved
<1>6. WaitersNotStranded'
  BY <1>1, <1>3, <1>5 DEF Core, WaitersNotStranded
<1> QED BY <1>2, <1>3, <1>4, <1>6 DEF Core

LEMMA NothingStep ==
  ASSUME Core,
         UNCHANGED <<s, stack, idleWaiters, unbusyWaiters, compactionWaiters,
                     waiting>>,
         prepared' \in Nat
  PROVE  Core'
<1>1. s \in CoordinatorState
  BY DEF Core, Types
<1> QED BY <1>1, StillSelf, SilentStep

-----------------------------------------------------------------------------
(* The commands of a dispatch, and its return.                             *)

LEMMA RunCommandStep ==
  ASSUME Core, 
         \/ PublishPhase \/ RunDrain \/ ObserverReturns \/ RunRecordStart
         \/ RunRetire \/ RunDecisions \/ RunPolicy \/ RunDispose
  PROVE  Core'
<1>1. prepared \in Nat /\ None \in Nat
  BY DEF Core, Types, None
<1>2. ObserverReturns => Top.cmds # << >>
  <2>1. stack \in Seq(Frames) /\ Observers
    BY DEF Core, Types
  <2>2. stack # << >> => Len(stack) \in DOMAIN stack
    BY <2>1, TopType
  <2> QED BY <2>1, <2>2 DEF ObserverReturns, Observers, Top
<1>3. CASE PublishPhase
  BY <1>1, <1>3, CommandStep DEF PublishPhase, HeadIs, registries
<1>4. CASE RunDrain
  BY <1>1, <1>4, CommandStep DEF RunDrain, HeadIs, registries
<1>5. CASE ObserverReturns
  BY <1>1, <1>2, <1>5, CommandStep DEF ObserverReturns, registries
<1>6. CASE RunRecordStart
  BY <1>1, <1>6, CommandStep DEF RunRecordStart, HeadIs, registries
<1>7. CASE RunRetire
  BY <1>1, <1>7, CommandStep DEF RunRetire, HeadIs, registries
<1>8. CASE RunDecisions
  BY <1>1, <1>8, CommandStep DEF RunDecisions, HeadIs, registries
<1>9. CASE RunPolicy
  BY <1>1, <1>9, CommandStep DEF RunPolicy, HeadIs, registries
<1>10. CASE RunDispose
  BY <1>1, <1>10, CommandStep DEF RunDispose, HeadIs
<1> QED BY <1>3, <1>4, <1>5, <1>6, <1>7, <1>8, <1>9, <1>10

(* The batch that a dispatch detached is released when it returns, so its  *)
(* frame can go.                                                           *)
LEMMA ReturnStep == ASSUME Core, Return PROVE Core'
<1> DEFINE n == Len(stack)
<1>1. /\ stack # << >> /\ stack' = SubSeq(stack, 1, n - 1)
      /\ waiting' = Released(waiting, Top.detached)
      /\ UNCHANGED <<s, idleWaiters, unbusyWaiters, prepared,
                     compactionWaiters>>
  BY DEF Return
<1>2. Types /\ Observers /\ WaitersNotStranded /\ Window
  BY DEF Core
<1>3. /\ stack \in Seq(Frames) /\ n \in Nat \ {0} /\ DOMAIN stack = 1 .. n
      /\ Top = stack[n]
  BY <1>1, <1>2, TopType DEF Types, Top
<1> HIDE DEF n
<1>4. /\ stack' \in Seq(Frames) /\ Len(stack') = n - 1
      /\ \A i \in 1 .. n - 1 : stack'[i] = stack[i]
  <2>1. \A i \in 1 .. n - 1 : stack[i] \in Frames
    BY <1>3, ElementOfSeq, LenProperties
  <2>2. /\ SubSeq(stack, 1, n - 1) \in Seq(Frames)
        /\ Len(SubSeq(stack, 1, n - 1)) = IF 1 <= n - 1 THEN n - 1 ELSE 0
        /\ \A i \in 1 .. n - 1 : SubSeq(stack, 1, n - 1)[i] = stack[i]
    BY <1>3, <2>1, SubSeqProperties
  <2> QED BY <1>1, <1>3, <2>2
<1>5. DOMAIN stack' = 1 .. n - 1
  BY <1>4, LenProperties
<1>6. Observers'
  BY <1>2, <1>3, <1>4, <1>5 DEF Observers
<1>7. Detached \subseteq Detached' \cup Top.detached
  <2>1. DOMAIN stack = DOMAIN stack' \cup {n}
    BY <1>3, <1>5
  <2> QED BY <1>3, <1>4, <1>5, <2>1 DEF Detached
<1>8. /\ waiting' \in [Waiters -> WaitStates]
      /\ \A w \in Waiters : waiting'[w] =
            IF w \in Top.detached THEN "off" ELSE waiting[w]
  BY <1>1, <1>2, ReleasedType DEF Types
<1>9. Types'
  BY <1>1, <1>2, <1>4, <1>8 DEF Types
<1>10. Window'
  BY <1>1, <1>2 DEF Window
<1>11. WaitersNotStranded'
  <2>1. ASSUME NEW w \in Waiters
        PROVE  /\ waiting'[w] = "idle" => w \in idleWaiters' \cup Detached'
               /\ waiting'[w] = "unbusy" => w \in unbusyWaiters' \cup Detached'
               /\ waiting'[w] = "compaction" => w \in compactionWaiters'
    BY <1>1, <1>2, <1>7, <1>8 DEF WaitersNotStranded
  <2> QED BY <1>1, <1>2, <2>1 DEF WaitersNotStranded, Busy, Reserved
<1> QED BY <1>6, <1>9, <1>10, <1>11 DEF Core

-----------------------------------------------------------------------------
(* Joining and leaving a wait.                                             *)

LEMMA WaitForStep ==
  ASSUME Core, NEW w \in Waiters, NEW what \in {"idle", "unbusy", "compaction"},
         WaitFor(w, what)
  PROVE  Core'
<1>1. /\ UNCHANGED <<s, stack, prepared>>
      /\ waiting' = [waiting EXCEPT ![w] = what]
      /\ idleWaiters' = IF what = "idle" THEN idleWaiters \cup {w}
                                         ELSE idleWaiters
      /\ unbusyWaiters' = IF what = "unbusy" THEN unbusyWaiters \cup {w}
                                             ELSE unbusyWaiters
      /\ compactionWaiters' = IF what = "compaction"
                                THEN compactionWaiters \cup {w}
                                ELSE compactionWaiters
      /\ what = "idle" => s.phase # "idle" /\ s.life = "open"
      /\ what = "unbusy" => Busy(s) /\ s.life = "open"
      /\ what = "compaction" => s.tokenStage \in {"stopping", "stopped"}
  BY DEF WaitFor
<1>2. Types /\ Observers /\ WaitersNotStranded /\ Window
  BY DEF Core
<1>3. Types'
  BY <1>1, <1>2 DEF Types, WaitStates
<1>4. Observers' /\ Detached' = Detached /\ Window'
  BY <1>1, <1>2 DEF Observers, Detached, Window
<1>5. \A x \in Waiters : waiting'[x] = IF x = w THEN what ELSE waiting[x]
  BY <1>1, <1>2 DEF Types
<1>6. WaitersNotStranded'
  <2>1. ASSUME NEW x \in Waiters
        PROVE  /\ waiting'[x] = "idle" => x \in idleWaiters' \cup Detached'
               /\ waiting'[x] = "unbusy" => x \in unbusyWaiters' \cup Detached'
               /\ waiting'[x] = "compaction" => x \in compactionWaiters'
    BY <1>1, <1>2, <1>4, <1>5 DEF WaitersNotStranded
  <2>2. Busy(s)' <=> Busy(s)
    BY <1>1 DEF Busy, Reserved
  <2> QED BY <1>1, <1>2, <2>1, <2>2 DEF WaitersNotStranded
<1> QED BY <1>3, <1>4, <1>6 DEF Core

LEMMA CancelWaitStep ==
  ASSUME Core, NEW w \in Waiters, CancelWait(w)
  PROVE  Core'
<1> DEFINE n == Len(stack)
           g(i) == [stack[i] EXCEPT !.detached = @ \ {w}]
<1>1. /\ UNCHANGED <<s, prepared, compactionWaiters>>
      /\ waiting' = [waiting EXCEPT ![w] = "off"]
      /\ idleWaiters' = idleWaiters \ {w}
      /\ unbusyWaiters' = unbusyWaiters \ {w}
      /\ waiting[w] \in {"idle", "unbusy"}
      /\ stack' = [i \in DOMAIN stack |-> g(i)]
  BY DEF CancelWait
<1>2. Types /\ Observers /\ WaitersNotStranded /\ Window
  BY DEF Core
<1>3. stack \in Seq(Frames) /\ n \in Nat /\ DOMAIN stack = 1 .. n
  BY <1>2, LenProperties DEF Types
<1>4. \A i \in 1 .. n :
         /\ g(i) \in Frames /\ g(i).detached = stack[i].detached \ {w}
         /\ g(i).observing = stack[i].observing /\ g(i).cmds = stack[i].cmds
  <2>1. \A i \in 1 .. n : stack[i] \in Frames
    BY <1>3, ElementOfSeq
  <2> QED BY <2>1 DEF Frames
<1> HIDE DEF g, n
<1>5. stack' \in [1 .. n -> Frames] /\ DOMAIN stack' = 1 .. n
  BY <1>1, <1>3, <1>4
<1>6. stack' \in Seq(Frames)
  BY <1>3, <1>5, SeqDef
<1>7. \A i \in 1 .. n : stack'[i] = g(i)
  BY <1>1, <1>3
<1>8. Observers'
  BY <1>2, <1>3, <1>4, <1>5, <1>7 DEF Observers
<1>9. Detached \ {w} \subseteq Detached'
  BY <1>3, <1>4, <1>5, <1>7 DEF Detached
<1>10. Types'
  BY <1>1, <1>2, <1>6 DEF Types, WaitStates
<1>11. Window'
  BY <1>1, <1>2 DEF Window
<1>12. \A x \in Waiters : waiting'[x] = IF x = w THEN "off" ELSE waiting[x]
  BY <1>1, <1>2 DEF Types
<1>13. WaitersNotStranded'
  <2>1. ASSUME NEW x \in Waiters
        PROVE  /\ waiting'[x] = "idle" => x \in idleWaiters' \cup Detached'
               /\ waiting'[x] = "unbusy" => x \in unbusyWaiters' \cup Detached'
               /\ waiting'[x] = "compaction" => x \in compactionWaiters'
    BY <1>1, <1>2, <1>9, <1>12 DEF WaitersNotStranded
  <2>2. Busy(s)' <=> Busy(s)
    BY <1>1 DEF Busy, Reserved
  <2> QED BY <1>1, <1>2, <2>1, <2>2 DEF WaitersNotStranded
<1> QED BY <1>8, <1>10, <1>11, <1>13 DEF Core

(* The waits that the end of the lifetime answers.                         *)
LEMMA LifetimeEnds ==
  ASSUME Core, NEW t \in CoordinatorState, SameWindow(s, t), s' = t,
         stack' \in Seq(Frames), Observers',
         Detached \subseteq Detached',
         idleWaiters' = {}, unbusyWaiters' = {},
         waiting' = Released(waiting, LifetimeWaiters),
         UNCHANGED compactionWaiters, prepared' \in Nat
  PROVE  Core'
<1>1. Types /\ WaitersNotStranded /\ Window
  BY DEF Core
<1>2. /\ waiting' \in [Waiters -> WaitStates]
      /\ \A w \in Waiters : waiting'[w] =
            IF w \in LifetimeWaiters THEN "off" ELSE waiting[w]
  BY <1>1, ReleasedType DEF Types
<1>3. Types'
  BY <1>1, <1>2 DEF Types
<1>4. Window'
  BY <1>1 DEF Window, SameWindow
<1>5. WaitersNotStranded'
  <2>1. ASSUME NEW x \in Waiters
        PROVE  /\ waiting'[x] = "idle" => x \in idleWaiters' \cup Detached'
               /\ waiting'[x] = "unbusy" => x \in unbusyWaiters' \cup Detached'
               /\ waiting'[x] = "compaction" => x \in compactionWaiters'
    BY <1>1, <1>2 DEF WaitersNotStranded, LifetimeWaiters
  <2> QED BY <1>1, <2>1 DEF WaitersNotStranded, SameWindow
<1> QED BY <1>3, <1>4, <1>5 DEF Core

LEMMA BeginShutdownStep == ASSUME Core, BeginShutdown PROVE Core'
<1>1. Types /\ Observers
  BY DEF Core
<1>2. /\ Shutdown(s).s \in CoordinatorState
      /\ SameWindow(s, Shutdown(s).s)
  BY <1>1, ShutdownState DEF Types
<1>3. /\ s' = Shutdown(s).s
      /\ UNCHANGED <<stack, prepared, compactionWaiters>>
      /\ idleWaiters' = {} /\ unbusyWaiters' = {}
      /\ waiting' = Released(waiting, LifetimeWaiters)
  BY DEF BeginShutdown
<1>4. Observers' /\ Detached' = Detached
  BY <1>1, <1>3 DEF Observers, Detached
<1>5. stack' \in Seq(Frames) /\ prepared' \in Nat
  BY <1>1, <1>3 DEF Types
<1> QED BY <1>2, <1>3, <1>4, <1>5, LifetimeEnds

LEMMA DisposeStep == ASSUME Core, DisposeSession PROVE Core'
<1> DEFINE u == Shutdown(s).s
           r == Dispose(u)
           gone == PublishesIdle(r.cmds) /\ prepared = r.s.turn
           out == {} \cup {}
           p == IF gone THEN prepared ELSE None
           f == Frame(r.cmds, out, p, "dispose", None)
<1>1. Types /\ Observers
  BY DEF Core
<1>2. /\ u \in CoordinatorState /\ SameWindow(s, u) /\ u.life # "disposed"
  BY <1>1, ShutdownState DEF Types, DisposeSession
<1> HIDE DEF u
<1>3. /\ r.s \in CoordinatorState /\ SameWindow(u, r.s)
      /\ r.cmds \in Seq(Command) /\ PublishesIdle(r.cmds)
  BY <1>2, DisposeState
<1>4. /\ s' = r.s /\ idleWaiters' = {} /\ unbusyWaiters' = {}
      /\ prepared' = IF gone THEN None ELSE prepared
      /\ stack' = Append(stack, f)
      /\ waiting' = Released(waiting, LifetimeWaiters)
      /\ UNCHANGED compactionWaiters
  BY <1>3 DEF DisposeSession, DispatchFrom, u
<1> HIDE DEF r, gone
<1>5. p \in Nat /\ prepared' \in Nat /\ None \in Nat /\ "dispose" \in Continuations
  BY <1>1, <1>4 DEF Types, None, Continuations
<1> HIDE DEF p
<1>6. f \in Frames /\ f.detached = {} /\ ~f.observing
  BY <1>3, <1>5, FrameType
<1> HIDE DEF f
<1>7. /\ stack' \in Seq(Frames) /\ Observers'
      /\ Detached \subseteq Detached'
  BY <1>1, <1>4, <1>6, PushFrame
<1>8. SameWindow(s, r.s)
  BY <1>2, <1>3 DEF SameWindow
<1> QED BY <1>3, <1>4, <1>5, <1>7, <1>8, LifetimeEnds

LEMMA CloseStep == ASSUME Core, Close PROVE Core'
<1>1. Types /\ Observers
  BY DEF Core
<1>2. s \in CoordinatorState /\ SameWindow(s, s)
  BY <1>1, StillSelf DEF Types
<1>3. /\ UNCHANGED <<s, stack, prepared, compactionWaiters>>
      /\ idleWaiters' = {} /\ unbusyWaiters' = {}
      /\ waiting' = Released(waiting, LifetimeWaiters)
  BY DEF Close
<1>4. Observers' /\ Detached' = Detached
  BY <1>1, <1>3 DEF Observers, Detached
<1>5. stack' \in Seq(Frames) /\ prepared' \in Nat
  BY <1>1, <1>3 DEF Types
<1> QED BY <1>2, <1>3, <1>4, <1>5, LifetimeEnds

LEMMA FinishObservationStep ==
  ASSUME Core, NEW token \in Nat, FinishCompactionObservation(token)
  PROVE  Core'
<1> DEFINE t == CompactionFinish(s, token).s
<1>1. Types /\ Observers /\ WaitersNotStranded
  BY DEF Core
<1>2. /\ s' = t /\ UNCHANGED <<stack, idleWaiters, unbusyWaiters, prepared>>
      /\ s.token = token
      /\ IF t.tokenStage \in {"stopping", "stopped"}
           THEN UNCHANGED <<compactionWaiters, waiting>>
           ELSE /\ compactionWaiters' = {}
                /\ waiting' = Released(waiting, compactionWaiters)
  BY DEF FinishCompactionObservation
<1>3. Still(s, t)
  BY <1>1, ObservationStill DEF Types, Stages
<1>4. /\ t \in CoordinatorState /\ t.phase = s.phase /\ t.life = s.life
      /\ t.reservations = s.reservations /\ t.tokenStage = "none"
  BY <1>1, <1>2, <1>3
     DEF Still, CompactionFinish, Result, Types, CoordinatorState
<1> HIDE DEF t
<1>5. /\ compactionWaiters' = {} /\ waiting' \in [Waiters -> WaitStates]
      /\ \A w \in Waiters : waiting'[w] =
            IF w \in compactionWaiters THEN "off" ELSE waiting[w]
  BY <1>1, <1>2, <1>4, ReleasedType DEF Types
<1>6. Types'
  BY <1>1, <1>2, <1>4, <1>5 DEF Types
<1>7. Observers' /\ Detached' = Detached
  BY <1>1, <1>2 DEF Observers, Detached
<1>8. Window'
  BY <1>2, <1>4 DEF Window
<1>9. WaitersNotStranded'
  <2>1. ASSUME NEW x \in Waiters
        PROVE  /\ waiting'[x] = "idle" => x \in idleWaiters' \cup Detached'
               /\ waiting'[x] = "unbusy" => x \in unbusyWaiters' \cup Detached'
               /\ waiting'[x] = "compaction" => x \in compactionWaiters'
    BY <1>1, <1>2, <1>5, <1>7 DEF WaitersNotStranded
  <2>2. Busy(s)' <=> Busy(s)
    BY <1>2, <1>4 DEF Busy, Reserved
  <2> QED BY <1>1, <1>2, <1>4, <1>5, <2>1, <2>2 DEF WaitersNotStranded
<1> QED BY <1>6, <1>7, <1>8, <1>9 DEF Core

-----------------------------------------------------------------------------
(* The actions.                                                            *)

LEMMA SymbolTypes ==
  /\ \A o \in Ops : o \in Nat /\ StartupMsg(o) \in Nat /\ StreamMsg(o) \in Nat
  /\ Turns \subseteq Nat /\ Messages \subseteq Nat /\ 1 .. MaxTokens \subseteq Nat
  /\ ForeignMsg \in Nat
  /\ Issued => /\ issued.turn + 1 \in Nat /\ issued.op + 1 \in Nat
               /\ issued.resv + 1 \in Nat /\ issued.token + 1 \in Nat
               /\ [issued EXCEPT !.turn = issued.turn + 1]
                    \in [turn : Nat, op : Nat, resv : Nat, token : Nat]
               /\ [issued EXCEPT !.op = issued.op + 1]
                    \in [turn : Nat, op : Nat, resv : Nat, token : Nat]
               /\ [issued EXCEPT !.resv = issued.resv + 1]
                    \in [turn : Nat, op : Nat, resv : Nat, token : Nat]
               /\ [issued EXCEPT !.token = issued.token + 1]
                    \in [turn : Nat, op : Nat, resv : Nat, token : Nat]
BY BoundsAssumption
   DEF Ops, StartupMsg, StreamMsg, Turns, Messages, ForeignMsg, Issued

LEMMA PrepareFreshStep ==
  ASSUME Inv, NEW intent, NEW expected, NEW edit, NEW controlled \in BOOLEAN,
         PrepareFresh(intent, expected, edit, controlled)
  PROVE  Inv'
<1> DEFINE id == issued.turn + 1
           req == [kind |-> "fresh", intent |-> intent,
                   expected |-> expected, edit |-> edit]
<1>1. Core /\ Issued /\ s \in CoordinatorState
  BY DEF Inv, Core, Types
<1>2. id \in Nat /\ Install(id, controlled) \in Nat /\ "prepare" \in Continuations
  BY <1>1, SymbolTypes DEF Install, None, Continuations
<1>3. /\ Dispatch(Prepare(s, id, req), Install(id, controlled), "prepare", id)
      /\ issued' = [issued EXCEPT !.turn = id]
      /\ UNCHANGED <<waiting, compactionWaiters>>
  BY DEF PrepareFresh
<1>4. Regular(s, Prepare(s, id, req))
  BY <1>1, <1>2, PrepareRegular
<1> HIDE DEF req
<1>5. Core'
  BY <1>1, <1>2, <1>3, <1>4, DispatchStep
<1>6. Issued'
  BY <1>1, <1>3, SymbolTypes DEF Issued
<1> QED BY <1>5, <1>6 DEF Inv

LEMMA PreparationStep ==
  ASSUME Inv,
         \/ \E t \in Turns : PrepareAdopt(t) \/ FinishPreparation(t)
         \/ PreemptPreparation
  PROVE  Inv'
<1>1. Core /\ Issued /\ s \in CoordinatorState /\ prepared \in Nat
  BY DEF Inv, Core, Types
<1>2. /\ None \in Nat /\ "none" \in Continuations
      /\ "preempt" \in Continuations
  BY DEF None, Continuations
<1>3. ASSUME NEW t \in Turns, PrepareAdopt(t) PROVE Inv'
  <2> DEFINE req == [kind |-> "adopt", intent |-> "direct", expected |-> t,
                     edit |-> None]
  <2>1. /\ Dispatch(Prepare(s, t, req), t, "none", None)
        /\ UNCHANGED <<waiting, compactionWaiters, issued>>
    BY <1>3 DEF PrepareAdopt
  <2>2. t \in Nat /\ Regular(s, Prepare(s, t, req))
    BY <1>1, SymbolTypes, PrepareRegular
  <2> HIDE DEF req
  <2>3. Core'
    BY <1>1, <1>2, <2>1, <2>2, DispatchStep
  <2> QED BY <1>1, <2>1, <2>3 DEF Inv, Issued
<1>4. ASSUME NEW t \in Turns, FinishPreparation(t) PROVE Inv'
  <2> DEFINE prep == IF prepared = t THEN None ELSE prepared
  <2>1. /\ Dispatch(Finish(s, t, TRUE), prep, "none", None)
        /\ UNCHANGED <<waiting, compactionWaiters, issued>>
    BY <1>4 DEF FinishPreparation
  <2>2. Regular(s, Finish(s, t, TRUE)) /\ prep \in Nat
    BY <1>1, <1>2, SymbolTypes, FinishRegular
  <2> HIDE DEF prep
  <2>3. Core'
    BY <1>1, <1>2, <2>1, <2>2, DispatchStep
  <2> QED BY <1>1, <2>1, <2>3 DEF Inv, Issued
<1>5. ASSUME PreemptPreparation PROVE Inv'
  <2>1. /\ Dispatch(Preempt(s, prepared), None, "preempt", prepared)
        /\ UNCHANGED <<waiting, compactionWaiters, issued>>
    BY <1>5 DEF PreemptPreparation
  <2>2. Regular(s, Preempt(s, prepared))
    BY <1>1, PreemptRegular
  <2>3. Core'
    BY <1>1, <1>2, <2>1, <2>2, DispatchStep
  <2> QED BY <1>1, <2>1, <2>3 DEF Inv, Issued
<1> QED BY <1>3, <1>4, <1>5

LEMMA ThinkingStep ==
  ASSUME Inv, (\E t \in Turns : AcceptThinking(t)) \/ ReleaseThinking
  PROVE  Inv'
<1>1. Core /\ Issued /\ prepared \in Nat
  BY DEF Inv, Core, Types
<1>2. UNCHANGED <<s, stack, idleWaiters, unbusyWaiters, compactionWaiters,
                  waiting, prepared, issued>>
  BY DEF AcceptThinking, ReleaseThinking
<1>3. Core'
  BY <1>1, <1>2, NothingStep
<1> QED BY <1>1, <1>2, <1>3 DEF Inv, Issued

LEMMA ClaimsStep == ASSUME Inv, Claims PROVE Inv'
<1>1. CASE \E i, e, x : \E c \in BOOLEAN : PrepareFresh(i, x, e, c)
  BY <1>1, PrepareFreshStep
<1>2. CASE \/ \E t \in Turns : PrepareAdopt(t) \/ FinishPreparation(t)
           \/ PreemptPreparation
  BY <1>2, PreparationStep
<1>3. CASE (\E t \in Turns : AcceptThinking(t)) \/ ReleaseThinking
  BY <1>3, ThinkingStep
<1> QED BY <1>1, <1>2, <1>3 DEF Claims

(* A quiet event, and an event that only dispatches.                       *)
LEMMA QuietEvent ==
  ASSUME Inv, NEW r, Still(s, r.s), SameWindow(s, r.s), Quiet(r),
         UNCHANGED <<compactionWaiters, issued>>
  PROVE  Inv'
<1>1. Core /\ Issued /\ Quietly(r.s, SettlesOf(r))
  BY DEF Inv, Quiet
<1>2. Core'
  BY <1>1, SameWindowKept, QuietStep
<1> QED BY <1>1, <1>2 DEF Inv, Issued

LEMMA CallEvent ==
  ASSUME Inv, NEW r, Regular(s, r), Call(r)
  PROVE  Inv'
<1>1. Core /\ Issued /\ UNCHANGED issued
  BY DEF Inv, Call
<1>2. Core'
  BY <1>1, CallStep
<1> QED BY <1>1, <1>2 DEF Inv, Issued

LEMMA RegisterOperationStep ==
  ASSUME Inv, NEW t \in Turns, RegisterOperation(t)
  PROVE  Inv'
<1> DEFINE o == issued.op + 1
           u == Register(s, o, t).s
<1>1. Core /\ Issued /\ s \in CoordinatorState
  BY DEF Inv, Core, Types
<1>2. Still(s, u) /\ SameWindow(s, u)
  BY <1>1, SymbolTypes, RegisterStill
<1>3. /\ Quietly(u, {}) /\ issued' = [issued EXCEPT !.op = o]
      /\ UNCHANGED compactionWaiters
  BY DEF RegisterOperation
<1> HIDE DEF u
<1>4. Core'
  BY <1>1, <1>2, <1>3, SameWindowKept, QuietStep
<1>5. Issued'
  BY <1>1, <1>3, SymbolTypes DEF Issued
<1> QED BY <1>4, <1>5 DEF Inv

LEMMA OperationsStep ==
  ASSUME Inv, NEW o \in Ops, Operations(o)
  PROVE  Inv'
<1>1. Core /\ Issued /\ s \in CoordinatorState /\ s.turn \in Nat /\ prepared \in Nat
  BY DEF Inv, Core, Types, CoordinatorState
<1>2. StartupMsg(o) \in Nat /\ StreamMsg(o) \in Nat /\ o \in Nat
  BY SymbolTypes
<1>3. CASE ConfigureOperation(o)
  <2>1. Still(s, Configure(s, o, TRUE).s) /\ SameWindow(s, Configure(s, o, TRUE).s)
    BY <1>1, <1>2, OperationStill
  <2>2. Quiet(Configure(s, o, TRUE)) /\ UNCHANGED <<compactionWaiters, issued>>
    BY <1>3 DEF ConfigureOperation, Inert
  <2> QED BY <2>1, <2>2, QuietEvent
<1>4. CASE StreamStarting(o)
  <2> DEFINE r == Starting(s, o, StartupMsg(o))
  <2>1. Still(s, r.s) /\ SameWindow(s, r.s)
    BY <1>1, <1>2, OperationStill
  <2>2. Quiet(r) /\ UNCHANGED <<compactionWaiters, issued>>
    BY <1>4 DEF StreamStarting, Inert
  <2> HIDE DEF r
  <2> QED BY <2>1, <2>2, QuietEvent
<1>5. CASE StreamStarted(o)
  <2>1. Regular(s, Started(s, StreamMsg(o)))
    BY <1>1, <1>2, StartedRegular
  <2> QED BY <1>5, <2>1, CallEvent DEF StreamStarted
<1>6. ASSUME NEW kind, StreamEnds(o, kind) PROVE Inv'
  <2> DEFINE r == IF Observing(StreamMsg(o))
                    THEN FinishObserved(s, s.turn, StreamMsg(o))
                    ELSE RawTerminal(s, kind, StreamMsg(o))
  <2>1. Regular(s, r)
    BY <1>1, <1>2, FinishObservedRegular, RawTerminalRegular
  <2>2. Call(r)
    BY <1>6 DEF StreamEnds
  <2> HIDE DEF r
  <2> QED BY <2>1, <2>2, CallEvent
<1>7. CASE StreamFails(o)
  <2>1. Regular(s, FinishObserved(s, s.turn, StreamMsg(o)))
    BY <1>1, <1>2, FinishObservedRegular
  <2>2. ASSUME NEW V, Quiet(BeginDecision(s, "error", StreamMsg(o), V)), Inert
        PROVE  Inv'
    <3> DEFINE r == BeginDecision(s, "error", StreamMsg(o), V)
    <3>1. Still(s, r.s) /\ SameWindow(s, r.s)
      BY <1>1, <1>2, BeginDecisionStill DEF DecisionKinds
    <3>2. Quiet(r) /\ UNCHANGED <<compactionWaiters, issued>>
      BY <2>2 DEF Inert
    <3> HIDE DEF r
    <3> QED BY <3>1, <3>2, QuietEvent
  <2> QED BY <1>7, <2>1, <2>2, CallEvent DEF StreamFails
<1>8. CASE StartupAborts(o)
  <2> DEFINE r == StartupAbort(s, StartupMsg(o))
  <2>1. Still(s, r.s) /\ SameWindow(s, r.s)
    BY <1>1, <1>2, OperationStill
  <2>2. Quiet(r) /\ UNCHANGED <<compactionWaiters, issued>>
    BY <1>8 DEF StartupAborts, Inert
  <2> HIDE DEF r
  <2> QED BY <2>1, <2>2, QuietEvent
<1>9. CASE PreStartError(o)
  <2>1. PICK V \in Evictions(s, "error") :
           Quiet(BeginDecision(s, "error", StartupMsg(o), V))
    BY <1>9 DEF PreStartError
  <2> DEFINE r == BeginDecision(s, "error", StartupMsg(o), V)
  <2>2. Still(s, r.s) /\ SameWindow(s, r.s)
    BY <1>1, <1>2, BeginDecisionStill DEF DecisionKinds
  <2>3. Quiet(r) /\ UNCHANGED <<compactionWaiters, issued>>
    BY <1>9, <2>1 DEF PreStartError, Inert
  <2> HIDE DEF r
  <2> QED BY <2>2, <2>3, QuietEvent
<1>10. CASE StartupFails(o) \/ DeliverHandle(o)
  <2>1. UNCHANGED <<s, stack, idleWaiters, unbusyWaiters, compactionWaiters,
                    waiting, prepared, issued>>
    BY <1>10 DEF StartupFails, DeliverHandle, Produce, registries
  <2>2. Core'
    BY <1>1, <2>1, NothingStep
  <2> QED BY <1>1, <2>1, <2>2 DEF Inv, Issued
<1> QED BY <1>3, <1>4, <1>5, <1>6, <1>7, <1>8, <1>9, <1>10 DEF Operations

LEMMA AnswerAllStep ==
  ASSUME Core, NEW msg, AnswerAll(msg), UNCHANGED compactionWaiters
  PROVE  Core'
<1> DEFINE P == PendingOn(msg)
           A == {Fallback(d) : d \in P}
           D == (s.decisions \ P) \cup A
           t == [s EXCEPT !.decisions = D]
<1>1. s \in CoordinatorState /\ s.decisions \in SUBSET Decision
  BY DEF Core, Types, CoordinatorState
<1>2. P \in SUBSET Decision
  BY <1>1 DEF PendingOn
<1>3. A \in SUBSET Decision
  BY <1>2, FallbackType
<1>4. Quietly(t, A)
  BY DEF AnswerAll
<1> HIDE DEF P, A
<1>5. D \in SUBSET Decision
  BY <1>1, <1>3
<1> HIDE DEF D
<1>6. Still(s, t) /\ SameWindow(s, t)
  BY <1>1, <1>5, DecisionsStill
<1> HIDE DEF t
<1> QED BY <1>4, <1>6, SameWindowKept, QuietStep

LEMMA CompletionsStep ==
  ASSUME Inv, NEW o \in Ops, Completions(o)
  PROVE  Inv'
<1>1. /\ Core /\ Issued /\ s \in CoordinatorState /\ s.turn \in Nat
      /\ prepared \in Nat
  BY DEF Inv, Core, Types, CoordinatorState
<1>2. /\ o \in Nat /\ StartupMsg(o) \in Nat /\ StreamMsg(o) \in Nat
      /\ HandleMsg(o) \in Nat
  BY SymbolTypes DEF HandleMsg
<1>3. CASE CompletionArrives(o)
  <2> DEFINE a == outcome[o] \in {"aborted", "cancelled"}
             r == Completion(s, o, HandleMsg(o), a)
  <2>1. Regular(s, r)
    <3>1. a \in BOOLEAN
      OBVIOUS
    <3> HIDE DEF a
    <3> QED BY <1>1, <1>2, <3>1, CompletionRegular
  <2>2. CASE IsCurrentOperation(s, o)
    <3>1. /\ Dispatch(r, prepared, "none", None)
          /\ UNCHANGED <<waiting, compactionWaiters, issued>>
      BY <1>3, <2>2 DEF CompletionArrives
    <3>2. None \in Nat /\ "none" \in Continuations
      BY DEF None, Continuations
    <3> HIDE DEF r
    <3>3. Core'
      BY <1>1, <2>1, <3>1, <3>2, DispatchStep
    <3> QED BY <1>1, <3>1, <3>3 DEF Inv, Issued
  <2>3. CASE ~IsCurrentOperation(s, o)
    <3>1. AnswerAll(HandleMsg(o)) /\ UNCHANGED <<compactionWaiters, issued>>
      BY <1>3, <2>3 DEF CompletionArrives
    <3>2. Core'
      BY <1>1, <3>1, AnswerAllStep
    <3> QED BY <1>1, <3>1, <3>2 DEF Inv, Issued
  <2> QED BY <2>2, <2>3
<1>4. CASE HandlerClears(o) \/ FinishStartup(o)
  <2>1. UNCHANGED <<s, stack, idleWaiters, unbusyWaiters, compactionWaiters,
                    waiting, prepared, issued>>
    BY <1>4 DEF HandlerClears, FinishStartup, registries
  <2>2. Core'
    BY <1>1, <2>1, NothingStep
  <2> QED BY <1>1, <2>1, <2>2 DEF Inv, Issued
<1>5. CASE PolicyReturns(o)
  <2>1. AnswerAll(HandleMsg(o)) /\ UNCHANGED <<compactionWaiters, issued>>
    BY <1>5 DEF PolicyReturns
  <2>2. Core'
    BY <1>1, <2>1, AnswerAllStep
  <2> QED BY <1>1, <2>1, <2>2 DEF Inv, Issued
<1>6. CASE BeginPolicy(o)
  <2>1. Regular(s, CompletePolicy(s, s.turn)) /\ Call(CompletePolicy(s, s.turn))
    BY <1>1, <1>6, CompletePolicyRegular DEF BeginPolicy
  <2> QED BY <2>1, CallEvent
<1>7. CASE FinishTurn(o)
  <2>1. Regular(s, Finish(s, s.turn, FALSE)) /\ Call(Finish(s, s.turn, FALSE))
    BY <1>1, <1>7, FinishRegular DEF FinishTurn
  <2> QED BY <2>1, CallEvent
<1>8. ASSUME NEW kind \in DecisionKinds, NEW msg \in Nat, NEW v \in Verdicts,
             ResolveVerdict(o, kind, msg, v)
      PROVE  Inv'
  <2> DEFINE r == ResolveDecision(s, kind, msg, v)
  <2>1. Still(s, r.s) /\ SameWindow(s, r.s)
    BY <1>1, ResolveDecisionStill
  <2>2. Quiet(r) /\ UNCHANGED <<compactionWaiters, issued>>
    BY <1>8 DEF ResolveVerdict, Inert
  <2> HIDE DEF r
  <2> QED BY <2>1, <2>2, QuietEvent
<1>9. /\ {"error", "compaction"} \subseteq DecisionKinds
      /\ {"terminal", "retry-started", "accepted", "declined"} \subseteq Verdicts
  BY DEF DecisionKinds, Verdicts
<1> QED BY <1>2, <1>3, <1>4, <1>5, <1>6, <1>7, <1>8, <1>9 DEF Completions

(* What the engine does to a session that is not driving it.               *)
LEMMA EngineStep ==
  ASSUME Inv,
         SyntheticAbort \/ ForeignEnds \/ \E m \in Messages : ObserveReplay(m)
  PROVE  Inv'
<1>1. s \in CoordinatorState /\ s.turn \in Nat
  BY DEF Inv, Core, Types, CoordinatorState
<1>2. CASE SyntheticAbort
  <2> DEFINE r == StartupAbort(s, None)
  <2>1. Still(s, r.s) /\ SameWindow(s, r.s)
    BY <1>1, OperationStill DEF None
  <2>2. Quiet(r) /\ UNCHANGED <<compactionWaiters, issued>>
    BY <1>2 DEF SyntheticAbort, Inert
  <2> HIDE DEF r
  <2> QED BY <2>1, <2>2, QuietEvent
<1>3. CASE ForeignEnds
  <2> DEFINE r == IF Observing(ForeignMsg)
                    THEN FinishObserved(s, s.turn, ForeignMsg) ELSE Ignored(s)
  <2>1. Regular(s, r) /\ Call(r)
    BY <1>1, <1>3, SymbolTypes, FinishObservedRegular, IgnoredRegular
       DEF ForeignEnds
  <2> HIDE DEF r
  <2> QED BY <2>1, CallEvent
<1>4. ASSUME NEW m \in Messages, ObserveReplay(m) PROVE Inv'
  <2>1. Regular(s, ObserveStream(s, m)) /\ Call(ObserveStream(s, m))
    BY <1>1, <1>4, SymbolTypes, ObserveRegular DEF ObserveReplay
  <2> QED BY <2>1, CallEvent
<1> QED BY <1>2, <1>3, <1>4

LEMMA HoldsStep == ASSUME Inv, Holds PROVE Inv'
<1>1. Core /\ Issued /\ s \in CoordinatorState
  BY DEF Inv, Core, Types
<1>2. ASSUME NEW k \in ReservationKinds, MakeReservation(k) PROVE Inv'
  <2> DEFINE id == issued.resv + 1
             t == Reserve(s, id, k).s
  <2>1. Still(s, t) /\ SameWindow(s, t)
    BY <1>1, SymbolTypes, HoldsStill
  <2>2. /\ Quietly(t, SettlesOf(Reserve(s, id, k))) /\ UNCHANGED compactionWaiters
        /\ issued' = [issued EXCEPT !.resv = id]
    BY <1>2 DEF MakeReservation, Quiet
  <2> HIDE DEF t
  <2>3. Core'
    BY <1>1, <2>1, <2>2, SameWindowKept, QuietStep
  <2>4. Issued'
    BY <1>1, <2>2, SymbolTypes DEF Issued
  <2> QED BY <2>3, <2>4 DEF Inv
<1>3. ASSUME NEW r, ReleaseReservation(r) PROVE Inv'
  <2>1. Regular(s, Release(s, r.id, r.kind)) /\ Call(Release(s, r.id, r.kind))
    BY <1>1, <1>3, ReleaseRegular DEF ReleaseReservation
  <2> QED BY <2>1, CallEvent
<1>4. ASSUME NEW w \in Waiters, CancelWait(w) PROVE Inv'
  <2>1. Core' /\ UNCHANGED issued
    BY <1>1, <1>4, CancelWaitStep DEF CancelWait
  <2> QED BY <1>1, <2>1 DEF Inv, Issued
<1>5. ASSUME NEW w \in Waiters, NEW k \in {"idle", "unbusy", "compaction"},
             WaitFor(w, k)
      PROVE  Inv'
  <2>1. Core' /\ UNCHANGED issued
    BY <1>1, <1>5, WaitForStep DEF WaitFor
  <2> QED BY <1>1, <2>1 DEF Inv, Issued
<1>6. CASE BeginRetry
  <2> DEFINE id == issued.token + 1
             t == RetryStart(s, id).s
  <2>1. Still(s, t) /\ SameWindow(s, t)
    BY <1>1, SymbolTypes, HoldsStill DEF ReservationKinds
  <2>2. /\ Quietly(t, SettlesOf(RetryStart(s, id))) /\ UNCHANGED compactionWaiters
        /\ issued' = [issued EXCEPT !.token = id]
    BY <1>6 DEF BeginRetry, Quiet
  <2> HIDE DEF t
  <2>3. Core'
    BY <1>1, <2>1, <2>2, SameWindowKept, QuietStep
  <2>4. Issued'
    BY <1>1, <2>2, SymbolTypes DEF Issued
  <2> QED BY <2>3, <2>4 DEF Inv
<1>7. ASSUME NEW id \in 1 .. MaxTokens, FinishRetry(id) PROVE Inv'
  <2> DEFINE r == RetryFinish(s, id)
  <2>1. Still(s, r.s) /\ SameWindow(s, r.s)
    BY <1>1, SymbolTypes, HoldsStill DEF ReservationKinds
  <2>2. Quiet(r) /\ UNCHANGED <<compactionWaiters, issued>>
    BY <1>7 DEF FinishRetry, Inert
  <2> HIDE DEF r
  <2> QED BY <2>1, <2>2, QuietEvent
<1> QED BY <1>2, <1>3, <1>4, <1>5, <1>6, <1>7 DEF Holds

LEMMA DecisionsStep == ASSUME Inv, Decisions PROVE Inv'
<1>1. Core /\ Issued /\ s \in CoordinatorState /\ prepared \in Nat
  BY DEF Inv, Core, Types
<1>2. ASSUME NEW x, NEW m, ReadError(x, m) PROVE Inv'
  <2>1. UNCHANGED <<s, stack, idleWaiters, unbusyWaiters, compactionWaiters,
                    waiting, prepared, issued>>
    BY <1>2 DEF ReadError, registries
  <2>2. Core'
    BY <1>1, <2>1, NothingStep
  <2> QED BY <1>1, <2>1, <2>2 DEF Inv, Issued
<1>3. ASSUME NEW x, NEW m \in Messages, ReadCompaction(x, m) PROVE Inv'
  <2> DEFINE b == BeginDecision(s, "compaction", m, {}).s
             t == IF RequestActive /\ OwnStream(m) THEN b ELSE s
  <2>1. /\ s' = t /\ UNCHANGED <<stack, idleWaiters, unbusyWaiters,
             compactionWaiters, waiting, prepared, issued>>
    BY <1>3 DEF ReadCompaction, Ignored, Result, registries
  <2>2. Still(s, b) /\ SameWindow(s, b) /\ b.reservations = s.reservations
    <3>1. m \in Nat /\ "compaction" \in DecisionKinds
      BY SymbolTypes DEF DecisionKinds
    <3>2. Still(s, b) /\ SameWindow(s, b)
      BY <1>1, <3>1, BeginDecisionStill
    <3> QED BY <1>1, <3>2, DecisionsKeepReservations
  <2> HIDE DEF b
  <2>3. Still(s, t) /\ SameWindow(s, t) /\ t.reservations = s.reservations
    BY <1>1, <2>2, StillSelf
  <2> HIDE DEF t
  <2>4. Core'
    BY <1>1, <2>1, <2>3, SilentStep
  <2> QED BY <1>1, <2>1, <2>4 DEF Inv, Issued
<1>4. ASSUME NEW x, ReaderReturns(x) PROVE Inv'
  <2> DEFINE b == ForgetCompaction(s, reading[x].msg).s
             t == IF reading[x].kind = "compaction" THEN b ELSE s
  <2>1. /\ s' = t /\ UNCHANGED <<stack, idleWaiters, unbusyWaiters,
             compactionWaiters, waiting, prepared, issued>>
    BY <1>4 DEF ReaderReturns, Ignored, Result, registries
  <2>2. Still(s, b) /\ SameWindow(s, b) /\ b.reservations = s.reservations
    BY <1>1, ForgetStill, DecisionsKeepReservations
  <2> HIDE DEF b
  <2>3. Still(s, t) /\ SameWindow(s, t) /\ t.reservations = s.reservations
    BY <1>1, <2>2, StillSelf
  <2> HIDE DEF t
  <2>4. Core'
    BY <1>1, <2>1, <2>3, SilentStep
  <2> QED BY <1>1, <2>1, <2>4 DEF Inv, Issued
<1> QED BY <1>2, <1>3, <1>4 DEF Decisions

LEMMA CompactionsStep == ASSUME Inv, Compactions PROVE Inv'
<1>1. Core /\ Issued /\ s \in CoordinatorState /\ Window
  BY DEF Inv, Core, Types
<1>2. CASE BeginCompactionObservation
  <2> DEFINE id == issued.token + 1
             t == CompactionObserve(s, id).s
  <2>1. Still(s, t)
    BY <1>1, SymbolTypes, ObservationStill DEF Stages
  <2>2. WindowKept(t)
    BY <1>1, SymbolTypes
       DEF WindowKept, Window, CompactionObserve, Ignored, Result,
           CoordinatorState, Stages, None, Issued
  <2>3. /\ Quietly(t, SettlesOf(CompactionObserve(s, id)))
        /\ issued' = [issued EXCEPT !.token = id]
        /\ UNCHANGED compactionWaiters
    BY <1>2 DEF BeginCompactionObservation, Quiet
  <2> HIDE DEF t
  <2>4. Core'
    BY <1>1, <2>1, <2>2, <2>3, QuietStep
  <2>5. Issued'
    BY <1>1, <2>3, SymbolTypes DEF Issued
  <2> QED BY <2>4, <2>5 DEF Inv
<1>3. CASE AbandonCompaction
  <2> DEFINE r == CompactionAbandon(s)
  <2>1. Still(s, r.s) /\ SameWindow(s, r.s)
    BY <1>1, HoldsStill DEF ReservationKinds
  <2>2. Quiet(r) /\ UNCHANGED <<compactionWaiters, issued>>
    BY <1>3 DEF AbandonCompaction, Inert
  <2> HIDE DEF r
  <2> QED BY <2>1, <2>2, QuietEvent
<1>4. ASSUME NEW id \in {None, 1}, RecordCompactionSummary(id) PROVE Inv'
  <2> DEFINE r == CompactionSummary(s, id)
  <2>1. Still(s, r.s) /\ SameWindow(s, r.s)
    BY <1>1, HoldsStill DEF ReservationKinds, None
  <2>2. Quiet(r) /\ UNCHANGED <<compactionWaiters, issued>>
    BY <1>4 DEF RecordCompactionSummary, Inert
  <2> HIDE DEF r
  <2> QED BY <2>1, <2>2, QuietEvent
<1>5. ASSUME NEW k \in 1 .. MaxTokens, FinishCompactionObservation(k)
      PROVE  Inv'
  <2>1. Core' /\ UNCHANGED issued
    BY <1>1, <1>5, SymbolTypes, FinishObservationStep
       DEF FinishCompactionObservation
  <2> QED BY <1>1, <2>1 DEF Inv, Issued
<1>6. ASSUME NEW k \in 1 .. MaxTokens, NEW g \in {"stopping", "stopped"},
             SetCompactionStage(k, g)
      PROVE  Inv'
  <2> DEFINE t == CompactionStage(s, k, g).s
  <2>1. Still(s, t)
    BY <1>1, SymbolTypes, ObservationStill DEF Stages
  <2>2. WindowKept(t)
    BY <1>1 DEF WindowKept, Window, CompactionStage, Ignored, Result,
                CoordinatorState, Stages, None
  <2>3. /\ Quietly(t, SettlesOf(CompactionStage(s, k, g)))
        /\ UNCHANGED <<compactionWaiters, issued>>
    BY <1>6 DEF SetCompactionStage, Quiet, Inert
  <2> HIDE DEF t
  <2>4. Core'
    BY <1>1, <2>1, <2>2, <2>3, QuietStep
  <2> QED BY <1>1, <2>3, <2>4 DEF Inv, Issued
<1> QED BY <1>2, <1>3, <1>4, <1>5, <1>6 DEF Compactions

LEMMA ClosingStep == ASSUME Inv, Closing \/ Close PROVE Inv'
<1>1. Core /\ Issued /\ prepared \in Nat
  BY DEF Inv, Core, Types
<1>2. CASE Drain
  <2>1. UNCHANGED <<s, stack, idleWaiters, unbusyWaiters, compactionWaiters,
                    waiting, prepared, issued>>
    BY <1>2 DEF Drain, registries
  <2>2. Core'
    BY <1>1, <2>1, NothingStep
  <2> QED BY <1>1, <2>1, <2>2 DEF Inv, Issued
<1>3. CASE BeginShutdown \/ DisposeSession \/ Close
  <2>1. Core' /\ UNCHANGED issued
    BY <1>1, <1>3, BeginShutdownStep, DisposeStep, CloseStep
       DEF BeginShutdown, DisposeSession, Close
  <2> QED BY <1>1, <2>1 DEF Inv, Issued
<1> QED BY <1>2, <1>3 DEF Closing

LEMMA RunStep == ASSUME Inv, Run PROVE Inv'
<1>1. Core /\ Issued /\ UNCHANGED issued
  BY DEF Inv, Run, PublishPhase, RunDrain, ObserverReturns, RunRecordStart,
         RunRetire, RunDecisions, RunPolicy, RunDispose, Return
<1>2. Core'
  BY <1>1, RunCommandStep, ReturnStep DEF Run
<1> QED BY <1>1, <1>2 DEF Inv, Issued

-----------------------------------------------------------------------------
LEMMA InitInv == ASSUME Init PROVE Inv
<1>1. s \in CoordinatorState /\ s.tokenStage = "none"
  BY NoOpType DEF Init, InitialState, CoordinatorState, Lifetimes, Phases,
                  Stages, None
<1>2. << >> \in Seq(Frames)
  OBVIOUS
<1>3. Types
  BY <1>1, <1>2 DEF Init, Types, WaitStates, None
<1>4. Observers /\ Window
  BY <1>1 DEF Init, Observers, Window
<1>5. WaitersNotStranded
  BY DEF Init, WaitersNotStranded
<1>6. Issued
  BY DEF Init, Issued
<1> QED BY <1>3, <1>4, <1>5, <1>6 DEF Inv, Core

LEMMA NextInv == ASSUME Inv, Next PROVE Inv'
BY RunStep, ClaimsStep, RegisterOperationStep, OperationsStep,
   CompletionsStep, EngineStep, HoldsStep, DecisionsStep, CompactionsStep,
   ClosingStep
DEF Next

LEMMA StutterInv == ASSUME Inv, UNCHANGED vars PROVE Inv'
<1>1. Core /\ Issued /\ prepared \in Nat
  BY DEF Inv, Core, Types
<1>2. UNCHANGED <<s, stack, idleWaiters, unbusyWaiters, compactionWaiters,
                  waiting, prepared, issued>>
  BY DEF vars, registries
<1>3. Core'
  BY <1>1, <1>2, NothingStep
<1> QED BY <1>1, <1>2, <1>3 DEF Inv, Issued

LEMMA InvInvariant == Spec => []Inv
<1>1. Init => Inv
  BY InitInv
<1>2. Inv /\ [Next]_vars => Inv'
  BY NextInv, StutterInv
<1> QED BY <1>1, <1>2, PTL DEF Spec

(* No caller of waitForIdle, waitForUnbusy or the compaction wait is left  *)
(* behind by the coordinator, whatever its observers do in a callback and  *)
(* however deep their calls nest (turnCoordinator.ts, dispatch and         *)
(* waitForIdleState).                                                      *)
THEOREM NoWaiterStranded == Spec => []WaitersNotStranded
<1>1. Inv => WaitersNotStranded
  BY DEF Inv, Core
<1> QED BY <1>1, InvInvariant, PTL
-----------------------------------------------------------------------------
(* Where a waiter is.  A batch holds only callers that wait for it, and a  *)
(* detached batch none that is in another: whoever a release answers has   *)
(* left every other batch, so no release reaches its next wait.            *)

DetachedAt(i, w) ==
  /\ waiting[w] \in {"idle", "unbusy"}
  /\ w \notin idleWaiters \cup unbusyWaiters
  /\ \A j \in DOMAIN stack : w \in stack[j].detached => j = i

Placed ==
  /\ \A w \in idleWaiters : waiting[w] = "idle"
  /\ \A w \in unbusyWaiters : waiting[w] = "unbusy"
  /\ \A w \in compactionWaiters : waiting[w] = "compaction"
  /\ \A i \in DOMAIN stack : \A w \in stack[i].detached : DetachedAt(i, w)

(* The step of CompactionWaitersHeld.                                      *)
HeldStep ==
  \A w \in Waiters : waiting[w] = "compaction" /\ waiting'[w] = "off" =>
    s.tokenStage \in {"stopping", "stopped"} /\ s'.token = None

(* Frames that keep the batches they detached.                             *)
SameFrames ==
  /\ DOMAIN stack' = DOMAIN stack
  /\ \A i \in DOMAIN stack : stack'[i].detached = stack[i].detached

LEMMA NoOneMoves ==
  ASSUME Types, Placed, SameFrames,
         UNCHANGED <<idleWaiters, unbusyWaiters, compactionWaiters, waiting>>
  PROVE  Placed' /\ HeldStep
<1>1. \A i \in DOMAIN stack : \A w : DetachedAt(i, w) => DetachedAt(i, w)'
  BY DEF SameFrames, DetachedAt
<1>2. Placed'
  BY <1>1 DEF Placed, SameFrames
<1> QED BY <1>2 DEF HeldStep

LEMMA TopKeepsFrames ==
  ASSUME Types, stack # << >>, PopCommand \/ EnterObserver
  PROVE  SameFrames
<1>1. /\ DOMAIN stack = 1 .. Len(stack) /\ Top = stack[Len(stack)]
      /\ \A i \in DOMAIN stack : stack[i] \in Frames
  BY TopType, ElementOfSeq DEF Types, Top
<1>2. CASE PopCommand
  <2>1. stack' = [stack EXCEPT ![Len(stack)] = Consumed(stack[Len(stack)])]
    BY <1>2 DEF PopCommand
  <2>2. \A f \in Frames : Consumed(f).detached = f.detached
    BY DEF Consumed, Frames
  <2>3. Len(stack) \in DOMAIN stack
    BY TopType DEF Types
  <2> QED BY <1>1, <2>1, <2>2, <2>3 DEF SameFrames
<1>3. CASE EnterObserver
  <2>1. Len(stack) \in DOMAIN stack
    BY TopType DEF Types
  <2> QED BY <1>1, <1>3, <2>1 DEF EnterObserver, SameFrames, Frames
<1> QED BY <1>2, <1>3

LEMMA DispatchPlaces ==
  ASSUME Types, Placed, NEW r, NEW prep, NEW then, NEW id,
         Dispatch(r, prep, then, id), UNCHANGED <<waiting, compactionWaiters>>
  PROVE  Placed' /\ HeldStep
<1> DEFINE idle   == PublishesIdle(r.cmds)
           unbusy == ~Busy(r.s)
           gone   == idle /\ prep = r.s.turn
           out    == (IF idle THEN idleWaiters ELSE {})
                       \cup (IF unbusy THEN unbusyWaiters ELSE {})
           f == Frame(r.cmds, out, IF gone THEN prep ELSE None, then, id)
           n == Len(stack)
<1>1. /\ stack' = Append(stack, f)
      /\ idleWaiters' = IF idle THEN {} ELSE idleWaiters
      /\ unbusyWaiters' = IF unbusy THEN {} ELSE unbusyWaiters
  BY DEF Dispatch, DispatchFrom
<1>2. f.detached = out
  BY DEF Frame
<1> HIDE DEF f, idle, unbusy, gone
<1>3. n \in Nat /\ DOMAIN stack = 1 .. n
  BY LenProperties DEF Types
<1>4. /\ DOMAIN stack' = 1 .. n + 1
      /\ \A i \in 1 .. n : stack'[i] = stack[i]
      /\ stack'[n + 1] = f
  BY <1>1, <1>3, AppendProperties DEF Types
<1> HIDE DEF n
<1>5. \A w \in out : /\ waiting[w] \in {"idle", "unbusy"}
                     /\ w \in idleWaiters \cup unbusyWaiters
                     /\ w \notin idleWaiters' \cup unbusyWaiters'
  <2>1. \A w \in idleWaiters : w \notin unbusyWaiters /\ waiting[w] = "idle"
    BY DEF Placed
  <2>2. \A w \in unbusyWaiters : w \notin idleWaiters /\ waiting[w] = "unbusy"
    BY DEF Placed
  <2> QED BY <1>1, <2>1, <2>2 DEF out
<1>6. idleWaiters' \subseteq idleWaiters /\ unbusyWaiters' \subseteq unbusyWaiters
  BY <1>1
<1>7. ASSUME NEW i \in DOMAIN stack', NEW w \in stack'[i].detached
      PROVE  DetachedAt(i, w)'
  <2>1. CASE i = n + 1
    <3>1. w \in out
      BY <1>2, <1>4, <2>1
    <3>2. \A j \in DOMAIN stack : w \notin stack[j].detached
      BY <1>5, <3>1 DEF Placed, DetachedAt
    <3>3. \A j \in DOMAIN stack' : w \in stack'[j].detached => j = i
      BY <1>3, <1>4, <2>1, <3>2
    <3>4. waiting'[w] \in {"idle", "unbusy"} /\ w \notin idleWaiters' \cup unbusyWaiters'
      BY <1>5, <3>1
    <3> QED BY <3>3, <3>4 DEF DetachedAt
  <2>2. CASE i # n + 1
    <3>1. i \in DOMAIN stack /\ w \in stack[i].detached
      BY <1>3, <1>4, <2>2
    <3>2. DetachedAt(i, w)
      BY <3>1 DEF Placed
    <3>3. w \notin out
      BY <1>5, <3>2 DEF DetachedAt
    <3>4. \A j \in DOMAIN stack' : w \in stack'[j].detached => j = i
      BY <1>2, <1>3, <1>4, <3>2, <3>3 DEF DetachedAt
    <3> QED BY <1>6, <3>2, <3>4 DEF DetachedAt
  <2> QED BY <2>1, <2>2
<1>8. Placed'
  BY <1>6, <1>7 DEF Placed
<1> QED BY <1>8 DEF HeldStep

(* A release of callers that are in the batches it empties, and in no      *)
(* other.                                                                  *)
LEMMA ReleasePlaces ==
  ASSUME Types, Placed, NEW W, W \subseteq Waiters,
         waiting' = Released(waiting, W),
         idleWaiters' \subseteq idleWaiters \ W,
         unbusyWaiters' \subseteq unbusyWaiters \ W,
         compactionWaiters' = compactionWaiters \ W,
         DOMAIN stack' \subseteq DOMAIN stack,
         \A i \in DOMAIN stack' : stack'[i].detached \subseteq stack[i].detached \ W
  PROVE  Placed'
<1>1. \A w \in Waiters : waiting'[w] = IF w \in W THEN "off" ELSE waiting[w]
  BY DEF Released
<1>2. \A i \in DOMAIN stack : stack[i].detached \subseteq Waiters
  <2>1. stack \in Seq(Frames) /\ DOMAIN stack = 1 .. Len(stack)
    BY LenProperties DEF Types
  <2>2. \A i \in DOMAIN stack : stack[i] \in Frames
    BY <2>1, ElementOfSeq
  <2> QED BY <2>2 DEF Frames
<1>3. ASSUME NEW i \in DOMAIN stack', NEW w \in stack'[i].detached
      PROVE  DetachedAt(i, w)'
  <2>1. i \in DOMAIN stack /\ w \in stack[i].detached /\ w \in Waiters \ W
    BY <1>2
  <2>2. DetachedAt(i, w)
    BY <2>1 DEF Placed
  <2>3. \A j \in DOMAIN stack' : w \in stack'[j].detached => j = i
    BY <2>2 DEF DetachedAt
  <2> QED BY <1>1, <2>1, <2>2, <2>3 DEF DetachedAt
<1>4. /\ \A w \in idleWaiters' : waiting'[w] = "idle"
      /\ \A w \in unbusyWaiters' : waiting'[w] = "unbusy"
      /\ \A w \in compactionWaiters' : waiting'[w] = "compaction"
  BY <1>1 DEF Placed, Types
<1> QED BY <1>3, <1>4 DEF Placed

(* Those that wait for a compaction are none of the callers released.      *)
LEMMA ReleaseHolds ==
  ASSUME NEW W, waiting' = Released(waiting, W),
         \A w \in W : waiting[w] \in {"idle", "unbusy"}
  PROVE  HeldStep
BY DEF Released, HeldStep

LEMMA QuietPlaces ==
  ASSUME Types, Placed, NEW t, NEW D, Quietly(t, D), UNCHANGED compactionWaiters
  PROVE  Placed' /\ HeldStep
<1>1. /\ UNCHANGED <<stack, idleWaiters>>
      /\ unbusyWaiters' = IF Busy(t) THEN unbusyWaiters ELSE {}
      /\ waiting' = IF Busy(t) THEN waiting
                    ELSE Released(waiting, unbusyWaiters)
  BY DEF Quietly
<1>2. CASE Busy(t)
  <2>1. SameFrames
    BY <1>1 DEF SameFrames
  <2> QED BY <1>1, <1>2, <2>1, NoOneMoves
<1>3. CASE ~Busy(t)
  <2> DEFINE W == unbusyWaiters
  <2>1. W \subseteq Waiters /\ waiting' = Released(waiting, W)
    BY <1>1, <1>3 DEF Types
  <2>2. \A w \in W : waiting[w] = "unbusy"
    BY DEF Placed
  <2>3. /\ idleWaiters' \subseteq idleWaiters \ W
        /\ compactionWaiters' = compactionWaiters \ W
        /\ unbusyWaiters' \subseteq unbusyWaiters \ W
    BY <1>1, <1>3, <2>2 DEF Placed
  <2>4. \A i \in DOMAIN stack' : stack'[i].detached \subseteq stack[i].detached \ W
    BY <1>1 DEF Placed, DetachedAt
  <2>5. DOMAIN stack' \subseteq DOMAIN stack
    BY <1>1
  <2> HIDE DEF W
  <2> QED BY <2>1, <2>2, <2>3, <2>4, <2>5, ReleasePlaces, ReleaseHolds
<1> QED BY <1>2, <1>3

LEMMA ReturnPlaces == ASSUME Types, Placed, Return PROVE Placed' /\ HeldStep
<1> DEFINE n == Len(stack)
           W == Top.detached
<1>1. /\ stack # << >> /\ stack' = SubSeq(stack, 1, n - 1)
      /\ waiting' = Released(waiting, W)
      /\ UNCHANGED <<idleWaiters, unbusyWaiters, compactionWaiters>>
  BY DEF Return
<1>2. /\ stack \in Seq(Frames) /\ n \in Nat \ {0} /\ DOMAIN stack = 1 .. n
      /\ Top = stack[n] /\ Top \in Frames
  BY <1>1, TopType DEF Types, Top
<1> HIDE DEF n
<1>3. DOMAIN stack' = 1 .. n - 1 /\ \A i \in 1 .. n - 1 : stack'[i] = stack[i]
  <2>1. \A i \in 1 .. n - 1 : stack[i] \in Frames
    BY <1>2, ElementOfSeq, LenProperties
  <2>2. /\ SubSeq(stack, 1, n - 1) \in Seq(Frames)
        /\ Len(SubSeq(stack, 1, n - 1)) = IF 1 <= n - 1 THEN n - 1 ELSE 0
        /\ \A i \in 1 .. n - 1 : SubSeq(stack, 1, n - 1)[i] = stack[i]
    BY <1>2, <2>1, SubSeqProperties
  <2> QED BY <1>1, <1>2, <2>2, LenProperties
<1>4. W \subseteq Waiters
  BY <1>2 DEF Frames
<1>5. \A w \in W : DetachedAt(n, w)
  BY <1>2 DEF Placed
<1> HIDE DEF W
<1>6. \A w \in W : waiting[w] \in {"idle", "unbusy"}
  BY <1>5 DEF DetachedAt
<1>7. /\ idleWaiters' \subseteq idleWaiters \ W
      /\ unbusyWaiters' \subseteq unbusyWaiters \ W
      /\ compactionWaiters' = compactionWaiters \ W
  BY <1>1, <1>5, <1>6 DEF DetachedAt, Placed
<1>8. \A i \in DOMAIN stack' : stack'[i].detached \subseteq stack[i].detached \ W
  <2> SUFFICES ASSUME NEW i \in DOMAIN stack', NEW w \in W, w \in stack'[i].detached
               PROVE  FALSE
    BY <1>3
  <2>1. i \in DOMAIN stack /\ i # n /\ w \in stack[i].detached
    BY <1>2, <1>3
  <2> QED BY <1>5, <2>1 DEF DetachedAt
<1>9. DOMAIN stack' \subseteq DOMAIN stack
  BY <1>2, <1>3
<1> QED BY <1>1, <1>4, <1>6, <1>7, <1>8, <1>9, ReleasePlaces, ReleaseHolds

LEMMA WaitForPlaces ==
  ASSUME Types, Placed, WaitersNotStranded, NEW w \in Waiters,
         NEW what \in {"idle", "unbusy", "compaction"}, WaitFor(w, what)
  PROVE  Placed' /\ HeldStep
<1>1. /\ waiting[w] = "off" /\ waiting' = [waiting EXCEPT ![w] = what]
      /\ UNCHANGED stack
      /\ idleWaiters' = IF what = "idle" THEN idleWaiters \cup {w}
                                         ELSE idleWaiters
      /\ unbusyWaiters' = IF what = "unbusy" THEN unbusyWaiters \cup {w}
                                             ELSE unbusyWaiters
      /\ compactionWaiters' = IF what = "compaction"
                                THEN compactionWaiters \cup {w}
                                ELSE compactionWaiters
  BY DEF WaitFor
<1>2. /\ waiting'[w] = what
      /\ \A x : x # w => waiting'[x] = waiting[x]
  <2>1. waiting \in [Waiters -> WaitStates]
    BY DEF Types
  <2> QED BY <1>1, <2>1
<1>3. /\ w \notin idleWaiters \cup unbusyWaiters \cup compactionWaiters
      /\ \A i \in DOMAIN stack : w \notin stack[i].detached
  BY <1>1 DEF Placed, DetachedAt
<1>4. ASSUME NEW i \in DOMAIN stack', NEW x \in stack'[i].detached
      PROVE  DetachedAt(i, x)'
  <2>1. i \in DOMAIN stack /\ x # w /\ DetachedAt(i, x)
    BY <1>1, <1>3 DEF Placed
  <2> QED BY <1>1, <1>2, <2>1 DEF DetachedAt
<1>5. /\ \A x \in idleWaiters' : waiting'[x] = "idle"
      /\ \A x \in unbusyWaiters' : waiting'[x] = "unbusy"
      /\ \A x \in compactionWaiters' : waiting'[x] = "compaction"
  BY <1>1, <1>2, <1>3 DEF Placed
<1>6. HeldStep
  BY <1>1, <1>2 DEF HeldStep
<1> QED BY <1>4, <1>5, <1>6 DEF Placed

LEMMA CancelPlaces ==
  ASSUME Types, Placed, NEW w \in Waiters, CancelWait(w)
  PROVE  Placed' /\ HeldStep
<1>1. /\ waiting[w] \in {"idle", "unbusy"}
      /\ waiting' = [waiting EXCEPT ![w] = "off"]
      /\ UNCHANGED compactionWaiters
      /\ idleWaiters' = idleWaiters \ {w} /\ unbusyWaiters' = unbusyWaiters \ {w}
      /\ stack' = [i \in DOMAIN stack |->
                     [stack[i] EXCEPT !.detached = @ \ {w}]]
  BY DEF CancelWait
<1>2. \A i \in DOMAIN stack : stack[i] \in Frames
  BY ElementOfSeq, LenProperties DEF Types
<1>3. DOMAIN stack' = DOMAIN stack
      /\ \A i \in DOMAIN stack : stack'[i].detached = stack[i].detached \ {w}
  BY <1>1, <1>2 DEF Frames
<1>4. waiting' = Released(waiting, {w})
  <2>1. waiting \in [Waiters -> WaitStates]
    BY DEF Types
  <2> QED BY <1>1, <2>1 DEF Released
<1>5. compactionWaiters' = compactionWaiters \ {w}
  BY <1>1 DEF Placed
<1> DEFINE W == {w}
<1>6. /\ W \subseteq Waiters /\ waiting' = Released(waiting, W)
      /\ idleWaiters' \subseteq idleWaiters \ W
      /\ unbusyWaiters' \subseteq unbusyWaiters \ W
      /\ compactionWaiters' = compactionWaiters \ W
      /\ DOMAIN stack' \subseteq DOMAIN stack
      /\ \A i \in DOMAIN stack' : stack'[i].detached \subseteq stack[i].detached \ W
      /\ \A x \in W : waiting[x] \in {"idle", "unbusy"}
  BY <1>1, <1>3, <1>4, <1>5
<1> HIDE DEF W
<1> QED BY <1>6, ReleasePlaces, ReleaseHolds

(* The end of the lifetime releases the callers that wait on it only.      *)
LEMMA LifetimePlaces ==
  ASSUME Types, Placed, UNCHANGED compactionWaiters,
         idleWaiters' = {}, unbusyWaiters' = {},
         waiting' = Released(waiting, LifetimeWaiters),
         DOMAIN stack \subseteq DOMAIN stack',
         \A i \in DOMAIN stack : stack'[i].detached = stack[i].detached,
         \A i \in DOMAIN stack' \ DOMAIN stack : stack'[i].detached = {}
  PROVE  Placed' /\ HeldStep
<1> DEFINE W == LifetimeWaiters
<1>1. W \subseteq Waiters /\ \A w \in W : waiting[w] \in {"idle", "unbusy"}
  BY DEF LifetimeWaiters, Types, Placed
<1>2. \A w \in Waiters : waiting'[w] = IF w \in W THEN "off" ELSE waiting[w]
  BY DEF Released
<1>3. \A w \in compactionWaiters : w \in Waiters \ W
  BY <1>1 DEF Types, Placed
<1>4. ASSUME NEW i \in DOMAIN stack', NEW w \in stack'[i].detached
      PROVE  DetachedAt(i, w)'
  <2>1. i \in DOMAIN stack /\ w \in stack[i].detached /\ DetachedAt(i, w)
    BY DEF Placed
  <2>2. w \in Waiters
    <3>1. stack[i] \in Frames
      BY <2>1, ElementOfSeq, LenProperties DEF Types
    <3> QED BY <2>1, <3>1 DEF Frames
  <2>3. w \notin W
    BY <2>1 DEF DetachedAt, LifetimeWaiters
  <2>4. \A j \in DOMAIN stack' : w \in stack'[j].detached => j = i
    BY <2>1 DEF DetachedAt
  <2> QED BY <1>2, <2>1, <2>2, <2>3, <2>4 DEF DetachedAt
<1>5. Placed'
  BY <1>2, <1>3, <1>4 DEF Placed
<1> QED BY <1>1, <1>5, ReleaseHolds

LEMMA DisposePlaces ==
  ASSUME Types, Placed, DisposeSession PROVE Placed' /\ HeldStep
<1> DEFINE r == Dispose(Shutdown(s).s)
           gone == PublishesIdle(r.cmds) /\ prepared = r.s.turn
           idle == PublishesIdle(r.cmds)
           unbusy == ~Busy(r.s)
           out == (IF idle THEN {} ELSE {}) \cup (IF unbusy THEN {} ELSE {})
           f == Frame(r.cmds, out, IF gone THEN prepared ELSE None, "dispose", None)
           n == Len(stack)
<1>1. /\ stack' = Append(stack, f) /\ UNCHANGED compactionWaiters
      /\ idleWaiters' = {} /\ unbusyWaiters' = {}
      /\ waiting' = Released(waiting, LifetimeWaiters)
  BY DEF DisposeSession, DispatchFrom
<1>2. f.detached = {}
  BY DEF Frame
<1> HIDE DEF f
<1>3. n \in Nat /\ DOMAIN stack = 1 .. n
  BY LenProperties DEF Types
<1>4. /\ DOMAIN stack' = 1 .. n + 1
      /\ \A i \in 1 .. n : stack'[i] = stack[i]
      /\ stack'[n + 1] = f
  BY <1>1, <1>3, AppendProperties DEF Types
<1> HIDE DEF n
<1>5. /\ DOMAIN stack \subseteq DOMAIN stack'
      /\ \A i \in DOMAIN stack : stack'[i].detached = stack[i].detached
      /\ \A i \in DOMAIN stack' \ DOMAIN stack : i = n + 1
  BY <1>3, <1>4
<1>6. \A i \in DOMAIN stack' \ DOMAIN stack : stack'[i].detached = {}
  BY <1>2, <1>4, <1>5
<1> QED BY <1>1, <1>5, <1>6, LifetimePlaces

LEMMA FinishObservationPlaces ==
  ASSUME Types, Placed, WaitersNotStranded, NEW token \in Nat,
         FinishCompactionObservation(token)
  PROVE  Placed' /\ HeldStep
<1> DEFINE t == CompactionFinish(s, token).s
           W == compactionWaiters
<1>1. /\ s' = t /\ UNCHANGED <<stack, idleWaiters, unbusyWaiters>>
      /\ s.token = token
      /\ IF t.tokenStage \in {"stopping", "stopped"}
           THEN UNCHANGED <<compactionWaiters, waiting>>
           ELSE /\ compactionWaiters' = {}
                /\ waiting' = Released(waiting, compactionWaiters)
  BY DEF FinishCompactionObservation
<1>2. t.tokenStage = "none" /\ t.token = None
  BY <1>1 DEF CompactionFinish, Result, Types, CoordinatorState
<1>3. compactionWaiters' = {} /\ waiting' = Released(waiting, W)
  BY <1>1, <1>2
<1>4. HeldStep
  <2>1. \A w \in Waiters : waiting[w] = "compaction" =>
           s.tokenStage \in {"stopping", "stopped"}
    BY DEF WaitersNotStranded
  <2> QED BY <1>1, <1>2, <2>1 DEF HeldStep
<1>5. /\ W \subseteq Waiters /\ compactionWaiters' = compactionWaiters \ W
      /\ \A w \in W : waiting[w] = "compaction"
  BY <1>3 DEF Types, Placed
<1> HIDE DEF W, t
<1>6. /\ idleWaiters' \subseteq idleWaiters \ W
      /\ unbusyWaiters' \subseteq unbusyWaiters \ W
      /\ DOMAIN stack' \subseteq DOMAIN stack
      /\ \A i \in DOMAIN stack' : stack'[i].detached \subseteq stack[i].detached \ W
  BY <1>1, <1>5 DEF Placed, DetachedAt
<1> QED BY <1>3, <1>4, <1>5, <1>6, ReleasePlaces

(* Each action is one of these.                                            *)
StandStill ==
  /\ UNCHANGED <<idleWaiters, unbusyWaiters, compactionWaiters, waiting>>
  /\ stack' = stack \/ (stack # << >> /\ (PopCommand \/ EnterObserver))

Dispatches ==
  \E r, prep, then, id : /\ Dispatch(r, prep, then, id)
                         /\ UNCHANGED <<waiting, compactionWaiters>>

Quiets == \E t, D : Quietly(t, D) /\ UNCHANGED compactionWaiters

LEMMA CommandsStandStill ==
  ASSUME PublishPhase \/ RunDrain \/ ObserverReturns \/ RunRecordStart
           \/ RunRetire \/ RunDecisions \/ RunPolicy \/ RunDispose
  PROVE  StandStill
BY DEF PublishPhase, RunDrain, ObserverReturns, RunRecordStart, RunRetire,
       RunDecisions, RunPolicy, RunDispose, HeadIs, StandStill, registries

LEMMA ClaimsDispatch == ASSUME Claims PROVE Dispatches \/ StandStill
<1>1. ASSUME NEW i, NEW x, NEW e, NEW c, PrepareFresh(i, x, e, c)
      PROVE  Dispatches
  BY <1>1 DEF PrepareFresh, Dispatches
<1>2. ASSUME NEW t, PrepareAdopt(t) PROVE Dispatches
  BY <1>2 DEF PrepareAdopt, Dispatches
<1>3. ASSUME NEW t, FinishPreparation(t) PROVE Dispatches
  BY <1>3 DEF FinishPreparation, Dispatches
<1>4. ASSUME PreemptPreparation PROVE Dispatches
  BY <1>4 DEF PreemptPreparation, Dispatches
<1>5. ASSUME NEW t, AcceptThinking(t) \/ ReleaseThinking PROVE StandStill
  BY <1>5 DEF AcceptThinking, ReleaseThinking, StandStill
<1> QED BY <1>1, <1>2, <1>3, <1>4, <1>5 DEF Claims

LEMMA CallDispatches == ASSUME NEW r, Call(r) PROVE Dispatches
BY DEF Call, Dispatches

LEMMA QuietQuiets ==
  ASSUME NEW r, Quiet(r), UNCHANGED compactionWaiters PROVE Quiets
BY DEF Quiet, Quiets

LEMMA ProducersMove ==
  ASSUME NEW o \in Ops, Operations(o) \/ Completions(o)
  PROVE  Dispatches \/ Quiets \/ StandStill
<1>1. CASE ConfigureOperation(o) \/ StreamStarting(o) \/ StartupAborts(o)
             \/ PreStartError(o)
  BY <1>1, QuietQuiets
     DEF ConfigureOperation, StreamStarting, StartupAborts, PreStartError, Inert
<1>2. CASE StreamStarted(o) \/ BeginPolicy(o) \/ FinishTurn(o)
  BY <1>2, CallDispatches DEF StreamStarted, BeginPolicy, FinishTurn
<1>3. ASSUME NEW kind, StreamEnds(o, kind) PROVE Dispatches
  BY <1>3, CallDispatches DEF StreamEnds
<1>4. ASSUME StreamFails(o) PROVE Dispatches \/ Quiets
  BY <1>4, CallDispatches, QuietQuiets DEF StreamFails, Inert
<1>5. CASE StartupFails(o) \/ DeliverHandle(o) \/ HandlerClears(o)
             \/ FinishStartup(o)
  BY <1>5 DEF StartupFails, DeliverHandle, Produce, HandlerClears,
              FinishStartup, registries, StandStill
<1>6. ASSUME NEW m, AnswerAll(m), UNCHANGED compactionWaiters PROVE Quiets
  BY <1>6 DEF AnswerAll, Quiets
<1>7. CASE CompletionArrives(o)
  <2>1. CASE IsCurrentOperation(s, o)
    BY <1>7, <2>1 DEF CompletionArrives, Dispatches
  <2>2. CASE ~IsCurrentOperation(s, o)
    BY <1>6, <1>7, <2>2 DEF CompletionArrives
  <2> QED BY <2>1, <2>2
<1>8. CASE PolicyReturns(o)
  BY <1>6, <1>8 DEF PolicyReturns
<1>9. ASSUME NEW kind, NEW m, NEW v, ResolveVerdict(o, kind, m, v) PROVE Quiets
  BY <1>9, QuietQuiets DEF ResolveVerdict, Inert
<1> QED BY <1>1, <1>2, <1>3, <1>4, <1>5, <1>7, <1>8, <1>9
        DEF Operations, Completions

LEMMA OthersMove ==
  ASSUME \/ \E t \in Turns : RegisterOperation(t)
         \/ SyntheticAbort \/ ForeignEnds
         \/ \E m \in Messages : ObserveReplay(m)
         \/ Decisions \/ Drain
  PROVE  Dispatches \/ Quiets \/ StandStill
<1>1. ASSUME NEW t \in Turns, RegisterOperation(t) PROVE Quiets
  BY <1>1 DEF RegisterOperation, Quiets
<1>2. CASE SyntheticAbort
  BY <1>2, QuietQuiets DEF SyntheticAbort, Inert
<1>3. CASE ForeignEnds
  BY <1>3, CallDispatches DEF ForeignEnds
<1>4. ASSUME NEW m \in Messages, ObserveReplay(m) PROVE Dispatches
  BY <1>4, CallDispatches DEF ObserveReplay
<1>5. CASE Decisions \/ Drain
  BY <1>5 DEF Decisions, ReadError, ReadCompaction, ReaderReturns, Drain,
              registries, StandStill
<1> QED BY <1>1, <1>2, <1>3, <1>4, <1>5

LEMMA HoldsMove ==
  ASSUME Holds
  PROVE  \/ Dispatches \/ Quiets
         \/ \E w \in Waiters : \/ CancelWait(w)
                               \/ \E k \in {"idle", "unbusy", "compaction"} :
                                     WaitFor(w, k)
<1>1. ASSUME NEW k, MakeReservation(k) PROVE Quiets
  BY <1>1, QuietQuiets DEF MakeReservation
<1>2. ASSUME NEW r, ReleaseReservation(r) PROVE Dispatches
  BY <1>2, CallDispatches DEF ReleaseReservation
<1>3. ASSUME BeginRetry PROVE Quiets
  BY <1>3, QuietQuiets DEF BeginRetry
<1>4. ASSUME NEW id, FinishRetry(id) PROVE Quiets
  BY <1>4, QuietQuiets DEF FinishRetry, Inert
<1> QED BY <1>1, <1>2, <1>3, <1>4 DEF Holds

LEMMA CompactionsMove ==
  ASSUME Compactions
  PROVE  Quiets \/ \E k \in 1 .. MaxTokens : FinishCompactionObservation(k)
<1>1. CASE BeginCompactionObservation
  BY <1>1, QuietQuiets DEF BeginCompactionObservation
<1>2. CASE AbandonCompaction
  BY <1>2, QuietQuiets DEF AbandonCompaction, Inert
<1>3. ASSUME NEW id, RecordCompactionSummary(id) PROVE Quiets
  BY <1>3, QuietQuiets DEF RecordCompactionSummary, Inert
<1>4. ASSUME NEW k, NEW g, SetCompactionStage(k, g) PROVE Quiets
  BY <1>4, QuietQuiets DEF SetCompactionStage, Inert
<1> QED BY <1>1, <1>2, <1>3, <1>4 DEF Compactions

LEMMA NextPlaces ==
  ASSUME Inv, Placed, [Next]_vars
  PROVE  Placed' /\ HeldStep
<1>1. Types /\ WaitersNotStranded
  BY DEF Inv, Core
<1>2. CASE StandStill
  <2>1. SameFrames
    BY <1>1, <1>2, TopKeepsFrames DEF StandStill, SameFrames
  <2> QED BY <1>1, <1>2, <2>1, NoOneMoves DEF StandStill
<1>3. CASE Dispatches
  BY <1>1, <1>3, DispatchPlaces DEF Dispatches
<1>4. CASE Quiets
  BY <1>1, <1>4, QuietPlaces DEF Quiets
<1>5. CASE Run
  BY <1>1, <1>2, <1>5, CommandsStandStill, ReturnPlaces DEF Run
<1>6. CASE Holds
  BY <1>1, <1>3, <1>4, <1>6, HoldsMove, WaitForPlaces, CancelPlaces
<1>7. CASE Compactions
  <2>1. 1 .. MaxTokens \subseteq Nat
    BY SymbolTypes
  <2> QED BY <1>1, <1>4, <1>7, <2>1, CompactionsMove, FinishObservationPlaces
<1>8. CASE BeginShutdown \/ Close
  <2>1. /\ UNCHANGED <<stack, compactionWaiters>>
        /\ idleWaiters' = {} /\ unbusyWaiters' = {}
        /\ waiting' = Released(waiting, LifetimeWaiters)
    BY <1>8 DEF BeginShutdown, Close
  <2>2. /\ DOMAIN stack \subseteq DOMAIN stack'
        /\ \A i \in DOMAIN stack : stack'[i].detached = stack[i].detached
        /\ \A i \in DOMAIN stack' \ DOMAIN stack : stack'[i].detached = {}
    BY <2>1
  <2> QED BY <1>1, <2>1, <2>2, LifetimePlaces
<1>9. CASE DisposeSession
  BY <1>1, <1>9, DisposePlaces
<1>10. CASE UNCHANGED vars
  BY <1>2, <1>10 DEF vars, registries, StandStill
<1> QED BY <1>2, <1>3, <1>4, <1>5, <1>6, <1>7, <1>8, <1>9, <1>10,
           ClaimsDispatch, ProducersMove, OthersMove
        DEF Next, Closing

(* Whoever waits for the end of a compaction is released only by the end   *)
(* of the observation that is pending: no stop, shutdown, disposal or      *)
(* release of another batch does it, however dispatches nest               *)
(* (turnCoordinator.ts, waitForMidStreamCompactionSettled and              *)
(* finishCompactionObservation).                                           *)
THEOREM CompactionWaitsAreHeld == Spec => CompactionWaitersHeld
<1>1. Init => Placed
  BY DEF Init, Placed
<1>2. Inv /\ Placed /\ [Next]_vars => Placed'
  BY NextPlaces
<1>3. Inv /\ Placed /\ [Next]_vars
        => [\A w \in Waiters : waiting[w] = "compaction" /\ waiting'[w] = "off" =>
              s.tokenStage \in {"stopping", "stopped"} /\ s'.token = None]_vars
  BY NextPlaces DEF HeldStep
<1>4. Spec => []Placed
  BY <1>1, <1>2, InvInvariant, PTL DEF Spec
<1> QED BY <1>3, <1>4, InvInvariant, PTL DEF Spec, CompactionWaitersHeld

-----------------------------------------------------------------------------
(* The types of the other variables: the resources, the decision promises  *)
(* and their readers, and the session around the coordinator.              *)

OwnerStates    == {"none", "claimed", "granted", "done"}
ProducerStates == {"none", "starting", "failing", "consuming", "launching",
                   "policy", "handled", "finishing", "done"}
Readings       == [st : {"off", "waiting", "answered", "orphaned"},
                   kind : DecisionKinds, msg : Nat]
Keys           == DecisionKinds \X Nat

ResourceTypes ==
  /\ aborted \subseteq Nat /\ thinking \in Nat
  /\ settlements \subseteq Nat /\ leases \subseteq Nat /\ policies \subseteq Nat
  /\ closing \in [requested : BOOLEAN, closed : BOOLEAN]

SessionTypes ==
  /\ owner \in [Turns -> OwnerStates]
  /\ producer \in [Ops -> ProducerStates]
  /\ home \in [Ops -> Nat]
  /\ engine \in [Ops -> {"off", "handed", "live", "ended"}]
  /\ outcome \in [Ops -> {"none", "completed", "aborted", "failed",
                         "cancelled"}]
  /\ foreign \in {"none", "live", "ended"}

RecoveryTypes ==
  promises \subseteq Keys /\ reading \in [Readers -> Readings]

Rest == ResourceTypes /\ SessionTypes /\ RecoveryTypes

-----------------------------------------------------------------------------
(* What the steps of a dispatch, and the quiet calls, do to these.         *)

LEMMA ThinkingType ==
  ASSUME ResourceTypes, NEW r, NEW prep, NEW iw, NEW uw, NEW then, NEW id,
         DispatchFrom(r, prep, iw, uw, then, id)
  PROVE  thinking' \in Nat
BY DEF DispatchFrom, ResourceTypes, None

LEMMA SettledType ==
  ASSUME NEW D, NEW t \in CoordinatorState PROVE Settled(D, t) \subseteq Keys
<1>1. \A d \in t.decisions : KeyOf(d) \in Keys
  BY DEF CoordinatorState, Decision, KeyOf, Keys
<1> QED BY <1>1 DEF Settled

LEMMA ReadType ==
  ASSUME NEW rd \in [Readers -> Readings], NEW D, NEW kept
  PROVE  Read(rd, D, kept) \in [Readers -> Readings]
<1> SUFFICES ASSUME NEW x \in Readers PROVE Read(rd, D, kept)[x] \in Readings
  BY DEF Read
<1>1. rd[x] \in Readings
  OBVIOUS
<1>2. /\ [rd[x] EXCEPT !.st = "answered"] \in Readings
      /\ [rd[x] EXCEPT !.st = "orphaned"] \in Readings
  BY <1>1 DEF Readings
<1> QED BY <1>1, <1>2 DEF Read

LEMMA QuietTypes ==
  ASSUME RecoveryTypes, NEW t \in CoordinatorState, NEW D, Quietly(t, D)
  PROVE  RecoveryTypes'
BY SettledType, ReadType DEF RecoveryTypes, Quietly

LEMMA RunRest == ASSUME Inv, Rest, Run PROVE Rest'
<1> USE DEF Rest
<1>1. /\ stack \in Seq(Frames) /\ s \in CoordinatorState /\ prepared \in Nat
      /\ None \in Nat
  BY DEF Inv, Core, Types, None
<1>2. stack # << >> => Top \in Frames
  BY <1>1, TopType
<1>3. ASSUME NEW what, HeadIs(what)
      PROVE  Head(Top.cmds) \in Command
  <2>1. Top.cmds \in Seq(Command) /\ Top.cmds # << >>
    BY <1>2, <1>3 DEF HeadIs, Frames
  <2> QED BY <2>1, HeadTailProperties
<1>4. CASE PublishPhase \/ RunDrain \/ ObserverReturns \/ RunRecordStart
  BY <1>4 DEF PublishPhase, RunDrain, ObserverReturns, RunRecordStart,
     registries, resources, recovery, session, ResourceTypes, SessionTypes,
     RecoveryTypes
<1>5. CASE RunRetire
  <2>1. ResourceTypes'
    BY <1>5 DEF RunRetire, registries, ResourceTypes, SettleOperation
  <2>2. SessionTypes' /\ RecoveryTypes'
    BY <1>5 DEF RunRetire, recovery, session, SessionTypes, RecoveryTypes
  <2> QED BY <2>1, <2>2
<1>6. CASE RunDecisions
  <2> DEFINE D    == Head(Top.cmds).decisions
             open == (promises \cup {KeyOf(d) : d \in D \ Resolved(D)})
                       \ {KeyOf(d) : d \in Resolved(D)}
  <2>1. D \in SUBSET Decision
    BY <1>3, <1>6 DEF RunDecisions, Command
  <2>2. \A d \in D : KeyOf(d) \in Keys
    BY <2>1 DEF Decision, KeyOf, Keys
  <2>3. open \subseteq Keys
    BY <2>2 DEF RecoveryTypes
  <2>4. promises' = open /\ reading' = Read(reading, D, open)
    BY <1>6 DEF RunDecisions
  <2> HIDE DEF D, open
  <2>5. RecoveryTypes'
    BY <2>3, <2>4, ReadType DEF RecoveryTypes
  <2>6. ResourceTypes' /\ SessionTypes'
    BY <1>6 DEF RunDecisions, registries, resources, session, ResourceTypes,
       SessionTypes
  <2> QED BY <2>5, <2>6
<1>7. CASE RunPolicy
  <2> DEFINE o == Head(Top.cmds).id
  <2>1. o \in Nat
    BY <1>3, <1>7 DEF RunPolicy, Command
  <2>2. /\ policies' = policies \/ policies' = policies \cup {o}
        /\ \/ producer' = [producer EXCEPT ![o] = "policy"]
           \/ producer' = [producer EXCEPT ![o] = "finishing"]
        /\ UNCHANGED <<registries, aborted, settlements, leases, recovery,
                       closing, owner, home, engine, outcome, foreign>>
    BY <1>7 DEF RunPolicy
  <2> HIDE DEF o
  <2>3. ResourceTypes'
    BY <2>1, <2>2 DEF registries, ResourceTypes
  <2>4. SessionTypes' /\ RecoveryTypes'
    BY <2>2 DEF recovery, SessionTypes, RecoveryTypes, ProducerStates
  <2> QED BY <2>3, <2>4
<1>8. CASE RunDispose
  <2>1. (IF Top.retired # None THEN Top.retired ELSE prepared) \in Nat
    BY <1>1, <1>2, <1>8 DEF RunDispose, HeadIs, Frames
  <2>2. ResourceTypes'
    BY <2>1, <1>8 DEF RunDispose, ResourceTypes
  <2>3. SessionTypes' /\ RecoveryTypes'
    BY <1>8 DEF RunDispose, recovery, session, SessionTypes, RecoveryTypes
  <2> QED BY <2>2, <2>3
<1>9. CASE Return
  <2>1. Top.id \in Nat
    BY <1>2, <1>9 DEF Return, Frames
  <2>2. ResourceTypes'
    BY <2>1, <1>9 DEF Return, ResourceTypes
  <2>3. SessionTypes'
    BY <1>9 DEF Return, SessionTypes, OwnerStates
  <2>4. RecoveryTypes'
    BY <1>1, <1>9, SettledType, ReadType DEF Return, RecoveryTypes
  <2> QED BY <2>2, <2>3, <2>4
<1> QED BY <1>4, <1>5, <1>6, <1>7, <1>8, <1>9 DEF Run

-----------------------------------------------------------------------------
(* The calls.                                                              *)

LEMMA ClaimsRest == ASSUME Inv, Rest, Claims PROVE Rest'
<1> USE DEF Rest
<1>1. prepared \in Nat
  BY DEF Inv, Core, Types
<1>2. ASSUME NEW i, NEW x, NEW e, NEW c, PrepareFresh(i, x, e, c) PROVE Rest'
  <2>1. thinking' \in Nat
    BY <1>2, ThinkingType DEF PrepareFresh, Dispatch
  <2>2. ResourceTypes' /\ RecoveryTypes'
    BY <1>2, <2>1
       DEF PrepareFresh, resources, recovery, ResourceTypes, RecoveryTypes
  <2>3. SessionTypes'
    BY <1>2 DEF PrepareFresh, SessionTypes, OwnerStates
  <2> QED BY <2>2, <2>3
<1>3. ASSUME NEW t \in Turns, PrepareAdopt(t) \/ FinishPreparation(t)
      PROVE  Rest'
  <2>1. thinking' \in Nat
    BY <1>3, ThinkingType DEF PrepareAdopt, FinishPreparation, Dispatch
  <2>2. ResourceTypes' /\ RecoveryTypes'
    BY <1>3, <2>1 DEF PrepareAdopt, FinishPreparation, resources, recovery,
       ResourceTypes, RecoveryTypes
  <2>3. SessionTypes'
    BY <1>3 DEF PrepareAdopt, FinishPreparation, session, SessionTypes,
       OwnerStates
  <2> QED BY <2>2, <2>3
<1>4. CASE PreemptPreparation
  <2>1. thinking' \in Nat
    BY <1>4, ThinkingType DEF PreemptPreparation, Dispatch
  <2> QED BY <1>4, <2>1 DEF PreemptPreparation, resources, recovery, session,
             ResourceTypes, RecoveryTypes, SessionTypes
<1>5. ASSUME NEW t \in Turns, AcceptThinking(t) PROVE Rest'
  BY <1>5, SymbolTypes DEF AcceptThinking, resources, recovery, session,
     ResourceTypes, RecoveryTypes, SessionTypes
<1>6. CASE ReleaseThinking
  BY <1>6 DEF ReleaseThinking, resources, recovery, session,
     ResourceTypes, RecoveryTypes, SessionTypes, None
<1> QED BY <1>2, <1>3, <1>4, <1>5, <1>6 DEF Claims

LEMMA CallRest ==
  ASSUME ResourceTypes, RecoveryTypes, NEW r, Call(r)
  PROVE  ResourceTypes' /\ RecoveryTypes'
<1>1. thinking' \in Nat
  BY ThinkingType DEF Call, Dispatch
<1> QED BY <1>1 DEF Call, resources, recovery, ResourceTypes, RecoveryTypes

LEMMA InertRest ==
  ASSUME ResourceTypes, RecoveryTypes, NEW r, Quiet(r), UNCHANGED resources,
         r.s \in CoordinatorState, closing' = closing
  PROVE  ResourceTypes' /\ RecoveryTypes'
<1>1. RecoveryTypes'
  BY QuietTypes DEF Quiet
<1>2. thinking' = thinking
  BY DEF Quiet, Quietly
<1> QED BY <1>1, <1>2 DEF resources, ResourceTypes

LEMMA RegisterRest ==
  ASSUME Inv, Rest, NEW t \in Turns, RegisterOperation(t)
  PROVE  Rest'
<1> USE DEF Rest
<1> DEFINE o == issued.op + 1
<1>1. s \in CoordinatorState /\ o \in Nat
  BY SymbolTypes DEF Inv, Core, Types
<1>2. Register(s, o, t).s \in CoordinatorState
  BY <1>1, RegisterStill DEF Still
<1> HIDE DEF o
<1>3. /\ Quietly(Register(s, o, t).s, {})
      /\ \/ settlements' = settlements
         \/ settlements' = SettleOperation(s.op.id) \cup {o}
      /\ leases' = leases \/ leases' = leases \cup {o}
      /\ producer' = Becomes(producer, o, "starting")
      /\ home' = Becomes(home, o, t)
      /\ UNCHANGED <<aborted, policies, closing, owner, engine, outcome,
                     foreign>>
  BY DEF RegisterOperation, o
<1>4. RecoveryTypes'
  BY <1>2, <1>3, QuietTypes
<1>5. ResourceTypes'
  BY <1>1, <1>3 DEF ResourceTypes, SettleOperation, Quietly
<1>6. SessionTypes'
  BY <1>3, SymbolTypes DEF SessionTypes, Becomes, ProducerStates
<1> QED BY <1>4, <1>5, <1>6

LEMMA OperationsRest ==
  ASSUME Inv, Rest, NEW o \in Ops, Operations(o)
  PROVE  Rest'
<1> USE DEF Rest
<1>1. s \in CoordinatorState /\ StartupMsg(o) \in Nat /\ StreamMsg(o) \in Nat
  BY SymbolTypes DEF Inv, Core, Types
<1>2. CASE ConfigureOperation(o)
  <2>1. Configure(s, o, TRUE).s \in CoordinatorState
    BY <1>1, OperationStill DEF Still
  <2>2. ResourceTypes' /\ RecoveryTypes'
    BY <1>2, <2>1, InertRest DEF ConfigureOperation, Inert
  <2> QED BY <1>2, <2>2 DEF ConfigureOperation, session, SessionTypes
<1>3. CASE StreamStarting(o)
  <2>1. Starting(s, o, StartupMsg(o)).s \in CoordinatorState
    BY <1>1, OperationStill DEF Still
  <2>2. ResourceTypes' /\ RecoveryTypes'
    BY <1>3, <2>1, InertRest DEF StreamStarting, Inert
  <2> QED BY <1>3, <2>2 DEF StreamStarting, SessionTypes, Becomes
<1>4. CASE StreamStarted(o)
  <2>1. ResourceTypes' /\ RecoveryTypes'
    BY <1>4, CallRest DEF StreamStarted
  <2> QED BY <1>4, <2>1 DEF StreamStarted, SessionTypes, Becomes
<1>5. ASSUME NEW kind \in {"completed", "aborted"}, StreamEnds(o, kind)
      PROVE  Rest'
  <2>1. ResourceTypes' /\ RecoveryTypes'
    BY <1>5, CallRest DEF StreamEnds
  <2> QED BY <1>5, <2>1 DEF StreamEnds, Ended, SessionTypes, Becomes
<1>6. CASE StreamFails(o)
  <2>1. ASSUME Call(FinishObserved(s, s.turn, StreamMsg(o)))
        PROVE  ResourceTypes' /\ RecoveryTypes'
    BY <2>1, CallRest
  <2>2. ASSUME NEW V, Quiet(BeginDecision(s, "error", StreamMsg(o), V)), Inert
        PROVE  ResourceTypes' /\ RecoveryTypes'
    <3>1. BeginDecision(s, "error", StreamMsg(o), V).s \in CoordinatorState
      BY <1>1, BeginDecisionStill DEF Still, DecisionKinds
    <3> QED BY <2>2, <3>1, InertRest DEF Inert
  <2>3. ResourceTypes' /\ RecoveryTypes'
    BY <1>6, <2>1, <2>2 DEF StreamFails
  <2> QED BY <1>6, <2>3 DEF StreamFails, Ended, SessionTypes, Becomes
<1>7. CASE StartupAborts(o)
  <2>1. StartupAbort(s, StartupMsg(o)).s \in CoordinatorState
    BY <1>1, OperationStill DEF Still
  <2>2. ResourceTypes' /\ RecoveryTypes'
    BY <1>7, <2>1, InertRest DEF StartupAborts, Inert
  <2> QED BY <1>7, <2>2 DEF StartupAborts, Ended, SessionTypes, Becomes
<1>8. CASE PreStartError(o)
  <2>1. PICK V \in Evictions(s, "error") :
           Quiet(BeginDecision(s, "error", StartupMsg(o), V))
    BY <1>8 DEF PreStartError
  <2>2. BeginDecision(s, "error", StartupMsg(o), V).s \in CoordinatorState
    BY <1>1, BeginDecisionStill DEF Still, DecisionKinds
  <2>3. ResourceTypes' /\ RecoveryTypes'
    BY <1>8, <2>1, <2>2, InertRest DEF PreStartError, Inert
  <2> QED BY <1>8, <2>3 DEF PreStartError, session, SessionTypes
<1>9. CASE StartupFails(o) \/ DeliverHandle(o)
  <2>1. ResourceTypes' /\ RecoveryTypes'
    BY <1>9 DEF StartupFails, DeliverHandle, Produce, registries, resources,
       recovery, ResourceTypes, RecoveryTypes
  <2>2. SessionTypes'
    BY <1>9 DEF StartupFails, DeliverHandle, Produce, SessionTypes, Becomes,
       ProducerStates
  <2> QED BY <2>1, <2>2
<1> QED BY <1>2, <1>3, <1>4, <1>5, <1>6, <1>7, <1>8, <1>9 DEF Operations

LEMMA AnswerAllTypes ==
  ASSUME Inv, RecoveryTypes, NEW msg, AnswerAll(msg)
  PROVE  RecoveryTypes' /\ thinking' = thinking
<1> DEFINE P == PendingOn(msg)
           A == {Fallback(d) : d \in P}
           D == (s.decisions \ P) \cup A
           t == [s EXCEPT !.decisions = D]
<1>1. s \in CoordinatorState /\ s.decisions \in SUBSET Decision
  BY DEF Inv, Core, Types, CoordinatorState
<1>2. P \in SUBSET Decision
  BY <1>1 DEF PendingOn
<1>3. A \in SUBSET Decision
  BY <1>2, FallbackType
<1>4. Quietly(t, A)
  BY DEF AnswerAll
<1> HIDE DEF P, A
<1>5. D \in SUBSET Decision
  BY <1>1, <1>3
<1> HIDE DEF D
<1>6. t \in CoordinatorState
  BY <1>1, <1>5, DecisionsStill DEF Still
<1> HIDE DEF t
<1>7. RecoveryTypes'
  BY <1>4, <1>6, QuietTypes
<1> QED BY <1>4, <1>7 DEF Quietly

LEMMA CompletionsRest ==
  ASSUME Inv, Rest, NEW o \in Ops, Completions(o)
  PROVE  Rest'
<1> USE DEF Rest
<1>1. s \in CoordinatorState /\ StartupMsg(o) \in Nat /\ StreamMsg(o) \in Nat
  BY SymbolTypes DEF Inv, Core, Types
<1>2. CASE CompletionArrives(o)
  <2> DEFINE a == outcome[o] \in {"aborted", "cancelled"}
             r == Completion(s, o, HandleMsg(o), a)
  <2>1. /\ \/ /\ Dispatch(r, prepared, "none", None)
              /\ UNCHANGED <<settlements, recovery>>
           \/ /\ AnswerAll(HandleMsg(o))
              /\ settlements' = SettleOperation(o)
        /\ \/ producer' = Becomes(producer, o, "finishing")
           \/ producer' = Becomes(producer, o, "launching")
        /\ UNCHANGED <<aborted, leases, policies, closing, owner, home,
                       engine, outcome, foreign>>
    BY <1>2 DEF CompletionArrives
  <2> HIDE DEF r
  <2>2. thinking' \in Nat /\ RecoveryTypes'
    <3>1. CASE /\ Dispatch(r, prepared, "none", None)
               /\ UNCHANGED <<settlements, recovery>>
      BY <3>1, ThinkingType DEF Dispatch, recovery, RecoveryTypes
    <3>2. CASE AnswerAll(HandleMsg(o))
      BY <3>2, AnswerAllTypes DEF ResourceTypes
    <3> QED BY <2>1, <3>1, <3>2
  <2>3. ResourceTypes'
    BY <2>1, <2>2 DEF ResourceTypes, SettleOperation
  <2>4. SessionTypes'
    BY <2>1 DEF SessionTypes, Becomes, ProducerStates
  <2> QED BY <2>2, <2>3, <2>4
<1>3. CASE HandlerClears(o)
  <2>1. ResourceTypes' /\ RecoveryTypes'
    BY <1>3 DEF HandlerClears, registries, resources, recovery,
       ResourceTypes, RecoveryTypes
  <2>2. SessionTypes'
    BY <1>3 DEF HandlerClears, SessionTypes, Becomes, ProducerStates
  <2> QED BY <2>1, <2>2
<1>4. CASE PolicyReturns(o)
  <2>1. RecoveryTypes' /\ thinking' = thinking
    BY <1>4, AnswerAllTypes DEF PolicyReturns
  <2>2. ResourceTypes'
    BY <1>4, <2>1 DEF PolicyReturns, ResourceTypes, SettleOperation
  <2>3. SessionTypes'
    BY <1>4 DEF PolicyReturns, SessionTypes, Becomes, ProducerStates
  <2> QED BY <2>1, <2>2, <2>3
<1>5. CASE FinishStartup(o)
  <2>1. ResourceTypes' /\ RecoveryTypes'
    BY <1>5 DEF FinishStartup, registries, recovery, ResourceTypes,
       RecoveryTypes, SettleOperation, ReleaseLease
  <2>2. SessionTypes'
    BY <1>5 DEF FinishStartup, SessionTypes, Becomes, ProducerStates
  <2> QED BY <2>1, <2>2
<1>6. CASE BeginPolicy(o)
  <2>1. ResourceTypes' /\ RecoveryTypes'
    BY <1>6, CallRest DEF BeginPolicy
  <2> QED BY <1>6, <2>1 DEF BeginPolicy, session, SessionTypes
<1>7. CASE FinishTurn(o)
  <2>1. ResourceTypes' /\ RecoveryTypes'
    BY <1>7, CallRest DEF FinishTurn
  <2> QED BY <1>7, <2>1 DEF FinishTurn, session, SessionTypes
<1>8. ASSUME NEW kind \in DecisionKinds, NEW msg \in Nat, NEW v \in Verdicts,
             ResolveVerdict(o, kind, msg, v)
      PROVE  Rest'
  <2>1. ResolveDecision(s, kind, msg, v).s \in CoordinatorState
    BY <1>1, ResolveDecisionStill DEF Still
  <2>2. ResourceTypes' /\ RecoveryTypes'
    BY <1>8, <2>1, InertRest DEF ResolveVerdict, Inert
  <2> QED BY <1>8, <2>2 DEF ResolveVerdict, session, SessionTypes
<1>9. /\ {"error", "compaction"} \subseteq DecisionKinds
      /\ {"terminal", "retry-started", "accepted", "declined"} \subseteq Verdicts
  BY DEF DecisionKinds, Verdicts
<1> QED BY <1>1, <1>2, <1>3, <1>4, <1>5, <1>6, <1>7, <1>8, <1>9 DEF Completions

LEMMA EngineRest ==
  ASSUME Inv, Rest,
         SyntheticAbort \/ ForeignEnds \/ \E m \in Messages : ObserveReplay(m)
  PROVE  Rest'
<1> USE DEF Rest
<1>1. s \in CoordinatorState /\ None \in Nat
  BY DEF Inv, Core, Types, None
<1>2. CASE SyntheticAbort
  <2>1. StartupAbort(s, None).s \in CoordinatorState
    BY <1>1, OperationStill DEF Still
  <2>2. ResourceTypes' /\ RecoveryTypes'
    BY <1>2, <2>1, InertRest DEF SyntheticAbort, Inert
  <2> QED BY <1>2, <2>2 DEF SyntheticAbort, session, SessionTypes
<1>3. CASE ForeignEnds
  <2>1. ResourceTypes' /\ RecoveryTypes'
    BY <1>3, CallRest DEF ForeignEnds
  <2> QED BY <1>3, <2>1 DEF ForeignEnds, SessionTypes
<1>4. ASSUME NEW m \in Messages, ObserveReplay(m) PROVE Rest'
  <2>1. ResourceTypes' /\ RecoveryTypes'
    BY <1>4, CallRest DEF ObserveReplay
  <2> QED BY <1>4, <2>1 DEF ObserveReplay, session, SessionTypes
<1> QED BY <1>2, <1>3, <1>4

LEMMA HoldsRest == ASSUME Inv, Rest, Holds PROVE Rest'
<1> USE DEF Rest
<1>1. s \in CoordinatorState /\ Issued
  BY DEF Inv, Core, Types
<1>2. ASSUME NEW k \in ReservationKinds, MakeReservation(k) PROVE Rest'
  <2>1. Reserve(s, issued.resv + 1, k).s \in CoordinatorState
    BY <1>1, SymbolTypes, HoldsStill DEF Still
  <2>2. ResourceTypes' /\ RecoveryTypes'
    BY <1>2, <2>1, InertRest DEF MakeReservation
  <2> QED BY <1>2, <2>2 DEF MakeReservation, session, SessionTypes
<1>3. ASSUME NEW r, ReleaseReservation(r) PROVE Rest'
  <2>1. ResourceTypes' /\ RecoveryTypes'
    BY <1>3, CallRest DEF ReleaseReservation
  <2> QED BY <1>3, <2>1 DEF ReleaseReservation, session, SessionTypes
<1>4. ASSUME NEW w \in Waiters,
             CancelWait(w) \/ \E k \in {"idle", "unbusy", "compaction"} :
                                WaitFor(w, k)
      PROVE  Rest'
  BY <1>4 DEF CancelWait, WaitFor, resources, recovery, session,
     ResourceTypes, RecoveryTypes, SessionTypes
<1>5. CASE BeginRetry
  <2>1. RetryStart(s, issued.token + 1).s \in CoordinatorState
    BY <1>1, SymbolTypes, HoldsStill DEF Still, ReservationKinds
  <2>2. ResourceTypes' /\ RecoveryTypes'
    BY <1>5, <2>1, InertRest DEF BeginRetry
  <2> QED BY <1>5, <2>2 DEF BeginRetry, session, SessionTypes
<1>6. ASSUME NEW id \in 1 .. MaxTokens, FinishRetry(id) PROVE Rest'
  <2>1. RetryFinish(s, id).s \in CoordinatorState
    BY <1>1, SymbolTypes, HoldsStill DEF Still, ReservationKinds
  <2>2. ResourceTypes' /\ RecoveryTypes'
    BY <1>6, <2>1, InertRest DEF FinishRetry, Inert
  <2> QED BY <1>6, <2>2 DEF FinishRetry, session, SessionTypes
<1> QED BY <1>2, <1>3, <1>4, <1>5, <1>6 DEF Holds

LEMMA DecisionsRest == ASSUME Inv, Rest, Decisions PROVE Rest'
<1> USE DEF Rest
<1>1. s \in CoordinatorState
  BY DEF Inv, Core, Types
<1>2. ASSUME NEW x \in Readers, NEW m \in Messages, ReadError(x, m) PROVE Rest'
  <2>1. [st |-> "waiting", kind |-> "error", msg |-> m] \in Readings
    BY SymbolTypes DEF Readings, DecisionKinds
  <2>2. RecoveryTypes'
    BY <1>2, <2>1 DEF ReadError, RecoveryTypes
  <2> QED BY <1>2, <2>2 DEF ReadError, registries, resources, session,
             ResourceTypes, SessionTypes
<1>3. ASSUME NEW x \in Readers, NEW m \in Messages, ReadCompaction(x, m)
      PROVE  Rest'
  <2> DEFINE r == IF RequestActive /\ OwnStream(m)
                    THEN BeginDecision(s, "compaction", m, {}) ELSE Ignored(s)
             kept == Settled(SettlesOf(r), r.s)
             v == IF <<"compaction", m>> \in kept THEN "waiting" ELSE "answered"
  <2>1. BeginDecision(s, "compaction", m, {}).s \in CoordinatorState
    BY <1>1, SymbolTypes, BeginDecisionStill DEF Still, DecisionKinds
  <2>2. r.s \in CoordinatorState
    BY <1>1, <2>1 DEF Ignored, Result
  <2>3. /\ promises' = kept
        /\ reading' = [reading EXCEPT ![x] =
             [st |-> v, kind |-> "compaction", msg |-> m]]
    BY <1>3 DEF ReadCompaction
  <2> HIDE DEF r
  <2>4. kept \subseteq Keys
    BY <2>2, SettledType
  <2> HIDE DEF kept
  <2>5. [st |-> v, kind |-> "compaction", msg |-> m] \in Readings
    BY SymbolTypes DEF Readings, DecisionKinds
  <2> HIDE DEF v
  <2>6. RecoveryTypes'
    BY <2>3, <2>4, <2>5 DEF RecoveryTypes
  <2> QED BY <1>3, <2>6 DEF ReadCompaction, registries, resources, session,
             ResourceTypes, SessionTypes
<1>4. ASSUME NEW x \in Readers, ReaderReturns(x) PROVE Rest'
  <2> DEFINE u == IF reading[x].kind = "compaction"
                    THEN ForgetCompaction(s, reading[x].msg) ELSE Ignored(s)
             off == [reading EXCEPT ![x] = [@ EXCEPT !.st = "off"]]
  <2>1. u.s \in CoordinatorState
    BY <1>1, ForgetStill DEF Still, Ignored, Result
  <2>2. promises' = Settled({}, u.s) /\ reading' = Read(off, {}, Settled({}, u.s))
    BY <1>4 DEF ReaderReturns
  <2> HIDE DEF u
  <2>3. [reading[x] EXCEPT !.st = "off"] \in Readings
    BY DEF RecoveryTypes, Readings
  <2>4. off \in [Readers -> Readings]
    BY <2>3 DEF RecoveryTypes
  <2> HIDE DEF off
  <2>5. RecoveryTypes'
    BY <2>1, <2>2, <2>4, SettledType, ReadType DEF RecoveryTypes
  <2> QED BY <1>4, <2>5 DEF ReaderReturns, registries, resources, session,
             ResourceTypes, SessionTypes
<1> QED BY <1>2, <1>3, <1>4 DEF Decisions

LEMMA CompactionsRest == ASSUME Inv, Rest, Compactions PROVE Rest'
<1> USE DEF Rest
<1>1. s \in CoordinatorState /\ Issued /\ "observing" \in Stages
      /\ None \in Nat /\ 1 \in Nat
  BY DEF Inv, Core, Types, Stages, None
<1>2. CASE BeginCompactionObservation
  <2>1. CompactionObserve(s, issued.token + 1).s \in CoordinatorState
    BY <1>1, SymbolTypes, ObservationStill DEF Still
  <2>2. ResourceTypes' /\ RecoveryTypes'
    BY <1>2, <2>1, InertRest DEF BeginCompactionObservation
  <2> QED BY <1>2, <2>2 DEF BeginCompactionObservation, session, SessionTypes
<1>3. CASE AbandonCompaction
  <2>1. CompactionAbandon(s).s \in CoordinatorState
    BY <1>1, HoldsStill DEF Still, ReservationKinds
  <2>2. ResourceTypes' /\ RecoveryTypes'
    BY <1>3, <2>1, InertRest DEF AbandonCompaction, Inert
  <2> QED BY <1>3, <2>2 DEF AbandonCompaction, session, SessionTypes
<1>4. ASSUME NEW id \in {None, 1}, RecordCompactionSummary(id) PROVE Rest'
  <2>1. CompactionSummary(s, id).s \in CoordinatorState
    BY <1>1, HoldsStill DEF Still, ReservationKinds
  <2>2. ResourceTypes' /\ RecoveryTypes'
    BY <1>4, <2>1, InertRest DEF RecordCompactionSummary, Inert
  <2> QED BY <1>4, <2>2 DEF RecordCompactionSummary, session, SessionTypes
<1>5. ASSUME NEW k \in 1 .. MaxTokens, FinishCompactionObservation(k)
      PROVE  Rest'
  BY <1>5 DEF FinishCompactionObservation, resources, recovery, session,
     ResourceTypes, RecoveryTypes, SessionTypes
<1>6. ASSUME NEW k \in 1 .. MaxTokens, NEW g \in {"stopping", "stopped"},
             SetCompactionStage(k, g)
      PROVE  Rest'
  <2>1. CompactionStage(s, k, g).s \in CoordinatorState
    BY <1>1, SymbolTypes, ObservationStill DEF Still, Stages
  <2>2. ResourceTypes' /\ RecoveryTypes'
    BY <1>6, <2>1, InertRest DEF SetCompactionStage, Inert
  <2> QED BY <1>6, <2>2 DEF SetCompactionStage, session, SessionTypes
<1> QED BY <1>2, <1>3, <1>4, <1>5, <1>6 DEF Compactions

LEMMA ClosingRest == ASSUME Rest, Closing \/ Close PROVE Rest'
<1> USE DEF Rest
<1>1. CASE BeginShutdown \/ Drain \/ Close
  <2>1. thinking' \in Nat /\ UNCHANGED <<resources, recovery, session>>
    BY <1>1 DEF BeginShutdown, Drain, Close, registries, ResourceTypes, None
  <2>2. \/ closing' = closing
        \/ closing' = [closing EXCEPT !.requested = TRUE]
        \/ closing' = [closing EXCEPT !.closed = TRUE]
    BY <1>1 DEF BeginShutdown, Drain, Close
  <2>3. closing' \in [requested : BOOLEAN, closed : BOOLEAN]
    BY <2>2 DEF ResourceTypes
  <2> QED BY <2>1, <2>3 DEF resources, recovery, session, ResourceTypes,
             RecoveryTypes, SessionTypes
<1>2. CASE DisposeSession
  <2>1. thinking' \in Nat
    BY <1>2, ThinkingType DEF DisposeSession
  <2> QED BY <1>2, <2>1 DEF DisposeSession, resources, recovery, session,
             ResourceTypes, RecoveryTypes, SessionTypes
<1> QED BY <1>1, <1>2 DEF Closing

LEMMA StutterRest == ASSUME Rest, UNCHANGED vars PROVE Rest'
BY DEF vars, registries, resources, recovery, session, Rest, ResourceTypes,
   RecoveryTypes, SessionTypes

-----------------------------------------------------------------------------
LEMMA InitRest == ASSUME Init PROVE Rest
<1>1. ResourceTypes /\ SessionTypes
  BY DEF Init, ResourceTypes, SessionTypes, OwnerStates, ProducerStates, None
<1>2. RecoveryTypes
  BY DEF Init, RecoveryTypes, Readings, DecisionKinds, None
<1> QED BY <1>1, <1>2 DEF Rest

LEMMA NextRest == ASSUME Inv, Rest, Next PROVE Rest'
BY RunRest, ClaimsRest, RegisterRest, OperationsRest, CompletionsRest,
   EngineRest, HoldsRest, DecisionsRest, CompactionsRest, ClosingRest
DEF Next

(* Every variable keeps its type: whichever callback calls whichever       *)
(* method, the reducer's state, the frames in progress, the registries and *)
(* the promises stay well formed (turnCoordinator.ts, the whole class).    *)
THEOREM TypeCorrect == Spec => []TypeOK
<1>1. Init => Inv /\ Rest
  BY InitInv, InitRest
<1>2. Inv /\ Rest /\ [Next]_vars => Inv' /\ Rest'
  BY NextInv, StutterInv, NextRest, StutterRest
<1>3. Inv /\ Rest => TypeOK
  BY DEF Inv, Core, Issued, Types, WaitStates, Rest, ResourceTypes,
     SessionTypes, RecoveryTypes, OwnerStates, ProducerStates, Readings, Keys,
     TypeOK
<1> QED BY <1>1, <1>2, <1>3, PTL DEF Spec

-----------------------------------------------------------------------------
(***************************************************************************)
(* Who owns what in the coordinator, for every number of turns,            *)
(* operations, readers and nested dispatches: the controller of a claim,   *)
(* the stream of a phase, the settlement of an operation, the answer to a  *)
(* decision.                                                               *)
(*                                                                         *)
(* Owned, the inductive invariant below, ties each of them to the producer *)
(* that has to let go of it, and to the commands that the dispatches in    *)
(* progress still have to run.  Most steps touch one of its parts; the     *)
(* lemmas say what a dispatch, a popped command and a return do to the     *)
(* stack, what an event does to the fields of the state the parts read,    *)
(* and then, action by action, that the parts survive.                     *)
(*                                                                         *)
(* Answered, a second layer on top of it, ties the pending decisions, the  *)
(* promises of the registry and the readers that wait for them to the      *)
(* producer that has to answer, and is carried over the actions likewise.  *)
(***************************************************************************)

Typed == Inv /\ Rest

Disposed == s.life = "disposed"

-----------------------------------------------------------------------------
(* The dispatches in progress.                                             *)

Elements(q) == {q[j] : j \in DOMAIN q}

(* The command that runs next, and those that run after it or after the    *)
(* callback of the top frame.                                              *)
NextUp ==
  IF stack = << >> \/ Top.observing \/ Top.cmds = << >> THEN {}
  ELSE {Head(Top.cmds)}

Below == UNION {Elements(stack[i].cmds) : i \in 1 .. Len(stack) - 1}

Buried ==
  IF stack = << >> THEN {}
  ELSE Below \cup
       IF Top.observing \/ Top.cmds = << >> THEN Elements(Top.cmds)
       ELSE Elements(Tail(Top.cmds))

(* The turns that an edit is preempting, before their controllers abort.   *)
Preempted ==
  {stack[i].id : i \in {j \in DOMAIN stack : stack[j].then = "preempt"}}

-----------------------------------------------------------------------------
(* The inductive invariant.                                                *)

(* Turns and operations are issued before they are current; a session      *)
(* observes a stream only while it runs none; a disposed one has nothing.  *)
PhaseInv ==
  /\ s.turn <= issued.turn
  /\ s.op.id \in Ops \cup {None} /\ s.op.id <= issued.op
  /\ s.observed # None => s.phase = "streaming" /\ s.op.id = None
  /\ Disposed => s.phase = "idle" /\ s.op.id = None

(* An aborted turn, or one that is being preempted, stays without an       *)
(* operation, a preparation or a controller.                               *)
Dead(t) ==
  s.turn = t => s.op.id = None /\ s.phase # "preparing" /\ prepared = None

ClaimInv ==
  /\ ControllerFollowsClaim
  /\ IF Disposed THEN prepared = None
     ELSE \A t \in aborted \cup Preempted : t <= issued.turn /\ Dead(t)

(* A command that has to wait its turn: what it retires is no longer       *)
(* current, and its policy or decisions would not have been put off.       *)
Later(c) ==
  /\ c.do \notin {"policy", "decisions"}
  /\ c.do = "retire" => c.id <= issued.op /\ c.id \notin {None, s.op.id}
  /\ c.do = "dispose" => Disposed

Launches(c) ==
  c.do = "policy" /\ c.id \in Ops /\ producer[c.id] = "launching"

FrameInv ==
  /\ \A c \in Buried : Later(c)
  /\ \A c \in NextUp : Later(c) \/ Launches(c) \/ c.do = "decisions"

(* The producer of an operation and its stream.                            *)
ProducerInv(o) ==
  /\ producer[o] = "none" <=> o > issued.op
  /\ producer[o] = "none" => engine[o] = "off"
  /\ engine[o] = "off" => producer[o] \in {"none", "starting"}
  /\ engine[o] = "handed" => producer[o] = "starting"
  /\ engine[o] = "live" => producer[o] \in {"starting", "consuming"}
  /\ outcome[o] # "none" => engine[o] = "ended" /\ producer[o] # "failing"

(* A start-up that nobody stopped still owns the turn it prepares.         *)
StartInv(o) ==
  /\ producer[o] = "starting" /\ engine[o] \in {"off", "handed"}
  /\ ~Disposed /\ home[o] \notin aborted \cup Preempted
  => s.op.id = o /\ s.phase = "preparing"

(* The current operation: its turn, whether its outcome was delivered, and *)
(* its settlement.                                                         *)
CurrentInv(o) ==
  s.op.id = o =>
    /\ home[o] = s.turn
    /\ producer[o] \in {"starting", "consuming", "failing"} =>
          s.op.delivery = "waiting"
    /\ producer[o] \notin {"finishing", "done"} => o \in settlements

OperationsInv == \A o \in Ops : ProducerInv(o) /\ StartInv(o) /\ CurrentInv(o)

StreamInv ==
  s.phase = "streaming" =>
    IF s.op.id = None THEN s.observed \in Live
    ELSE producer[s.op.id] \in {"starting", "consuming", "launching",
                               "policy", "handled"}

SettleInv ==
  /\ \A o \in settlements : o \in Ops /\ producer[o] \notin {"none", "done"}
                            /\ o \in leases
  /\ \A o \in policies : o \in Ops /\ producer[o] \in {"policy", "handled"}

Owned == /\ PhaseInv /\ ClaimInv /\ FrameInv /\ OperationsInv /\ StreamInv
         /\ SettleInv

-----------------------------------------------------------------------------
(* What a step does to the commands in progress.                           *)

LEMMA Quiescent == ASSUME CanCall PROVE NextUp = {}
BY DEF CanCall, NextUp

LEMMA SameShape ==
  ASSUME stack' = stack
  PROVE  NextUp' = NextUp /\ Buried' = Buried /\ Preempted' = Preempted
BY DEF NextUp, Buried, Below, Preempted, Top

LEMMA TopCommands ==
  ASSUME Types, stack # << >>
  PROVE  /\ Top.cmds \in Seq(Command) /\ Top.id \in Nat
         /\ Top.then \in Continuations /\ Top.observing \in BOOLEAN
BY TopType DEF Types, Frames

LEMMA ElementTypes ==
  ASSUME NEW q \in Seq(Command), q # << >>
  PROVE  /\ Head(q) \in Command /\ Tail(q) \in Seq(Command)
         /\ Elements(q) = {Head(q)} \cup Elements(Tail(q))
<1>1. /\ Head(q) \in Command /\ Tail(q) \in Seq(Command)
      /\ Len(q) \in Nat \ {0} /\ Len(Tail(q)) = Len(q) - 1
      /\ \A i \in 1 .. Len(Tail(q)) : Tail(q)[i] = q[i + 1]
      /\ Head(q) = q[1]
  BY HeadTailProperties, EmptySeq, LenProperties
<1>2. DOMAIN q = 1 .. Len(q) /\ DOMAIN Tail(q) = 1 .. Len(q) - 1
  BY <1>1, LenProperties
<1> DEFINE t == Tail(q)
           h == Head(q)
<1> HIDE DEF t, h
<1>3. ASSUME NEW j \in DOMAIN q PROVE q[j] \in {h} \cup Elements(t)
  <2>1. CASE j = 1
    BY <1>1, <2>1 DEF h
  <2>2. CASE j # 1
    <3>1. j - 1 \in DOMAIN t /\ t[j - 1] = q[j]
      BY <1>1, <1>2, <2>2 DEF t
    <3> QED BY <3>1 DEF Elements
  <2> QED BY <2>1, <2>2
<1>4. h \in Elements(q)
  BY <1>1, <1>2 DEF Elements, h
<1>5. ASSUME NEW j \in DOMAIN t PROVE t[j] \in Elements(q)
  <2>1. j + 1 \in DOMAIN q /\ q[j + 1] = t[j]
    BY <1>1, <1>2 DEF t
  <2> QED BY <2>1 DEF Elements
<1> QED BY <1>1, <1>3, <1>4, <1>5 DEF Elements, t, h

LEMMA NoElements == Elements(<< >>) = {}
BY DEF Elements

(* A dispatch puts off nothing but its own commands.                       *)
LEMMA PushShape ==
  ASSUME Types, CanCall, NEW f, f.cmds \in Seq(Command), ~f.observing,
         stack' = Append(stack, f)
  PROVE  /\ Buried' \subseteq
              Buried \cup (IF f.cmds = << >> THEN {}
                           ELSE Elements(Tail(f.cmds)))
         /\ NextUp' = IF f.cmds = << >> THEN {} ELSE {Head(f.cmds)}
         /\ Preempted' = Preempted
              \cup (IF f.then = "preempt" THEN {f.id} ELSE {})
<1> DEFINE n == Len(stack)
<1>1. n \in Nat /\ DOMAIN stack = 1 .. n
  BY LenProperties DEF Types
<1>2. /\ Len(stack') = n + 1
      /\ \A i \in 1 .. n : stack'[i] = stack[i]
      /\ stack'[n + 1] = f
      /\ DOMAIN stack' = 1 .. n + 1
  BY <1>1, AppendProperties DEF Types
<1> HIDE DEF n
<1>3. stack' # << >> /\ Top' = f
  BY <1>1, <1>2 DEF Top
<1>4. \A i \in 1 .. n : Elements(stack'[i].cmds) = Elements(stack[i].cmds)
  BY <1>2
<1>5. Below' = UNION {Elements(stack[i].cmds) : i \in 1 .. n}
  <2>1. 1 .. Len(stack') - 1 = 1 .. n
    BY <1>1, <1>2
  <2> QED BY <2>1, <1>4 DEF Below
<1>6. Below' \subseteq Buried
  <2>1. CASE stack = << >>
    <3>1. n = 0
      BY <1>1, <2>1 DEF n
    <3> QED BY <1>5, <3>1
  <2>2. CASE stack # << >>
    <3>1. Top.observing /\ n >= 1 /\ Top = stack[n]
      BY <1>1, <2>2, TopType DEF CanCall, Top, Types, n
    <3>2. 1 .. n = (1 .. n - 1) \cup {n}
      BY <1>1, <3>1
    <3>3. Buried = Below \cup Elements(stack[n].cmds)
      BY <2>2, <3>1 DEF Buried
    <3> QED BY <1>5, <3>2, <3>3 DEF Below, n
  <2> QED BY <2>1, <2>2
<1>7. Buried' = Below' \cup (IF f.cmds = << >> THEN Elements(f.cmds)
                            ELSE Elements(Tail(f.cmds)))
  BY <1>3 DEF Buried
<1>8. f.cmds = << >> => Elements(f.cmds) = {}
  BY NoElements
<1>9. NextUp' = IF f.cmds = << >> THEN {} ELSE {Head(f.cmds)}
  BY <1>3 DEF NextUp
<1>10. Preempted' = Preempted \cup (IF f.then = "preempt" THEN {f.id} ELSE {})
  <2>1. DOMAIN stack' = DOMAIN stack \cup {n + 1}
    BY <1>1, <1>2
  <2> QED BY <1>1, <1>2, <2>1 DEF Preempted
<1> QED BY <1>6, <1>7, <1>8, <1>9, <1>10

(* A frame that keeps its continuation, with fewer commands or none run.   *)
LEMMA TopReplaced ==
  ASSUME Types, stack # << >>, NEW f, f.then = Top.then, f.id = Top.id,
         stack' = [stack EXCEPT ![Len(stack)] = f]
  PROVE  /\ stack' # << >> /\ Top' = f /\ Below' = Below
         /\ Preempted' = Preempted
<1> DEFINE n == Len(stack)
<1>1. n \in Nat \ {0} /\ DOMAIN stack = 1 .. n /\ Top = stack[n]
  BY TopType DEF Types, Top
<1>2. /\ DOMAIN stack' = DOMAIN stack
      /\ \A j \in DOMAIN stack : stack'[j] = IF j = n THEN f ELSE stack[j]
  OBVIOUS
<1>3. Len(stack') = n
  <2>1. stack' \in Seq({stack[j] : j \in 1 .. n} \cup {f})
    <3>1. stack' \in [1 .. n -> {stack[j] : j \in 1 .. n} \cup {f}]
      BY <1>1, <1>2
    <3> QED BY <1>1, <3>1, SeqDef
  <2>2. DOMAIN stack' = 1 .. Len(stack') /\ Len(stack') \in Nat
    BY <2>1, LenProperties
  <2> QED BY <1>1, <1>2, <2>2
<1>4. stack' # << >>
  BY <1>1, <1>2
<1> HIDE DEF n
<1>5. Top' = f
  BY <1>1, <1>2, <1>3 DEF Top
<1>6. \A i \in 1 .. n - 1 : Elements(stack'[i].cmds) = Elements(stack[i].cmds)
  BY <1>1, <1>2
<1>7. Below' = Below
  BY <1>3, <1>6 DEF Below, n
<1>8. \A j \in DOMAIN stack : stack'[j].then = stack[j].then
                              /\ stack'[j].id = stack[j].id
  BY <1>1, <1>2
<1>9. Preempted' = Preempted
  BY <1>2, <1>8 DEF Preempted
<1> QED BY <1>4, <1>5, <1>7, <1>9

LEMMA PopShape ==
  ASSUME Types, stack # << >>, Top.cmds # << >>, PopCommand
  PROVE  NextUp' \cup Buried' \subseteq Buried /\ Preempted' = Preempted
<1> DEFINE f == Consumed(Top)
           q == Top.cmds
<1>1. q \in Seq(Command) /\ q # << >>
  BY TopCommands
<1>2. Tail(q) \in Seq(Command) /\ Elements(Tail(q)) \subseteq Elements(q)
  BY <1>1, ElementTypes
<1>3. Top \in Frames
  BY TopType DEF Types
<1>4. /\ f.cmds = Tail(q) /\ ~f.observing /\ f.then = Top.then /\ f.id = Top.id
  BY <1>3 DEF Consumed, Frames
<1>5. stack' = [stack EXCEPT ![Len(stack)] = f]
  BY DEF PopCommand, Top
<1>6. Elements(Tail(q)) \subseteq Buried /\ Below \subseteq Buried
  BY <1>1, <1>2 DEF Buried
<1> HIDE DEF f
<1>7. stack' # << >> /\ Top' = f /\ Below' = Below /\ Preempted' = Preempted
  BY <1>4, <1>5, TopReplaced
<1>8. NextUp' \subseteq Elements(Tail(q))
  <2>1. Tail(q) # << >> => Head(Tail(q)) \in Elements(Tail(q))
    BY <1>2, ElementTypes
  <2> QED BY <1>4, <1>7, <2>1 DEF NextUp
<1>9. Tail(q) # << >> => Elements(Tail(Tail(q))) \subseteq Elements(Tail(q))
  BY <1>2, ElementTypes
<1>10. Buried' \subseteq Below \cup Elements(Tail(q))
  BY <1>4, <1>7, <1>9 DEF Buried
<1> QED BY <1>6, <1>7, <1>8, <1>10

LEMMA EnterShape ==
  ASSUME Types, stack # << >>, ~Top.observing, Top.cmds # << >>, EnterObserver
  PROVE  /\ NextUp' = {} /\ Buried' \subseteq Buried \cup {Head(Top.cmds)}
         /\ Preempted' = Preempted
<1> DEFINE f == [Top EXCEPT !.observing = TRUE]
           q == Top.cmds
<1>1. Top \in Frames
  BY TopType DEF Types
<1>2. f.cmds = q /\ f.observing /\ f.then = Top.then /\ f.id = Top.id
  BY <1>1 DEF Frames
<1>3. stack' = [stack EXCEPT ![Len(stack)] = f]
  BY DEF EnterObserver, Top
<1> HIDE DEF f
<1>4. stack' # << >> /\ Top' = f /\ Below' = Below /\ Preempted' = Preempted
  BY <1>2, <1>3, TopReplaced
<1>5. Elements(q) = {Head(q)} \cup Elements(Tail(q))
  BY TopCommands, ElementTypes
<1>6. Buried' = Below \cup Elements(q)
  BY <1>2, <1>4 DEF Buried
<1>7. Buried = Below \cup Elements(Tail(q))
  BY DEF Buried
<1>8. NextUp' = {}
  BY <1>2, <1>4 DEF NextUp
<1> QED BY <1>4, <1>5, <1>6, <1>7, <1>8

LEMMA ReturnShape ==
  ASSUME Types, Return
  PROVE  /\ NextUp' \cup Buried' \subseteq Buried
         /\ Preempted' \subseteq Preempted
         /\ Preempted \subseteq
              Preempted' \cup (IF Top.then = "preempt" THEN {Top.id} ELSE {})
         /\ Top.then = "preempt" => Top.id \in Preempted
<1> DEFINE n == Len(stack)
<1>1. /\ stack # << >> /\ ~Top.observing /\ Top.cmds = << >>
      /\ stack' = SubSeq(stack, 1, n - 1)
  BY DEF Return
<1>2. /\ n \in Nat \ {0} /\ DOMAIN stack = 1 .. n /\ Top = stack[n]
      /\ stack \in Seq(Frames)
  BY <1>1, TopType DEF Types, Top
<1>3. /\ stack' \in Seq(Frames) /\ Len(stack') = n - 1
      /\ \A i \in 1 .. n - 1 : stack'[i] = stack[i]
      /\ DOMAIN stack' = 1 .. n - 1
  <2>1. \A i \in 1 .. n - 1 : stack[i] \in Frames
    BY <1>2, ElementOfSeq
  <2>2. /\ SubSeq(stack, 1, n - 1) \in Seq(Frames)
        /\ Len(SubSeq(stack, 1, n - 1)) = IF 1 <= n - 1 THEN n - 1 ELSE 0
        /\ \A i \in 1 .. n - 1 : SubSeq(stack, 1, n - 1)[i] = stack[i]
    BY <1>2, <2>1, SubSeqProperties
  <2> QED BY <1>1, <1>2, <2>2, LenProperties
<1>4. Below \subseteq Buried
  BY <1>1 DEF Buried
<1> HIDE DEF n
<1>5. \A i \in 1 .. n - 1 : Elements(stack[i].cmds) \subseteq Below
  BY DEF Below, n
<1>6. NextUp' \cup Buried' \subseteq Below
  <2>1. CASE n = 1
    <3>1. stack' = << >>
      BY <1>3, <2>1, EmptySeq
    <3> QED BY <3>1 DEF NextUp, Buried
  <2>2. CASE n # 1
    <3>1. /\ n - 1 \in 1 .. n - 1 /\ Top' = stack[n - 1]
          /\ stack[n - 1] \in Frames
      BY <1>2, <1>3, <2>2, ElementOfSeq DEF Top
    <3> DEFINE q == stack[n - 1].cmds
    <3>2. Top'.cmds = q /\ q \in Seq(Command) /\ Elements(q) \subseteq Below
      BY <1>5, <3>1 DEF Frames
    <3>3. q # << >> => /\ Head(q) \in Elements(q)
                       /\ Elements(Tail(q)) \subseteq Elements(q)
      BY <3>2, ElementTypes
    <3>4. Below' \subseteq Below
      <4>1. \A i \in 1 .. n - 2 : Elements(stack'[i].cmds) \subseteq Below
        BY <1>2, <1>3, <1>5
      <4>2. Len(stack') - 1 = n - 2
        BY <1>2, <1>3
      <4> QED BY <4>1, <4>2 DEF Below
    <3> HIDE DEF q
    <3> QED BY <3>2, <3>3, <3>4 DEF NextUp, Buried
  <2> QED BY <2>1, <2>2
<1>7. /\ Preempted' \subseteq Preempted
      /\ Preempted \subseteq
           Preempted' \cup (IF Top.then = "preempt" THEN {Top.id} ELSE {})
      /\ Top.then = "preempt" => Top.id \in Preempted
  <2>1. 1 .. n = (1 .. n - 1) \cup {n}
    BY <1>2
  <2> QED BY <1>2, <1>3, <2>1 DEF Preempted
<1> QED BY <1>4, <1>6, <1>7

(* A cancelled wait only leaves the batch it joined.                       *)
LEMMA CancelShape ==
  ASSUME Types, NEW w, CancelWait(w)
  PROVE  NextUp' = NextUp /\ Buried' = Buried /\ Preempted' = Preempted
<1> DEFINE n == Len(stack)
           g(i) == [stack[i] EXCEPT !.detached = @ \ {w}]
<1>1. stack' = [i \in DOMAIN stack |-> g(i)] /\ stack \in Seq(Frames)
  BY DEF CancelWait, Types
<1>2. n \in Nat /\ DOMAIN stack = 1 .. n
  BY <1>1, LenProperties
<1>3. \A i \in 1 .. n :
         /\ g(i).observing = stack[i].observing /\ g(i).cmds = stack[i].cmds
         /\ g(i).then = stack[i].then /\ g(i).id = stack[i].id
         /\ g(i) \in Frames
  <2>1. \A i \in 1 .. n : stack[i] \in Frames
    BY <1>1, ElementOfSeq
  <2> QED BY <2>1 DEF Frames
<1> HIDE DEF g
<1>4. DOMAIN stack' = 1 .. n /\ \A i \in 1 .. n : stack'[i] = g(i)
  BY <1>1, <1>2
<1>5. Len(stack') = n
  <2>1. stack' \in [1 .. n -> Frames]
    BY <1>1, <1>2, <1>3
  <2>2. stack' \in Seq(Frames)
    BY <1>2, <2>1, SeqDef
  <2> QED BY <1>2, <1>4, <2>2, LenProperties
<1>6. stack' = << >> <=> stack = << >>
  BY <1>2, <1>4, EmptySeq
<1> HIDE DEF n
<1>7. stack # << >> => /\ Top'.observing = Top.observing
                       /\ Top'.cmds = Top.cmds
  <2>1. stack # << >> => n \in 1 .. n
    BY <1>1, TopType DEF n
  <2> QED BY <1>3, <1>4, <1>5, <2>1 DEF Top, n
<1>8. Below' = Below
  <2>1. \A i \in 1 .. n - 1 :
           Elements(stack'[i].cmds) = Elements(stack[i].cmds)
    BY <1>2, <1>3, <1>4
  <2> QED BY <1>5, <2>1 DEF Below, n
<1>9. Preempted' = Preempted
  BY <1>2, <1>3, <1>4 DEF Preempted
<1> QED BY <1>6, <1>7, <1>8, <1>9 DEF NextUp, Buried

-----------------------------------------------------------------------------
(* What an event does to the fields that the invariant reads.              *)

(* The commands that only publish, drain or retire the operation o.        *)
PoliteTo(o, c) ==
  \/ c.do \in {"phase", "record-start", "drain"}
  \/ c.do = "retire" /\ c.id = o /\ c.id # None

Polite(o, cmds) == \A c \in Elements(cmds) : PoliteTo(o, c)

(* An event that leaves the owner of the phase alone.                      *)
SameOwner(u, t) ==
  /\ t.life = "disposed" <=> u.life = "disposed"
  /\ t.phase = u.phase /\ t.turn = u.turn /\ t.observed = u.observed
  /\ t.op.id = u.op.id /\ t.op.delivery = u.op.delivery

(* One that moves the phase, and one that drops the operation too.         *)
MovesTo(u, t, phase) ==
  /\ t.life = u.life /\ t.turn = u.turn /\ t.decisions = u.decisions
  /\ t.phase = phase

LEMMA PoliteAlone ==
  ASSUME NEW o, NEW c, PoliteTo(o, c) PROVE Polite(o, << c >>)
BY DEF Polite, Elements

LEMMA PoliteNothing == ASSUME NEW o PROVE Polite(o, << >>)
BY DEF Polite, Elements

LEMMA PoliteTail ==
  ASSUME NEW o, NEW q \in Seq(Command), Polite(o, q), q # << >>
  PROVE  PoliteTo(o, Head(q)) /\ Polite(o, Tail(q))
BY ElementTypes DEF Polite

LEMMA ConcatElements ==
  ASSUME NEW p \in Seq(Command), NEW q \in Seq(Command)
  PROVE  p \o q \in Seq(Command)
         /\ Elements(p \o q) \subseteq Elements(p) \cup Elements(q)
<1> DEFINE z == p \o q
<1>1. /\ Len(p) \in Nat /\ DOMAIN p = 1 .. Len(p)
      /\ Len(q) \in Nat /\ DOMAIN q = 1 .. Len(q)
  BY LenProperties
<1>2. /\ z \in Seq(Command) /\ Len(z) = Len(p) + Len(q)
      /\ \A i \in 1 .. Len(p) + Len(q) :
            z[i] = IF i <= Len(p) THEN p[i] ELSE q[i - Len(p)]
  BY ConcatProperties
<1>3. DOMAIN z = 1 .. Len(p) + Len(q)
  BY <1>2, LenProperties
<1> HIDE DEF z
<1>4. ASSUME NEW j \in DOMAIN z PROVE z[j] \in Elements(p) \cup Elements(q)
  <2>1. CASE j <= Len(p)
    <3>1. j \in DOMAIN p /\ z[j] = p[j]
      BY <1>1, <1>2, <1>3, <2>1
    <3> QED BY <3>1 DEF Elements
  <2>2. CASE ~(j <= Len(p))
    <3>1. j - Len(p) \in DOMAIN q /\ z[j] = q[j - Len(p)]
      BY <1>1, <1>2, <1>3, <2>2
    <3> QED BY <3>1 DEF Elements
  <2> QED BY <2>1, <2>2
<1>5. Elements(z) \subseteq Elements(p) \cup Elements(q)
  BY <1>4 DEF Elements
<1> QED BY <1>2, <1>5 DEF z

LEMMA ConcatHead ==
  ASSUME NEW k \in Command, NEW q \in Seq(Command)
  PROVE  LET z == << k >> \o q
         IN z # << >> /\ Head(z) = k /\ Tail(z) = q
<1> DEFINE p == << k >>
           z == p \o q
<1>1. p \in Seq(Command) /\ Len(p) = 1 /\ p[1] = k /\ Len(q) \in Nat
  BY LenProperties
<1> HIDE DEF p
<1>2. /\ z \in Seq(Command) /\ Len(z) = 1 + Len(q)
      /\ \A i \in 1 .. 1 + Len(q) : z[i] = IF i <= 1 THEN k ELSE q[i - 1]
  <2>1. /\ z \in Seq(Command) /\ Len(z) = Len(p) + Len(q)
        /\ \A i \in 1 .. Len(p) + Len(q) :
              z[i] = IF i <= Len(p) THEN p[i] ELSE q[i - Len(p)]
    BY <1>1, ConcatProperties
  <2> HIDE DEF z
  <2> QED BY <1>1, <2>1
<1> HIDE DEF z
<1>3. z # << >> /\ z[1] = k
  BY <1>1, <1>2, EmptySeq
<1>4. /\ Tail(z) \in Seq(Command) /\ Len(Tail(z)) = Len(q)
      /\ \A i \in 1 .. Len(q) : Tail(z)[i] = q[i]
  <2>1. /\ Tail(z) \in Seq(Command) /\ Len(Tail(z)) = Len(z) - 1
        /\ \A i \in 1 .. Len(Tail(z)) : Tail(z)[i] = z[i + 1]
    BY <1>2, <1>3, HeadTailProperties
  <2>2. Len(z) - 1 = Len(q)
    BY <1>1, <1>2
  <2>3. \A i \in 1 .. Len(q) : z[i + 1] = q[i]
    BY <1>1, <1>2
  <2> QED BY <2>1, <2>2, <2>3
<1>5. Tail(z) = q
  BY <1>4, SeqEqual
<1>6. Head(z) = k
  BY <1>2, <1>3
<1> QED BY <1>3, <1>5, <1>6 DEF z, p

LEMMA RetireThen ==
  ASSUME NEW u \in CoordinatorState, NEW q \in Seq(Command), Polite(u.op.id, q)
  PROVE  Polite(u.op.id, RetireCurrent(u) \o q)
<1>1. Polite(u.op.id, RetireCurrent(u))
  <2>1. u.op.id # None => PoliteTo(u.op.id, Do("retire", u.op.id))
    BY DEF PoliteTo, Do
  <2> QED BY <2>1, PoliteAlone, PoliteNothing DEF RetireCurrent
<1> QED BY <1>1, RetireType, ConcatElements DEF Polite

LEMMA PrepareView ==
  ASSUME NEW u \in CoordinatorState, NEW id \in Nat, NEW req,
         Admits(u, req), req.kind # "adopt"
  PROVE  LET r == Prepare(u, id, req)
         IN /\ r.s.life = u.life /\ r.s.decisions = u.decisions
            /\ r.s.phase = "preparing" /\ r.s.turn = id
            /\ r.s.observed = None /\ r.s.op = NoOperation
            /\ Polite(u.op.id, r.cmds)
<1> DEFINE c == << Publish(id, "preparing") >>
<1>1. Polite(u.op.id, c) /\ c \in Seq(Command)
  <2>1. Publish(id, "preparing") \in Command
    BY CommandTypes DEF Phases
  <2> QED BY <2>1, PoliteAlone DEF PoliteTo, Publish, Do
<1>2. Polite(u.op.id, RetireCurrent(u) \o c)
  BY <1>1, RetireThen
<1> HIDE DEF c
<1> QED BY <1>2 DEF Prepare, Result, CoordinatorState, c

LEMMA PreemptView ==
  ASSUME NEW u \in CoordinatorState, NEW id \in Nat, u.life # "disposed",
         u.turn = id, u.phase = "preparing"
  PROVE  LET r == Preempt(u, id)
         IN /\ MovesTo(u, r.s, "idle") /\ r.s.observed = None
            /\ r.s.op = NoOperation /\ Polite(u.op.id, r.cmds)
<1> DEFINE c == << Publish(id, "idle") >>
<1>1. Polite(u.op.id, c) /\ c \in Seq(Command)
  <2>1. Publish(id, "idle") \in Command
    BY CommandTypes DEF Phases
  <2> QED BY <2>1, PoliteAlone DEF PoliteTo, Publish, Do
<1>2. Polite(u.op.id, RetireCurrent(u) \o c)
  BY <1>1, RetireThen
<1> HIDE DEF c
<1> QED BY <1>2 DEF Preempt, Alive, Result, CoordinatorState, MovesTo, c

LEMMA FinishView ==
  ASSUME NEW u \in CoordinatorState, NEW id \in Nat, NEW only \in BOOLEAN,
         Finish(u, id, only) # Ignored(u)
  PROVE  LET r == Finish(u, id, only)
         IN /\ u.life # "disposed" /\ u.turn = id /\ u.phase # "idle"
            /\ only => u.phase = "preparing"
            /\ MovesTo(u, r.s, "idle")
            /\ r.s.observed = u.observed /\ r.s.op = u.op
            /\ Polite(None, r.cmds)
<1>1. Polite(None, << Publish(id, "idle") >>)
  BY PoliteAlone DEF PoliteTo, Publish, Do
<1>2. /\ u.life # "disposed" /\ u.phase # "idle" /\ u.turn = id
      /\ only => u.phase = "preparing"
  BY DEF Finish, Alive
<1>3. Finish(u, id, only)
        = Result([u EXCEPT !.phase = "idle"], << Publish(id, "idle") >>)
  BY <1>2 DEF Finish, Alive
<1> QED BY <1>1, <1>2, <1>3 DEF Result, CoordinatorState, MovesTo

LEMMA CompletePolicyView ==
  ASSUME NEW u \in CoordinatorState, NEW id \in Nat, u.life # "disposed",
         u.turn = id
  PROVE  LET r == CompletePolicy(u, id)
         IN /\ MovesTo(u, r.s, "completing")
            /\ r.s.observed = u.observed /\ r.s.op = u.op
            /\ Polite(None, r.cmds)
<1>1. Polite(None, << Publish(id, "completing") >>)
  BY PoliteAlone DEF PoliteTo, Publish, Do
<1>2. CompletePolicy(u, id) = Result([u EXCEPT !.phase = "completing"],
                                     << Publish(id, "completing") >>)
  BY DEF CompletePolicy, Alive
<1> QED BY <1>1, <1>2 DEF Result, CoordinatorState, MovesTo

LEMMA StartedView ==
  ASSUME NEW u \in CoordinatorState, NEW msg \in Nat, u.life # "disposed",
         u.op.id # None, u.op.delivery = "waiting"
  PROVE  LET r == Started(u, msg)
         IN IF u.op.stage = "started" THEN r = Ignored(u)
            ELSE /\ MovesTo(u, r.s, "streaming") /\ r.s.observed = u.observed
                 /\ r.s.op = [u.op EXCEPT !.stage = "started", !.msg = msg]
                 /\ Polite(None, r.cmds)
<1> DEFINE a == Do("record-start", u.turn)
           b == Publish(u.turn, "streaming")
<1>1. PoliteTo(None, a) /\ PoliteTo(None, b)
  BY DEF PoliteTo, Publish, Do
<1> HIDE DEF a, b
<1>2. Polite(None, << a, b >>)
  BY <1>1 DEF Polite, Elements
<1> QED BY <1>2 DEF Started, Alive, Result, CoordinatorState, MovesTo, a, b

LEMMA ObserveView ==
  ASSUME NEW u \in CoordinatorState, NEW msg \in Nat,
         ObserveStream(u, msg) # Ignored(u)
  PROVE  LET r == ObserveStream(u, msg)
         IN /\ u.life # "disposed" /\ u.op.id = None /\ u.observed = None
            /\ u.phase \in {"idle", "streaming"}
            /\ MovesTo(u, r.s, "streaming")
            /\ r.s.observed = msg /\ r.s.op = u.op /\ Polite(None, r.cmds)
<1>1. Polite(None, << Publish(u.turn, "streaming") >>)
  BY PoliteAlone DEF PoliteTo, Publish, Do
<1> QED BY <1>1 DEF ObserveStream, Result, CoordinatorState, MovesTo

LEMMA FinishObservedView ==
  ASSUME NEW u \in CoordinatorState, NEW id \in Nat, NEW msg \in Nat,
         FinishObserved(u, id, msg) # Ignored(u)
  PROVE  LET r == FinishObserved(u, id, msg)
         IN /\ u.life # "disposed" /\ u.op.id = None /\ u.observed = msg
            /\ MovesTo(u, r.s, "idle")
            /\ r.s.observed = None /\ r.s.op = u.op /\ Polite(None, r.cmds)
<1> DEFINE a == Publish(id, "idle")
           b == Do("drain", id)
<1>1. PoliteTo(None, a) /\ PoliteTo(None, b)
  BY DEF PoliteTo, Publish, Do
<1> HIDE DEF a, b
<1>2. Polite(None, << a, b >>)
  BY <1>1 DEF Polite, Elements
<1> QED BY <1>2 DEF FinishObserved, Alive, Result, CoordinatorState, MovesTo,
           a, b

LEMMA CompletionView ==
  ASSUME NEW u \in CoordinatorState, NEW id \in Nat, NEW msg \in Nat,
         NEW abortEvent \in BOOLEAN, u.life # "disposed", u.op.id = id,
         u.op.delivery = "waiting"
  PROVE  LET r == Completion(u, id, msg, abortEvent)
         IN /\ MovesTo(u, r.s, u.phase) /\ r.s.observed = u.observed
            /\ r.s.op.id = id /\ r.s.op.msg = msg
            /\ r.s.op.startup = u.op.startup
            /\ r.s.op.compaction = u.op.compaction
            /\ r.s.op.stage = u.op.stage
            /\ r.cmds = << Policy(id, msg) >>
BY DEF Completion, Alive, Result, CoordinatorState, Operation, MovesTo

LEMMA RegisterView ==
  ASSUME NEW u \in CoordinatorState, NEW id \in Nat, NEW turn,
         u.life = "open", u.turn = turn
  PROVE  LET r == Register(u, id, turn)
         IN /\ MovesTo(u, r.s, u.phase) /\ r.s.observed = u.observed
            /\ r.s.op = NewOperation(id)
BY DEF Register, Result, CoordinatorState, MovesTo

LEMMA ReleaseView ==
  ASSUME NEW u \in CoordinatorState, NEW id, NEW kind
  PROVE  LET r == Release(u, id, kind)
         IN /\ SameOwner(u, r.s) /\ r.s.op = u.op
            /\ r.s.decisions = u.decisions /\ Polite(None, r.cmds)
<1>1. Polite(None, << Do("drain", u.turn) >>) /\ Polite(None, << >>)
  BY PoliteAlone, PoliteNothing DEF PoliteTo, Do
<1> QED BY <1>1 DEF Release, Alive, Ignored, Result, CoordinatorState,
           SameOwner

LEMMA DisposeView ==
  ASSUME NEW u \in CoordinatorState, u.life # "disposed"
  PROVE  LET r == Dispose(u)
             P == u.decisions \ Resolved(u.decisions)
         IN /\ r.s.life = "disposed" /\ r.s.phase = "idle"
            /\ r.s.turn = u.turn /\ r.s.observed = None
            /\ r.s.op = NoOperation
            /\ r.s.decisions = {Fallback(d) : d \in u.decisions}
            /\ r.cmds # << >> /\ Head(r.cmds) = Settle({Fallback(d) : d \in P})
            /\ \A c \in Elements(Tail(r.cmds)) :
                  PoliteTo(u.op.id, c) \/ c.do = "dispose"
<1> DEFINE P == u.decisions \ Resolved(u.decisions)
           A == {Fallback(d) : d \in P}
           D == {Fallback(d) : d \in u.decisions}
           t == [u EXCEPT !.life = "disposed", !.phase = "idle",
                          !.observed = None, !.op = NoOperation,
                          !.reservations = {}, !.retry = None,
                          !.decisions = D]
           z == << Settle(A) >> \o RetireCurrent(u)
                  \o << Publish(u.turn, "idle"), Do("dispose", None) >>
           k == Settle(A)
           a == Publish(u.turn, "idle")
           b == Do("dispose", None)
<1>1. Dispose(u) = Result(t, z)
  BY DEF Dispose, Alive
<1>2. /\ t.life = "disposed" /\ t.phase = "idle" /\ t.turn = u.turn
      /\ t.observed = None /\ t.op = NoOperation /\ t.decisions = D
  BY DEF CoordinatorState
<1>3. /\ k \in Command /\ a \in Command /\ b \in Command
      /\ RetireCurrent(u) \in Seq(Command) /\ << a, b >> \in Seq(Command)
  <2>1. A \in SUBSET Decision
    BY FallbackType DEF CoordinatorState
  <2> HIDE DEF A
  <2>2. k \in Command /\ a \in Command /\ b \in Command
    BY <2>1, CommandTypes DEF CoordinatorState, Phases, None
  <2> HIDE DEF k, a, b
  <2> QED BY <2>2, RetireType
<1>4. PoliteTo(u.op.id, a) /\ b.do = "dispose"
  BY DEF PoliteTo, Publish, Do
<1> DEFINE q == RetireCurrent(u) \o << a, b >>
<1>5. \A c \in Elements(q) : PoliteTo(u.op.id, c) \/ c.do = "dispose"
  <2>1. Polite(u.op.id, RetireCurrent(u))
    <3>1. u.op.id # None => PoliteTo(u.op.id, Do("retire", u.op.id))
      BY DEF PoliteTo, Do
    <3> QED BY <3>1, PoliteAlone, PoliteNothing DEF RetireCurrent
  <2> HIDE DEF a, b
  <2>2. \A c \in Elements(<< a, b >>) : c = a \/ c = b
    BY DEF Elements
  <2>3. Elements(q)
          \subseteq Elements(RetireCurrent(u)) \cup Elements(<< a, b >>)
    BY <1>3, ConcatElements
  <2> QED BY <1>4, <2>1, <2>2, <2>3 DEF Polite
<1>6. z = << k >> \o q /\ q \in Seq(Command)
  <2> HIDE DEF k, a, b
  <2>1. << k >> \in Seq(Command)
    BY <1>3
  <2>2. (<< k >> \o RetireCurrent(u)) \o << a, b >>
          = << k >> \o (RetireCurrent(u) \o << a, b >>)
    BY <1>3, <2>1, ConcatAssociative
  <2> QED BY <1>3, <2>2, ConcatElements DEF k, a, b
<1> HIDE DEF k, a, b, z, t, A, D, q
<1>7. z # << >> /\ Head(z) = k /\ Tail(z) = q
  BY <1>3, <1>6, ConcatHead
<1>8. Dispose(u).s = t /\ Dispose(u).cmds = z
  BY <1>1 DEF Result
<1>9. \A c \in Elements(Tail(z)) : PoliteTo(u.op.id, c) \/ c.do = "dispose"
  BY <1>5, <1>7
<1>10. k = Settle(A)
  BY DEF k
<1> HIDE DEF P
<1> QED BY <1>2, <1>7, <1>8, <1>9, <1>10 DEF A, D, P

(* The terminal event of the current stream.                               *)
LEMMA RawTerminalView ==
  ASSUME NEW u \in CoordinatorState, NEW kind, NEW msg \in Nat
  PROVE  LET r == RawTerminal(u, kind, msg)
             t == IF kind = "completed" /\ u.op.compaction
                    THEN BeginDecision(u, "compaction", msg, {})
                    ELSE Ignored(u)
         IN IF \/ u.life = "disposed" \/ u.op.id = None \/ u.op.msg # msg
               \/ u.op.delivery # "waiting"
              THEN r = Ignored(u)
              ELSE /\ r.s.life = u.life /\ r.s.turn = u.turn
                   /\ r.s.observed = u.observed
                   /\ r.s.op = u.op /\ r.s.decisions = t.s.decisions
                   /\ \/ r.s.phase = u.phase
                      \/ u.phase = "streaming" /\ r.s.phase = "completing"
                   /\ \/ Polite(None, r.cmds) /\ t.cmds = << >>
                      \/ /\ r.cmds # << >> /\ << Head(r.cmds) >> = t.cmds
                         /\ Polite(None, Tail(r.cmds))
<1> DEFINE t == IF kind = "completed" /\ u.op.compaction
                  THEN BeginDecision(u, "compaction", msg, {})
                  ELSE Ignored(u)
           r == RawTerminal(u, kind, msg)
           c == Publish(u.turn, "completing")
<1>1. CASE \/ u.life = "disposed" \/ u.op.id = None \/ u.op.msg # msg
           \/ u.op.delivery # "waiting"
  BY <1>1 DEF RawTerminal, Alive
<1>2. CASE ~(\/ u.life = "disposed" \/ u.op.id = None \/ u.op.msg # msg
             \/ u.op.delivery # "waiting")
  <2>1. r = IF u.op.stage = "started" /\ u.phase = "streaming"
              THEN Result([t.s EXCEPT !.phase = "completing"],
                          t.cmds \o << c >>)
              ELSE t
    BY <1>2 DEF RawTerminal, Alive
  <2>2. PoliteTo(None, c)
    BY DEF PoliteTo, Publish, Do
  <2> HIDE DEF c
  <2>3. /\ t.s \in CoordinatorState /\ t.s.life = u.life /\ t.s.turn = u.turn
        /\ t.s.phase = u.phase /\ t.s.observed = u.observed /\ t.s.op = u.op
        /\ t.cmds = << >> \/ \E k \in Command : t.cmds = << k >>
    <3> DEFINE new == [kind |-> "compaction", msg |-> msg,
                       outcome |-> "pending"]
    <3>1. new \in Decision
      BY DecisionTypes DEF DecisionKinds
    <3> HIDE DEF new
    <3>2. LET x == [u EXCEPT !.decisions = (@ \ {}) \cup {new}]
          IN /\ x \in CoordinatorState
             /\ x.life = u.life /\ x.turn = u.turn
             /\ x.phase = u.phase /\ x.observed = u.observed /\ x.op = u.op
      BY <3>1 DEF CoordinatorState
    <3>3. Settle({new}) \in Command
      BY <3>1, CommandTypes
    <3> QED BY <3>2, <3>3 DEF BeginDecision, Alive, Ignored, Result, new
  <2> HIDE DEF t
  <2>4. CASE ~(u.op.stage = "started" /\ u.phase = "streaming")
    <3>1. r.s = t.s /\ r.cmds = t.cmds
      BY <2>1, <2>4
    <3>3. \/ Polite(None, t.cmds) /\ t.cmds = << >>
          \/ /\ t.cmds # << >> /\ << Head(t.cmds) >> = t.cmds
             /\ Polite(None, Tail(t.cmds))
      <4>1. CASE t.cmds = << >>
        BY <4>1, PoliteNothing
      <4>2. CASE t.cmds # << >>
        <5>1. PICK k \in Command : t.cmds = << k >>
          BY <2>3, <4>2
        <5>2. << Head(t.cmds) >> = t.cmds /\ Tail(t.cmds) = << >>
          BY <5>1
        <5> QED BY <4>2, <5>2, PoliteNothing
      <4> QED BY <4>1, <4>2
    <3> QED BY <1>2, <2>3, <3>1, <3>3 DEF t
  <2>5. CASE u.op.stage = "started" /\ u.phase = "streaming"
    <3> DEFINE x == [t.s EXCEPT !.phase = "completing"]
               z == t.cmds \o << c >>
    <3>1. r.s = x /\ r.cmds = z
      BY <2>1, <2>5 DEF Result
    <3>2. /\ x.life = u.life /\ x.turn = u.turn
          /\ x.observed = u.observed /\ x.op = u.op
          /\ x.decisions = t.s.decisions /\ x.phase = "completing"
      BY <2>3 DEF CoordinatorState, Phases
    <3>3. \/ Polite(None, z) /\ t.cmds = << >>
          \/ z # << >> /\ << Head(z) >> = t.cmds /\ Polite(None, Tail(z))
      <4>1. CASE t.cmds = << >>
        <5>1. z = << c >>
          BY <4>1
        <5> QED BY <2>2, <4>1, <5>1, PoliteAlone
      <4>2. ASSUME NEW k \in Command, t.cmds = << k >>
            PROVE  z # << >> /\ << Head(z) >> = t.cmds /\ Polite(None, Tail(z))
        <5>1. << c >> \in Seq(Command)
          BY CommandTypes DEF CoordinatorState, Phases, c
        <5>2. z # << >> /\ Head(z) = k /\ Tail(z) = << c >>
          BY <4>2, <5>1, ConcatHead
        <5> QED BY <2>2, <4>2, <5>2, PoliteAlone
      <4> QED BY <2>3, <4>1, <4>2
    <3> HIDE DEF x, z
    <3> QED BY <1>2, <2>5, <3>1, <3>2, <3>3 DEF t
  <2> QED BY <2>4, <2>5
<1> QED BY <1>1, <1>2

LEMMA QuietViews ==
  ASSUME NEW u \in CoordinatorState
  PROVE  /\ SameOwner(u, u)
         /\ \A id, on : SameOwner(u, Configure(u, id, on).s)
         /\ \A id, msg : SameOwner(u, Starting(u, id, msg).s)
         /\ \A msg : SameOwner(u, StartupAbort(u, msg).s)
         /\ \A k, msg, V : SameOwner(u, BeginDecision(u, k, msg, V).s)
         /\ \A k, msg, v : SameOwner(u, ResolveDecision(u, k, msg, v).s)
         /\ \A msg : SameOwner(u, ForgetCompaction(u, msg).s)
         /\ \A D : SameOwner(u, [u EXCEPT !.decisions = D])
<1> USE DEF SameOwner, Alive, Ignored, Result, CoordinatorState
<1>1. SameOwner(u, u) /\ \A D : SameOwner(u, [u EXCEPT !.decisions = D])
  OBVIOUS
<1>2. \A id, on : SameOwner(u, Configure(u, id, on).s)
  BY DEF Configure, Operation
<1>3. \A id, msg : SameOwner(u, Starting(u, id, msg).s)
  BY DEF Starting, Operation
<1>4. \A msg : SameOwner(u, StartupAbort(u, msg).s)
  BY DEF StartupAbort, Operation
<1>5. \A k, msg, V : SameOwner(u, BeginDecision(u, k, msg, V).s)
  BY DEF BeginDecision
<1>6. \A k, msg, v : SameOwner(u, ResolveDecision(u, k, msg, v).s)
  BY DEF ResolveDecision
<1>7. \A msg : SameOwner(u, ForgetCompaction(u, msg).s)
  BY DEF ForgetCompaction
<1> QED BY <1>1, <1>2, <1>3, <1>4, <1>5, <1>6, <1>7

(* The events of the other registries do not touch the operation or the    *)
(* decisions at all.                                                       *)
Untouched(u, t) == SameOwner(u, t) /\ t.op = u.op /\ t.decisions = u.decisions

LEMMA UntouchedViews ==
  ASSUME NEW u \in CoordinatorState
  PROVE  /\ Untouched(u, u)
         /\ \A id, k : Untouched(u, Reserve(u, id, k).s)
         /\ \A id : Untouched(u, RetryStart(u, id).s)
         /\ \A id : Untouched(u, RetryFinish(u, id).s)
         /\ \A k : Untouched(u, CompactionObserve(u, k).s)
         /\ \A k, g : Untouched(u, CompactionStage(u, k, g).s)
         /\ \A k : Untouched(u, CompactionFinish(u, k).s)
         /\ Untouched(u, CompactionAbandon(u).s)
         /\ \A id : Untouched(u, CompactionSummary(u, id).s)
         /\ Untouched(u, Shutdown(u).s)
<1> USE DEF Untouched, SameOwner, Alive, Ignored, Result, CoordinatorState
<1>1. Untouched(u, u) /\ \A id, k : Untouched(u, Reserve(u, id, k).s)
  BY DEF Reserve
<1>2. \A id : /\ Untouched(u, RetryStart(u, id).s)
              /\ Untouched(u, RetryFinish(u, id).s)
  BY DEF RetryStart, RetryFinish
<1>3. \A k : /\ Untouched(u, CompactionObserve(u, k).s)
             /\ Untouched(u, CompactionFinish(u, k).s)
  BY DEF CompactionObserve, CompactionFinish
<1>4. \A k, g : Untouched(u, CompactionStage(u, k, g).s)
  BY DEF CompactionStage
<1>5. Untouched(u, CompactionAbandon(u).s)
  BY DEF CompactionAbandon
<1>6. \A id : Untouched(u, CompactionSummary(u, id).s)
  BY DEF CompactionSummary
<1>7. Untouched(u, Shutdown(u).s)
  BY DEF Shutdown
<1> QED BY <1>1, <1>2, <1>3, <1>4, <1>5, <1>6, <1>7

-----------------------------------------------------------------------------
(* The parts of the invariant under the steps that most actions take.      *)

LEMMA Known ==
  ASSUME Typed
  PROVE  /\ Types /\ s \in CoordinatorState /\ s.turn \in Nat
         /\ s.op \in Operation /\ s.op.id \in Nat /\ prepared \in Nat
         /\ issued.turn \in Nat /\ issued.op \in Nat /\ None \in Nat
         /\ None \notin Ops /\ SessionTypes
BY DEF Typed, Inv, Core, Types, Issued, Rest, CoordinatorState, Operation,
   None, Ops

LEMMA FramesIds == ASSUME Types PROVE Preempted \subseteq Nat
<1>1. stack \in Seq(Frames)
  BY DEF Types
<1>2. \A i \in DOMAIN stack : stack[i] \in Frames
  BY <1>1, LenProperties, ElementOfSeq
<1> QED BY <1>2 DEF Preempted, Frames

LEMMA KnownNext ==
  ASSUME Typed'
  PROVE  /\ s' \in CoordinatorState /\ s'.turn \in Nat
         /\ s'.op \in Operation /\ s'.op.id \in Nat /\ prepared' \in Nat
         /\ issued'.turn \in Nat /\ issued'.op \in Nat /\ SessionTypes'
BY DEF Typed, Inv, Core, Types, Issued, Rest, CoordinatorState, Operation

(* Nothing a command waits for is undone.                                  *)
Onward ==
  /\ issued.op <= issued'.op
  /\ s'.op.id \in {s.op.id, None} \/ s'.op.id > issued.op
  /\ Disposed => Disposed'

LEMMA LaterOnward ==
  ASSUME Typed, Typed', Onward, NEW c, Later(c), c.id \in Nat
  PROVE  Later(c)'
<1>1. /\ s.op.id \in Nat /\ s'.op.id \in Nat
      /\ issued.op \in Nat /\ issued'.op \in Nat
  BY Known, KnownNext
<1> QED BY <1>1 DEF Onward, Later, None

LEMMA BuriedTypes ==
  ASSUME Types, NEW c \in Buried \cup NextUp PROVE c \in Command
<1>1. stack # << >>
  BY DEF Buried, NextUp
<1>2. Top.cmds \in Seq(Command)
  BY <1>1, TopCommands
<1>3. /\ Elements(Top.cmds) \subseteq Command
      /\ Top.cmds # << >> => /\ Head(Top.cmds) \in Command
                             /\ Elements(Tail(Top.cmds)) \subseteq Command
  <2>1. \A q \in Seq(Command) : Elements(q) \subseteq Command
    BY LenProperties, ElementOfSeq DEF Elements
  <2> QED BY <1>2, <2>1, ElementTypes
<1>4. Below \subseteq Command
  <2>1. ASSUME NEW i \in 1 .. Len(stack) - 1
        PROVE  Elements(stack[i].cmds) \subseteq Command
    <3>1. stack[i] \in Frames
      BY <1>1, <2>1, TopType, ElementOfSeq DEF Types
    <3>2. stack[i].cmds \in Seq(Command)
      BY <3>1 DEF Frames
    <3> QED BY <3>2, LenProperties, ElementOfSeq DEF Elements
  <2> QED BY <2>1 DEF Below
<1> QED BY <1>3, <1>4 DEF Buried, NextUp

(* The commands of the next state are old ones, polite ones of an          *)
(* operation that is no longer current, or urgent ones at the front.       *)
LEMMA FrameStep ==
  ASSUME Typed, Typed', PhaseInv, FrameInv, Onward,
         NEW gone \in {None, s.op.id}, gone # None => s'.op.id # gone,
         \A c \in Buried' : \/ c \in Buried \/ PoliteTo(gone, c)
                            \/ c.do = "dispose" /\ Disposed',
         \A c \in NextUp' : \/ c \in Buried \/ PoliteTo(gone, c)
                            \/ c.do = "decisions" \/ Launches(c)'
  PROVE  FrameInv'
<1>1. Types /\ s.op.id \in Nat /\ issued.op \in Nat /\ issued'.op \in Nat
  BY Known, KnownNext
<1>2. ASSUME NEW c \in Buried PROVE Later(c)'
  <2>1. c.id \in Nat
    BY <1>1, BuriedTypes DEF Command
  <2> QED BY <2>1, LaterOnward DEF FrameInv
<1>3. ASSUME NEW c, PoliteTo(gone, c) PROVE Later(c)'
  BY <1>1, <1>3 DEF PoliteTo, Later, PhaseInv, Onward
<1>4. ASSUME NEW c, c.do = "dispose", Disposed' PROVE Later(c)'
  BY <1>4 DEF Later
<1> QED BY <1>2, <1>3, <1>4 DEF FrameInv

(* A step that leaves the stack alone, or pops its head.                   *)
LEMMA QuietFrames ==
  ASSUME Typed, Typed', PhaseInv, FrameInv, Onward,
         \/ CanCall /\ NextUp' = NextUp /\ Buried' = Buried
         \/ NextUp' \cup Buried' \subseteq Buried
  PROVE  FrameInv'
<1>1. NextUp' \cup Buried' \subseteq Buried
  BY Quiescent
<1> QED BY <1>1, FrameStep

LEMMA DispatchShape ==
  ASSUME Types, CanCall, NEW r, r.cmds \in Seq(Command), NEW prep, NEW iw,
         NEW uw, NEW then, NEW id, DispatchFrom(r, prep, iw, uw, then, id)
  PROVE  /\ s' = r.s /\ prepared' \in {prep, None}
         /\ PublishesIdle(r.cmds) /\ prep = r.s.turn => prepared' = None
         /\ r.cmds = << >> => NextUp' = {} /\ Buried' \subseteq Buried
         /\ r.cmds # << >> =>
              /\ NextUp' = {Head(r.cmds)}
              /\ Buried' \subseteq Buried \cup Elements(Tail(r.cmds))
         /\ Preempted' = Preempted \cup (IF then = "preempt" THEN {id} ELSE {})
<1> DEFINE idle   == PublishesIdle(r.cmds)
           unbusy == ~Busy(r.s)
           gone   == idle /\ prep = r.s.turn
           out    == (IF idle THEN iw ELSE {}) \cup (IF unbusy THEN uw ELSE {})
           f == Frame(r.cmds, out, IF gone THEN prep ELSE None, then, id)
<1>1. /\ s' = r.s /\ prepared' = IF gone THEN None ELSE prep
      /\ stack' = Append(stack, f)
  BY DEF DispatchFrom
<1> HIDE DEF idle, unbusy
<1>2. /\ f.cmds = r.cmds /\ ~f.observing /\ f.then = then /\ f.id = id
  BY DEF Frame
<1> HIDE DEF f
<1>3. /\ Buried' \subseteq
            Buried \cup (IF f.cmds = << >> THEN {} ELSE Elements(Tail(f.cmds)))
      /\ NextUp' = IF f.cmds = << >> THEN {} ELSE {Head(f.cmds)}
      /\ Preempted' = Preempted
           \cup (IF f.then = "preempt" THEN {f.id} ELSE {})
  BY <1>1, <1>2, PushShape
<1> QED BY <1>1, <1>2, <1>3 DEF idle

LEMMA PoliteDispatch ==
  ASSUME Typed, Typed', PhaseInv, FrameInv, Onward, CanCall, NEW r,
         r.cmds \in Seq(Command), NEW prep, NEW iw, NEW uw, NEW then, NEW id,
         DispatchFrom(r, prep, iw, uw, then, id),
         NEW gone \in {None, s.op.id}, gone # None => s'.op.id # gone,
         Polite(gone, r.cmds)
  PROVE  FrameInv'
<1>1. Types
  BY Known
<1>2. /\ r.cmds = << >> => NextUp' = {} /\ Buried' \subseteq Buried
      /\ r.cmds # << >> =>
            /\ NextUp' = {Head(r.cmds)}
            /\ Buried' \subseteq Buried \cup Elements(Tail(r.cmds))
  BY <1>1, DispatchShape
<1>3. r.cmds # << >> => /\ PoliteTo(gone, Head(r.cmds))
                        /\ Polite(gone, Tail(r.cmds))
  BY PoliteTail
<1>4. /\ \A c \in Buried' : c \in Buried \/ PoliteTo(gone, c)
      /\ \A c \in NextUp' : c \in Buried \/ PoliteTo(gone, c)
  BY <1>2, <1>3 DEF Polite
<1> QED BY <1>4, FrameStep

(* A step beside the lifecycle: nothing that Owned relates changes.        *)
LEMMA AsideStep ==
  ASSUME Typed, Typed', Owned, SameOwner(s, s'), FrameInv',
         Preempted' = Preempted,
         UNCHANGED <<prepared, aborted, settlements, leases, policies,
                     producer, home, engine, outcome, foreign>>,
         issued'.turn = issued.turn, issued'.op = issued.op
  PROVE  Owned'
<1> USE DEF Owned
<1>1. PhaseInv'
  BY DEF PhaseInv, SameOwner, Disposed
<1>2. ClaimInv'
  BY DEF ClaimInv, SameOwner, Disposed, ControllerFollowsClaim, Dead
<1>3. OperationsInv'
  BY DEF OperationsInv, ProducerInv, StartInv, CurrentInv, SameOwner, Disposed
<1>4. StreamInv'
  BY DEF StreamInv, SameOwner, Live
<1>5. SettleInv'
  BY DEF SettleInv
<1> QED BY <1>1, <1>2, <1>3, <1>4, <1>5

LEMMA QuietAside ==
  ASSUME Typed, Typed', Owned, SameOwner(s, s'),
         \/ CanCall /\ NextUp' = NextUp /\ Buried' = Buried
         \/ NextUp' \cup Buried' \subseteq Buried,
         Preempted' = Preempted,
         UNCHANGED <<prepared, aborted, settlements, leases, policies,
                     producer, home, engine, outcome, foreign>>,
         issued'.turn = issued.turn, issued'.op = issued.op
  PROVE  Owned'
<1>1. s.op.id \in Nat /\ issued.op \in Nat
  BY Known
<1>2. Onward
  BY <1>1 DEF Onward, SameOwner, Disposed
<1>3. FrameInv'
  BY <1>2, QuietFrames DEF Owned
<1> QED BY <1>3, AsideStep


LEMMA PlainDispatch ==
  ASSUME Types, CanCall, NEW r, r.cmds \in Seq(Command), NEW prep, NEW iw,
         NEW uw, NEW then, then # "preempt", NEW id,
         DispatchFrom(r, prep, iw, uw, then, id)
  PROVE  /\ s' = r.s /\ Preempted' = Preempted
         /\ prepared' \in {prep, None}
         /\ PublishesIdle(r.cmds) /\ prep = r.s.turn => prepared' = None
<1>1. Preempted' = Preempted \cup (IF then = "preempt" THEN {id} ELSE {})
  BY DispatchShape
<1>2. /\ s' = r.s
      /\ prepared' = IF PublishesIdle(r.cmds) /\ prep = r.s.turn THEN None
                     ELSE prep
  BY DEF DispatchFrom
<1> QED BY <1>1, <1>2

(* Commands of which the first may settle decisions.                       *)
Prompt(cmds) ==
  cmds # << >> =>
    /\ PoliteTo(None, Head(cmds)) \/ Head(cmds).do = "decisions"
    /\ Polite(None, Tail(cmds))

LEMMA PoliteIsPrompt ==
  ASSUME NEW q \in Seq(Command), Polite(None, q) PROVE Prompt(q)
BY PoliteTail DEF Prompt

LEMMA NothingIsPrompt == Prompt(<< >>)
BY DEF Prompt

(* An event that moves the phase of the current turn and operation.        *)
LEMMA MoveStep ==
  ASSUME Typed, Typed', Owned, CanCall, NEW r, Regular(s, r), Prompt(r.cmds),
         NEW prep \in {prepared, None}, Dispatch(r, prep, "none", None),
         r.s.turn = s.turn, r.s.op.id = s.op.id,
         r.s.phase = "preparing" => s.phase = "preparing",
         r.s.observed # None => r.s.phase = "streaming" /\ s.op.id = None,
         Disposed => r.s.phase = "idle",
         UNCHANGED <<aborted, issued>>
  PROVE  /\ s' = r.s /\ Preempted' = Preempted
         /\ Disposed' <=> Disposed
         /\ PhaseInv' /\ ClaimInv' /\ FrameInv'
<1> USE DEF Owned
<1>1. /\ r.cmds \in Seq(Command) /\ r.s.life = s.life
      /\ r.s.phase = "idle" => s.phase = "idle" \/ PublishesIdle(r.cmds)
  BY DEF Regular
<1>2. DispatchFrom(r, prep, idleWaiters, unbusyWaiters, "none", None)
  BY DEF Dispatch
<1>3. /\ s' = r.s /\ Preempted' = Preempted
      /\ prepared' \in {prep, None}
      /\ PublishesIdle(r.cmds) /\ prep = r.s.turn => prepared' = None
  BY <1>1, <1>2, Known, PlainDispatch
<1>4. Disposed' <=> Disposed
  BY <1>1, <1>3 DEF Disposed
<1>5. Onward
  BY <1>3, <1>4, Known DEF Onward
<1>6. FrameInv'
  <2>1. /\ r.cmds = << >> => NextUp' = {} /\ Buried' \subseteq Buried
        /\ r.cmds # << >> =>
              /\ NextUp' = {Head(r.cmds)}
              /\ Buried' \subseteq Buried \cup Elements(Tail(r.cmds))
    BY <1>1, <1>2, Known, DispatchShape
  <2>2. /\ \A c \in Buried' : c \in Buried \/ PoliteTo(None, c)
        /\ \A c \in NextUp' : PoliteTo(None, c) \/ c.do = "decisions"
    BY <2>1 DEF Prompt, Polite
  <2> QED BY <1>5, <2>2, FrameStep
<1>7. PhaseInv'
  BY <1>3, <1>4 DEF PhaseInv
<1>8. ClaimInv'
  <2>1. prepared' # None => prepared' = prepared
    BY <1>3
  <2>2. ControllerFollowsClaim'
    BY <1>1, <1>3, <2>1 DEF ClaimInv, ControllerFollowsClaim
  <2> QED BY <1>3, <1>4, <2>1, <2>2 DEF ClaimInv, Dead
<1> QED BY <1>3, <1>4, <1>6, <1>7, <1>8

(* The operations under such an event: no start-up loses its turn.         *)
LEMMA SteadyOperations ==
  ASSUME Owned, s'.turn = s.turn, s'.op.id = s.op.id,
         s'.op.delivery = s.op.delivery, Disposed' <=> Disposed,
         Preempted' = Preempted,
         \/ s'.phase = s.phase
         \/ \A o \in Ops :
               s.op.id = o => \/ producer[o] # "starting"
                              \/ engine[o] \notin {"off", "handed"},
         UNCHANGED <<aborted, settlements, leases, policies, producer, home,
                     engine, outcome>>,
         issued'.op = issued.op
  PROVE  OperationsInv' /\ SettleInv'
<1>1. ASSUME NEW o \in Ops
      PROVE  ProducerInv(o)' /\ StartInv(o)' /\ CurrentInv(o)'
  <2>1. ProducerInv(o) /\ StartInv(o) /\ CurrentInv(o)
    BY DEF Owned, OperationsInv
  <2>2. ProducerInv(o)' /\ CurrentInv(o)'
    BY <2>1 DEF ProducerInv, CurrentInv
  <2>3. StartInv(o)'
    BY <2>1 DEF StartInv
  <2> QED BY <2>2, <2>3
<1> QED BY <1>1 DEF Owned, OperationsInv, SettleInv
-----------------------------------------------------------------------------
(* The commands of a dispatch.                                             *)

LEMMA HeadNext ==
  ASSUME NEW what, HeadIs(what)
  PROVE  /\ stack # << >> /\ Top.cmds # << >> /\ ~Top.observing
         /\ Head(Top.cmds) \in NextUp /\ Head(Top.cmds).do = what
BY DEF HeadIs, NextUp

(* A callback entered, returned from, or passed over.                      *)
LEMMA CalloutOwned ==
  ASSUME Typed, Typed', Owned,
         PublishPhase \/ RunDrain \/ ObserverReturns \/ RunRecordStart
           \/ RunDecisions
  PROVE  Owned'
<1>1. Types /\ Observers /\ s \in CoordinatorState /\ issued.op \in Nat
      /\ s.op.id \in Nat
  BY Known DEF Typed, Inv, Core
<1>2. /\ stack # << >> /\ Top.cmds # << >>
      /\ \/ PopCommand
         \/ /\ EnterObserver /\ ~Top.observing
            /\ Head(Top.cmds).do \in {"phase", "drain"}
      /\ UNCHANGED <<s, registries, resources, issued, session>>
  <2>1. ObserverReturns => stack # << >> /\ Top.cmds # << >>
    <3>1. stack # << >> => Len(stack) \in DOMAIN stack
      BY <1>1, TopType DEF Types
    <3> QED BY <1>1, <3>1 DEF ObserverReturns, Observers, Top
  <2> QED BY <2>1 DEF PublishPhase, RunDrain, ObserverReturns, RunRecordStart,
             RunDecisions, HeadIs
<1>3. SameOwner(s, s')
  BY <1>1, <1>2, QuietViews
<1>4. Onward
  BY <1>1, <1>2 DEF Onward, Disposed
<1>5. /\ Preempted' = Preempted
      /\ \A c \in Buried' : c \in Buried \/ PoliteTo(None, c)
      /\ \A c \in NextUp' : c \in Buried
  <2>1. CASE PopCommand
    BY <1>1, <1>2, <2>1, PopShape
  <2>2. CASE /\ EnterObserver /\ ~Top.observing
             /\ Head(Top.cmds).do \in {"phase", "drain"}
    BY <1>1, <1>2, <2>2, EnterShape DEF PoliteTo
  <2> QED BY <1>2, <2>1, <2>2
<1>6. FrameInv'
  BY <1>4, <1>5, FrameStep DEF Owned
<1> QED BY <1>2, <1>3, <1>5, <1>6, AsideStep DEF registries, resources, session

LEMMA RunRetireOwned ==
  ASSUME Typed, Typed', Owned, RunRetire PROVE Owned'
<1> USE DEF Owned
<1> DEFINE c == Head(Top.cmds)
<1>1. /\ stack # << >> /\ Top.cmds # << >> /\ PopCommand
      /\ c \in NextUp /\ c.do = "retire"
      /\ settlements' = settlements \ {c.id}
      /\ UNCHANGED <<s, prepared, aborted, leases, policies, issued, producer,
                     home, engine, outcome, foreign>>
  BY HeadNext DEF RunRetire, registries, session, SettleOperation
<1> HIDE DEF c
<1>2. c.id # s.op.id
  BY <1>1 DEF FrameInv, Later, Launches
<1>3. /\ NextUp' \cup Buried' \subseteq Buried /\ Preempted' = Preempted
  BY <1>1, Known, PopShape
<1>4. FrameInv'
  BY <1>1, <1>3, Known, QuietFrames DEF Onward, Disposed
<1>5. PhaseInv' /\ ClaimInv' /\ StreamInv'
  BY <1>1, <1>3 DEF PhaseInv, ClaimInv, StreamInv, Disposed,
     ControllerFollowsClaim, Dead, Live
<1>6. OperationsInv'
  BY <1>1, <1>2, <1>3
     DEF OperationsInv, ProducerInv, StartInv, CurrentInv, Disposed
<1>7. SettleInv'
  BY <1>1 DEF SettleInv
<1> QED BY <1>4, <1>5, <1>6, <1>7

(* A policy is launched for an operation whose completion was dispatched.  *)
LEMMA RunPolicyOwned ==
  ASSUME Typed, Typed', Owned, RunPolicy PROVE Owned'
<1> USE DEF Owned
<1> DEFINE c == Head(Top.cmds)
           o == c.id
           to == IF IsCurrentOperation(s, o) THEN "policy" ELSE "finishing"
<1>1. /\ stack # << >> /\ Top.cmds # << >> /\ PopCommand
      /\ c \in NextUp /\ c.do = "policy"
      /\ producer' = [producer EXCEPT ![o] = to]
      /\ \/ policies' = policies
         \/ policies' = policies \cup {o} /\ to = "policy"
      /\ UNCHANGED <<s, prepared, aborted, settlements, leases, issued, home,
                     engine, outcome, foreign>>
  <2>1. /\ HeadIs("policy") /\ PopCommand
        /\ UNCHANGED <<s, registries, aborted, settlements, leases, issued,
                       home, engine, outcome, foreign>>
    BY DEF RunPolicy
  <2>2. CASE IsCurrentOperation(s, o)
    BY <2>1, <2>2, HeadNext DEF RunPolicy, registries
  <2>3. CASE ~IsCurrentOperation(s, o)
    BY <2>1, <2>3, HeadNext DEF RunPolicy, registries
  <2> QED BY <2>2, <2>3
<1>2. o \in Ops /\ producer[o] = "launching"
  <2>1. Launches(c)
    BY <1>1 DEF FrameInv, Later
  <2> QED BY <2>1 DEF Launches
<1>3. /\ to \in {"policy", "finishing"}
      /\ s.op.id = o => to = "policy"
  BY <1>2, Known DEF IsCurrentOperation, PhaseInv, Disposed
<1> HIDE DEF c, o, to
<1>4. \A p \in Ops : producer'[p] = IF p = o THEN to ELSE producer[p]
  BY <1>1, <1>2, Known DEF SessionTypes
<1>5. /\ NextUp' \cup Buried' \subseteq Buried /\ Preempted' = Preempted
  BY <1>1, Known, PopShape
<1>6. FrameInv'
  BY <1>1, <1>5, Known, QuietFrames DEF Onward, Disposed
<1>7. PhaseInv' /\ ClaimInv'
  BY <1>1, <1>5 DEF PhaseInv, ClaimInv, Disposed, ControllerFollowsClaim, Dead
<1>8. ASSUME NEW p \in Ops
      PROVE  ProducerInv(p)' /\ StartInv(p)' /\ CurrentInv(p)'
  <2>1. ProducerInv(p) /\ StartInv(p) /\ CurrentInv(p)
    BY DEF OperationsInv
  <2>2. ProducerInv(p)'
    BY <1>1, <1>2, <1>3, <1>4, <2>1 DEF ProducerInv
  <2>3. StartInv(p)'
    BY <1>1, <1>2, <1>3, <1>4, <1>5, <2>1 DEF StartInv, Disposed
  <2>4. CurrentInv(p)'
    BY <1>1, <1>2, <1>3, <1>4, <2>1 DEF CurrentInv
  <2> QED BY <2>2, <2>3, <2>4
<1>9. StreamInv'
  BY <1>1, <1>2, <1>3, <1>4 DEF StreamInv, Live, PhaseInv
<1>10. SettleInv'
  BY <1>1, <1>2, <1>3, <1>4 DEF SettleInv
<1> QED BY <1>6, <1>7, <1>8, <1>9, <1>10 DEF OperationsInv

(* Disposal has dropped the operation by the time its resources go.        *)
LEMMA RunDisposeOwned ==
  ASSUME Typed, Typed', Owned, RunDispose PROVE Owned'
<1> USE DEF Owned
<1> DEFINE c == Head(Top.cmds)
<1>1. /\ stack # << >> /\ Top.cmds # << >> /\ PopCommand
      /\ c \in NextUp /\ c.do = "dispose"
      /\ prepared' = None /\ settlements' = {}
      /\ UNCHANGED <<s, leases, policies, issued, producer, home, engine,
                     outcome, foreign>>
  BY HeadNext DEF RunDispose, session
<1>2. Disposed
  BY <1>1 DEF FrameInv, Later, Launches
<1>3. NextUp' \cup Buried' \subseteq Buried
  BY <1>1, Known, PopShape
<1>4. FrameInv'
  BY <1>1, <1>3, Known, QuietFrames DEF Onward, Disposed
<1>5. PhaseInv' /\ ClaimInv' /\ StreamInv' /\ SettleInv'
  BY <1>1, <1>2 DEF PhaseInv, ClaimInv, StreamInv, SettleInv, Disposed,
     ControllerFollowsClaim, Live
<1>6. ASSUME NEW p \in Ops
      PROVE  ProducerInv(p)' /\ StartInv(p)' /\ CurrentInv(p)'
  <2>1. s.op.id # p
    BY <1>2, Known DEF PhaseInv
  <2> QED BY <1>1, <1>2, <2>1
          DEF OperationsInv, ProducerInv, StartInv, CurrentInv, Disposed
<1> QED BY <1>4, <1>5, <1>6 DEF OperationsInv

(* A preemption's controller aborts when its dispatch returns.             *)
LEMMA ReturnOwned ==
  ASSUME Typed, Typed', Owned, Return PROVE Owned'
<1> USE DEF Owned
<1>1. /\ aborted' = IF Top.then = "preempt" THEN aborted \cup {Top.id}
                    ELSE aborted
      /\ UNCHANGED <<s, prepared, settlements, leases, policies, issued,
                     producer, home, engine, outcome, foreign>>
  BY DEF Return
<1>2. /\ NextUp' \cup Buried' \subseteq Buried
      /\ Preempted' \subseteq Preempted
      /\ Preempted \subseteq
           Preempted' \cup (IF Top.then = "preempt" THEN {Top.id} ELSE {})
      /\ Top.then = "preempt" => Top.id \in Preempted
  BY Known, ReturnShape
<1>3. aborted' \cup Preempted' = aborted \cup Preempted
  BY <1>1, <1>2
<1>4. FrameInv'
  BY <1>1, <1>2, Known, QuietFrames DEF Onward, Disposed
<1>5. PhaseInv' /\ StreamInv' /\ SettleInv'
  BY <1>1 DEF PhaseInv, StreamInv, SettleInv, Disposed, Live
<1>6. ClaimInv'
  <2>1. CASE Disposed
    BY <1>1, <2>1 DEF ClaimInv, ControllerFollowsClaim, Disposed
  <2>2. CASE ~Disposed
    <3>1. Top.then = "preempt" => Dead(Top.id)
      BY <1>2, <2>2 DEF ClaimInv
    <3>2. ControllerFollowsClaim'
      BY <1>1, <3>1 DEF ClaimInv, ControllerFollowsClaim, Dead
    <3> QED BY <1>1, <1>3, <2>2, <3>2 DEF ClaimInv, Dead, Disposed
  <2> QED BY <2>1, <2>2
<1>7. OperationsInv'
  BY <1>1, <1>3 DEF OperationsInv, ProducerInv, StartInv, CurrentInv, Disposed
<1> QED BY <1>4, <1>5, <1>6, <1>7

LEMMA RunOwned == ASSUME Typed, Typed', Owned, Run PROVE Owned'
BY CalloutOwned, RunRetireOwned, RunPolicyOwned, RunDisposeOwned, ReturnOwned
DEF Run

-----------------------------------------------------------------------------
(* Claims.                                                                 *)

LEMMA NoOperationId == NoOperation.id = None /\ None = 0
BY DEF NoOperation, NewOperation, None

(* A start-up that nobody stopped keeps a fresh claim out.                 *)
NoStart ==
  \/ s.phase # "preparing"
  \/ \E o \in Ops : s.op.id = o /\ producer[o] # "starting"

LEMMA NoStartIsNone ==
  ASSUME OperationsInv, NoStart, NEW o \in Ops, producer[o] = "starting",
         engine[o] \in {"off", "handed"}, ~Disposed
  PROVE  home[o] \in aborted \cup Preempted
BY DEF OperationsInv, NoStart, StartInv

LEMMA PrepareFreshOwned ==
  ASSUME Typed, Typed', Owned, NEW i, NEW x, NEW e, NEW c,
         PrepareFresh(i, x, e, c), NoStart
  PROVE  Owned'
<1> USE DEF Owned
<1> DEFINE id  == issued.turn + 1
           req == [kind |-> "fresh", intent |-> i, expected |-> x, edit |-> e]
           r   == Prepare(s, id, req)
<1>1. /\ CanCall /\ Admits(s, req)
      /\ DispatchFrom(r, Install(id, c), idleWaiters, unbusyWaiters,
                      "prepare", id)
      /\ issued' = [issued EXCEPT !.turn = id]
      /\ UNCHANGED <<aborted, settlements, leases, policies, producer, home,
                     engine, outcome, foreign>>
  BY DEF PrepareFresh, Dispatch, resources
<1>2. /\ issued'.turn = id /\ issued'.op = issued.op /\ id \in Nat
      /\ id > issued.turn
  BY <1>1, Known DEF Typed, Inv, Issued
<1>3. req.kind # "adopt" /\ s.life = "open"
  BY <1>1 DEF Admits
<1> HIDE DEF req, id
<1>4. /\ r.s.life = "open" /\ r.s.phase = "preparing" /\ r.s.turn = id
      /\ r.s.observed = None /\ r.s.op = NoOperation
      /\ Polite(s.op.id, r.cmds) /\ r.cmds \in Seq(Command)
  BY <1>1, <1>2, <1>3, Known, PrepareView, PrepareRegular DEF Regular
<1> HIDE DEF r
<1>5. /\ s' = r.s /\ prepared' \in {Install(id, c), None}
      /\ Preempted' = Preempted
  BY <1>1, <1>4, Known, PlainDispatch
<1>6. /\ s'.life = "open" /\ s'.phase = "preparing" /\ s'.turn = id
      /\ s'.observed = None /\ s'.op.id = None /\ prepared' \in {id, None}
      /\ ~Disposed /\ ~Disposed'
  BY <1>3, <1>4, <1>5, NoOperationId DEF Install, Disposed
<1>7. Onward
  BY <1>2, <1>6, Known DEF Onward
<1>8. FrameInv'
  BY <1>1, <1>4, <1>6, <1>7, Known, PoliteDispatch
<1>9. PhaseInv'
  BY <1>2, <1>6, Known, NoOperationId DEF PhaseInv
<1>10. ASSUME NEW t \in aborted \cup Preempted
       PROVE  /\ t # id /\ t <= issued'.turn
              /\ t # None => t # prepared'
  <2>1. t \in Nat /\ t <= issued.turn
    <3>1. t <= issued.turn
      BY <1>6 DEF ClaimInv
    <3>2. t \in Nat
      BY Known, FramesIds DEF Typed, Rest, ResourceTypes
    <3> QED BY <3>1, <3>2
  <2> QED BY <1>2, <1>6, <2>1, Known
<1>11. ClaimInv'
  <2>1. ControllerFollowsClaim'
    BY <1>1, <1>6, <1>10 DEF ControllerFollowsClaim
  <2> QED BY <1>1, <1>5, <1>6, <1>10, <2>1 DEF ClaimInv, Dead
<1>12. ASSUME NEW o \in Ops
       PROVE  ProducerInv(o)' /\ StartInv(o)' /\ CurrentInv(o)'
  <2>1. ProducerInv(o)'
    BY <1>1, <1>2 DEF OperationsInv, ProducerInv
  <2>2. StartInv(o)'
    BY <1>1, <1>5, <1>6, NoStartIsNone DEF StartInv
  <2>3. CurrentInv(o)'
    BY <1>6, Known DEF CurrentInv
  <2> QED BY <2>1, <2>2, <2>3
<1>13. StreamInv'
  BY <1>6 DEF StreamInv
<1>14. SettleInv'
  BY <1>1 DEF SettleInv
<1> QED BY <1>8, <1>9, <1>11, <1>12, <1>13, <1>14 DEF OperationsInv

(* An adoption publishes nothing: the turn it joins is still preparing, so *)
(* neither dead nor finished.                                              *)
LEMMA PrepareAdoptOwned ==
  ASSUME Typed, Typed', Owned, NEW t \in Turns, PrepareAdopt(t) PROVE Owned'
<1> USE DEF Owned
<1> DEFINE req == [kind |-> "adopt", intent |-> "direct", expected |-> t,
                   edit |-> None]
           r == Prepare(s, t, req)
<1>1. /\ stack = << >> /\ Admits(s, req)
      /\ DispatchFrom(r, t, idleWaiters, unbusyWaiters, "none", None)
      /\ UNCHANGED <<aborted, settlements, leases, policies, issued, producer,
                     home, engine, outcome, foreign>>
  BY DEF PrepareAdopt, Dispatch, resources, session
<1>2. /\ s.life = "open" /\ s.turn = t /\ s.phase = "preparing"
      /\ r = Ignored(s) /\ CanCall
  BY <1>1 DEF Admits, Claimable, Prepare, CanCall
<1>3. r.s = s /\ r.cmds = << >> /\ r.cmds \in Seq(Command)
  <2>1. << >> \in Seq(Command)
    OBVIOUS
  <2>2. Ignored(s).s = s /\ Ignored(s).cmds = << >>
    BY DEF Ignored, Result
  <2> HIDE DEF r
  <2> QED BY <1>2, <2>1, <2>2
<1> HIDE DEF r
<1>4. /\ s' = s /\ prepared' \in {t, None} /\ Preempted' = Preempted
  BY <1>1, <1>2, <1>3, Known, PlainDispatch
<1>5. Onward
  BY <1>1, <1>4, Known DEF Onward, Disposed
<1>6. FrameInv'
  BY <1>1, <1>2, <1>3, <1>5, Known, PoliteNothing, PoliteDispatch
<1>7. PhaseInv' /\ StreamInv' /\ SettleInv'
  BY <1>1, <1>4 DEF PhaseInv, StreamInv, SettleInv, Disposed, Live
<1>8. ~Disposed /\ t \notin aborted \cup Preempted
  BY <1>2 DEF Disposed, ClaimInv, Dead
<1>9. ClaimInv'
  BY <1>1, <1>2, <1>4, <1>8
     DEF ClaimInv, ControllerFollowsClaim, Disposed, Dead
<1>10. OperationsInv'
  BY <1>1, <1>4 DEF OperationsInv, ProducerInv, StartInv, CurrentInv, Disposed
<1> QED BY <1>6, <1>7, <1>9, <1>10

(* Whoever finishes a turn: no start-up is running in it.                  *)
LEMMA FinishOwned ==
  ASSUME Typed, Typed', Owned, CanCall, NEW t \in Nat, NEW only \in BOOLEAN,
         NEW prep \in {prepared, None},
         Dispatch(Finish(s, t, only), prep, "none", None),
         UNCHANGED <<aborted, settlements, leases, policies, issued, producer,
                     home, engine, outcome, foreign>>,
         s.op.id = None => only \/ s.phase = "completing",
         \A o \in Ops : s.op.id = o /\ s.turn = t =>
            producer[o] # "starting" \/ engine[o] \notin {"off", "handed"}
  PROVE  Owned'
<1> USE DEF Owned
<1> DEFINE r == Finish(s, t, only)
<1>1. Regular(s, r) /\ Dispatch(r, prep, "none", None)
  BY Known, FinishRegular
<1>2. r # Ignored(s) =>
        /\ s.life # "disposed" /\ s.turn = t /\ s.phase # "idle"
        /\ only => s.phase = "preparing"
        /\ MovesTo(s, r.s, "idle")
        /\ r.s.observed = s.observed /\ r.s.op = s.op /\ Polite(None, r.cmds)
  BY Known, FinishView
<1>3. r = Ignored(s) => r.s = s /\ r.cmds = << >>
  BY DEF Ignored, Result
<1> HIDE DEF r
<1>4. r # Ignored(s) => s.observed = None
  BY <1>2 DEF PhaseInv
<1>5. Prompt(r.cmds)
  BY <1>1, <1>2, <1>3, PoliteIsPrompt, NothingIsPrompt DEF Regular
<1>6. /\ r.s.turn = s.turn /\ r.s.op = s.op /\ r.s.observed = s.observed
      /\ r.s.phase = s.phase \/ (r.s.phase = "idle" /\ s.turn = t)
  <2>1. CASE r = Ignored(s)
    BY <1>3, <2>1
  <2>2. CASE r # Ignored(s)
    BY <1>2, <2>2 DEF MovesTo
  <2> QED BY <2>1, <2>2
<1>7. r.s.observed # None => r.s.phase = "streaming" /\ s.op.id = None
  BY <1>3, <1>4, <1>6 DEF PhaseInv
<1>8. Disposed => r.s.phase = "idle"
  BY <1>6 DEF PhaseInv
<1>9. /\ s' = r.s /\ Preempted' = Preempted
      /\ Disposed' <=> Disposed
      /\ PhaseInv' /\ ClaimInv' /\ FrameInv'
  BY <1>1, <1>5, <1>6, <1>7, <1>8, MoveStep
<1>10. OperationsInv' /\ SettleInv'
  BY <1>6, <1>9, SteadyOperations
<1>11. StreamInv'
  BY <1>6, <1>9 DEF StreamInv, Live
<1> QED BY <1>9, <1>10, <1>11

LEMMA FinishPreparationOwned ==
  ASSUME Typed, Typed', Owned, NEW t \in Turns, FinishPreparation(t)
  PROVE  Owned'
<1> DEFINE prep == IF prepared = t THEN None ELSE prepared
<1>1. /\ CanCall /\ Dispatch(Finish(s, t, TRUE), prep, "none", None)
      /\ UNCHANGED <<aborted, settlements, leases, policies, issued, producer,
                     home, engine, outcome, foreign>>
  BY DEF FinishPreparation, CanCall, resources
<1>3. t \in Nat /\ prep \in {prepared, None} /\ TRUE \in BOOLEAN
  BY DEF Turns
<1>2. ASSUME NEW o \in Ops, s.op.id = o, s.turn = t
      PROVE  producer[o] # "starting" \/ engine[o] \notin {"off", "handed"}
  BY <1>2 DEF FinishPreparation, Launching, Owned, OperationsInv, CurrentInv
<1> HIDE DEF prep
<1> QED BY <1>1, <1>2, <1>3, FinishOwned

(* An edit stops the preparing turn with whatever it started.              *)
LEMMA PreemptOwned ==
  ASSUME Typed, Typed', Owned, PreemptPreparation PROVE Owned'
<1> USE DEF Owned
<1> DEFINE r == Preempt(s, prepared)
           t == prepared
<1>1. /\ CanCall /\ s.phase = "preparing" /\ t = s.turn
      /\ DispatchFrom(r, None, idleWaiters, unbusyWaiters, "preempt", t)
      /\ UNCHANGED <<aborted, settlements, leases, policies, issued, producer,
                     home, engine, outcome, foreign>>
  BY DEF PreemptPreparation, Dispatch, resources, session
<1>2. s.life # "disposed" /\ ~Disposed
  BY <1>1 DEF PhaseInv, Disposed
<1>3. /\ MovesTo(s, r.s, "idle") /\ r.s.observed = None
      /\ r.s.op = NoOperation /\ Polite(s.op.id, r.cmds)
      /\ r.cmds \in Seq(Command)
  BY <1>1, <1>2, Known, PreemptView, PreemptRegular DEF Regular
<1> HIDE DEF r, t
<1>4. /\ s' = r.s /\ prepared' = None
      /\ Preempted' = Preempted \cup {t}
  <2>1. /\ s' = r.s /\ prepared' \in {None, None}
        /\ Preempted' = Preempted
             \cup (IF "preempt" = "preempt" THEN {t} ELSE {})
    BY <1>1, <1>3, Known, DispatchShape
  <2> QED BY <2>1
<1>5. /\ s'.turn = s.turn /\ s'.phase = "idle" /\ s'.observed = None
      /\ s'.op.id = None /\ ~Disposed'
  BY <1>2, <1>3, <1>4, NoOperationId DEF MovesTo, Disposed
<1>6. Onward
  BY <1>1, <1>5, <1>2, Known DEF Onward
<1>7. FrameInv'
  BY <1>1, <1>3, <1>5, <1>6, Known, PoliteDispatch
<1>8. PhaseInv'
  BY <1>1, <1>5, Known, NoOperationId DEF PhaseInv
<1>9. ClaimInv'
  BY <1>1, <1>2, <1>4, <1>5
     DEF ClaimInv, PhaseInv, Dead, ControllerFollowsClaim
<1>10. ASSUME NEW o \in Ops
       PROVE  ProducerInv(o)' /\ StartInv(o)' /\ CurrentInv(o)'
  <2>1. ProducerInv(o) /\ StartInv(o) /\ CurrentInv(o)
    BY DEF OperationsInv
  <2>2. ProducerInv(o)' /\ CurrentInv(o)'
    BY <1>1, <1>5, <2>1, Known DEF ProducerInv, CurrentInv
  <2>3. StartInv(o)'
    BY <1>1, <1>2, <1>4, <2>1 DEF StartInv, CurrentInv
  <2> QED BY <2>2, <2>3
<1>11. StreamInv' /\ SettleInv'
  BY <1>1, <1>5 DEF StreamInv, SettleInv
<1> QED BY <1>7, <1>8, <1>9, <1>10, <1>11 DEF OperationsInv

LEMMA ThinkingOwned ==
  ASSUME Typed, Typed', Owned, NEW t,
         AcceptThinking(t) \/ ReleaseThinking
  PROVE  Owned'
<1>1. /\ CanCall
      /\ UNCHANGED <<s, stack, prepared, aborted, settlements, leases,
                     policies, issued, producer, home, engine, outcome,
                     foreign>>
  BY DEF AcceptThinking, ReleaseThinking, resources, session
<1>2. SameOwner(s, s')
  BY <1>1, Known, QuietViews
<1> QED BY <1>1, <1>2, SameShape, QuietAside

LEMMA ClaimsOwned ==
  ASSUME Typed, Typed', Owned, Claims PROVE Owned'
<1>1. ASSUME NEW i \in {"direct", "resume"} \cup QueueIntents, NEW x, NEW e,
             NEW c, PrepareFresh(i, x, e, c)
      PROVE  Owned'
  <2>1. NoStart
    BY <1>1 DEF PrepareFresh, Admits, Claimable, Deferred, QueueIntents,
                NoStart
  <2> QED BY <1>1, <2>1, PrepareFreshOwned
<1>2. ASSUME NEW o \in Ops, Handling(o), IsCurrentOperation(s, o),
             PrepareFresh("handoff", s.turn, None, FALSE)
      PROVE  Owned'
  <2>1. NoStart
    BY <1>2 DEF NoStart, Handling, IsCurrentOperation
  <2> QED BY <1>2, <2>1, PrepareFreshOwned
<1>3. CASE \E t \in Turns : PrepareAdopt(t) \/ FinishPreparation(t)
  BY <1>3, PrepareAdoptOwned, FinishPreparationOwned
<1>4. CASE PreemptPreparation \/ ReleaseThinking
           \/ \E t : AcceptThinking(t)
  BY <1>4, PreemptOwned, ThinkingOwned
<1> QED BY <1>1, <1>2, <1>3, <1>4 DEF Claims

-----------------------------------------------------------------------------
(* Operations.                                                             *)

LEMMA EmptyStack ==
  ASSUME stack = << >> PROVE CanCall /\ Preempted = {}
BY DEF CanCall, Preempted

LEMMA MessageIds ==
  ASSUME NEW o \in Ops
  PROVE  /\ o \in Nat /\ o # None
         /\ StreamMsg(o) \in Nat /\ StreamMsg(o) # None
         /\ StartupMsg(o) \in Nat /\ StartupMsg(o) # None
         /\ ForeignMsg \in Nat /\ ForeignMsg # None
BY BoundsAssumption DEF Ops, StreamMsg, StartupMsg, ForeignMsg, None

(* A stream stays live unless its operation's ends.                        *)
LEMMA LiveOthers ==
  ASSUME NEW o, foreign' = foreign,
         \A p \in Ops \ {o} : engine'[p] = engine[p]
  PROVE  /\ Live \ {StreamMsg(o)} \subseteq Live'
         /\ engine[o] # "live" \/ engine'[o] = "live" => Live \subseteq Live'
<1>1. \A p \in Ops : p # o /\ engine[p] = "live" => engine'[p] = "live"
  OBVIOUS
<1>2. ASSUME NEW m \in Live,
             m = StreamMsg(o) => engine[o] # "live" \/ engine'[o] = "live"
      PROVE  m \in Live'
  <2>1. CASE m \in (IF foreign = "live" THEN {ForeignMsg} ELSE {})
    BY <2>1 DEF Live
  <2>2. CASE m \in {StreamMsg(p) : p \in {q \in Ops : engine[q] = "live"}}
    <3>1. PICK p \in Ops : engine[p] = "live" /\ m = StreamMsg(p)
      BY <2>2
    <3>2. engine'[p] = "live"
      BY <1>1, <1>2, <3>1
    <3> QED BY <3>1, <3>2 DEF Live
  <2> QED BY <2>1, <2>2 DEF Live
<1> QED BY <1>2

(* What an operation's own producer answers for.                           *)
Kept(o) ==
  /\ o \in settlements => producer[o] \notin {"none", "done"} /\ o \in leases
  /\ o \in policies => producer[o] \in {"policy", "handled"}

LEMMA OtherOperations ==
  ASSUME Owned, NEW o \in Ops, s'.turn = s.turn, s'.op.id = s.op.id,
         Disposed' <=> Disposed, Preempted' = Preempted,
         s.op.id = o \/ s'.op.delivery = s.op.delivery,
         s.op.id \in {o, None} \/ s'.phase = s.phase,
         UNCHANGED <<aborted, home>>, issued'.op = issued.op,
         \A p \in Ops \ {o} :
            /\ producer'[p] = producer[p] /\ engine'[p] = engine[p]
            /\ outcome'[p] = outcome[p]
            /\ p \in settlements <=> p \in settlements'
            /\ p \in leases => p \in leases',
         settlements' \subseteq settlements \cup {o},
         policies' \subseteq policies,
         ProducerInv(o)', StartInv(o)', CurrentInv(o)', Kept(o)'
  PROVE  OperationsInv' /\ SettleInv'
<1>1. ASSUME NEW p \in Ops, p # o
      PROVE  ProducerInv(p)' /\ StartInv(p)' /\ CurrentInv(p)' /\ Kept(p)'
  <2>1. ProducerInv(p) /\ StartInv(p) /\ CurrentInv(p) /\ Kept(p)
    BY DEF Owned, OperationsInv, SettleInv, Kept
  <2>2. /\ producer'[p] = producer[p] /\ engine'[p] = engine[p]
        /\ outcome'[p] = outcome[p]
        /\ p \in settlements <=> p \in settlements'
        /\ p \in leases => p \in leases'
    BY <1>1
  <2>3. ProducerInv(p)' /\ Kept(p)'
    BY <2>1, <2>2 DEF ProducerInv, Kept
  <2>4. CurrentInv(p)'
    BY <1>1, <2>1, <2>2 DEF CurrentInv
  <2>5. p # None
    BY MessageIds
  <2>6. StartInv(p)'
    BY <1>1, <2>1, <2>2, <2>5 DEF StartInv
  <2> QED BY <2>3, <2>4, <2>6
<1>2. \A p \in settlements' \cup policies' : p \in Ops
  BY DEF Owned, SettleInv
<1>3. \A p \in Ops : Kept(p)'
  BY <1>1
<1> QED BY <1>1, <1>2, <1>3 DEF OperationsInv, SettleInv, Kept

(* A step of one operation's producer or stream that leaves the phase to   *)
(* its owner.                                                              *)
LEMMA OneOperation ==
  ASSUME Typed, Typed', Owned, NEW o \in Ops, SameOwner(s, s'),
         CanCall, UNCHANGED <<stack, prepared, aborted, home, issued>>,
         \A p \in Ops \ {o} :
            /\ producer'[p] = producer[p] /\ engine'[p] = engine[p]
            /\ outcome'[p] = outcome[p]
            /\ p \in settlements <=> p \in settlements'
            /\ p \in leases => p \in leases',
         settlements' \subseteq settlements \cup {o},
         policies' \subseteq policies,
         ProducerInv(o)', StartInv(o)', CurrentInv(o)', Kept(o)', StreamInv'
  PROVE  Owned'
<1> USE DEF Owned
<1>1. Preempted' = Preempted /\ NextUp' = NextUp /\ Buried' = Buried
  BY SameShape
<1>2. /\ s'.turn = s.turn /\ s'.phase = s.phase /\ s'.op.id = s.op.id
      /\ s'.op.delivery = s.op.delivery /\ s'.observed = s.observed
      /\ Disposed' <=> Disposed
  BY DEF SameOwner, Disposed
<1>3. OperationsInv' /\ SettleInv'
  BY <1>1, <1>2, OtherOperations
<1>4. PhaseInv'
  BY <1>2 DEF PhaseInv
<1>5. ClaimInv'
  BY <1>1, <1>2 DEF ClaimInv, ControllerFollowsClaim, Dead
<1>6. FrameInv'
  BY <1>1, <1>2, QuietFrames, Known DEF Onward
<1> QED BY <1>3, <1>4, <1>5, <1>6

LEMMA QuietShape ==
  ASSUME NEW t, NEW D, Quietly(t, D)
  PROVE  s' = t /\ UNCHANGED <<stack, prepared>>
BY DEF Quietly

(* The invariant of one operation, as its actions find it.                 *)
LEMMA OwnInv ==
  ASSUME Owned, NEW o \in Ops
  PROVE  /\ PhaseInv /\ StreamInv
         /\ ProducerInv(o) /\ StartInv(o) /\ CurrentInv(o) /\ Kept(o)
BY DEF Owned, OperationsInv, SettleInv, Kept

(* Only a turn that keeps no start-up of its own registers one.            *)
LEMMA RegisterOwned ==
  ASSUME Typed, Typed', Owned, NEW t \in Turns, RegisterOperation(t)
  PROVE  Owned'
<1> USE DEF Owned
<1> DEFINE o == issued.op + 1
           r == Register(s, o, t)
<1>1. /\ stack = << >> /\ o \in Ops /\ s.phase = "preparing"
      /\ s.turn = t /\ s.life = "open" /\ t \notin aborted
      /\ \A p \in Ops : home[p] = t => producer[p] \in {"failing", "done"}
      /\ Quietly(r.s, {})
      /\ issued' = [issued EXCEPT !.op = o]
      /\ producer' = Becomes(producer, o, "starting")
      /\ home' = Becomes(home, o, t)
      /\ UNCHANGED <<aborted, policies, engine, outcome, foreign>>
  BY Known DEF RegisterOperation, IsCurrentTurn, Ops
<1>2. /\ o \in Nat /\ o # None /\ o = issued.op + 1
      /\ issued'.op = o /\ issued'.turn = issued.turn
      /\ \A p \in Ops :
            producer'[p] = IF p = o THEN "starting" ELSE producer[p]
      /\ \A p \in Ops : home'[p] = IF p = o THEN t ELSE home[p]
  BY <1>1, Known DEF Typed, Inv, Issued, SessionTypes, Becomes, None
<1>3. /\ r.s.life = s.life /\ r.s.turn = s.turn /\ r.s.phase = s.phase
      /\ r.s.observed = s.observed /\ r.s.op = NewOperation(o)
      /\ r.s.op.id = o /\ r.s.op.delivery = "waiting"
  BY <1>1, <1>2, Known, RegisterView DEF MovesTo, NewOperation
<1>4. /\ settlements' = (settlements \ {s.op.id}) \cup {o}
      /\ leases' = leases \cup {o}
  BY <1>1, <1>3 DEF RegisterOperation, SettleOperation
<1> HIDE DEF r, o
<1>5. /\ s'.life = s.life /\ s'.turn = t /\ s'.phase = "preparing"
      /\ s'.observed = s.observed /\ s'.op.id = o
      /\ s'.op.delivery = "waiting"
      /\ stack' = stack /\ prepared' = prepared
      /\ ~Disposed /\ ~Disposed'
  BY <1>1, <1>3, QuietShape DEF Disposed
<1>6. /\ Preempted = {} /\ Preempted' = {} /\ CanCall
      /\ NextUp' = NextUp /\ Buried' = Buried
  BY <1>1, <1>5, EmptyStack, SameShape
<1>7. PhaseInv'
  BY <1>1, <1>2, <1>5, Known DEF PhaseInv
<1>8. ClaimInv'
  BY <1>1, <1>2, <1>5, <1>6
     DEF ClaimInv, ControllerFollowsClaim, Dead
<1>9. Onward
  BY <1>1, <1>2, <1>5, Known DEF Onward
<1>10. FrameInv'
  BY <1>6, <1>9, QuietFrames
<1>11. ASSUME NEW p \in Ops
       PROVE  ProducerInv(p)' /\ StartInv(p)' /\ CurrentInv(p)'
  <2>1. ProducerInv(p) /\ StartInv(p) /\ CurrentInv(p) /\ p \in Nat
    BY DEF OperationsInv, Ops
  <2>2. ProducerInv(p)'
    <3>1. p > issued'.op <=> p > issued.op /\ p # o
      BY <1>2, <2>1, Known
    <3>2. UNCHANGED <<engine, outcome>>
      BY <1>1
    <3>3. CASE p = o
      <4>1. p > issued.op
        BY <1>2, <3>3, Known
      <4> QED BY <1>2, <2>1, <3>1, <3>2, <3>3, <4>1 DEF ProducerInv
    <3>4. CASE p # o
      BY <1>2, <2>1, <3>1, <3>2, <3>4 DEF ProducerInv
    <3> QED BY <3>3, <3>4
  <2>3. StartInv(p)'
    BY <1>1, <1>2, <1>5, <1>6, <2>1 DEF StartInv, CurrentInv
  <2>4. CurrentInv(p)'
    BY <1>2, <1>4, <1>5 DEF CurrentInv
  <2> QED BY <2>2, <2>3, <2>4
<1>12. StreamInv'
  BY <1>5 DEF StreamInv
<1>13. SettleInv'
  <2>1. producer[o] = "none"
    BY <1>1, <1>2, Known DEF OperationsInv, ProducerInv
  <2> QED BY <1>1, <1>2, <1>4, <2>1 DEF SettleInv
<1> QED BY <1>7, <1>8, <1>10, <1>11, <1>12, <1>13 DEF OperationsInv

(* The events of a start-up that has no stream yet.                        *)
LEMMA StartupEvents ==
  ASSUME Typed, Typed', Owned, NEW o \in Ops,
         \/ ConfigureOperation(o) \/ StreamStarting(o) \/ StartupAborts(o)
         \/ PreStartError(o) \/ StartupFails(o) \/ DeliverHandle(o)
  PROVE  Owned'
<1>1. s \in CoordinatorState /\ SessionTypes
  BY Known
<1>2. /\ PhaseInv /\ StreamInv
      /\ ProducerInv(o) /\ StartInv(o) /\ CurrentInv(o) /\ Kept(o)
  BY OwnInv
<1>3. CASE ConfigureOperation(o) \/ PreStartError(o)
  <2>1. /\ SameOwner(s, s')
        /\ CanCall
        /\ UNCHANGED <<stack, prepared, aborted, settlements, leases, policies,
                       issued, producer, home, engine, outcome, foreign>>
    <3>1. CASE ConfigureOperation(o)
      <4>1. SameOwner(s, Configure(s, o, TRUE).s)
        BY <1>1, QuietViews, Zenon
      <4> QED BY <3>1, <4>1, QuietShape
              DEF ConfigureOperation, Quiet, Inert, resources, session
    <3>2. CASE PreStartError(o)
      BY <1>1, <3>2, QuietViews, QuietShape
         DEF PreStartError, Quiet, Inert, resources, session
    <3> QED BY <1>3, <3>1, <3>2
  <2> QED BY <2>1, SameShape, QuietAside
<1>4. CASE StreamStarting(o)
  <2>1. /\ SameOwner(s, s')
        /\ CanCall /\ producer[o] = "starting" /\ engine[o] = "off"
        /\ engine' = Becomes(engine, o, "handed")
        /\ UNCHANGED <<stack, prepared, aborted, settlements, leases, policies,
                       issued, producer, home, outcome, foreign>>
    BY <1>1, <1>4, QuietViews, QuietShape
       DEF StreamStarting, Quiet, Inert, resources
  <2>2. \A p \in Ops : engine'[p] = IF p = o THEN "handed" ELSE engine[p]
    BY <1>1, <2>1 DEF SessionTypes, Becomes
  <2>3. Preempted' = Preempted
    BY <2>1, SameShape
  <2>4. ProducerInv(o)' /\ CurrentInv(o)' /\ Kept(o)'
    BY <1>2, <2>1, <2>2 DEF ProducerInv, CurrentInv, Kept, SameOwner
  <2>5. StartInv(o)'
    BY <1>2, <2>1, <2>2, <2>3 DEF StartInv, SameOwner, Disposed
  <2>6. StreamInv'
    <3>1. Live \subseteq Live'
      BY <2>1, <2>2, LiveOthers
    <3> QED BY <1>2, <2>1, <3>1 DEF StreamInv, SameOwner
  <2> QED BY <2>1, <2>2, <2>4, <2>5, <2>6, OneOperation
<1>5. CASE StartupAborts(o)
  <2>1. /\ SameOwner(s, s')
        /\ CanCall /\ engine[o] = "handed"
        /\ engine' = Becomes(engine, o, "ended")
        /\ outcome' = Becomes(outcome, o, "cancelled")
        /\ UNCHANGED <<stack, prepared, aborted, settlements, leases, policies,
                       issued, producer, home, foreign>>
    BY <1>1, <1>5, QuietViews, QuietShape
       DEF StartupAborts, Quiet, Inert, Ended, resources
  <2>2. /\ \A p \in Ops : engine'[p] = IF p = o THEN "ended" ELSE engine[p]
        /\ \A p \in Ops :
              outcome'[p] = IF p = o THEN "cancelled" ELSE outcome[p]
    BY <1>1, <2>1 DEF SessionTypes, Becomes
  <2>4. ProducerInv(o)' /\ StartInv(o)' /\ CurrentInv(o)' /\ Kept(o)'
    BY <1>2, <2>1, <2>2
       DEF ProducerInv, StartInv, CurrentInv, Kept, SameOwner
  <2>6. StreamInv'
    <3>1. Live \subseteq Live'
      BY <2>1, <2>2, LiveOthers
    <3> QED BY <1>2, <2>1, <3>1 DEF StreamInv, SameOwner
  <2> QED BY <2>1, <2>2, <2>4, <2>6, OneOperation
<1>6. CASE StartupFails(o)
  <2>1. /\ stack = << >> /\ producer[o] = "starting"
        /\ engine[o] \in {"off", "handed"}
        /\ engine' = Becomes(engine, o, "ended")
        /\ producer' = Becomes(producer, o, "failing")
        /\ UNCHANGED <<s, stack, prepared, aborted, settlements, leases,
                       policies, issued, home, outcome, foreign>>
    BY <1>6 DEF StartupFails, Produce, registries, resources
  <2>2. /\ \A p \in Ops : engine'[p] = IF p = o THEN "ended" ELSE engine[p]
        /\ \A p \in Ops :
              producer'[p] = IF p = o THEN "failing" ELSE producer[p]
    BY <1>1, <2>1 DEF SessionTypes, Becomes, ProducerStates
  <2>3. CanCall /\ SameOwner(s, s')
    BY <1>1, <2>1, EmptyStack, QuietViews
  <2>4. ProducerInv(o)' /\ StartInv(o)' /\ CurrentInv(o)' /\ Kept(o)'
    BY <1>2, <2>1, <2>2 DEF ProducerInv, StartInv, CurrentInv, Kept
  <2>5. s.op.id = o => s.phase # "streaming"
    BY <1>2, <2>1, MessageIds
       DEF StartInv, CurrentInv, PhaseInv, Owned, ClaimInv, Dead
  <2>6. StreamInv'
    <3>1. Live \subseteq Live'
      BY <2>1, <2>2, LiveOthers
    <3>2. CASE s.op.id = None
      BY <1>2, <2>1, <3>1, <3>2 DEF StreamInv
    <3>3. CASE s.op.id # None
      <4>1. s.phase = "streaming" => s.op.id \in Ops /\ s.op.id # o
        BY <1>2, <2>5, <3>3 DEF PhaseInv
      <4> QED BY <1>2, <2>1, <2>2, <3>3, <4>1 DEF StreamInv
    <3> QED BY <3>2, <3>3
  <2> QED BY <2>1, <2>2, <2>3, <2>4, <2>6, OneOperation
<1>7. CASE DeliverHandle(o)
  <2>1. /\ stack = << >> /\ producer[o] = "starting"
        /\ engine[o] = "live" \/ outcome[o] # "none"
        /\ producer' = Becomes(producer, o, "consuming")
        /\ UNCHANGED <<s, stack, prepared, aborted, settlements, leases,
                       policies, issued, home, engine, outcome, foreign>>
    BY <1>7 DEF DeliverHandle, Produce, registries, resources
  <2>2. \A p \in Ops :
           producer'[p] = IF p = o THEN "consuming" ELSE producer[p]
    BY <1>1, <2>1 DEF SessionTypes, Becomes, ProducerStates
  <2>3. CanCall /\ SameOwner(s, s')
    BY <1>1, <2>1, EmptyStack, QuietViews
  <2>4. ProducerInv(o)' /\ StartInv(o)' /\ CurrentInv(o)' /\ Kept(o)'
    BY <1>2, <2>1, <2>2 DEF ProducerInv, StartInv, CurrentInv, Kept
  <2>6. StreamInv'
    BY <1>2, <2>1, <2>2 DEF StreamInv, PhaseInv, Live
  <2> QED BY <2>1, <2>2, <2>3, <2>4, <2>6, OneOperation
<1> QED BY <1>3, <1>4, <1>5, <1>6, <1>7

(* The engine starts the stream of a start-up that nobody stopped, so the  *)
(* phase is its operation's, unless the session is disposed.               *)
LEMMA StreamStartedOwned ==
  ASSUME Typed, Typed', Owned, NEW o \in Ops, StreamStarted(o)
  PROVE  Owned'
<1> DEFINE m == StreamMsg(o)
           r == Started(s, m)
<1>1. /\ stack = << >> /\ CanCall /\ Preempted = {}
      /\ engine[o] = "handed" /\ producer[o] = "starting"
      /\ home[o] \notin aborted
      /\ Dispatch(r, prepared, "none", None)
      /\ engine' = Becomes(engine, o, "live")
      /\ UNCHANGED <<aborted, settlements, leases, policies, issued, producer,
                     home, outcome, foreign>>
  BY EmptyStack DEF StreamStarted, Call, resources
<1>2. /\ s \in CoordinatorState /\ SessionTypes /\ m \in Nat
      /\ o # None /\ prepared \in {prepared, None}
  BY Known, MessageIds
<1>3. /\ PhaseInv /\ StreamInv
      /\ ProducerInv(o) /\ StartInv(o) /\ CurrentInv(o) /\ Kept(o)
  BY OwnInv
<1>4. \A p \in Ops : engine'[p] = IF p = o THEN "live" ELSE engine[p]
  BY <1>1, <1>2 DEF SessionTypes, Becomes
<1>5. Regular(s, r)
  BY <1>2, StartedRegular
<1>6. r = Ignored(s) => r.s = s /\ r.cmds = << >>
  BY DEF Ignored, Result
<1>7. Disposed => r = Ignored(s)
  BY DEF Disposed, Started, Alive
<1>8. ~Disposed =>
        /\ s.op.id = o /\ s.phase = "preparing" /\ s.op.delivery = "waiting"
        /\ s.observed = None
  BY <1>1, <1>3 DEF StartInv, CurrentInv, PhaseInv
<1>9. \/ r = Ignored(s)
      \/ /\ MovesTo(s, r.s, "streaming") /\ r.s.observed = s.observed
         /\ r.s.op = [s.op EXCEPT !.stage = "started", !.msg = m]
         /\ Polite(None, r.cmds) /\ ~Disposed
  BY <1>2, <1>7, <1>8, StartedView DEF Disposed
<1> HIDE DEF r, m
<1>10. Prompt(r.cmds)
  BY <1>5, <1>6, <1>9, PoliteIsPrompt, NothingIsPrompt DEF Regular
<1>11. /\ r.s.turn = s.turn /\ r.s.op.id = s.op.id
       /\ r.s.op.delivery = s.op.delivery /\ r.s.observed = s.observed
       /\ r.s.phase = s.phase \/ (r.s.phase = "streaming" /\ ~Disposed)
  <2>1. CASE r = Ignored(s)
    BY <1>6, <2>1
  <2>2. CASE r # Ignored(s)
    BY <1>2, <1>9, <2>2 DEF MovesTo, CoordinatorState, Operation
  <2> QED BY <2>1, <2>2
<1>12. /\ r.s.phase = "preparing" => s.phase = "preparing"
       /\ r.s.observed # None => r.s.phase = "streaming" /\ s.op.id = None
       /\ Disposed => r.s.phase = "idle"
  BY <1>3, <1>11 DEF PhaseInv
<1>13. /\ s' = r.s /\ Preempted' = Preempted
       /\ Disposed' <=> Disposed
       /\ PhaseInv' /\ ClaimInv' /\ FrameInv'
  BY <1>1, <1>2, <1>5, <1>10, <1>11, <1>12, MoveStep
<1>14. ProducerInv(o)' /\ StartInv(o)' /\ CurrentInv(o)' /\ Kept(o)'
  BY <1>1, <1>3, <1>4, <1>11, <1>13
     DEF ProducerInv, StartInv, CurrentInv, Kept
<1>15. OperationsInv' /\ SettleInv'
  <2>1. s.op.id \in {o, None} \/ s'.phase = s.phase
    BY <1>8, <1>11, <1>13
  <2> QED BY <1>1, <1>4, <1>11, <1>13, <1>14, <2>1, OtherOperations
<1>16. StreamInv'
  <2>1. CASE Disposed
    BY <1>3, <1>11, <1>13, <2>1 DEF PhaseInv, StreamInv
  <2>2. CASE ~Disposed
    BY <1>1, <1>2, <1>8, <1>11, <1>13, <2>2 DEF StreamInv
  <2> QED BY <2>1, <2>2
<1> QED BY <1>13, <1>15, <1>16 DEF Owned

(* A stream that the session only observes ends its turn.                  *)
LEMMA ObservedEnds ==
  ASSUME Typed, Owned, NEW m \in Nat, m # None, Observing(m)
  PROVE  LET r == FinishObserved(s, s.turn, m)
         IN /\ Regular(s, r) /\ MovesTo(s, r.s, "idle")
            /\ r.s.observed = None /\ r.s.op = s.op /\ Prompt(r.cmds)
<1> DEFINE r == FinishObserved(s, s.turn, m)
<1>1. /\ s \in CoordinatorState /\ s.turn \in Nat
      /\ s.op.id = None /\ s.observed = m /\ s.life # "disposed"
  BY Known DEF Observing, Owned, PhaseInv, Disposed
<1>2. Regular(s, r)
  BY <1>1, FinishObservedRegular
<1>3. r # Ignored(s)
  <2>1. r.s.observed = None
    BY <1>1 DEF FinishObserved, Alive, Result, CoordinatorState
  <2>2. Ignored(s).s = s
    BY DEF Ignored, Result
  <2> HIDE DEF r
  <2> QED BY <1>1, <2>1, <2>2
<1>4. /\ MovesTo(s, r.s, "idle") /\ r.s.observed = None /\ r.s.op = s.op
      /\ Polite(None, r.cmds)
  BY <1>1, <1>3, FinishObservedView
<1> HIDE DEF r
<1>5. Prompt(r.cmds)
  BY <1>2, <1>4, PoliteIsPrompt DEF Regular
<1> QED BY <1>2, <1>4, <1>5 DEF r

LEMMA TerminalPrompt ==
  ASSUME NEW kind, NEW m \in Nat, s \in CoordinatorState
  PROVE  LET r == RawTerminal(s, kind, m)
         IN /\ Regular(s, r) /\ Prompt(r.cmds)
            /\ r.s.turn = s.turn /\ r.s.op = s.op /\ r.s.observed = s.observed
            /\ \/ r.s.phase = s.phase
               \/ s.phase = "streaming" /\ r.s.phase = "completing"
                  /\ s.op.id # None
<1> DEFINE r == RawTerminal(s, kind, m)
           t == IF kind = "completed" /\ s.op.compaction
                  THEN BeginDecision(s, "compaction", m, {})
                  ELSE Ignored(s)
<1>1. Regular(s, r)
  BY RawTerminalRegular
<1>2. r = Ignored(s) => r.s = s /\ r.cmds = << >>
  BY DEF Ignored, Result
<1>3. r # Ignored(s) =>
        /\ s.op.id # None /\ r.s.turn = s.turn /\ r.s.observed = s.observed
        /\ r.s.op = s.op
        /\ \/ r.s.phase = s.phase
           \/ s.phase = "streaming" /\ r.s.phase = "completing"
        /\ \/ Polite(None, r.cmds) /\ t.cmds = << >>
           \/ /\ r.cmds # << >> /\ << Head(r.cmds) >> = t.cmds
              /\ Polite(None, Tail(r.cmds))
  BY RawTerminalView
<1>4. t.cmds = << >> \/ \E c : t.cmds = << c >> /\ c.do = "decisions"
  BY DEF BeginDecision, Alive, Ignored, Result, Settle, Do
<1> HIDE DEF r, t
<1>5. Prompt(r.cmds)
  <2>1. CASE r = Ignored(s)
    BY <1>2, <2>1, NothingIsPrompt
  <2>2. CASE Polite(None, r.cmds)
    BY <1>1, <2>2, PoliteIsPrompt DEF Regular
  <2>3. CASE /\ r.cmds # << >> /\ << Head(r.cmds) >> = t.cmds
             /\ Polite(None, Tail(r.cmds))
    <3>1. Head(r.cmds).do = "decisions"
      <4>1. t.cmds # << >>
        BY <2>3
      <4>2. PICK c : t.cmds = << c >> /\ c.do = "decisions"
        BY <1>4, <4>1
      <4>3. << Head(r.cmds) >>[1] = << c >>[1]
        BY <2>3, <4>2
      <4> QED BY <4>2, <4>3
    <3> QED BY <2>3, <3>1 DEF Prompt
  <2> QED BY <1>3, <2>1, <2>2, <2>3
<1>6. /\ r.s.turn = s.turn /\ r.s.op = s.op /\ r.s.observed = s.observed
      /\ \/ r.s.phase = s.phase
         \/ s.phase = "streaming" /\ r.s.phase = "completing" /\ s.op.id # None
  BY <1>2, <1>3
<1> QED BY <1>1, <1>5, <1>6 DEF r

(* The end of a live stream: what it was observed by, or whose operation   *)
(* it was, learns of it.                                                   *)
LEMMA StreamEndOwned ==
  ASSUME Typed, Typed', Owned, NEW o \in Ops,
         NEW how \in {"completed", "aborted", "failed"},
         engine[o] = "live", stack = << >>, Ended(o, how),
         NEW r, Regular(s, r), Prompt(r.cmds), Call(r),
         r.s.turn = s.turn, r.s.op = s.op,
         IF Observing(StreamMsg(o)) THEN
              r.s.phase = "idle" /\ r.s.observed = None
         ELSE /\ r.s.observed = s.observed
              /\ \/ r.s.phase = s.phase
                 \/ s.phase = "streaming" /\ r.s.phase = "completing"
                    /\ s.op.id # None
  PROVE  Owned'
<1> DEFINE m == StreamMsg(o)
<1>1. /\ CanCall /\ Preempted = {}
      /\ Dispatch(r, prepared, "none", None)
      /\ engine' = Becomes(engine, o, "ended")
      /\ outcome' = Becomes(outcome, o, how)
      /\ UNCHANGED <<aborted, settlements, leases, policies, issued, producer,
                     home, foreign>>
  BY EmptyStack DEF Ended, Call, resources
<1>2. SessionTypes /\ o # None /\ prepared \in {prepared, None} /\ m # None
  BY Known, MessageIds
<1>3. /\ PhaseInv /\ StreamInv
      /\ ProducerInv(o) /\ StartInv(o) /\ CurrentInv(o) /\ Kept(o)
  BY OwnInv
<1>4. /\ \A p \in Ops : engine'[p] = IF p = o THEN "ended" ELSE engine[p]
      /\ \A p \in Ops : outcome'[p] = IF p = o THEN how ELSE outcome[p]
  BY <1>1, <1>2 DEF SessionTypes, Becomes
<1>5. /\ r.s.phase = "preparing" => s.phase = "preparing"
      /\ r.s.observed # None => r.s.phase = "streaming" /\ s.op.id = None
      /\ Disposed => r.s.phase = "idle"
  BY <1>3 DEF PhaseInv
<1>6. /\ s' = r.s /\ Preempted' = Preempted
      /\ Disposed' <=> Disposed
      /\ PhaseInv' /\ ClaimInv' /\ FrameInv'
  BY <1>1, <1>2, <1>5, MoveStep
<1>7. ProducerInv(o)' /\ StartInv(o)' /\ CurrentInv(o)' /\ Kept(o)'
  BY <1>1, <1>3, <1>4, <1>6 DEF ProducerInv, StartInv, CurrentInv, Kept
<1>8. OperationsInv' /\ SettleInv'
  <2>1. ASSUME NEW p \in Ops \ {o}, s.op.id = p, s'.phase # s.phase
        PROVE  s.phase = "streaming"
    BY <1>2, <1>6, <2>1, MessageIds DEF Observing
  <2>2. ASSUME NEW p \in Ops \ {o}
        PROVE  ProducerInv(p)' /\ StartInv(p)' /\ CurrentInv(p)' /\ Kept(p)'
    <3>1. ProducerInv(p) /\ StartInv(p) /\ CurrentInv(p) /\ Kept(p)
      BY OwnInv
    <3>2. engine'[p] = engine[p] /\ outcome'[p] = outcome[p]
      BY <1>4
    <3>3. StartInv(p)'
      BY <1>1, <1>6, <2>1, <3>1, <3>2 DEF StartInv
    <3> QED BY <1>1, <1>6, <3>1, <3>2, <3>3 DEF ProducerInv, CurrentInv, Kept
  <2>3. \A p \in settlements' \cup policies' : p \in Ops
    BY <1>1 DEF Owned, SettleInv
  <2>4. \A p \in Ops : Kept(p)'
    BY <1>7, <2>2
  <2> QED BY <1>7, <2>2, <2>3, <2>4 DEF OperationsInv, SettleInv, Kept
<1>9. StreamInv'
  <2>1. Live \ {m} \subseteq Live'
    BY <1>1, <1>4, LiveOthers
  <2> QED BY <1>1, <1>3, <1>6, <2>1 DEF StreamInv, Observing
<1> QED BY <1>6, <1>8, <1>9 DEF Owned

LEMMA StreamEndsOwned ==
  ASSUME Typed, Typed', Owned, NEW o \in Ops,
         \/ \E kind \in {"completed", "aborted"} : StreamEnds(o, kind)
         \/ StreamFails(o)
  PROVE  Owned'
<1> DEFINE m == StreamMsg(o)
<1>1. s \in CoordinatorState /\ SessionTypes /\ m \in Nat /\ m # None
  BY Known, MessageIds
<1>2. engine[o] = "live" /\ stack = << >>
  BY DEF StreamEnds, StreamFails
<1>3. ASSUME NEW how \in {"completed", "aborted", "failed"}, Ended(o, how),
             Observing(m), Call(FinishObserved(s, s.turn, m))
      PROVE  Owned'
  <2> DEFINE r == FinishObserved(s, s.turn, m)
  <2>1. /\ Regular(s, r) /\ MovesTo(s, r.s, "idle")
        /\ r.s.observed = None /\ r.s.op = s.op /\ Prompt(r.cmds) /\ Call(r)
    BY <1>1, <1>3, ObservedEnds
  <2> HIDE DEF r
  <2>2. r.s.turn = s.turn /\ r.s.phase = "idle"
    BY <2>1 DEF MovesTo
  <2> QED BY <1>2, <1>3, <2>1, <2>2, StreamEndOwned
<1>4. ASSUME NEW kind \in {"completed", "aborted"}, StreamEnds(o, kind),
             ~Observing(m)
      PROVE  Owned'
  <2> DEFINE r == RawTerminal(s, kind, m)
  <2>1. Call(r) /\ Ended(o, kind)
    BY <1>4 DEF StreamEnds
  <2>2. /\ Regular(s, r) /\ Prompt(r.cmds)
        /\ r.s.turn = s.turn /\ r.s.op = s.op /\ r.s.observed = s.observed
        /\ \/ r.s.phase = s.phase
           \/ s.phase = "streaming" /\ r.s.phase = "completing"
              /\ s.op.id # None
    BY <1>1, TerminalPrompt
  <2> HIDE DEF r
  <2> QED BY <1>2, <1>4, <2>1, <2>2, StreamEndOwned
<1>5. CASE StreamFails(o) /\ ~Observing(m)
  <2>1. /\ SameOwner(s, s') /\ CanCall
        /\ engine' = Becomes(engine, o, "ended")
        /\ outcome' = Becomes(outcome, o, "failed")
        /\ UNCHANGED <<stack, prepared, aborted, settlements, leases, policies,
                       issued, producer, home, foreign>>
    BY <1>1, <1>5, QuietViews, QuietShape
       DEF StreamFails, Quiet, Inert, Ended, resources
  <2>2. /\ \A p \in Ops : engine'[p] = IF p = o THEN "ended" ELSE engine[p]
        /\ \A p \in Ops : outcome'[p] = IF p = o THEN "failed" ELSE outcome[p]
    BY <1>1, <2>1 DEF SessionTypes, Becomes
  <2>3. /\ PhaseInv /\ StreamInv
        /\ ProducerInv(o) /\ StartInv(o) /\ CurrentInv(o) /\ Kept(o)
    BY OwnInv
  <2>4. ProducerInv(o)' /\ StartInv(o)' /\ CurrentInv(o)' /\ Kept(o)'
    BY <1>2, <2>1, <2>2, <2>3
       DEF ProducerInv, StartInv, CurrentInv, Kept, SameOwner
  <2>5. StreamInv'
    <3>1. Live \ {m} \subseteq Live'
      BY <2>1, <2>2, LiveOthers
    <3> QED BY <1>5, <2>1, <2>3, <3>1 DEF StreamInv, SameOwner, Observing
  <2> QED BY <2>1, <2>2, <2>4, <2>5, OneOperation
<1>6. ASSUME NEW kind \in {"completed", "aborted"}, StreamEnds(o, kind),
             Observing(m)
      PROVE  Owned'
  BY <1>3, <1>6 DEF StreamEnds
<1>7. CASE StreamFails(o) /\ Observing(m)
  BY <1>3, <1>7 DEF StreamFails
<1> QED BY <1>4, <1>5, <1>6, <1>7

LEMMA OperationsOwned ==
  ASSUME Typed, Typed', Owned, NEW o \in Ops, Operations(o) PROVE Owned'
BY StartupEvents, StreamStartedOwned, StreamEndsOwned DEF Operations

-----------------------------------------------------------------------------
(* Completions.                                                            *)

LEMMA HandleIds ==
  ASSUME NEW o \in Ops PROVE HandleMsg(o) \in Nat
BY MessageIds DEF HandleMsg

(* An answer to every reader of a message leaves the lifecycle alone.      *)
LEMMA AnswerAllAside ==
  ASSUME s \in CoordinatorState, NEW m, AnswerAll(m)
  PROVE  SameOwner(s, s') /\ UNCHANGED <<stack, prepared>>
<1> DEFINE D == (s.decisions \ PendingOn(m))
                  \cup {Fallback(d) : d \in PendingOn(m)}
           t == [s EXCEPT !.decisions = D]
<1>1. Quietly(t, {Fallback(d) : d \in PendingOn(m)})
  BY DEF AnswerAll
<1>2. SameOwner(s, t)
  BY QuietViews
<1> HIDE DEF t
<1> QED BY <1>1, <1>2, QuietShape

(* The outcome that waits for its operation launches the policy.           *)
LEMMA CompletionOwned ==
  ASSUME Typed, Typed', Owned, NEW o \in Ops, CompletionArrives(o),
         IsCurrentOperation(s, o)
  PROVE  Owned'
<1> DEFINE m == HandleMsg(o)
           ab == outcome[o] \in {"aborted", "cancelled"}
           r == Completion(s, o, m, ab)
           c == Policy(o, m)
<1>1. /\ stack = << >> /\ CanCall /\ Preempted = {}
      /\ producer[o] = "consuming" /\ outcome[o] # "none"
      /\ Dispatch(r, prepared, "none", None)
      /\ producer' = Becomes(producer, o,
           IF r.cmds = << >> THEN "finishing" ELSE "launching")
      /\ UNCHANGED <<aborted, settlements, leases, policies, issued, home,
                     engine, outcome, foreign>>
  BY EmptyStack DEF CompletionArrives
<1>2. /\ s \in CoordinatorState /\ SessionTypes /\ m \in Nat /\ o \in Nat
      /\ o # None /\ Types /\ ab \in BOOLEAN
  BY Known, MessageIds, HandleIds
<1>3. /\ PhaseInv /\ StreamInv
      /\ ProducerInv(o) /\ StartInv(o) /\ CurrentInv(o) /\ Kept(o)
  BY OwnInv
<1>4. /\ ~Disposed /\ s.op.id = o /\ s.op.delivery = "waiting"
      /\ s.life # "disposed"
  BY <1>1, <1>3 DEF IsCurrentOperation, CurrentInv, Disposed
<1> HIDE DEF ab, m
<1>5. /\ MovesTo(s, r.s, s.phase) /\ r.s.observed = s.observed
      /\ r.s.op.id = o /\ r.cmds = << c >>
  <2>1. /\ s \in CoordinatorState /\ o \in Nat /\ m \in Nat
        /\ ab \in BOOLEAN /\ s.life # "disposed" /\ s.op.id = o
        /\ s.op.delivery = "waiting"
    BY <1>2, <1>4
  <2>2. LET v == Completion(s, o, m, ab)
        IN /\ MovesTo(s, v.s, s.phase) /\ v.s.observed = s.observed
           /\ v.s.op.id = o /\ v.cmds = << Policy(o, m) >>
    BY ONLY <2>1, CompletionView
  <2> QED BY <2>2
<1>6. c \in Command /\ c.do = "policy" /\ c.id = o
  <2>1. c \in Command
    BY <1>2, CommandTypes
  <2>2. c.do = "policy" /\ c.id = o
    BY DEF Policy, Do
  <2> QED BY <2>1, <2>2
<1> HIDE DEF r, c
<1>7. /\ r.cmds \in Seq(Command) /\ r.cmds # << >> /\ Head(r.cmds) = c
      /\ Tail(r.cmds) = << >> /\ Len(r.cmds) = 1
  BY <1>5, <1>6
<1>8. /\ s' = r.s /\ Preempted' = Preempted /\ prepared' \in {prepared, None}
      /\ NextUp' = {c} /\ Buried' \subseteq Buried
  <2>1. DispatchFrom(r, prepared, idleWaiters, unbusyWaiters, "none", None)
    BY <1>1 DEF Dispatch
  <2>2. s' = r.s /\ Preempted' = Preempted /\ prepared' \in {prepared, None}
    BY <1>1, <1>2, <1>7, <2>1, PlainDispatch
  <2>3. /\ NextUp' = {Head(r.cmds)}
        /\ Buried' \subseteq Buried \cup Elements(Tail(r.cmds))
    BY <1>1, <1>2, <1>7, <2>1, DispatchShape
  <2>4. Elements(Tail(r.cmds)) = {}
    BY <1>7, NoElements
  <2> QED BY <1>7, <2>2, <2>3, <2>4
<1>9. \A p \in Ops : producer'[p] = IF p = o THEN "launching" ELSE producer[p]
  BY <1>1, <1>2, <1>7 DEF SessionTypes, Becomes, ProducerStates
<1>10. /\ s'.life = s.life /\ s'.turn = s.turn /\ s'.phase = s.phase
       /\ s'.observed = s.observed /\ s'.op.id = s.op.id
       /\ ~Disposed' /\ (Disposed' <=> Disposed)
  BY <1>4, <1>5, <1>8 DEF MovesTo, Disposed
<1>11. Onward
  BY <1>1, <1>10, <1>4, Known DEF Onward
<1>12. FrameInv'
  <2>1. ASSUME NEW k, k = c PROVE Launches(k)'
    BY <1>6, <1>9, <2>1 DEF Launches
  <2>2. /\ \A k \in Buried' : k \in Buried
        /\ \A k \in NextUp' : Launches(k)'
    BY <1>8, <2>1
  <2> QED BY <1>3, <1>11, <2>2, FrameStep DEF Owned
<1>13. PhaseInv'
  BY <1>1, <1>3, <1>10 DEF PhaseInv
<1>14. ClaimInv'
  BY <1>1, <1>4, <1>8, <1>10 DEF Owned, ClaimInv, ControllerFollowsClaim, Dead
<1>15. ProducerInv(o)' /\ StartInv(o)' /\ CurrentInv(o)' /\ Kept(o)'
  <2>1. o \in settlements /\ home[o] = s.turn
    BY <1>1, <1>3, <1>4 DEF CurrentInv
  <2>2. ProducerInv(o)' /\ Kept(o)'
    BY <1>1, <1>3, <1>9 DEF ProducerInv, Kept
  <2> QED BY <1>1, <1>9, <1>10, <2>1, <2>2 DEF StartInv, CurrentInv
<1>16. OperationsInv' /\ SettleInv'
  BY <1>1, <1>4, <1>8, <1>9, <1>10, <1>15, OtherOperations
<1>17. StreamInv'
  BY <1>2, <1>4, <1>9, <1>10 DEF StreamInv
<1> QED BY <1>12, <1>13, <1>14, <1>16, <1>17 DEF Owned

(* The steps that only move an operation's producer on.                    *)
LEMMA ProducerMovesOwned ==
  ASSUME Typed, Typed', Owned, NEW o \in Ops,
         \/ CompletionArrives(o) /\ ~IsCurrentOperation(s, o)
         \/ HandlerClears(o) \/ PolicyReturns(o) \/ FinishStartup(o)
  PROVE  Owned'
<1>1. s \in CoordinatorState /\ SessionTypes
  BY Known
<1>2. /\ PhaseInv /\ StreamInv
      /\ ProducerInv(o) /\ StartInv(o) /\ CurrentInv(o) /\ Kept(o)
  BY OwnInv
<1>3. \A to \in ProducerStates :
        producer' = Becomes(producer, o, to) =>
          \A p \in Ops : producer'[p] = IF p = o THEN to ELSE producer[p]
  BY <1>1 DEF SessionTypes, Becomes
<1>4. \A p \in settlements : p \in Nat
  BY DEF Typed, Rest, ResourceTypes
<1>5. SameOwner(s, s') /\ CanCall
      /\ UNCHANGED <<stack, prepared, aborted, issued, home, engine, outcome,
                     foreign>>
  <2>1. stack = << >> /\ CanCall
    BY EmptyStack DEF CompletionArrives, HandlerClears, PolicyReturns,
       FinishStartup
  <2>2. CASE CompletionArrives(o) /\ ~IsCurrentOperation(s, o)
    BY <1>1, <2>1, <2>2, AnswerAllAside DEF CompletionArrives
  <2>3. CASE PolicyReturns(o)
    BY <1>1, <2>1, <2>3, AnswerAllAside DEF PolicyReturns
  <2>4. CASE HandlerClears(o) \/ FinishStartup(o)
    BY <1>1, <2>1, <2>4, QuietViews
       DEF HandlerClears, FinishStartup, registries, resources
  <2> QED BY <2>1, <2>2, <2>3, <2>4
<1>6. Live' = Live
  BY <1>5 DEF Live
<1>7. CASE HandlerClears(o)
  <2>1. /\ producer[o] = "policy" /\ "handled" \in ProducerStates
        /\ producer' = Becomes(producer, o, "handled")
        /\ UNCHANGED <<settlements, leases, policies>>
    BY <1>7 DEF HandlerClears, resources, ProducerStates
  <2>2. \A p \in Ops : producer'[p] = IF p = o THEN "handled" ELSE producer[p]
    BY <1>3, <2>1
  <2>3. ProducerInv(o)' /\ StartInv(o)' /\ CurrentInv(o)' /\ Kept(o)'
    BY <1>2, <1>5, <2>1, <2>2
       DEF ProducerInv, StartInv, CurrentInv, Kept, SameOwner
  <2>4. StreamInv'
    BY <1>2, <1>5, <1>6, <2>1, <2>2 DEF StreamInv, PhaseInv, SameOwner
  <2> QED BY <1>5, <2>1, <2>2, <2>3, <2>4, OneOperation
<1>8. CASE \/ CompletionArrives(o) /\ ~IsCurrentOperation(s, o)
           \/ PolicyReturns(o)
  <2>1. /\ producer[o] \in {"consuming", "policy", "handled"}
        /\ "finishing" \in ProducerStates
        /\ producer' = Becomes(producer, o, "finishing")
        /\ settlements' = settlements \ {o} /\ leases' = leases
        /\ policies' = policies \/ policies' = policies \ {o}
        /\ producer[o] = "consuming" => outcome[o] # "none"
        /\ producer[o] # "consuming" => policies' = policies \ {o}
        /\ IsCurrentOperation(s, o) => s.phase # "streaming"
    <3>1. CASE CompletionArrives(o) /\ ~IsCurrentOperation(s, o)
      BY <3>1 DEF CompletionArrives, SettleOperation, ProducerStates
    <3>2. CASE PolicyReturns(o)
      BY <3>2 DEF PolicyReturns, SettleOperation, ProducerStates
    <3> QED BY <1>8, <3>1, <3>2
  <2>2. \A p \in Ops :
           producer'[p] = IF p = o THEN "finishing" ELSE producer[p]
    BY <1>3, <2>1
  <2>3. o \notin policies'
    <3>1. producer[o] = "consuming" => o \notin policies
      BY <1>2 DEF Kept
    <3> QED BY <2>1, <3>1
  <2>4. ProducerInv(o)' /\ StartInv(o)' /\ CurrentInv(o)' /\ Kept(o)'
    <3>1. producer'[o] = "finishing" /\ o \notin settlements'
      BY <2>1, <2>2
    <3>2. ProducerInv(o)' /\ Kept(o)'
      BY <1>2, <1>5, <2>1, <2>3, <3>1 DEF ProducerInv, Kept
    <3>3. StartInv(o)' /\ CurrentInv(o)'
      BY <1>2, <1>5, <3>1 DEF StartInv, CurrentInv, SameOwner
    <3> QED BY <3>2, <3>3
  <2>5. s.phase = "streaming" => s.op.id # o
    BY <1>2, <2>1, MessageIds DEF IsCurrentOperation, PhaseInv, Disposed
  <2>6. StreamInv'
    BY <1>2, <1>5, <1>6, <2>2, <2>5 DEF StreamInv, PhaseInv, SameOwner
  <2> QED BY <1>5, <2>1, <2>2, <2>4, <2>6, OneOperation
<1>9. CASE FinishStartup(o)
  <2>1. /\ producer[o] \in {"finishing", "failing"}
        /\ "done" \in ProducerStates
        /\ producer' = Becomes(producer, o, "done")
        /\ settlements' = settlements \ {o} /\ leases' = leases \ {o}
        /\ policies' = policies
    BY <1>9 DEF FinishStartup, SettleOperation, ReleaseLease, ProducerStates
  <2>2. \A p \in Ops : producer'[p] = IF p = o THEN "done" ELSE producer[p]
    BY <1>3, <2>1
  <2>3. ProducerInv(o)' /\ StartInv(o)' /\ CurrentInv(o)' /\ Kept(o)'
    BY <1>2, <1>5, <2>1, <2>2
       DEF ProducerInv, StartInv, CurrentInv, Kept, SameOwner
  <2>4. StreamInv'
    BY <1>2, <1>5, <1>6, <2>1, <2>2 DEF StreamInv, PhaseInv, SameOwner
  <2> QED BY <1>5, <2>1, <2>2, <2>3, <2>4, OneOperation
<1> QED BY <1>7, <1>8, <1>9

(* The handler of a completion or of a failed start-up moves its turn on.  *)
LEMMA PhaseMovesOwned ==
  ASSUME Typed, Typed', Owned, NEW o \in Ops, BeginPolicy(o) \/ FinishTurn(o)
  PROVE  Owned'
<1>1. /\ stack = << >> /\ CanCall
      /\ producer[o] \in {"policy", "handled", "failing"}
      /\ s.life # "disposed" /\ s.op.id = o /\ ~Disposed
  BY EmptyStack DEF BeginPolicy, FinishTurn, Handling, IsCurrentOperation,
     Disposed
<1>2. /\ s \in CoordinatorState /\ s.turn \in Nat /\ o # None
      /\ prepared \in {prepared, None}
  BY Known, MessageIds
<1>3. CASE BeginPolicy(o)
  <2> DEFINE r == CompletePolicy(s, s.turn)
  <2>1. /\ Regular(s, r) /\ MovesTo(s, r.s, "completing")
        /\ r.s.observed = s.observed /\ r.s.op = s.op /\ Polite(None, r.cmds)
    BY <1>1, <1>2, CompletePolicyView, CompletePolicyRegular
  <2>2. /\ Call(r)
        /\ Dispatch(r, prepared, "none", None)
        /\ UNCHANGED <<aborted, settlements, leases, policies, issued,
                       producer, home, engine, outcome, foreign>>
    BY <1>3 DEF BeginPolicy, Call, resources, session
  <2> HIDE DEF r
  <2>3. Prompt(r.cmds)
    BY <2>1, PoliteIsPrompt DEF Regular
  <2>4. r.s.turn = s.turn /\ r.s.phase = "completing"
    BY <2>1 DEF MovesTo
  <2>5. r.s.observed = None
    BY <1>1, <1>2, <2>1 DEF Owned, PhaseInv
  <2>6. /\ s' = r.s /\ Preempted' = Preempted
        /\ Disposed' <=> Disposed
        /\ PhaseInv' /\ ClaimInv' /\ FrameInv'
    BY <1>1, <1>2, <2>1, <2>2, <2>3, <2>4, <2>5, MoveStep
  <2>7. OperationsInv' /\ SettleInv'
    BY <1>1, <2>1, <2>2, <2>4, <2>6, SteadyOperations
  <2> QED BY <2>4, <2>6, <2>7 DEF Owned, StreamInv
<1>4. CASE FinishTurn(o)
  <2>1. /\ Dispatch(Finish(s, s.turn, FALSE), prepared, "none", None)
        /\ s.phase = "completing" /\ FALSE \in BOOLEAN
        /\ UNCHANGED <<aborted, settlements, leases, policies, issued,
                       producer, home, engine, outcome, foreign>>
    BY <1>4 DEF FinishTurn, Call, resources, session
  <2> QED BY <1>1, <1>2, <2>1, FinishOwned
<1> QED BY <1>3, <1>4

LEMMA CompletionsOwned ==
  ASSUME Typed, Typed', Owned, NEW o \in Ops, Completions(o) PROVE Owned'
<1>1. ASSUME NEW k, NEW m, NEW v, ResolveVerdict(o, k, m, v) PROVE Owned'
  <2>1. /\ SameOwner(s, s') /\ CanCall
        /\ UNCHANGED <<stack, prepared, aborted, settlements, leases, policies,
                       issued, producer, home, engine, outcome, foreign>>
    BY <1>1, Known, QuietViews, QuietShape
       DEF ResolveVerdict, Quiet, Inert, resources, session
  <2> QED BY <2>1, SameShape, QuietAside
<1>2. CASE CompletionArrives(o)
  BY <1>2, CompletionOwned, ProducerMovesOwned
<1>3. CASE HandlerClears(o) \/ PolicyReturns(o) \/ FinishStartup(o)
  BY <1>3, ProducerMovesOwned
<1>4. CASE BeginPolicy(o) \/ FinishTurn(o)
  BY <1>4, PhaseMovesOwned
<1> QED BY <1>1, <1>2, <1>3, <1>4 DEF Completions

-----------------------------------------------------------------------------
(* The engine, seen by a session that is not driving it.                   *)

LEMMA LiveTypes == Live \subseteq Nat
<1>1. ForeignMsg \in Nat
  BY BoundsAssumption DEF ForeignMsg
<1>2. \A o \in Ops : StreamMsg(o) \in Nat
  BY MessageIds
<1> QED BY <1>1, <1>2 DEF Live

LEMMA ForeignEndsOwned ==
  ASSUME Typed, Typed', Owned, ForeignEnds PROVE Owned'
<1> DEFINE m == ForeignMsg
           r == IF Observing(m) THEN FinishObserved(s, s.turn, m)
                ELSE Ignored(s)
<1>1. /\ stack = << >> /\ CanCall
      /\ Dispatch(r, prepared, "none", None)
      /\ UNCHANGED <<aborted, settlements, leases, policies, issued, producer,
                     home, engine, outcome>>
  BY EmptyStack DEF ForeignEnds, Call, resources
<1>2. /\ s \in CoordinatorState /\ m \in Nat /\ m # None
      /\ prepared \in {prepared, None} /\ PhaseInv /\ StreamInv
  <2>1. m \in Nat /\ m # None
    BY BoundsAssumption DEF ForeignMsg, None
  <2> QED BY <2>1, Known DEF Owned
<1>3. /\ Regular(s, r) /\ Prompt(r.cmds) /\ r.s.turn = s.turn /\ r.s.op = s.op
      /\ IF Observing(m) THEN r.s.phase = "idle" /\ r.s.observed = None
         ELSE r.s.phase = s.phase /\ r.s.observed = s.observed
  <2>1. CASE Observing(m)
    <3> DEFINE x == FinishObserved(s, s.turn, m)
    <3>1. /\ Regular(s, x) /\ MovesTo(s, x.s, "idle")
          /\ x.s.observed = None /\ x.s.op = s.op /\ Prompt(x.cmds)
      BY <1>2, <2>1, ObservedEnds
    <3>2. r = x
      BY <2>1
    <3> HIDE DEF x, r
    <3> QED BY <2>1, <3>1, <3>2 DEF MovesTo
  <2>2. CASE ~Observing(m)
    <3>1. r = Ignored(s) /\ Ignored(s).s = s /\ Ignored(s).cmds = << >>
      BY <2>2 DEF Ignored, Result
    <3> HIDE DEF r
    <3> QED BY <1>2, <2>2, <3>1, IgnoredRegular, NothingIsPrompt
  <2> QED BY <2>1, <2>2
<1> HIDE DEF r
<1>4. /\ r.s.phase = "preparing" => s.phase = "preparing"
      /\ r.s.observed # None => r.s.phase = "streaming" /\ s.op.id = None
      /\ Disposed => r.s.phase = "idle"
  BY <1>2, <1>3 DEF PhaseInv
<1>5. /\ s' = r.s /\ Preempted' = Preempted
      /\ Disposed' <=> Disposed
      /\ PhaseInv' /\ ClaimInv' /\ FrameInv'
  BY <1>1, <1>2, <1>3, <1>4, MoveStep
<1>6. OperationsInv' /\ SettleInv'
  <2>1. \/ s'.phase = s.phase
        \/ \A o \in Ops : s.op.id # o
    BY <1>3, <1>5, MessageIds DEF Observing
  <2> QED BY <1>1, <1>3, <1>5, <2>1, SteadyOperations
<1>7. StreamInv'
  <2>1. Live \ {m} \subseteq Live'
    BY <1>1 DEF Live
  <2> QED BY <1>1, <1>2, <1>3, <1>5, <2>1 DEF StreamInv, Observing
<1> QED BY <1>5, <1>6, <1>7 DEF Owned

(* A reconnecting client observes a stream that is live.                   *)
LEMMA ObserveReplayOwned ==
  ASSUME Typed, Typed', Owned, NEW m, ObserveReplay(m) PROVE Owned'
<1> DEFINE r == ObserveStream(s, m)
<1>1. /\ CanCall /\ m \in Live
      /\ Dispatch(r, prepared, "none", None)
      /\ UNCHANGED <<aborted, settlements, leases, policies, issued, producer,
                     home, engine, outcome, foreign>>
  BY DEF ObserveReplay, Call, resources, session
<1>2. /\ s \in CoordinatorState /\ m \in Nat
      /\ prepared \in {prepared, None} /\ PhaseInv /\ StreamInv
  BY <1>1, Known, LiveTypes DEF Owned
<1>3. Regular(s, r)
  BY <1>2, ObserveRegular
<1>4. r = Ignored(s) => r.s = s /\ r.cmds = << >>
  BY DEF Ignored, Result
<1>5. r # Ignored(s) =>
        /\ s.life # "disposed" /\ s.op.id = None
        /\ MovesTo(s, r.s, "streaming")
        /\ r.s.observed = m /\ r.s.op = s.op /\ Polite(None, r.cmds)
  BY <1>2, ObserveView
<1> HIDE DEF r
<1>6. Prompt(r.cmds)
  BY <1>3, <1>4, <1>5, PoliteIsPrompt, NothingIsPrompt DEF Regular
<1>7. /\ r.s.turn = s.turn /\ r.s.op = s.op
      /\ \/ r.s.phase = s.phase /\ r.s.observed = s.observed
         \/ /\ r.s.phase = "streaming" /\ r.s.observed = m
            /\ s.op.id = None /\ ~Disposed
  BY <1>4, <1>5 DEF MovesTo, Disposed
<1>8. /\ r.s.phase = "preparing" => s.phase = "preparing"
      /\ r.s.observed # None => r.s.phase = "streaming" /\ s.op.id = None
      /\ Disposed => r.s.phase = "idle"
  BY <1>2, <1>7 DEF PhaseInv
<1>9. /\ s' = r.s /\ Preempted' = Preempted
      /\ Disposed' <=> Disposed
      /\ PhaseInv' /\ ClaimInv' /\ FrameInv'
  BY <1>1, <1>2, <1>3, <1>6, <1>7, <1>8, MoveStep
<1>10. OperationsInv' /\ SettleInv'
  <2>1. \/ s'.phase = s.phase
        \/ \A o \in Ops : s.op.id # o
    BY <1>7, <1>9, MessageIds
  <2> QED BY <1>1, <1>7, <1>9, <2>1, SteadyOperations
<1>11. StreamInv'
  BY <1>1, <1>2, <1>7, <1>9 DEF StreamInv, Live
<1> QED BY <1>9, <1>10, <1>11 DEF Owned

LEMMA SyntheticAbortOwned ==
  ASSUME Typed, Typed', Owned, SyntheticAbort PROVE Owned'
<1>1. /\ SameOwner(s, s') /\ CanCall
      /\ UNCHANGED <<stack, prepared, aborted, settlements, leases, policies,
                     issued, producer, home, engine, outcome, foreign>>
  BY Known, QuietViews, QuietShape
     DEF SyntheticAbort, Quiet, Inert, resources, session
<1> QED BY <1>1, SameShape, QuietAside

-----------------------------------------------------------------------------
(* Reservations, waiters, retries, readers and observations.               *)

LEMMA ReleaseOwned ==
  ASSUME Typed, Typed', Owned, NEW q, ReleaseReservation(q) PROVE Owned'
<1> DEFINE r == Release(s, q.id, q.kind)
<1>1. /\ CanCall /\ Dispatch(r, prepared, "none", None)
      /\ UNCHANGED <<aborted, settlements, leases, policies, issued, producer,
                     home, engine, outcome, foreign>>
  BY DEF ReleaseReservation, Call, resources, session
<1>2. /\ s \in CoordinatorState /\ PhaseInv /\ StreamInv
      /\ prepared \in {prepared, None}
  BY Known DEF Owned
<1>3. /\ Regular(s, r) /\ SameOwner(s, r.s) /\ Polite(None, r.cmds)
  BY <1>2, ReleaseView, ReleaseRegular
<1> HIDE DEF r
<1>4. Prompt(r.cmds)
  BY <1>3, PoliteIsPrompt DEF Regular
<1>5. /\ r.s.turn = s.turn /\ r.s.phase = s.phase /\ r.s.op.id = s.op.id
      /\ r.s.op.delivery = s.op.delivery /\ r.s.observed = s.observed
  BY <1>3 DEF SameOwner
<1>6. /\ s' = r.s /\ Preempted' = Preempted
      /\ Disposed' <=> Disposed
      /\ PhaseInv' /\ ClaimInv' /\ FrameInv'
  BY <1>1, <1>2, <1>3, <1>4, <1>5, MoveStep DEF PhaseInv
<1>7. OperationsInv' /\ SettleInv'
  BY <1>1, <1>5, <1>6, SteadyOperations
<1>8. StreamInv'
  BY <1>1, <1>2, <1>5, <1>6 DEF StreamInv, Live
<1> QED BY <1>6, <1>7, <1>8 DEF Owned

LEMMA HoldsOwned ==
  ASSUME Typed, Typed', Owned, Holds PROVE Owned'
<1>1. s \in CoordinatorState /\ Types /\ Issued
  BY Known DEF Typed, Inv
<1>2. CASE \/ \E k \in ReservationKinds : MakeReservation(k)
           \/ BeginRetry \/ \E id \in 1..MaxTokens : FinishRetry(id)
  <2>1. /\ SameOwner(s, s') /\ CanCall
        /\ issued'.turn = issued.turn /\ issued'.op = issued.op
        /\ UNCHANGED <<stack, prepared, aborted, settlements, leases, policies,
                       producer, home, engine, outcome, foreign>>
    <3>1. CASE \E k \in ReservationKinds : MakeReservation(k)
      BY <1>1, <3>1, UntouchedViews, QuietShape
         DEF MakeReservation, Quiet, resources, session, Untouched, Issued
    <3>2. CASE BeginRetry
      BY <1>1, <3>2, UntouchedViews, QuietShape
         DEF BeginRetry, Quiet, resources, session, Untouched, Issued
    <3>3. CASE \E id \in 1..MaxTokens : FinishRetry(id)
      BY <1>1, <3>3, UntouchedViews, QuietShape
         DEF FinishRetry, Quiet, Inert, resources, session, Untouched
    <3> QED BY <1>2, <3>1, <3>2, <3>3
  <2> QED BY <2>1, SameShape, QuietAside
<1>3. CASE \E r \in s.reservations : ReleaseReservation(r)
  BY <1>3, ReleaseOwned
<1>4. ASSUME NEW w, CancelWait(w) PROVE Owned'
  <2>1. /\ SameOwner(s, s') /\ CanCall
        /\ UNCHANGED <<prepared, aborted, settlements, leases, policies,
                       issued, producer, home, engine, outcome, foreign>>
    BY <1>1, <1>4, QuietViews DEF CancelWait, resources, session
  <2> QED BY <1>1, <1>4, <2>1, CancelShape, QuietAside
<1>5. ASSUME NEW w, NEW k, WaitFor(w, k) PROVE Owned'
  <2>1. /\ SameOwner(s, s') /\ CanCall
        /\ UNCHANGED <<stack, prepared, aborted, settlements, leases, policies,
                       issued, producer, home, engine, outcome, foreign>>
    BY <1>1, <1>5, QuietViews DEF WaitFor, resources, session
  <2> QED BY <2>1, SameShape, QuietAside
<1> QED BY <1>2, <1>3, <1>4, <1>5 DEF Holds

LEMMA DecisionsOwned ==
  ASSUME Typed, Typed', Owned, Decisions PROVE Owned'
<1>1. s \in CoordinatorState /\ Ignored(s).s = s
  BY Known DEF Ignored, Result
<1> DEFINE Aside ==
      /\ SameOwner(s, s') /\ stack = << >>
      /\ UNCHANGED <<stack, prepared, aborted, settlements, leases, policies,
                     issued, producer, home, engine, outcome, foreign>>
<1>2. Aside
  <2>1. ASSUME NEW x, NEW m, ReadError(x, m) PROVE Aside
    BY <1>1, <2>1, QuietViews DEF ReadError, registries, resources, session
  <2>2. ASSUME NEW x, NEW m, ReadCompaction(x, m) PROVE Aside
    BY <1>1, <2>2, QuietViews
       DEF ReadCompaction, registries, resources, session
  <2>3. ASSUME NEW x, ReaderReturns(x) PROVE Aside
    BY <1>1, <2>3, QuietViews
       DEF ReaderReturns, registries, resources, session
  <2> QED BY <2>1, <2>2, <2>3 DEF Decisions
<1> QED BY <1>2, EmptyStack, SameShape, QuietAside

LEMMA CompactionsOwned ==
  ASSUME Typed, Typed', Owned, Compactions PROVE Owned'
<1>1. s \in CoordinatorState /\ Issued
  BY Known DEF Typed, Inv
<1> DEFINE Aside ==
      /\ SameOwner(s, s') /\ CanCall
      /\ issued'.turn = issued.turn /\ issued'.op = issued.op
      /\ UNCHANGED <<stack, prepared, aborted, settlements, leases, policies,
                     producer, home, engine, outcome, foreign>>
<1>2. Aside
  <2>1. CASE BeginCompactionObservation
    BY <1>1, <2>1, UntouchedViews, QuietShape
       DEF BeginCompactionObservation, Quiet, resources, session, Untouched,
           Issued
  <2>2. CASE AbandonCompaction
    BY <1>1, <2>2, UntouchedViews, QuietShape
       DEF AbandonCompaction, Quiet, Inert, resources, session, Untouched
  <2>3. ASSUME NEW id, RecordCompactionSummary(id) PROVE Aside
    BY <1>1, <2>3, UntouchedViews, QuietShape
       DEF RecordCompactionSummary, Quiet, Inert, resources, session, Untouched
  <2>4. ASSUME NEW k, FinishCompactionObservation(k) PROVE Aside
    BY <1>1, <2>4, UntouchedViews
       DEF FinishCompactionObservation, resources, session, Untouched
  <2>5. ASSUME NEW k, NEW g, SetCompactionStage(k, g) PROVE Aside
    BY <1>1, <2>5, UntouchedViews, QuietShape
       DEF SetCompactionStage, Quiet, Inert, resources, session, Untouched
  <2> QED BY <2>1, <2>2, <2>3, <2>4, <2>5 DEF Compactions
<1> QED BY <1>2, SameShape, QuietAside

-----------------------------------------------------------------------------
(* Shutdown, disposal and the close of the scope.                          *)

LEMMA DisposeOwned ==
  ASSUME Typed, Typed', Owned, DisposeSession PROVE Owned'
<1> USE DEF Owned
<1> DEFINE u == Shutdown(s).s
           r == Dispose(u)
<1>1. /\ CanCall /\ s.life # "disposed"
      /\ DispatchFrom(r, prepared, {}, {}, "dispose", None)
      /\ UNCHANGED <<aborted, settlements, leases, policies, issued, producer,
                     home, engine, outcome, foreign>>
  BY DEF DisposeSession, resources, session
<1>2. /\ s \in CoordinatorState /\ u \in CoordinatorState
      /\ u.life # "disposed" /\ u.turn = s.turn /\ u.op = s.op /\ Types
  BY <1>1, Known, ShutdownState, UntouchedViews DEF Untouched, SameOwner
<1> HIDE DEF u
<1>3. /\ r.s.life = "disposed" /\ r.s.phase = "idle" /\ r.s.turn = s.turn
      /\ r.s.observed = None /\ r.s.op = NoOperation
      /\ r.cmds # << >> /\ Head(r.cmds).do = "decisions"
      /\ \A c \in Elements(Tail(r.cmds)) :
            PoliteTo(s.op.id, c) \/ c.do = "dispose"
  BY <1>2, DisposeView DEF Settle, Do
<1>4. r.cmds \in Seq(Command) /\ PublishesIdle(r.cmds)
  BY <1>2, DisposeState
<1> HIDE DEF r
<1>5. /\ s' = r.s /\ Preempted' = Preempted /\ prepared' \in {prepared, None}
      /\ prepared = r.s.turn => prepared' = None
  BY <1>1, <1>2, <1>4, PlainDispatch
<1>6. /\ NextUp' = {Head(r.cmds)}
      /\ Buried' \subseteq Buried \cup Elements(Tail(r.cmds))
  BY <1>1, <1>2, <1>3, <1>4, DispatchShape
<1>7. /\ Disposed' /\ s'.phase = "idle" /\ s'.turn = s.turn
      /\ s'.observed = None /\ s'.op.id = None /\ prepared' = None
  BY <1>3, <1>5, NoOperationId DEF ClaimInv, ControllerFollowsClaim, Disposed
<1>8. FrameInv'
  <2>1. Onward
    BY <1>1, <1>7, Known DEF Onward
  <2>2. /\ \A c \in Buried' : \/ c \in Buried \/ PoliteTo(s.op.id, c)
                              \/ c.do = "dispose" /\ Disposed'
        /\ \A c \in NextUp' : c.do = "decisions"
    BY <1>3, <1>6, <1>7
  <2> QED BY <1>7, <2>1, <2>2, FrameStep
<1>9. PhaseInv' /\ ClaimInv' /\ StreamInv' /\ SettleInv'
  <2>1. PhaseInv'
    BY <1>1, <1>7, Known DEF PhaseInv, None
  <2>2. ClaimInv'
    BY <1>7 DEF ClaimInv, ControllerFollowsClaim
  <2>3. StreamInv' /\ SettleInv'
    BY <1>1, <1>7 DEF StreamInv, SettleInv
  <2> QED BY <2>1, <2>2, <2>3
<1>10. OperationsInv'
  BY <1>1, <1>7, MessageIds
     DEF OperationsInv, ProducerInv, StartInv, CurrentInv
<1> QED BY <1>8, <1>9, <1>10

LEMMA ClosingOwned ==
  ASSUME Typed, Typed', Owned, Closing \/ Close PROVE Owned'
<1>1. s \in CoordinatorState
  BY Known
<1>2. CASE BeginShutdown \/ Drain \/ Close
  <2>1. /\ SameOwner(s, s') /\ CanCall
        /\ UNCHANGED <<stack, prepared, aborted, settlements, leases, policies,
                       issued, producer, home, engine, outcome, foreign>>
    <3>1. CASE BeginShutdown
      BY <1>1, <3>1, UntouchedViews
         DEF BeginShutdown, resources, session, Untouched
    <3>2. CASE Drain
      BY <1>1, <3>2, QuietViews DEF Drain, registries, resources, session
    <3>3. CASE Close
      BY <1>1, <3>3, QuietViews, EmptyStack DEF Close, resources, session
    <3> QED BY <1>2, <3>1, <3>2, <3>3
  <2> QED BY <2>1, SameShape, QuietAside
<1> QED BY <1>2, DisposeOwned DEF Closing

-----------------------------------------------------------------------------
LEMMA InitOwned == ASSUME Init PROVE Owned
<1>1. /\ s.life = "open" /\ s.phase = "idle" /\ s.turn = 1
      /\ s.observed = None /\ s.op = NoOperation
  BY DEF Init, InitialState
<1>2. PhaseInv
  BY <1>1, NoOperationId DEF Init, PhaseInv, Disposed
<1>3. Preempted = {} /\ NextUp = {} /\ Buried = {}
  BY DEF Init, Preempted, NextUp, Buried
<1>4. ClaimInv /\ FrameInv
  BY <1>1, <1>3 DEF Init, ClaimInv, FrameInv, ControllerFollowsClaim, Disposed
<1>5. OperationsInv
  <2>1. ASSUME NEW o \in Ops
        PROVE  ProducerInv(o) /\ StartInv(o) /\ CurrentInv(o)
    <3>1. o > issued.op /\ producer[o] = "none" /\ engine[o] = "off"
          /\ outcome[o] = "none"
      BY DEF Init, Ops
    <3>2. s.op.id # o
      BY <1>1, NoOperationId, MessageIds
    <3> QED BY <3>1, <3>2 DEF ProducerInv, StartInv, CurrentInv
  <2> QED BY <2>1 DEF OperationsInv
<1>6. StreamInv /\ SettleInv
  BY <1>1 DEF Init, StreamInv, SettleInv
<1> QED BY <1>2, <1>4, <1>5, <1>6 DEF Owned

LEMMA NextOwned == ASSUME Typed, Typed', Owned, Next PROVE Owned'
BY RunOwned, ClaimsOwned, RegisterOwned, OperationsOwned, CompletionsOwned,
   SyntheticAbortOwned, ForeignEndsOwned, ObserveReplayOwned, HoldsOwned,
   DecisionsOwned, CompactionsOwned, ClosingOwned
DEF Next

LEMMA StutterOwned ==
  ASSUME Typed, Typed', Owned, UNCHANGED vars PROVE Owned'
<1> USE DEF Owned
<1>1. UNCHANGED <<s, stack, prepared, aborted, settlements, leases, policies,
                  issued, producer, home, engine, outcome, foreign>>
  BY DEF vars, registries, resources, session
<1>2. NextUp' = NextUp /\ Buried' = Buried /\ Preempted' = Preempted
  BY <1>1, SameShape
<1>3. PhaseInv' /\ ClaimInv'
  BY <1>1, <1>2 DEF PhaseInv, ClaimInv, ControllerFollowsClaim, Dead, Disposed
<1>4. FrameInv'
  BY <1>1, <1>2 DEF FrameInv, Later, Launches, Disposed
<1>5. OperationsInv' /\ StreamInv' /\ SettleInv'
  BY <1>1, <1>2 DEF OperationsInv, ProducerInv, StartInv, CurrentInv,
     StreamInv, SettleInv, Live, Disposed
<1> QED BY <1>3, <1>4, <1>5

LEMMA OwnedInvariant == Spec => [](Typed /\ Owned)
<1>1. Init => Typed /\ Owned
  BY InitInv, InitRest, InitOwned DEF Typed
<1>2. Typed /\ Owned /\ [Next]_vars => Typed' /\ Owned'
  <2>1. ASSUME Typed, Owned, [Next]_vars PROVE Typed' /\ Owned'
    <3>1. Typed'
      BY <2>1, NextInv, StutterInv, NextRest, StutterRest DEF Typed
    <3> QED BY <2>1, <3>1, NextOwned, StutterOwned
  <2> QED BY <2>1
<1> QED BY <1>1, <1>2, PTL DEF Spec

(* The abort controller that the coordinator holds is that of the current, *)
(* unfinished turn, and is never one that an edit aborted: a stop reaches  *)
(* the start-up it is meant for (turnCoordinator.ts, preparation).         *)
THEOREM ControllerIsCurrent == Spec => []ControllerFollowsClaim
<1>1. Owned => ControllerFollowsClaim
  BY DEF Owned, ClaimInv
<1> QED BY <1>1, OwnedInvariant, PTL

(* A turn that an edit preempted, or a disposal aborted, never owns an     *)
(* operation again (turnCoordinator.ts, preemptPreparation).               *)
THEOREM AbortedTurnsStayDead == Spec => []AbortedStaysDead
<1>1. Typed /\ Owned => AbortedStaysDead
  <2>1. ASSUME Typed, Owned PROVE AbortedStaysDead
    <3>1. CASE Disposed
      BY <2>1, <3>1 DEF Owned, PhaseInv, AbortedStaysDead
    <3>2. CASE ~Disposed
      BY <2>1, <3>2 DEF Owned, ClaimInv, Dead, AbortedStaysDead
    <3> QED BY <3>1, <3>2
  <2> QED BY <2>1
<1> QED BY <1>1, OwnedInvariant, PTL

(* A settlement promise belongs to a producer that is still going to       *)
(* settle it, under a lease it holds, and the policy of the current        *)
(* operation keeps its own: a hard stop that joins it is neither early nor *)
(* left hanging (turnCoordinator.ts, settleOperation and the retire and    *)
(* dispose commands).                                                      *)
THEOREM SettlementsHaveOwners == Spec => []SettlementHasOwner
<1>1. Typed /\ Owned => SettlementHasOwner
  <2>1. ASSUME Typed, Owned PROVE SettlementHasOwner
    <3>1. ASSUME NEW o \in policies, IsCurrentOperation(s, o)
          PROVE  o \in settlements
      BY <2>1, <3>1 DEF Owned, SettleInv, OperationsInv, CurrentInv,
                        IsCurrentOperation
    <3> QED BY <2>1, <3>1 DEF Owned, SettleInv, SettlementHasOwner
  <2> QED BY <2>1
<1> QED BY <1>1, OwnedInvariant, PTL

(* A session shows a stream only while one runs or the completion of the   *)
(* operation that started it is still to come (turnCoordinator.ts, the     *)
(* stream-started, raw-terminal and observed-stream events).               *)
THEOREM StreamsAreReal == Spec => []StreamingIsReal
<1>1. Owned => StreamingIsReal
  BY DEF Owned, StreamInv, StreamingIsReal
<1> QED BY <1>1, OwnedInvariant, PTL

-----------------------------------------------------------------------------
(* Who ends a preparation.                                                 *)

Gone == s.phase = "preparing" /\ s'.phase = "idle" /\ s'.life = "open"

Rightly ==
  \/ owner[s.turn] # "done" /\ owner'[s.turn] = "done"
  \/ Top'.then = "preempt" /\ Top'.id = s.turn

LEMMA ClaimsRelease ==
  ASSUME Typed, Typed', Owned, Claims, Gone PROVE Rightly
<1>1. /\ s \in CoordinatorState /\ SessionTypes /\ issued.turn \in Nat
      /\ s.turn \in Nat /\ stack \in Seq(Frames)
  BY Known DEF Types
<1>2. ASSUME NEW i, NEW x, NEW e, NEW c, PrepareFresh(i, x, e, c) PROVE FALSE
  <2> DEFINE id  == issued.turn + 1
             req == [kind |-> "fresh", intent |-> i, expected |-> x,
                     edit |-> e]
             r   == Prepare(s, id, req)
  <2>1. Admits(s, req) /\ s' = r.s
    BY <1>2 DEF PrepareFresh, Dispatch, DispatchFrom
  <2>2. req.kind # "adopt" /\ id \in Nat
    BY <1>1
  <2> HIDE DEF req, id
  <2>3. r.s.phase = "preparing"
    BY <1>1, <2>1, <2>2, PrepareView
  <2> QED BY <2>1, <2>3 DEF Gone
<1>3. ASSUME NEW t \in Turns, PrepareAdopt(t) PROVE FALSE
  <2>1. s' = Prepare(s, t, [kind |-> "adopt", intent |-> "direct",
                            expected |-> t, edit |-> None]).s
    BY <1>3 DEF PrepareAdopt, Dispatch, DispatchFrom
  <2>2. s' = s
    BY <2>1 DEF Prepare, Ignored, Result
  <2> QED BY <2>2 DEF Gone
<1>4. ASSUME NEW t \in Turns, FinishPreparation(t) PROVE Rightly
  <2> DEFINE r == Finish(s, t, TRUE)
  <2>1. /\ owner[t] \in {"claimed", "granted"}
        /\ owner' = [owner EXCEPT ![t] = "done"] /\ s' = r.s
    BY <1>4 DEF FinishPreparation, Dispatch, DispatchFrom
  <2>2. t \in Nat /\ TRUE \in BOOLEAN
    BY DEF Turns
  <2>3. r # Ignored(s) => s.turn = t
    BY <1>1, <2>2, FinishView
  <2>4. r # Ignored(s)
    <3>1. Ignored(s).s = s
      BY DEF Ignored, Result
    <3> HIDE DEF r
    <3> QED BY <2>1, <3>1 DEF Gone
  <2> HIDE DEF r
  <2>5. owner'[t] = "done"
    BY <1>1, <2>1 DEF SessionTypes
  <2> QED BY <2>1, <2>3, <2>4, <2>5 DEF Rightly
<1>5. CASE PreemptPreparation
  <2> DEFINE r == Preempt(s, prepared)
             out == (IF PublishesIdle(r.cmds) THEN idleWaiters ELSE {})
                      \cup (IF ~Busy(r.s) THEN unbusyWaiters ELSE {})
             gone == IF PublishesIdle(r.cmds) /\ None = r.s.turn THEN None
                     ELSE None
             f == Frame(r.cmds, out, gone, "preempt", prepared)
  <2>1. prepared = s.turn /\ stack' = Append(stack, f)
    BY <1>5 DEF PreemptPreparation, Dispatch, DispatchFrom
  <2>2. f.then = "preempt" /\ f.id = prepared
    BY DEF Frame
  <2> HIDE DEF f
  <2>3. Len(stack') = Len(stack) + 1 /\ stack'[Len(stack) + 1] = f
    BY <1>1, <2>1, LenProperties
  <2> QED BY <2>1, <2>2, <2>3 DEF Rightly, Top
<1>6. ASSUME NEW t, AcceptThinking(t) \/ ReleaseThinking PROVE FALSE
  BY <1>6 DEF AcceptThinking, ReleaseThinking, Gone
<1> QED BY <1>2, <1>3, <1>4, <1>5, <1>6 DEF Claims

(* No event of an operation ends a preparation: a stream that ends while   *)
(* its turn prepares is not the one that the session observes.             *)
LEMMA NotObserving ==
  ASSUME Owned, s.phase = "preparing", NEW m, m # None PROVE ~Observing(m)
BY DEF Owned, PhaseInv, Observing

LEMMA OperationsRelease ==
  ASSUME Typed, Owned, NEW o \in Ops, Operations(o), Gone PROVE FALSE
<1> DEFINE m == StreamMsg(o)
<1>1. s \in CoordinatorState /\ m \in Nat /\ m # None
  BY Known, MessageIds
<1>2. ~Observing(m)
  BY <1>1, NotObserving DEF Gone
<1>3. /\ SameOwner(s, Configure(s, o, TRUE).s)
      /\ SameOwner(s, Starting(s, o, StartupMsg(o)).s)
      /\ SameOwner(s, StartupAbort(s, StartupMsg(o)).s)
      /\ \A k, x, V : SameOwner(s, BeginDecision(s, k, x, V).s)
  BY <1>1, QuietViews, Zenon
<1>4. ASSUME SameOwner(s, s') PROVE FALSE
  BY <1>4 DEF SameOwner, Gone
<1>5. CASE \/ ConfigureOperation(o) \/ StreamStarting(o) \/ StartupAborts(o)
           \/ PreStartError(o)
  <2>1. CASE ConfigureOperation(o)
    BY <1>3, <1>4, <2>1, QuietShape DEF ConfigureOperation, Quiet
  <2>2. CASE StreamStarting(o)
    BY <1>3, <1>4, <2>2, QuietShape DEF StreamStarting, Quiet
  <2>3. CASE StartupAborts(o)
    BY <1>3, <1>4, <2>3, QuietShape DEF StartupAborts, Quiet
  <2>4. CASE PreStartError(o)
    BY <1>3, <1>4, <2>4, QuietShape DEF PreStartError, Quiet
  <2> QED BY <1>5, <2>1, <2>2, <2>3, <2>4
<1>6. CASE StartupFails(o) \/ DeliverHandle(o)
  BY <1>6 DEF StartupFails, DeliverHandle, Produce, Gone
<1>7. CASE StreamStarted(o)
  <2> DEFINE r == Started(s, m)
  <2>1. s' = r.s
    BY <1>7 DEF StreamStarted, Call, Dispatch, DispatchFrom
  <2>2. r.s.phase \in {s.phase, "streaming"}
    BY <1>1 DEF Started, Alive, Ignored, Result, CoordinatorState
  <2> QED BY <2>1, <2>2 DEF Gone
<1>8. ASSUME NEW kind \in {"completed", "aborted"}, StreamEnds(o, kind)
      PROVE  FALSE
  <2> DEFINE r == RawTerminal(s, kind, m)
  <2>1. s' = r.s
    BY <1>2, <1>8 DEF StreamEnds, Call, Dispatch, DispatchFrom
  <2>2. r.s.phase \in {s.phase, "completing"}
    BY <1>1, TerminalPrompt
  <2> QED BY <2>1, <2>2 DEF Gone
<1>9. CASE StreamFails(o)
  BY <1>2, <1>3, <1>4, <1>9, QuietShape DEF StreamFails, Quiet
<1> QED BY <1>5, <1>6, <1>7, <1>8, <1>9 DEF Operations

LEMMA CompletionsRelease ==
  ASSUME Typed, Owned, NEW o \in Ops, Completions(o), Gone PROVE FALSE
<1>1. s \in CoordinatorState /\ s.turn \in Nat
  BY Known
<1>2. ASSUME SameOwner(s, s') PROVE FALSE
  BY <1>2 DEF SameOwner, Gone
<1>3. CASE CompletionArrives(o)
  <2>1. CASE IsCurrentOperation(s, o)
    <3> DEFINE r == Completion(s, o, HandleMsg(o),
                               outcome[o] \in {"aborted", "cancelled"})
    <3>1. s' = r.s
      BY <1>3, <2>1 DEF CompletionArrives, Dispatch, DispatchFrom
    <3>2. r.s.phase = s.phase
      BY <1>1 DEF Completion, Alive, Ignored, Result, CoordinatorState
    <3> QED BY <3>1, <3>2 DEF Gone
  <2>2. CASE ~IsCurrentOperation(s, o)
    BY <1>1, <1>2, <1>3, <2>2, AnswerAllAside DEF CompletionArrives
  <2> QED BY <2>1, <2>2
<1>4. CASE PolicyReturns(o)
  BY <1>1, <1>2, <1>4, AnswerAllAside DEF PolicyReturns
<1>5. CASE HandlerClears(o) \/ FinishStartup(o)
  BY <1>5 DEF HandlerClears, FinishStartup, Gone
<1>6. CASE BeginPolicy(o)
  <2>1. s' = CompletePolicy(s, s.turn).s /\ s.life # "disposed"
    BY <1>6 DEF BeginPolicy, IsCurrentOperation, Call, Dispatch, DispatchFrom
  <2>2. s'.phase = "completing"
    BY <1>1, <2>1, CompletePolicyView DEF MovesTo
  <2> QED BY <2>2 DEF Gone
<1>7. CASE FinishTurn(o)
  BY <1>7 DEF FinishTurn, Gone
<1>8. ASSUME NEW k, NEW m, NEW v, ResolveVerdict(o, k, m, v) PROVE FALSE
  BY <1>1, <1>2, <1>8, QuietViews, QuietShape DEF ResolveVerdict, Quiet
<1> QED BY <1>3, <1>4, <1>5, <1>6, <1>7, <1>8 DEF Completions

LEMMA OthersRelease ==
  ASSUME Typed, Owned, Gone,
         \/ Run \/ \E t \in Turns : RegisterOperation(t)
         \/ SyntheticAbort \/ ForeignEnds
         \/ \E m \in Messages : ObserveReplay(m)
         \/ Holds \/ Decisions \/ Compactions \/ Closing \/ Close
  PROVE  FALSE
<1>1. s \in CoordinatorState /\ s.turn \in Nat /\ issued.op \in Nat
      /\ Ignored(s).s = s
  BY Known DEF Ignored, Result
<1>2. ASSUME SameOwner(s, s') PROVE FALSE
  BY <1>2 DEF SameOwner, Gone
<1>3. CASE Run
  BY <1>3 DEF Run, PublishPhase, RunDrain, ObserverReturns, RunRecordStart,
     RunRetire, RunDecisions, RunPolicy, RunDispose, Return, Gone
<1>4. ASSUME NEW t \in Turns, RegisterOperation(t) PROVE FALSE
  <2> DEFINE o == issued.op + 1
  <2>1. s' = Register(s, o, t).s /\ o \in Nat
    BY <1>1, <1>4, QuietShape DEF RegisterOperation
  <2>2. s'.phase = s.phase
    BY <1>1, <2>1, RegisterStill DEF Still
  <2> QED BY <2>2 DEF Gone
<1>5. CASE SyntheticAbort
  BY <1>1, <1>2, <1>5, QuietViews, QuietShape DEF SyntheticAbort, Quiet
<1>6. CASE ForeignEnds
  <2>1. ForeignMsg # None
    BY BoundsAssumption DEF ForeignMsg, None
  <2>2. ~Observing(ForeignMsg)
    BY <2>1, NotObserving DEF Gone
  <2> QED BY <1>1, <1>6, <2>2
          DEF ForeignEnds, Call, Dispatch, DispatchFrom, Gone
<1>7. ASSUME NEW m, ObserveReplay(m) PROVE FALSE
  <2>1. s' = ObserveStream(s, m).s
    BY <1>7 DEF ObserveReplay, Call, Dispatch, DispatchFrom
  <2>2. s'.phase \in {s.phase, "streaming"}
    BY <1>1, <2>1 DEF ObserveStream, Ignored, Result, CoordinatorState
  <2> QED BY <2>2 DEF Gone
<1>8. CASE Holds
  <2>1. ASSUME NEW k, MakeReservation(k) PROVE FALSE
    BY <1>1, <1>2, <2>1, UntouchedViews, QuietShape
       DEF MakeReservation, Quiet, Untouched
  <2>2. ASSUME NEW q, ReleaseReservation(q) PROVE FALSE
    <3>1. s' = Release(s, q.id, q.kind).s
      BY <2>2 DEF ReleaseReservation, Call, Dispatch, DispatchFrom
    <3> QED BY <1>1, <1>2, <3>1, ReleaseView
  <2>3. ASSUME NEW w, NEW k, CancelWait(w) \/ WaitFor(w, k) PROVE FALSE
    BY <2>3 DEF CancelWait, WaitFor, Gone
  <2>4. CASE BeginRetry
    BY <1>1, <1>2, <2>4, UntouchedViews, QuietShape
       DEF BeginRetry, Quiet, Untouched
  <2>5. ASSUME NEW id, FinishRetry(id) PROVE FALSE
    BY <1>1, <1>2, <2>5, UntouchedViews, QuietShape
       DEF FinishRetry, Quiet, Untouched
  <2> QED BY <1>8, <2>1, <2>2, <2>3, <2>4, <2>5 DEF Holds
<1>9. CASE Decisions
  <2>1. ASSUME NEW x, NEW m, ReadError(x, m) PROVE FALSE
    BY <2>1 DEF ReadError, Gone
  <2>2. ASSUME NEW x, NEW m, ReadCompaction(x, m) PROVE FALSE
    BY <1>1, <1>2, <2>2, QuietViews DEF ReadCompaction
  <2>3. ASSUME NEW x, ReaderReturns(x) PROVE FALSE
    BY <1>1, <1>2, <2>3, QuietViews DEF ReaderReturns
  <2> QED BY <1>9, <2>1, <2>2, <2>3 DEF Decisions
<1>10. CASE Compactions
  <2>1. CASE BeginCompactionObservation
    BY <1>1, <1>2, <2>1, UntouchedViews, QuietShape
       DEF BeginCompactionObservation, Quiet, Untouched
  <2>2. CASE AbandonCompaction
    BY <1>1, <1>2, <2>2, UntouchedViews, QuietShape
       DEF AbandonCompaction, Quiet, Untouched
  <2>3. ASSUME NEW id, RecordCompactionSummary(id) PROVE FALSE
    BY <1>1, <1>2, <2>3, UntouchedViews, QuietShape
       DEF RecordCompactionSummary, Quiet, Untouched
  <2>4. ASSUME NEW k, FinishCompactionObservation(k) PROVE FALSE
    BY <1>1, <1>2, <2>4, UntouchedViews
       DEF FinishCompactionObservation, Untouched
  <2>5. ASSUME NEW k, NEW g, SetCompactionStage(k, g) PROVE FALSE
    BY <1>1, <1>2, <2>5, UntouchedViews, QuietShape
       DEF SetCompactionStage, Quiet, Untouched
  <2> QED BY <1>10, <2>1, <2>2, <2>3, <2>4, <2>5 DEF Compactions
<1>11. CASE BeginShutdown
  BY <1>1, <1>2, <1>11, UntouchedViews DEF BeginShutdown, Untouched
<1>12. CASE DisposeSession
  <2>1. s.life # "disposed" /\ s' = Dispose(Shutdown(s).s).s
    BY <1>12 DEF DisposeSession, DispatchFrom
  <2>2. Shutdown(s).s \in CoordinatorState /\ Shutdown(s).s.life # "disposed"
    BY <1>1, <2>1, ShutdownState, UntouchedViews DEF Untouched, SameOwner
  <2>3. s'.life = "disposed"
    BY <2>1, <2>2, DisposeState
  <2> QED BY <2>3 DEF Gone
<1>13. CASE Drain \/ Close
  BY <1>13 DEF Drain, Close, Gone
<1> QED BY <1>3, <1>4, <1>5, <1>6, <1>7, <1>8, <1>9, <1>10, <1>11, <1>12,
           <1>13 DEF Closing

(* A preparing turn is released only by its own owner, once, or by the     *)
(* edit that preempts it: a late finishPreparation of a replaced owner, a  *)
(* terminal of an older stream and a completed policy leave it alone       *)
(* (turnCoordinator.ts, the release of prepare and preemptPreparation).    *)
THEOREM PreparationIsOwned == Spec => PreparationOwned
<1>1. ASSUME Typed, Typed', Owned, Next, Gone PROVE Rightly
  BY <1>1, ClaimsRelease, OperationsRelease, CompletionsRelease, OthersRelease
     DEF Next
<1>2. Typed /\ Owned /\ Typed' /\ [Next]_vars =>
        [s.phase = "preparing" /\ s'.phase = "idle" /\ s'.life = "open" =>
           \/ owner[s.turn] # "done" /\ owner'[s.turn] = "done"
           \/ Top'.then = "preempt" /\ Top'.id = s.turn]_vars
  BY <1>1 DEF Gone, Rightly
<1> QED BY <1>2, OwnedInvariant, PTL DEF Spec, PreparationOwned

-----------------------------------------------------------------------------
(* Decisions: a second layer of the invariant, on top of Owned.            *)

(* The decisions that the command up next is about to settle.              *)
Settles == UNION {c.decisions : c \in {b \in NextUp : b.do = "decisions"}}

Pending(D) == {d \in D : d.outcome = "pending"}

(* A command up next finds the state that its event left: the policy's     *)
(* operation is current, and decisions are the state's own, pending ones,  *)
(* or their fallbacks once the session is disposed.                        *)
PromptInv ==
  \A c \in NextUp :
    /\ c.do = "policy" => IsCurrentOperation(s, c.id)
    /\ c.do = "decisions" =>
         /\ c.decisions \subseteq s.decisions
         /\ IF Disposed THEN Pending(c.decisions) = {}
            ELSE Resolved(c.decisions) = {}

(* What the current operation knows of its stream.                         *)
MessageInv ==
  \A o \in Ops : s.op.id = o =>
    /\ s.op.msg \in {None, StreamMsg(o), StartupMsg(o)}
    /\ s.op.startup \in {None, StartupMsg(o)}
    /\ engine[o] \in {"off", "handed"} =>
         s.op.stage = "registered" /\ s.op.msg = None
    /\ \/ engine[o] = "live"
       \/ outcome[o] \in {"completed", "aborted", "failed"}
       => s.op.msg = StreamMsg(o)

(* The producer that answers a pending decision: a start-up that has       *)
(* reported an error, or whoever consumes the end of the stream.           *)
Resolver(d, o) ==
  \/ /\ d.kind = "error" /\ d.msg = StartupMsg(o) /\ engine[o] # "live"
     /\ producer[o] \in {"starting", "failing"} /\ outcome[o] = "none"
  \/ /\ d.msg = StreamMsg(o)
     /\ producer[o] \notin {"none", "finishing", "done"}
     /\ outcome[o] = "completed" \/ (outcome[o] = "failed" /\ d.kind = "error")

(* The completed streams about which nobody can open a compaction decision *)
(* any more.                                                               *)
SpentBy(o) ==
  /\ outcome[o] = "completed"
  /\ \/ Disposed \/ s.op.id # o \/ ~s.op.compaction
     \/ producer[o] \in {"handled", "finishing", "done"}

Spent == {StreamMsg(o) : o \in {p \in Ops : SpentBy(p)}}

PendingFor(k) == [kind |-> k[1], msg |-> k[2], outcome |-> "pending"]

(* A pending decision has its resolver, and its promise unless it is about *)
(* to get it; a promise has its pending decision, or disposal is about to  *)
(* answer it; and a compaction decision is not opened twice.               *)
DecisionInv ==
  /\ \A d, e \in s.decisions : KeyOf(d) = KeyOf(e) => d = e
  /\ \A d \in Pending(s.decisions) :
       /\ ~Disposed /\ \E o \in Ops : Resolver(d, o)
       /\ KeyOf(d) \in promises \/ d \in Settles
  /\ \A d \in Resolved(s.decisions) : d.kind = "compaction" => d.msg \in Spent
  /\ \A k \in promises :
       IF Disposed THEN \E d \in Settles : KeyOf(d) = k
       ELSE PendingFor(k) \in s.decisions

(* A reader waits for a promise; what it has been told stays told.         *)
ReaderInv ==
  \A x \in Readers :
    /\ reading[x].st # "orphaned"
    /\ reading[x].st = "waiting" => ReaderKey(reading[x]) \in promises
    /\ reading[x].st = "answered" /\ reading[x].kind = "compaction" =>
         /\ reading[x].msg \in Spent
         /\ PendingFor(ReaderKey(reading[x])) \notin s.decisions

Answered == PromptInv /\ MessageInv /\ DecisionInv /\ ReaderInv

-----------------------------------------------------------------------------
(* The registry of decisions under the events that change it.              *)

LEMMA MessagesDiffer ==
  ASSUME NEW o \in Ops, NEW p \in Ops
  PROVE  /\ StreamMsg(o) # StartupMsg(p)
         /\ StreamMsg(o) = StreamMsg(p) => o = p
         /\ StartupMsg(o) = StartupMsg(p) => o = p
BY DEF Ops, StreamMsg, StartupMsg

(* A key and its pending decision.                                         *)
LEMMA PendingKeys ==
  ASSUME NEW k \in Keys
  PROVE  /\ KeyOf(PendingFor(k)) = k /\ PendingFor(k).outcome = "pending"
         /\ PendingFor(k).kind = k[1] /\ PendingFor(k).msg = k[2]
BY DEF Keys, KeyOf, PendingFor

LEMMA PendingOfKey ==
  ASSUME NEW d \in Decision, d.outcome = "pending"
  PROVE  PendingFor(KeyOf(d)) = d /\ KeyOf(d) \in Keys
<1> DEFINE e == PendingFor(KeyOf(d))
<1>1. e = [kind |-> d.kind, msg |-> d.msg, outcome |-> "pending"]
  BY DEF PendingFor, KeyOf
<1>2. d = [kind |-> d.kind, msg |-> d.msg, outcome |-> d.outcome]
  BY DEF Decision
<1>3. KeyOf(d) \in Keys
  BY DEF KeyOf, Decision, Keys
<1> QED BY <1>1, <1>2, <1>3

LEMMA RecoveryKnown ==
  ASSUME Typed
  PROVE  /\ promises \subseteq Keys /\ reading \in [Readers -> Readings]
         /\ s.decisions \subseteq Decision /\ s \in CoordinatorState
BY DEF Typed, Rest, RecoveryTypes, Inv, Core, Types, CoordinatorState

LEMMA RecoveryKnownNext ==
  ASSUME Typed'
  PROVE  /\ promises' \subseteq Keys /\ reading' \in [Readers -> Readings]
         /\ s'.decisions \subseteq Decision /\ s' \in CoordinatorState
BY DEF Typed, Rest, RecoveryTypes, Inv, Core, Types, CoordinatorState

LEMMA ReaderKeys ==
  ASSUME NEW rd \in Readings
  PROVE  /\ ReaderKey(rd) \in Keys /\ ReaderKey(rd)[1] = rd.kind
         /\ ReaderKey(rd)[2] = rd.msg
BY DEF Readings, ReaderKey, Keys

(* When no settlement is under way, the promises are those of the pending  *)
(* decisions, and a disposed session has none.                             *)
LEMMA PromisesArePending ==
  ASSUME Typed, DecisionInv, Settles = {}
  PROVE  /\ \A k \in promises : ~Disposed /\ PendingFor(k) \in s.decisions
                                /\ k \in {KeyOf(d) : d \in s.decisions}
         /\ \A d \in Pending(s.decisions) : KeyOf(d) \in promises
<1>1. \A k \in promises : ~Disposed /\ PendingFor(k) \in s.decisions
  BY DEF DecisionInv
<1>2. \A k \in promises : KeyOf(PendingFor(k)) = k
  BY RecoveryKnown, PendingKeys
<1>3. \A d \in Pending(s.decisions) : KeyOf(d) \in promises
  BY DEF DecisionInv
<1> QED BY <1>1, <1>2, <1>3

(* A settlement that is waited for and still kept leaves its reader alone. *)
LEMMA ReadKeeps ==
  ASSUME NEW rd, NEW D, NEW kept, NEW x \in Readers,
         rd[x].st = "waiting" => ReaderKey(rd[x]) \in kept
  PROVE  Read(rd, D, kept)[x] = rd[x]
BY DEF Read

(* What stays true of a spent stream and of the producer that answers.     *)
SpentKept == Spent \subseteq Spent'

AnswererKept(D) ==
  \A d \in D : (\E o \in Ops : Resolver(d, o)) => \E o \in Ops : Resolver(d, o)'

(* Nothing happens to the registry.                                        *)
LEMMA KeptDecisions ==
  ASSUME DecisionInv, s'.decisions = s.decisions, promises' = promises,
         Settles' = Settles, Disposed' <=> Disposed,
         SpentKept, AnswererKept(Pending(s.decisions))
  PROVE  DecisionInv'
<1>1. Pending(s'.decisions) = Pending(s.decisions)
      /\ Resolved(s'.decisions) = Resolved(s.decisions)
  BY DEF Pending, Resolved
<1>2. \A d, e \in s'.decisions : KeyOf(d) = KeyOf(e) => d = e
  BY DEF DecisionInv
<1>3. ASSUME NEW d \in Pending(s'.decisions)
      PROVE  /\ ~Disposed' /\ \E o \in Ops : Resolver(d, o)'
             /\ KeyOf(d) \in promises' \/ d \in Settles'
  BY <1>1 DEF DecisionInv, AnswererKept
<1>4. \A d \in Resolved(s'.decisions) :
         d.kind = "compaction" => d.msg \in Spent'
  BY <1>1 DEF DecisionInv, SpentKept
<1>5. \A k \in promises' :
         IF Disposed' THEN \E d \in Settles' : KeyOf(d) = k
         ELSE PendingFor(k) \in s'.decisions
  BY DEF DecisionInv
<1> QED BY <1>2, <1>3, <1>4, <1>5 DEF DecisionInv

LEMMA KeptStep ==
  ASSUME DecisionInv, ReaderInv, s'.decisions = s.decisions,
         promises' = promises, \A x \in Readers : reading'[x] = reading[x],
         Settles' = Settles, Disposed' <=> Disposed,
         SpentKept, AnswererKept(Pending(s.decisions))
  PROVE  DecisionInv' /\ ReaderInv'
<1>1. DecisionInv'
  BY KeptDecisions
<1>2. ReaderInv'
  <2> SUFFICES ASSUME NEW x \in Readers
               PROVE  /\ reading'[x].st # "orphaned"
                      /\ reading'[x].st = "waiting" =>
                            ReaderKey(reading'[x]) \in promises'
                      /\ reading'[x].st = "answered"
                            /\ reading'[x].kind = "compaction" =>
                           /\ reading'[x].msg \in Spent'
                           /\ PendingFor(ReaderKey(reading'[x]))
                                \notin s'.decisions
    BY DEF ReaderInv
  <2>1. reading'[x] = reading[x]
    OBVIOUS
  <2> QED BY <2>1 DEF ReaderInv, SpentKept
<1> QED BY <1>1, <1>2

(* The tail of a dispatch finds the registry as its commands left it.      *)
LEMMA NothingSettled ==
  ASSUME Typed, DecisionInv, ReaderInv, Settles = {}, NEW t,
         t.decisions = s.decisions, NEW kept, kept = Settled({}, t)
  PROVE  /\ kept = promises
         /\ \A x \in Readers : Read(reading, {}, kept)[x] = reading[x]
<1>1. kept = promises
  <2>1. \A k \in promises : k \in {KeyOf(d) : d \in s.decisions}
    BY PromisesArePending
  <2> QED BY <2>1 DEF Settled, Resolved
<1>2. ASSUME NEW x \in Readers
      PROVE  reading[x].st = "waiting" => ReaderKey(reading[x]) \in promises
  BY DEF ReaderInv
<1> QED BY <1>1, <1>2, ReadKeeps

(* A pending decision is opened, at once or by the command up next.        *)
LEMMA OpenStep ==
  ASSUME Typed, DecisionInv, ReaderInv, Settles = {}, ~Disposed, ~Disposed',
         NEW d \in Decision, d.outcome = "pending",
         \A e \in s.decisions : KeyOf(e) # KeyOf(d),
         NEW V \in SUBSET Resolved(s.decisions),
         s'.decisions = (s.decisions \ V) \cup {d},
         \/ promises' = promises \cup {KeyOf(d)} /\ Settles' = {}
         \/ promises' = promises /\ Settles' = {d},
         \A x \in Readers :
            \/ reading'[x] = reading[x]
            \/ /\ reading'[x].st = "waiting"
               /\ ReaderKey(reading'[x]) \in promises',
         \E o \in Ops : Resolver(d, o)',
         d.kind = "compaction" => d.msg \notin Spent,
         SpentKept, AnswererKept(Pending(s.decisions))
  PROVE  DecisionInv' /\ ReaderInv'
<1>1. /\ Pending(s'.decisions) \subseteq Pending(s.decisions) \cup {d}
      /\ Resolved(s'.decisions) \subseteq Resolved(s.decisions)
      /\ Pending(s.decisions) \subseteq s'.decisions
  BY DEF Pending, Resolved
<1>2. PendingFor(KeyOf(d)) = d
  BY PendingOfKey
<1>3. DecisionInv'
  <2>1. \A a, b \in s'.decisions : KeyOf(a) = KeyOf(b) => a = b
    BY DEF DecisionInv
  <2>2. ASSUME NEW a \in Pending(s'.decisions)
        PROVE  /\ ~Disposed' /\ \E o \in Ops : Resolver(a, o)'
               /\ KeyOf(a) \in promises' \/ a \in Settles'
    <3>1. CASE a = d
      BY <3>1
    <3>2. CASE a # d
      <4>1. a \in Pending(s.decisions) /\ KeyOf(a) \in promises
        BY <1>1, <3>2, PromisesArePending
      <4>2. \E o \in Ops : Resolver(a, o)
        BY <4>1 DEF DecisionInv
      <4> QED BY <4>1, <4>2 DEF AnswererKept
    <3> QED BY <3>1, <3>2
  <2>3. \A a \in Resolved(s'.decisions) :
           a.kind = "compaction" => a.msg \in Spent'
    BY <1>1 DEF DecisionInv, SpentKept
  <2>4. \A k \in promises' :
           IF Disposed' THEN \E a \in Settles' : KeyOf(a) = k
           ELSE PendingFor(k) \in s'.decisions
    <3>1. ASSUME NEW k \in promises PROVE PendingFor(k) \in s'.decisions
      <4>1. PendingFor(k) \in s.decisions
        BY PromisesArePending
      <4>2. PendingFor(k).outcome = "pending"
        BY DEF PendingFor
      <4> QED BY <1>1, <4>1, <4>2 DEF Pending
    <3>2. PendingFor(KeyOf(d)) \in s'.decisions
      BY <1>2
    <3> QED BY <1>2, <3>1
  <2> QED BY <2>1, <2>2, <2>3, <2>4 DEF DecisionInv
<1>4. ReaderInv'
  <2> SUFFICES ASSUME NEW x \in Readers
               PROVE  /\ reading'[x].st # "orphaned"
                      /\ reading'[x].st = "waiting" =>
                            ReaderKey(reading'[x]) \in promises'
                      /\ reading'[x].st = "answered"
                            /\ reading'[x].kind = "compaction" =>
                           /\ reading'[x].msg \in Spent'
                           /\ PendingFor(ReaderKey(reading'[x]))
                                \notin s'.decisions
    BY DEF ReaderInv
  <2>1. CASE reading'[x] = reading[x]
    <3>1. /\ reading[x].st # "orphaned"
          /\ reading[x].st = "waiting" => ReaderKey(reading[x]) \in promises'
      BY DEF ReaderInv
    <3>2. ASSUME reading[x].st = "answered", reading[x].kind = "compaction"
          PROVE  /\ reading[x].msg \in Spent'
                 /\ PendingFor(ReaderKey(reading[x])) \notin s'.decisions
      <4>1. /\ reading[x].msg \in Spent
            /\ PendingFor(ReaderKey(reading[x])) \notin s.decisions
        BY <3>2 DEF ReaderInv
      <4>2. PendingFor(ReaderKey(reading[x])) # d
        <5>1. reading[x] \in Readings
          BY RecoveryKnown
        <5>2. ReaderKey(reading[x]) \in Keys
              /\ ReaderKey(reading[x])[1] = "compaction"
              /\ ReaderKey(reading[x])[2] = reading[x].msg
          BY <3>2, <5>1, ReaderKeys
        <5>3. /\ PendingFor(ReaderKey(reading[x])).kind = "compaction"
              /\ PendingFor(ReaderKey(reading[x])).msg = reading[x].msg
          BY <5>2, PendingKeys
        <5> QED BY <4>1, <5>3
      <4> QED BY <4>1, <4>2 DEF SpentKept
    <3> QED BY <2>1, <3>1, <3>2
  <2>2. CASE /\ reading'[x].st = "waiting"
             /\ ReaderKey(reading'[x]) \in promises'
    BY <2>2
  <2> QED BY <2>1, <2>2
<1> QED BY <1>3, <1>4

(* The pending decisions P are answered by D.                              *)
LEMMA AnswerStep ==
  ASSUME Typed, Typed', DecisionInv, ReaderInv, Settles = {}, Settles' = {},
         Disposed' <=> Disposed,
         NEW P \in SUBSET Pending(s.decisions), NEW D,
         s'.decisions = (s.decisions \ P) \cup D,
         \A e \in D : e.outcome # "pending"
                      /\ \E d \in P : KeyOf(e) = KeyOf(d),
         \A d \in P : \E e \in D : KeyOf(e) = KeyOf(d),
         \A d, e \in D : KeyOf(d) = KeyOf(e) => d = e,
         promises' = Settled(D, s'), reading' = Read(reading, D, promises'),
         SpentKept, AnswererKept(Pending(s.decisions) \ P),
         \A d \in P : d.kind = "compaction" => d.msg \in Spent'
  PROVE  DecisionInv' /\ ReaderInv'
<1> DEFINE K == {KeyOf(d) : d \in P}
<1>1. Resolved(D) = D /\ D \ Resolved(D) = {}
  BY DEF Resolved
<1>2. {KeyOf(e) : e \in D} = K
  OBVIOUS
<1>3. /\ Pending(s'.decisions) = Pending(s.decisions) \ P
      /\ Resolved(s'.decisions) = Resolved(s.decisions) \cup D
      /\ \A d \in P : d.outcome = "pending" /\ d \in s.decisions
  BY DEF Pending, Resolved
<1>4. \A d \in Pending(s'.decisions) :
         KeyOf(d) \in promises /\ KeyOf(d) \notin K
  <2> TAKE d \in Pending(s'.decisions)
  <2>1. d \in Pending(s.decisions) /\ d \in s.decisions /\ d \notin P
    BY <1>3 DEF Pending
  <2>2. ASSUME NEW e \in P PROVE KeyOf(d) # KeyOf(e)
    BY <1>3, <2>1 DEF DecisionInv
  <2> QED BY <2>1, <2>2, PromisesArePending
<1>5. \A k \in promises \ K : PendingFor(k) \in Pending(s'.decisions)
  <2> SUFFICES ASSUME NEW k \in promises, k \notin K
               PROVE  PendingFor(k) \in Pending(s'.decisions)
    OBVIOUS
  <2>1. k \in Keys /\ PendingFor(k) \in s.decisions
    BY RecoveryKnown, PromisesArePending
  <2>2. KeyOf(PendingFor(k)) = k /\ PendingFor(k).outcome = "pending"
    BY <2>1, PendingKeys
  <2> QED BY <1>3, <2>1, <2>2 DEF Pending
<1>6. promises' = promises \ K
  <2>1. promises' = (promises \ K) \cap {KeyOf(d) : d \in s'.decisions}
    BY <1>1, <1>2 DEF Settled
  <2>2. ASSUME NEW k \in promises \ K
        PROVE  k \in {KeyOf(d) : d \in s'.decisions}
    <3>1. PendingFor(k) \in s'.decisions
      BY <1>5 DEF Pending
    <3>2. KeyOf(PendingFor(k)) = k
      BY RecoveryKnown, PendingKeys
    <3> QED BY <3>1, <3>2
  <2> QED BY <2>1, <2>2
<1>7. ASSUME NEW d \in D
      PROVE  d.kind = "compaction" => d.msg \in Spent'
  <2>1. PICK e \in P : KeyOf(d) = KeyOf(e)
    OBVIOUS
  <2>2. d.kind = e.kind /\ d.msg = e.msg
    BY <2>1 DEF KeyOf
  <2> QED BY <2>2
<1> HIDE DEF K
<1>8. DecisionInv'
  <2>1. \A a, b \in s'.decisions : KeyOf(a) = KeyOf(b) => a = b
    <3>1. ASSUME NEW a \in s.decisions \ P, NEW b \in D, KeyOf(a) = KeyOf(b)
          PROVE  FALSE
      BY <1>3, <3>1 DEF DecisionInv
    <3> QED BY <3>1 DEF DecisionInv
  <2>2. ASSUME NEW a \in Pending(s'.decisions)
        PROVE  /\ ~Disposed' /\ \E o \in Ops : Resolver(a, o)'
               /\ KeyOf(a) \in promises'
    BY <1>3, <1>4, <1>6 DEF DecisionInv, AnswererKept
  <2>3. \A a \in Resolved(s'.decisions) :
           a.kind = "compaction" => a.msg \in Spent'
    BY <1>3, <1>7 DEF DecisionInv, SpentKept
  <2>4. \A k \in promises' : ~Disposed' /\ PendingFor(k) \in s'.decisions
    <3>1. \A k \in promises : ~Disposed
      BY PromisesArePending
    <3> QED BY <1>5, <1>6, <3>1 DEF Pending
  <2> QED BY <2>1, <2>2, <2>3, <2>4 DEF DecisionInv
<1>9. ReaderInv'
  <2> SUFFICES ASSUME NEW x \in Readers
               PROVE  /\ reading'[x].st # "orphaned"
                      /\ reading'[x].st = "waiting" =>
                            ReaderKey(reading'[x]) \in promises'
                      /\ reading'[x].st = "answered"
                            /\ reading'[x].kind = "compaction" =>
                           /\ reading'[x].msg \in Spent'
                           /\ PendingFor(ReaderKey(reading'[x]))
                                \notin s'.decisions
    BY DEF ReaderInv
  <2> DEFINE k == ReaderKey(reading[x])
  <2>1. /\ reading[x] \in Readings /\ k \in Keys
        /\ k[1] = reading[x].kind /\ k[2] = reading[x].msg
    BY RecoveryKnown, ReaderKeys
  <2>2. CASE reading[x].st = "waiting" /\ k \notin promises'
    <3>1. k \in promises /\ k \in K
      BY <1>6, <2>2 DEF ReaderInv
    <3>2. reading'[x] = [reading[x] EXCEPT !.st = "answered"]
      BY <1>1, <1>2, <2>2, <3>1 DEF Read
    <3>3. /\ reading'[x].st = "answered" /\ reading'[x].kind = reading[x].kind
          /\ reading'[x].msg = reading[x].msg /\ ReaderKey(reading'[x]) = k
      BY <2>1, <3>2 DEF Readings, ReaderKey
    <3>4. PICK d \in P : KeyOf(d) = k
      BY <3>1 DEF K
    <3>5. d.kind = reading[x].kind /\ d.msg = reading[x].msg
      BY <2>1, <3>4 DEF KeyOf, ReaderKey
    <3>6. PendingFor(k) \notin s'.decisions
      <4>1. KeyOf(PendingFor(k)) = k /\ PendingFor(k).outcome = "pending"
        BY <2>1, PendingKeys
      <4> QED BY <1>4, <3>1, <4>1 DEF Pending
    <3> QED BY <3>3, <3>5, <3>6
  <2>3. CASE ~(reading[x].st = "waiting" /\ k \notin promises')
    <3>1. reading'[x] = reading[x]
      BY <2>3 DEF Read
    <3>2. reading[x].st = "answered" /\ reading[x].kind = "compaction" =>
            /\ reading[x].msg \in Spent'
            /\ PendingFor(k) \notin s'.decisions
      <4>1. PendingFor(k).outcome = "pending"
        BY <2>1, PendingKeys
      <4> QED BY <4>1 DEF ReaderInv, SpentKept
    <3> QED BY <2>3, <3>1, <3>2 DEF ReaderInv
  <2> QED BY <2>2, <2>3
<1> QED BY <1>8, <1>9

(* A reader that was told the outcome of a compaction forgets it.          *)
LEMMA ForgetStep ==
  ASSUME Typed, Typed', DecisionInv, ReaderInv, Settles = {}, Settles' = {},
         Disposed' <=> Disposed, NEW x \in Readers, NEW F,
         reading[x].st = "answered",
         s'.decisions = s.decisions \ F,
         \A d \in F : /\ reading[x].kind = "compaction"
                      /\ KeyOf(d) = ReaderKey(reading[x]),
         promises' = Settled({}, s'),
         reading' = Read([reading EXCEPT ![x] = [@ EXCEPT !.st = "off"]], {},
                         promises'),
         SpentKept, AnswererKept(Pending(s.decisions))
  PROVE  DecisionInv' /\ ReaderInv'
<1> DEFINE off == [reading EXCEPT ![x] = [@ EXCEPT !.st = "off"]]
<1>1. Pending(s'.decisions) = Pending(s.decisions)
  <2>1. ASSUME NEW d \in F, d \in Pending(s.decisions) PROVE FALSE
    <3>1. d \in Decision /\ d.outcome = "pending" /\ d \in s.decisions
      BY <2>1, RecoveryKnown DEF Pending
    <3>2. PendingFor(KeyOf(d)) = d
      BY <3>1, PendingOfKey
    <3> QED BY <3>1, <3>2 DEF ReaderInv
  <2> QED BY <2>1 DEF Pending
<1>2. Resolved(s'.decisions) \subseteq Resolved(s.decisions)
  BY DEF Resolved
<1>3. \A k \in promises : /\ ~Disposed /\ k \in Keys
                          /\ PendingFor(k) \in Pending(s.decisions)
  <2> TAKE k \in promises
  <2>1. k \in Keys
    BY RecoveryKnown
  <2> QED BY <2>1, PromisesArePending, PendingKeys DEF Pending
<1>4. promises' = promises
  <2>1. promises' = promises \cap {KeyOf(d) : d \in s'.decisions}
    BY DEF Settled, Resolved
  <2>2. ASSUME NEW k \in promises
        PROVE  k \in {KeyOf(d) : d \in s'.decisions}
    <3>1. PendingFor(k) \in s'.decisions /\ KeyOf(PendingFor(k)) = k
      BY <1>1, <1>3, PendingKeys DEF Pending
    <3> QED BY <3>1
  <2> QED BY <2>1, <2>2
<1>5. DecisionInv'
  <2>1. \A a, b \in s'.decisions : KeyOf(a) = KeyOf(b) => a = b
    BY DEF DecisionInv
  <2>2. ASSUME NEW a \in Pending(s'.decisions)
        PROVE  /\ ~Disposed' /\ \E o \in Ops : Resolver(a, o)'
               /\ KeyOf(a) \in promises'
    BY <1>1, <1>4, PromisesArePending DEF DecisionInv, AnswererKept
  <2>3. \A a \in Resolved(s'.decisions) :
           a.kind = "compaction" => a.msg \in Spent'
    BY <1>2 DEF DecisionInv, SpentKept
  <2>4. \A k \in promises' : ~Disposed' /\ PendingFor(k) \in s'.decisions
    BY <1>1, <1>3, <1>4 DEF Pending
  <2> QED BY <2>1, <2>2, <2>3, <2>4 DEF DecisionInv
<1>6. ReaderInv'
  <2> SUFFICES ASSUME NEW y \in Readers
               PROVE  /\ reading'[y].st # "orphaned"
                      /\ reading'[y].st = "waiting" =>
                            ReaderKey(reading'[y]) \in promises'
                      /\ reading'[y].st = "answered"
                            /\ reading'[y].kind = "compaction" =>
                           /\ reading'[y].msg \in Spent'
                           /\ PendingFor(ReaderKey(reading'[y]))
                                \notin s'.decisions
    BY DEF ReaderInv
  <2>1. reading[y] \in Readings /\ reading \in [Readers -> Readings]
    BY RecoveryKnown
  <2>2. CASE y = x
    <3>1. off[y].st = "off"
      BY <2>1, <2>2 DEF Readings
    <3> HIDE DEF off
    <3>2. reading'[y] = off[y]
      BY <3>1 DEF Read, off
    <3> QED BY <3>1, <3>2
  <2>3. CASE y # x
    <3>1. off[y] = reading[y]
      BY <2>1, <2>3
    <3>2. reading[y].st = "waiting" => ReaderKey(reading[y]) \in promises'
      BY <1>4 DEF ReaderInv
    <3> HIDE DEF off
    <3>3. reading'[y] = reading[y]
      BY <3>1, <3>2 DEF Read, off
    <3> QED BY <1>4, <3>3 DEF ReaderInv, SpentKept
  <2> QED BY <2>2, <2>3
<1> QED BY <1>5, <1>6

-----------------------------------------------------------------------------
(* Steps that settle nothing.                                              *)

(* The command up next neither launches a policy nor settles a decision.   *)
Calm == \A c \in NextUp : c.do \notin {"policy", "decisions"}

LEMMA CalmNow == ASSUME Calm PROVE Settles = {}
BY DEF Calm, Settles

LEMMA CalmNext == ASSUME Calm' PROVE PromptInv' /\ Settles' = {}
BY DEF Calm, Settles, PromptInv

LEMMA StillCalm == ASSUME CanCall, stack' = stack PROVE Calm /\ Calm'
BY Quiescent, SameShape DEF Calm

LEMMA PoppedCalm ==
  ASSUME FrameInv, NextUp' \cup Buried' \subseteq Buried PROVE Calm'
BY DEF Calm, FrameInv, Later

LEMMA DispatchCalm ==
  ASSUME Types, CanCall, NEW r, r.cmds \in Seq(Command), NEW gone,
         Polite(gone, r.cmds), NEW prep, NEW iw, NEW uw, NEW then, NEW id,
         DispatchFrom(r, prep, iw, uw, then, id)
  PROVE  s' = r.s /\ Calm /\ Calm'
<1>1. /\ s' = r.s
      /\ r.cmds = << >> => NextUp' = {}
      /\ r.cmds # << >> => NextUp' = {Head(r.cmds)}
  BY DispatchShape
<1>2. r.cmds # << >> => PoliteTo(gone, Head(r.cmds))
  BY PoliteTail
<1>3. Calm'
  BY <1>1, <1>2 DEF Calm, PoliteTo
<1> QED BY <1>1, <1>3, Quiescent DEF Calm

(* What the current operation knows of its stream, and who asked for it.   *)
SameStream(u, t) ==
  t.op.id # None =>
    /\ t.op.id = u.op.id /\ t.op.msg = u.op.msg /\ t.op.startup = u.op.startup
    /\ t.op.compaction = u.op.compaction /\ t.op.stage = u.op.stage

LEMMA StreamKept ==
  ASSUME MessageInv, SameStream(s, s'), UNCHANGED <<engine, outcome>>
  PROVE  MessageInv'
<1> SUFFICES ASSUME NEW o \in Ops, s'.op.id = o
             PROVE  /\ s'.op.msg \in {None, StreamMsg(o), StartupMsg(o)}
                    /\ s'.op.startup \in {None, StartupMsg(o)}
                    /\ engine'[o] \in {"off", "handed"} =>
                         s'.op.stage = "registered" /\ s'.op.msg = None
                    /\ \/ engine'[o] = "live"
                       \/ outcome'[o] \in {"completed", "aborted", "failed"}
                       => s'.op.msg = StreamMsg(o)
  BY DEF MessageInv
<1>1. s'.op.id # None
  BY MessageIds
<1> QED BY <1>1 DEF MessageInv, SameStream

(* A completed stream is never asked about again.                          *)
Past == {"handled", "finishing", "done"}

LEMMA SpentStep ==
  ASSUME Disposed => Disposed',
         \A o \in Ops : outcome[o] = "completed" =>
            /\ outcome'[o] = "completed"
            /\ s'.op.id = o => /\ s.op.id = o
                               /\ s'.op.compaction => s.op.compaction
            /\ producer[o] \in Past => producer'[o] \in Past
  PROVE  SpentKept
<1>1. ASSUME NEW o \in Ops, SpentBy(o) PROVE SpentBy(o)'
  BY <1>1 DEF SpentBy, Past
<1> QED BY <1>1 DEF SpentKept, Spent

LEMMA SameSpent ==
  ASSUME Disposed => Disposed', SameStream(s, s'),
         UNCHANGED <<producer, outcome>>
  PROVE  SpentKept
<1>1. \A o \in Ops :
         s'.op.id = o => /\ s.op.id = o
                         /\ s'.op.compaction => s.op.compaction
  <2> TAKE o \in Ops
  <2>1. o # None
    BY MessageIds
  <2> QED BY <2>1 DEF SameStream
<1> QED BY <1>1, SpentStep

LEMMA SameAnswerers ==
  ASSUME UNCHANGED <<producer, engine, outcome>>, NEW D
  PROVE  AnswererKept(D)
BY DEF AnswererKept, Resolver

(* A step beside the registry.                                             *)
LEMMA BesideStep ==
  ASSUME Answered, Calm, Calm', SameStream(s, s'),
         s'.decisions = s.decisions, Disposed' <=> Disposed,
         UNCHANGED <<producer, engine, outcome, promises>>,
         \A x \in Readers : reading'[x] = reading[x]
  PROVE  Answered'
<1>1. PromptInv' /\ Settles' = {} /\ Settles = {}
  BY CalmNow, CalmNext
<1>2. MessageInv'
  BY StreamKept DEF Answered
<1>3. SpentKept /\ AnswererKept(Pending(s.decisions))
  BY SameSpent, SameAnswerers
<1>4. DecisionInv' /\ ReaderInv'
  BY <1>1, <1>3, KeptStep DEF Answered
<1> QED BY <1>1, <1>2, <1>4 DEF Answered

LEMMA StillStream == SameStream(s, s)
BY DEF SameStream

(* A quiet call that leaves the decisions alone.                           *)
LEMMA QuietBeside ==
  ASSUME Typed, Answered, CanCall, NEW t, Quietly(t, {}),
         t.decisions = s.decisions, SameStream(s, t),
         t.life = "disposed" <=> Disposed,
         UNCHANGED <<producer, engine, outcome>>
  PROVE  Answered'
<1>1. /\ s' = t /\ stack' = stack /\ promises' = Settled({}, t)
      /\ reading' = Read(reading, {}, promises')
  BY DEF Quietly
<1>2. Calm /\ Calm' /\ Settles = {}
  BY <1>1, StillCalm, CalmNow
<1>3. promises' = promises /\ \A x \in Readers : reading'[x] = reading[x]
  <2>1. DecisionInv /\ ReaderInv
    BY DEF Answered
  <2>2. LET kept == Settled({}, t)
        IN /\ kept = promises
           /\ \A x \in Readers : Read(reading, {}, kept)[x] = reading[x]
    BY <1>2, <2>1, NothingSettled
  <2> QED BY <1>1, <2>2
<1> QED BY <1>1, <1>2, <1>3, BesideStep DEF Disposed

-----------------------------------------------------------------------------
(* The commands of a dispatch.                                             *)

LEMMA CalloutAnswered ==
  ASSUME Typed, Owned, Answered,
         PublishPhase \/ RunDrain \/ ObserverReturns \/ RunRecordStart
           \/ RunRetire \/ RunDispose
  PROVE  Answered'
<1>1. Types /\ Observers
  BY Known DEF Typed, Inv, Core
<1>2. /\ stack # << >> /\ Top.cmds # << >>
      /\ \/ PopCommand
         \/ EnterObserver /\ ~Top.observing
      /\ Top.observing \/ Head(Top.cmds).do \notin {"policy", "decisions"}
      /\ UNCHANGED <<s, promises, reading, producer, engine, outcome>>
  <2>1. ObserverReturns => stack # << >> /\ Top.cmds # << >>
    <3>1. stack # << >> => Len(stack) \in DOMAIN stack
      BY <1>1, TopType DEF Types
    <3> QED BY <1>1, <3>1 DEF ObserverReturns, Observers, Top
  <2> QED BY <2>1 DEF PublishPhase, RunDrain, ObserverReturns, RunRecordStart,
             RunRetire, RunDispose, HeadIs, recovery, session
<1>3. Calm
  BY <1>2 DEF Calm, NextUp
<1>4. Calm'
  <2>1. CASE PopCommand
    BY <1>1, <1>2, <2>1, PopShape, PoppedCalm DEF Owned
  <2>2. CASE EnterObserver /\ ~Top.observing
    <3>1. NextUp' = {}
      BY <1>1, <1>2, <2>2, EnterShape
    <3> QED BY <3>1 DEF Calm
  <2> QED BY <1>2, <2>1, <2>2
<1>5. SameStream(s, s') /\ s'.decisions = s.decisions
      /\ (Disposed' <=> Disposed) /\ \A x \in Readers : reading'[x] = reading[x]
  BY <1>2, StillStream DEF Disposed
<1> QED BY <1>2, <1>3, <1>4, <1>5, BesideStep

LEMMA ReturnAnswered ==
  ASSUME Typed, Owned, Answered, Return PROVE Answered'
<1>1. /\ stack # << >> /\ ~Top.observing /\ Top.cmds = << >>
      /\ promises' = Settled({}, s) /\ reading' = Read(reading, {}, promises')
      /\ UNCHANGED <<s, producer, engine, outcome>>
  BY DEF Return
<1>2. NextUp' \cup Buried' \subseteq Buried
  BY Known, ReturnShape
<1>3. Calm /\ Calm' /\ Settles = {}
  <2>1. NextUp = {}
    BY <1>1 DEF NextUp
  <2> QED BY <1>2, <2>1, PoppedCalm, CalmNow DEF Calm, Owned
<1>4. promises' = promises /\ \A x \in Readers : reading'[x] = reading[x]
  <2>1. DecisionInv /\ ReaderInv
    BY DEF Answered
  <2>2. LET kept == Settled({}, s)
        IN /\ kept = promises
           /\ \A x \in Readers : Read(reading, {}, kept)[x] = reading[x]
    BY <1>3, <2>1, NothingSettled
  <2> QED BY <1>1, <2>2
<1>5. SameStream(s, s') /\ s'.decisions = s.decisions
      /\ (Disposed' <=> Disposed)
  BY <1>1, StillStream DEF Disposed
<1> QED BY <1>1, <1>3, <1>4, <1>5, BesideStep

(* The policy of the current operation takes over its pending decisions.   *)
LEMMA RunPolicyAnswered ==
  ASSUME Typed, Owned, Answered, RunPolicy PROVE Answered'
<1> DEFINE c == Head(Top.cmds)
           o == c.id
<1>1. /\ stack # << >> /\ Top.cmds # << >> /\ PopCommand
      /\ c \in NextUp /\ c.do = "policy"
      /\ IsCurrentOperation(s, o) =>
            producer' = [producer EXCEPT ![o] = "policy"]
      /\ UNCHANGED <<s, engine, outcome, promises, reading>>
  BY HeadNext DEF RunPolicy, recovery
<1>2. o \in Ops /\ producer[o] = "launching" /\ IsCurrentOperation(s, o)
  <2>1. Launches(c)
    BY <1>1 DEF Owned, FrameInv, Later
  <2> QED BY <1>1, <2>1 DEF Launches, Answered, PromptInv
<1>3. NextUp = {c}
  BY <1>1 DEF NextUp
<1>4. Settles = {}
  BY <1>1, <1>3 DEF Settles
<1> HIDE DEF c, o
<1>5. \A p \in Ops : producer'[p] = IF p = o THEN "policy" ELSE producer[p]
  BY <1>1, <1>2, Known DEF SessionTypes
<1>6. Calm' /\ Settles' = {} /\ PromptInv'
  <2>1. NextUp' \cup Buried' \subseteq Buried
    BY <1>1, Known, PopShape
  <2> QED BY <2>1, PoppedCalm, CalmNext DEF Owned
<1>7. MessageInv'
  BY <1>1, StillStream, StreamKept DEF Answered
<1>8. SpentKept
  BY <1>1, <1>2, <1>5, SpentStep DEF Disposed, Past
<1>9. AnswererKept(Pending(s.decisions))
  BY <1>1, <1>2, <1>5 DEF AnswererKept, Resolver
<1>10. DecisionInv' /\ ReaderInv'
  BY <1>1, <1>4, <1>6, <1>8, <1>9, KeptStep DEF Answered, Disposed
<1> QED BY <1>6, <1>7, <1>10 DEF Answered

(* The decisions that an event opened get their promises, and those that   *)
(* the disposal answered resolve theirs.                                   *)
LEMMA RunDecisionsAnswered ==
  ASSUME Typed, Owned, Answered, RunDecisions PROVE Answered'
<1> USE DEF Answered
<1> DEFINE c == Head(Top.cmds)
           D == c.decisions
<1>1. /\ stack # << >> /\ Top.cmds # << >> /\ PopCommand
      /\ c \in NextUp /\ c.do = "decisions" /\ NextUp = {c}
      /\ promises' = (promises \cup {KeyOf(d) : d \in D \ Resolved(D)})
                       \ {KeyOf(d) : d \in Resolved(D)}
      /\ reading' = Read(reading, D, promises')
      /\ UNCHANGED <<s, producer, engine, outcome>>
  BY HeadNext DEF RunDecisions, session, NextUp
<1>2. /\ D \subseteq s.decisions
      /\ IF Disposed THEN Pending(D) = {} ELSE Resolved(D) = {}
  BY <1>1 DEF PromptInv
<1>3. Settles = D
  BY <1>1 DEF Settles
<1> HIDE DEF D, c
<1>4. Calm' /\ Settles' = {} /\ PromptInv'
  <2>1. NextUp' \cup Buried' \subseteq Buried
    BY <1>1, Known, PopShape
  <2> QED BY <2>1, PoppedCalm, CalmNext DEF Owned
<1>5. MessageInv'
  BY <1>1, StillStream, StreamKept
<1>6. /\ Spent' = Spent /\ (Disposed' <=> Disposed)
      /\ \A d, o : Resolver(d, o) <=> Resolver(d, o)'
  <2>1. Disposed' <=> Disposed
    BY <1>1 DEF Disposed
  <2>2. \A o : SpentBy(o) <=> SpentBy(o)'
    BY <1>1, <2>1 DEF SpentBy
  <2> QED BY <1>1, <2>1, <2>2 DEF Spent, Resolver
<1>7. \A k \in promises : k \in Keys
  BY RecoveryKnown
<1>8. CASE ~Disposed
  <2>1. \A d \in D : /\ d.outcome = "pending" /\ d \in Decision
                    /\ d \in s.decisions
    BY <1>2, <1>8, RecoveryKnown DEF Resolved
  <2>2. promises' = promises \cup {KeyOf(d) : d \in D}
    BY <1>1, <1>2, <1>8
  <2>3. DecisionInv'
    <3>1. \A d \in Pending(s'.decisions) :
             /\ ~Disposed' /\ \E o \in Ops : Resolver(d, o)'
             /\ KeyOf(d) \in promises'
      BY <1>1, <1>3, <1>6, <2>2 DEF DecisionInv
    <3>2. ASSUME NEW k \in promises'
          PROVE  ~Disposed' /\ PendingFor(k) \in s'.decisions
      <4>1. CASE k \in promises
        BY <1>1, <1>6, <1>8, <4>1 DEF DecisionInv
      <4>2. ASSUME NEW d \in D, k = KeyOf(d)
            PROVE  PendingFor(k) \in s'.decisions
        BY <1>1, <2>1, <4>2, PendingOfKey
      <4> QED BY <1>6, <1>8, <2>2, <4>1, <4>2
    <3> QED BY <1>1, <1>6, <3>1, <3>2 DEF DecisionInv
  <2>4. ReaderInv'
    <3>1. \A x \in Readers : reading'[x] = reading[x]
      <4>1. \A x \in Readers :
               reading[x].st = "waiting" => ReaderKey(reading[x]) \in promises'
        BY <2>2 DEF ReaderInv
      <4> QED BY <1>1, <4>1, ReadKeeps
    <3>2. promises \subseteq promises'
      BY <2>2
    <3> QED BY <1>1, <1>6, <3>1, <3>2 DEF ReaderInv
  <2> QED BY <1>4, <1>5, <2>3, <2>4
<1>9. CASE Disposed
  <2>1. Resolved(D) = D /\ Pending(s.decisions) = {}
    BY <1>2, <1>9 DEF Resolved, Pending, DecisionInv
  <2>2. promises' = {} /\ promises \subseteq {KeyOf(d) : d \in D}
    BY <1>1, <1>3, <1>9, <2>1 DEF DecisionInv
  <2>3. DecisionInv'
    BY <1>1, <1>6, <1>9, <2>1, <2>2 DEF DecisionInv
  <2>4. ReaderInv'
    <3> SUFFICES ASSUME NEW x \in Readers
                 PROVE  /\ reading'[x].st # "orphaned"
                        /\ reading'[x].st # "waiting"
                        /\ reading'[x].st = "answered"
                              /\ reading'[x].kind = "compaction" =>
                             reading'[x].msg \in Spent
      BY <1>1, <1>6, <2>1 DEF ReaderInv, Pending, PendingFor
    <3>1. reading[x] \in Readings
      BY RecoveryKnown
    <3>2. CASE reading[x].st = "waiting"
      <4>1. PICK d \in D : KeyOf(d) = ReaderKey(reading[x])
        BY <2>2, <3>2 DEF ReaderInv
      <4>2. reading'[x] = [reading[x] EXCEPT !.st = "answered"]
        BY <1>1, <2>1, <2>2, <3>2, <4>1 DEF Read
      <4>3. d.kind = reading[x].kind /\ d.msg = reading[x].msg
        BY <4>1 DEF KeyOf, ReaderKey
      <4>4. d.kind = "compaction" => d.msg \in Spent
        BY <1>2, <2>1 DEF DecisionInv, Resolved
      <4> QED BY <3>1, <4>2, <4>3, <4>4 DEF Readings
    <3>3. CASE reading[x].st # "waiting"
      <4>1. reading'[x] = reading[x]
        BY <1>1, <3>3 DEF Read
      <4> QED BY <3>3, <4>1 DEF ReaderInv
    <3> QED BY <3>2, <3>3
  <2> QED BY <1>4, <1>5, <2>3, <2>4
<1> QED BY <1>8, <1>9

LEMMA RunAnswered == ASSUME Typed, Owned, Answered, Run PROVE Answered'
BY CalloutAnswered, ReturnAnswered, RunPolicyAnswered, RunDecisionsAnswered
DEF Run

-----------------------------------------------------------------------------
(* Calls that no decision depends on.                                      *)

(* A dispatch of polite commands that leaves the registry alone.           *)
LEMMA PoliteAnswered ==
  ASSUME Typed, Answered, CanCall, NEW r, r.cmds \in Seq(Command), NEW gone,
         Polite(gone, r.cmds), NEW prep, NEW iw, NEW uw, NEW then, NEW id,
         DispatchFrom(r, prep, iw, uw, then, id),
         SameStream(s, r.s), r.s.decisions = s.decisions,
         r.s.life = "disposed" <=> Disposed,
         UNCHANGED <<producer, engine, outcome, promises, reading>>
  PROVE  Answered'
<1>1. s' = r.s /\ Calm /\ Calm'
  BY Known, DispatchCalm
<1>2. /\ SameStream(s, s') /\ s'.decisions = s.decisions
      /\ (Disposed' <=> Disposed)
      /\ \A x \in Readers : reading'[x] = reading[x]
  BY <1>1 DEF Disposed
<1> QED BY <1>1, <1>2, BesideStep

(* A step that changes nothing the registry depends on.                    *)
LEMMA StillAnswered ==
  ASSUME Typed, Answered, CanCall,
         UNCHANGED <<s, stack, producer, engine, outcome, promises, reading>>
  PROVE  Answered'
<1>1. /\ SameStream(s, s') /\ s'.decisions = s.decisions
      /\ (Disposed' <=> Disposed) /\ Calm /\ Calm'
      /\ \A x \in Readers : reading'[x] = reading[x]
  BY StillStream, StillCalm DEF Disposed
<1> QED BY <1>1, BesideStep

LEMMA MovedStream ==
  ASSUME NEW u, NEW t, t.op = u.op \/ t.op = NoOperation
  PROVE  SameStream(u, t)
BY NoOperationId DEF SameStream

LEMMA ClaimsAnswered ==
  ASSUME Typed, Owned, Answered, Claims PROVE Answered'
<1>1. s \in CoordinatorState /\ prepared \in Nat /\ issued.turn \in Nat
  BY Known
<1>2. ASSUME NEW i, NEW x, NEW e, NEW c, PrepareFresh(i, x, e, c)
      PROVE  Answered'
  <2> DEFINE id  == issued.turn + 1
             req == [kind |-> "fresh", intent |-> i, expected |-> x, edit |-> e]
             r   == Prepare(s, id, req)
  <2>1. /\ CanCall /\ Admits(s, req) /\ req.kind # "adopt"
        /\ DispatchFrom(r, Install(id, c), idleWaiters, unbusyWaiters,
                        "prepare", id)
        /\ UNCHANGED <<producer, engine, outcome, promises, reading>>
    BY <1>2 DEF PrepareFresh, Dispatch, recovery
  <2>2. /\ r.s.life = s.life /\ r.s.decisions = s.decisions
        /\ r.s.op = NoOperation /\ Polite(s.op.id, r.cmds)
        /\ r.cmds \in Seq(Command)
    BY <1>1, <2>1, PrepareView, PrepareRegular DEF Regular
  <2> HIDE DEF r
  <2>3. SameStream(s, r.s) /\ (r.s.life = "disposed" <=> Disposed)
    BY <2>2, MovedStream DEF Disposed
  <2> QED BY <2>1, <2>2, <2>3, PoliteAnswered
<1>3. ASSUME NEW t \in Turns, PrepareAdopt(t) PROVE Answered'
  <2> DEFINE req == [kind |-> "adopt", intent |-> "direct", expected |-> t,
                     edit |-> None]
             r   == Prepare(s, t, req)
  <2>1. /\ CanCall
        /\ DispatchFrom(r, t, idleWaiters, unbusyWaiters, "none", None)
        /\ UNCHANGED <<producer, engine, outcome, promises, reading>>
    BY <1>3, EmptyStack DEF PrepareAdopt, Dispatch, recovery, session
  <2>2. r.s = s /\ r.cmds = << >>
    BY DEF Prepare, Ignored, Result
  <2> HIDE DEF r
  <2>3. /\ Polite(None, r.cmds) /\ r.cmds \in Seq(Command)
        /\ SameStream(s, r.s) /\ (r.s.life = "disposed" <=> Disposed)
    BY <2>2, PoliteNothing, StillStream DEF Disposed
  <2> QED BY <2>1, <2>2, <2>3, PoliteAnswered
<1>4. ASSUME NEW t \in Turns, FinishPreparation(t) PROVE Answered'
  <2> DEFINE prep == IF prepared = t THEN None ELSE prepared
             r    == Finish(s, t, TRUE)
  <2>1. /\ CanCall /\ t \in Nat
        /\ DispatchFrom(r, prep, idleWaiters, unbusyWaiters, "none", None)
        /\ UNCHANGED <<producer, engine, outcome, promises, reading>>
    <3>1. CanCall
      BY <1>4, EmptyStack DEF FinishPreparation
    <3>2. t \in Nat
      BY SymbolTypes
    <3> HIDE DEF r, prep
    <3> QED BY <1>4, <3>1, <3>2
            DEF FinishPreparation, Dispatch, recovery, r, prep
  <2>2. /\ r.s.life = s.life /\ r.s.decisions = s.decisions
        /\ r.s.op = s.op /\ Polite(None, r.cmds) /\ r.cmds \in Seq(Command)
    <3>1. r.cmds \in Seq(Command)
      BY <1>1, <2>1, FinishRegular DEF Regular
    <3>2. CASE r = Ignored(s)
      <4> HIDE DEF r
      <4>1. r.s = s /\ r.cmds = << >>
        BY <3>2 DEF Ignored, Result
      <4> QED BY <3>1, <4>1, PoliteNothing
    <3>3. CASE r # Ignored(s)
      BY <1>1, <2>1, <3>1, <3>3, FinishView DEF MovesTo
    <3> QED BY <3>2, <3>3
  <2> HIDE DEF r, prep
  <2>3. SameStream(s, r.s) /\ (r.s.life = "disposed" <=> Disposed)
    BY <2>2, MovedStream DEF Disposed
  <2> QED BY <2>1, <2>2, <2>3, PoliteAnswered
<1>5. CASE PreemptPreparation
  <2> DEFINE r == Preempt(s, prepared)
  <2>1. /\ CanCall /\ s.phase = "preparing" /\ prepared = s.turn
        /\ DispatchFrom(r, None, idleWaiters, unbusyWaiters, "preempt",
                        prepared)
        /\ UNCHANGED <<producer, engine, outcome, promises, reading>>
    BY <1>5 DEF PreemptPreparation, Dispatch, recovery, session
  <2>2. s.life # "disposed"
    BY <2>1 DEF Owned, PhaseInv, Disposed
  <2>3. /\ r.s.life = s.life /\ r.s.decisions = s.decisions
        /\ r.s.op = NoOperation /\ Polite(s.op.id, r.cmds)
        /\ r.cmds \in Seq(Command)
    BY <1>1, <2>1, <2>2, PreemptView, PreemptRegular DEF Regular, MovesTo
  <2> HIDE DEF r
  <2>4. SameStream(s, r.s) /\ (r.s.life = "disposed" <=> Disposed)
    BY <2>3, MovedStream DEF Disposed
  <2> QED BY <2>1, <2>3, <2>4, PoliteAnswered
<1>6. ASSUME NEW t, AcceptThinking(t) \/ ReleaseThinking PROVE Answered'
  BY <1>6, StillAnswered DEF AcceptThinking, ReleaseThinking, recovery, session
<1> QED BY <1>2, <1>3, <1>4, <1>5, <1>6 DEF Claims

-----------------------------------------------------------------------------
(* The phase, the observed stream, reservations, waiters, observations.    *)

LEMMA SettlesNothing == ASSUME NEW u PROVE SettlesOf(Result(u, << >>)) = {}
BY DEF SettlesOf, Result

LEMMA SettlesOne ==
  ASSUME NEW u, NEW D PROVE SettlesOf(Result(u, << Settle(D) >>)) = D
<1>1. Settle(D).do = "decisions" /\ Settle(D).decisions = D
  BY DEF Settle, Do
<1> QED BY <1>1 DEF SettlesOf, Result

LEMMA SettlesLittle ==
  ASSUME NEW u
  PROVE  /\ SettlesOf(Ignored(u)) = {}
         /\ \A id, k : SettlesOf(Reserve(u, id, k)) = {}
         /\ \A id : SettlesOf(RetryStart(u, id)) = {}
         /\ \A id : SettlesOf(RetryFinish(u, id)) = {}
         /\ \A k : SettlesOf(CompactionObserve(u, k)) = {}
         /\ \A k, g : SettlesOf(CompactionStage(u, k, g)) = {}
         /\ SettlesOf(CompactionAbandon(u)) = {}
         /\ \A id : SettlesOf(CompactionSummary(u, id)) = {}
         /\ \A id, on : SettlesOf(Configure(u, id, on)) = {}
         /\ \A id, msg : SettlesOf(Starting(u, id, msg)) = {}
         /\ \A msg : SettlesOf(StartupAbort(u, msg)) = {}
<1> USE SettlesNothing DEF Alive, Ignored
<1>1. SettlesOf(Ignored(u)) = {}
  OBVIOUS
<1>2. \A id, k : SettlesOf(Reserve(u, id, k)) = {}
  BY DEF Reserve
<1>3. \A id : SettlesOf(RetryStart(u, id)) = {}
  BY DEF RetryStart
<1>4. \A id : SettlesOf(RetryFinish(u, id)) = {}
  BY DEF RetryFinish
<1>5. \A k : SettlesOf(CompactionObserve(u, k)) = {}
  BY DEF CompactionObserve
<1>6. \A k, g : SettlesOf(CompactionStage(u, k, g)) = {}
  BY DEF CompactionStage
<1>7. SettlesOf(CompactionAbandon(u)) = {}
  BY DEF CompactionAbandon
<1>8. \A id : SettlesOf(CompactionSummary(u, id)) = {}
  BY DEF CompactionSummary
<1>9. \A id, on : SettlesOf(Configure(u, id, on)) = {}
  BY DEF Configure
<1>10. \A id, msg : SettlesOf(Starting(u, id, msg)) = {}
  BY DEF Starting
<1>11. \A msg : SettlesOf(StartupAbort(u, msg)) = {}
  BY DEF StartupAbort
<1> QED
  BY <1>1, <1>2, <1>3, <1>4, <1>5, <1>6, <1>7, <1>8, <1>9, <1>10, <1>11

(* A quiet call of an event that leaves the operation and the decisions.   *)
LEMMA UntouchedAnswered ==
  ASSUME Typed, Answered, NEW r, Quiet(r), Untouched(s, r.s),
         SettlesOf(r) = {}, UNCHANGED session
  PROVE  Answered'
<1>1. /\ CanCall /\ Quietly(r.s, {}) /\ r.s.decisions = s.decisions
      /\ (r.s.life = "disposed" <=> Disposed)
      /\ UNCHANGED <<producer, engine, outcome>>
  BY DEF Quiet, Untouched, SameOwner, Disposed, session
<1>2. SameStream(s, r.s)
  BY MovedStream DEF Untouched
<1> QED BY <1>1, <1>2, QuietBeside

(* A call of a polite event that leaves the operation and the decisions.   *)
LEMMA CallAnswered ==
  ASSUME Typed, Answered, NEW r, Call(r), r.cmds \in Seq(Command),
         Polite(None, r.cmds), r.s.op = s.op, r.s.decisions = s.decisions,
         r.s.life = "disposed" <=> Disposed,
         UNCHANGED <<producer, engine, outcome>>
  PROVE  Answered'
<1>1. /\ CanCall
      /\ DispatchFrom(r, prepared, idleWaiters, unbusyWaiters, "none", None)
      /\ UNCHANGED <<promises, reading>>
  BY DEF Call, Dispatch, recovery
<1>2. SameStream(s, r.s)
  BY MovedStream
<1> QED BY <1>1, <1>2, PoliteAnswered

LEMMA IgnoredCall ==
  /\ Ignored(s).s = s /\ Ignored(s).cmds = << >>
  /\ Ignored(s).cmds \in Seq(Command) /\ Polite(None, Ignored(s).cmds)
BY PoliteNothing DEF Ignored, Result

LEMMA PhaseMovesAnswered ==
  ASSUME Typed, Owned, Answered, NEW o, BeginPolicy(o) \/ FinishTurn(o)
  PROVE  Answered'
<1>1. s \in CoordinatorState /\ s.turn \in Nat /\ s.life # "disposed"
  BY Known DEF BeginPolicy, FinishTurn, IsCurrentOperation
<1>2. CASE BeginPolicy(o)
  <2> DEFINE r == CompletePolicy(s, s.turn)
  <2>1. /\ r.s.life = s.life /\ r.s.decisions = s.decisions
        /\ r.s.op = s.op /\ Polite(None, r.cmds) /\ r.cmds \in Seq(Command)
    BY <1>1, CompletePolicyView, CompletePolicyRegular DEF MovesTo, Regular
  <2>2. Call(r) /\ UNCHANGED <<producer, engine, outcome>>
    BY <1>2 DEF BeginPolicy, session
  <2> HIDE DEF r
  <2> QED BY <2>1, <2>2, CallAnswered DEF Disposed
<1>3. CASE FinishTurn(o)
  <2> DEFINE r == Finish(s, s.turn, FALSE)
  <2>1. Call(r) /\ UNCHANGED <<producer, engine, outcome>>
    BY <1>3 DEF FinishTurn, session
  <2>2. r.cmds \in Seq(Command)
    BY <1>1, FinishRegular DEF Regular
  <2>3. /\ r.s.life = s.life /\ r.s.decisions = s.decisions
        /\ r.s.op = s.op /\ Polite(None, r.cmds)
    <3>1. r # Ignored(s) =>
            /\ r.s.life = s.life /\ r.s.decisions = s.decisions
            /\ r.s.op = s.op /\ Polite(None, r.cmds)
      BY <1>1, FinishView DEF MovesTo
    <3> HIDE DEF r
    <3> QED BY <3>1, IgnoredCall
  <2> HIDE DEF r
  <2> QED BY <2>1, <2>2, <2>3, CallAnswered DEF Disposed
<1> QED BY <1>2, <1>3

(* A stream that the session only observes ends, or a client observes one. *)
LEMMA ObservedAnswered ==
  ASSUME Typed, NEW m \in Nat
  PROVE  /\ LET r == FinishObserved(s, s.turn, m)
            IN /\ r.cmds \in Seq(Command) /\ Polite(None, r.cmds)
               /\ r.s.op = s.op /\ r.s.decisions = s.decisions
               /\ r.s.life = s.life
         /\ LET r == ObserveStream(s, m)
            IN /\ r.cmds \in Seq(Command) /\ Polite(None, r.cmds)
               /\ r.s.op = s.op /\ r.s.decisions = s.decisions
               /\ r.s.life = s.life
<1>1. s \in CoordinatorState /\ s.turn \in Nat
  BY Known
<1>2. LET r == FinishObserved(s, s.turn, m)
      IN /\ r.cmds \in Seq(Command) /\ Polite(None, r.cmds)
         /\ r.s.op = s.op /\ r.s.decisions = s.decisions
         /\ r.s.life = s.life
  <2> DEFINE r == FinishObserved(s, s.turn, m)
  <2>1. r.cmds \in Seq(Command)
    BY <1>1, FinishObservedRegular DEF Regular
  <2>2. r # Ignored(s) =>
          /\ r.s.life = s.life /\ r.s.decisions = s.decisions
          /\ r.s.op = s.op /\ Polite(None, r.cmds)
    BY <1>1, FinishObservedView DEF MovesTo
  <2> HIDE DEF r
  <2>3. /\ r.s.life = s.life /\ r.s.decisions = s.decisions
        /\ r.s.op = s.op /\ Polite(None, r.cmds)
    BY <2>2, IgnoredCall
  <2> QED BY <2>1, <2>3 DEF r
<1>3. LET r == ObserveStream(s, m)
      IN /\ r.cmds \in Seq(Command) /\ Polite(None, r.cmds)
         /\ r.s.op = s.op /\ r.s.decisions = s.decisions
         /\ r.s.life = s.life
  <2> DEFINE r == ObserveStream(s, m)
  <2>1. r.cmds \in Seq(Command)
    BY <1>1, ObserveRegular DEF Regular
  <2>2. r # Ignored(s) =>
          /\ r.s.life = s.life /\ r.s.decisions = s.decisions
          /\ r.s.op = s.op /\ Polite(None, r.cmds)
    BY <1>1, ObserveView DEF MovesTo
  <2> HIDE DEF r
  <2>3. /\ r.s.life = s.life /\ r.s.decisions = s.decisions
        /\ r.s.op = s.op /\ Polite(None, r.cmds)
    BY <2>2, IgnoredCall
  <2> QED BY <2>1, <2>3 DEF r
<1> QED BY <1>2, <1>3

LEMMA AbortStream ==
  ASSUME Typed, NEW m
  PROVE  LET t == StartupAbort(s, m).s
         IN /\ t.decisions = s.decisions /\ t.life = s.life
            /\ SameStream(s, t) /\ t.op.msg = s.op.msg /\ t.op.id = s.op.id
<1>1. s \in CoordinatorState /\ s.op \in Operation
  BY Known
<1>2. CASE StartupAbort(s, m).s = s
  BY <1>2 DEF SameStream
<1>3. CASE StartupAbort(s, m).s = [s EXCEPT !.op.notified = TRUE]
  BY <1>1, <1>3 DEF SameStream, CoordinatorState, Operation
<1> QED BY <1>2, <1>3 DEF StartupAbort, Alive, Ignored, Result

LEMMA ForeignAnswered ==
  ASSUME Typed, Owned, Answered,
         ForeignEnds \/ (\E m \in Messages : ObserveReplay(m)) \/ SyntheticAbort
  PROVE  Answered'
<1>1. CASE ForeignEnds
  <2> DEFINE r == IF Observing(ForeignMsg)
                    THEN FinishObserved(s, s.turn, ForeignMsg) ELSE Ignored(s)
  <2>1. Call(r) /\ UNCHANGED <<producer, engine, outcome>>
    BY <1>1 DEF ForeignEnds
  <2>2. /\ r.cmds \in Seq(Command) /\ Polite(None, r.cmds)
        /\ r.s.op = s.op /\ r.s.decisions = s.decisions
        /\ r.s.life = s.life
    <3>1. ForeignMsg \in Nat
      BY SymbolTypes
    <3>2. CASE Observing(ForeignMsg)
      BY <3>1, <3>2, ObservedAnswered
    <3>3. CASE ~Observing(ForeignMsg)
      <4>1. r = Ignored(s)
        BY <3>3
      <4> HIDE DEF r
      <4> QED BY <4>1, IgnoredCall
    <3> QED BY <3>2, <3>3
  <2> HIDE DEF r
  <2> QED BY <2>1, <2>2, CallAnswered DEF Disposed
<1>2. ASSUME NEW m \in Messages, ObserveReplay(m) PROVE Answered'
  <2> DEFINE r == ObserveStream(s, m)
  <2>1. Call(r) /\ UNCHANGED <<producer, engine, outcome>>
    BY <1>2 DEF ObserveReplay, session
  <2>2. /\ r.cmds \in Seq(Command) /\ Polite(None, r.cmds)
        /\ r.s.op = s.op /\ r.s.decisions = s.decisions
        /\ r.s.life = s.life
    BY SymbolTypes, ObservedAnswered
  <2> HIDE DEF r
  <2> QED BY <2>1, <2>2, CallAnswered DEF Disposed
<1>3. CASE SyntheticAbort
  <2> DEFINE r == StartupAbort(s, None)
  <2>1. CanCall /\ Quietly(r.s, {}) /\ UNCHANGED <<producer, engine, outcome>>
    BY <1>3, SettlesLittle DEF SyntheticAbort, Quiet, session
  <2>2. /\ r.s.decisions = s.decisions /\ SameStream(s, r.s)
        /\ (r.s.life = "disposed" <=> Disposed)
    BY AbortStream DEF Disposed
  <2> HIDE DEF r
  <2> QED BY <2>1, <2>2, QuietBeside
<1> QED BY <1>1, <1>2, <1>3

LEMMA CancelAnswered ==
  ASSUME Typed, Answered, NEW w, CancelWait(w) PROVE Answered'
<1>1. /\ CanCall /\ Types
      /\ UNCHANGED <<s, producer, engine, outcome, promises, reading>>
  BY Known DEF CancelWait, recovery, session
<1>2. NextUp' = {} /\ NextUp = {}
  BY <1>1, CancelShape, Quiescent
<1>3. /\ SameStream(s, s') /\ s'.decisions = s.decisions
      /\ (Disposed' <=> Disposed) /\ Calm /\ Calm'
      /\ \A x \in Readers : reading'[x] = reading[x]
  BY <1>1, <1>2, StillStream DEF Disposed, Calm
<1> QED BY <1>1, <1>3, BesideStep

(* A step that leaves the stack, the operation and the decisions.          *)
LEMMA ApartAnswered ==
  ASSUME Typed, Answered, CanCall, Untouched(s, s'), stack' = stack,
         UNCHANGED <<promises, reading, producer, engine, outcome>>
  PROVE  Answered'
<1>1. SameStream(s, s')
  BY MovedStream DEF Untouched
<1>2. /\ s'.decisions = s.decisions /\ (Disposed' <=> Disposed)
      /\ Calm /\ Calm' /\ \A x \in Readers : reading'[x] = reading[x]
  BY StillCalm DEF Untouched, SameOwner, Disposed
<1> QED BY <1>1, <1>2, BesideStep

LEMMA HoldsAnswered == ASSUME Typed, Answered, Holds PROVE Answered'
<1>1. s \in CoordinatorState
  BY Known
<1>2. ASSUME NEW k, MakeReservation(k) PROVE Answered'
  <2> DEFINE r == Reserve(s, issued.resv + 1, k)
  <2>1. Quiet(r) /\ Untouched(s, r.s) /\ SettlesOf(r) = {}
        /\ UNCHANGED session
    BY <1>1, <1>2, UntouchedViews, SettlesLittle DEF MakeReservation
  <2> HIDE DEF r
  <2> QED BY <2>1, UntouchedAnswered
<1>3. CASE BeginRetry
  <2> DEFINE r == RetryStart(s, issued.token + 1)
  <2>1. Quiet(r) /\ Untouched(s, r.s) /\ SettlesOf(r) = {}
        /\ UNCHANGED session
    BY <1>1, <1>3, UntouchedViews, SettlesLittle DEF BeginRetry
  <2> HIDE DEF r
  <2> QED BY <2>1, UntouchedAnswered
<1>4. ASSUME NEW id, FinishRetry(id) PROVE Answered'
  <2> DEFINE r == RetryFinish(s, id)
  <2>1. Quiet(r) /\ Untouched(s, r.s) /\ SettlesOf(r) = {}
        /\ UNCHANGED session
    BY <1>1, <1>4, UntouchedViews, SettlesLittle DEF FinishRetry
  <2> HIDE DEF r
  <2> QED BY <2>1, UntouchedAnswered
<1>5. ASSUME NEW q, ReleaseReservation(q) PROVE Answered'
  <2> DEFINE r == Release(s, q.id, q.kind)
  <2>1. Call(r) /\ UNCHANGED <<producer, engine, outcome>>
    BY <1>5 DEF ReleaseReservation, session
  <2>2. /\ r.cmds \in Seq(Command) /\ Polite(None, r.cmds)
        /\ r.s.op = s.op /\ r.s.decisions = s.decisions
        /\ (r.s.life = "disposed" <=> Disposed)
    BY <1>1, ReleaseView, ReleaseRegular DEF Regular, SameOwner, Disposed
  <2> HIDE DEF r
  <2> QED BY <2>1, <2>2, CallAnswered
<1>6. ASSUME NEW w, NEW k, WaitFor(w, k) PROVE Answered'
  BY <1>6, StillAnswered DEF WaitFor, recovery, session
<1> QED BY <1>2, <1>3, <1>4, <1>5, <1>6, CancelAnswered DEF Holds

LEMMA CompactionsAnswered ==
  ASSUME Typed, Answered, Compactions PROVE Answered'
<1>1. s \in CoordinatorState
  BY Known
<1>2. CASE BeginCompactionObservation
  <2> DEFINE r == CompactionObserve(s, issued.token + 1)
  <2>1. Quiet(r) /\ Untouched(s, r.s) /\ SettlesOf(r) = {}
        /\ UNCHANGED session
    BY <1>1, <1>2, UntouchedViews, SettlesLittle
       DEF BeginCompactionObservation
  <2> HIDE DEF r
  <2> QED BY <2>1, UntouchedAnswered
<1>3. CASE AbandonCompaction
  <2> DEFINE r == CompactionAbandon(s)
  <2>1. Quiet(r) /\ Untouched(s, r.s) /\ SettlesOf(r) = {}
        /\ UNCHANGED session
    BY <1>1, <1>3, UntouchedViews, SettlesLittle DEF AbandonCompaction
  <2> HIDE DEF r
  <2> QED BY <2>1, UntouchedAnswered
<1>4. ASSUME NEW id, RecordCompactionSummary(id) PROVE Answered'
  <2> DEFINE r == CompactionSummary(s, id)
  <2>1. Quiet(r) /\ Untouched(s, r.s) /\ SettlesOf(r) = {}
        /\ UNCHANGED session
    BY <1>1, <1>4, UntouchedViews, SettlesLittle DEF RecordCompactionSummary
  <2> HIDE DEF r
  <2> QED BY <2>1, UntouchedAnswered
<1>5. ASSUME NEW k, NEW g, SetCompactionStage(k, g) PROVE Answered'
  <2> DEFINE r == CompactionStage(s, k, g)
  <2>1. Quiet(r) /\ Untouched(s, r.s) /\ SettlesOf(r) = {}
        /\ UNCHANGED session
    BY <1>1, <1>5, UntouchedViews, SettlesLittle DEF SetCompactionStage
  <2> HIDE DEF r
  <2> QED BY <2>1, UntouchedAnswered
<1>6. ASSUME NEW k, FinishCompactionObservation(k) PROVE Answered'
  <2>1. /\ CanCall /\ Untouched(s, s') /\ stack' = stack
        /\ UNCHANGED <<promises, reading, producer, engine, outcome>>
    BY <1>1, <1>6, UntouchedViews
       DEF FinishCompactionObservation, recovery, session
  <2> QED BY <2>1, ApartAnswered
<1> QED BY <1>2, <1>3, <1>4, <1>5, <1>6 DEF Compactions

LEMMA LifetimeAnswered ==
  ASSUME Typed, Answered, BeginShutdown \/ Drain \/ Close PROVE Answered'
<1>1. s \in CoordinatorState
  BY Known
<1>2. CASE BeginShutdown
  <2>1. /\ CanCall /\ Untouched(s, s') /\ stack' = stack
        /\ UNCHANGED <<promises, reading, producer, engine, outcome>>
    BY <1>1, <1>2, UntouchedViews DEF BeginShutdown, recovery, session
  <2> QED BY <2>1, ApartAnswered
<1>3. CASE Drain
  BY <1>3, StillAnswered DEF Drain, recovery, session
<1>4. CASE Close
  BY <1>4, EmptyStack, StillAnswered DEF Close, recovery, session
<1> QED BY <1>2, <1>3, <1>4

-----------------------------------------------------------------------------
(* The life of an operation, up to its stream.                             *)

(* The registry after a quiet call that settles nothing.                   *)
LEMMA QuietKept ==
  ASSUME Typed, Answered, CanCall, NEW t, Quietly(t, {}),
         t.decisions = s.decisions
  PROVE  /\ s' = t /\ stack' = stack /\ PromptInv'
         /\ Settles' = {} /\ Settles = {}
         /\ promises' = promises /\ \A x \in Readers : reading'[x] = reading[x]
<1>1. /\ s' = t /\ stack' = stack /\ promises' = Settled({}, t)
      /\ reading' = Read(reading, {}, promises')
  BY DEF Quietly
<1>2. Settles' = {} /\ Settles = {} /\ PromptInv'
  BY <1>1, StillCalm, CalmNow, CalmNext
<1>3. LET kept == Settled({}, t)
      IN /\ kept = promises
         /\ \A x \in Readers : Read(reading, {}, kept)[x] = reading[x]
  BY <1>2, NothingSettled DEF Answered
<1> QED BY <1>1, <1>2, <1>3

(* An operation that has no stream yet has nothing to answer for.          *)
LEMMA NoOutcome ==
  ASSUME Owned, NEW o \in Ops, engine[o] # "ended" PROVE outcome[o] = "none"
BY OwnInv DEF ProducerInv

LEMMA RegisterAnswered ==
  ASSUME Typed, Owned, Answered, NEW t \in Turns, RegisterOperation(t)
  PROVE  Answered'
<1> DEFINE o == issued.op + 1
           r == Register(s, o, t)
<1>1. /\ CanCall /\ o <= MaxOps /\ s.life = "open" /\ s.turn = t
      /\ Quietly(r.s, {}) /\ producer' = [producer EXCEPT ![o] = "starting"]
      /\ UNCHANGED <<engine, outcome>>
  BY EmptyStack DEF RegisterOperation, IsCurrentTurn, Becomes
<1>2. /\ s \in CoordinatorState /\ issued.op \in Nat
      /\ producer \in [Ops -> ProducerStates]
  BY Known DEF SessionTypes
<1>3. o \in Ops /\ o > issued.op /\ o \in Nat
  BY <1>1, <1>2, BoundsAssumption DEF Ops
<1>4. /\ producer[o] = "none" /\ engine[o] = "off" /\ outcome[o] = "none"
  <2>1. ProducerInv(o)
    BY <1>3, OwnInv
  <2> QED BY <1>3, <2>1 DEF ProducerInv
<1>5. /\ r.s.life = s.life /\ r.s.decisions = s.decisions
      /\ r.s.op = NewOperation(o)
  BY <1>1, <1>2, <1>3, RegisterView DEF MovesTo
<1> HIDE DEF o, r
<1>6. /\ s' = r.s /\ PromptInv' /\ Settles' = {} /\ Settles = {}
      /\ promises' = promises /\ \A x \in Readers : reading'[x] = reading[x]
  BY <1>1, <1>5, QuietKept
<1>7. /\ s'.op.id = o /\ s'.op.msg = None /\ s'.op.startup = None
      /\ s'.op.stage = "registered"
  BY <1>5, <1>6 DEF NewOperation
<1>8. \A p \in Ops : p # o => producer'[p] = producer[p]
  BY <1>1, <1>2
<1>9. MessageInv'
  BY <1>1, <1>4, <1>7 DEF MessageInv
<1>10. SpentKept
  BY <1>1, <1>4, <1>5, <1>6, <1>7, <1>8, SpentStep DEF Disposed
<1>11. AnswererKept(Pending(s.decisions))
  <2>1. \A d : ~Resolver(d, o)
    BY <1>4 DEF Resolver
  <2> QED BY <1>1, <1>8, <2>1 DEF AnswererKept, Resolver
<1>12. DecisionInv' /\ ReaderInv'
  BY <1>5, <1>6, <1>10, <1>11, KeptStep DEF Answered, Disposed
<1> QED BY <1>6, <1>9, <1>12 DEF Answered

LEMMA ConfigureView ==
  ASSUME Typed, NEW o \in Ops
  PROVE  LET t == Configure(s, o, TRUE).s
         IN /\ t.decisions = s.decisions /\ t.life = s.life
            /\ t.op.id = s.op.id /\ t.op.msg = s.op.msg
            /\ t.op.startup = s.op.startup /\ t.op.stage = s.op.stage
            /\ s.op.id # o => t.op = s.op
<1>1. s \in CoordinatorState /\ s.op \in Operation
  BY Known
<1>2. CASE Configure(s, o, TRUE).s = s
  BY <1>2
<1>3. CASE Configure(s, o, TRUE).s = [s EXCEPT !.op.compaction = TRUE]
           /\ s.op.id = o
  <2> DEFINE t == Configure(s, o, TRUE).s
  <2>1. t = [s EXCEPT !.op.compaction = TRUE] /\ s.op.id = o
    BY <1>3
  <2> HIDE DEF t
  <2>2. t.decisions = s.decisions /\ t.life = s.life
        /\ t.op = [s.op EXCEPT !.compaction = TRUE]
    BY <1>1, <2>1 DEF CoordinatorState
  <2>3. /\ t.op.id = s.op.id /\ t.op.msg = s.op.msg
        /\ t.op.startup = s.op.startup /\ t.op.stage = s.op.stage
    BY <1>1, <2>2 DEF Operation
  <2> QED BY <2>1, <2>2, <2>3 DEF t
<1> QED BY <1>2, <1>3 DEF Configure, Alive, Ignored, Result

LEMMA ConfigureAnswered ==
  ASSUME Typed, Owned, Answered, NEW o \in Ops, ConfigureOperation(o)
  PROVE  Answered'
<1> DEFINE t == Configure(s, o, TRUE).s
<1>1. /\ CanCall /\ engine[o] = "off" /\ Quietly(t, {})
      /\ UNCHANGED <<producer, engine, outcome>>
  BY SettlesLittle DEF ConfigureOperation, Quiet, session
<1>2. /\ t.decisions = s.decisions /\ t.life = s.life
      /\ t.op.id = s.op.id /\ t.op.msg = s.op.msg
      /\ t.op.startup = s.op.startup /\ t.op.stage = s.op.stage
      /\ s.op.id # o => t.op = s.op
  BY ConfigureView
<1>3. outcome[o] = "none"
  BY <1>1, NoOutcome
<1> HIDE DEF t
<1>4. /\ s' = t /\ PromptInv' /\ Settles' = {} /\ Settles = {}
      /\ promises' = promises /\ \A x \in Readers : reading'[x] = reading[x]
  BY <1>1, <1>2, QuietKept
<1>5. MessageInv'
  BY <1>1, <1>2, <1>4 DEF MessageInv, Answered
<1>6. SpentKept
  BY <1>1, <1>2, <1>3, <1>4, SpentStep DEF Disposed
<1>7. AnswererKept(Pending(s.decisions))
  BY <1>1, SameAnswerers
<1>8. DecisionInv' /\ ReaderInv'
  BY <1>2, <1>4, <1>6, <1>7, KeptStep DEF Answered, Disposed
<1> QED BY <1>4, <1>5, <1>8 DEF Answered

LEMMA StartingView ==
  ASSUME Typed, NEW o \in Ops
  PROVE  LET t == Starting(s, o, StartupMsg(o)).s
         IN /\ t.decisions = s.decisions /\ t.life = s.life
            /\ t.op.id = s.op.id /\ t.op.msg = s.op.msg
            /\ t.op.compaction = s.op.compaction /\ t.op.stage = s.op.stage
            /\ IF t.op.startup = s.op.startup THEN TRUE
               ELSE s.op.id = o /\ t.op.startup = StartupMsg(o)
<1>1. s \in CoordinatorState /\ s.op \in Operation
  BY Known
<1>2. CASE Starting(s, o, StartupMsg(o)).s = s
  BY <1>2
<1>3. CASE /\ Starting(s, o, StartupMsg(o)).s
                = [s EXCEPT !.op.startup = StartupMsg(o)]
           /\ s.op.id = o
  BY <1>1, <1>3 DEF CoordinatorState, Operation
<1> QED BY <1>2, <1>3 DEF Starting, Alive, Ignored, Result

LEMMA StartingAnswered ==
  ASSUME Typed, Owned, Answered, NEW o \in Ops, StreamStarting(o)
  PROVE  Answered'
<1> DEFINE t == Starting(s, o, StartupMsg(o)).s
<1>1. /\ CanCall /\ engine[o] = "off" /\ Quietly(t, {})
      /\ engine' = [engine EXCEPT ![o] = "handed"]
      /\ UNCHANGED <<producer, outcome>>
  BY SettlesLittle DEF StreamStarting, Quiet, Becomes
<1>2. /\ t.decisions = s.decisions /\ t.life = s.life
      /\ t.op.id = s.op.id /\ t.op.msg = s.op.msg
      /\ t.op.compaction = s.op.compaction /\ t.op.stage = s.op.stage
      /\ IF t.op.startup = s.op.startup THEN TRUE
         ELSE s.op.id = o /\ t.op.startup = StartupMsg(o)
  BY StartingView
<1>3. outcome[o] = "none"
  BY <1>1, NoOutcome
<1> HIDE DEF t
<1>4. /\ s' = t /\ PromptInv' /\ Settles' = {} /\ Settles = {}
      /\ promises' = promises /\ \A x \in Readers : reading'[x] = reading[x]
  BY <1>1, <1>2, QuietKept
<1>5. \A p \in Ops : engine'[p] = IF p = o THEN "handed" ELSE engine[p]
  BY <1>1, Known DEF SessionTypes
<1>6. MessageInv'
  BY <1>1, <1>2, <1>3, <1>4, <1>5 DEF MessageInv, Answered
<1>7. SpentKept
  BY <1>1, <1>2, <1>4, SpentStep DEF Disposed
<1>8. AnswererKept(Pending(s.decisions))
  BY <1>1, <1>5 DEF AnswererKept, Resolver
<1>9. DecisionInv' /\ ReaderInv'
  BY <1>2, <1>4, <1>7, <1>8, KeptStep DEF Answered, Disposed
<1> QED BY <1>4, <1>6, <1>9 DEF Answered

(* A start-up is stopped, fails or hands its stream over.                  *)
LEMMA StartupAbortsAnswered ==
  ASSUME Typed, Owned, Answered, NEW o \in Ops, StartupAborts(o)
  PROVE  Answered'
<1> DEFINE t == StartupAbort(s, StartupMsg(o)).s
<1>1. /\ CanCall /\ engine[o] = "handed" /\ Quietly(t, {}) /\ ~Doomed(o)
      /\ engine' = [engine EXCEPT ![o] = "ended"]
      /\ outcome' = [outcome EXCEPT ![o] = "cancelled"]
      /\ UNCHANGED producer
  BY SettlesLittle DEF StartupAborts, Quiet, Ended, Becomes
<1>2. t.decisions = s.decisions /\ t.life = s.life /\ SameStream(s, t)
      /\ t.op.id = s.op.id
  BY AbortStream
<1>3. outcome[o] = "none"
  BY <1>1, NoOutcome
<1> HIDE DEF t
<1>4. /\ s' = t /\ PromptInv' /\ Settles' = {} /\ Settles = {}
      /\ promises' = promises /\ \A x \in Readers : reading'[x] = reading[x]
  BY <1>1, <1>2, QuietKept
<1>5. \A p \in Ops : /\ engine'[p] = IF p = o THEN "ended" ELSE engine[p]
                     /\ outcome'[p] = IF p = o THEN "cancelled" ELSE outcome[p]
  BY <1>1, Known DEF SessionTypes
<1>6. MessageInv'
  <2>1. \A p \in Ops : p # None
    BY MessageIds
  <2> QED BY <1>2, <1>4, <1>5, <2>1 DEF MessageInv, Answered, SameStream
<1>7. SpentKept
  <2>1. \A p \in Ops : p # None
    BY MessageIds
  <2> QED BY <1>1, <1>2, <1>3, <1>4, <1>5, <2>1, SpentStep
          DEF Disposed, SameStream
<1>8. AnswererKept(Pending(s.decisions))
  <2>1. \A d \in Pending(s.decisions) : ~Resolver(d, o)
    BY <1>1, <1>3 DEF Resolver, Doomed, DecisionsOn, Pending
  <2> QED BY <1>1, <1>5, <2>1 DEF AnswererKept, Resolver
<1>9. DecisionInv' /\ ReaderInv'
  BY <1>2, <1>4, <1>7, <1>8, KeptStep DEF Answered, Disposed
<1> QED BY <1>4, <1>6, <1>9 DEF Answered

(* Only the producer of an operation moves on.                             *)
LEMMA ProducerAnswered ==
  ASSUME Answered, CanCall, UNCHANGED <<s, stack, promises, reading>>,
         MessageInv', SpentKept, AnswererKept(Pending(s.decisions))
  PROVE  Answered'
<1>1. Settles' = {} /\ Settles = {} /\ PromptInv'
  BY StillCalm, CalmNow, CalmNext
<1>2. s'.decisions = s.decisions /\ (Disposed' <=> Disposed)
      /\ \A x \in Readers : reading'[x] = reading[x]
  BY DEF Disposed
<1>3. DecisionInv' /\ ReaderInv'
  BY <1>1, <1>2, KeptStep DEF Answered
<1> QED BY <1>1, <1>3 DEF Answered

LEMMA ProducersAnswered ==
  ASSUME Typed, Owned, Answered, NEW o \in Ops,
         \/ StartupFails(o) \/ DeliverHandle(o) \/ HandlerClears(o)
         \/ FinishStartup(o)
  PROVE  Answered'
<1> USE DEF Answered
<1>1. /\ CanCall /\ UNCHANGED <<s, stack, promises, reading, outcome>>
  BY EmptyStack DEF StartupFails, DeliverHandle, HandlerClears, FinishStartup,
     Produce, recovery
<1>2. /\ producer \in [Ops -> ProducerStates] /\ ProducerInv(o)
      /\ engine \in [Ops -> {"off", "handed", "live", "ended"}]
  BY Known, OwnInv DEF SessionTypes
<1>3. CASE StartupFails(o)
  <2>1. /\ producer[o] = "starting" /\ engine[o] \in {"off", "handed"}
        /\ \A p \in Ops :
              /\ producer'[p] = IF p = o THEN "failing" ELSE producer[p]
              /\ engine'[p] = IF p = o THEN "ended" ELSE engine[p]
    BY <1>2, <1>3 DEF StartupFails, Produce, Becomes
  <2>2. outcome[o] = "none"
    BY <1>2, <2>1 DEF ProducerInv
  <2>3. MessageInv'
    BY <1>1, <2>1, <2>2 DEF MessageInv
  <2>4. SpentKept
    BY <1>1, <2>1, <2>2, SpentStep DEF Disposed
  <2>5. AnswererKept(Pending(s.decisions))
    BY <1>1, <2>1, <2>2 DEF AnswererKept, Resolver
  <2> QED BY <1>1, <2>3, <2>4, <2>5, ProducerAnswered
<1>4. CASE DeliverHandle(o)
  <2>1. /\ producer[o] = "starting"
        /\ engine[o] = "live" \/ outcome[o] # "none"
        /\ \A p \in Ops :
              producer'[p] = IF p = o THEN "consuming" ELSE producer[p]
        /\ engine' = engine
    BY <1>2, <1>4 DEF DeliverHandle, Produce, Becomes
  <2>2. MessageInv'
    BY <1>1, <2>1 DEF MessageInv
  <2>3. SpentKept
    BY <1>1, <2>1, SpentStep DEF Disposed, Past
  <2>4. AnswererKept(Pending(s.decisions))
    BY <1>1, <2>1 DEF AnswererKept, Resolver
  <2> QED BY <1>1, <2>2, <2>3, <2>4, ProducerAnswered
<1>5. CASE HandlerClears(o)
  <2>1. /\ producer[o] = "policy"
        /\ \A p \in Ops :
              producer'[p] = IF p = o THEN "handled" ELSE producer[p]
        /\ engine' = engine
    BY <1>2, <1>5 DEF HandlerClears, Becomes
  <2>2. MessageInv'
    BY <1>1, <2>1 DEF MessageInv
  <2>3. SpentKept
    BY <1>1, <2>1, SpentStep DEF Disposed, Past
  <2>4. AnswererKept(Pending(s.decisions))
    BY <1>1, <2>1 DEF AnswererKept, Resolver
  <2> QED BY <1>1, <2>2, <2>3, <2>4, ProducerAnswered
<1>6. CASE FinishStartup(o)
  <2>1. /\ \/ producer[o] = "finishing"
           \/ producer[o] = "failing" /\ PendingOn(StartupMsg(o)) = {}
        /\ \A p \in Ops :
              producer'[p] = IF p = o THEN "done" ELSE producer[p]
        /\ engine' = engine
    BY <1>2, <1>6 DEF FinishStartup, Becomes
  <2>2. MessageInv'
    BY <1>1, <2>1 DEF MessageInv
  <2>3. SpentKept
    BY <1>1, <2>1, SpentStep DEF Disposed, Past
  <2>4. \A d \in Pending(s.decisions) : ~Resolver(d, o)
    <3> SUFFICES ASSUME NEW d \in Pending(s.decisions), Resolver(d, o)
                 PROVE  FALSE
      OBVIOUS
    <3>1. producer[o] = "failing" /\ outcome[o] = "none"
      BY <1>2, <2>1 DEF Resolver, ProducerInv
    <3>2. d.msg = StartupMsg(o)
      BY <3>1 DEF Resolver
    <3>3. ~Disposed /\ d \in s.decisions /\ d.outcome = "pending"
      BY DEF DecisionInv, Pending
    <3> QED BY <2>1, <3>1, <3>2, <3>3 DEF PendingOn, Disposed
  <2>5. AnswererKept(Pending(s.decisions))
    BY <1>1, <2>1, <2>4 DEF AnswererKept, Resolver
  <2> QED BY <1>1, <2>2, <2>3, <2>5, ProducerAnswered
<1> QED BY <1>3, <1>4, <1>5, <1>6

(* A stream registers: its start-up has reported no error.                 *)
LEMMA StreamStartedAnswered ==
  ASSUME Typed, Owned, Answered, NEW o \in Ops, StreamStarted(o)
  PROVE  Answered'
<1> USE DEF Answered
<1> DEFINE r == Started(s, StreamMsg(o))
<1>1. /\ CanCall /\ Preempted = {} /\ engine[o] = "handed"
      /\ producer[o] = "starting" /\ home[o] \notin aborted /\ ~Doomed(o)
      /\ DispatchFrom(r, prepared, idleWaiters, unbusyWaiters, "none", None)
      /\ engine' = [engine EXCEPT ![o] = "live"]
      /\ UNCHANGED <<promises, reading, producer, outcome>>
  BY EmptyStack
     DEF StreamStarted, Call, Dispatch, recovery, Becomes
<1>2. /\ s \in CoordinatorState /\ Types /\ StreamMsg(o) \in Nat
      /\ s.op \in Operation /\ outcome[o] = "none"
  BY <1>1, Known, MessageIds, NoOutcome
<1>3. ~Disposed => /\ s.op.id = o /\ s.op.delivery = "waiting"
                   /\ s.op.stage = "registered" /\ s.life # "disposed"
  <2>1. StartInv(o) /\ CurrentInv(o)
    BY OwnInv
  <2> QED BY <1>1, <2>1 DEF StartInv, CurrentInv, MessageInv, Disposed
<1>4. ~Disposed => /\ r.s.life = s.life /\ r.s.decisions = s.decisions
                   /\ r.s.op = [s.op EXCEPT !.stage = "started",
                                            !.msg = StreamMsg(o)]
                   /\ Polite(None, r.cmds)
  <2>1. o # None
    BY MessageIds
  <2> QED BY <1>2, <1>3, <2>1, StartedView DEF MovesTo
<1>5. Disposed => r = Ignored(s)
  BY DEF Started, Alive, Disposed
<1>6. r.cmds \in Seq(Command)
  BY <1>2, StartedRegular DEF Regular
<1> HIDE DEF r
<1>7. /\ r.s.life = s.life /\ r.s.decisions = s.decisions
      /\ Polite(None, r.cmds)
  BY <1>4, <1>5, IgnoredCall
<1>8. s' = r.s /\ Calm /\ Calm'
  BY <1>1, <1>2, <1>6, <1>7, DispatchCalm
<1>9. PromptInv' /\ Settles' = {} /\ Settles = {}
  BY <1>8, CalmNow, CalmNext
<1>10. \A p \in Ops : engine'[p] = IF p = o THEN "live" ELSE engine[p]
  BY <1>1, Known DEF SessionTypes
<1>11. /\ s'.op.id = s.op.id /\ s'.op.compaction = s.op.compaction
       /\ s'.op.startup = s.op.startup
       /\ ~Disposed => s'.op.id = o /\ s'.op.msg = StreamMsg(o)
       /\ Disposed => s'.op.id = None
  <2>1. CASE Disposed
    BY <1>5, <1>8, <2>1, IgnoredCall DEF Owned, PhaseInv
  <2>2. CASE ~Disposed
    BY <1>2, <1>3, <1>4, <1>8, <2>2 DEF Operation
  <2> QED BY <2>1, <2>2
<1>12. MessageInv'
  <2>1. \A p \in Ops : p # None
    BY MessageIds
  <2> QED BY <1>1, <1>2, <1>3, <1>10, <1>11, <2>1 DEF MessageInv
<1>13. SpentKept
  BY <1>1, <1>7, <1>8, <1>11, SpentStep DEF Disposed
<1>14. AnswererKept(Pending(s.decisions))
  <2>1. \A d \in Pending(s.decisions) : ~Resolver(d, o)
    BY <1>1, <1>2 DEF Resolver, Doomed, DecisionsOn, Pending
  <2> QED BY <1>1, <1>10, <2>1 DEF AnswererKept, Resolver
<1>15. DecisionInv' /\ ReaderInv'
  BY <1>1, <1>7, <1>8, <1>9, <1>13, <1>14, KeptStep DEF Disposed
<1> QED BY <1>9, <1>12, <1>15

-----------------------------------------------------------------------------
(* Decisions that an event opens.                                          *)

(* The decision that is opened, and its event.                             *)
Fresh(kind, m) == [kind |-> kind, msg |-> m, outcome |-> "pending"]

LEMMA FreshDecision ==
  ASSUME NEW kind \in DecisionKinds, NEW m \in Nat
  PROVE  /\ Fresh(kind, m) \in Decision /\ Fresh(kind, m).kind = kind
         /\ Fresh(kind, m).msg = m /\ Fresh(kind, m).outcome = "pending"
         /\ KeyOf(Fresh(kind, m)) = << kind, m >>
BY DecisionTypes DEF KeyOf, Fresh

LEMMA KnownDecision ==
  ASSUME NEW kind, NEW m, NEW V,
         Disposed \/ DecisionsOn(s, kind, m) # {}
  PROVE  BeginDecision(s, kind, m, V) = Ignored(s)
BY DEF BeginDecision, Alive, Disposed

LEMMA NewDecision ==
  ASSUME Typed, NEW kind \in DecisionKinds, NEW m \in Nat,
         NEW V \in SUBSET s.decisions,
         ~Disposed, DecisionsOn(s, kind, m) = {}
  PROVE  LET r == BeginDecision(s, kind, m, V)
         IN /\ r.s.decisions = (s.decisions \ V) \cup {Fresh(kind, m)}
            /\ r.s.life = s.life /\ r.s.op = s.op
            /\ r.cmds = << Settle({Fresh(kind, m)}) >>
            /\ SettlesOf(r) = {Fresh(kind, m)}
            /\ \A e \in s.decisions : KeyOf(e) # KeyOf(Fresh(kind, m))
<1> DEFINE d == Fresh(kind, m)
           r == BeginDecision(s, kind, m, V)
           t == [s EXCEPT !.decisions = (@ \ V) \cup {d}]
<1>1. r = Result(t, << Settle({d}) >>)
  BY DEF BeginDecision, Alive, Disposed, Fresh
<1>2. SettlesOf(r) = {d}
  BY <1>1, SettlesOne
<1>3. t.decisions = (s.decisions \ V) \cup {d} /\ t.life = s.life
      /\ t.op = s.op
  BY Known DEF CoordinatorState
<1>4. \A e \in s.decisions : KeyOf(e) # KeyOf(d)
  BY FreshDecision DEF DecisionsOn, KeyOf
<1> HIDE DEF d, t
<1>5. r.s = t /\ r.cmds = << Settle({d}) >>
  BY <1>1 DEF Result
<1> HIDE DEF r
<1>6. /\ r.s.decisions = (s.decisions \ V) \cup {d}
      /\ r.s.life = s.life /\ r.s.op = s.op
      /\ r.cmds = << Settle({d}) >>
      /\ SettlesOf(r) = {d}
      /\ \A e \in s.decisions : KeyOf(e) # KeyOf(d)
  BY <1>2, <1>3, <1>4, <1>5
<1> QED BY <1>6 DEF d, r

(* Only resolved outcomes make room for a new one.                         *)
LEMMA EvictsResolved ==
  ASSUME NEW kind, NEW V \in Evictions(s, kind)
  PROVE  V \in SUBSET Resolved(s.decisions)
<1>1. Resolved(Errors(s)) \subseteq Resolved(s.decisions)
  BY DEF Resolved, Errors
<1>2. V = {} \/ V \in SUBSET Resolved(Errors(s))
  BY DEF Evictions
<1> QED BY <1>1, <1>2

(* A decision is opened, and its promise with it.                          *)
LEMMA PromiseAdded ==
  ASSUME Typed, DecisionInv, Settles = {}, NEW d, d.outcome = "pending",
         NEW V \in SUBSET Resolved(s.decisions), NEW t,
         t.decisions = (s.decisions \ V) \cup {d}
  PROVE  Settled({d}, t) = promises \cup {KeyOf(d)}
<1>1. Resolved({d}) = {} /\ {d} \ Resolved({d}) = {d}
  BY DEF Resolved
<1>2. Settled({d}, t) = (promises \cup {KeyOf(d)})
                          \cap {KeyOf(e) : e \in t.decisions}
  BY <1>1 DEF Settled
<1>3. ASSUME NEW k \in promises
      PROVE  k \in {KeyOf(e) : e \in t.decisions}
  <2>1. /\ PendingFor(k) \in s.decisions /\ PendingFor(k).outcome = "pending"
        /\ KeyOf(PendingFor(k)) = k
    BY RecoveryKnown, PromisesArePending, PendingKeys
  <2>2. PendingFor(k) \in t.decisions
    BY <2>1 DEF Resolved
  <2> QED BY <2>1, <2>2
<1> QED BY <1>2, <1>3

(* What is pending keeps its promise when a decision is opened or known.   *)
LEMMA OpenAnswered ==
  ASSUME Typed, Answered, NEW kind \in DecisionKinds, NEW m \in Nat,
         NEW V \in SUBSET Resolved(s.decisions),
         Quiet(BeginDecision(s, kind, m, V)),
         \E o \in Ops : Resolver(Fresh(kind, m), o)',
         kind = "compaction" => m \notin Spent,
         MessageInv', SpentKept, AnswererKept(Pending(s.decisions))
  PROVE  Answered'
<1> USE DEF Answered
<1> DEFINE d == Fresh(kind, m)
           r == BeginDecision(s, kind, m, V)
           D == SettlesOf(r)
<1>1. /\ CanCall /\ s' = r.s /\ stack' = stack
      /\ promises' = Settled(D, r.s)
      /\ reading' = Read(reading, D, promises')
  BY DEF Quiet, Quietly
<1>2. /\ Settles' = {} /\ Settles = {} /\ PromptInv'
  BY <1>1, StillCalm, CalmNow, CalmNext
<1>3. /\ d \in Decision /\ d.kind = kind /\ d.msg = m
      /\ d.outcome = "pending"
      /\ IF Disposed \/ DecisionsOn(s, kind, m) # {} THEN r = Ignored(s)
         ELSE /\ \A e \in s.decisions : KeyOf(e) # KeyOf(d)
              /\ r.s.decisions = (s.decisions \ V) \cup {d}
              /\ r.s.life = s.life /\ D = {d}
  <2>1. /\ d \in Decision /\ d.kind = kind /\ d.msg = m
        /\ d.outcome = "pending"
    BY FreshDecision
  <2>2. Disposed \/ DecisionsOn(s, kind, m) # {} => r = Ignored(s)
    BY KnownDecision
  <2>3. ASSUME ~Disposed, DecisionsOn(s, kind, m) = {}
        PROVE  /\ \A e \in s.decisions : KeyOf(e) # KeyOf(d)
               /\ r.s.decisions = (s.decisions \ V) \cup {d}
               /\ r.s.life = s.life /\ D = {d}
    <3>1. V \in SUBSET s.decisions
      BY DEF Resolved
    <3> QED BY <2>3, <3>1, NewDecision
  <2> HIDE DEF d, r, D
  <2> QED BY <2>1, <2>2, <2>3
<1>4. \E o \in Ops : Resolver(d, o)'
  OBVIOUS
<1> HIDE DEF d, D, r
<1>5. CASE r = Ignored(s)
  <2>1. D = {} /\ r.s = s
    BY <1>5, SettlesLittle, IgnoredCall DEF D
  <2>2. /\ s'.decisions = s.decisions /\ (Disposed' <=> Disposed)
        /\ promises' = promises /\ \A x \in Readers : reading'[x] = reading[x]
    <3>1. LET kept == Settled({}, s)
          IN /\ kept = promises
             /\ \A x \in Readers : Read(reading, {}, kept)[x] = reading[x]
      BY <1>2, NothingSettled
    <3> QED BY <1>1, <2>1, <3>1 DEF Disposed
  <2>3. DecisionInv' /\ ReaderInv'
    BY <1>2, <2>2, KeptStep
  <2> QED BY <1>2, <2>3
<1>6. CASE r # Ignored(s)
  <2>1. /\ ~Disposed /\ ~Disposed' /\ D = {d}
        /\ \A e \in s.decisions : KeyOf(e) # KeyOf(d)
        /\ s'.decisions = (s.decisions \ V) \cup {d}
    BY <1>1, <1>3, <1>6 DEF Disposed
  <2>2. promises' = promises \cup {KeyOf(d)}
    <3>1. r.s.decisions = (s.decisions \ V) \cup {d}
      BY <1>1, <2>1
    <3> QED BY <1>1, <1>2, <1>3, <2>1, <3>1, PromiseAdded
  <2>3. \A x \in Readers : reading'[x] = reading[x]
    <3>1. \A x \in Readers :
             reading[x].st = "waiting" => ReaderKey(reading[x]) \in promises'
      BY <2>2 DEF ReaderInv
    <3> QED BY <1>1, <3>1, ReadKeeps
  <2>4. d.kind = "compaction" => d.msg \notin Spent
    BY <1>3
  <2>5. DecisionInv' /\ ReaderInv'
    BY <1>2, <1>3, <1>4, <2>1, <2>2, <2>3, <2>4, OpenStep
  <2> QED BY <1>2, <2>5
<1> QED BY <1>5, <1>6

LEMMA BeginKeeps ==
  ASSUME Typed, NEW kind \in DecisionKinds, NEW m \in Nat,
         NEW V \in SUBSET s.decisions, Quiet(BeginDecision(s, kind, m, V))
  PROVE  s'.op = s.op /\ (Disposed' <=> Disposed)
<1> DEFINE r == BeginDecision(s, kind, m, V)
<1>1. s' = r.s
  BY DEF Quiet, Quietly
<1>2. Disposed \/ DecisionsOn(s, kind, m) # {} => r = Ignored(s)
  BY KnownDecision
<1>3. ASSUME ~Disposed, DecisionsOn(s, kind, m) = {}
      PROVE  r.s.life = s.life /\ r.s.op = s.op
  BY <1>3, NewDecision
<1> HIDE DEF r
<1> QED BY <1>1, <1>2, <1>3, IgnoredCall DEF Disposed

LEMMA PreStartAnswered ==
  ASSUME Typed, Owned, Answered, NEW o \in Ops, PreStartError(o)
  PROVE  Answered'
<1> DEFINE m == StartupMsg(o)
           d == Fresh("error", m)
<1>1. /\ producer[o] = "starting" /\ engine[o] = "handed"
      /\ UNCHANGED <<producer, engine, outcome>>
  BY DEF PreStartError, session
<1>2. PICK V \in Evictions(s, "error") : Quiet(BeginDecision(s, "error", m, V))
  BY DEF PreStartError
<1>3. outcome[o] = "none" /\ m \in Nat /\ "error" \in DecisionKinds
  BY <1>1, NoOutcome, MessageIds DEF DecisionKinds
<1>4. Resolver(d, o)'
  BY <1>1, <1>3 DEF Resolver, Fresh
<1>5. V \in SUBSET Resolved(s.decisions)
  BY EvictsResolved
<1>6. s'.op = s.op /\ (Disposed' <=> Disposed)
  <2>1. V \in SUBSET s.decisions
    BY <1>5 DEF Resolved
  <2> QED BY <1>2, <1>3, <2>1, BeginKeeps
<1>7. SameStream(s, s')
  BY <1>6, MovedStream
<1>8. MessageInv' /\ SpentKept /\ AnswererKept(Pending(s.decisions))
  BY <1>1, <1>6, <1>7, StreamKept, SameSpent, SameAnswerers DEF Answered
<1> HIDE DEF m
<1>9. \E p \in Ops : Resolver(d, p)'
  BY <1>4
<1> QED BY <1>2, <1>3, <1>5, <1>8, <1>9, OpenAnswered

(* A stream ends: nothing was waiting for it, and its consumer is to come. *)
LEMMA EndedFacts ==
  ASSUME Typed, Owned, Answered, NEW o \in Ops, engine[o] = "live",
         NEW how \in {"completed", "aborted", "failed"}, Ended(o, how),
         s'.op = s.op, Disposed' <=> Disposed
  PROVE  /\ MessageInv' /\ SpentKept /\ AnswererKept(Pending(s.decisions))
         /\ outcome[o] = "none" /\ outcome'[o] = how
         /\ producer'[o] \notin {"none", "finishing", "done"}
         /\ UNCHANGED producer
<1>1. /\ outcome[o] = "none"
      /\ UNCHANGED producer /\ producer[o] \in {"starting", "consuming"}
  BY NoOutcome, OwnInv DEF Ended, ProducerInv
<1>2. \A p \in Ops :
         /\ engine'[p] = IF p = o THEN "ended" ELSE engine[p]
         /\ outcome'[p] = IF p = o THEN how ELSE outcome[p]
  BY Known DEF Ended, Becomes, SessionTypes
<1>3. MessageInv'
  BY <1>2 DEF MessageInv, Answered
<1>4. SpentKept
  BY <1>1, <1>2, SpentStep
<1>5. AnswererKept(Pending(s.decisions))
  <2>1. \A d : ~Resolver(d, o)
    BY <1>1 DEF Resolver
  <2> QED BY <1>1, <1>2, <2>1 DEF AnswererKept, Resolver
<1> QED BY <1>1, <1>2, <1>3, <1>4, <1>5

(* An end that opens no decision.                                          *)
LEMMA EndedQuietly ==
  ASSUME Typed, Owned, Answered, NEW o \in Ops, engine[o] = "live",
         NEW how \in {"completed", "aborted", "failed"}, Ended(o, how),
         NEW r, Call(r), r.cmds \in Seq(Command), Polite(None, r.cmds),
         r.s.op = s.op, r.s.decisions = s.decisions, r.s.life = s.life
  PROVE  Answered'
<1>1. /\ CanCall
      /\ DispatchFrom(r, prepared, idleWaiters, unbusyWaiters, "none", None)
      /\ UNCHANGED <<promises, reading>>
  BY DEF Call, Dispatch, recovery
<1>2. s' = r.s /\ Calm /\ Calm'
  BY <1>1, Known, DispatchCalm
<1>3. PromptInv' /\ Settles' = {} /\ Settles = {}
  BY <1>2, CalmNow, CalmNext
<1>4. /\ s'.op = s.op /\ (Disposed' <=> Disposed)
      /\ s'.decisions = s.decisions
      /\ \A x \in Readers : reading'[x] = reading[x]
  BY <1>1, <1>2 DEF Disposed
<1>5. MessageInv' /\ SpentKept /\ AnswererKept(Pending(s.decisions))
  BY <1>4, EndedFacts
<1>6. DecisionInv' /\ ReaderInv'
  BY <1>1, <1>3, <1>4, <1>5, KeptStep DEF Answered
<1> QED BY <1>3, <1>5, <1>6 DEF Answered

LEMMA StreamFailsAnswered ==
  ASSUME Typed, Owned, Answered, NEW o \in Ops, StreamFails(o)
  PROVE  Answered'
<1> DEFINE m == StreamMsg(o)
<1>1. /\ engine[o] = "live" /\ Ended(o, "failed") /\ m \in Nat
      /\ "failed" \in {"completed", "aborted", "failed"}
      /\ "error" \in DecisionKinds
  BY MessageIds DEF StreamFails, DecisionKinds
<1>2. CASE Observing(m)
  <2> DEFINE r == FinishObserved(s, s.turn, m)
  <2>1. Call(r)
    BY <1>2 DEF StreamFails
  <2>2. /\ r.cmds \in Seq(Command) /\ Polite(None, r.cmds)
        /\ r.s.op = s.op /\ r.s.decisions = s.decisions
        /\ r.s.life = s.life
    BY <1>1, ObservedAnswered
  <2> HIDE DEF r
  <2> QED BY <1>1, <2>1, <2>2, EndedQuietly
<1>3. CASE ~Observing(m)
  <2>1. PICK V \in Evictions(s, "error") :
           Quiet(BeginDecision(s, "error", m, V))
    BY <1>3 DEF StreamFails
  <2>2. V \in SUBSET Resolved(s.decisions) /\ V \in SUBSET s.decisions
    BY EvictsResolved DEF Resolved
  <2>3. s'.op = s.op /\ (Disposed' <=> Disposed)
    BY <1>1, <2>1, <2>2, BeginKeeps
  <2>4. /\ MessageInv' /\ SpentKept /\ AnswererKept(Pending(s.decisions))
        /\ outcome[o] = "none" /\ outcome'[o] = "failed"
        /\ producer'[o] \notin {"none", "finishing", "done"}
    BY <1>1, <2>3, EndedFacts
  <2>5. Resolver(Fresh("error", m), o)'
    BY <1>1, <2>4, FreshDecision DEF Resolver, Fresh
  <2>6. \E p \in Ops : Resolver(Fresh("error", m), p)'
    BY <2>5
  <2> HIDE DEF m
  <2> QED BY <1>1, <2>1, <2>2, <2>4, <2>6, OpenAnswered
<1> QED BY <1>2, <1>3

(* The end of a completed compaction stream opens its decision, which the  *)
(* command up next is to settle.                                           *)
LEMMA TerminalAnswered ==
  ASSUME Typed, Owned, Answered, NEW o \in Ops, engine[o] = "live",
         NEW how \in {"completed", "aborted"}, Ended(o, how),
         Call(RawTerminal(s, how, StreamMsg(o)))
  PROVE  Answered'
<1> DEFINE m == StreamMsg(o)
           r == RawTerminal(s, how, m)
           b == BeginDecision(s, "compaction", m, {})
           t == IF how = "completed" /\ s.op.compaction THEN b ELSE Ignored(s)
<1>1. /\ s \in CoordinatorState /\ m \in Nat /\ "compaction" \in DecisionKinds
      /\ how \in {"completed", "aborted", "failed"} /\ Types
  BY Known, MessageIds DEF DecisionKinds
<1>2. r.cmds \in Seq(Command)
  BY <1>1, RawTerminalRegular DEF Regular
<1>3. /\ CanCall
      /\ DispatchFrom(r, prepared, idleWaiters, unbusyWaiters, "none", None)
      /\ UNCHANGED <<promises, reading>>
  BY DEF Call, Dispatch, recovery
<1>4. IF \/ s.life = "disposed" \/ s.op.id = None \/ s.op.msg # m
         \/ s.op.delivery # "waiting"
        THEN r = Ignored(s)
        ELSE /\ r.s.life = s.life /\ r.s.op = s.op
             /\ r.s.decisions = t.s.decisions
             /\ \/ Polite(None, r.cmds) /\ t.cmds = << >>
                \/ /\ r.cmds # << >> /\ << Head(r.cmds) >> = t.cmds
                   /\ Polite(None, Tail(r.cmds))
  BY <1>1, RawTerminalView
<1>5. Call(r)
  OBVIOUS
<1>6. CASE \/ s.life = "disposed" \/ s.op.id = None \/ s.op.msg # m
           \/ s.op.delivery # "waiting"
  <2>1. r = Ignored(s)
    BY <1>4, <1>6
  <2> HIDE DEF r
  <2>2. /\ r.cmds \in Seq(Command) /\ Polite(None, r.cmds)
        /\ r.s.op = s.op /\ r.s.decisions = s.decisions
        /\ r.s.life = s.life
    BY <2>1, IgnoredCall
  <2> QED BY <1>1, <1>5, <2>2, EndedQuietly
<1>7. CASE t = Ignored(s) /\ ~(\/ s.life = "disposed" \/ s.op.id = None
                               \/ s.op.msg # m \/ s.op.delivery # "waiting")
  <2>1. t.s = s /\ t.cmds = << >>
    <3> HIDE DEF t
    <3> QED BY <1>7, IgnoredCall
  <2> HIDE DEF r, t
  <2>2. /\ Polite(None, r.cmds)
        /\ r.s.op = s.op /\ r.s.decisions = s.decisions
        /\ r.s.life = s.life
    BY <1>4, <1>7, <2>1
  <2> QED BY <1>1, <1>2, <1>5, <2>2, EndedQuietly
<1>8. CASE /\ t # Ignored(s) /\ s.life # "disposed" /\ s.op.id # None
           /\ s.op.msg = m /\ s.op.delivery = "waiting"
  <2> DEFINE d == Fresh("compaction", m)
  <2>1. /\ t = b /\ how = "completed"
        /\ ~Disposed /\ DecisionsOn(s, "compaction", m) = {}
    <3>1. Disposed \/ DecisionsOn(s, "compaction", m) # {} => b = Ignored(s)
      BY KnownDecision
    <3> HIDE DEF b
    <3> QED BY <1>8, <3>1
  <2>2. /\ b.s.decisions = (s.decisions \ {}) \cup {d}
        /\ b.cmds = << Settle({d}) >>
        /\ \A e \in s.decisions : KeyOf(e) # KeyOf(d)
    <3>1. {} \in SUBSET s.decisions
      OBVIOUS
    <3> QED BY <1>1, <2>1, <3>1, NewDecision
  <2>3. /\ d \in Decision /\ d.kind = "compaction" /\ d.msg = m
        /\ d.outcome = "pending"
    BY <1>1, FreshDecision
  <2> HIDE DEF r, t, b, d
  <2>4. /\ r.s.life = s.life /\ r.s.op = s.op
        /\ r.s.decisions = (s.decisions \ {}) \cup {d}
        /\ r.cmds # << >> /\ Head(r.cmds) = Settle({d})
    <3>1. t.cmds = << Settle({d}) >>
      BY <2>1, <2>2
    <3>2. t.cmds # << >> /\ t.cmds[1] = Settle({d})
      BY <3>1
    <3>3. r.cmds # << >> /\ << Head(r.cmds) >> = t.cmds
      BY <1>4, <1>8, <3>2
    <3>4. Head(r.cmds) = Settle({d})
      BY <3>1, <3>3
    <3> QED BY <1>4, <1>8, <2>1, <2>2, <3>3, <3>4
  <2>5. s' = r.s /\ NextUp' = {Settle({d})} /\ NextUp = {}
    BY <1>1, <1>2, <1>3, <2>4, DispatchShape, Quiescent
  <2>6. Settles' = {d} /\ Settles = {}
    <3>1. Settle({d}).do = "decisions" /\ Settle({d}).decisions = {d}
      BY DEF Settle, Do
    <3> HIDE DEF d
    <3> QED BY <2>5, <3>1 DEF Settles
  <2>7. /\ s'.op = s.op /\ ~Disposed /\ ~Disposed'
        /\ s'.decisions = (s.decisions \ {}) \cup {d}
    BY <2>1, <2>4, <2>5 DEF Disposed
  <2>8. PromptInv'
    BY <2>3, <2>5, <2>7 DEF PromptInv, Settle, Do, Resolved
  <2>9. /\ MessageInv' /\ SpentKept /\ AnswererKept(Pending(s.decisions))
        /\ outcome[o] = "none" /\ outcome'[o] = how
        /\ producer'[o] \notin {"none", "finishing", "done"}
    BY <1>1, <2>7, EndedFacts
  <2>10. \E p \in Ops : Resolver(d, p)'
    BY <2>1, <2>3, <2>9 DEF Resolver
  <2>11. d.kind = "compaction" => d.msg \notin Spent
    BY <2>3, <2>9, MessagesDiffer DEF Spent, SpentBy
  <2>12. {} \in SUBSET Resolved(s.decisions)
    OBVIOUS
  <2>13. DecisionInv' /\ ReaderInv'
    <3> HIDE DEF m
    <3>1. /\ promises' = promises /\ \A x \in Readers : reading'[x] = reading[x]
      BY <1>3
    <3> QED BY <2>2, <2>3, <2>6, <2>7, <2>9, <2>10, <2>11, <2>12, <3>1, OpenStep
            DEF Answered
  <2> QED BY <2>8, <2>9, <2>13 DEF Answered
<1> HIDE DEF t
<1> QED BY <1>6, <1>7, <1>8

LEMMA StreamEndsAnswered ==
  ASSUME Typed, Owned, Answered, NEW o \in Ops,
         NEW how \in {"completed", "aborted"}, StreamEnds(o, how)
  PROVE  Answered'
<1> DEFINE m == StreamMsg(o)
<1>1. /\ engine[o] = "live" /\ Ended(o, how) /\ m \in Nat
      /\ how \in {"completed", "aborted", "failed"}
  BY MessageIds DEF StreamEnds
<1>2. CASE Observing(m)
  <2> DEFINE r == FinishObserved(s, s.turn, m)
  <2>1. Call(r)
    BY <1>2 DEF StreamEnds
  <2>2. /\ r.cmds \in Seq(Command) /\ Polite(None, r.cmds)
        /\ r.s.op = s.op /\ r.s.decisions = s.decisions
        /\ r.s.life = s.life
    BY <1>1, ObservedAnswered
  <2> HIDE DEF r
  <2> QED BY <1>1, <2>1, <2>2, EndedQuietly
<1>3. CASE ~Observing(m)
  <2>1. Call(RawTerminal(s, how, m))
    BY <1>3 DEF StreamEnds
  <2> QED BY <1>1, <2>1, TerminalAnswered
<1> QED BY <1>2, <1>3

-----------------------------------------------------------------------------
(* Decisions that are answered.                                            *)

LEMMA Fallbacks ==
  ASSUME NEW d \in Decision
  PROVE  KeyOf(Fallback(d)) = KeyOf(d) /\ Fallback(d).outcome # "pending"
BY DEF Decision, Fallback, KeyOf

(* What is still pending on the message of a handle is answered, and its   *)
(* producer is done with it.                                               *)
LEMMA AnswerAllAnswered ==
  ASSUME Typed, Typed', Answered, CanCall, NEW o \in Ops,
         AnswerAll(HandleMsg(o)), producer[o] # "none",
         producer[o] \notin {"starting", "failing"},
         producer' = Becomes(producer, o, "finishing"),
         UNCHANGED <<engine, outcome>>
  PROVE  Answered'
<1> USE DEF Answered
<1> DEFINE m == HandleMsg(o)
           P == PendingOn(m)
           D == {Fallback(d) : d \in P}
           t == [s EXCEPT !.decisions = (@ \ P) \cup D]
<1>1. /\ s' = t /\ stack' = stack /\ promises' = Settled(D, t)
      /\ reading' = Read(reading, D, promises')
  BY DEF AnswerAll, Quietly
<1>2. /\ t.decisions = (s.decisions \ P) \cup D
      /\ t.op = s.op /\ t.life = s.life
  BY Known DEF CoordinatorState
<1>3. /\ P \in SUBSET Pending(s.decisions)
      /\ \A d \in Pending(s.decisions) : d.msg = m => d \in P
      /\ \A d \in P : d.msg = m
  BY DEF PendingOn, Pending, DecisionInv, Disposed
<1>4. \A d \in P : /\ d \in s.decisions /\ d \in Decision
                   /\ KeyOf(Fallback(d)) = KeyOf(d)
                   /\ Fallback(d).outcome # "pending"
  BY <1>3, RecoveryKnown, Fallbacks DEF Pending
<1>5. /\ \A e \in D : /\ e.outcome # "pending"
                      /\ \E d \in P : KeyOf(e) = KeyOf(d)
      /\ \A d \in P : \E e \in D : KeyOf(e) = KeyOf(d)
  BY <1>4
<1>6. \A d, e \in D : KeyOf(d) = KeyOf(e) => d = e
  <2> SUFFICES ASSUME NEW d \in P, NEW e \in P,
                      KeyOf(Fallback(d)) = KeyOf(Fallback(e))
               PROVE  Fallback(d) = Fallback(e)
    OBVIOUS
  <2>1. KeyOf(d) = KeyOf(e)
    BY <1>4
  <2> QED BY <1>4, <2>1 DEF DecisionInv
<1> HIDE DEF P, D, t
<1>7. /\ Settles' = {} /\ Settles = {} /\ PromptInv'
  BY <1>1, StillCalm, CalmNow, CalmNext
<1>8. \A p \in Ops :
         producer'[p] = IF p = o THEN "finishing" ELSE producer[p]
  BY Known DEF SessionTypes, Becomes
<1>9. s'.op = s.op /\ (Disposed' <=> Disposed) /\ SameStream(s, s')
  BY <1>1, <1>2, MovedStream DEF Disposed
<1>10. MessageInv'
  BY <1>9, StreamKept
<1>11. SpentKept
  BY <1>8, <1>9, SpentStep DEF Past
<1>12. AnswererKept(Pending(s.decisions) \ P)
  <2>1. ASSUME NEW d \in Pending(s.decisions) \ P PROVE ~Resolver(d, o)
    BY <1>3 DEF Resolver, HandleMsg, m
  <2> QED BY <1>8, <2>1 DEF AnswererKept, Resolver
<1>13. ASSUME NEW d \in P, d.kind = "compaction" PROVE d.msg \in Spent'
  <2>1. PICK p \in Ops : Resolver(d, p)
    BY <1>3 DEF DecisionInv
  <2>2. d.msg = StreamMsg(p) /\ outcome[p] = "completed"
    BY <1>13, <2>1 DEF Resolver
  <2>3. p = o
    <3>1. d.msg = m
      BY <1>3
    <3>2. m = StartupMsg(o) \/ m = StreamMsg(o)
      BY DEF HandleMsg
    <3> QED BY <2>2, <3>1, <3>2, MessagesDiffer
  <2>4. SpentBy(o)'
    <3>1. producer'[o] = "finishing" /\ outcome'[o] = "completed"
      BY <1>8, <2>2, <2>3
    <3> QED BY <3>1 DEF SpentBy
  <2>5. StreamMsg(o) \in Spent'
    BY <2>4 DEF Spent
  <2> QED BY <2>2, <2>3, <2>5
<1>14. DecisionInv' /\ ReaderInv'
  <2>1. promises' = Settled(D, s')
    BY <1>1
  <2>2. s'.decisions = (s.decisions \ P) \cup D
    BY <1>1, <1>2
  <2> QED
    BY <1>1, <1>3, <1>5, <1>6, <1>7, <1>9, <1>11, <1>12, <1>13, <2>1, <2>2,
       AnswerStep
<1> QED BY <1>7, <1>10, <1>14

(* A completion whose operation is current launches its policy.            *)
LEMMA CompletionAnswered ==
  ASSUME Typed, Typed', Owned, Answered, NEW o \in Ops, CompletionArrives(o)
  PROVE  Answered'
<1> USE DEF Answered
<1>1. /\ stack = << >> /\ CanCall /\ producer[o] = "consuming"
      /\ outcome[o] # "none" /\ UNCHANGED <<engine, outcome>>
  BY EmptyStack DEF CompletionArrives
<1>2. CASE ~IsCurrentOperation(s, o)
  <2>1. AnswerAll(HandleMsg(o)) /\ producer' = Becomes(producer, o, "finishing")
    BY <1>2 DEF CompletionArrives
  <2> QED BY <1>1, <2>1, AnswerAllAnswered
<1>3. CASE IsCurrentOperation(s, o)
  <2> DEFINE m == HandleMsg(o)
             ab == outcome[o] \in {"aborted", "cancelled"}
             r == Completion(s, o, m, ab)
             c == Policy(o, m)
  <2>1. /\ DispatchFrom(r, prepared, idleWaiters, unbusyWaiters, "none", None)
        /\ producer' = Becomes(producer, o,
             IF r.cmds = << >> THEN "finishing" ELSE "launching")
        /\ UNCHANGED <<promises, reading>>
    BY <1>3 DEF CompletionArrives, Dispatch, recovery
  <2>2. /\ s \in CoordinatorState /\ m \in Nat /\ o \in Nat /\ o # None
        /\ Types /\ ab \in BOOLEAN
    BY Known, MessageIds, HandleIds
  <2>3. /\ ~Disposed /\ s.op.id = o /\ s.op.delivery = "waiting"
        /\ s.life # "disposed"
    BY <1>1, <1>3, OwnInv DEF IsCurrentOperation, CurrentInv, Disposed
  <2> HIDE DEF ab, m
  <2>4. /\ r.s.life = s.life /\ r.s.decisions = s.decisions
        /\ r.s.op.id = o /\ r.s.op.msg = m /\ r.s.op.startup = s.op.startup
        /\ r.s.op.compaction = s.op.compaction
        /\ r.s.op.stage = s.op.stage /\ r.cmds = << c >>
    <3>1. LET v == Completion(s, o, m, ab)
          IN /\ MovesTo(s, v.s, s.phase)
             /\ v.s.op.id = o /\ v.s.op.msg = m
             /\ v.s.op.startup = s.op.startup
             /\ v.s.op.compaction = s.op.compaction
             /\ v.s.op.stage = s.op.stage /\ v.cmds = << Policy(o, m) >>
      BY <2>2, <2>3, CompletionView
    <3> QED BY <3>1 DEF MovesTo
  <2>5. c \in Command /\ c.do = "policy" /\ c.id = o
    <3>1. c \in Command
      BY <2>2, CommandTypes
    <3>2. c.do = "policy" /\ c.id = o
      BY DEF Policy, Do
    <3> QED BY <3>1, <3>2
  <2> HIDE DEF r, c
  <2>6. r.cmds \in Seq(Command) /\ r.cmds # << >> /\ Head(r.cmds) = c
    BY <2>4, <2>5
  <2>7. s' = r.s /\ NextUp' = {c}
    BY <1>1, <2>1, <2>2, <2>6, DispatchShape
  <2>8. \A p \in Ops :
           producer'[p] = IF p = o THEN "launching" ELSE producer[p]
    BY <2>1, <2>6, Known DEF SessionTypes, Becomes
  <2>9. ~Disposed' /\ (Disposed' <=> Disposed)
    BY <2>3, <2>4, <2>7 DEF Disposed
  <2>10. Settles' = {} /\ Settles = {}
    BY <1>1, <2>5, <2>7, Quiescent DEF Settles
  <2>11. PromptInv'
    <3>1. IsCurrentOperation(s', o)
      BY <2>2, <2>4, <2>7, <2>9 DEF IsCurrentOperation, Disposed
    <3> QED BY <2>5, <2>7, <3>1 DEF PromptInv
  <2>12. MessageInv'
    <3>1. m = StreamMsg(o) \/ (m = StartupMsg(o) /\ outcome[o] = "cancelled")
      BY DEF m, HandleMsg
    <3>2. engine[o] = "ended"
      BY <1>1, OwnInv DEF ProducerInv
    <3>3. ASSUME NEW p \in Ops, s'.op.id = p PROVE p = o
      BY <2>4, <2>7, <3>3
    <3> QED BY <1>1, <2>3, <2>4, <2>7, <3>1, <3>2, <3>3 DEF MessageInv
  <2>13. SpentKept
    BY <1>1, <2>3, <2>4, <2>7, <2>8, <2>9, SpentStep DEF Past
  <2>14. AnswererKept(Pending(s.decisions))
    BY <1>1, <2>8 DEF AnswererKept, Resolver
  <2>15. DecisionInv' /\ ReaderInv'
    <3>1. /\ s'.decisions = s.decisions /\ promises' = promises
          /\ Settles' = Settles /\ \A x \in Readers : reading'[x] = reading[x]
      BY <2>1, <2>4, <2>7, <2>10
    <3> QED BY <2>9, <2>13, <2>14, <3>1, KeptStep
  <2> QED BY <2>11, <2>12, <2>15
<1> QED BY <1>2, <1>3

LEMMA PolicyReturnsAnswered ==
  ASSUME Typed, Typed', Owned, Answered, NEW o \in Ops, PolicyReturns(o)
  PROVE  Answered'
<1>1. /\ CanCall /\ producer[o] \in {"policy", "handled"}
      /\ AnswerAll(HandleMsg(o))
      /\ producer' = Becomes(producer, o, "finishing")
      /\ UNCHANGED <<engine, outcome>>
  BY EmptyStack DEF PolicyReturns
<1> QED BY <1>1, AnswerAllAnswered

(* A verdict on a pending decision.                                        *)
Judged(kind, m, verdict) == [Fresh(kind, m) EXCEPT !.outcome = verdict]

LEMMA VerdictView ==
  ASSUME Typed, NEW kind, NEW m, NEW verdict
  PROVE  LET old == Fresh(kind, m)
             new == Judged(kind, m, verdict)
             r   == ResolveDecision(s, kind, m, verdict)
         IN IF Disposed \/ old \notin s.decisions THEN r = Ignored(s)
            ELSE /\ r.s.decisions = (s.decisions \ {old}) \cup {new}
                 /\ r.s.op = s.op /\ r.s.life = s.life
                 /\ SettlesOf(r) = {new}
<1> DEFINE old == Fresh(kind, m)
           new == Judged(kind, m, verdict)
           r   == ResolveDecision(s, kind, m, verdict)
           t   == [s EXCEPT !.decisions = (@ \ {old}) \cup {new}]
<1>1. r = IF Disposed \/ old \notin s.decisions THEN Ignored(s)
          ELSE Result(t, << Settle({new}) >>)
  BY DEF ResolveDecision, Alive, Disposed, Fresh, Judged
<1>2. /\ t.decisions = (s.decisions \ {old}) \cup {new}
      /\ t.op = s.op /\ t.life = s.life
  BY Known DEF CoordinatorState
<1> HIDE DEF t, old, new
<1>3. SettlesOf(Result(t, << Settle({new}) >>)) = {new}
  BY SettlesOne
<1>4. Result(t, << Settle({new}) >>).s = t
  BY DEF Result
<1> HIDE DEF r
<1>5. IF Disposed \/ old \notin s.decisions THEN r = Ignored(s)
      ELSE /\ r.s.decisions = (s.decisions \ {old}) \cup {new}
           /\ r.s.op = s.op /\ r.s.life = s.life
           /\ SettlesOf(r) = {new}
  BY <1>1, <1>2, <1>3, <1>4
<1> QED BY <1>5 DEF old, new, r

LEMMA VerdictAnswered ==
  ASSUME Typed, Typed', Answered, NEW o \in Ops, NEW kind \in DecisionKinds,
         NEW m \in {StartupMsg(o), StreamMsg(o)}, NEW verdict \in Verdicts,
         ResolveVerdict(o, kind, m, verdict)
  PROVE  Answered'
<1> USE DEF Answered
<1> DEFINE old == Fresh(kind, m)
           new == Judged(kind, m, verdict)
           r   == ResolveDecision(s, kind, m, verdict)
<1>1. /\ CanCall /\ Quietly(r.s, SettlesOf(r))
      /\ kind = "compaction" => producer[o] = "handled"
      /\ UNCHANGED <<producer, engine, outcome>>
  BY DEF ResolveVerdict, Quiet, session
<1>2. IF Disposed \/ old \notin s.decisions THEN r = Ignored(s)
      ELSE /\ r.s.decisions = (s.decisions \ {old}) \cup {new}
           /\ r.s.op = s.op /\ r.s.life = s.life
           /\ SettlesOf(r) = {new}
  BY VerdictView
<1>3. /\ old.outcome = "pending" /\ old.kind = kind /\ old.msg = m
      /\ new.outcome # "pending" /\ KeyOf(new) = KeyOf(old)
  BY DEF Fresh, Judged, KeyOf, Verdicts
<1> HIDE DEF old, new, r
<1>4. CASE r = Ignored(s)
  <2>1. Quietly(s, {})
    BY <1>1, <1>4, SettlesLittle, IgnoredCall
  <2>2. SameStream(s, s) /\ (s.life = "disposed" <=> Disposed)
    BY StillStream DEF Disposed
  <2> QED BY <1>1, <2>1, <2>2, QuietBeside
<1>5. CASE ~Disposed /\ old \in s.decisions
  <2>1. /\ s' = r.s /\ stack' = stack /\ promises' = Settled({new}, s')
        /\ reading' = Read(reading, {new}, promises')
    BY <1>1, <1>2, <1>5 DEF Quietly
  <2>2. /\ Settles' = {} /\ Settles = {} /\ PromptInv'
    BY <1>1, <2>1, StillCalm, CalmNow, CalmNext
  <2>3. /\ s'.decisions = (s.decisions \ {old}) \cup {new}
        /\ s'.op = s.op /\ (Disposed' <=> Disposed)
    BY <1>2, <1>5, <2>1 DEF Disposed
  <2>4. SameStream(s, s')
    BY <2>3, MovedStream
  <2>5. MessageInv' /\ SpentKept /\ AnswererKept(Pending(s.decisions) \ {old})
    BY <1>1, <2>3, <2>4, StreamKept, SameSpent, SameAnswerers
  <2>6. {old} \in SUBSET Pending(s.decisions)
    BY <1>3, <1>5 DEF Pending
  <2>7. ASSUME kind = "compaction" PROVE m \in Spent'
    <3>1. PICK p \in Ops : Resolver(old, p)
      BY <2>6 DEF DecisionInv
    <3>2. m = StreamMsg(p) /\ outcome[p] = "completed"
      BY <1>3, <2>7, <3>1 DEF Resolver
    <3>3. p = o
      BY <3>2, MessagesDiffer
    <3>4. producer'[o] = "handled" /\ outcome'[o] = "completed"
      BY <1>1, <2>7, <3>2, <3>3
    <3>5. SpentBy(o)'
      BY <3>4 DEF SpentBy
    <3>6. StreamMsg(o) \in Spent'
      BY <3>5 DEF Spent
    <3> QED BY <3>2, <3>3, <3>6
  <2>8. /\ \A e \in {new} : e.outcome # "pending"
                            /\ \E d \in {old} : KeyOf(e) = KeyOf(d)
        /\ \A d \in {old} : \E e \in {new} : KeyOf(e) = KeyOf(d)
        /\ \A d, e \in {new} : KeyOf(d) = KeyOf(e) => d = e
        /\ \A d \in {old} : d.kind = "compaction" => d.msg \in Spent'
    BY <1>3, <2>7
  <2>9. DecisionInv' /\ ReaderInv'
    BY <2>1, <2>2, <2>3, <2>5, <2>6, <2>8, AnswerStep
  <2> QED BY <2>2, <2>5, <2>9
<1> QED BY <1>2, <1>4, <1>5

LEMMA OperationsAnswered ==
  ASSUME Typed, Owned, Answered, NEW o \in Ops, Operations(o) PROVE Answered'
<1>1. CASE ConfigureOperation(o) \/ StreamStarting(o) \/ StreamStarted(o)
  BY <1>1, ConfigureAnswered, StartingAnswered, StreamStartedAnswered
<1>2. ASSUME NEW how \in {"completed", "aborted"}, StreamEnds(o, how)
      PROVE  Answered'
  BY <1>2, StreamEndsAnswered
<1>3. CASE StreamFails(o) \/ StartupAborts(o) \/ PreStartError(o)
  BY <1>3, StreamFailsAnswered, StartupAbortsAnswered, PreStartAnswered
<1>4. CASE StartupFails(o) \/ DeliverHandle(o)
  BY <1>4, ProducersAnswered
<1> QED BY <1>1, <1>2, <1>3, <1>4 DEF Operations

LEMMA CompletionsAnswered ==
  ASSUME Typed, Typed', Owned, Answered, NEW o \in Ops, Completions(o)
  PROVE  Answered'
<1>1. CASE CompletionArrives(o) \/ PolicyReturns(o)
  BY <1>1, CompletionAnswered, PolicyReturnsAnswered
<1>2. CASE HandlerClears(o) \/ FinishStartup(o)
  BY <1>2, ProducersAnswered
<1>3. CASE BeginPolicy(o) \/ FinishTurn(o)
  BY <1>3, PhaseMovesAnswered
<1>4. ASSUME NEW m \in {StartupMsg(o), StreamMsg(o)},
             \/ \E v \in {"terminal", "retry-started"} :
                   ResolveVerdict(o, "error", m, v)
             \/ \E v \in {"accepted", "declined"} :
                   ResolveVerdict(o, "compaction", m, v)
      PROVE  Answered'
  <2>1. "error" \in DecisionKinds /\ "compaction" \in DecisionKinds
    BY DEF DecisionKinds
  <2>2. PICK k \in DecisionKinds, v \in Verdicts : ResolveVerdict(o, k, m, v)
    BY <1>4, <2>1 DEF Verdicts
  <2> QED BY <2>2, VerdictAnswered
<1> QED BY <1>1, <1>2, <1>3, <1>4 DEF Completions

-----------------------------------------------------------------------------
(* The readers of decisions.                                               *)

LEMMA SameProgress ==
  ASSUME s'.op = s.op, Disposed' <=> Disposed, MessageInv,
         UNCHANGED <<producer, engine, outcome>>, NEW D
  PROVE  MessageInv' /\ SpentKept /\ AnswererKept(D)
<1>1. SameStream(s, s')
  BY MovedStream
<1> QED BY <1>1, StreamKept, SameSpent, SameAnswerers

(* One reader turns to another decision.                                   *)
LEMMA ReadStep ==
  ASSUME Typed, Answered, CanCall, NEW x \in Readers, NEW rd,
         reading' = [reading EXCEPT ![x] = rd],
         rd.st = "waiting" => ReaderKey(rd) \in promises,
         rd.st \in {"waiting", "answered"},
         rd.st = "answered" /\ rd.kind = "compaction" =>
            rd.msg \in Spent /\ PendingFor(ReaderKey(rd)) \notin s.decisions,
         UNCHANGED <<s, stack, promises, producer, engine, outcome>>
  PROVE  Answered'
<1> USE DEF Answered
<1>1. Settles' = {} /\ Settles = {} /\ PromptInv'
  BY StillCalm, CalmNow, CalmNext
<1>2. s'.op = s.op /\ s'.decisions = s.decisions /\ (Disposed' <=> Disposed)
  BY DEF Disposed
<1>3. MessageInv' /\ SpentKept /\ AnswererKept(Pending(s.decisions))
  BY <1>2, SameProgress
<1>4. DecisionInv'
  BY <1>1, <1>2, <1>3, KeptDecisions
<1>5. ReaderInv'
  <2> SUFFICES ASSUME NEW y \in Readers
               PROVE  /\ reading'[y].st # "orphaned"
                      /\ reading'[y].st = "waiting" =>
                            ReaderKey(reading'[y]) \in promises'
                      /\ reading'[y].st = "answered"
                            /\ reading'[y].kind = "compaction" =>
                           /\ reading'[y].msg \in Spent'
                           /\ PendingFor(ReaderKey(reading'[y]))
                                \notin s'.decisions
    BY DEF ReaderInv
  <2>1. reading'[y] = IF y = x THEN rd ELSE reading[y]
    BY RecoveryKnown
  <2>2. CASE y = x
    BY <1>3, <2>1, <2>2 DEF SpentKept
  <2>3. CASE y # x
    BY <1>3, <2>1, <2>3 DEF SpentKept, ReaderInv
  <2> QED BY <2>2, <2>3
<1> QED BY <1>1, <1>3, <1>4, <1>5

LEMMA ReadErrorAnswered ==
  ASSUME Typed, Answered, NEW x \in Readers, NEW m, ReadError(x, m)
  PROVE  Answered'
<1> DEFINE rd == [st |-> "waiting", kind |-> "error", msg |-> m]
<1>1. /\ CanCall /\ << "error", m >> \in promises
      /\ reading' = [reading EXCEPT ![x] = rd]
      /\ UNCHANGED <<s, stack, promises, producer, engine, outcome>>
  BY EmptyStack DEF ReadError, session
<1>2. rd.st = "waiting" /\ ReaderKey(rd) = << "error", m >>
  BY DEF ReaderKey
<1> HIDE DEF rd
<1> QED BY <1>1, <1>2, ReadStep

(* A caller that may not open a decision finds it pending, or finds its    *)
(* stream spent.                                                           *)
LEMMA ReadIgnored ==
  ASSUME Typed, Owned, Answered, Settles = {}, NEW o \in Ops,
         outcome[o] = "completed", NEW m, m = StreamMsg(o),
         \/ ~RequestActive \/ ~OwnStream(m) \/ Disposed
         \/ DecisionsOn(s, "compaction", m) # {},
         << "compaction", m >> \notin promises
  PROVE  /\ m \in Spent
         /\ PendingFor(<< "compaction", m >>) \notin s.decisions
<1> USE DEF Answered
<1>1. \A d \in s.decisions :
         KeyOf(d) = << "compaction", m >> => d.outcome # "pending"
  BY PromisesArePending DEF Pending
<1>2. PendingFor(<< "compaction", m >>) \notin s.decisions
  BY <1>1 DEF PendingFor, KeyOf
<1>3. CASE SpentBy(o)
  <2>1. StreamMsg(o) \in Spent
    BY <1>3 DEF Spent
  <2> QED BY <1>2, <2>1
<1>4. CASE ~SpentBy(o)
  <2>1. /\ ~Disposed /\ s.op.id = o /\ s.op.compaction
        /\ producer[o] \notin {"handled", "finishing", "done"}
    BY <1>4 DEF SpentBy
  <2>2. producer[o] # "failing"
    BY OwnInv DEF ProducerInv
  <2>3. RequestActive
    BY <2>1, <2>2 DEF RequestActive
  <2>4. OwnStream(m)
    BY <2>1 DEF OwnStream, MessageInv
  <2>5. PICK d \in s.decisions : d.kind = "compaction" /\ d.msg = m
    BY <2>1, <2>3, <2>4 DEF DecisionsOn
  <2>6. d \in Resolved(s.decisions)
    BY <1>1, <2>5 DEF KeyOf, Resolved
  <2> QED BY <1>2, <2>5, <2>6 DEF DecisionInv
<1> QED BY <1>2, <1>3, <1>4

(* A caller that opens the decision asks about the current operation's     *)
(* completed stream, which nobody has answered for.                        *)
LEMMA ReadOpens ==
  ASSUME Typed, Owned, Answered, NEW o \in Ops,
         outcome[o] = "completed", NEW m, m = StreamMsg(o),
         RequestActive, OwnStream(m), ~Disposed
  PROVE  Resolver(Fresh("compaction", m), o) /\ m \notin Spent
<1> USE DEF Answered
<1>1. PICK p \in Ops : /\ s.op.id = p /\ s.op.compaction
                       /\ producer[p] \notin {"handled", "finishing",
                                              "failing", "done"}
  BY DEF RequestActive
<1>2. m \in {None, StreamMsg(p), StartupMsg(p)}
  BY <1>1 DEF OwnStream, MessageInv
<1>3. p = o
  BY <1>2, MessageIds, MessagesDiffer
<1>4. producer[o] # "none"
  BY OwnInv DEF ProducerInv
<1>5. Resolver(Fresh("compaction", m), o)
  BY <1>1, <1>3, <1>4 DEF Resolver, Fresh
<1>6. ~SpentBy(o)
  BY <1>1, <1>3 DEF SpentBy
<1>7. m \notin Spent
  BY <1>6, MessagesDiffer DEF Spent
<1> QED BY <1>5, <1>7

LEMMA ReadCompactionAnswered ==
  ASSUME Typed, Owned, Answered, NEW x \in Readers, NEW m,
         ReadCompaction(x, m)
  PROVE  Answered'
<1> USE DEF Answered
<1> DEFINE b  == BeginDecision(s, "compaction", m, {})
           may == RequestActive /\ OwnStream(m)
           r  == IF may THEN b ELSE Ignored(s)
           k  == << "compaction", m >>
           rd == [st |-> IF k \in promises' THEN "waiting" ELSE "answered",
                  kind |-> "compaction", msg |-> m]
           d  == Fresh("compaction", m)
<1>1. /\ CanCall /\ s' = r.s /\ promises' = Settled(SettlesOf(r), r.s)
      /\ reading' = [reading EXCEPT ![x] = rd]
      /\ UNCHANGED <<stack, producer, engine, outcome>>
  BY EmptyStack DEF ReadCompaction, session
<1>2. PICK o \in Ops : m = StreamMsg(o) /\ outcome[o] = "completed"
  BY DEF ReadCompaction
<1>3. m \in Nat /\ "compaction" \in DecisionKinds
  BY <1>2, MessageIds DEF DecisionKinds
<1>4. Settles' = {} /\ Settles = {} /\ PromptInv'
  BY <1>1, StillCalm, CalmNow, CalmNext
<1>5. /\ rd.st = IF k \in promises' THEN "waiting" ELSE "answered"
      /\ rd.kind = "compaction" /\ rd.msg = m /\ ReaderKey(rd) = k
  BY DEF ReaderKey
<1>6. Disposed \/ DecisionsOn(s, "compaction", m) # {} => b = Ignored(s)
  BY KnownDecision
<1>7. ASSUME ~Disposed, DecisionsOn(s, "compaction", m) = {}
      PROVE  /\ b.s.decisions = (s.decisions \ {}) \cup {d}
             /\ b.s.life = s.life /\ b.s.op = s.op
             /\ SettlesOf(b) = {d}
             /\ \A e \in s.decisions : KeyOf(e) # KeyOf(d)
  <2>1. {} \in SUBSET s.decisions
    OBVIOUS
  <2> QED BY <1>3, <1>7, <2>1, NewDecision
<1>8. /\ d \in Decision /\ d.kind = "compaction" /\ d.msg = m
      /\ d.outcome = "pending" /\ KeyOf(d) = k
  BY <1>3, FreshDecision
<1> HIDE DEF b, rd, d
<1>9. CASE ~may \/ Disposed \/ DecisionsOn(s, "compaction", m) # {}
  <2>1. r = Ignored(s)
    BY <1>6, <1>9
  <2>2. s' = s /\ promises' = Settled({}, s)
    BY <1>1, <2>1, SettlesLittle, IgnoredCall
  <2>3. promises' = promises
    BY <1>4, <2>2, NothingSettled
  <2>4. rd.st = "answered" => m \in Spent /\ PendingFor(k) \notin s.decisions
    BY <1>2, <1>4, <1>5, <1>9, <2>3, ReadIgnored
  <2>5. rd.st \in {"waiting", "answered"}
    BY <1>5
  <2> QED BY <1>1, <1>5, <2>2, <2>3, <2>4, <2>5, ReadStep
<1>10. CASE may /\ ~Disposed /\ DecisionsOn(s, "compaction", m) = {}
  <2>1. r = b
    BY <1>10
  <2>2. /\ s'.decisions = (s.decisions \ {}) \cup {d}
        /\ s'.op = s.op /\ ~Disposed' /\ (Disposed' <=> Disposed)
        /\ promises' = Settled({d}, s')
    BY <1>1, <1>7, <1>10, <2>1 DEF Disposed
  <2>3. {} \in SUBSET Resolved(s.decisions)
    OBVIOUS
  <2>4. promises' = promises \cup {KeyOf(d)}
    BY <1>4, <1>8, <2>2, <2>3, PromiseAdded
  <2>5. MessageInv' /\ SpentKept /\ AnswererKept(Pending(s.decisions))
    BY <1>1, <2>2, SameProgress
  <2>6. \E p \in Ops : Resolver(d, p)'
    <3>1. Resolver(d, o)
      BY <1>2, <1>10, ReadOpens DEF d
    <3> QED BY <1>1, <3>1 DEF Resolver
  <2>7. d.kind = "compaction" => d.msg \notin Spent
    BY <1>2, <1>8, <1>10, ReadOpens
  <2>8. ASSUME NEW y \in Readers
        PROVE  \/ reading'[y] = reading[y]
               \/ /\ reading'[y].st = "waiting"
                  /\ ReaderKey(reading'[y]) \in promises'
    <3>1. reading'[y] = IF y = x THEN rd ELSE reading[y]
      BY <1>1, RecoveryKnown
    <3> QED BY <1>5, <1>8, <2>4, <3>1
  <2>9. \A e \in s.decisions : KeyOf(e) # KeyOf(d)
    BY <1>7, <1>10
  <2>10. DecisionInv' /\ ReaderInv'
    BY <1>4, <1>8, <1>10, <2>2, <2>3, <2>4, <2>5, <2>6, <2>7, <2>8, <2>9,
       OpenStep
  <2> QED BY <1>4, <2>5, <2>10
<1> QED BY <1>9, <1>10

LEMMA ReaderReturnsAnswered ==
  ASSUME Typed, Typed', Answered, NEW x \in Readers, ReaderReturns(x)
  PROVE  Answered'
<1> USE DEF Answered
<1> DEFINE m == reading[x].msg
           r == IF reading[x].kind = "compaction" THEN ForgetCompaction(s, m)
                                                  ELSE Ignored(s)
           off == [reading EXCEPT ![x] = [@ EXCEPT !.st = "off"]]
           D == DecisionsOn(s, "compaction", m)
           F == IF reading[x].kind = "compaction" /\ ~Disposed THEN D ELSE {}
           t == [s EXCEPT !.decisions = @ \ D]
<1>1. /\ CanCall /\ s' = r.s /\ promises' = Settled({}, r.s)
      /\ reading[x].st = "answered" /\ reading' = Read(off, {}, promises')
      /\ UNCHANGED <<stack, producer, engine, outcome>>
  BY EmptyStack DEF ReaderReturns, session
<1>2. Settles' = {} /\ Settles = {} /\ PromptInv'
  BY <1>1, StillCalm, CalmNow, CalmNext
<1>3. /\ t.decisions = s.decisions \ D /\ t.op = s.op /\ t.life = s.life
  BY Known DEF CoordinatorState
<1>4. \A d \in D : KeyOf(d) = ReaderKey(reading[x])
                   \/ reading[x].kind # "compaction"
  BY DEF DecisionsOn, KeyOf, ReaderKey
<1> HIDE DEF t, D
<1>5. IF reading[x].kind = "compaction" /\ ~Disposed THEN r.s = t
      ELSE r.s = s
  BY DEF ForgetCompaction, Alive, Ignored, Result, Disposed, t, D
<1> HIDE DEF r, m
<1>6. /\ s'.decisions = s.decisions \ F /\ s'.op = s.op
      /\ (Disposed' <=> Disposed)
  BY <1>1, <1>3, <1>5 DEF Disposed
<1>7. \A d \in F : /\ reading[x].kind = "compaction"
                   /\ KeyOf(d) = ReaderKey(reading[x])
  BY <1>4
<1> HIDE DEF F
<1>8. MessageInv' /\ SpentKept /\ AnswererKept(Pending(s.decisions))
  BY <1>1, <1>6, SameProgress
<1>9. DecisionInv' /\ ReaderInv'
  <2>1. promises' = Settled({}, s')
    BY <1>1
  <2> QED BY <1>1, <1>2, <1>6, <1>7, <1>8, <2>1, ForgetStep
<1> QED BY <1>2, <1>8, <1>9

LEMMA DecisionsAnswered ==
  ASSUME Typed, Typed', Owned, Answered, Decisions PROVE Answered'
BY ReadErrorAnswered, ReadCompactionAnswered, ReaderReturnsAnswered
DEF Decisions

-----------------------------------------------------------------------------
(* Disposal answers whatever is pending.                                   *)

LEMMA DisposeAnswered ==
  ASSUME Typed, Answered, DisposeSession PROVE Answered'
<1> USE DEF Answered
<1> DEFINE u == Shutdown(s).s
           r == Dispose(u)
           P == Pending(s.decisions)
           A == {Fallback(d) : d \in P}
           c == Settle(A)
<1>1. /\ CanCall /\ s.life # "disposed" /\ Types
      /\ DispatchFrom(r, prepared, {}, {}, "dispose", None)
      /\ UNCHANGED <<promises, reading, producer, engine, outcome>>
  BY Known DEF DisposeSession, recovery, session
<1>2. /\ s \in CoordinatorState /\ u \in CoordinatorState
      /\ u.life # "disposed" /\ u.decisions = s.decisions
  BY <1>1, Known, ShutdownState, UntouchedViews DEF Untouched, SameOwner
<1>3. P = u.decisions \ Resolved(u.decisions)
  BY <1>2 DEF Pending, Resolved
<1> HIDE DEF u, P
<1>4. /\ r.s.life = "disposed" /\ r.s.op = NoOperation
      /\ r.s.decisions = {Fallback(d) : d \in s.decisions}
      /\ r.cmds # << >> /\ Head(r.cmds) = c
  BY <1>2, <1>3, DisposeView
<1>5. r.cmds \in Seq(Command)
  BY <1>2, DisposeState
<1> HIDE DEF r
<1>6. s' = r.s /\ NextUp' = {c} /\ NextUp = {}
  BY <1>1, <1>4, <1>5, DispatchShape, Quiescent
<1>7. c.do = "decisions" /\ c.decisions = A
  BY DEF Settle, Do
<1> HIDE DEF c, A
<1>8. Settles' = A /\ Settles = {}
  BY <1>6, <1>7 DEF Settles
<1>9. /\ Disposed' /\ s'.op.id = None
      /\ s'.decisions = {Fallback(d) : d \in s.decisions}
  BY <1>4, <1>6, NoOperationId DEF Disposed
<1>10. /\ A \subseteq s'.decisions
       /\ \A d \in s'.decisions : d.outcome # "pending"
  <2>1. \A d \in s.decisions : Fallback(d).outcome # "pending"
    BY RecoveryKnown, Fallbacks
  <2>2. A \subseteq s'.decisions
    BY <1>9 DEF A, P, Pending
  <2> QED BY <1>9, <2>1, <2>2
<1>11. PromptInv'
  BY <1>6, <1>7, <1>9, <1>10 DEF PromptInv, Pending
<1>12. MessageInv'
  BY <1>9, MessageIds DEF MessageInv
<1>13. \A o \in Ops : outcome[o] = "completed" => StreamMsg(o) \in Spent'
  <2>1. \A o \in Ops : outcome[o] = "completed" => SpentBy(o)'
    BY <1>1, <1>9 DEF SpentBy
  <2> QED BY <2>1 DEF Spent
<1>14. SpentKept
  BY <1>13 DEF SpentKept, Spent, SpentBy
<1>15. DecisionInv'
  <2>1. \A a, b \in s'.decisions : KeyOf(a) = KeyOf(b) => a = b
    <3> SUFFICES ASSUME NEW d \in s.decisions, NEW e \in s.decisions,
                        KeyOf(Fallback(d)) = KeyOf(Fallback(e))
                 PROVE  Fallback(d) = Fallback(e)
      BY <1>9
    <3>1. KeyOf(d) = KeyOf(e)
      BY RecoveryKnown, Fallbacks
    <3> QED BY <3>1 DEF DecisionInv
  <2>2. ASSUME NEW d \in s.decisions, Fallback(d).kind = "compaction"
        PROVE  Fallback(d).msg \in Spent'
    <3>1. KeyOf(Fallback(d)) = KeyOf(d)
      BY RecoveryKnown, Fallbacks
    <3>2. d.kind = "compaction" /\ Fallback(d).msg = d.msg
      BY <2>2, <3>1 DEF KeyOf
    <3>3. CASE d.outcome = "pending"
      <4>1. PICK o \in Ops : Resolver(d, o)
        BY <3>3 DEF DecisionInv, Pending
      <4> QED BY <1>13, <3>2, <4>1 DEF Resolver
    <3>4. CASE d.outcome # "pending"
      BY <1>14, <3>2, <3>4 DEF DecisionInv, Resolved, SpentKept
    <3> QED BY <3>2, <3>3, <3>4
  <2>3. \A a \in Resolved(s'.decisions) :
           a.kind = "compaction" => a.msg \in Spent'
    BY <1>9, <2>2 DEF Resolved
  <2>4. Pending(s'.decisions) = {}
    BY <1>10 DEF Pending
  <2>5. ASSUME NEW k \in promises PROVE \E a \in Settles' : KeyOf(a) = k
    <3> DEFINE d == PendingFor(k)
    <3>1. /\ d \in s.decisions /\ d.outcome = "pending" /\ KeyOf(d) = k
      BY <1>8, RecoveryKnown, PromisesArePending, PendingKeys
    <3>2. KeyOf(Fallback(d)) = k
      BY <3>1, RecoveryKnown, Fallbacks
    <3>3. Fallback(d) \in Settles'
      BY <1>8, <3>1 DEF A, P, Pending
    <3> QED BY <3>2, <3>3
  <2> QED BY <1>1, <1>9, <2>1, <2>3, <2>4, <2>5 DEF DecisionInv
<1>16. ReaderInv'
  <2>1. \A k : PendingFor(k) \notin s'.decisions
    BY <1>10 DEF PendingFor
  <2> QED BY <1>1, <1>14, <2>1 DEF ReaderInv, SpentKept
<1> QED BY <1>11, <1>12, <1>15, <1>16

LEMMA ClosingAnswered ==
  ASSUME Typed, Answered, Closing \/ Close PROVE Answered'
BY LifetimeAnswered, DisposeAnswered DEF Closing

-----------------------------------------------------------------------------
LEMMA InitAnswered == ASSUME Init PROVE Answered
<1>1. /\ s.op = NoOperation /\ s.decisions = {} /\ promises = {}
      /\ NextUp = {} /\ \A x \in Readers : reading[x].st = "off"
  BY DEF Init, InitialState, NextUp
<1>2. PromptInv /\ MessageInv
  BY <1>1, NoOperationId, MessageIds DEF PromptInv, MessageInv
<1>3. DecisionInv /\ ReaderInv
  BY <1>1 DEF DecisionInv, ReaderInv, Pending, Resolved
<1> QED BY <1>2, <1>3 DEF Answered

LEMMA NextAnswered ==
  ASSUME Typed, Typed', Owned, Answered, Next PROVE Answered'
<1>1. CASE Run \/ Claims \/ \E t \in Turns : RegisterOperation(t)
  BY <1>1, RunAnswered, ClaimsAnswered, RegisterAnswered
<1>2. CASE \E o \in Ops : Operations(o) \/ Completions(o)
  BY <1>2, OperationsAnswered, CompletionsAnswered
<1>3. CASE \/ SyntheticAbort \/ ForeignEnds
           \/ \E m \in Messages : ObserveReplay(m)
  BY <1>3, ForeignAnswered
<1>4. CASE Holds \/ Decisions \/ Compactions
  BY <1>4, HoldsAnswered, DecisionsAnswered, CompactionsAnswered
<1>5. CASE Closing \/ Close
  BY <1>5, ClosingAnswered
<1> QED BY <1>1, <1>2, <1>3, <1>4, <1>5 DEF Next

LEMMA StutterAnswered ==
  ASSUME Answered, UNCHANGED vars PROVE Answered'
<1> USE DEF Answered
<1>1. UNCHANGED <<s, stack, promises, reading, producer, engine, outcome>>
  BY DEF vars, recovery, session
<1>2. NextUp' = NextUp
  BY <1>1, SameShape
<1>3. Settles' = Settles /\ s'.op = s.op /\ (Disposed' <=> Disposed)
  BY <1>1, <1>2 DEF Settles, Disposed
<1>4. MessageInv' /\ SpentKept /\ AnswererKept(Pending(s.decisions))
  BY <1>1, <1>3, SameProgress
<1>5. DecisionInv' /\ ReaderInv'
  BY <1>1, <1>3, <1>4, KeptStep
<1>6. PromptInv'
  BY <1>1, <1>2 DEF PromptInv, Disposed, IsCurrentOperation
<1> QED BY <1>4, <1>5, <1>6

LEMMA AnsweredInvariant == Spec => [](Typed /\ Answered)
<1>1. Init => Typed /\ Owned /\ Answered
  BY InitInv, InitRest, InitOwned, InitAnswered DEF Typed
<1>2. Typed /\ Owned /\ Answered /\ [Next]_vars
        => Typed' /\ Owned' /\ Answered'
  <2>1. ASSUME Typed, Owned, Answered, [Next]_vars
        PROVE  Typed' /\ Owned' /\ Answered'
    <3>1. Typed'
      BY <2>1, NextInv, StutterInv, NextRest, StutterRest DEF Typed
    <3>2. Owned'
      BY <2>1, <3>1, NextOwned, StutterOwned
    <3>3. Answered'
      BY <2>1, <3>1, NextAnswered, StutterAnswered
    <3> QED BY <3>1, <3>2, <3>3
  <2> QED BY <2>1
<1> QED BY <1>1, <1>2, PTL DEF Spec

(* Every promise in the registry is about a message whose producer is      *)
(* still going to answer it, unless the disposal in progress is answering  *)
(* it: no reader waits for a decision that nobody is left to take, and     *)
(* none loses its promise unanswered (turnCoordinator.ts, the decision     *)
(* registry and its fallbacks in the policy's finalizer and in dispose).   *)
THEOREM DecisionsAreAnswered == Spec => []DecisionHasResolver
<1>1. Typed /\ Answered => DecisionHasResolver
  <2> SUFFICES ASSUME Typed, Answered PROVE DecisionHasResolver
    OBVIOUS
  <2> USE DEF Answered
  <2>1. \A x \in Readers : reading[x].st # "orphaned"
    BY DEF ReaderInv
  <2>2. ASSUME NEW key \in promises
        PROVE  \/ \E o \in Ops :
                     /\ key[2] \in {StartupMsg(o), StreamMsg(o)}
                     /\ producer[o] \notin {"none", "finishing", "done"}
               \/ s.life = "disposed" /\ stack # << >>
    <3>1. CASE Disposed
      <4>1. Settles # {}
        BY <3>1 DEF DecisionInv
      <4>2. stack # << >>
        BY <4>1 DEF Settles, NextUp
      <4> QED BY <3>1, <4>2 DEF Disposed
    <3>2. CASE ~Disposed
      <4>1. /\ PendingFor(key) \in Pending(s.decisions)
            /\ PendingFor(key).msg = key[2]
        BY <3>2, RecoveryKnown, PendingKeys DEF DecisionInv, Pending
      <4>2. PICK o \in Ops : Resolver(PendingFor(key), o)
        BY <4>1 DEF DecisionInv
      <4> QED BY <4>1, <4>2 DEF Resolver
    <3> QED BY <3>1, <3>2
  <2> QED BY <2>1, <2>2 DEF DecisionHasResolver
<1> QED BY <1>1, AnsweredInvariant, PTL
=============================================================================
