------------------------- MODULE TurnTransitionProofs -------------------------
(***************************************************************************)
(* What every event of the reducer preserves, for every state and every    *)
(* argument: the type of the state and of its commands, the lifetime, the  *)
(* compaction window, and the rule the dispatcher's waiters live by: the   *)
(* reducer never reaches idle without publishing it.                       *)
(***************************************************************************)
EXTENDS TurnTransition, SequenceTheorems, TLAPS

SameWindow(s, t) == t.token = s.token /\ t.tokenStage = s.tokenStage

(* The result of an event that may publish phases.                         *)
Regular(s, r) ==
  /\ r.s \in CoordinatorState
  /\ r.cmds \in Seq(Command)
  /\ r.s.phase = "idle" => s.phase = "idle" \/ PublishesIdle(r.cmds)
  /\ r.s.life = s.life
  /\ SameWindow(s, r.s)

(* The next state of an event that publishes none.                         *)
Still(s, t) ==
  /\ t \in CoordinatorState
  /\ t.phase = s.phase /\ t.life = s.life

LEMMA IgnoredRegular ==
  ASSUME NEW s \in CoordinatorState PROVE Regular(s, Ignored(s))
BY DEF Regular, Ignored, Result, SameWindow

LEMMA NoOpType == NoOperation \in Operation
BY DEF NoOperation, NewOperation, Operation, None

LEMMA NewOpType ==
  ASSUME NEW id \in Nat PROVE NewOperation(id) \in Operation
BY DEF NewOperation, Operation, None

LEMMA CommandTypes ==
  /\ \A id \in Nat, what \in {"retire", "record-start", "drain", "dispose"} :
        Do(what, id) \in Command
  /\ \A id \in Nat, ph \in Phases : Publish(id, ph) \in Command
  /\ \A id \in Nat, msg \in Nat : Policy(id, msg) \in Command
  /\ \A ds \in SUBSET Decision : Settle(ds) \in Command
BY DEF Do, Publish, Policy, Settle, Command, Phases, None

LEMMA RetireType ==
  ASSUME NEW s \in CoordinatorState
  PROVE  RetireCurrent(s) \in Seq(Command)
BY CommandTypes DEF RetireCurrent, CoordinatorState, Operation

LEMMA DecisionTypes ==
  ASSUME NEW kind \in DecisionKinds, NEW msg \in Nat,
         NEW verdict \in Verdicts \cup {"pending"}
  PROVE  [kind |-> kind, msg |-> msg, outcome |-> verdict] \in Decision
BY DEF Decision

-----------------------------------------------------------------------------
LEMMA PrepareRegular ==
  ASSUME NEW s \in CoordinatorState, NEW id \in Nat, NEW req
  PROVE  Regular(s, Prepare(s, id, req))
<1> DEFINE t == [s EXCEPT !.phase = "preparing", !.turn = id,
                          !.observed = None, !.op = NoOperation]
           c == RetireCurrent(s) \o << Publish(id, "preparing") >>
<1>1. t \in CoordinatorState /\ t.phase = "preparing"
  BY NoOpType DEF CoordinatorState, Phases, None
<1>2. c \in Seq(Command)
  BY RetireType, CommandTypes DEF Phases
<1>3. t.life = s.life /\ SameWindow(s, t)
  BY DEF CoordinatorState, SameWindow
<1>4. Regular(s, Result(t, c))
  BY <1>1, <1>2, <1>3 DEF Regular, Result
<1> QED BY <1>4, IgnoredRegular DEF Prepare

LEMMA PreemptRegular ==
  ASSUME NEW s \in CoordinatorState, NEW id \in Nat
  PROVE  Regular(s, Preempt(s, id))
<1> DEFINE t == [s EXCEPT !.phase = "idle", !.observed = None,
                          !.op = NoOperation]
           a == RetireCurrent(s)
           b == << Publish(id, "idle") >>
<1>1. t \in CoordinatorState
  BY NoOpType DEF CoordinatorState, Phases, None
<1>2. a \in Seq(Command) /\ b \in Seq(Command)
  BY RetireType, CommandTypes DEF Phases
<1>3. PublishesIdle(a \o b)
  <2>1. /\ Len(a) + 1 \in DOMAIN (a \o b)
        /\ (a \o b)[Len(a) + 1] = Publish(id, "idle")
    BY <1>2, ConcatProperties
  <2> QED BY <2>1 DEF PublishesIdle, Publish, Do
<1>4. t.life = s.life /\ SameWindow(s, t)
  BY DEF CoordinatorState, SameWindow
<1>5. a \o b \in Seq(Command)
  BY <1>2, ConcatProperties
<1>6. Regular(s, Result(t, a \o b))
  BY <1>1, <1>3, <1>4, <1>5 DEF Regular, Result
<1> QED BY <1>6, IgnoredRegular DEF Preempt, Alive


LEMMA FinishRegular ==
  ASSUME NEW s \in CoordinatorState, NEW id \in Nat,
         NEW preparingOnly \in BOOLEAN
  PROVE  Regular(s, Finish(s, id, preparingOnly))
<1> DEFINE t == [s EXCEPT !.phase = "idle"]
           c == << Publish(id, "idle") >>
<1>1. t \in CoordinatorState /\ t.life = s.life /\ SameWindow(s, t)
  BY DEF CoordinatorState, Phases, SameWindow
<1>2. c \in Seq(Command)
  BY CommandTypes DEF Phases
<1>3. PublishesIdle(c)
  BY DEF PublishesIdle, Publish, Do
<1>4. Regular(s, Result(t, c))
  BY <1>1, <1>2, <1>3 DEF Regular, Result
<1> QED BY <1>4, IgnoredRegular DEF Finish, Alive

LEMMA CompletePolicyRegular ==
  ASSUME NEW s \in CoordinatorState, NEW id \in Nat
  PROVE  Regular(s, CompletePolicy(s, id))
<1> DEFINE t == [s EXCEPT !.phase = "completing"]
           c == << Publish(id, "completing") >>
<1>1. t \in CoordinatorState /\ t.life = s.life /\ SameWindow(s, t)
  BY DEF CoordinatorState, Phases, SameWindow
<1>2. c \in Seq(Command) /\ t.phase = "completing"
  BY CommandTypes DEF Phases, CoordinatorState
<1>3. Regular(s, Result(t, c))
  BY <1>1, <1>2 DEF Regular, Result
<1> QED BY <1>3, IgnoredRegular DEF CompletePolicy, Alive

LEMMA StartedRegular ==
  ASSUME NEW s \in CoordinatorState, NEW msg \in Nat
  PROVE  Regular(s, Started(s, msg))
<1> DEFINE o == IF s.op.id = None THEN s.op
                ELSE [s.op EXCEPT !.stage = "started", !.msg = msg]
           t == [s EXCEPT !.phase = "streaming", !.abandoned = FALSE, !.op = o]
           c == << Do("record-start", s.turn), Publish(s.turn, "streaming") >>
<1>1. o \in Operation
  BY DEF CoordinatorState, Operation
<1> HIDE DEF o
<1>2. t \in CoordinatorState /\ t.life = s.life /\ SameWindow(s, t)
  BY <1>1 DEF CoordinatorState, Phases, SameWindow
<1>3. c \in Seq(Command) /\ t.phase = "streaming"
  BY CommandTypes DEF Phases, CoordinatorState
<1>4. Regular(s, Result(t, c))
  BY <1>2, <1>3 DEF Regular, Result
<1> QED BY <1>4, IgnoredRegular DEF Started, Alive, o

LEMMA CompletionRegular ==
  ASSUME NEW s \in CoordinatorState, NEW id \in Nat, NEW msg \in Nat,
         NEW abortEvent \in BOOLEAN
  PROVE  Regular(s, Completion(s, id, msg, abortEvent))
<1> DEFINE n == \/ s.op.notified
                \/ s.op.stage = "registered" /\ abortEvent
           t == [s EXCEPT !.op.msg = msg, !.op.delivery = "policy",
                          !.op.notified = n]
           c == << Policy(id, msg) >>
<1>1. t \in CoordinatorState /\ t.life = s.life /\ SameWindow(s, t)
  BY DEF CoordinatorState, Operation, SameWindow
<1>2. c \in Seq(Command) /\ t.phase = s.phase
  BY CommandTypes DEF CoordinatorState
<1>3. Regular(s, Result(t, c))
  BY <1>1, <1>2 DEF Regular, Result
<1> QED BY <1>3, IgnoredRegular DEF Completion, Alive

LEMMA ObserveRegular ==
  ASSUME NEW s \in CoordinatorState, NEW msg \in Nat
  PROVE  Regular(s, ObserveStream(s, msg))
<1> DEFINE t == [s EXCEPT !.phase = "streaming", !.observed = msg]
           c == << Publish(s.turn, "streaming") >>
<1>1. t \in CoordinatorState /\ t.life = s.life /\ SameWindow(s, t)
  BY DEF CoordinatorState, Phases, SameWindow
<1>2. c \in Seq(Command) /\ t.phase = "streaming"
  BY CommandTypes DEF Phases, CoordinatorState
<1>3. Regular(s, Result(t, c))
  BY <1>1, <1>2 DEF Regular, Result
<1> QED BY <1>3, IgnoredRegular DEF ObserveStream

LEMMA FinishObservedRegular ==
  ASSUME NEW s \in CoordinatorState, NEW id \in Nat, NEW msg \in Nat
  PROVE  Regular(s, FinishObserved(s, id, msg))
<1> DEFINE t == [s EXCEPT !.phase = "idle", !.observed = None]
           c == << Publish(id, "idle"), Do("drain", id) >>
<1>1. t \in CoordinatorState /\ t.life = s.life /\ SameWindow(s, t)
  BY DEF CoordinatorState, Phases, SameWindow, None
<1>2. c \in Seq(Command)
  BY CommandTypes DEF Phases
<1>3. PublishesIdle(c)
  <2>1. 1 \in DOMAIN c /\ c[1] = Publish(id, "idle")
    OBVIOUS
  <2> QED BY <2>1 DEF PublishesIdle, Publish, Do
<1>4. Regular(s, Result(t, c))
  BY <1>1, <1>2, <1>3 DEF Regular, Result
<1> QED BY <1>4, IgnoredRegular DEF FinishObserved, Alive

-----------------------------------------------------------------------------
LEMMA BeginDecisionStill ==
  ASSUME NEW s \in CoordinatorState, NEW kind \in DecisionKinds,
         NEW msg \in Nat, NEW evicted
  PROVE  LET r == BeginDecision(s, kind, msg, evicted)
         IN Still(s, r.s) /\ SameWindow(s, r.s) /\ r.cmds \in Seq(Command)
<1> DEFINE new == [kind |-> kind, msg |-> msg, outcome |-> "pending"]
           t == [s EXCEPT !.decisions = (@ \ evicted) \cup {new}]
<1>1. new \in Decision
  BY DecisionTypes
<1> HIDE DEF new
<1>2. Still(s, t) /\ SameWindow(s, t)
  BY <1>1 DEF CoordinatorState, Still, SameWindow
<1>3. Still(s, s) /\ SameWindow(s, s)
  BY DEF Still, SameWindow
<1>4. << Settle({new}) >> \in Seq(Command)
  BY <1>1, CommandTypes
<1> QED BY <1>2, <1>3, <1>4 DEF BeginDecision, Alive, Ignored, Result, new

LEMMA RawTerminalRegular ==
  ASSUME NEW s \in CoordinatorState, NEW kind, NEW msg \in Nat
  PROVE  Regular(s, RawTerminal(s, kind, msg))
<1> DEFINE d == IF kind = "completed" /\ s.op.compaction
                  THEN BeginDecision(s, "compaction", msg, {})
                  ELSE Ignored(s)
           t == [d.s EXCEPT !.phase = "completing"]
           c == << Publish(s.turn, "completing") >>
<1>1. Still(s, d.s) /\ SameWindow(s, d.s) /\ d.cmds \in Seq(Command)
  <2>1. CASE kind = "completed" /\ s.op.compaction
    BY <2>1, BeginDecisionStill DEF DecisionKinds
  <2>2. CASE ~(kind = "completed" /\ s.op.compaction)
    BY <2>2 DEF Ignored, Result, Still, SameWindow
  <2> QED BY <2>1, <2>2
<1> HIDE DEF d
<1>2. /\ t \in CoordinatorState /\ t.life = s.life /\ SameWindow(s, t)
      /\ t.phase = "completing"
  BY <1>1 DEF CoordinatorState, Phases, SameWindow, Still
<1>3. c \in Seq(Command)
  BY CommandTypes DEF Phases, CoordinatorState
<1>4. d.cmds \o c \in Seq(Command)
  BY <1>1, <1>3, ConcatProperties
<1>5. Regular(s, Result(t, d.cmds \o c))
  BY <1>2, <1>4 DEF Regular, Result
<1>6. Regular(s, d)
  BY <1>1 DEF Regular, Still
<1> QED BY <1>5, <1>6, IgnoredRegular DEF RawTerminal, Alive, d

LEMMA ReleaseRegular ==
  ASSUME NEW s \in CoordinatorState, NEW id, NEW kind
  PROVE  Regular(s, Release(s, id, kind))
<1> DEFINE r == [id |-> id, kind |-> kind]
           t == [s EXCEPT !.reservations = @ \ {r}]
           c == IF kind # "manual" /\ s.phase = "idle" /\ ~Reserved(t, kind)
                  THEN << Do("drain", s.turn) >> ELSE << >>
<1>1. /\ t \in CoordinatorState /\ t.life = s.life /\ SameWindow(s, t)
      /\ t.phase = s.phase
  BY DEF CoordinatorState, SameWindow
<1>2. c \in Seq(Command)
  <2>1. << Do("drain", s.turn) >> \in Seq(Command)
    BY CommandTypes DEF CoordinatorState
  <2> QED BY <2>1
<1> HIDE DEF c
<1>3. Regular(s, Result(t, c))
  BY <1>1, <1>2 DEF Regular, Result
<1> QED BY <1>3, IgnoredRegular DEF Release, Alive, c

-----------------------------------------------------------------------------
(* The quiet events.                                                       *)

LEMMA StillSelf ==
  ASSUME NEW s \in CoordinatorState PROVE Still(s, s) /\ SameWindow(s, s)
BY DEF Still, SameWindow

LEMMA RegisterStill ==
  ASSUME NEW s \in CoordinatorState, NEW id \in Nat, NEW turn
  PROVE  Still(s, Register(s, id, turn).s)
         /\ SameWindow(s, Register(s, id, turn).s)
<1> DEFINE n == NewOperation(id)
           t == [s EXCEPT !.op = n]
<1>1. n \in Operation
  BY NewOpType
<1> HIDE DEF n
<1>2. Still(s, t) /\ SameWindow(s, t)
  BY <1>1 DEF CoordinatorState, Still, SameWindow
<1> QED BY <1>2, StillSelf DEF Register, Ignored, Result, n

LEMMA OperationStill ==
  ASSUME NEW s \in CoordinatorState, NEW id, NEW msg \in Nat,
         NEW compaction \in BOOLEAN
  PROVE  /\ LET t == Configure(s, id, compaction).s
            IN Still(s, t) /\ SameWindow(s, t)
         /\ LET t == Starting(s, id, msg).s
            IN Still(s, t) /\ SameWindow(s, t)
         /\ LET t == StartupAbort(s, msg).s
            IN Still(s, t) /\ SameWindow(s, t)
<1>1. \A o \in Operation :
         LET t == [s EXCEPT !.op = o] IN Still(s, t) /\ SameWindow(s, t)
  BY DEF CoordinatorState, Still, SameWindow
<1>2. s.op \in Operation
  BY DEF CoordinatorState
<1>3. /\ [s.op EXCEPT !.compaction = compaction] \in Operation
      /\ [s.op EXCEPT !.startup = msg] \in Operation
      /\ [s.op EXCEPT !.notified = TRUE] \in Operation
  BY <1>2 DEF Operation
<1>4. /\ Still(s, [s EXCEPT !.op.compaction = compaction])
      /\ SameWindow(s, [s EXCEPT !.op.compaction = compaction])
  BY <1>1, <1>3
<1>5. /\ Still(s, [s EXCEPT !.op.startup = msg])
      /\ SameWindow(s, [s EXCEPT !.op.startup = msg])
  BY <1>1, <1>3
<1>6. /\ Still(s, [s EXCEPT !.op.notified = TRUE])
      /\ SameWindow(s, [s EXCEPT !.op.notified = TRUE])
  BY <1>1, <1>3
<1>7. LET t == Configure(s, id, compaction).s
      IN Still(s, t) /\ SameWindow(s, t)
  BY <1>4, StillSelf DEF Configure, Alive, Ignored, Result
<1>8. LET t == Starting(s, id, msg).s IN Still(s, t) /\ SameWindow(s, t)
  BY <1>5, StillSelf DEF Starting, Alive, Ignored, Result
<1>9. LET t == StartupAbort(s, msg).s IN Still(s, t) /\ SameWindow(s, t)
  BY <1>6, StillSelf DEF StartupAbort, Alive, Ignored, Result
<1> QED BY <1>7, <1>8, <1>9

LEMMA DecisionsStill ==
  ASSUME NEW s \in CoordinatorState, NEW D \in SUBSET Decision
  PROVE  LET t == [s EXCEPT !.decisions = D]
         IN Still(s, t) /\ SameWindow(s, t)
BY DEF CoordinatorState, Still, SameWindow

LEMMA ResolveDecisionStill ==
  ASSUME NEW s \in CoordinatorState, NEW kind \in DecisionKinds,
         NEW msg \in Nat, NEW outcome \in Verdicts
  PROVE  LET t == ResolveDecision(s, kind, msg, outcome).s
         IN Still(s, t) /\ SameWindow(s, t)
<1> DEFINE old == [kind |-> kind, msg |-> msg, outcome |-> "pending"]
           new == [old EXCEPT !.outcome = outcome]
           D   == (s.decisions \ {old}) \cup {new}
<1>1. new \in Decision
  BY DEF Decision
<1>2. s.decisions \in SUBSET Decision
  BY DEF CoordinatorState
<1> HIDE DEF new, old
<1>3. D \in SUBSET Decision
  BY <1>1, <1>2
<1>4. /\ Still(s, [s EXCEPT !.decisions = D])
      /\ SameWindow(s, [s EXCEPT !.decisions = D])
  BY <1>3, DecisionsStill
<1> QED BY <1>4, StillSelf DEF ResolveDecision, Alive, Ignored, Result, new, old

LEMMA ForgetStill ==
  ASSUME NEW s \in CoordinatorState, NEW msg
  PROVE  LET t == ForgetCompaction(s, msg).s
         IN Still(s, t) /\ SameWindow(s, t)
<1> DEFINE D == s.decisions \ DecisionsOn(s, "compaction", msg)
<1>1. D \in SUBSET Decision
  BY DEF CoordinatorState
<1>2. /\ Still(s, [s EXCEPT !.decisions = D])
      /\ SameWindow(s, [s EXCEPT !.decisions = D])
  BY <1>1, DecisionsStill
<1> QED BY <1>2, StillSelf DEF ForgetCompaction, Alive, Ignored, Result

LEMMA FallbackType ==
  ASSUME NEW d \in Decision PROVE Fallback(d) \in Decision
BY DEF Fallback, Decision, Verdicts

LEMMA HoldsStill ==
  ASSUME NEW s \in CoordinatorState, NEW id \in Nat,
         NEW kind \in ReservationKinds
  PROVE  /\ LET t == Reserve(s, id, kind).s IN Still(s, t) /\ SameWindow(s, t)
         /\ LET t == RetryStart(s, id).s IN Still(s, t) /\ SameWindow(s, t)
         /\ LET t == RetryFinish(s, id).s IN Still(s, t) /\ SameWindow(s, t)
         /\ LET t == CompactionAbandon(s).s IN Still(s, t) /\ SameWindow(s, t)
         /\ LET t == CompactionSummary(s, id).s
            IN Still(s, t) /\ SameWindow(s, t)
<1>1. [id |-> id, kind |-> kind] \in Reservation
  BY DEF Reservation
<1>2. LET t == [s EXCEPT !.reservations = @ \cup {[id |-> id, kind |-> kind]}]
      IN Still(s, t) /\ SameWindow(s, t)
  BY <1>1 DEF CoordinatorState, Still, SameWindow
<1>3. \A r \in Nat : LET t == [s EXCEPT !.retry = r]
                     IN Still(s, t) /\ SameWindow(s, t)
  BY DEF CoordinatorState, Still, SameWindow
<1>4. LET t == [s EXCEPT !.abandoned = TRUE] IN Still(s, t) /\ SameWindow(s, t)
  BY DEF CoordinatorState, Still, SameWindow
<1>5. LET t == [s EXCEPT !.summary = id] IN Still(s, t) /\ SameWindow(s, t)
  BY DEF CoordinatorState, Still, SameWindow
<1>6. None \in Nat
  BY DEF None
<1>7. LET t == Reserve(s, id, kind).s IN Still(s, t) /\ SameWindow(s, t)
  BY <1>2, StillSelf DEF Reserve, Alive, Ignored, Result
<1>8. LET t == RetryStart(s, id).s IN Still(s, t) /\ SameWindow(s, t)
  BY <1>3, StillSelf DEF RetryStart, Alive, Ignored, Result
<1>9. LET t == RetryFinish(s, id).s IN Still(s, t) /\ SameWindow(s, t)
  BY <1>3, <1>6, StillSelf DEF RetryFinish, Alive, Ignored, Result
<1>10. LET t == CompactionAbandon(s).s IN Still(s, t) /\ SameWindow(s, t)
  BY <1>4, StillSelf DEF CompactionAbandon, Alive, Ignored, Result
<1>11. LET t == CompactionSummary(s, id).s IN Still(s, t) /\ SameWindow(s, t)
  BY <1>5 DEF CompactionSummary, Result
<1> QED BY <1>7, <1>8, <1>9, <1>10, <1>11

-----------------------------------------------------------------------------
(* The events that move the compaction window or the lifetime.             *)

LEMMA ObservationStill ==
  ASSUME NEW s \in CoordinatorState, NEW token \in Nat, NEW stage \in Stages
  PROVE  /\ Still(s, CompactionObserve(s, token).s)
         /\ Still(s, CompactionStage(s, token, stage).s)
         /\ Still(s, CompactionFinish(s, token).s)
<1>1. \A k \in Nat, g \in Stages :
         Still(s, [s EXCEPT !.token = k, !.tokenStage = g])
  BY DEF CoordinatorState, Still
<1>2. \A g \in Stages : Still(s, [s EXCEPT !.tokenStage = g])
  BY DEF CoordinatorState, Still
<1>3. None \in Nat /\ "none" \in Stages /\ "observing" \in Stages
  BY DEF None, Stages
<1> QED BY <1>1, <1>2, <1>3, StillSelf
        DEF CompactionObserve, CompactionStage, CompactionFinish, Ignored,
            Result

LEMMA ShutdownState ==
  ASSUME NEW s \in CoordinatorState
  PROVE  LET t == Shutdown(s).s
         IN /\ t \in CoordinatorState /\ t.phase = s.phase
            /\ t.life # "open" /\ SameWindow(s, t)
            /\ t.life = "disposed" <=> s.life = "disposed"
BY DEF Shutdown, Alive, Ignored, Result, CoordinatorState, Lifetimes,
       SameWindow

(* Disposal publishes idle, after it has answered what was pending.        *)
LEMMA DisposeState ==
  ASSUME NEW s \in CoordinatorState, s.life # "disposed"
  PROVE  LET r == Dispose(s)
         IN /\ r.s \in CoordinatorState /\ r.s.life = "disposed"
            /\ r.s.phase = "idle" /\ SameWindow(s, r.s)
            /\ r.cmds \in Seq(Command) /\ PublishesIdle(r.cmds)
<1> DEFINE P == s.decisions \ Resolved(s.decisions)
           A == {Fallback(d) : d \in P}
           D == {Fallback(d) : d \in s.decisions}
           t == [s EXCEPT !.life = "disposed", !.phase = "idle",
                          !.observed = None, !.op = NoOperation,
                          !.reservations = {}, !.retry = None,
                          !.decisions = D]
           a == << Settle(A) >>
           b == RetireCurrent(s)
           c == << Publish(s.turn, "idle"), Do("dispose", None) >>
           ab == a \o b
<1>1. s.decisions \in SUBSET Decision /\ s.turn \in Nat
  BY DEF CoordinatorState
<1>2. A \in SUBSET Decision /\ D \in SUBSET Decision
  BY <1>1, FallbackType
<1> HIDE DEF A, D
<1>3. t \in CoordinatorState
  BY <1>2, NoOpType DEF CoordinatorState, Lifetimes, Phases, None
<1>4. t.life = "disposed" /\ t.phase = "idle" /\ SameWindow(s, t)
  BY DEF CoordinatorState, SameWindow
<1>5. /\ a \in Seq(Command) /\ b \in Seq(Command) /\ c \in Seq(Command)
      /\ Len(c) = 2 /\ c[1] = Publish(s.turn, "idle")
  BY <1>1, <1>2, RetireType, CommandTypes DEF Phases, None
<1> HIDE DEF a, b, c
<1>6. ab \in Seq(Command)
  BY <1>5, ConcatProperties
<1> HIDE DEF ab
<1>7. /\ ab \o c \in Seq(Command)
      /\ Len(ab) + 1 \in DOMAIN (ab \o c) /\ (ab \o c)[Len(ab) + 1] = c[1]
  <2>1. /\ ab \o c \in Seq(Command) /\ Len(ab \o c) = Len(ab) + Len(c)
        /\ \A i \in 1 .. Len(ab) + Len(c) :
              (ab \o c)[i] = IF i <= Len(ab) THEN ab[i] ELSE c[i - Len(ab)]
    BY <1>5, <1>6, ConcatProperties
  <2>2. Len(ab) \in Nat /\ DOMAIN (ab \o c) = 1 .. Len(ab \o c)
    BY <1>6, <2>1, LenProperties
  <2> QED BY <1>5, <2>1, <2>2
<1>8. PublishesIdle(ab \o c)
  BY <1>5, <1>7 DEF PublishesIdle, Publish, Do
<1>9. Dispose(s) = Result(t, ab \o c)
  BY DEF Dispose, Alive, A, D, a, b, c, ab
<1> HIDE DEF t
<1> QED BY <1>3, <1>4, <1>7, <1>8, <1>9 DEF Result

LEMMA DecisionsKeepReservations ==
  ASSUME NEW s \in CoordinatorState, NEW kind, NEW msg, NEW evicted
  PROVE  /\ BeginDecision(s, kind, msg, evicted).s.reservations
              = s.reservations
         /\ ForgetCompaction(s, msg).s.reservations = s.reservations
BY DEF BeginDecision, ForgetCompaction, Alive, Ignored, Result,
       CoordinatorState
=============================================================================
