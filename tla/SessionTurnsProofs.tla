-------------------------- MODULE SessionTurnsProofs --------------------------
(***************************************************************************)
(* The types, the order of user sends and the safety of a session, for     *)
(* every number of turns, sends, edits and mutations and every cast.       *)
(*                                                                         *)
(* TypeInv is inductive as it stands: a step is a result of the            *)
(* coordinator's reducer, perhaps followed by the drain of the queue, and  *)
(* TurnTransitionProofs types both.  SendsInOrder needs OrderInv: the      *)
(* sends that are claimed, queued or still undecided are in order, every   *)
(* claimed one before every queued one and every queued one before the     *)
(* undecided.  The three properties that relate the phase to the turns     *)
(* need SessionHolds, which says what each phase means for the record of   *)
(* the current turn, what a replaced turn can still be, and what the calls *)
(* that wait or write have reserved.  Each action preserves it by a lemma  *)
(* of its own; they share one lemma per way the coordinator's state moves. *)
(***************************************************************************)
EXTENDS SessionTurns, TurnTransitionProofs, FiniteSetTheorems

-----------------------------------------------------------------------------
(* The types, each for a value of its variable and the turns issued.       *)

StOK(st, n) ==
  st \in CoordinatorState /\ st.turn \in 1..n /\ st.op.id \in 0..n

TurnsOK(tt, n) ==
  /\ tt \in [Turns -> Turn]
  /\ \A t \in Turns : /\ tt[t].captured <= n /\ tt[t].next <= n
                      /\ t > n => tt[t] = NoTurn

SendRec(n) == [at : {"off", "preflight", "direct", "leaving", "done"},
               expected : 0..n, turn : 0..n, first : BOOLEAN]
EditRec(n) == [at : {"off", "preflight", "checked", "reserved", "stopping",
                     "waiting", "settled", "truncating", "truncated",
                     "leaving", "done"},
               op : 0..n, expected : 0..n, stale : BOOLEAN,
               turn : Nat, first : BOOLEAN]
StopRec(n) == [at : {"off", "stopping", "done"}, how : {"stop", "send-now"},
               op : 0..n]
MutationsOK(mu) == mu \in [Mutations -> {"off", "mutating", "done"}]

TypeInv ==
  /\ StOK(s, issued) /\ issued \in Turns
  /\ queue \in Seq(Sends) /\ TurnsOK(turns, issued)
  /\ sends \in [Sends -> SendRec(issued)]
  /\ edits \in [Edits -> EditRec(issued)]
  /\ stop \in StopRec(issued)
  /\ MutationsOK(mutations)

LEMMA TypeInvType == ASSUME TypeInv PROVE TypeOK
BY DEF TypeInv, TypeOK, StOK, TurnsOK, SendRec, EditRec, StopRec, MutationsOK

LEMMA TurnsNat == Turns \subseteq Nat /\ 1 \in Turns /\ MaxTurns \in Nat
BY SessionAssumption DEF Turns

LEMMA CallsNat ==
  /\ Sends \subseteq Nat \ {0} /\ Edits \subseteq Nat \ {0}
  /\ Mutations \subseteq Nat \ {0}
BY SessionAssumption

(* A later bound admits all that an earlier one does.                      *)
LEMMA BoundGrows ==
  ASSUME NEW n \in Nat, NEW m \in Nat, n <= m
  PROVE  /\ \A st : StOK(st, n) => StOK(st, m)
         /\ \A tt : TurnsOK(tt, n) => TurnsOK(tt, m)
         /\ \A sd : sd \in [Sends -> SendRec(n)] => sd \in [Sends -> SendRec(m)]
         /\ \A ed : ed \in [Edits -> EditRec(n)] => ed \in [Edits -> EditRec(m)]
         /\ StopRec(n) \subseteq StopRec(m)
<1>1. 0..n \subseteq 0..m /\ 1..n \subseteq 1..m
  OBVIOUS
<1>2. \A st : StOK(st, n) => StOK(st, m)
  BY <1>1 DEF StOK
<1>3. \A tt : TurnsOK(tt, n) => TurnsOK(tt, m)
  <2> SUFFICES ASSUME NEW tt, TurnsOK(tt, n), NEW t \in Turns
               PROVE  /\ tt \in [Turns -> Turn]
                      /\ tt[t].captured <= m /\ tt[t].next <= m
                      /\ t > m => tt[t] = NoTurn
    BY DEF TurnsOK
  <2>1. tt[t].captured \in Nat /\ tt[t].next \in Nat /\ t \in Nat
    BY TurnsNat DEF TurnsOK, Turn
  <2> QED BY <2>1 DEF TurnsOK
<1>4. SendRec(n) \subseteq SendRec(m)
  BY <1>1 DEF SendRec
<1>5. EditRec(n) \subseteq EditRec(m)
  BY <1>1 DEF EditRec
<1>6. StopRec(n) \subseteq StopRec(m)
  BY <1>1 DEF StopRec
<1> QED BY <1>2, <1>3, <1>4, <1>5, <1>6

LEMMA NoTurnType == NoTurn \in Turn
BY DEF NoTurn, Turn, Claimants, Startups, Policies, None

LEMMA ClaimedType ==
  ASSUME NEW who \in Claimants, NEW x \in Nat, NEW e \in Nat
  PROVE  LET r == ClaimedBy(who, x, e)
         IN r \in Turn /\ r.captured = 0 /\ r.next = 0
<1> DEFINE up == IF who = "queue" THEN "reserved" ELSE "prepared"
           r == [NoTurn EXCEPT !.by = who, !.send = x, !.editId = e,
                               !.startup = up]
<1>1. up \in Startups
  BY DEF Startups
<1> HIDE DEF up
<1>2. r \in Turn /\ r.captured = 0 /\ r.next = 0
  BY <1>1, NoTurnType DEF NoTurn, Turn, None
<1> QED BY <1>2 DEF ClaimedBy, up

(* One record is replaced.                                                 *)
LEMMA TurnSet ==
  ASSUME NEW tt, NEW n \in Nat, TurnsOK(tt, n), NEW t \in Turns, t <= n,
         NEW r \in Turn, r.captured <= n, r.next <= n
  PROVE  TurnsOK([tt EXCEPT ![t] = r], n)
BY TurnsNat DEF TurnsOK

(* A claim adds the record of the turn it issues.                          *)
LEMMA TurnAdded ==
  ASSUME NEW tt, NEW n \in Nat, TurnsOK(tt, n), n < MaxTurns,
         NEW r \in Turn, r.captured = 0, r.next = 0
  PROVE  TurnsOK([tt EXCEPT ![n + 1] = r], n + 1) /\ n + 1 \in Turns
<1>1. n + 1 \in Turns /\ n + 1 \in Nat
  BY TurnsNat DEF Turns
<1>2. TurnsOK(tt, n + 1)
  BY BoundGrows
<1> QED BY <1>1, <1>2, TurnSet

(* A record that was changed since its claim is that of an issued turn.    *)
LEMMA Issued ==
  ASSUME NEW n \in Nat, NEW tt, TurnsOK(tt, n), NEW t \in Turns,
         tt[t] # NoTurn
  PROVE  t <= n /\ t \in 1..n
BY TurnsNat DEF TurnsOK, Turns

(* The reducer keeps the bounds of turn and operation.                     *)
LEMMA PrepareOK ==
  ASSUME NEW n \in Nat, NEW st, StOK(st, n), NEW req
  PROVE  StOK(Prepare(st, n + 1, req).s, n + 1)
<1>1. Prepare(st, n + 1, req).s \in CoordinatorState
  BY PrepareRegular DEF StOK, Regular
<1>2. \/ Prepare(st, n + 1, req).s = st
      \/ Prepare(st, n + 1, req).s.turn = n + 1
         /\ Prepare(st, n + 1, req).s.op = NoOperation
  BY DEF StOK, Prepare, Ignored, Result, CoordinatorState
<1>3. NoOperation.id = 0
  BY DEF NoOperation, NewOperation, None
<1> QED BY <1>1, <1>2, <1>3 DEF StOK

LEMMA ReducerOK ==
  ASSUME NEW n \in Nat, NEW st, StOK(st, n), NEW t \in 1..n
  PROVE  /\ StOK(Preempt(st, t).s, n)
         /\ \A on \in BOOLEAN : StOK(Finish(st, t, on).s, n)
         /\ StOK(CompletePolicy(st, t).s, n)
         /\ StOK(Register(st, t, t).s, n)
         /\ StOK(Started(st, t).s, n)
         /\ \A on \in BOOLEAN : StOK(Completion(st, t, t, on).s, n)
         /\ \A how : StOK(RawTerminal(st, how, t).s, n)
<1>0. st \in CoordinatorState /\ t \in Nat /\ st.op \in Operation
  BY DEF StOK, CoordinatorState
<1>1. StOK(Preempt(st, t).s, n)
  <2>1. Preempt(st, t).s \in CoordinatorState
    BY <1>0, PreemptRegular DEF Regular
  <2>2. /\ Preempt(st, t).s.turn = st.turn
        /\ Preempt(st, t).s.op \in {st.op, NoOperation}
    BY <1>0 DEF Preempt, Alive, Ignored, Result, CoordinatorState
  <2>3. NoOperation.id = 0
    BY DEF NoOperation, NewOperation, None
  <2> QED BY <2>1, <2>2, <2>3 DEF StOK
<1>2. \A on \in BOOLEAN : StOK(Finish(st, t, on).s, n)
  BY <1>0, FinishRegular
     DEF StOK, Regular, Finish, Alive, Ignored, Result, CoordinatorState
<1>3. StOK(CompletePolicy(st, t).s, n)
  BY <1>0, CompletePolicyRegular
     DEF StOK, Regular, CompletePolicy, Alive, Ignored, Result,
         CoordinatorState
<1>4. StOK(Register(st, t, t).s, n)
  BY <1>0, RegisterStill, SMTT(30)
     DEF StOK, Still, Register, Ignored, Result, NewOperation, CoordinatorState
<1>5. StOK(Started(st, t).s, n)
  <2>1. Started(st, t).s \in CoordinatorState
    BY <1>0, StartedRegular DEF Regular
  <2>2. /\ Started(st, t).s.turn = st.turn
        /\ Started(st, t).s.op.id = st.op.id
    BY <1>0 DEF Started, Alive, Ignored, Result, CoordinatorState, Operation
  <2> QED BY <2>1, <2>2 DEF StOK
<1>6. \A on \in BOOLEAN : StOK(Completion(st, t, t, on).s, n)
  <2> TAKE on \in BOOLEAN
  <2>1. Completion(st, t, t, on).s \in CoordinatorState
    BY <1>0, CompletionRegular DEF Regular
  <2>2. /\ Completion(st, t, t, on).s.turn = st.turn
        /\ Completion(st, t, t, on).s.op.id = st.op.id
    BY <1>0 DEF Completion, Alive, Ignored, Result, CoordinatorState, Operation
  <2> QED BY <2>1, <2>2 DEF StOK
<1>7. \A how : StOK(RawTerminal(st, how, t).s, n)
  <2> TAKE how
  <2>1. RawTerminal(st, how, t).s \in CoordinatorState
    BY <1>0, RawTerminalRegular DEF Regular
  <2>2. /\ RawTerminal(st, how, t).s.turn = st.turn
        /\ RawTerminal(st, how, t).s.op = st.op
    BY <1>0 DEF RawTerminal, BeginDecision, Alive, Ignored, Result,
                CoordinatorState
  <2> QED BY <2>1, <2>2 DEF StOK
<1> QED BY <1>1, <1>2, <1>3, <1>4, <1>5, <1>6, <1>7

LEMMA HoldsOK ==
  ASSUME NEW n \in Nat, NEW st, StOK(st, n)
  PROVE  /\ \A id \in Nat, kind \in ReservationKinds :
              StOK(Reserve(st, id, kind).s, n)
         /\ \A id, kind : StOK(Release(st, id, kind).s, n)
         /\ StOK(Shutdown(st).s, n) /\ StOK(Ignored(st).s, n)
<1>0. st \in CoordinatorState
  BY DEF StOK
<1>1. \A id \in Nat, kind \in ReservationKinds :
         StOK(Reserve(st, id, kind).s, n)
  BY <1>0, HoldsStill, ZenonT(30)
     DEF StOK, Still, Reserve, Alive, Ignored, Result, CoordinatorState
<1>2. \A id, kind : StOK(Release(st, id, kind).s, n)
  <2> TAKE id, kind
  <2>1. Release(st, id, kind).s \in CoordinatorState
    BY <1>0, ReleaseRegular DEF Regular
  <2>2. /\ Release(st, id, kind).s.turn = st.turn
        /\ Release(st, id, kind).s.op = st.op
    BY <1>0 DEF Release, Alive, Ignored, Result, CoordinatorState
  <2> QED BY <2>1, <2>2 DEF StOK
<1>3. StOK(Shutdown(st).s, n)
  BY <1>0, ShutdownState
     DEF StOK, Shutdown, Alive, Ignored, Result, CoordinatorState
<1> QED BY <1>1, <1>2, <1>3 DEF Ignored, Result

-----------------------------------------------------------------------------
(* A dispatch and the drain that may follow it in the same block.          *)

Drains(r, tt, q, trigger, latched) ==
  /\ trigger # "none" /\ Dispatches(r.s, q, trigger, latched)
  /\ issued < MaxTurns
  /\ s' = Prepare(r.s, issued + 1, Fresh(trigger, r.s.turn, None)).s
  /\ issued' = issued + 1 /\ queue' = Tail(q)
  /\ turns' = [tt EXCEPT ![issued + 1] = ClaimedBy("queue", Head(q), None)]

Stays(r, tt, q) ==
  s' = r.s /\ issued' = issued /\ queue' = q /\ turns' = tt

LEMMA ContinueCases ==
  ASSUME NEW r, NEW tt, NEW ed, NEW q, NEW trigger, NEW latched,
         ContinueWith(r, tt, ed, q, trigger, latched)
  PROVE  /\ edits' = Released(ed, r.cmds)
         /\ Stays(r, tt, q) \/ Drains(r, tt, q, trigger, latched)
BY DEF ContinueWith, Stays, Drains

LEMMA ReleasedType ==
  ASSUME NEW n, NEW ed \in [Edits -> EditRec(n)], NEW cmds
  PROVE  Released(ed, cmds) \in [Edits -> EditRec(n)]
<1>1. \A e \in Edits : [ed[e] EXCEPT !.at = "settled"] \in EditRec(n)
  BY DEF EditRec
<1> QED BY <1>1 DEF Released

LEMMA ContinueTyped ==
  ASSUME issued \in Turns,
         NEW r, NEW tt, NEW ed \in [Edits -> EditRec(issued)],
         NEW q \in Seq(Sends), NEW trigger, NEW latched,
         StOK(r.s, issued), TurnsOK(tt, issued),
         ContinueWith(r, tt, ed, q, trigger, latched)
  PROVE  /\ issued' \in Turns /\ issued <= issued'
         /\ StOK(s', issued') /\ TurnsOK(turns', issued')
         /\ queue' \in Seq(Sends) /\ edits' \in [Edits -> EditRec(issued')]
<1>1. issued \in Nat
  BY TurnsNat
<1>2. Released(ed, r.cmds) \in [Edits -> EditRec(issued)]
  BY ReleasedType
<1>3. CASE Stays(r, tt, q)
  BY <1>1, <1>2, <1>3, ContinueCases DEF Stays
<1>4. CASE Drains(r, tt, q, trigger, latched)
  <2>1. issued < MaxTurns /\ issued' = issued + 1 /\ q # << >>
    BY <1>4 DEF Drains, Dispatches
  <2>2. Tail(q) \in Seq(Sends) /\ Head(q) \in Nat
    BY <2>1, HeadTailProperties, CallsNat
  <2> DEFINE c == ClaimedBy("queue", Head(q), None)
  <2>3. c \in Turn /\ c.captured = 0 /\ c.next = 0
    BY <2>2, ClaimedType DEF Claimants, None
  <2> HIDE DEF c
  <2>4. TurnsOK([tt EXCEPT ![issued + 1] = c], issued + 1)
        /\ issued + 1 \in Turns
    BY <1>1, <2>1, <2>3, TurnAdded
  <2>5. StOK(s', issued + 1)
    BY <1>1, <1>4, PrepareOK DEF Drains
  <2>6. Released(ed, r.cmds) \in [Edits -> EditRec(issued + 1)]
    BY <1>1, <1>2, BoundGrows
  <2>7. /\ turns' = [tt EXCEPT ![issued + 1] = c] /\ queue' = Tail(q)
        /\ edits' = Released(ed, r.cmds)
    BY <1>4, ContinueCases DEF Drains, c
  <2>8. TurnsOK(turns', issued') /\ StOK(s', issued')
    BY <2>1, <2>4, <2>5, <2>7
  <2> QED BY <1>1, <2>1, <2>2, <2>4, <2>6, <2>7, <2>8
<1> QED BY <1>3, <1>4, ContinueCases

LEMMA ClaimTyped ==
  ASSUME issued \in Turns, StOK(s, issued), queue \in Seq(Sends),
         NEW req, NEW turn \in Turn, turn.captured = 0, turn.next = 0,
         NEW tt, TurnsOK(tt, issued), Claim(req, turn, tt)
  PROVE  /\ issued' \in Turns /\ issued' = issued + 1
         /\ StOK(s', issued') /\ TurnsOK(turns', issued')
         /\ queue' \in Seq(Sends)
<1>1. issued \in Nat
  BY TurnsNat
<1> QED BY <1>1, TurnAdded, PrepareOK DEF Claim

(* What a step leaves to show once the first variables are typed.          *)
LEMMA TypedStep ==
  ASSUME TypeInv, issued' \in Turns, issued <= issued',
         StOK(s', issued'), TurnsOK(turns', issued'), queue' \in Seq(Sends),
         edits' \in [Edits -> EditRec(issued')],
         \/ sends' \in [Sends -> SendRec(issued)]
         \/ sends' \in [Sends -> SendRec(issued')],
         stop' \in StopRec(issued), MutationsOK(mutations')
  PROVE  TypeInv'
<1>1. issued \in Nat /\ issued' \in Nat
  BY TurnsNat DEF TypeInv
<1>2. sends' \in [Sends -> SendRec(issued')] /\ stop' \in StopRec(issued')
  BY <1>1, BoundGrows
<1> QED BY <1>2 DEF TypeInv, StOK, TurnsOK, SendRec, EditRec, StopRec,
           MutationsOK

(* A step that claims no turn.                                             *)
LEMMA UnclaimedStep ==
  ASSUME TypeInv, issued' = issued,
         StOK(s', issued), TurnsOK(turns', issued), queue' \in Seq(Sends),
         sends' \in [Sends -> SendRec(issued)],
         edits' \in [Edits -> EditRec(issued)],
         stop' \in StopRec(issued), MutationsOK(mutations')
  PROVE  TypeInv'
<1>1. issued \in Turns /\ issued <= issued
  BY TurnsNat DEF TypeInv
<1> QED BY <1>1, TypedStep

-----------------------------------------------------------------------------
(* The calls.                                                              *)

LEMMA SendIsType ==
  ASSUME NEW x \in Sends, NEW n, sends \in [Sends -> SendRec(n)],
         NEW at \in {"off", "preflight", "direct", "leaving", "done"}
  PROVE  SendIs(x, at) \in [Sends -> SendRec(n)]
<1>1. [sends[x] EXCEPT !.at = at] \in SendRec(n)
  BY DEF SendRec
<1> QED BY <1>1 DEF SendIs

EditStates == {"off", "preflight", "checked", "reserved", "stopping",
               "waiting", "settled", "truncating", "truncated", "leaving",
               "done"}

LEMMA EditIsType ==
  ASSUME NEW e \in Edits, NEW n, edits \in [Edits -> EditRec(n)],
         NEW at \in EditStates
  PROVE  EditIs(e, at) \in [Edits -> EditRec(n)]
<1>1. [edits[e] EXCEPT !.at = at] \in EditRec(n)
  BY DEF EditRec, EditStates
<1> QED BY <1>1 DEF EditIs

LEMMA SendArrivesTyped ==
  ASSUME TypeInv, NEW x \in Sends, SendArrives(x) PROVE TypeInv'
<1>1. sends' \in [Sends -> SendRec(issued)]
  BY SendIsType DEF SendArrives, TypeInv
<1> QED BY <1>1, UnclaimedStep DEF SendArrives, TypeInv

LEMMA SelfOK == ASSUME TypeInv PROVE StOK(Ignored(s).s, issued)
BY DEF TypeInv, Ignored, Result

LEMMA SendRefusedTyped ==
  ASSUME TypeInv, NEW x \in Sends, SendRefused(x) PROVE TypeInv'
<1>1. sends' \in [Sends -> SendRec(issued)]
  BY SendIsType DEF SendRefused, TypeInv
<1>2. ContinueWith(Ignored(s), turns, edits, queue, IfFirst(x, s),
                   StopInProgress)
  BY DEF SendRefused, Continue
<1> QED BY <1>1, <1>2, SelfOK, ContinueTyped, TypedStep
        DEF SendRefused, TypeInv

LEMMA SendDecidesTyped ==
  ASSUME TypeInv, NEW x \in Sends, SendDecides(x) PROVE TypeInv'
<1>1. CASE MustQueue(x)
  <2>1. [sends[x] EXCEPT !.at = "leaving", !.first = First(x)]
          \in SendRec(issued)
    <3>1. First(x) \in BOOLEAN
      BY DEF First
    <3> QED BY <3>1 DEF TypeInv, SendRec
  <2>2. sends' \in [Sends -> SendRec(issued)]
    BY <1>1, <2>1 DEF SendDecides, TypeInv
  <2>3. queue' \in Seq(Sends)
    BY <1>1, AppendProperties DEF SendDecides, TypeInv
  <2> QED BY <2>2, <2>3, UnclaimedStep DEF SendDecides, TypeInv
<1>2. CASE ~MustQueue(x)
  <2>1. [sends[x] EXCEPT !.at = "direct", !.expected = s.turn]
          \in SendRec(issued)
    <3>1. s.turn \in 0..issued
      BY TurnsNat DEF TypeInv, StOK
    <3> QED BY <3>1 DEF TypeInv, SendRec
  <2>2. sends' \in [Sends -> SendRec(issued)]
    BY <1>2, <2>1 DEF SendDecides, TypeInv
  <2> QED BY <1>2, <2>2, UnclaimedStep DEF SendDecides, TypeInv
<1> QED BY <1>1, <1>2

LEMMA SendPreparesTyped ==
  ASSUME TypeInv, NEW x \in Sends, SendPrepares(x) PROVE TypeInv'
<1> DEFINE c == ClaimedBy("send", x, None)
<1>1. c \in Turn /\ c.captured = 0 /\ c.next = 0
  BY ClaimedType, CallsNat DEF Claimants, None
<1> HIDE DEF c
<1>2. Claim(Fresh("direct", sends[x].expected, None), c, turns)
  BY DEF SendPrepares, c
<1>3. /\ issued' \in Turns /\ issued' = issued + 1
      /\ StOK(s', issued') /\ TurnsOK(turns', issued')
      /\ queue' \in Seq(Sends)
  BY <1>1, <1>2, ClaimTyped DEF TypeInv
<1>4. issued \in Nat /\ issued <= issued' /\ issued' \in Nat
  BY <1>3, TurnsNat DEF TypeInv
<1>5. sends' \in [Sends -> SendRec(issued')]
  <2>1. sends \in [Sends -> SendRec(issued')]
    BY <1>4, BoundGrows DEF TypeInv
  <2>2. First(x) \in BOOLEAN /\ issued + 1 \in 0..issued'
    BY <1>3, <1>4 DEF First
  <2>3. [sends[x] EXCEPT !.at = "leaving", !.first = First(x),
                         !.turn = issued + 1] \in SendRec(issued')
    BY <2>1, <2>2 DEF SendRec
  <2> QED BY <2>1, <2>3 DEF SendPrepares
<1>6. edits' \in [Edits -> EditRec(issued')]
  BY <1>4, BoundGrows DEF SendPrepares, TypeInv
<1> QED BY <1>3, <1>4, <1>5, <1>6, TypedStep DEF SendPrepares, TypeInv

LEMMA SendReturnsTyped ==
  ASSUME TypeInv, NEW x \in Sends, SendReturns(x) PROVE TypeInv'
<1>1. sends' \in [Sends -> SendRec(issued)]
  BY SendIsType DEF SendReturns, TypeInv
<1>2. ContinueWith(Ignored(s), turns, edits, queue,
                   IF sends[x].first THEN IfIdle(s) ELSE "none",
                   StopInProgress)
  BY DEF SendReturns, Continue
<1> QED BY <1>1, <1>2, SelfOK, ContinueTyped, TypedStep
        DEF SendReturns, TypeInv

-----------------------------------------------------------------------------
(* Startups, streams and policies.                                         *)

LEMMA FieldTypes ==
  ASSUME NEW r \in Turn
  PROVE  /\ \A v \in Startups : [r EXCEPT !.startup = v] \in Turn
         /\ \A v \in Policies : [r EXCEPT !.policy = v] \in Turn
         /\ \A v \in {"off", "live", "ended"} : [r EXCEPT !.engine = v] \in Turn
         /\ \A v \in {"none", "completed", "failed", "aborted", "tool-end",
                      "cancelled"} : [r EXCEPT !.outcome = v] \in Turn
         /\ \A v \in Nat : /\ [r EXCEPT !.captured = v] \in Turn
                           /\ [r EXCEPT !.next = v] \in Turn
                           /\ [r EXCEPT !.editId = v] \in Turn
         /\ \A v \in BOOLEAN : /\ [r EXCEPT !.cut = v] \in Turn
                               /\ [r EXCEPT !.stale = v] \in Turn
                               /\ [r EXCEPT !.aborted = v] \in Turn
BY DEF Turn

(* A step of an issued turn that replaces its record and the coordinator's *)
(* state, and nothing else.                                                *)
LEMMA RecordStep ==
  ASSUME TypeInv, NEW t \in Turns, turns[t] # NoTurn,
         NEW r \in Turn, r.captured <= issued, r.next <= issued,
         turns' = [turns EXCEPT ![t] = r], StOK(s', issued),
         UNCHANGED <<issued, queue, sends, edits, stop, mutations>>
  PROVE  TypeInv'
<1>1. issued \in Nat /\ TurnsOK(turns, issued)
  BY TurnsNat DEF TypeInv
<1>2. t <= issued
  BY <1>1, Issued
<1>3. TurnsOK(turns', issued)
  BY <1>1, <1>2, TurnSet
<1> QED BY <1>3, UnclaimedStep DEF TypeInv

LEMMA RecordFacts ==
  ASSUME TypeInv, NEW t \in Turns
  PROVE  /\ turns[t] \in Turn /\ turns[t].captured <= issued
         /\ turns[t].next <= issued /\ issued \in Nat
         /\ turns[t] # NoTurn => t \in 1..issued
BY TurnsNat, Issued DEF TypeInv, TurnsOK

LEMMA NotNoTurn ==
  ASSUME NEW r
  PROVE  /\ r.startup # "none" => r # NoTurn
         /\ r.engine # "off" => r # NoTurn
         /\ r.outcome # "none" => r # NoTurn
         /\ r.policy # "off" => r # NoTurn
BY DEF NoTurn

(* A field of a record is set.                                             *)
LEMMA SetStep ==
  ASSUME TypeInv, NEW t \in Turns, turns[t] # NoTurn,
         NEW v,
         \/ v \in Startups /\ turns' = Set(t, "startup", v)
         \/ v \in Policies /\ turns' = Set(t, "policy", v)
         \/ v \in {"live", "ended"} /\ turns' = Set(t, "engine", v)
         \/ v = "cancelled" /\ turns' = Set(t, "outcome", v),
         StOK(s', issued),
         UNCHANGED <<issued, queue, sends, edits, stop, mutations>>
  PROVE  TypeInv'
<1>1. turns[t] \in Turn /\ turns[t].captured <= issued
      /\ turns[t].next <= issued
  BY RecordFacts
<1>2. CASE v \in Startups /\ turns' = Set(t, "startup", v)
  <2> DEFINE r == [turns[t] EXCEPT !.startup = v]
  <2>0. r \in Turn
    BY <1>1, <1>2, FieldTypes
  <2>1. r \in Turn /\ r.captured = turns[t].captured /\ r.next = turns[t].next
    BY <1>1, <2>0 DEF Turn
  <2>2. turns' = [turns EXCEPT ![t] = r]
    BY <1>2 DEF Set
  <2> QED BY <1>1, <2>1, <2>2, RecordStep
<1>3. CASE v \in Policies /\ turns' = Set(t, "policy", v)
  <2> DEFINE r == [turns[t] EXCEPT !.policy = v]
  <2>0. r \in Turn
    BY <1>1, <1>3, FieldTypes
  <2>1. r \in Turn /\ r.captured = turns[t].captured /\ r.next = turns[t].next
    BY <1>1, <2>0 DEF Turn
  <2>2. turns' = [turns EXCEPT ![t] = r]
    BY <1>3 DEF Set
  <2> QED BY <1>1, <2>1, <2>2, RecordStep
<1>4. CASE v \in {"live", "ended"} /\ turns' = Set(t, "engine", v)
  <2> DEFINE r == [turns[t] EXCEPT !.engine = v]
  <2>0. r \in Turn
    BY <1>1, <1>4, FieldTypes
  <2>1. r \in Turn /\ r.captured = turns[t].captured /\ r.next = turns[t].next
    BY <1>1, <2>0 DEF Turn
  <2>2. turns' = [turns EXCEPT ![t] = r]
    BY <1>4 DEF Set
  <2> QED BY <1>1, <2>1, <2>2, RecordStep
<1>5. CASE v = "cancelled" /\ turns' = Set(t, "outcome", v)
  <2> DEFINE r == [turns[t] EXCEPT !.outcome = v]
  <2>0. r \in Turn
    BY <1>1, <1>5, FieldTypes
  <2>1. r \in Turn /\ r.captured = turns[t].captured /\ r.next = turns[t].next
    BY <1>1, <2>0 DEF Turn
  <2>2. turns' = [turns EXCEPT ![t] = r]
    BY <1>5 DEF Set
  <2> QED BY <1>1, <2>1, <2>2, RecordStep
<1> QED BY <1>2, <1>3, <1>4, <1>5

LEMMA SameOK == ASSUME TypeInv, s' = s PROVE StOK(s', issued)
BY DEF TypeInv, StOK

LEMMA QueuedPreparesTyped ==
  ASSUME TypeInv, NEW t \in Turns, QueuedPrepares(t) PROVE TypeInv'
<1> DEFINE v == IF Admits(s, Adopt(t)) /\ ~StopInProgress /\ ~turns[t].stale
                  THEN "prepared" ELSE "failing"
<1>1. v \in Startups /\ turns' = Set(t, "startup", v)
  BY DEF QueuedPrepares, Startups
<1> HIDE DEF v
<1>2. turns[t] # NoTurn
  BY NotNoTurn DEF QueuedPrepares
<1>3. StOK(s', issued)
  BY SameOK DEF QueuedPrepares
<1> QED BY <1>1, <1>2, <1>3, SetStep DEF QueuedPrepares

LEMMA StartupBeginsTyped ==
  ASSUME TypeInv, NEW t \in Turns, StartupBegins(t) PROVE TypeInv'
<1>1. turns[t] # NoTurn
  BY NotNoTurn DEF StartupBegins
<1>2. StOK(Register(s, t, t).s, issued)
  BY <1>1, RecordFacts, ReducerOK DEF TypeInv
<1>3. StOK(s', issued)
  BY <1>2, SameOK DEF StartupBegins
<1>4. \E v \in Startups : turns' = Set(t, "startup", v)
  BY DEF StartupBegins, Startups
<1> QED BY <1>1, <1>3, <1>4, SetStep DEF StartupBegins

LEMMA WithoutEditTyped ==
  ASSUME TypeInv, NEW t \in Turns PROVE StOK(WithoutEdit(t).s, issued)
<1>1. issued \in Nat
  BY TurnsNat DEF TypeInv
<1> QED BY <1>1, HoldsOK DEF WithoutEdit, TypeInv

(* A step that replaces a record and continues with a drain.               *)
LEMMA RecordContinues ==
  ASSUME TypeInv, NEW t \in Turns, turns[t] # NoTurn,
         NEW r \in Turn, r.captured <= issued, r.next <= issued,
         NEW result, StOK(result.s, issued), NEW q \in Seq(Sends),
         NEW trigger,
         Continue(result, [turns EXCEPT ![t] = r], edits, q, trigger),
         UNCHANGED <<sends, stop, mutations>>
  PROVE  TypeInv'
<1>1. issued \in Nat /\ TurnsOK(turns, issued) /\ issued \in Turns
  BY TurnsNat DEF TypeInv
<1>2. t <= issued
  BY <1>1, Issued
<1>3. TurnsOK([turns EXCEPT ![t] = r], issued)
  BY <1>1, <1>2, TurnSet
<1>4. ContinueWith(result, [turns EXCEPT ![t] = r], edits, q, trigger,
                   StopInProgress)
  BY DEF Continue
<1>5. /\ issued' \in Turns /\ issued <= issued'
      /\ StOK(s', issued') /\ TurnsOK(turns', issued')
      /\ queue' \in Seq(Sends) /\ edits' \in [Edits -> EditRec(issued')]
  BY <1>1, <1>3, <1>4, ContinueTyped DEF TypeInv
<1> QED BY <1>5, TypedStep DEF TypeInv

LEMMA PreparationFailsTyped ==
  ASSUME TypeInv, NEW t \in Turns, PreparationFails(t) PROVE TypeInv'
<1>1. turns[t] # NoTurn
  BY NotNoTurn DEF PreparationFails, Waiting
<1>2. CASE turns' = Set(t, "startup", "failing")
           /\ UNCHANGED <<s, issued, queue, edits>>
  <2>1. "failing" \in Startups
    BY DEF Startups
  <2> QED BY <1>1, <1>2, <2>1, SameOK, SetStep DEF PreparationFails
<1>3. CASE Continue(WithoutEdit(t),
                    [turns EXCEPT ![t].startup = "failing",
                                  ![t].editId = None],
                    edits, queue, IfWoken(WithoutEdit(t)))
  <2> DEFINE r == [turns[t] EXCEPT !.startup = "failing", !.editId = None]
  <2>1. r \in Turn /\ r.captured <= issued /\ r.next <= issued
    <3>1. r \in Turn
      BY RecordFacts DEF Turn, Startups, None
    <3> QED BY <3>1, RecordFacts DEF Turn
  <2>2. Continue(WithoutEdit(t), [turns EXCEPT ![t] = r], edits, queue,
                 IfWoken(WithoutEdit(t)))
    <3>1. [turns EXCEPT ![t].startup = "failing", ![t].editId = None]
            = [turns EXCEPT ![t] = r]
      BY DEF TypeInv, TurnsOK
    <3> QED BY <1>3, <3>1
  <2> HIDE DEF r
  <2> QED BY <1>1, <2>1, <2>2, WithoutEditTyped, RecordContinues
          DEF PreparationFails, TypeInv
<1> QED BY <1>2, <1>3 DEF PreparationFails

LEMMA StartupFailsTyped ==
  ASSUME TypeInv, NEW t \in Turns, StartupFails(t) PROVE TypeInv'
<1> DEFINE r == [turns[t] EXCEPT !.startup = "failing", !.outcome = "failed",
                   !.policy = "handling", !.captured = t, !.editId = None]
<1>1. turns[t] # NoTurn
  BY NotNoTurn DEF StartupFails, Waiting
<1>2. t \in 1..issued /\ t <= issued /\ t \in Nat /\ issued \in Nat
  BY <1>1, RecordFacts
<1>3. r \in Turn /\ r.captured <= issued /\ r.next <= issued
  <2>1. r \in Turn
    BY <1>2, RecordFacts, ZenonT(30) DEF Turn, Startups, Policies, None
  <2> QED BY <1>2, <2>1, RecordFacts DEF Turn
<1>4. turns' = [turns EXCEPT ![t] = r]
  BY DEF StartupFails
<1> HIDE DEF r
<1>5. StOK(s', issued)
  <2>1. StOK(WithoutEdit(t).s, issued)
    BY WithoutEditTyped
  <2> QED BY <1>2, <2>1, ReducerOK DEF StartupFails
<1> QED BY <1>1, <1>3, <1>4, <1>5, RecordStep DEF StartupFails

LEMMA StreamStartsTyped ==
  ASSUME TypeInv, NEW t \in Turns, StreamStarts(t) PROVE TypeInv'
<1>1. turns[t] # NoTurn
  BY NotNoTurn DEF StreamStarts, Waiting
<1>2. StOK(s', issued)
  BY <1>1, RecordFacts, ReducerOK DEF StreamStarts, TypeInv
<1> QED BY <1>1, <1>2, SetStep DEF StreamStarts

LEMMA StartupDeliversTyped ==
  ASSUME TypeInv, NEW t \in Turns, StartupDelivers(t) PROVE TypeInv'
<1> DEFINE free == IsCurrentTurn(s, t) /\ s.life = "open" /\ ~turns[t].aborted
           res == IF free THEN WithoutEdit(t) ELSE Ignored(s)
           v == IF free THEN None ELSE turns[t].editId
           r == [turns[t] EXCEPT !.startup = "delivered", !.editId = v]
<1>1. turns[t] # NoTurn
  BY NotNoTurn DEF StartupDelivers
<1>2. v \in Nat
  BY RecordFacts DEF Turn, None
<1>3. StOK(res.s, issued)
  BY WithoutEditTyped, SelfOK
<1>4. Continue(res, [turns EXCEPT ![t] = r], edits, queue, IfWoken(res))
  <2>1. [turns EXCEPT ![t].startup = "delivered",
                      ![t].editId = IF free THEN None ELSE @]
          = [turns EXCEPT ![t] = r]
    BY DEF TypeInv, TurnsOK
  <2> QED BY <2>1 DEF StartupDelivers
<1> HIDE DEF v, res
<1>5. r \in Turn /\ r.captured <= issued /\ r.next <= issued
  <2>1. r \in Turn
    BY <1>2, RecordFacts DEF Turn, Startups
  <2> QED BY <2>1, RecordFacts DEF Turn
<1> HIDE DEF r
<1> QED BY <1>1, <1>3, <1>4, <1>5, RecordContinues DEF StartupDelivers, TypeInv

LEMMA StartupCancelledTyped ==
  ASSUME TypeInv, NEW t \in Turns, StartupCancelled(t) PROVE TypeInv'
<1>1. turns[t] # NoTurn
  BY NotNoTurn DEF StartupCancelled, Waiting
<1> QED BY <1>1, SameOK, SetStep DEF StartupCancelled

LEMMA PreparationCompletesTyped ==
  ASSUME TypeInv, NEW t \in Turns, PreparationCompletes(t) PROVE TypeInv'
<1> DEFINE e  == turns[t].editId
           f  == Finish(s, t, TRUE)
           rr == IF e = None THEN Ignored(f.s) ELSE Release(f.s, e, "edit")
           r  == [turns[t] EXCEPT !.startup = "done", !.editId = None]
           res == Result(rr.s, f.cmds \o rr.cmds)
<1>1. turns[t] # NoTurn
  BY NotNoTurn DEF PreparationCompletes
<1>2. StOK(f.s, issued)
  BY <1>1, RecordFacts, ReducerOK DEF TypeInv
<1> HIDE DEF f
<1>3. StOK(rr.s, issued)
  BY <1>2, RecordFacts, HoldsOK
<1> HIDE DEF rr
<1>4. StOK(res.s, issued)
  BY <1>3 DEF Result
<1>5. r \in Turn /\ r.captured <= issued /\ r.next <= issued
  <2>1. r \in Turn
    BY RecordFacts DEF Turn, Startups, None
  <2> QED BY <2>1, RecordFacts DEF Turn
<1>6. [turns EXCEPT ![t].startup = "done", ![t].editId = None]
        = [turns EXCEPT ![t] = r]
  BY DEF TypeInv, TurnsOK
<1> HIDE DEF res, r
<1>7. \E q \in Seq(Sends) : \E trigger :
         Continue(res, [turns EXCEPT ![t] = r], edits, q, trigger)
  <2>1. queue \in Seq(Sends) /\ << >> \in Seq(Sends)
    BY DEF TypeInv
  <2> QED BY <1>6, <2>1 DEF PreparationCompletes, f, rr, res
<1> QED BY <1>1, <1>4, <1>5, <1>7, RecordContinues DEF PreparationCompletes

LEMMA StreamEndsTyped ==
  ASSUME TypeInv, NEW t \in Turns, StreamEnds(t) PROVE TypeInv'
<1>1. turns[t] # NoTurn
  BY NotNoTurn DEF StreamEnds
<1>2. PICK how \in Outcomes(t) :
         /\ turns' = [turns EXCEPT ![t].engine = "ended", ![t].outcome = how]
         /\ s' = IF how = "failed" THEN s ELSE RawTerminal(s, how, t).s
  BY DEF StreamEnds
<1> DEFINE r == [turns[t] EXCEPT !.engine = "ended", !.outcome = how]
<1>3. how \in {"completed", "failed", "aborted", "tool-end"}
  BY DEF Outcomes
<1>4. r \in Turn /\ r.captured <= issued /\ r.next <= issued
  <2>1. r \in Turn
    BY <1>3, RecordFacts DEF Turn
  <2> QED BY <2>1, RecordFacts DEF Turn
<1>5. turns' = [turns EXCEPT ![t] = r]
  BY <1>2 DEF TypeInv, TurnsOK
<1> HIDE DEF r
<1>6. StOK(s', issued)
  <2>1. StOK(s, issued) /\ StOK(RawTerminal(s, how, t).s, issued)
    BY <1>1, RecordFacts, ReducerOK DEF TypeInv
  <2> QED BY <1>2, <2>1
<1> QED BY <1>1, <1>4, <1>5, <1>6, RecordStep DEF StreamEnds

LEMMA CompletionArrivesTyped ==
  ASSUME TypeInv, NEW t \in Turns, CompletionArrives(t) PROVE TypeInv'
<1> DEFINE on == turns[t].outcome \in {"aborted", "cancelled"}
<1>1. turns[t] # NoTurn
  BY NotNoTurn DEF CompletionArrives
<1>2. t \in 1..issued /\ issued \in Nat /\ on \in BOOLEAN
  BY <1>1, RecordFacts
<1>3. s' = Completion(s, t, t, on).s
  BY DEF CompletionArrives
<1> HIDE DEF on
<1>4. StOK(s', issued)
  BY <1>2, <1>3, ReducerOK DEF TypeInv
<1>5. \E v \in Policies : turns' = Set(t, "policy", v)
  BY DEF CompletionArrives, Policies
<1> QED BY <1>1, <1>4, <1>5, SetStep DEF CompletionArrives

LEMMA PolicyHandlesTyped ==
  ASSUME TypeInv, NEW t \in Turns, PolicyHandles(t) PROVE TypeInv'
<1> DEFINE v == IF IsCurrentOperation(s, t) THEN "handling" ELSE "done"
           r == [turns[t] EXCEPT !.captured = s.turn, !.policy = v]
<1>1. turns[t] # NoTurn
  BY NotNoTurn DEF PolicyHandles
<1>2. s.turn \in 1..issued /\ issued \in Nat
  BY RecordFacts DEF TypeInv, StOK
<1>3. StOK(s', issued)
  BY <1>2, ReducerOK DEF PolicyHandles, TypeInv
<1>4. turns' = [turns EXCEPT ![t] = r]
  BY DEF PolicyHandles
<1>5. v \in Policies
  BY DEF Policies
<1> HIDE DEF v
<1>6. r \in Turn /\ r.captured <= issued /\ r.next <= issued
  <2>1. s.turn \in Nat /\ s.turn <= issued /\ turns[t] \in Turn
    BY <1>2, RecordFacts
  <2>2. r \in Turn
    BY <1>5, <2>1 DEF Turn
  <2> QED BY <2>1, <2>2, RecordFacts DEF Turn
<1> HIDE DEF r
<1> QED BY <1>1, <1>3, <1>4, <1>6, RecordStep DEF PolicyHandles

LEMMA SetRecord ==
  ASSUME TypeInv, NEW t \in Turns, NEW v \in Policies
  PROVE  LET r == [turns[t] EXCEPT !.policy = v]
         IN /\ r \in Turn /\ r.captured <= issued /\ r.next <= issued
            /\ Set(t, "policy", v) = [turns EXCEPT ![t] = r]
<1> DEFINE r == [turns[t] EXCEPT !.policy = v]
<1>1. r \in Turn
  BY RecordFacts, FieldTypes
<1>2. r.captured = turns[t].captured /\ r.next = turns[t].next
  BY RecordFacts DEF Turn
<1> QED BY <1>1, <1>2, RecordFacts DEF Set

LEMMA PolicyOnly ==
  ASSUME TypeInv, NEW t \in Turns, turns[t] # NoTurn, NEW v \in Policies,
         turns' = Set(t, "policy", v), s' = s,
         UNCHANGED <<issued, queue, sends, edits, stop, mutations>>
  PROVE  TypeInv'
BY SameOK, SetStep

LEMMA PolicyMoves ==
  ASSUME TypeInv, NEW t \in Turns,
         \/ PolicyLeaves(t) \/ GoalAccounts(t) \/ PolicyDetours(t)
         \/ RecoveryFails(t) \/ HandoffReturns(t)
  PROVE  TypeInv'
<1>1. /\ turns[t].policy # "off" \/ turns[t].outcome # "none"
      /\ \E v \in Policies : turns' = Set(t, "policy", v)
      /\ s' = s /\ UNCHANGED <<issued, queue, sends, edits, stop, mutations>>
  BY DEF PolicyLeaves, GoalAccounts, PolicyDetours, RecoveryFails,
         HandoffReturns, Policies
<1>2. turns[t] # NoTurn
  BY <1>1, NotNoTurn
<1> QED BY <1>1, <1>2, PolicyOnly

(* A captured turn that is current has been issued.                        *)
LEMMA CurrentIssued ==
  ASSUME TypeInv, NEW t \in Turns, Current(t)
  PROVE  turns[t].captured \in 1..issued
BY DEF Current, IsCurrentTurn, TypeInv, StOK

LEMMA EndTurnTyped ==
  ASSUME TypeInv, NEW t \in Turns, Current(t), turns[t] # NoTurn,
         NEW trigger, EndTurn(t, trigger)
  PROVE  TypeInv'
<1> DEFINE r == [turns[t] EXCEPT !.policy = "done"]
           res == IF Flushes(trigger) THEN Ignored(s)
                    ELSE Finish(s, turns[t].captured, FALSE)
<1>1. issued \in Nat /\ FALSE \in BOOLEAN
  BY TurnsNat DEF TypeInv
<1>2. StOK(res.s, issued)
  BY <1>1, CurrentIssued, ReducerOK, SelfOK DEF TypeInv
<1> HIDE DEF res
<1>3. /\ r \in Turn /\ r.captured <= issued /\ r.next <= issued
      /\ Set(t, "policy", "done") = [turns EXCEPT ![t] = r]
  BY SetRecord DEF Policies
<1> HIDE DEF r
<1>4. \E go : Continue(res, [turns EXCEPT ![t] = r], edits, queue, go)
  BY <1>3 DEF EndTurn, res
<1> QED BY <1>2, <1>3, <1>4, RecordContinues DEF EndTurn, TypeInv

LEMMA PolicyEndsTyped ==
  ASSUME TypeInv, NEW t \in Turns,
         \/ PolicySucceeds(t) \/ GoalAccounted(t) \/ PolicyFails(t)
         \/ PolicyAborts(t)
  PROVE  TypeInv'
<1>1. /\ Current(t) /\ turns[t].policy # "off"
      /\ \E trigger : EndTurn(t, trigger)
  BY DEF PolicySucceeds, GoalAccounted, PolicyFails, PolicyAborts, Terminal
<1> QED BY <1>1, NotNoTurn, EndTurnTyped

(* A policy hands over to the turn it claims.                              *)
LEMMA HandsOffTyped ==
  ASSUME TypeInv, NEW t \in Turns, turns[t] # NoTurn, NEW req,
         NEW who \in Claimants,
         Claim(req, ClaimedBy(who, None, None), HandedOff(t)),
         UNCHANGED <<sends, edits, stop, mutations>>
  PROVE  TypeInv'
<1> DEFINE c == ClaimedBy(who, None, None)
           n == issued + 1
           r == [turns[t] EXCEPT !.policy = "handed-off", !.next = n]
<1>1. c \in Turn /\ c.captured = 0 /\ c.next = 0
  BY ClaimedType DEF None
<1>2. issued \in Nat /\ n \in Nat /\ issued < MaxTurns /\ n <= MaxTurns
      /\ MaxTurns \in Nat
  BY TurnsNat DEF TypeInv, Claim
<1>3. r \in Turn /\ r.captured = turns[t].captured /\ r.next = n
  <2>1. turns[t] \in Turn
    BY RecordFacts
  <2>2. r \in Turn
    BY <1>2, <2>1 DEF Turn, Policies
  <2> QED BY <2>1, <2>2 DEF Turn
<1>4. HandedOff(t) = [turns EXCEPT ![t] = r]
  BY DEF HandedOff, TypeInv, TurnsOK
<1>5. t <= issued /\ t \in 1..issued
  BY RecordFacts
<1> HIDE DEF r, c
<1>6. TurnsOK(turns, n)
  BY <1>2, BoundGrows DEF TypeInv
<1>7. TurnsOK([turns EXCEPT ![t] = r], n)
  <2>1. r.captured <= n /\ t <= n
    BY <1>2, <1>3, <1>5, RecordFacts DEF Turn
  <2> QED BY <1>2, <1>3, <1>6, <2>1, TurnSet
<1>8. n \in Turns /\ n <= n
  BY <1>2 DEF Turns
<1>9. TurnsOK([[turns EXCEPT ![t] = r] EXCEPT ![n] = c], n)
  <2> DEFINE tt == [turns EXCEPT ![t] = r]
  <2> HIDE DEF tt
  <2> SUFFICES ASSUME TurnsOK(tt, n) PROVE TurnsOK([tt EXCEPT ![n] = c], n)
    BY <1>7 DEF tt
  <2>1. c.captured <= n /\ c.next <= n
    BY <1>1, <1>2
  <2> QED BY <1>1, <1>2, <1>8, <2>1, TurnSet
<1>10. /\ issued' = n /\ queue' = queue
       /\ turns' = [[turns EXCEPT ![t] = r] EXCEPT ![n] = c]
       /\ s' = Prepare(s, issued + 1, req).s
  BY <1>4 DEF Claim, c
<1>11. StOK(s', n) /\ TurnsOK(turns', n) /\ issued <= n
  BY <1>2, <1>9, <1>10, PrepareOK DEF TypeInv
<1>12. edits' \in [Edits -> EditRec(n)]
  BY <1>2, BoundGrows DEF TypeInv
<1> HIDE DEF n
<1> QED BY <1>8, <1>10, <1>11, <1>12, TypedStep DEF TypeInv

LEMMA RecoveryHandsOffTyped ==
  ASSUME TypeInv, NEW t \in Turns, RecoveryHandsOff(t) PROVE TypeInv'
<1>1. turns[t] # NoTurn
  BY NotNoTurn DEF RecoveryHandsOff
<1> DEFINE req == Fresh("handoff", turns[t].captured, None)
<1>2. CASE Admits(s, req)
  BY <1>1, <1>2, HandsOffTyped DEF RecoveryHandsOff, Claimants
<1>3. CASE ~Admits(s, req)
  BY <1>1, <1>3, PolicyOnly DEF RecoveryHandsOff, Policies
<1> QED BY <1>2, <1>3

LEMMA FollowUpIsSentTyped ==
  ASSUME TypeInv, NEW t \in Turns, FollowUpIsSent(t) PROVE TypeInv'
<1>1. turns[t] # NoTurn
  BY NotNoTurn DEF FollowUpIsSent
<1> DEFINE req == Fresh("direct", turns[t].captured, None)
<1>2. CASE Admits(s, req) /\ ~StopInProgress
  BY <1>1, <1>2, HandsOffTyped DEF FollowUpIsSent, Claimants
<1>3. CASE ~(Admits(s, req) /\ ~StopInProgress)
  BY <1>1, <1>3, PolicyOnly DEF FollowUpIsSent, Policies
<1> QED BY <1>2, <1>3

(* A step that moves one edit and keeps the turns and the state.           *)
LEMMA EditOnly ==
  ASSUME TypeInv, NEW e \in Edits, NEW at \in EditStates,
         edits' = EditIs(e, at), s' = s,
         UNCHANGED <<issued, queue, turns, sends, stop, mutations>>
  PROVE  TypeInv'
<1>1. edits' \in [Edits -> EditRec(issued)]
  BY EditIsType DEF TypeInv
<1> QED BY <1>1, SameOK, UnclaimedStep DEF TypeInv

LEMMA EditArrivesTyped ==
  ASSUME TypeInv, NEW e \in Edits, EditArrives(e) \/ EditDecides(e)
  PROVE  TypeInv'
BY EditOnly DEF EditArrives, EditDecides, EditStates

LEMMA EditReservesTyped ==
  ASSUME TypeInv, NEW e \in Edits, EditReserves(e) PROVE TypeInv'
<1>1. edits' \in [Edits -> EditRec(issued)]
  BY EditIsType DEF EditReserves, EditStates, TypeInv
<1>2. StOK(s', issued)
  <2>1. issued \in Nat /\ e \in Nat /\ "edit" \in ReservationKinds
    BY TurnsNat, CallsNat DEF TypeInv, ReservationKinds
  <2> QED BY <2>1, HoldsOK DEF EditReserves, TypeInv
<1> QED BY <1>1, <1>2, UnclaimedStep DEF EditReserves, TypeInv

LEMMA RunningOpType == ASSUME TypeInv PROVE RunningOp \in 0..issued
BY TurnsNat DEF RunningOp, TypeInv, StOK, None

LEMMA CutAllType ==
  ASSUME TypeInv, NEW tt, TurnsOK(tt, issued)
  PROVE  TurnsOK(CutAll(tt), issued)
<1>1. ASSUME NEW t \in Turns
      PROVE  LET r == [tt[t] EXCEPT !.cut = TRUE]
             IN /\ r \in Turn /\ r.captured = tt[t].captured
                /\ r.next = tt[t].next
  <2>1. tt[t] \in Turn
    BY DEF TurnsOK
  <2>2. [tt[t] EXCEPT !.cut = TRUE] \in Turn
    BY <2>1, FieldTypes
  <2> QED BY <2>1, <2>2 DEF Turn
<1>2. \A t \in Turns : t > issued => CutAll(tt)[t] = tt[t]
  <2> SUFFICES ASSUME NEW t \in Turns, t > issued
               PROVE  ~(Waiting(t) \/ turns[t].engine = "live")
    BY DEF CutAll
  <2>1. turns[t] = NoTurn
    BY DEF TypeInv, TurnsOK
  <2> QED BY <2>1 DEF NoTurn, Waiting
<1>3. \A t \in Turns : CutAll(tt)[t] \in {tt[t], [tt[t] EXCEPT !.cut = TRUE]}
  BY DEF CutAll
<1>4. CutAll(tt) = [t \in Turns |-> CutAll(tt)[t]]
  BY DEF CutAll
<1>5. ASSUME NEW t \in Turns
      PROVE  /\ CutAll(tt)[t] \in Turn
             /\ CutAll(tt)[t].captured = tt[t].captured
             /\ CutAll(tt)[t].next = tt[t].next
  BY <1>1, <1>3 DEF TurnsOK
<1> HIDE DEF CutAll
<1>6. CutAll(tt) \in [Turns -> Turn]
  BY <1>4, <1>5
<1> QED BY <1>2, <1>5, <1>6 DEF TurnsOK

LEMMA EditInterruptsTyped ==
  ASSUME TypeInv, NEW e \in Edits, EditInterrupts(e) PROVE TypeInv'
<1>1. CASE s.phase \in {"idle", "completing"}
  <2>1. \E at \in EditStates : edits' = EditIs(e, at)
    BY <1>1 DEF EditInterrupts, EditStates
  <2> QED BY <1>1, <2>1, EditOnly DEF EditInterrupts
<1>2. CASE s.phase \notin {"idle", "completing"}
  <2>1. [edits[e] EXCEPT !.at = "stopping", !.op = RunningOp]
          \in EditRec(issued)
    BY RunningOpType DEF TypeInv, EditRec
  <2>2. edits' \in [Edits -> EditRec(issued)]
    BY <1>2, <2>1 DEF EditInterrupts, TypeInv
  <2>3. TurnsOK(turns', issued)
    BY <1>2, CutAllType DEF EditInterrupts, TypeInv
  <2>4. StOK(s', issued)
    BY SameOK DEF EditInterrupts
  <2> QED BY <2>2, <2>3, <2>4, UnclaimedStep DEF EditInterrupts, TypeInv
<1> QED BY <1>1, <1>2

LEMMA PreemptedType ==
  ASSUME TypeInv, NEW t \in Turns, t <= issued
  PROVE  TurnsOK(Preempted(t), issued)
<1> DEFINE r == [turns[t] EXCEPT !.aborted = TRUE]
<1>1. r \in Turn /\ r.captured <= issued /\ r.next <= issued
  <2>1. r \in Turn
    BY RecordFacts, FieldTypes
  <2> QED BY <2>1, RecordFacts DEF Turn
<1>2. Preempted(t) = [turns EXCEPT ![t] = r]
  BY DEF Preempted
<1> HIDE DEF r
<1>3. issued \in Nat /\ TurnsOK(turns, issued)
  BY TurnsNat DEF TypeInv
<1>4. TurnsOK([turns EXCEPT ![t] = r], issued)
  BY <1>1, <1>3, TurnSet
<1> QED BY <1>2, <1>4

LEMMA TurnIssued ==
  ASSUME TypeInv
  PROVE  s.turn \in Turns /\ s.turn \in 1..issued /\ s.turn <= issued
BY TurnsNat DEF TypeInv, StOK, Turns

LEMMA EditPreemptsTyped ==
  ASSUME TypeInv, NEW e \in Edits, EditPreempts(e) PROVE TypeInv'
<1> DEFINE p == s.phase = "preparing" /\ Controlled(s.turn)
           at == IF p \/ s.phase = "idle" THEN "settled" ELSE "waiting"
<1>1. EditIs(e, at) \in [Edits -> EditRec(issued)]
  BY EditIsType DEF EditStates, TypeInv
<1>2. \E cmds : edits' = Released(EditIs(e, at), cmds)
  BY DEF EditPreempts
<1> HIDE DEF at
<1>3. edits' \in [Edits -> EditRec(issued)]
  BY <1>1, <1>2, ReleasedType
<1>4. StOK(s', issued)
  <2>1. StOK(Preempt(s, s.turn).s, issued)
    BY TurnsNat, TurnIssued, ReducerOK DEF TypeInv
  <2> QED BY <2>1, SameOK DEF EditPreempts
<1>5. TurnsOK(turns', issued)
  BY TurnIssued, PreemptedType DEF EditPreempts, TypeInv
<1> QED BY <1>3, <1>4, <1>5, UnclaimedStep DEF EditPreempts, TypeInv

LEMMA EditEndsTyped ==
  ASSUME TypeInv, NEW e \in Edits, EditEnds(e) PROVE TypeInv'
<1> DEFINE r == Release(s, e, "edit")
<1>1. StOK(r.s, issued)
  BY TurnsNat, HoldsOK DEF TypeInv
<1>2. EditIs(e, "done") \in [Edits -> EditRec(issued)]
  BY EditIsType DEF EditStates, TypeInv
<1> HIDE DEF r
<1>3. \E go : ContinueWith(r, turns, EditIs(e, "done"), queue, go,
                           StopInProgress)
  BY DEF EditEnds, Continue, r
<1>4. /\ issued' \in Turns /\ issued <= issued'
      /\ StOK(s', issued') /\ TurnsOK(turns', issued')
      /\ queue' \in Seq(Sends) /\ edits' \in [Edits -> EditRec(issued')]
  BY <1>1, <1>2, <1>3, ContinueTyped DEF TypeInv
<1> QED BY <1>4, TypedStep DEF EditEnds, TypeInv

LEMMA EditSettlesTyped ==
  ASSUME TypeInv, NEW e \in Edits, EditSettles(e) PROVE TypeInv'
<1>1. CASE MayEdit(e)
  <2>1. [edits[e] EXCEPT !.at = "truncating", !.expected = s.turn]
          \in EditRec(issued)
    <3>1. s.turn \in 0..issued
      BY TurnsNat DEF TypeInv, StOK
    <3> QED BY <3>1 DEF TypeInv, EditRec
  <2>2. edits' \in [Edits -> EditRec(issued)]
    BY <1>1, <2>1 DEF EditSettles, TypeInv
  <2>3. StOK(s', issued)
    BY <1>1, SameOK DEF EditSettles
  <2> QED BY <1>1, <2>2, <2>3, UnclaimedStep DEF EditSettles, TypeInv
<1>2. CASE ~MayEdit(e)
  BY <1>2, EditEndsTyped DEF EditSettles
<1> QED BY <1>1, <1>2

LEMMA EditTruncatesTyped ==
  ASSUME TypeInv, NEW e \in Edits, EditTruncates(e) PROVE TypeInv'
<1>1. edits' \in [Edits -> EditRec(issued)]
  BY EditIsType DEF EditTruncates, EditStates, TypeInv
<1>2. StOK(s', issued) /\ << >> \in Seq(Sends)
  BY SameOK DEF EditTruncates
<1> QED BY <1>1, <1>2, UnclaimedStep DEF EditTruncates, TypeInv

LEMMA EditPreparesTyped ==
  ASSUME TypeInv, NEW e \in Edits, EditPrepares(e) PROVE TypeInv'
<1> DEFINE req == Fresh("direct", edits[e].expected, e)
           ok == Admits(s, req) /\ ~StopInProgress /\ ~edits[e].stale
<1>1. CASE ok
  <2> DEFINE c == ClaimedBy("edit", None, e)
  <2>1. c \in Turn /\ c.captured = 0 /\ c.next = 0
    BY ClaimedType, CallsNat DEF Claimants, None
  <2>2. Claim(req, c, turns)
    BY <1>1 DEF EditPrepares
  <2> HIDE DEF c, req
  <2>3. /\ issued' \in Turns /\ issued' = issued + 1
        /\ StOK(s', issued') /\ TurnsOK(turns', issued')
        /\ queue' \in Seq(Sends)
    BY <2>1, <2>2, ClaimTyped DEF TypeInv
  <2>4. issued \in Nat /\ issued <= issued' /\ issued' \in Nat
    BY <2>3, TurnsNat DEF TypeInv
  <2>5. edits' \in [Edits -> EditRec(issued')]
    <3>1. edits \in [Edits -> EditRec(issued')]
      BY <2>4, BoundGrows DEF TypeInv
    <3>2. First(e) \in BOOLEAN /\ issued + 1 \in Nat
      BY <2>4 DEF First
    <3>3. [edits[e] EXCEPT !.at = "leaving", !.first = First(e),
                           !.turn = issued + 1] \in EditRec(issued')
      BY <3>1, <3>2 DEF EditRec
    <3> QED BY <1>1, <3>1, <3>3 DEF EditPrepares, req
  <2>6. UNCHANGED <<sends, stop, mutations>>
    BY <1>1 DEF EditPrepares, req
  <2> QED BY <2>3, <2>4, <2>5, <2>6, TypedStep DEF TypeInv
<1>2. CASE ~ok
  BY <1>2, EditEndsTyped DEF EditPrepares
<1> QED BY <1>1, <1>2

LEMMA EditReturnsTyped ==
  ASSUME TypeInv, NEW e \in Edits, EditReturns(e) PROVE TypeInv'
<1>1. EditIs(e, "done") \in [Edits -> EditRec(issued)]
  BY EditIsType DEF EditStates, TypeInv
<1>2. \E go : ContinueWith(Ignored(s), turns, EditIs(e, "done"), queue, go,
                           StopInProgress)
  BY DEF EditReturns, Continue
<1>3. /\ issued' \in Turns /\ issued <= issued'
      /\ StOK(s', issued') /\ TurnsOK(turns', issued')
      /\ queue' \in Seq(Sends) /\ edits' \in [Edits -> EditRec(issued')]
  BY <1>1, <1>2, SelfOK, ContinueTyped DEF TypeInv
<1> QED BY <1>3, TypedStep DEF EditReturns, TypeInv

LEMMA StopBeginsTyped ==
  ASSUME TypeInv, NEW how, StopBegins(how) PROVE TypeInv'
<1> DEFINE old(t) == turns[t].startup \in {"reserved", "prepared", "starting"}
           tt == [t \in Turns |-> IF old(t)
                    THEN [turns[t] EXCEPT !.stale = TRUE] ELSE turns[t]]
<1>1. TurnsOK(tt, issued)
  <2>1. ASSUME NEW t \in Turns
        PROVE  LET r == [turns[t] EXCEPT !.stale = TRUE]
               IN /\ r \in Turn /\ r.captured = turns[t].captured
                  /\ r.next = turns[t].next
    <3>1. [turns[t] EXCEPT !.stale = TRUE] \in Turn
      BY RecordFacts, FieldTypes
    <3> QED BY <3>1, RecordFacts DEF Turn
  <2>2. ASSUME NEW t \in Turns, t > issued PROVE tt[t] = NoTurn
    <3>1. turns[t] = NoTurn
      BY <2>2 DEF TypeInv, TurnsOK
    <3> QED BY <3>1 DEF NoTurn
  <2>3. ASSUME NEW t \in Turns
        PROVE  /\ tt[t] \in Turn /\ tt[t].captured <= issued
               /\ tt[t].next <= issued
    BY <2>1, RecordFacts
  <2> HIDE DEF old
  <2>4. tt \in [Turns -> Turn]
    BY <2>3
  <2> QED BY <2>2, <2>3, <2>4 DEF TurnsOK
<1>2. turns' = CutAll(tt)
  BY DEF StopBegins
<1> HIDE DEF tt
<1>3. TurnsOK(turns', issued)
  BY <1>1, <1>2, CutAllType
<1>4. stop' \in StopRec(issued)
  BY RunningOpType DEF StopBegins, StopRec
<1>5. sends' \in [Sends -> SendRec(issued)]
  <2>1. \A x \in Sends : [sends[x] EXCEPT !.expected = None]
                           \in SendRec(issued)
    <3>1. None \in 0..issued
      BY TurnsNat DEF TypeInv, None
    <3> QED BY <3>1 DEF TypeInv, SendRec
  <2> QED BY <2>1 DEF StopBegins, TypeInv
<1>6. edits' \in [Edits -> EditRec(issued)]
  <2>1. \A e \in Edits : [edits[e] EXCEPT !.stale = TRUE] \in EditRec(issued)
    BY DEF TypeInv, EditRec
  <2> QED BY <2>1 DEF StopBegins, TypeInv
<1>7. StOK(s', issued)
  BY SameOK DEF StopBegins
<1> QED BY <1>3, <1>4, <1>5, <1>6, <1>7, UnclaimedStep DEF StopBegins, TypeInv

LEMMA StopEndsTyped == ASSUME TypeInv, StopEnds PROVE TypeInv'
<1>1. stop' \in StopRec(issued)
  BY DEF StopEnds, TypeInv, StopRec
<1>2. CASE stop.how = "send-now"
  <2>1. ContinueWith(Ignored(s), turns, edits, queue, "send-immediately",
                     FALSE)
    BY <1>2 DEF StopEnds
  <2>2. /\ issued' \in Turns /\ issued <= issued'
        /\ StOK(s', issued') /\ TurnsOK(turns', issued')
        /\ queue' \in Seq(Sends) /\ edits' \in [Edits -> EditRec(issued')]
    BY <2>1, SelfOK, ContinueTyped DEF TypeInv
  <2> QED BY <1>1, <2>2, TypedStep DEF StopEnds, TypeInv
<1>3. CASE stop.how # "send-now"
  <2>1. StOK(s', issued) /\ << >> \in Seq(Sends)
    BY <1>3, SameOK DEF StopEnds
  <2> QED BY <1>1, <1>3, <2>1, UnclaimedStep DEF StopEnds, TypeInv
<1> QED BY <1>2, <1>3

LEMMA SoftSendNowTyped == ASSUME TypeInv, SoftSendNow PROVE TypeInv'
<1>1. TurnsOK(CutAll(turns), issued)
  BY CutAllType DEF TypeInv
<1>2. ContinueWith(Ignored(s), CutAll(turns), edits, queue,
                   "send-immediately", StopInProgress)
  BY DEF SoftSendNow, Continue
<1>3. /\ issued' \in Turns /\ issued <= issued'
      /\ StOK(s', issued') /\ TurnsOK(turns', issued')
      /\ queue' \in Seq(Sends) /\ edits' \in [Edits -> EditRec(issued')]
  BY <1>1, <1>2, SelfOK, ContinueTyped DEF TypeInv
<1> QED BY <1>3, TypedStep DEF SoftSendNow, TypeInv

LEMMA MutationBeginsTyped ==
  ASSUME TypeInv, NEW m \in Mutations, MutationBegins(m) PROVE TypeInv'
<1> DEFINE held == Reserve(s, m, "admission").s
           r    == Release(held, m, "admission")
<1>1. issued \in Nat /\ m \in Nat /\ "admission" \in ReservationKinds
  BY TurnsNat, CallsNat DEF TypeInv, ReservationKinds
<1>2. StOK(held, issued)
  BY <1>1, HoldsOK DEF TypeInv
<1> HIDE DEF held
<1>3. StOK(r.s, issued)
  BY <1>1, <1>2, HoldsOK
<1> HIDE DEF r
<1>4. MutationsOK(mutations')
  BY DEF MutationBegins, TypeInv, MutationsOK
<1>5. CASE MutationMayBegin
  BY <1>2, <1>4, <1>5, UnclaimedStep DEF MutationBegins, TypeInv, held
<1>6. CASE ~MutationMayBegin
  <2>1. ContinueWith(r, turns, edits, queue, IfWoken(r), StopInProgress)
    BY <1>6 DEF MutationBegins, Continue, r, held
  <2>2. /\ issued' \in Turns /\ issued <= issued'
        /\ StOK(s', issued') /\ TurnsOK(turns', issued')
        /\ queue' \in Seq(Sends) /\ edits' \in [Edits -> EditRec(issued')]
    BY <1>3, <2>1, ContinueTyped DEF TypeInv
  <2> QED BY <1>4, <2>2, TypedStep DEF MutationBegins, TypeInv
<1> QED BY <1>5, <1>6

LEMMA MutationEndsTyped ==
  ASSUME TypeInv, NEW m \in Mutations, MutationEnds(m) PROVE TypeInv'
<1> DEFINE r == Release(s, m, "admission")
<1>1. StOK(r.s, issued)
  BY TurnsNat, HoldsOK DEF TypeInv
<1> HIDE DEF r
<1>2. ContinueWith(r, turns, edits, queue, IfWoken(r), StopInProgress)
  BY DEF MutationEnds, Continue, r
<1>3. /\ issued' \in Turns /\ issued <= issued'
      /\ StOK(s', issued') /\ TurnsOK(turns', issued')
      /\ queue' \in Seq(Sends) /\ edits' \in [Edits -> EditRec(issued')]
  BY <1>1, <1>2, ContinueTyped DEF TypeInv
<1>4. MutationsOK(mutations')
  BY DEF MutationEnds, TypeInv, MutationsOK
<1> QED BY <1>3, <1>4, TypedStep DEF MutationEnds, TypeInv

LEMMA BeginShutdownTyped == ASSUME TypeInv, BeginShutdown PROVE TypeInv'
<1>1. StOK(s', issued)
  BY TurnsNat, HoldsOK DEF BeginShutdown, TypeInv
<1>2. \A e \in Edits : [edits[e] EXCEPT !.at = "settled"] \in EditRec(issued)
  BY DEF TypeInv, EditRec
<1>3. edits' \in [Edits -> EditRec(issued)]
  BY <1>2 DEF BeginShutdown, TypeInv
<1> QED BY <1>1, <1>3, UnclaimedStep DEF BeginShutdown, TypeInv

LEMMA SendingTyped ==
  ASSUME TypeInv, NEW x \in Sends, SendArrives(x) \/ Sending(x)
  PROVE  TypeInv'
BY SendArrivesTyped, SendDecidesTyped, SendRefusedTyped, SendPreparesTyped,
   SendReturnsTyped DEF Sending

LEMMA TurnTyped ==
  ASSUME TypeInv, NEW t \in Turns,
         \/ Startup(t) \/ Failure(t) \/ StreamEnds(t) \/ Completing(t)
         \/ Detour(t)
  PROVE  TypeInv'
BY QueuedPreparesTyped, StartupBeginsTyped, StreamStartsTyped,
   StartupDeliversTyped, StartupCancelledTyped, PreparationCompletesTyped,
   PreparationFailsTyped, StartupFailsTyped, StreamEndsTyped,
   CompletionArrivesTyped, PolicyHandlesTyped, PolicyMoves, PolicyEndsTyped,
   RecoveryHandsOffTyped, FollowUpIsSentTyped
   DEF Startup, Failure, Completing, Ending, Detour

LEMMA EditingTyped ==
  ASSUME TypeInv, NEW e \in Edits, EditArrives(e) \/ Editing(e)
  PROVE  TypeInv'
BY EditArrivesTyped, EditEndsTyped, EditReservesTyped, EditInterruptsTyped,
   EditPreemptsTyped, EditSettlesTyped, EditTruncatesTyped, EditPreparesTyped,
   EditReturnsTyped DEF Editing, EditRefused

LEMMA InitTyped == Init => TypeInv
<1> SUFFICES ASSUME Init PROVE TypeInv
  OBVIOUS
<1>1. issued = 1 /\ 1 \in Turns /\ 1 \in Nat
  BY TurnsNat DEF Init
<1>2. s \in CoordinatorState /\ s.turn = 1 /\ s.op.id = 0
  BY NoOpType DEF Init, InitialState, CoordinatorState, None, Lifetimes,
     Phases, Stages, NoOperation, NewOperation
<1>3. TurnsOK(turns, 1)
  <2>1. NoTurn.captured = 0 /\ NoTurn.next = 0
    BY DEF NoTurn, None
  <2> QED BY <2>1, NoTurnType DEF Init, TurnsOK
<1>4. sends \in [Sends -> SendRec(1)] /\ edits \in [Edits -> EditRec(1)]
      /\ stop \in StopRec(1)
  BY DEF Init, SendRec, EditRec, StopRec, None
<1>5. StOK(s, 1)
  BY <1>2 DEF StOK
<1>6. queue \in Seq(Sends) /\ MutationsOK(mutations)
  BY DEF Init, MutationsOK
<1> QED BY <1>1, <1>3, <1>4, <1>5, <1>6 DEF TypeInv

LEMMA StutterTyped ==
  ASSUME TypeInv, UNCHANGED vars PROVE TypeInv'
BY DEF TypeInv, StOK, TurnsOK, SendRec, EditRec, StopRec, MutationsOK, vars

LEMMA NextTyped == ASSUME TypeInv, Next PROVE TypeInv'
<1>1. CASE \E x \in Sends : SendArrives(x) \/ Sending(x)
  BY <1>1, SendingTyped
<1>2. CASE \E t \in Turns : \/ Startup(t) \/ Failure(t) \/ StreamEnds(t)
                            \/ Completing(t) \/ Detour(t)
  BY <1>2, TurnTyped
<1>3. CASE \E e \in Edits : EditArrives(e) \/ Editing(e)
  BY <1>3, EditingTyped
<1>4. CASE \E how \in {"stop", "send-now"} : StopBegins(how)
  BY <1>4, StopBeginsTyped
<1>5. CASE StopEnds \/ SoftSendNow \/ BeginShutdown
  BY <1>5, StopEndsTyped, SoftSendNowTyped, BeginShutdownTyped
<1>6. CASE \E m \in Mutations : MutationBegins(m) \/ MutationEnds(m)
  BY <1>6, MutationBeginsTyped, MutationEndsTyped
<1> QED BY <1>1, <1>2, <1>3, <1>4, <1>5, <1>6 DEF Next

LEMMA SessionTyped == Spec => []TypeInv
<1>1. TypeInv /\ [Next /\ UNCHANGED cast]_<<vars, cast>> => TypeInv'
  BY NextTyped, StutterTyped
<1> QED BY <1>1, InitTyped, PTL DEF Spec

(* Every variable keeps its type, whatever the turns, calls and casts: no  *)
(* turn number is used that was not issued, a policy captures the turn it  *)
(* found, and every record of a send, an edit or a stop is one its call    *)
(* can be in.                                                              *)
THEOREM TypeHolds == Spec => []TypeOK
<1>1. TypeInv => TypeOK
  BY TypeInvType
<1> QED BY <1>1, SessionTyped, PTL

-----------------------------------------------------------------------------
(* The order of user sends.                                                *)

(* The calls that have not decided.                                        *)
Asked == {c \in Calls : At(c) = "preflight"}

Decided(x) == \/ sends[x].at = "direct"
              \/ \E i \in DOMAIN queue : queue[i] = x
              \/ \E t \in Turns : turns[t].send = x

OrderInv ==
  /\ SendsInOrder /\ \A t \in Turns : turns[t].send \in Sends \cup {None}
  /\ \A i, j \in DOMAIN queue : i < j => queue[i] < queue[j]
  /\ \A i \in DOMAIN queue, t \in Turns : turns[t].send < queue[i]
  /\ \A x \in Sends : Decided(x) =>
       sends[x].at # "off" /\ \A c \in Asked : x < c
  /\ \A x \in Sends : sends[x].at = "direct" =>
       /\ \A y \in Sends : sends[y].at = "direct" => x = y
       /\ sends[x].expected = s.turn =>
            /\ \A t \in Turns : turns[t].send < x
            /\ \A i \in DOMAIN queue : x < queue[i]

SameSends(tt) == \A t \in Turns : tt[t].send = turns[t].send

(* No send decides, and none that was on its way forgets that.             *)
CallsKept ==
  /\ \A x \in Sends :
       /\ sends'[x].at = "off" => sends[x].at = "off"
       /\ sends'[x].at = "direct" =>
            sends[x].at = "direct"
              /\ sends'[x].expected \in {sends[x].expected, None}
  /\ Asked' \subseteq Asked

LEMMA OrderKept ==
  ASSUME TypeInv, OrderInv, CallsKept, SameSends(turns'),
         s'.turn = s.turn, queue' \in {queue, << >>}
  PROVE  OrderInv'
<1>1. DOMAIN queue' \subseteq DOMAIN queue
      /\ \A i \in DOMAIN queue' : queue'[i] = queue[i]
  OBVIOUS
<1>2. SendsInOrder' /\ \A t \in Turns : turns'[t].send \in Sends \cup {None}
  BY DEF SendsInOrder, OrderInv, SameSends
<1>3. \A i, j \in DOMAIN queue' : i < j => queue'[i] < queue'[j]
  BY <1>1 DEF OrderInv
<1>4. \A i \in DOMAIN queue', t \in Turns : turns'[t].send < queue'[i]
  BY <1>1 DEF OrderInv, SameSends
<1>5. \A x \in Sends : Decided(x)' =>
         sends'[x].at # "off" /\ \A c \in Asked' : x < c
  <2> SUFFICES ASSUME NEW x \in Sends, Decided(x)'
               PROVE  sends'[x].at # "off" /\ \A c \in Asked' : x < c
    OBVIOUS
  <2>1. Decided(x)
    BY <1>1 DEF Decided, CallsKept, SameSends
  <2>2. sends[x].at # "off" /\ \A c \in Asked : x < c
    BY <2>1 DEF OrderInv
  <2> QED BY <2>2 DEF CallsKept
<1>6. \A x \in Sends : sends'[x].at = "direct" =>
         /\ \A y \in Sends : sends'[y].at = "direct" => x = y
         /\ sends'[x].expected = s'.turn =>
              /\ \A t \in Turns : turns'[t].send < x
              /\ \A i \in DOMAIN queue' : x < queue'[i]
  <2> SUFFICES ASSUME NEW x \in Sends, sends'[x].at = "direct"
               PROVE  /\ \A y \in Sends : sends'[y].at = "direct" => x = y
                      /\ sends'[x].expected = s'.turn =>
                           /\ \A t \in Turns : turns'[t].send < x
                           /\ \A i \in DOMAIN queue' : x < queue'[i]
    OBVIOUS
  <2>1. sends[x].at = "direct"
        /\ \A y \in Sends : sends'[y].at = "direct" => sends[y].at = "direct"
    BY DEF CallsKept
  <2>2. s.turn # None
    BY TurnsNat DEF TypeInv, StOK, None
  <2>3. sends'[x].expected = s'.turn => sends[x].expected = s.turn
    BY <2>2 DEF CallsKept
  <2> QED BY <1>1, <2>1, <2>3 DEF OrderInv, SameSends
<1> QED BY <1>2, <1>3, <1>4, <1>5, <1>6 DEF OrderInv

(* A claim: for a direct send that was admitted, for the head of the queue,*)
(* or for neither.                                                         *)
LEMMA OrderClaims ==
  ASSUME TypeInv, OrderInv, CallsKept,
         issued < MaxTurns, s'.turn = issued + 1,
         NEW y \in Nat, turns'[issued + 1].send = y,
         \A t \in Turns : t # issued + 1 => turns'[t].send = turns[t].send,
         \/ y = None /\ queue' \in {queue, << >>}
         \/ queue # << >> /\ y = Head(queue) /\ queue' = Tail(queue)
         \/ /\ y \in Sends /\ sends[y].at = "direct"
            /\ sends[y].expected = s.turn
            /\ sends'[y].at # "direct" /\ sends'[y].at # "off"
            /\ queue' = queue
  PROVE  OrderInv'
<1>1. issued \in Nat /\ MaxTurns \in Nat /\ issued + 1 \in Turns
      /\ queue \in Seq(Sends) /\ Sends \subseteq Nat \ {0}
  BY TurnsNat, CallsNat DEF TypeInv, Turns
<1>2. \A t \in Turns : turns[t].send \in Nat /\ t \in Nat
  BY TurnsNat DEF TypeInv, TurnsOK, Turn
<1>3. \A t \in Turns : t >= issued + 1 => turns[t].send = None
  BY <1>1, <1>2 DEF TypeInv, TurnsOK, NoTurn
<1>4. queue # << >> =>
        /\ 1 \in DOMAIN queue /\ Head(queue) = queue[1]
        /\ Head(queue) \in Sends
        /\ \A i \in DOMAIN Tail(queue) :
             /\ i + 1 \in DOMAIN queue /\ Tail(queue)[i] = queue[i + 1]
             /\ i \in Nat /\ i >= 1
  <2> SUFFICES ASSUME queue # << >>
               PROVE  /\ 1 \in DOMAIN queue /\ Head(queue) = queue[1]
                      /\ Head(queue) \in Sends
                      /\ \A i \in DOMAIN Tail(queue) :
                           /\ i + 1 \in DOMAIN queue
                           /\ Tail(queue)[i] = queue[i + 1]
                           /\ i \in Nat /\ i >= 1
    OBVIOUS
  <2>1. Len(queue) \in Nat /\ Len(queue) >= 1 /\ DOMAIN queue = 1..Len(queue)
    BY <1>1, EmptySeq
  <2>2. /\ Tail(queue) \in Seq(Sends) /\ Len(Tail(queue)) = Len(queue) - 1
        /\ \A i \in 1..Len(Tail(queue)) : Tail(queue)[i] = queue[i + 1]
    BY <1>1, HeadTailProperties
  <2>3. DOMAIN Tail(queue) = 1..(Len(queue) - 1)
    BY <2>2
  <2> QED BY <1>1, <2>1, <2>2, <2>3
<1>5. /\ y # None => /\ \A t \in Turns : turns[t].send < y
                     /\ y \in Sends /\ Decided(y)
                     /\ sends'[y].at # "off"
      /\ y # None => \A i \in DOMAIN queue' : y < queue'[i]
      /\ \A i \in DOMAIN queue' :
           \E j \in DOMAIN queue : queue'[i] = queue[j]
      /\ \A i, j \in DOMAIN queue' : i < j => queue'[i] < queue'[j]
  <2>1. CASE y = None /\ queue' \in {queue, << >>}
    BY <2>1 DEF OrderInv
  <2>2. CASE queue # << >> /\ y = Head(queue) /\ queue' = Tail(queue)
    <3>1. \A t \in Turns : turns[t].send < y
      BY <1>4, <2>2 DEF OrderInv
    <3>2. y \in Sends /\ Decided(y)
      BY <1>4, <2>2 DEF Decided
    <3>3. sends'[y].at # "off"
      BY <3>2 DEF OrderInv, CallsKept
    <3>4. \A i \in DOMAIN queue' : y < queue'[i]
      <4> SUFFICES ASSUME NEW i \in DOMAIN queue' PROVE y < queue'[i]
        OBVIOUS
      <4>1. 1 < i + 1 /\ i + 1 \in DOMAIN queue /\ queue'[i] = queue[i + 1]
        BY <1>4, <2>2
      <4> QED BY <1>4, <2>2, <4>1 DEF OrderInv
    <3>5. \A i, j \in DOMAIN queue' : i < j => queue'[i] < queue'[j]
      <4> SUFFICES ASSUME NEW i \in DOMAIN queue', NEW j \in DOMAIN queue',
                          i < j
                   PROVE  queue'[i] < queue'[j]
        OBVIOUS
      <4>1. /\ i + 1 < j + 1 /\ i + 1 \in DOMAIN queue
            /\ j + 1 \in DOMAIN queue
            /\ queue'[i] = queue[i + 1] /\ queue'[j] = queue[j + 1]
        BY <1>4, <2>2
      <4> QED BY <4>1 DEF OrderInv
    <3>6. \A i \in DOMAIN queue' :
             \E j \in DOMAIN queue : queue'[i] = queue[j]
      BY <1>4, <2>2
    <3> QED BY <3>1, <3>2, <3>3, <3>4, <3>5, <3>6
  <2>3. CASE /\ y \in Sends /\ sends[y].at = "direct"
             /\ sends[y].expected = s.turn
             /\ sends'[y].at # "direct" /\ sends'[y].at # "off"
             /\ queue' = queue
    BY <2>3 DEF OrderInv, Decided
  <2> QED BY <2>1, <2>2, <2>3
<1>6. \A t \in Turns : turns'[t].send \in {turns[t].send, y}
      /\ (t # issued + 1 => turns'[t].send = turns[t].send)
  BY <1>1
<1>7. SendsInOrder'
  <2> SUFFICES ASSUME NEW t \in Turns, NEW u \in Turns, t < u,
                      turns'[t].send # None, turns'[u].send # None
               PROVE  turns'[t].send < turns'[u].send
    BY DEF SendsInOrder
  <2>1. CASE u = issued + 1
    <3>1. t # issued + 1
      BY <1>2, <2>1
    <3> QED BY <1>5, <1>6, <2>1, <3>1
  <2>2. CASE u # issued + 1
    <3>1. turns'[u].send = turns[u].send /\ u < issued + 1 /\ t # issued + 1
      BY <1>1, <1>2, <1>3, <2>2
    <3> QED BY <2>2, <3>1 DEF OrderInv, SendsInOrder
  <2> QED BY <2>1, <2>2
<1>8. \A i \in DOMAIN queue', t \in Turns : turns'[t].send < queue'[i]
  <2> SUFFICES ASSUME NEW i \in DOMAIN queue', NEW t \in Turns
               PROVE  turns'[t].send < queue'[i]
    OBVIOUS
  <2>1. PICK j \in DOMAIN queue : queue'[i] = queue[j]
    BY <1>5
  <2>2. turns[t].send < queue[j] /\ queue[j] \in Nat \ {0}
    <3>1. queue[j] \in Sends
      BY <1>1, ElementOfSeq
    <3> QED BY <1>1, <3>1 DEF OrderInv
  <2>3. CASE t = issued + 1 /\ y # None
    BY <1>5, <2>3
  <2>4. CASE t = issued + 1 /\ y = None
    BY <2>1, <2>2, <2>4 DEF None
  <2>5. CASE t # issued + 1
    BY <2>1, <2>2, <2>5
  <2> QED BY <2>3, <2>4, <2>5
<1>9. \A x \in Sends : Decided(x)' =>
         sends'[x].at # "off" /\ \A c \in Asked' : x < c
  <2> SUFFICES ASSUME NEW x \in Sends, Decided(x)'
               PROVE  sends'[x].at # "off" /\ \A c \in Asked' : x < c
    OBVIOUS
  <2>1. x # None
    BY <1>1 DEF None
  <2>2. Decided(x)
    <3>1. CASE sends'[x].at = "direct"
      BY <3>1 DEF CallsKept, Decided
    <3>2. CASE \E i \in DOMAIN queue' : queue'[i] = x
      BY <1>5, <3>2 DEF Decided
    <3>3. CASE \E t \in Turns : turns'[t].send = x
      BY <1>5, <1>6, <2>1, <3>3 DEF Decided
    <3> QED BY <3>1, <3>2, <3>3 DEF Decided
  <2>3. sends[x].at # "off" /\ \A c \in Asked : x < c
    BY <2>2 DEF OrderInv
  <2> QED BY <2>3 DEF CallsKept
<1>10. \A x \in Sends : sends'[x].at = "direct" =>
         /\ \A z \in Sends : sends'[z].at = "direct" => x = z
         /\ sends'[x].expected # s'.turn
  <2> SUFFICES ASSUME NEW x \in Sends, sends'[x].at = "direct"
               PROVE  /\ \A z \in Sends : sends'[z].at = "direct" => x = z
                      /\ sends'[x].expected # s'.turn
    OBVIOUS
  <2>1. sends[x].at = "direct"
        /\ \A z \in Sends : sends'[z].at = "direct" => sends[z].at = "direct"
        /\ sends'[x].expected \in {sends[x].expected, None}
    BY DEF CallsKept
  <2>2. sends[x].expected \in 0..issued
    BY DEF TypeInv, SendRec
  <2>3. sends'[x].expected # s'.turn
    BY <1>1, <2>1, <2>2 DEF None
  <2> QED BY <2>1, <2>3 DEF OrderInv
<1>11. \A t \in Turns : turns'[t].send \in Sends \cup {None}
  BY <1>5, <1>6 DEF OrderInv
<1> QED BY <1>5, <1>7, <1>8, <1>9, <1>10, <1>11 DEF OrderInv

(* No event but a claim changes the turn.                                  *)
LEMMA KeepsTurn ==
  ASSUME NEW st \in CoordinatorState
  PROVE  /\ \A t : /\ Preempt(st, t).s.turn = st.turn
                   /\ CompletePolicy(st, t).s.turn = st.turn
                   /\ Register(st, t, t).s.turn = st.turn
                   /\ Started(st, t).s.turn = st.turn
         /\ \A t, on : Completion(st, t, t, on).s.turn = st.turn
         /\ \A t, how : RawTerminal(st, how, t).s.turn = st.turn
         /\ \A id, kind : /\ Reserve(st, id, kind).s.turn = st.turn
                          /\ Release(st, id, kind).s.turn = st.turn
         /\ Shutdown(st).s.turn = st.turn /\ Ignored(st).s.turn = st.turn
<1>1. \A t : /\ Preempt(st, t).s.turn = st.turn
             /\ CompletePolicy(st, t).s.turn = st.turn
             /\ Register(st, t, t).s.turn = st.turn
             /\ Started(st, t).s.turn = st.turn
  BY DEF Preempt, CompletePolicy, Register, Started, Alive, Ignored, Result,
         CoordinatorState
<1>2. \A t, on : Completion(st, t, t, on).s.turn = st.turn
  BY DEF Completion, Alive, Ignored, Result, CoordinatorState
<1>3. \A t, how : RawTerminal(st, how, t).s.turn = st.turn
  BY DEF RawTerminal, BeginDecision, Alive, Ignored, Result, CoordinatorState
<1>4. \A id, kind : /\ Reserve(st, id, kind).s.turn = st.turn
                    /\ Release(st, id, kind).s.turn = st.turn
  BY DEF Reserve, Release, Alive, Ignored, Result, CoordinatorState
<1>5. Shutdown(st).s.turn = st.turn /\ Ignored(st).s.turn = st.turn
  BY DEF Shutdown, Alive, Ignored, Result, CoordinatorState
<1> QED BY <1>1, <1>2, <1>3, <1>4, <1>5

LEMMA FinishTurn ==
  ASSUME NEW st \in CoordinatorState, NEW t
  PROVE  /\ Finish(st, t, TRUE).s.turn = st.turn
         /\ Finish(st, t, FALSE).s.turn = st.turn
BY DEF Finish, Alive, Ignored, Result, CoordinatorState

LEMMA PrepareTurn ==
  ASSUME NEW st \in CoordinatorState, NEW n, NEW req, Admits(st, req),
         req.kind = "fresh"
  PROVE  Prepare(st, n, req).s.turn = n
BY DEF Prepare, Result, CoordinatorState

EditsKept(ed) ==
  \A e \in Edits : ed[e].at = "preflight" => edits[e].at = "preflight"

LEMMA CallsAreKept ==
  ASSUME EditsKept(edits'),
         \A x \in Sends : \/ sends'[x] = sends[x]
                          \/ sends'[x].at \in {"leaving", "done"}
                          \/ /\ sends[x].at = "direct"
                             /\ sends'[x].expected = None
                             /\ sends'[x].at = "direct"
  PROVE  CallsKept
BY DEF EditsKept, CallsKept, Asked, At, Calls

LEMMA ReleasedKept ==
  ASSUME NEW n, NEW ed \in [Edits -> EditRec(n)], EditsKept(ed), NEW cmds
  PROVE  EditsKept(Released(ed, cmds))
<1> SUFFICES ASSUME NEW e \in Edits, Released(ed, cmds)[e].at = "preflight"
             PROVE  edits[e].at = "preflight"
  BY DEF EditsKept
<1>1. ed[e].at = "preflight"
  BY DEF Released, EditRec
<1> QED BY <1>1 DEF EditsKept

LEMMA OrderContinues ==
  ASSUME TypeInv, OrderInv, CallsKept, NEW r, r.s \in CoordinatorState,
         r.s.turn = s.turn, NEW tt \in [Turns -> Turn], SameSends(tt),
         NEW q \in {queue, << >>}, NEW ed, NEW trigger, NEW latched,
         ContinueWith(r, tt, ed, q, trigger, latched)
  PROVE  OrderInv'
<1>1. CASE Stays(r, tt, q)
  <2>1. s'.turn = s.turn /\ queue' \in {queue, << >>} /\ SameSends(turns')
    BY <1>1 DEF Stays
  <2> QED BY <2>1, OrderKept
<1>2. CASE Drains(r, tt, q, trigger, latched)
  <2> DEFINE req == Fresh(trigger, r.s.turn, None)
             c == ClaimedBy("queue", Head(q), None)
  <2>1. issued < MaxTurns /\ q # << >> /\ Admits(r.s, req)
        /\ req.kind = "fresh"
    BY <1>2 DEF Drains, Dispatches, Fresh
  <2>2. s'.turn = issued + 1
    <3>1. s' = Prepare(r.s, issued + 1, req).s
      BY <1>2 DEF Drains
    <3> HIDE DEF req
    <3>2. Prepare(r.s, issued + 1, req).s.turn = issued + 1
      BY <2>1, PrepareTurn
    <3> QED BY <3>1, <3>2
  <2>3. q = queue /\ queue # << >> /\ queue' = Tail(queue)
    BY <1>2, <2>1 DEF Drains
  <2>4. Head(queue) \in Nat
    BY <2>3, HeadTailProperties, CallsNat DEF TypeInv
  <2>5. c.send = Head(queue)
    BY <2>3 DEF ClaimedBy, NoTurn
  <2>6. turns' = [tt EXCEPT ![issued + 1] = c] /\ issued + 1 \in Turns
    BY <1>2, <2>1, TurnsNat DEF Drains, Turns, TypeInv
  <2> HIDE DEF c
  <2>7. /\ turns'[issued + 1].send = Head(queue)
        /\ \A t \in Turns : t # issued + 1 => turns'[t].send = turns[t].send
    BY <2>5, <2>6 DEF SameSends
  <2> QED BY <2>1, <2>2, <2>3, <2>4, <2>7, OrderClaims
<1> QED BY <1>1, <1>2, ContinueCases

LEMMA TypedTurns ==
  ASSUME TypeInv
  PROVE  /\ turns \in [Turns -> Turn] /\ s \in CoordinatorState
         /\ edits \in [Edits -> EditRec(issued)]
         /\ SameSends(turns) /\ EditsKept(edits)
BY DEF TypeInv, StOK, TurnsOK, SameSends, EditsKept

(* Steps of a turn that leave the calls and the queue alone.               *)
LEMMA OrderQuiet ==
  ASSUME TypeInv, OrderInv, SameSends(turns'), s'.turn = s.turn,
         UNCHANGED <<queue, sends, edits>>
  PROVE  OrderInv'
BY TypedTurns, CallsAreKept, OrderKept DEF EditsKept

LEMMA OrderTurnSteps ==
  ASSUME TypeInv, OrderInv, NEW t \in Turns,
         \/ QueuedPrepares(t) \/ StartupBegins(t) \/ StreamStarts(t)
         \/ StartupCancelled(t) \/ StartupFails(t) \/ StreamEnds(t)
         \/ CompletionArrives(t) \/ PolicyHandles(t) \/ PolicyLeaves(t)
         \/ GoalAccounts(t) \/ PolicyDetours(t) \/ RecoveryFails(t)
         \/ HandoffReturns(t)
  PROVE  OrderInv'
<1>0. WithoutEdit(t).s.turn = s.turn /\ WithoutEdit(t).s \in CoordinatorState
  BY WithoutEditTyped, TypedTurns, KeepsTurn DEF WithoutEdit, StOK
<1>1. CASE QueuedPrepares(t) \/ StartupBegins(t)
  <2>1. SameSends(turns')
    BY <1>1, TypedTurns
       DEF QueuedPrepares, StartupBegins, SameSends, Set, Turn
  <2>2. s'.turn = s.turn
    BY <1>1, TypedTurns, KeepsTurn DEF QueuedPrepares, StartupBegins
  <2> QED BY <1>1, <2>1, <2>2, OrderQuiet DEF QueuedPrepares, StartupBegins
<1>2. CASE StreamStarts(t) \/ StartupCancelled(t)
  <2>1. SameSends(turns')
    BY <1>2, TypedTurns
       DEF StreamStarts, StartupCancelled, SameSends, Set, Turn
  <2>2. s'.turn = s.turn
    BY <1>2, TypedTurns, KeepsTurn DEF StreamStarts, StartupCancelled
  <2> QED BY <1>2, <2>1, <2>2, OrderQuiet DEF StreamStarts, StartupCancelled
<1>3. CASE StartupFails(t)
  <2>1. SameSends(turns')
    BY <1>3, TypedTurns DEF StartupFails, SameSends, Turn
  <2>2. s'.turn = s.turn
    BY <1>3, <1>0, KeepsTurn DEF StartupFails
  <2> QED BY <1>3, <2>1, <2>2, OrderQuiet DEF StartupFails
<1>4. CASE StreamEnds(t)
  <2>0. PICK how \in Outcomes(t) :
           /\ turns' = [turns EXCEPT ![t].engine = "ended", ![t].outcome = how]
           /\ s' = IF how = "failed" THEN s ELSE RawTerminal(s, how, t).s
    BY <1>4 DEF StreamEnds
  <2>1. SameSends(turns')
    BY <2>0, TypedTurns DEF SameSends, Turn
  <2>2. s'.turn = s.turn
    BY <2>0, TypedTurns, KeepsTurn
  <2> QED BY <1>4, <2>1, <2>2, OrderQuiet DEF StreamEnds
<1>5. CASE CompletionArrives(t) \/ PolicyHandles(t)
  <2>1. SameSends(turns')
    BY <1>5, TypedTurns
       DEF CompletionArrives, PolicyHandles, SameSends, Set, Turn
  <2>2. s'.turn = s.turn
    BY <1>5, TypedTurns, KeepsTurn DEF CompletionArrives, PolicyHandles
  <2> QED BY <1>5, <2>1, <2>2, OrderQuiet DEF CompletionArrives, PolicyHandles
<1>6. CASE \/ PolicyLeaves(t) \/ GoalAccounts(t) \/ PolicyDetours(t)
           \/ RecoveryFails(t) \/ HandoffReturns(t)
  <2>1. (\E v : turns' = Set(t, "policy", v))
        /\ UNCHANGED <<s, queue, sends, edits>>
    BY <1>6 DEF PolicyLeaves, GoalAccounts, PolicyDetours, RecoveryFails,
                HandoffReturns
  <2>2. SameSends(turns')
    BY <2>1, TypedTurns DEF SameSends, Set, Turn
  <2> QED BY <2>1, <2>2, OrderQuiet
<1> QED BY <1>1, <1>2, <1>3, <1>4, <1>5, <1>6

LEMMA ReleaseTurn ==
  ASSUME TypeInv, NEW id, NEW kind
  PROVE  /\ Release(s, id, kind).s \in CoordinatorState
         /\ Release(s, id, kind).s.turn = s.turn
         /\ Ignored(s).s \in CoordinatorState /\ Ignored(s).s.turn = s.turn
BY TypedTurns, KeepsTurn, ReleaseRegular DEF Regular, Ignored, Result

LEMMA SendIsKept ==
  ASSUME TypeInv, NEW x \in Sends, sends' = SendIs(x, "done"),
         EditsKept(edits')
  PROVE  CallsKept
<1>1. [sends[x] EXCEPT !.at = "done"].at = "done"
  BY DEF TypeInv, SendRec
<1> QED BY <1>1, CallsAreKept DEF SendIs, TypeInv

LEMMA ReleasedEdits ==
  ASSUME TypeInv, NEW r, NEW tt, NEW q, NEW trigger, NEW latched,
         ContinueWith(r, tt, edits, q, trigger, latched)
  PROVE  EditsKept(edits')
BY ContinueCases, TypedTurns, ReleasedKept

LEMMA OrderSendLeaves ==
  ASSUME TypeInv, OrderInv, NEW x \in Sends,
         SendRefused(x) \/ SendReturns(x)
  PROVE  OrderInv'
<1>1. PICK go : ContinueWith(Ignored(s), turns, edits, queue, go,
                             StopInProgress)
  BY DEF SendRefused, SendReturns, Continue
<1>2. CallsKept
  BY <1>1, ReleasedEdits, SendIsKept DEF SendRefused, SendReturns
<1> QED BY <1>1, <1>2, ReleaseTurn, TypedTurns, OrderContinues

LEMMA OrderArrives ==
  ASSUME TypeInv, OrderInv,
         \/ \E x \in Sends : SendArrives(x)
         \/ \E e \in Edits : EditArrives(e)
  PROVE  OrderInv'
<1>1. PICK c \in Calls : /\ Arrives(c)
                         /\ Asked' \subseteq Asked \cup {c}
                         /\ \A x \in Sends : sends'[x].at = "off" =>
                                               sends[x].at = "off"
                         /\ \A x \in Sends : sends'[x].at = "direct" =>
                                               sends'[x] = sends[x]
                         /\ UNCHANGED <<s, queue, turns>>
  <2>1. CASE \E x \in Sends : SendArrives(x)
    <3>1. PICK x \in Sends : SendArrives(x)
      BY <2>1
    <3>2. [sends[x] EXCEPT !.at = "preflight"].at = "preflight"
      BY DEF TypeInv, SendRec
    <3>3. sends' = [sends EXCEPT ![x] = [sends[x] EXCEPT !.at = "preflight"]]
          /\ edits' = edits
      BY <3>1 DEF SendArrives, SendIs
    <3>4. Asked' \subseteq Asked \cup {x}
      BY <3>2, <3>3 DEF Asked, At, Calls, TypeInv
    <3>5. \A y \in Sends : y # x => sends'[y] = sends[y]
      BY <3>3 DEF TypeInv
    <3>6. sends'[x].at = "preflight"
      BY <3>2, <3>3 DEF TypeInv
    <3> QED BY <3>1, <3>4, <3>5, <3>6 DEF SendArrives, Calls
  <2>2. CASE \E e \in Edits : EditArrives(e)
    <3>1. PICK e \in Edits : EditArrives(e)
      BY <2>2
    <3>2. edits' = [edits EXCEPT ![e] = [edits[e] EXCEPT !.at = "preflight"]]
          /\ sends' = sends
      BY <3>1 DEF EditArrives, EditIs
    <3>3. Asked' \subseteq Asked \cup {e}
      BY <3>2 DEF Asked, At, Calls, TypeInv
    <3> QED BY <3>1, <3>2, <3>3 DEF EditArrives, Calls
  <2> QED BY <2>1, <2>2
<1>2. \A x \in Sends : Decided(x)' => Decided(x)
  BY <1>1 DEF Decided
<1>3. \A x \in Sends : Decided(x) => x < c
  <2> SUFFICES ASSUME NEW x \in Sends, Decided(x) PROVE x < c
    OBVIOUS
  <2>1. sends[x].at # "off"
    BY DEF OrderInv
  <2>2. At(x) # "off" /\ x \in Calls
    BY <2>1 DEF At, Calls
  <2>3. ~(x > c) /\ x # c
    BY <1>1, <2>2 DEF Arrives
  <2> QED BY <2>3, CallsNat DEF Calls
<1>4. \A x \in Sends : Decided(x)' =>
         sends'[x].at # "off" /\ \A d \in Asked' : x < d
  BY <1>1, <1>2, <1>3 DEF OrderInv
<1>5. SendsInOrder' /\ \A t \in Turns : turns'[t].send \in Sends \cup {None}
  BY <1>1 DEF SendsInOrder, OrderInv
<1>6. \A x \in Sends : sends'[x].at = "direct" =>
         /\ \A y \in Sends : sends'[y].at = "direct" => x = y
         /\ sends'[x].expected = s'.turn =>
              /\ \A t \in Turns : turns'[t].send < x
              /\ \A i \in DOMAIN queue' : x < queue'[i]
  BY <1>1 DEF OrderInv
<1> QED BY <1>1, <1>4, <1>5, <1>6 DEF OrderInv

LEMMA OrderDecides ==
  ASSUME TypeInv, OrderInv, NEW x \in Sends, SendDecides(x)
  PROVE  OrderInv'
<1>1. /\ x \in Asked /\ x \in Calls /\ s' = s /\ turns' = turns
      /\ edits' = edits /\ queue \in Seq(Sends) /\ x \in Nat \ {0}
  BY CallsNat DEF SendDecides, Decides, Asked, Calls, TypeInv
<1>2. \A y \in Sends : Decided(y) => y < x
  BY <1>1 DEF OrderInv
<1>3. \A y \in Sends : y # x => sends'[y] = sends[y]
  BY DEF SendDecides, TypeInv
<1>4. \A c \in Asked' : x < c /\ c \in Asked
  <2>1. sends'[x].at # "preflight"
    BY DEF SendDecides, TypeInv, SendRec
  <2> SUFFICES ASSUME NEW c \in Asked' PROVE x < c /\ c \in Asked
    OBVIOUS
  <2>2. c \in Asked /\ c # x /\ c \in Calls
    BY <1>1, <1>3, <2>1 DEF Asked, At, Calls
  <2>3. ~(c < x)
    BY <1>1, <2>2 DEF SendDecides, Decides, Asked
  <2>4. c \in Nat
    BY <2>2, CallsNat DEF Calls
  <2> QED BY <1>1, <2>2, <2>3, <2>4
<1>5. SendsInOrder' /\ \A t \in Turns : turns'[t].send \in Sends \cup {None}
  BY <1>1 DEF SendsInOrder, OrderInv
<1>6. \A t \in Turns : turns[t].send < x
  <2> SUFFICES ASSUME NEW t \in Turns PROVE turns[t].send < x
    OBVIOUS
  <2>1. CASE turns[t].send \in Sends
    BY <1>2, <2>1 DEF Decided
  <2>2. CASE turns[t].send = None
    BY <1>1, <2>2 DEF None
  <2> QED BY <2>1, <2>2 DEF OrderInv
<1>7. sends'[x].at # "off"
  BY DEF SendDecides, TypeInv, SendRec
<1>8. CASE MustQueue(x)
  <2>1. queue' = Append(queue, x) /\ sends'[x].at = "leaving"
    BY <1>8 DEF SendDecides, TypeInv, SendRec
  <2>2. /\ Len(queue) \in Nat /\ DOMAIN queue = 1..Len(queue)
        /\ DOMAIN queue' = 1..(Len(queue) + 1)
        /\ \A i \in DOMAIN queue : queue'[i] = queue[i]
        /\ queue'[Len(queue) + 1] = x
    BY <1>1, <2>1
  <2>3. \A i \in DOMAIN queue : queue[i] < x /\ queue[i] \in Sends
    <3>1. \A i \in DOMAIN queue : queue[i] \in Sends
      BY <1>1, <2>2, ElementOfSeq
    <3> QED BY <1>2, <3>1 DEF Decided
  <2>4. \A i \in DOMAIN queue' :
           \/ i \in DOMAIN queue /\ queue'[i] = queue[i]
           \/ i = Len(queue) + 1 /\ queue'[i] = x
    BY <2>2
  <2>5. \A i, j \in DOMAIN queue' : i < j => queue'[i] < queue'[j]
    <3> SUFFICES ASSUME NEW i \in DOMAIN queue', NEW j \in DOMAIN queue',
                        i < j
                 PROVE  queue'[i] < queue'[j]
      OBVIOUS
    <3>1. i \in DOMAIN queue /\ queue'[i] = queue[i]
      BY <2>2, <2>4
    <3>2. CASE j \in DOMAIN queue /\ queue'[j] = queue[j]
      BY <3>1, <3>2 DEF OrderInv
    <3>3. CASE queue'[j] = x
      BY <2>3, <3>1, <3>3
    <3> QED BY <2>4, <3>2, <3>3
  <2>6. \A i \in DOMAIN queue', t \in Turns : turns'[t].send < queue'[i]
    BY <1>1, <1>6, <2>4 DEF OrderInv
  <2>7. \A y \in Sends : Decided(y)' =>
           sends'[y].at # "off" /\ \A c \in Asked' : y < c
    <3> SUFFICES ASSUME NEW y \in Sends, Decided(y)', y # x
                 PROVE  sends'[y].at # "off" /\ \A c \in Asked' : y < c
      BY <1>4, <1>7
    <3>1. Decided(y)
      BY <1>1, <1>3, <2>4 DEF Decided
    <3> QED BY <1>3, <1>4, <3>1 DEF OrderInv
  <2>8. \A y \in Sends : sends'[y].at = "direct" =>
           y # x /\ sends'[y] = sends[y] /\ sends[y].at = "direct"
    BY <1>3, <2>1
  <2>9. \A y \in Sends : sends'[y].at = "direct" =>
         /\ \A z \in Sends : sends'[z].at = "direct" => y = z
         /\ sends'[y].expected = s'.turn =>
              /\ \A t \in Turns : turns'[t].send < y
              /\ \A i \in DOMAIN queue' : y < queue'[i]
    <3> SUFFICES ASSUME NEW y \in Sends, sends'[y].at = "direct"
                 PROVE  /\ \A z \in Sends : sends'[z].at = "direct" => y = z
                        /\ sends'[y].expected = s'.turn =>
                             /\ \A t \in Turns : turns'[t].send < y
                             /\ \A i \in DOMAIN queue' : y < queue'[i]
      OBVIOUS
    <3>1. y < x
      BY <1>2, <2>8 DEF Decided
    <3> QED BY <1>1, <2>4, <2>8, <3>1 DEF OrderInv
  <2> QED BY <1>5, <2>5, <2>6, <2>7, <2>9 DEF OrderInv
<1>9. CASE ~MustQueue(x)
  <2>1. queue' = queue /\ queue = << >> /\ First(x)
    BY <1>9 DEF SendDecides, MustQueue
  <2>2. \A y \in Sends : sends[y].at # "direct"
    <3> SUFFICES ASSUME NEW y \in Sends, sends[y].at = "direct" PROVE FALSE
      OBVIOUS
    <3>1. y \in Ticketed /\ y < x
      BY <1>2 DEF Ticketed, At, Calls, Decided
    <3>2. x <= y
      BY <2>1, <3>1 DEF First
    <3> QED BY <1>1, <3>1, <3>2, CallsNat
  <2>3. \A y \in Sends : Decided(y)' =>
           sends'[y].at # "off" /\ \A c \in Asked' : y < c
    <3> SUFFICES ASSUME NEW y \in Sends, Decided(y)', y # x
                 PROVE  sends'[y].at # "off" /\ \A c \in Asked' : y < c
      BY <1>4, <1>7
    <3>1. Decided(y)
      BY <1>1, <1>3, <2>1 DEF Decided
    <3> QED BY <1>3, <1>4, <3>1 DEF OrderInv
  <2>4. \A y \in Sends : sends'[y].at = "direct" =>
         /\ \A z \in Sends : sends'[z].at = "direct" => y = z
         /\ sends'[y].expected = s'.turn =>
              /\ \A t \in Turns : turns'[t].send < y
              /\ \A i \in DOMAIN queue' : y < queue'[i]
    BY <1>1, <1>3, <1>6, <2>1, <2>2
  <2> QED BY <1>1, <1>5, <2>1, <2>3, <2>4 DEF OrderInv
<1> QED BY <1>8, <1>9

(* A claim of the send x, or of none.                                      *)
LEMMA OrderClaim ==
  ASSUME TypeInv, OrderInv, CallsKept, NEW req, req.kind = "fresh",
         Admits(s, req), NEW c, NEW tt \in [Turns -> Turn], SameSends(tt),
         Claim(req, c, tt),
         \/ c.send = None
         \/ /\ c.send \in Sends /\ sends[c.send].at = "direct"
            /\ sends[c.send].expected = s.turn
            /\ sends'[c.send].at = "leaving"
  PROVE  OrderInv'
<1>1. issued < MaxTurns /\ queue' = queue
      /\ turns' = [tt EXCEPT ![issued + 1] = c]
      /\ s' = Prepare(s, issued + 1, req).s
  BY DEF Claim
<1>2. s'.turn = issued + 1
  <2>1. Prepare(s, issued + 1, req).s.turn = issued + 1
    BY TypedTurns, PrepareTurn
  <2> QED BY <1>1, <2>1
<1>3. issued + 1 \in Turns
  BY <1>1, TurnsNat DEF TypeInv, Turns
<1>4. turns'[issued + 1].send = c.send
      /\ \A t \in Turns : t # issued + 1 => turns'[t].send = turns[t].send
  BY <1>1, <1>3 DEF SameSends
<1>5. c.send \in Nat
  <2>1. CASE c.send = None
    BY <2>1 DEF None
  <2>2. CASE c.send \in Sends
    BY <2>2, CallsNat
  <2> QED BY <2>1, <2>2
<1> QED BY <1>1, <1>2, <1>4, <1>5, OrderClaims

LEMMA OrderSendPrepares ==
  ASSUME TypeInv, OrderInv, NEW x \in Sends, SendPrepares(x)
  PROVE  OrderInv'
<1> DEFINE req == Fresh("direct", sends[x].expected, None)
           c == ClaimedBy("send", x, None)
<1>1. /\ sends[x].at = "direct" /\ Admits(s, req) /\ Claim(req, c, turns)
      /\ edits' = edits
  BY DEF SendPrepares
<1>2. sends[x].expected = s.turn /\ req.kind = "fresh"
  BY <1>1 DEF Admits, Claimable, Fresh
<1>3. sends'[x].at = "leaving"
      /\ \A y \in Sends : y # x => sends'[y] = sends[y]
  BY DEF SendPrepares, TypeInv, SendRec
<1>4. CallsKept
  BY <1>1, <1>3, CallsAreKept DEF EditsKept
<1>5. c.send = x
  BY DEF ClaimedBy, NoTurn
<1> HIDE DEF c, req
<1> QED BY <1>1, <1>2, <1>3, <1>4, <1>5, TypedTurns, OrderClaim

LEMMA OrderHandsOff ==
  ASSUME TypeInv, OrderInv, NEW t \in Turns,
         RecoveryHandsOff(t) \/ FollowUpIsSent(t)
  PROVE  OrderInv'
<1>1. CallsKept
  BY CallsAreKept DEF RecoveryHandsOff, FollowUpIsSent, EditsKept
<1>2. \A v : SameSends(Set(t, "policy", v))
  BY TypedTurns DEF SameSends, Set, Turn
<1>3. \/ (\E v : turns' = Set(t, "policy", v)) /\ s' = s /\ queue' = queue
      \/ \E intent, who :
           LET req == Fresh(intent, turns[t].captured, None)
           IN Admits(s, req)
              /\ Claim(req, ClaimedBy(who, None, None), HandedOff(t))
  BY DEF RecoveryHandsOff, FollowUpIsSent
<1>4. CASE (\E v : turns' = Set(t, "policy", v)) /\ s' = s /\ queue' = queue
  BY <1>1, <1>2, <1>4, OrderKept
<1>5. CASE \E intent, who :
             LET req == Fresh(intent, turns[t].captured, None)
             IN Admits(s, req)
                /\ Claim(req, ClaimedBy(who, None, None), HandedOff(t))
  <2>1. PICK intent, who :
             LET req == Fresh(intent, turns[t].captured, None)
             IN Admits(s, req)
                /\ Claim(req, ClaimedBy(who, None, None), HandedOff(t))
    BY <1>5
  <2> DEFINE req == Fresh(intent, turns[t].captured, None)
             c == ClaimedBy(who, None, None)
  <2>2. req.kind = "fresh" /\ c.send = None
    BY DEF Fresh, ClaimedBy, NoTurn, None
  <2>3. HandedOff(t) \in [Turns -> Turn] /\ SameSends(HandedOff(t))
    <3>1. issued + 1 \in Nat
      BY TurnsNat DEF TypeInv
    <3> DEFINE r == [turns[t] EXCEPT !.policy = "handed-off",
                                     !.next = issued + 1]
    <3>2. r \in Turn /\ r.send = turns[t].send
      BY <3>1, TypedTurns, ZenonT(30) DEF Turn, Policies
    <3>3. HandedOff(t) = [turns EXCEPT ![t] = r]
      BY TypedTurns DEF HandedOff
    <3> HIDE DEF r
    <3> QED BY <3>2, <3>3, TypedTurns DEF SameSends
  <2>4. Admits(s, req) /\ Claim(req, c, HandedOff(t))
    BY <2>1
  <2> HIDE DEF req, c
  <2> QED BY <1>1, <2>2, <2>3, <2>4, OrderClaim
<1> QED BY <1>3, <1>4, <1>5

(* A step of a turn that continues with a drain.                           *)
LEMMA OrderDrainsAfter ==
  ASSUME TypeInv, OrderInv, NEW r, r.s \in CoordinatorState,
         r.s.turn = s.turn, NEW tt \in [Turns -> Turn], SameSends(tt),
         NEW q \in {queue, << >>}, NEW trigger, NEW latched,
         ContinueWith(r, tt, edits, q, trigger, latched), sends' = sends
  PROVE  OrderInv'
BY ReleasedEdits, CallsAreKept, OrderContinues

LEMMA OrderTurnContinues ==
  ASSUME TypeInv, OrderInv, NEW t \in Turns,
         \/ PreparationFails(t) \/ StartupDelivers(t)
         \/ PreparationCompletes(t)
  PROVE  OrderInv'
<1>0. WithoutEdit(t).s.turn = s.turn /\ WithoutEdit(t).s \in CoordinatorState
      /\ Ignored(s).s = s
  BY WithoutEditTyped, TypedTurns, KeepsTurn
     DEF WithoutEdit, StOK, Ignored, Result
<1>1. /\ turns[t] \in Turn /\ None \in Nat
      /\ turns[t].editId \in Nat
  BY TypedTurns DEF None, Turn
<1>2. \A v \in {"failing", "delivered", "done"}, e \in Nat :
         LET tt == [turns EXCEPT ![t].startup = v, ![t].editId = e]
         IN tt \in [Turns -> Turn] /\ SameSends(tt)
  <2> SUFFICES ASSUME NEW v \in {"failing", "delivered", "done"},
                      NEW e \in Nat
               PROVE  LET tt == [turns EXCEPT ![t].startup = v,
                                              ![t].editId = e]
                      IN tt \in [Turns -> Turn] /\ SameSends(tt)
    OBVIOUS
  <2> DEFINE r == [turns[t] EXCEPT !.startup = v, !.editId = e]
  <2>1. r \in Turn /\ r.send = turns[t].send
    BY <1>1 DEF Turn, Startups
  <2>2. [turns EXCEPT ![t].startup = v, ![t].editId = e]
          = [turns EXCEPT ![t] = r]
    BY TypedTurns
  <2> HIDE DEF r
  <2> QED BY <2>1, <2>2, TypedTurns DEF SameSends
<1>3. CASE PreparationFails(t)
  <2>1. CASE turns' = Set(t, "startup", "failing")
             /\ UNCHANGED <<s, issued, queue, edits>>
    <3>1. SameSends(turns')
      BY <2>1, TypedTurns DEF SameSends, Set, Turn
    <3> QED BY <1>3, <2>1, <3>1, OrderQuiet DEF PreparationFails
  <2>2. CASE Continue(WithoutEdit(t),
                      [turns EXCEPT ![t].startup = "failing",
                                    ![t].editId = None],
                      edits, queue, IfWoken(WithoutEdit(t)))
    <3> DEFINE tt == [turns EXCEPT ![t].startup = "failing",
                                   ![t].editId = None]
    <3>1. tt \in [Turns -> Turn] /\ SameSends(tt)
      BY <1>1, <1>2
    <3> HIDE DEF tt
    <3>2. ContinueWith(WithoutEdit(t), tt, edits, queue,
                       IfWoken(WithoutEdit(t)), StopInProgress)
      BY <2>2 DEF Continue, tt
    <3> QED BY <1>0, <1>3, <3>1, <3>2, OrderDrainsAfter DEF PreparationFails
  <2> QED BY <1>3, <2>1, <2>2 DEF PreparationFails
<1>4. CASE StartupDelivers(t)
  <2> DEFINE free == IsCurrentTurn(s, t) /\ s.life = "open"
                       /\ ~turns[t].aborted
             r == IF free THEN WithoutEdit(t) ELSE Ignored(s)
             e == IF free THEN None ELSE turns[t].editId
             tt == [turns EXCEPT ![t].startup = "delivered", ![t].editId = e]
  <2>1. tt = [turns EXCEPT ![t].startup = "delivered",
                           ![t].editId = IF free THEN None ELSE @]
    BY TypedTurns DEF Turn
  <2>2. r.s \in CoordinatorState /\ r.s.turn = s.turn /\ e \in Nat
    BY <1>0, <1>1, TypedTurns
  <2>3. Continue(r, tt, edits, queue, IfWoken(r)) /\ sends' = sends
    BY <1>4, <2>1 DEF StartupDelivers
  <2> HIDE DEF e
  <2>4. tt \in [Turns -> Turn] /\ SameSends(tt)
    BY <1>2, <2>2
  <2> HIDE DEF r, tt
  <2> QED BY <2>2, <2>3, <2>4, OrderDrainsAfter DEF Continue
<1>5. CASE PreparationCompletes(t)
  <2> DEFINE e  == turns[t].editId
             f  == Finish(s, t, TRUE)
             g  == IF e = None THEN Ignored(f.s) ELSE Release(f.s, e, "edit")
             r  == Result(g.s, f.cmds \o g.cmds)
             tt == [turns EXCEPT ![t].startup = "done", ![t].editId = None]
  <2>1. tt \in [Turns -> Turn] /\ SameSends(tt)
    BY <1>1, <1>2
  <2>2. f.s \in CoordinatorState /\ f.s.turn = s.turn
    <3>1. Regular(s, Finish(s, t, TRUE))
      BY TurnsNat, TypedTurns, FinishRegular
    <3>2. Finish(s, t, TRUE).s.turn = s.turn
      BY TypedTurns, FinishTurn
    <3> QED BY <3>1, <3>2 DEF Regular
  <2> HIDE DEF f
  <2>3. g.s \in CoordinatorState /\ g.s.turn = s.turn
    BY <2>2, ReleaseRegular, KeepsTurn DEF Regular, Ignored, Result
  <2> HIDE DEF g
  <2>4. r.s \in CoordinatorState /\ r.s.turn = s.turn
    BY <2>3 DEF Result
  <2>5. \E q \in {queue, << >>} : \E go : Continue(r, tt, edits, q, go)
    BY <1>5 DEF PreparationCompletes, f, g
  <2>6. sends' = sends
    BY <1>5 DEF PreparationCompletes
  <2> HIDE DEF r, tt
  <2> QED BY <2>1, <2>4, <2>5, <2>6, OrderDrainsAfter DEF Continue
<1> QED BY <1>3, <1>4, <1>5

LEMMA OrderPolicyEnds ==
  ASSUME TypeInv, OrderInv, NEW t \in Turns,
         \/ PolicySucceeds(t) \/ GoalAccounted(t) \/ PolicyFails(t)
         \/ PolicyAborts(t)
  PROVE  OrderInv'
<1>1. PICK trigger : EndTurn(t, trigger) /\ Current(t)
  BY DEF PolicySucceeds, GoalAccounted, PolicyFails, PolicyAborts, Terminal
<1> DEFINE r == IF Flushes(trigger) THEN Ignored(s)
                  ELSE Finish(s, turns[t].captured, FALSE)
           tt == Set(t, "policy", "done")
<1>2. r.s \in CoordinatorState /\ r.s.turn = s.turn
  <2> DEFINE f == Finish(s, turns[t].captured, FALSE)
  <2>1. turns[t].captured \in Nat
    BY TypedTurns DEF Turn
  <2>2. Regular(s, f)
    BY <2>1, TypedTurns, FinishRegular
  <2>3. f.s.turn = s.turn
    BY TypedTurns, FinishTurn
  <2> HIDE DEF f
  <2> QED BY <2>2, <2>3, TypedTurns DEF Regular, Ignored, Result, f
<1>3. tt \in [Turns -> Turn] /\ SameSends(tt)
  <2>1. \E x \in Turn : tt = [turns EXCEPT ![t] = x]
    BY SetRecord DEF Policies
  <2>2. SameSends(tt)
    BY TypedTurns DEF SameSends, Set, Turn
  <2> HIDE DEF tt
  <2> QED BY <2>1, <2>2, TypedTurns
<1>4. \E go : Continue(r, tt, edits, queue, go)
  BY <1>1 DEF EndTurn
<1>5. sends' = sends
  BY <1>1 DEF EndTurn
<1> HIDE DEF r, tt
<1> QED BY <1>2, <1>3, <1>4, <1>5, OrderDrainsAfter DEF Continue

LEMMA EditIsKept ==
  ASSUME TypeInv, NEW e \in Edits, NEW at, at # "preflight"
  PROVE  EditsKept(EditIs(e, at))
<1>1. [edits[e] EXCEPT !.at = at].at = at
  BY TypedTurns DEF EditRec
<1> QED BY <1>1, TypedTurns DEF EditIs, EditsKept

LEMMA CutAllSends ==
  ASSUME TypeInv, NEW tt \in [Turns -> Turn], SameSends(tt)
  PROVE  CutAll(tt) \in [Turns -> Turn] /\ SameSends(CutAll(tt))
<1>1. \A t \in Turns : /\ [tt[t] EXCEPT !.cut = TRUE] \in Turn
                       /\ [tt[t] EXCEPT !.cut = TRUE].send = tt[t].send
  <2> SUFFICES ASSUME NEW t \in Turns
               PROVE  /\ [tt[t] EXCEPT !.cut = TRUE] \in Turn
                      /\ [tt[t] EXCEPT !.cut = TRUE].send = tt[t].send
    OBVIOUS
  <2>1. [tt[t] EXCEPT !.cut = TRUE] \in Turn
    BY FieldTypes
  <2>2. tt[t] \in Turn
    OBVIOUS
  <2> QED BY <2>1, <2>2 DEF Turn
<1> QED BY <1>1 DEF CutAll, SameSends

LEMMA OrderEditEnds ==
  ASSUME TypeInv, OrderInv, NEW e \in Edits, EditEnds(e) PROVE OrderInv'
<1> DEFINE r == Release(s, e, "edit")
<1>1. r.s \in CoordinatorState /\ r.s.turn = s.turn
  BY ReleaseTurn
<1>2. EditIs(e, "done") \in [Edits -> EditRec(issued)]
      /\ EditsKept(EditIs(e, "done"))
  BY TypedTurns, EditIsType, EditIsKept DEF EditStates
<1>3. \E go : ContinueWith(r, turns, EditIs(e, "done"), queue, go,
                           StopInProgress)
  BY DEF EditEnds, Continue
<1>4. CallsKept
  <2>1. EditsKept(edits') /\ sends' = sends
    BY <1>2, <1>3, ContinueCases, ReleasedKept DEF EditEnds
  <2> QED BY <2>1, CallsAreKept
<1> HIDE DEF r
<1> QED BY <1>1, <1>3, <1>4, TypedTurns, OrderContinues

LEMMA OrderEditReturns ==
  ASSUME TypeInv, OrderInv, NEW e \in Edits, EditReturns(e) PROVE OrderInv'
<1>1. EditIs(e, "done") \in [Edits -> EditRec(issued)]
      /\ EditsKept(EditIs(e, "done"))
  BY TypedTurns, EditIsType, EditIsKept DEF EditStates
<1>2. \E go : ContinueWith(Ignored(s), turns, EditIs(e, "done"), queue, go,
                           StopInProgress)
  BY DEF EditReturns, Continue
<1>3. CallsKept
  <2>1. EditsKept(edits') /\ sends' = sends
    BY <1>1, <1>2, ContinueCases, ReleasedKept DEF EditReturns
  <2> QED BY <2>1, CallsAreKept
<1> QED BY <1>2, <1>3, ReleaseTurn, TypedTurns, OrderContinues

(* Steps of an edit that claim nothing.                                    *)
LEMMA OrderEditQuiet ==
  ASSUME TypeInv, OrderInv, EditsKept(edits'), sends' = sends,
         SameSends(turns'), s'.turn = s.turn, queue' \in {queue, << >>}
  PROVE  OrderInv'
BY CallsAreKept, OrderKept

LEMMA OrderEditSteps ==
  ASSUME TypeInv, OrderInv, NEW e \in Edits,
         \/ EditDecides(e) \/ EditReserves(e) \/ EditInterrupts(e)
         \/ EditPreempts(e) \/ EditTruncates(e)
  PROVE  OrderInv'
<1>1. CASE EditDecides(e) \/ EditReserves(e) \/ EditTruncates(e)
  <2>1. EditsKept(edits')
    BY <1>1, EditIsKept DEF EditDecides, EditReserves, EditTruncates
  <2>2. s'.turn = s.turn
    BY <1>1, TypedTurns, KeepsTurn
       DEF EditDecides, EditReserves, EditTruncates
  <2> QED BY <1>1, <2>1, <2>2, TypedTurns, OrderEditQuiet
          DEF EditDecides, EditReserves, EditTruncates
<1>2. CASE EditInterrupts(e)
  <2>1. EditsKept(edits')
    <3>1. CASE s.phase \in {"idle", "completing"}
      BY <1>2, <3>1, EditIsKept DEF EditInterrupts
    <3>2. CASE s.phase \notin {"idle", "completing"}
      <4>1. [edits[e] EXCEPT !.at = "stopping", !.op = RunningOp].at
              = "stopping"
        BY TypedTurns DEF EditRec
      <4> QED BY <1>2, <3>2, <4>1, TypedTurns DEF EditInterrupts, EditsKept
    <3> QED BY <3>1, <3>2
  <2>2. SameSends(turns')
    BY <1>2, TypedTurns, CutAllSends DEF EditInterrupts
  <2> QED BY <1>2, <2>1, <2>2, OrderEditQuiet DEF EditInterrupts
<1>3. CASE EditPreempts(e)
  <2>1. EditsKept(edits')
    <3>1. \E at \in {"settled", "waiting"} : \E cmds :
             edits' = Released(EditIs(e, at), cmds)
      BY <1>3 DEF EditPreempts
    <3>2. PICK at \in {"settled", "waiting"} : \E cmds :
             edits' = Released(EditIs(e, at), cmds)
      BY <3>1
    <3>3. PICK cmds : edits' = Released(EditIs(e, at), cmds)
      BY <3>2
    <3>4. EditIs(e, at) \in [Edits -> EditRec(issued)]
          /\ EditsKept(EditIs(e, at))
      BY TypedTurns, EditIsType, EditIsKept DEF EditStates
    <3> QED BY <3>3, <3>4, ReleasedKept
  <2>2. SameSends(turns')
    <3>1. turns' = turns \/ turns' = [turns EXCEPT ![s.turn].aborted = TRUE]
      BY <1>3 DEF EditPreempts, Preempted
    <3> QED BY <3>1, TypedTurns DEF SameSends, Turn
  <2>3. s'.turn = s.turn
    BY <1>3, TypedTurns, KeepsTurn DEF EditPreempts
  <2> QED BY <1>3, <2>1, <2>2, <2>3, OrderEditQuiet DEF EditPreempts
<1> QED BY <1>1, <1>2, <1>3

LEMMA OrderEditSettles ==
  ASSUME TypeInv, OrderInv, NEW e \in Edits, EditSettles(e) PROVE OrderInv'
<1>1. CASE MayEdit(e)
  <2>1. EditsKept(edits')
    <3>1. [edits[e] EXCEPT !.at = "truncating", !.expected = s.turn].at
            = "truncating"
      BY TypedTurns DEF EditRec
    <3> QED BY <1>1, <3>1, TypedTurns DEF EditSettles, EditsKept
  <2> QED BY <1>1, <2>1, TypedTurns, OrderEditQuiet DEF EditSettles
<1>2. CASE ~MayEdit(e)
  BY <1>2, OrderEditEnds DEF EditSettles
<1> QED BY <1>1, <1>2

LEMMA OrderEditPrepares ==
  ASSUME TypeInv, OrderInv, NEW e \in Edits, EditPrepares(e) PROVE OrderInv'
<1> DEFINE req == Fresh("direct", edits[e].expected, e)
           ok == Admits(s, req) /\ ~StopInProgress /\ ~edits[e].stale
           c == ClaimedBy("edit", None, e)
<1>1. CASE ok
  <2>1. Claim(req, c, turns) /\ Admits(s, req) /\ sends' = sends
    BY <1>1 DEF EditPrepares
  <2>2. c.send = None /\ req.kind = "fresh"
    BY DEF ClaimedBy, NoTurn, Fresh
  <2>3. EditsKept(edits')
    <3>1. [edits[e] EXCEPT !.at = "leaving", !.first = First(e),
                           !.turn = issued + 1].at = "leaving"
      BY TypedTurns DEF EditRec
    <3> QED BY <1>1, <3>1, TypedTurns DEF EditPrepares, EditsKept
  <2>4. CallsKept
    BY <2>1, <2>3, CallsAreKept
  <2> HIDE DEF req, c
  <2> QED BY <2>1, <2>2, <2>4, TypedTurns, OrderClaim
<1>2. CASE ~ok
  BY <1>2, OrderEditEnds DEF EditPrepares
<1> QED BY <1>1, <1>2

LEMMA OrderStops ==
  ASSUME TypeInv, OrderInv,
         \/ \E how : StopBegins(how)
         \/ StopEnds \/ SoftSendNow \/ BeginShutdown
  PROVE  OrderInv'
<1>1. CASE \E how : StopBegins(how)
  <2> DEFINE old(t) == turns[t].startup \in {"reserved", "prepared", "starting"}
             tt == [t \in Turns |-> IF old(t)
                      THEN [turns[t] EXCEPT !.stale = TRUE] ELSE turns[t]]
  <2>1. tt \in [Turns -> Turn] /\ SameSends(tt)
    <3>1. \A t \in Turns :
             /\ [turns[t] EXCEPT !.stale = TRUE] \in Turn
             /\ [turns[t] EXCEPT !.stale = TRUE].send = turns[t].send
      <4> SUFFICES ASSUME NEW t \in Turns
                   PROVE  /\ [turns[t] EXCEPT !.stale = TRUE] \in Turn
                          /\ [turns[t] EXCEPT !.stale = TRUE].send
                               = turns[t].send
        OBVIOUS
      <4>1. turns[t] \in Turn
        BY TypedTurns
      <4>2. [turns[t] EXCEPT !.stale = TRUE] \in Turn
        BY <4>1, FieldTypes
      <4> QED BY <4>1, <4>2 DEF Turn
    <3> HIDE DEF old
    <3> QED BY <3>1, TypedTurns DEF SameSends
  <2>2. turns' = CutAll(tt)
    BY <1>1 DEF StopBegins
  <2> HIDE DEF tt
  <2>3. SameSends(turns')
    BY <2>1, <2>2, CutAllSends
  <2>4. EditsKept(edits')
    <3>1. \A e \in Edits : [edits[e] EXCEPT !.stale = TRUE].at = edits[e].at
      BY TypedTurns DEF EditRec
    <3> QED BY <1>1, <3>1, TypedTurns DEF StopBegins, EditsKept
  <2>5. \A x \in Sends : \/ sends'[x] = sends[x]
                         \/ /\ sends[x].at = "direct"
                            /\ sends'[x].expected = None
                            /\ sends'[x].at = "direct"
    BY <1>1 DEF StopBegins, TypeInv, SendRec
  <2> QED BY <1>1, <2>3, <2>4, <2>5, CallsAreKept, OrderKept DEF StopBegins
<1>2. CASE StopEnds
  <2>1. CASE stop.how = "send-now"
    <3>1. ContinueWith(Ignored(s), turns, edits, queue, "send-immediately",
                       FALSE)
      BY <1>2, <2>1 DEF StopEnds
    <3> QED BY <1>2, <3>1, ReleaseTurn, TypedTurns, OrderDrainsAfter
            DEF StopEnds
  <2>2. CASE stop.how # "send-now"
    BY <1>2, <2>2, TypedTurns, OrderEditQuiet DEF StopEnds
  <2> QED BY <2>1, <2>2
<1>3. CASE SoftSendNow
  <2>1. ContinueWith(Ignored(s), CutAll(turns), edits, queue,
                     "send-immediately", StopInProgress)
    BY <1>3 DEF SoftSendNow, Continue
  <2> QED BY <1>3, <2>1, CutAllSends, ReleaseTurn, TypedTurns,
             OrderDrainsAfter DEF SoftSendNow
<1>4. CASE BeginShutdown
  <2>1. EditsKept(edits')
    <3>1. \A e \in Edits : [edits[e] EXCEPT !.at = "settled"].at = "settled"
      BY TypedTurns DEF EditRec
    <3> QED BY <1>4, <3>1, TypedTurns DEF BeginShutdown, EditsKept
  <2>2. s'.turn = s.turn
    BY <1>4, TypedTurns, KeepsTurn DEF BeginShutdown
  <2> QED BY <1>4, <2>1, <2>2, TypedTurns, OrderEditQuiet DEF BeginShutdown
<1> QED BY <1>1, <1>2, <1>3, <1>4

LEMMA OrderMutations ==
  ASSUME TypeInv, OrderInv, NEW m \in Mutations,
         MutationBegins(m) \/ MutationEnds(m)
  PROVE  OrderInv'
<1>1. CASE MutationBegins(m)
  <2> DEFINE held == Reserve(s, m, "admission").s
             r    == Release(held, m, "admission")
  <2>1. held \in CoordinatorState /\ held.turn = s.turn
    <3>1. issued \in Nat /\ m \in Nat /\ "admission" \in ReservationKinds
      BY TurnsNat, CallsNat DEF TypeInv, ReservationKinds
    <3>2. StOK(held, issued)
      BY <3>1, HoldsOK DEF TypeInv
    <3> QED BY <3>2, TypedTurns, KeepsTurn DEF StOK
  <2> HIDE DEF held
  <2>2. r.s \in CoordinatorState /\ r.s.turn = s.turn
    BY <2>1, ReleaseRegular, KeepsTurn DEF Regular
  <2> HIDE DEF r
  <2>3. CASE MutationMayBegin
    BY <1>1, <2>1, <2>3, TypedTurns, OrderEditQuiet DEF MutationBegins, held
  <2>4. CASE ~MutationMayBegin
    <3>1. ContinueWith(r, turns, edits, queue, IfWoken(r), StopInProgress)
      BY <1>1, <2>4 DEF MutationBegins, Continue, r, held
    <3> QED BY <1>1, <2>2, <3>1, TypedTurns, OrderDrainsAfter
            DEF MutationBegins
  <2> QED BY <2>3, <2>4
<1>2. CASE MutationEnds(m)
  <2> DEFINE r == Release(s, m, "admission")
  <2>1. r.s \in CoordinatorState /\ r.s.turn = s.turn
    BY ReleaseTurn
  <2> HIDE DEF r
  <2>2. ContinueWith(r, turns, edits, queue, IfWoken(r), StopInProgress)
    BY <1>2 DEF MutationEnds, Continue, r
  <2> QED BY <1>2, <2>1, <2>2, TypedTurns, OrderDrainsAfter DEF MutationEnds
<1> QED BY <1>1, <1>2

LEMMA InitOrder == Init => OrderInv
<1> SUFFICES ASSUME Init PROVE OrderInv
  OBVIOUS
<1>1. \A t \in Turns : turns[t].send = None
  BY DEF Init, NoTurn
<1>2. \A x \in Sends : ~Decided(x)
  BY <1>1, CallsNat DEF Init, Decided, None
<1> QED BY <1>1, <1>2 DEF OrderInv, SendsInOrder, Init

LEMMA NextOrder == ASSUME TypeInv, OrderInv, Next PROVE OrderInv'
<1>1. CASE \E x \in Sends : SendArrives(x) \/ Sending(x)
  BY <1>1, OrderArrives, OrderDecides, OrderSendLeaves, OrderSendPrepares
     DEF Sending
<1>2. CASE \E t \in Turns : \/ Startup(t) \/ Failure(t) \/ StreamEnds(t)
                            \/ Completing(t) \/ Detour(t)
  BY <1>2, OrderTurnSteps, OrderTurnContinues, OrderPolicyEnds, OrderHandsOff
     DEF Startup, Failure, Completing, Ending, Detour
<1>3. CASE \E e \in Edits : EditArrives(e) \/ Editing(e)
  BY <1>3, OrderArrives, OrderEditSteps, OrderEditEnds, OrderEditReturns,
     OrderEditSettles, OrderEditPrepares DEF Editing, EditRefused
<1>4. CASE \E how \in {"stop", "send-now"} : StopBegins(how)
  BY <1>4, OrderStops
<1>5. CASE StopEnds \/ SoftSendNow \/ BeginShutdown
  BY <1>5, OrderStops
<1>6. CASE \E m \in Mutations : MutationBegins(m) \/ MutationEnds(m)
  BY <1>6, OrderMutations
<1> QED BY <1>1, <1>2, <1>3, <1>4, <1>5, <1>6 DEF Next

LEMMA StutterOrder == ASSUME TypeInv, OrderInv, UNCHANGED vars PROVE OrderInv'
BY TypedTurns, OrderEditQuiet DEF vars

(* The turns of user sends are claimed in the order the sends arrived,     *)
(* however their preflights overlap (sendMessage of workspaceService.ts    *)
(* and the send-order chain it waits on), for every number of sends and    *)
(* edits and every way a turn ends: a send takes its turn directly only    *)
(* when none before it is undecided or queued, and the queue is a queue.   *)
THEOREM ClaimsInOrder == Spec => []SendsInOrder
<1>1. /\ TypeInv /\ OrderInv /\ TypeInv'
      /\ [Next /\ UNCHANGED cast]_<<vars, cast>>
      => OrderInv'
  BY NextOrder, StutterOrder
<1>2. OrderInv => SendsInOrder
  BY DEF OrderInv
<1> QED BY <1>1, <1>2, InitOrder, SessionTyped, PTL DEF Spec

-----------------------------------------------------------------------------
(* The session as a whole.  SessionOK relates the coordinator's state to   *)
(* the turn it shows (Here, Sole, Run), to the turns it has replaced       *)
(* (Past), and to the calls that hold it: sends about to be handed over,   *)
(* edits, the stop and the context mutations.                              *)

Waits(r)   == r.startup = "starting" /\ r.engine = "off" /\ r.outcome = "none"
Pending(r) == r.startup \in {"reserved", "prepared"} \/ Waits(r)
Quiet(r)   == r.engine # "live" /\ (Pending(r) => r.aborted)
Acting     == {"handling", "recovering", "continuing", "flushing",
               "accounting"}
Engaged(r) == \/ r.policy \in Acting \cup {"entered"}
              \/ r.policy = "off" /\ r.engine # "off"

(* A soft send-now claims a turn under a policy that still runs; one that  *)
(* is followed by a send-now, a failure and a rollover can leave a stream  *)
(* that is not the current turn's.                                         *)
Soft    == "soft-send-now" \in Paths
Editors == Edits \cap cast.callers

(* A rollover whose hand-off an edit refuses returns with its turn still   *)
(* completing (agentSession.ts:10033), and two edits that pass the check   *)
(* for another edit before either reserves (agentSession.ts:5472) both     *)
(* rewrite history: the theorems below are about sessions without these.   *)
NoMixedSendNow == ~(Soft /\ "send-now" \in Paths)
RecoversAlone  == ~Soft /\ ("recover" \notin Paths \/ Editors = {})
OneEditor      == ~Soft /\ \A e, f \in Editors : e = f

(* What the parts of turn t's record say of each other.                    *)
Coherent(t, r) ==
  /\ r.startup \in {"none", "reserved", "prepared"} =>
       r.engine = "off" /\ r.outcome = "none"
  /\ r.engine # "off" => r.startup # "failing"
  /\ r.engine = "live" => r.outcome = "none"
  /\ r.engine = "ended" => r.outcome \notin {"none", "cancelled"}
  /\ r.engine = "off" => r.outcome \in {"none", "cancelled", "failed"}
  /\ r.outcome = "cancelled" =>
       r.startup # "failing" /\ r.policy \in {"off", "done"}
  /\ r.engine = "off" /\ r.outcome = "failed" =>
       r.startup \in {"failing", "done"} /\ r.policy \notin {"off", "entered"}
  /\ r.outcome = "none" \/ r.startup = "starting" => r.policy = "off"
  /\ r.startup = "delivered" => r.engine = "live" \/ r.outcome # "none"
  /\ r.policy \in Acting => r.captured = t
  /\ r.policy = "recovering" => "recover" \in Paths

(* The current turn's record c and the coordinator's state.                *)
Here(st, c) ==
  /\ st.life # "disposed" /\ st.op.id \in {None, st.turn}
  /\ st.op.id # None =>
       /\ c.startup \notin {"none", "reserved", "prepared"} /\ ~c.aborted
       /\ (st.op.stage = "started") <=> (c.engine # "off")
       /\ st.op.delivery = "policy" => c.policy # "off"
  /\ c.startup = "starting" /\ ~c.aborted => st.op.id = st.turn
  /\ st.phase = "preparing" =>
       c.startup \notin {"none", "done"} /\ c.engine = "off"
  /\ st.phase = "idle" => Quiet(c)

(* Without a soft send-now the current turn's progress decides the phase.  *)
Sole(st, c) ==
  /\ /\ c.startup \in {"reserved", "prepared", "starting"}
     /\ c.engine = "off" /\ ~c.aborted
     => st.phase = "preparing"
  /\ st.op.id # None /\ Engaged(c) => st.phase \in {"streaming", "completing"}
  /\ c.policy = "entered" \/ c.engine = "live" => st.op.id = st.turn

(* A session that shows a stream has an operation, and the operation a     *)
(* stream or a policy that will end it.                                    *)
Run(st, c) ==
  st.life = "open" /\ st.phase \in {"streaming", "completing"} =>
    st.op.id # None /\ Engaged(c)

(* A turn that has been replaced.                                          *)
Past(r) ==
  /\ r.engine = "live" \/ (Waits(r) /\ ~r.aborted) => Soft /\ r.cut
  /\ ~Soft => r.policy # "entered"

TurnsPart(st, tt) ==
  /\ \A t \in Turns : Coherent(t, tt[t]) /\ (t # st.turn => Past(tt[t]))
  /\ Here(st, tt[st.turn])
  /\ ~Soft => Sole(st, tt[st.turn])
  /\ RecoversAlone => Run(st, tt[st.turn])

Holding == {"reserved", "stopping", "waiting", "settled", "truncating",
            "truncated"}
Settled(st, c) == Quiet(c) /\ (~Soft => st.phase = "idle")

SendsPart(st, tt, sd) ==
  \A x \in Sends : sd[x].at = "direct" /\ sd[x].expected = st.turn =>
    Settled(st, tt[st.turn])

EditHolds(st, c, e, r) ==
  /\ r.at # "off" => e \in cast.callers
  /\ r.at \in Holding => [id |-> e, kind |-> "edit"] \in st.reservations
  /\ r.at \in {"settled", "truncating", "truncated"} /\ st.life = "open" =>
       Settled(st, c)
  /\ r.at \in {"truncating", "truncated"} /\ ~Soft => st.phase = "idle"

(* The turn an edit claims for itself is the one its call is starting.     *)
EditTurns(tt, ed) ==
  \A t \in Turns :
    tt[t].editId # None =>
      /\ tt[t].editId \in Edits /\ ed[tt[t].editId].at = "leaving"
      /\ ed[tt[t].editId].turn = t /\ tt[t].startup # "done"

EditsPart(st, tt, ed) ==
  /\ \A e \in Edits : EditHolds(st, tt[st.turn], e, ed[e])
  /\ EditTurns(tt, ed)
  /\ \A r \in st.reservations : r.kind = "edit" => r.id \in Editors

StopPart(st, tt, sp) ==
  sp.at = "stopping" =>
    /\ sp.how \in Paths
    /\ \A t \in Turns : tt[t].engine = "live" => tt[t].cut
    /\ /\ ~Soft /\ st.op.id # None
       /\ tt[st.turn].engine # "off" /\ tt[st.turn].policy # "done"
       => sp.op = st.op.id

CallsAway(sd, ed) == /\ \A x \in Sends : sd[x].at \in {"off", "done"}
                     /\ \A e \in Edits : ed[e].at \in {"off", "done"}

MutationsPart(st, sd, ed, mu) ==
  /\ \A r \in st.reservations :
       r.kind = "admission" => r.id \in Mutations /\ mu[r.id] = "mutating"
  /\ \A m \in Mutations : mu[m] = "mutating" =>
       /\ [id |-> m, kind |-> "admission"] \in st.reservations
       /\ CallsAway(sd, ed) /\ (~Soft => st.phase = "idle")
       /\ \A k \in Mutations : mu[k] = "mutating" => k = m

SessionOK(st, tt, sd, ed, sp, mu) ==
  /\ TurnsPart(st, tt) /\ SendsPart(st, tt, sd) /\ EditsPart(st, tt, ed)
  /\ StopPart(st, tt, sp) /\ MutationsPart(st, sd, ed, mu)

-----------------------------------------------------------------------------
(* A claim.  The turns it leaves behind are past, the one it makes has     *)
(* done nothing.                                                           *)

(* The turns a claim may leave behind, and the record it may add for the   *)
(* turn after n.                                                           *)
AllPast(tt) == \A t \in Turns : Coherent(t, tt[t]) /\ Past(tt[t])

Begins(c) == /\ c.startup \in {"reserved", "prepared"} /\ c.engine = "off"
             /\ c.outcome = "none" /\ c.policy = "off" /\ ~c.aborted

Expects(sd, n) == \A x \in Sends : sd[x].expected \in 0..n

EditLeaves(req, c, ed, n) ==
  /\ \A e \in Edits : EditOwner(req) = e => ed[e].at \notin Holding
  /\ c.editId # None => /\ c.editId \in Edits
                        /\ ed[c.editId].at = "leaving"
                        /\ ed[c.editId].turn = n

LEMMA ClaimedFields ==
  ASSUME NEW who, NEW x, NEW e
  PROVE  LET c == ClaimedBy(who, x, e)
         IN Begins(c) /\ c.editId = e /\ c.send = x
BY DEF ClaimedBy, NoTurn, Begins

LEMMA PrepareIs ==
  ASSUME NEW st \in CoordinatorState, NEW n, NEW req, Admits(st, req),
         req.kind = "fresh"
  PROVE  LET p == Prepare(st, n, req).s
         IN /\ p.turn = n /\ p.phase = "preparing" /\ p.op.id = None
            /\ p.life = st.life /\ p.reservations = st.reservations
BY DEF Prepare, Result, CoordinatorState, NoOperation, NewOperation

LEMMA SessionClaims ==
  ASSUME NEW n \in Nat, n < MaxTurns, NEW st \in CoordinatorState,
         NEW tt \in [Turns -> Turn], AllPast(tt),
         NEW sd, Expects(sd, n), NEW ed, NEW sp, NEW mu,
         EditsPart(st, tt, ed), StopPart(st, tt, sp),
         MutationsPart(st, sd, ed, mu),
         NEW req, req.kind = "fresh", Admits(st, req),
         NEW c, Begins(c), EditLeaves(req, c, ed, n + 1),
         NEW s2, s2 = Prepare(st, n + 1, req).s,
         NEW t2, t2 = [tt EXCEPT ![n + 1] = c]
  PROVE  SessionOK(s2, t2, sd, ed, sp, mu)
<1>1. n + 1 \in Turns /\ n + 1 # None /\ Turns \subseteq Nat
  BY TurnsNat DEF Turns, None
<1>2. /\ s2.turn = n + 1 /\ s2.phase = "preparing" /\ s2.op.id = None
      /\ s2.life = st.life /\ s2.reservations = st.reservations
  BY PrepareIs
<1>3. /\ t2[n + 1] = c
      /\ \A t \in Turns : t # n + 1 => t2[t] = tt[t]
  BY <1>1
<1>4. st.life = "open" /\ ~Reserved(st, "admission")
      /\ \A r \in st.reservations : r.kind = "edit" => r.id = EditOwner(req)
  BY DEF Admits, ConflictingEdit
<1>5. TurnsPart(s2, t2)
  <2>1. Coherent(n + 1, c)
    BY DEF Coherent, Acting, Begins
  <2>2. \A t \in Turns : Coherent(t, t2[t]) /\ (t # s2.turn => Past(t2[t]))
    BY <1>2, <1>3, <2>1 DEF AllPast
  <2>3. Here(s2, c)
    BY <1>2, <1>4 DEF Here, Begins
  <2>4. Sole(s2, c) /\ Run(s2, c)
    BY <1>2 DEF Sole, Run, Begins
  <2> QED BY <1>2, <1>3, <2>2, <2>3, <2>4 DEF TurnsPart
<1>6. SendsPart(s2, t2, sd)
  <2>1. \A x \in Sends : sd[x].expected # n + 1
    BY DEF Expects
  <2> QED BY <1>2, <2>1 DEF SendsPart
<1>7. \A e \in Edits : ed[e].at \notin Holding
  <2> SUFFICES ASSUME NEW e \in Edits, ed[e].at \in Holding PROVE FALSE
    OBVIOUS
  <2>1. [id |-> e, kind |-> "edit"] \in st.reservations
    BY DEF EditsPart, EditHolds
  <2>2. EditOwner(req) = e
    BY <1>4, <2>1
  <2> QED BY <2>2 DEF EditLeaves
<1>8. EditsPart(s2, t2, ed)
  <2>1. \A e \in Edits : EditHolds(s2, t2[s2.turn], e, ed[e])
    BY <1>7 DEF EditHolds, EditsPart, Holding
  <2>2. EditTurns(t2, ed)
    BY <1>3 DEF EditTurns, EditsPart, EditLeaves, Begins
  <2> QED BY <1>2, <2>1, <2>2 DEF EditsPart
<1>9. StopPart(s2, t2, sp)
  BY <1>2, <1>3 DEF StopPart, Begins
<1>10. MutationsPart(s2, sd, ed, mu)
  <2>1. \A m \in Mutations : mu[m] # "mutating"
    BY <1>4 DEF MutationsPart, Reserved
  <2> QED BY <1>2, <2>1 DEF MutationsPart
<1> QED BY <1>5, <1>6, <1>8, <1>9, <1>10 DEF SessionOK

-----------------------------------------------------------------------------
(* Steps that leave the calls where they are.                              *)

Calmly(st, tt, st2, tt2) ==
  /\ st2.turn = st.turn /\ (st2.life = "open" => st.life = "open")
  /\ st2.reservations = st.reservations
  /\ Quiet(tt[st.turn]) => Quiet(tt2[st.turn])
  /\ ~Soft /\ st.phase = "idle" => st2.phase = "idle"
  /\ \A t \in Turns :
       /\ tt2[t].editId \in {tt[t].editId, None}
       /\ tt2[t].startup = "done" =>
            tt2[t].editId = None \/ tt[t].startup = "done"

LEMMA Calm ==
  ASSUME NEW st, NEW tt, NEW st2, NEW tt2, Calmly(st, tt, st2, tt2),
         NEW sd, NEW ed, NEW mu,
         SendsPart(st, tt, sd), EditsPart(st, tt, ed),
         MutationsPart(st, sd, ed, mu)
  PROVE  /\ SendsPart(st2, tt2, sd) /\ EditsPart(st2, tt2, ed)
         /\ MutationsPart(st2, sd, ed, mu)
<1>1. Settled(st, tt[st.turn]) => Settled(st2, tt2[st2.turn])
  BY DEF Calmly, Settled
<1>2. SendsPart(st2, tt2, sd)
  BY <1>1 DEF SendsPart, Calmly
<1>3. \A e \in Edits : EditHolds(st2, tt2[st2.turn], e, ed[e])
  BY <1>1 DEF EditsPart, EditHolds, Calmly
<1>4. EditTurns(tt2, ed)
  BY DEF EditsPart, EditTurns, Calmly
<1>5. MutationsPart(st2, sd, ed, mu)
  BY DEF MutationsPart, Calmly
<1> QED BY <1>2, <1>3, <1>4, <1>5 DEF EditsPart, Calmly

StopsCalmly(st, tt, st2, tt2) ==
  /\ \A t \in Turns : tt2[t].engine = "live" =>
                        tt[t].engine = "live" /\ (tt[t].cut => tt2[t].cut)
  /\ /\ ~Soft /\ st2.op.id # None
     /\ tt2[st2.turn].engine # "off" /\ tt2[st2.turn].policy # "done"
     => /\ st2.op.id = st.op.id
        /\ tt[st.turn].engine # "off" /\ tt[st.turn].policy # "done"

LEMMA CalmStop ==
  ASSUME NEW st, NEW tt, NEW st2, NEW tt2, NEW sp,
         sp.at = "stopping" => StopsCalmly(st, tt, st2, tt2),
         StopPart(st, tt, sp)
  PROVE  StopPart(st2, tt2, sp)
BY DEF StopPart, StopsCalmly

(* One record changes, r for turns[t]; the turn stays.                     *)
LEMMA OneTurn ==
  ASSUME NEW st, NEW tt \in [Turns -> Turn], NEW st2, TurnsPart(st, tt),
         st.turn \in Turns, st2.turn = st.turn,
         NEW t \in Turns, NEW r, Coherent(t, r), t # st.turn => Past(r),
         NEW c, c = IF t = st.turn THEN r ELSE tt[st.turn],
         Here(st2, c), ~Soft => Sole(st2, c), RecoversAlone => Run(st2, c)
  PROVE  TurnsPart(st2, [tt EXCEPT ![t] = r])
<1> DEFINE t2 == [tt EXCEPT ![t] = r]
<1>1. t2[st2.turn] = c /\ t2[t] = r /\ \A u \in Turns : u # t => t2[u] = tt[u]
  OBVIOUS
<1> HIDE DEF t2
<1>2. \A u \in Turns : Coherent(u, t2[u]) /\ (u # st2.turn => Past(t2[u]))
  BY <1>1 DEF TurnsPart
<1>3. TurnsPart(st2, t2)
  BY <1>1, <1>2 DEF TurnsPart
<1> QED BY <1>3 DEF t2

-----------------------------------------------------------------------------
(* A result and the drain that follows it.                                 *)

LEMMA ReleasedParts ==
  ASSUME NEW n, NEW ed \in [Edits -> EditRec(n)], NEW cmds,
         NEW st, NEW tt, NEW sd, NEW mu,
         EditsPart(st, tt, ed), MutationsPart(st, sd, ed, mu),
         PublishesIdle(cmds) => Settled(st, tt[st.turn])
  PROVE  /\ EditsPart(st, tt, Released(ed, cmds))
         /\ MutationsPart(st, sd, Released(ed, cmds), mu)
         /\ \A e \in Edits : ed[e].at \notin Holding =>
                               Released(ed, cmds)[e].at \notin Holding
<1> DEFINE ed2 == Released(ed, cmds)
<1>1. \A e \in Edits :
         \/ ed2[e] = ed[e]
         \/ /\ PublishesIdle(cmds) /\ ed[e].at = "waiting"
            /\ ed2[e].at = "settled"
  BY DEF Released, EditRec
<1> HIDE DEF ed2
<1>2. \A e \in Edits : EditHolds(st, tt[st.turn], e, ed2[e])
  <2> SUFFICES ASSUME NEW e \in Edits
               PROVE  EditHolds(st, tt[st.turn], e, ed2[e])
    OBVIOUS
  <2>1. EditHolds(st, tt[st.turn], e, ed[e])
    BY DEF EditsPart
  <2> QED BY <1>1, <2>1 DEF EditHolds, Holding
<1>3. EditTurns(tt, ed2)
  BY <1>1 DEF EditTurns, EditsPart
<1>4. EditsPart(st, tt, ed2)
  BY <1>2, <1>3 DEF EditsPart
<1>5. CallsAway(sd, ed) => CallsAway(sd, ed2)
  BY <1>1 DEF CallsAway
<1>6. MutationsPart(st, sd, ed2, mu)
  BY <1>5 DEF MutationsPart
<1>7. \A e \in Edits : ed[e].at \notin Holding => ed2[e].at \notin Holding
  BY <1>1 DEF Holding
<1> QED BY <1>4, <1>6, <1>7 DEF ed2

(* In an idle session every turn is past.                                  *)
LEMMA IdlePast ==
  ASSUME NEW st, NEW tt, TurnsPart(st, tt), st.turn \in Turns,
         st.phase = "idle"
  PROVE  AllPast(tt)
<1> DEFINE c == tt[st.turn]
<1>1. Quiet(c) /\ (~Soft => Sole(st, c))
  BY DEF TurnsPart, Here
<1>2. st.turn # None
  BY TurnsNat DEF Turns, None
<1>3. Past(c)
  BY <1>1, <1>2 DEF Past, Quiet, Pending, Sole, Engaged
<1> QED BY <1>3 DEF TurnsPart, AllPast

(* A drain claims a turn once every turn is past.                          *)
LEMMA DrainClaims ==
  ASSUME issued \in Nat, NEW r, r.s \in CoordinatorState,
         NEW tt \in [Turns -> Turn], AllPast(tt),
         NEW ed \in [Edits -> EditRec(issued)],
         NEW sd \in [Sends -> SendRec(issued)], NEW sp, NEW mu,
         NEW q, NEW trigger, NEW latched,
         ContinueWith(r, tt, ed, q, trigger, latched),
         Drains(r, tt, q, trigger, latched),
         EditsPart(r.s, tt, ed), StopPart(r.s, tt, sp),
         MutationsPart(r.s, sd, ed, mu),
         PublishesIdle(r.cmds) => Settled(r.s, tt[r.s.turn])
  PROVE  SessionOK(s', turns', sd, edits', sp, mu)
<1> DEFINE req == Fresh(trigger, r.s.turn, None)
           c == ClaimedBy("queue", Head(q), None)
<1>1. /\ issued < MaxTurns /\ s' = Prepare(r.s, issued + 1, req).s
      /\ turns' = [tt EXCEPT ![issued + 1] = c]
      /\ Admits(r.s, req) /\ edits' = Released(ed, r.cmds)
  BY ContinueCases DEF Drains, Dispatches
<1>2. req.kind = "fresh" /\ EditOwner(req) = None
  BY DEF Fresh, EditOwner, None
<1>3. Begins(c) /\ c.editId = None
  BY DEF ClaimedBy, NoTurn, Begins
<1> HIDE DEF req, c
<1>4. EditLeaves(req, c, edits', issued + 1)
  BY <1>2, <1>3, CallsNat DEF EditLeaves, None
<1>5. EditsPart(r.s, tt, edits') /\ MutationsPart(r.s, sd, edits', mu)
  BY <1>1, ReleasedParts
<1>6. Expects(sd, issued)
  BY DEF Expects, SendRec
<1> QED BY <1>1, <1>2, <1>3, <1>4, <1>5, <1>6, SessionClaims

LEMMA Continues ==
  ASSUME issued \in Nat, NEW r, r.s \in CoordinatorState, r.s.turn \in Turns,
         NEW tt \in [Turns -> Turn], NEW ed \in [Edits -> EditRec(issued)],
         NEW sd \in [Sends -> SendRec(issued)], NEW sp, NEW mu,
         NEW q, NEW trigger \in {"none", "idle"}, NEW latched,
         ContinueWith(r, tt, ed, q, trigger, latched),
         SessionOK(r.s, tt, sd, ed, sp, mu),
         PublishesIdle(r.cmds) => r.s.phase = "idle"
  PROVE  SessionOK(s', turns', sd, edits', sp, mu)
<1>1. PublishesIdle(r.cmds) => Settled(r.s, tt[r.s.turn])
  BY DEF SessionOK, TurnsPart, Here, Settled
<1>2. CASE Stays(r, tt, q)
  <2>1. s' = r.s /\ turns' = tt /\ edits' = Released(ed, r.cmds)
    BY <1>2, ContinueCases DEF Stays
  <2>2. /\ EditsPart(r.s, tt, Released(ed, r.cmds))
        /\ MutationsPart(r.s, sd, Released(ed, r.cmds), mu)
    BY <1>1, ReleasedParts DEF SessionOK
  <2>3. SessionOK(r.s, tt, sd, Released(ed, r.cmds), sp, mu)
    BY <2>2 DEF SessionOK
  <2> QED BY <2>1, <2>3
<1>3. CASE Drains(r, tt, q, trigger, latched)
  <2>1. r.s.phase = "idle"
    BY <1>3 DEF Drains, Dispatches, Admits, Claimable, Deferred, Fresh
  <2>2. AllPast(tt)
    BY <2>1, IdlePast DEF SessionOK
  <2> QED BY <1>1, <1>3, <2>2, DrainClaims DEF SessionOK
<1> QED BY <1>2, <1>3, ContinueCases

(* The session a step starts from.                                         *)
SessionHolds == SessionOK(s, turns, sends, edits, stop, mutations)

SessionKept == SessionOK(s', turns', sends', edits', stop', mutations')

LEMMA Typed ==
  ASSUME TypeInv
  PROVE  /\ issued \in Nat /\ s \in CoordinatorState /\ s.turn \in Turns
         /\ s.turn \in Nat /\ s.turn # None /\ s.turn \in 1..issued
         /\ turns \in [Turns -> Turn] /\ turns[s.turn] \in Turn
         /\ sends \in [Sends -> SendRec(issued)]
         /\ edits \in [Edits -> EditRec(issued)]
         /\ s.op.id \in Nat
         /\ mutations \in [Mutations -> {"off", "mutating", "done"}]
<1>1. issued \in Nat /\ issued \in Turns
  BY TurnsNat DEF TypeInv
<1>2. s \in CoordinatorState /\ s.turn \in 1..issued /\ s.op.id \in 0..issued
  BY DEF TypeInv, StOK
<1>3. s.turn \in Turns
  BY <1>1, <1>2, TurnsNat DEF Turns
<1> QED BY <1>1, <1>2, <1>3 DEF TypeInv, TurnsOK, None, MutationsOK

-----------------------------------------------------------------------------
(* The calls of a session.                                                 *)

LEMMA SendMoves ==
  ASSUME TypeInv, SessionHolds, NEW x \in Sends, NEW sd,
         \A y \in Sends \ {x} : sd[y] = sends[y],
         sd[x].at = "direct" /\ sd[x].expected = s.turn =>
           \/ sends[x].at = "direct" /\ sends[x].expected = s.turn
           \/ Settled(s, turns[s.turn]),
         sd[x].at \in {"off", "done"} \/ ~Mutating
           \/ sends[x].at \notin {"off", "done"}
  PROVE  SessionOK(s, turns, sd, edits, stop, mutations)
<1>1. SendsPart(s, turns, sd)
  BY DEF SessionHolds, SessionOK, SendsPart
<1>2. MutationsPart(s, sd, edits, mutations)
  <2>1. Mutating => CallsAway(sends, edits)
    BY DEF Mutating, SessionHolds, SessionOK, MutationsPart
  <2>2. Mutating => CallsAway(sd, edits)
    BY <2>1 DEF CallsAway
  <2> QED BY <2>2 DEF Mutating, SessionHolds, SessionOK, MutationsPart
<1> QED BY <1>1, <1>2 DEF SessionHolds, SessionOK

LEMMA EditMoves ==
  ASSUME TypeInv, SessionHolds, NEW e \in Edits, NEW ed,
         \A f \in Edits \ {e} : ed[f] = edits[f],
         EditHolds(s, turns[s.turn], e, ed[e]),
         edits[e].at = "leaving" =>
           \A t \in Turns : turns[t].editId # e,
         ed[e].at \in {"off", "done"} \/ ~Mutating
           \/ edits[e].at \notin {"off", "done"}
  PROVE  SessionOK(s, turns, sends, ed, stop, mutations)
<1>1. \A f \in Edits : EditHolds(s, turns[s.turn], f, ed[f])
  BY DEF SessionHolds, SessionOK, EditsPart
<1>2. EditTurns(turns, ed)
  BY DEF SessionHolds, SessionOK, EditsPart, EditTurns
<1>3. EditsPart(s, turns, ed)
  BY <1>1, <1>2 DEF SessionHolds, SessionOK, EditsPart
<1>4. MutationsPart(s, sends, ed, mutations)
  <2>1. Mutating => CallsAway(sends, edits)
    BY DEF Mutating, SessionHolds, SessionOK, MutationsPart
  <2>2. Mutating => CallsAway(sends, ed)
    BY <2>1 DEF CallsAway
  <2> QED BY <2>2 DEF Mutating, SessionHolds, SessionOK, MutationsPart
<1> QED BY <1>3, <1>4 DEF SessionHolds, SessionOK

LEMMA SelfState ==
  Ignored(s).s = s /\ ~PublishesIdle(Ignored(s).cmds)
BY DEF Ignored, Result, PublishesIdle

LEMMA SessionIdle ==
  ASSUME SessionHolds, s.phase = "idle" PROVE Settled(s, turns[s.turn])
BY DEF SessionHolds, SessionOK, TurnsPart, Here, Settled

LEMMA SendFields ==
  ASSUME TypeInv, NEW x \in Sends, NEW at, NEW sd, sd = SendIs(x, at)
  PROVE  sd[x].at = at /\ \A y \in Sends \ {x} : sd[y] = sends[y]
BY Typed DEF SendIs, SendRec

LEMMA SendArrivesOK ==
  ASSUME TypeInv, SessionHolds, NEW x \in Sends, SendArrives(x)
  PROVE  SessionKept
<1>1. sends'[x].at = "preflight" /\ \A y \in Sends \ {x} : sends'[y] = sends[y]
  BY SendFields DEF SendArrives
<1>2. ~Mutating
  BY DEF SendArrives, Arrives
<1>3. SessionOK(s, turns, sends', edits, stop, mutations)
  BY <1>1, <1>2, SendMoves
<1> QED BY <1>3 DEF SendArrives, SessionKept

LEMMA SendDecidesOK ==
  ASSUME TypeInv, SessionHolds, NEW x \in Sends, SendDecides(x)
  PROVE  SessionKept
<1>1. sends[x].at = "preflight"
  BY DEF SendDecides, Decides, At
<1>2. \A y \in Sends \ {x} : sends'[y] = sends[y]
  BY Typed DEF SendDecides
<1>3. CASE MustQueue(x)
  <2>1. sends'[x].at = "leaving"
    BY <1>3, Typed DEF SendDecides, SendRec
  <2> QED BY <1>1, <1>2, <2>1, SendMoves DEF SendDecides, SessionKept
<1>4. CASE ~MustQueue(x)
  <2>1. s.phase = "idle"
    BY <1>4 DEF MustQueue, Busy
  <2>2. SessionOK(s, turns, sends', edits, stop, mutations)
    BY <1>1, <1>2, <2>1, SessionIdle, SendMoves
  <2> QED BY <2>2 DEF SendDecides, SessionKept
<1> QED BY <1>3, <1>4

(* A call that leaves changes nothing but its own record, and drains.      *)
LEMMA SendLeavesOK ==
  ASSUME TypeInv, SessionHolds, NEW x \in Sends,
         SendRefused(x) \/ SendReturns(x)
  PROVE  SessionKept
<1> DEFINE sd == SendIs(x, "done")
<1>1. sd[x].at = "done" /\ \A y \in Sends \ {x} : sd[y] = sends[y]
  BY SendFields
<1>2. sd \in [Sends -> SendRec(issued)]
  BY SendIsType DEF TypeInv
<1>3. PICK go \in {"none", "idle"} :
         ContinueWith(Ignored(s), turns, edits, queue, go, StopInProgress)
  BY DEF SendRefused, SendReturns, Continue, IfFirst, IfIdle
<1>4. sends' = sd /\ UNCHANGED <<stop, mutations>>
  BY DEF SendRefused, SendReturns
<1> HIDE DEF sd
<1>5. SessionOK(s, turns, sd, edits, stop, mutations)
  BY <1>1, SendMoves
<1>6. SessionOK(s', turns', sd, edits', stop, mutations)
  BY <1>2, <1>3, <1>5, SelfState, Typed, Continues
<1> QED BY <1>4, <1>6 DEF SessionKept

-----------------------------------------------------------------------------
(* Edits that claim nothing.                                               *)

LEMMA EditFields ==
  ASSUME TypeInv, NEW e \in Edits, NEW at, NEW ed, ed = EditIs(e, at)
  PROVE  /\ ed[e].at = at /\ ed[e].turn = edits[e].turn
         /\ \A f \in Edits \ {e} : ed[f] = edits[f]
BY Typed DEF EditIs, EditRec

LEMMA EditHeld ==
  ASSUME SessionHolds, NEW e \in Edits
  PROVE  EditHolds(s, turns[s.turn], e, edits[e])
BY DEF SessionHolds, SessionOK, EditsPart

LEMMA EditArrivesOK ==
  ASSUME TypeInv, SessionHolds, NEW e \in Edits, EditArrives(e)
  PROVE  SessionKept
<1>1. edits'[e].at = "preflight" /\ \A f \in Edits \ {e} : edits'[f] = edits[f]
  BY EditFields DEF EditArrives
<1>2. /\ ~Mutating /\ e \in cast.callers /\ edits[e].at = "off"
  BY SessionAssumption DEF EditArrives, Arrives, At
<1>3. EditHolds(s, turns[s.turn], e, edits'[e])
  BY <1>1, <1>2 DEF EditHolds, Holding
<1>4. SessionOK(s, turns, sends, edits', stop, mutations)
  BY <1>1, <1>2, <1>3, EditMoves
<1> QED BY <1>4 DEF EditArrives, SessionKept

LEMMA EditDecidesOK ==
  ASSUME TypeInv, SessionHolds, NEW e \in Edits, EditDecides(e)
  PROVE  SessionKept
<1>1. edits'[e].at = "checked" /\ \A f \in Edits \ {e} : edits'[f] = edits[f]
  BY EditFields DEF EditDecides
<1>2. edits[e].at = "preflight"
  BY SessionAssumption DEF EditDecides, Decides, At
<1>3. EditHolds(s, turns[s.turn], e, edits'[e])
  BY <1>1, <1>2, EditHeld DEF EditHolds, Holding
<1>4. SessionOK(s, turns, sends, edits', stop, mutations)
  BY <1>1, <1>2, <1>3, EditMoves
<1> QED BY <1>4 DEF EditDecides, SessionKept

LEMMA EditTruncatesOK ==
  ASSUME TypeInv, SessionHolds, NEW e \in Edits, EditTruncates(e)
  PROVE  SessionKept
<1>1. edits'[e].at = "truncated" /\ \A f \in Edits \ {e} : edits'[f] = edits[f]
  BY EditFields DEF EditTruncates
<1>2. edits[e].at = "truncating"
  BY DEF EditTruncates
<1>3. EditHolds(s, turns[s.turn], e, edits'[e])
  BY <1>1, <1>2, EditHeld DEF EditHolds, Holding
<1>4. SessionOK(s, turns, sends, edits', stop, mutations)
  BY <1>1, <1>2, <1>3, EditMoves
<1> QED BY <1>4 DEF EditTruncates, SessionKept

(* Two reservations that a release or a reservation leave apart.           *)
LEMMA EditReservesOK ==
  ASSUME TypeInv, SessionHolds, NEW e \in Edits, EditReserves(e)
  PROVE  SessionKept
<1> DEFINE c == turns[s.turn]
           res == [id |-> e, kind |-> "edit"]
<1>1. edits'[e].at = "reserved" /\ \A f \in Edits \ {e} : edits'[f] = edits[f]
  BY EditFields DEF EditReserves
<1>2. edits[e].at = "checked" /\ e \in Editors /\ s.life # "disposed"
  BY EditHeld DEF EditReserves, EditHolds, SessionHolds, SessionOK, TurnsPart,
                  Here, Editors
<1>3. /\ s' = Reserve(s, e, "edit").s
      /\ UNCHANGED <<turns, sends, stop, mutations>>
  BY DEF EditReserves
<1>4. /\ s'.turn = s.turn /\ s'.phase = s.phase /\ s'.life = s.life
      /\ s'.op = s.op /\ s'.reservations = s.reservations \cup {res}
  BY <1>2, <1>3, Typed DEF Reserve, Alive, Result, CoordinatorState
<1>5. TurnsPart(s', turns) /\ SendsPart(s', turns, sends)
      /\ StopPart(s', turns, stop)
  BY <1>4 DEF SessionHolds, SessionOK, TurnsPart, Here, Sole, Run, SendsPart,
              Settled, StopPart
<1>6. EditsPart(s', turns, edits')
  <2>1. \A f \in Edits : EditHolds(s', c, f, edits'[f])
    <3> SUFFICES ASSUME NEW f \in Edits PROVE EditHolds(s', c, f, edits'[f])
      OBVIOUS
    <3>1. CASE f = e
      BY <1>1, <1>2, <1>4, <3>1 DEF EditHolds, Holding, Editors
    <3>2. CASE f # e
      <4>1. EditHolds(s, c, f, edits[f])
        BY EditHeld
      <4> QED BY <1>1, <1>4, <3>2, <4>1 DEF EditHolds, Settled
    <3> QED BY <3>1, <3>2
  <2>2. EditTurns(turns, edits')
    BY <1>1, <1>2 DEF EditTurns, SessionHolds, SessionOK, EditsPart
  <2>3. \A r \in s'.reservations : r.kind = "edit" => r.id \in Editors
    BY <1>2, <1>4 DEF SessionHolds, SessionOK, EditsPart
  <2> QED BY <1>4, <2>1, <2>2, <2>3 DEF EditsPart
<1>7. MutationsPart(s', sends, edits', mutations)
  <2>1. CallsAway(sends, edits) => FALSE
    BY <1>2 DEF CallsAway
  <2>2. \A m \in Mutations : mutations[m] # "mutating"
    BY <2>1 DEF SessionHolds, SessionOK, MutationsPart
  <2>3. \A r \in s'.reservations : r.kind = "admission" => r \in s.reservations
    BY <1>4
  <2> QED BY <2>2, <2>3 DEF SessionHolds, SessionOK, MutationsPart
<1> QED BY <1>3, <1>5, <1>6, <1>7 DEF SessionOK, SessionKept

(* What a release changes, and what it cannot.                             *)
LEMMA ReleaseIs ==
  ASSUME NEW st \in CoordinatorState, st.life # "disposed", NEW id, NEW kind
  PROVE  LET r == Release(st, id, kind)
         IN /\ r.s \in CoordinatorState /\ r.s.turn = st.turn
            /\ r.s.phase = st.phase /\ r.s.life = st.life /\ r.s.op = st.op
            /\ r.s.reservations
                 = st.reservations \ {[id |-> id, kind |-> kind]}
            /\ ~PublishesIdle(r.cmds)
<1> DEFINE r == Release(st, id, kind)
<1>1. r.s \in CoordinatorState
  BY ReleaseRegular DEF Regular
<1>2. /\ r.s.turn = st.turn /\ r.s.phase = st.phase /\ r.s.life = st.life
      /\ r.s.op = st.op
      /\ r.s.reservations = st.reservations \ {[id |-> id, kind |-> kind]}
  BY DEF Release, Alive, Ignored, Result, CoordinatorState
<1>3. r.cmds = << >> \/ r.cmds = << Do("drain", st.turn) >>
  BY DEF Release, Alive, Ignored, Result
<1>4. ~PublishesIdle(r.cmds)
  BY <1>3 DEF PublishesIdle, Do
<1> QED BY <1>1, <1>2, <1>4

LEMMA EditGoes ==
  ASSUME NEW st, NEW tt, NEW sd, NEW ed, NEW sp, NEW mu,
         SessionOK(st, tt, sd, ed, sp, mu),
         NEW e, e \in Edits => ed[e].at \notin Holding,
         NEW st2, st2.turn = st.turn, st2.phase = st.phase,
         st2.life = st.life, st2.op = st.op,
         st2.reservations = st.reservations \ {[id |-> e, kind |-> "edit"]}
  PROVE  SessionOK(st2, tt, sd, ed, sp, mu)
<1> DEFINE res == [id |-> e, kind |-> "edit"]
           c == tt[st.turn]
<1>2. /\ st2.turn = st.turn /\ st2.phase = st.phase /\ st2.life = st.life
      /\ st2.op = st.op /\ st2.reservations = st.reservations \ {res}
  OBVIOUS
<1>3. TurnsPart(st2, tt) /\ SendsPart(st2, tt, sd) /\ StopPart(st2, tt, sp)
  BY <1>2 DEF SessionOK, TurnsPart, Here, Sole, Run, SendsPart, Settled,
              StopPart
<1>4. EditsPart(st2, tt, ed)
  <2>1. \A f \in Edits : EditHolds(st2, c, f, ed[f])
    <3> SUFFICES ASSUME NEW f \in Edits PROVE EditHolds(st2, c, f, ed[f])
      OBVIOUS
    <3>1. EditHolds(st, c, f, ed[f])
      BY DEF SessionOK, EditsPart
    <3>2. ed[f].at \in Holding => [id |-> f, kind |-> "edit"] # res
      OBVIOUS
    <3> HIDE DEF res
    <3> QED BY <1>2, <3>1, <3>2 DEF EditHolds, Settled
  <2> QED BY <1>2, <2>1 DEF SessionOK, EditsPart
<1>5. MutationsPart(st2, sd, ed, mu)
  <2>1. \A m : [id |-> m, kind |-> "admission"] # res
    OBVIOUS
  <2> HIDE DEF res
  <2> QED BY <1>2, <2>1 DEF SessionOK, MutationsPart
<1> QED BY <1>3, <1>4, <1>5 DEF SessionOK

LEMMA ReleasesEdit ==
  ASSUME NEW st \in CoordinatorState, NEW tt, NEW sd, NEW ed, NEW sp, NEW mu,
         SessionOK(st, tt, sd, ed, sp, mu),
         NEW e, e \in Edits => ed[e].at \notin Holding,
         NEW st2, st2 = Release(st, e, "edit").s
  PROVE  SessionOK(st2, tt, sd, ed, sp, mu)
<1>1. st.life # "disposed"
  BY DEF SessionOK, TurnsPart, Here
<1>2. /\ st2.turn = st.turn /\ st2.phase = st.phase /\ st2.life = st.life
      /\ st2.op = st.op
      /\ st2.reservations = st.reservations \ {[id |-> e, kind |-> "edit"]}
  BY <1>1, ReleaseIs
<1> QED BY <1>2, EditGoes

LEMMA EditEndsOK ==
  ASSUME TypeInv, SessionHolds, NEW e \in Edits,
         edits[e].at \notin {"leaving", "off", "done"}, EditEnds(e)
  PROVE  SessionKept
<1> DEFINE ed == EditIs(e, "done")
           r == Release(s, e, "edit")
<1>1. ed[e].at = "done" /\ \A f \in Edits \ {e} : ed[f] = edits[f]
  BY EditFields
<1>2. ed \in [Edits -> EditRec(issued)]
  BY Typed, EditIsType DEF EditStates
<1>3. PICK go \in {"none", "idle"} :
         ContinueWith(r, turns, ed, queue, go, StopInProgress)
  BY DEF EditEnds, Continue, IfIdle, IfWoken
<1>4. EditHolds(s, turns[s.turn], e, ed[e])
  BY <1>1, EditHeld DEF EditHolds, Holding
<1> HIDE DEF ed
<1>5. SessionOK(s, turns, sends, ed, stop, mutations)
  BY <1>1, <1>4, EditMoves
<1>6. e \in Edits => ed[e].at \notin Holding
  BY <1>1 DEF Holding
<1>7. SessionOK(r.s, turns, sends, ed, stop, mutations)
  BY <1>5, <1>6, Typed, ReleasesEdit
<1>8. r.s \in CoordinatorState /\ r.s.turn = s.turn /\ ~PublishesIdle(r.cmds)
  BY Typed, ReleaseIs DEF SessionHolds, SessionOK, TurnsPart, Here
<1> HIDE DEF r
<1>9. issued \in Nat /\ r.s.turn \in Turns /\ turns \in [Turns -> Turn]
      /\ sends \in [Sends -> SendRec(issued)]
  BY <1>8, Typed
<1>10. SessionOK(s', turns', sends, edits', stop, mutations)
  BY <1>2, <1>3, <1>7, <1>8, <1>9, Continues
<1> QED BY <1>10 DEF SessionKept, EditEnds

LEMMA EditSettlesOK ==
  ASSUME TypeInv, SessionHolds, NEW e \in Edits, EditSettles(e)
  PROVE  SessionKept
<1>1. edits[e].at = "settled"
  BY DEF EditSettles
<1>2. CASE MayEdit(e)
  <2> DEFINE r == [edits[e] EXCEPT !.at = "truncating", !.expected = s.turn]
  <2>0. r.at = "truncating" /\ edits' = [edits EXCEPT ![e] = r]
    BY <1>2, Typed DEF EditSettles, EditRec
  <2> HIDE DEF r
  <2>1. edits'[e].at = "truncating"
        /\ \A f \in Edits \ {e} : edits'[f] = edits[f]
    BY <2>0, Typed
  <2>2. s.life = "open"
    BY <1>2 DEF MayEdit
  <2>3. EditHolds(s, turns[s.turn], e, edits'[e])
    BY <1>1, <2>1, <2>2, EditHeld DEF EditHolds, Holding, Settled
  <2>4. SessionOK(s, turns, sends, edits', stop, mutations)
    BY <1>1, <2>1, <2>3, EditMoves
  <2> QED BY <1>2, <2>4 DEF EditSettles, SessionKept
<1>3. CASE ~MayEdit(e)
  BY <1>1, <1>3, EditEndsOK DEF EditSettles
<1> QED BY <1>2, <1>3

LEMMA EditReturnsOK ==
  ASSUME TypeInv, SessionHolds, NEW e \in Edits, EditReturns(e)
  PROVE  SessionKept
<1> DEFINE ed == EditIs(e, "done")
<1>1. ed[e].at = "done" /\ \A f \in Edits \ {e} : ed[f] = edits[f]
  BY EditFields
<1>2. ed \in [Edits -> EditRec(issued)]
  BY Typed, EditIsType DEF EditStates
<1>3. PICK go \in {"none", "idle"} :
         ContinueWith(Ignored(s), turns, ed, queue, go, StopInProgress)
  BY DEF EditReturns, Continue, IfIdle
<1>4. EditHolds(s, turns[s.turn], e, ed[e])
  BY <1>1, EditHeld DEF EditHolds, Holding, EditReturns
<1>5. \A t \in Turns : turns[t].editId # e
  BY CallsNat
     DEF EditReturns, SessionHolds, SessionOK, EditsPart, EditTurns, None
<1> HIDE DEF ed
<1>6. SessionOK(s, turns, sends, ed, stop, mutations)
  BY <1>1, <1>4, <1>5, EditMoves
<1>7. SessionOK(s', turns', sends, edits', stop, mutations)
  BY <1>2, <1>3, <1>6, SelfState, Typed, Continues
<1> QED BY <1>7 DEF SessionKept, EditReturns

-----------------------------------------------------------------------------
(* Stops, interruptions and preemptions.                                   *)

(* A stop changes no more of a turn than its two marks.                    *)
Marked(r0, r) ==
  /\ r.startup = r0.startup /\ r.aborted = r0.aborted /\ r.engine = r0.engine
  /\ r.outcome = r0.outcome /\ r.policy = r0.policy
  /\ r.captured = r0.captured /\ r.editId = r0.editId /\ (r0.cut => r.cut)

LEMMA MarkedTurns ==
  ASSUME NEW st, st.turn \in Turns, NEW tt, NEW t2,
         \A t \in Turns : Marked(tt[t], t2[t]),
         NEW sd, NEW ed, NEW mu, TurnsPart(st, tt), SendsPart(st, tt, sd),
         EditsPart(st, tt, ed), MutationsPart(st, sd, ed, mu)
  PROVE  /\ TurnsPart(st, t2) /\ SendsPart(st, t2, sd)
         /\ EditsPart(st, t2, ed) /\ MutationsPart(st, sd, ed, mu)
         /\ \A sp : StopPart(st, tt, sp) => StopPart(st, t2, sp)
<1> DEFINE c0 == tt[st.turn]
           c == t2[st.turn]
<1>1. Marked(c0, c)
  OBVIOUS
<1>2. Here(st, c) /\ (~Soft => Sole(st, c)) /\ (RecoversAlone => Run(st, c))
  <2>1. /\ Here(st, c0)
        /\ ~Soft => Sole(st, c0)
        /\ RecoversAlone => Run(st, c0)
    BY DEF TurnsPart
  <2>2. Here(st, c)
    BY <1>1, <2>1 DEF Here, Marked, Quiet, Pending, Waits
  <2>3. ~Soft => Sole(st, c)
    BY <1>1, <2>1 DEF Sole, Marked, Engaged
  <2>4. RecoversAlone => Run(st, c)
    BY <1>1, <2>1 DEF Run, Marked, Engaged
  <2> QED BY <2>2, <2>3, <2>4
<1>3. \A t \in Turns : Coherent(t, t2[t]) /\ (t # st.turn => Past(t2[t]))
  <2> SUFFICES ASSUME NEW t \in Turns
               PROVE  Coherent(t, t2[t]) /\ (t # st.turn => Past(t2[t]))
    OBVIOUS
  <2>1. Marked(tt[t], t2[t])
    OBVIOUS
  <2>2. Coherent(t, tt[t]) /\ (t # st.turn => Past(tt[t]))
    BY DEF TurnsPart
  <2>3. Coherent(t, t2[t])
    BY <2>1, <2>2 DEF Coherent, Marked
  <2>4. t # st.turn => Past(t2[t])
    BY <2>1, <2>2 DEF Past, Marked, Waits
  <2> QED BY <2>3, <2>4
<1>4. Calmly(st, tt, st, t2)
  <2>1. Quiet(c0) => Quiet(c)
    BY <1>1 DEF Marked, Quiet, Pending, Waits
  <2> QED BY <2>1 DEF Calmly, Marked
<1>5. \A sp : StopPart(st, tt, sp) => StopPart(st, t2, sp)
  BY DEF StopPart, Marked
<1>6. SendsPart(st, t2, sd) /\ EditsPart(st, t2, ed)
  BY <1>4, Calm
<1> QED BY <1>2, <1>3, <1>5, <1>6 DEF TurnsPart

LEMMA CutAllMarks ==
  ASSUME NEW tt \in [Turns -> Turn],
         NEW t2, t2 = CutAll(tt)
  PROVE  /\ t2 \in [Turns -> Turn]
         /\ \A t \in Turns :
              /\ Marked(tt[t], t2[t])
              /\ Waiting(t) \/ turns[t].engine = "live" => t2[t].cut
<1> SUFFICES ASSUME NEW t \in Turns
             PROVE  /\ t2[t] \in Turn /\ Marked(tt[t], t2[t])
                    /\ Waiting(t) \/ turns[t].engine = "live" => t2[t].cut
  BY DEF CutAll
<1>1. tt[t] \in Turn
  OBVIOUS
<1> DEFINE r == [tt[t] EXCEPT !.cut = TRUE]
<1>2. r \in Turn
  BY <1>1, FieldTypes
<1>3. Marked(tt[t], r) /\ r.cut
  BY <1>1 DEF Turn, Marked
<1>4. t2[t] = IF Waiting(t) \/ turns[t].engine = "live" THEN r ELSE tt[t]
  BY DEF CutAll
<1>5. Marked(tt[t], tt[t])
  BY DEF Marked
<1> HIDE DEF r
<1> QED BY <1>1, <1>2, <1>3, <1>4, <1>5

LEMMA EditInterruptsOK ==
  ASSUME TypeInv, SessionHolds, NEW e \in Edits, EditInterrupts(e)
  PROVE  SessionKept
<1>1. edits[e].at = "reserved" /\ UNCHANGED <<s, sends, stop, mutations>>
  BY DEF EditInterrupts
<1>2. CASE s.phase \in {"idle", "completing"}
  <2> DEFINE at == IF s.phase = "idle" THEN "settled" ELSE "waiting"
  <2>1. edits' = EditIs(e, at) /\ turns' = turns
    BY <1>2 DEF EditInterrupts
  <2>2. edits'[e].at = at /\ \A f \in Edits \ {e} : edits'[f] = edits[f]
    BY <2>1, EditFields
  <2>3. EditHolds(s, turns[s.turn], e, edits'[e])
    BY <1>1, <2>2, EditHeld, SessionIdle DEF EditHolds, Holding
  <2>4. SessionOK(s, turns, sends, edits', stop, mutations)
    BY <1>1, <2>2, <2>3, EditMoves
  <2> QED BY <1>1, <2>1, <2>4 DEF SessionKept
<1>3. CASE s.phase \notin {"idle", "completing"}
  <2>1. /\ edits' = [edits EXCEPT ![e].at = "stopping", ![e].op = RunningOp]
        /\ turns' = CutAll(turns)
    BY <1>3 DEF EditInterrupts
  <2>2. edits'[e].at = "stopping" /\ \A f \in Edits \ {e} : edits'[f] = edits[f]
    BY <2>1, Typed DEF EditRec
  <2>3. EditHolds(s, turns[s.turn], e, edits'[e])
    BY <1>1, <2>2, EditHeld DEF EditHolds, Holding
  <2>4. SessionOK(s, turns, sends, edits', stop, mutations)
    BY <1>1, <2>2, <2>3, EditMoves
  <2>5. \A t \in Turns : Marked(turns[t], turns'[t])
    BY <2>1, Typed, CutAllMarks
  <2>6. SessionOK(s, turns', sends, edits', stop, mutations)
    BY <2>4, <2>5, Typed, MarkedTurns DEF SessionOK
  <2> QED BY <1>1, <2>6 DEF SessionKept
<1> QED BY <1>2, <1>3

LEMMA StopBeginsOK ==
  ASSUME TypeInv, SessionHolds, NEW how, StopBegins(how)
  PROVE  SessionKept
<1> DEFINE old(t) == turns[t].startup \in {"reserved", "prepared", "starting"}
           tt == [t \in Turns |-> IF old(t)
                    THEN [turns[t] EXCEPT !.stale = TRUE] ELSE turns[t]]
<1>1. tt \in [Turns -> Turn] /\ \A t \in Turns : Marked(turns[t], tt[t])
  <2> SUFFICES ASSUME NEW t \in Turns
               PROVE  tt[t] \in Turn /\ Marked(turns[t], tt[t])
    OBVIOUS
  <2>1. turns[t] \in Turn
    BY Typed
  <2> DEFINE r == [turns[t] EXCEPT !.stale = TRUE]
  <2>2. r \in Turn
    BY <2>1, FieldTypes
  <2>3. Marked(turns[t], r) /\ Marked(turns[t], turns[t])
    BY <2>1 DEF Turn, Marked
  <2>4. tt[t] = IF old(t) THEN r ELSE turns[t]
    OBVIOUS
  <2> HIDE DEF r, old, tt
  <2> QED BY <2>1, <2>2, <2>3, <2>4
<1>2. /\ turns' = CutAll(tt) /\ UNCHANGED <<s, mutations>>
      /\ stop' = [at |-> "stopping", how |-> how, op |-> RunningOp]
      /\ how \in Paths
  BY DEF StopBegins
<1> HIDE DEF tt
<1>3. \A t \in Turns : /\ Marked(tt[t], turns'[t])
                       /\ turns[t].engine = "live" => turns'[t].cut
  BY <1>1, <1>2, CutAllMarks
<1>4. \A t \in Turns : Marked(turns[t], turns'[t])
  BY <1>1, <1>3 DEF Marked
<1>5. \A x \in Sends : /\ sends'[x].at = sends[x].at
                       /\ sends'[x].at = "direct" => sends'[x].expected = None
  BY Typed DEF StopBegins, SendRec
<1>6. \A e \in Edits : edits'[e].at = edits[e].at
                       /\ edits'[e].turn = edits[e].turn
  BY Typed DEF StopBegins, EditRec
<1>7. SendsPart(s, turns, sends')
  BY <1>5, Typed DEF SendsPart
<1>8. EditsPart(s, turns, edits')
  BY <1>6 DEF EditsPart, EditHolds, EditTurns, SessionHolds, SessionOK
<1>9. MutationsPart(s, sends', edits', mutations)
  BY <1>5, <1>6 DEF MutationsPart, CallsAway, SessionHolds, SessionOK
<1>10. TurnsPart(s, turns)
  BY DEF SessionHolds, SessionOK
<1>11. /\ TurnsPart(s, turns') /\ SendsPart(s, turns', sends')
       /\ EditsPart(s, turns', edits')
       /\ MutationsPart(s, sends', edits', mutations)
  BY <1>4, <1>7, <1>8, <1>9, <1>10, Typed, MarkedTurns
<1>12. StopPart(s, turns', stop')
  <2>1. \A t \in Turns : turns'[t].engine = "live" => turns'[t].cut
    BY <1>3, <1>4 DEF Marked
  <2>2. s.op.id # None /\ turns'[s.turn].engine # "off"
          /\ turns'[s.turn].policy # "done" => RunningOp = s.op.id
    <3>1. Here(s, turns[s.turn]) /\ Marked(turns[s.turn], turns'[s.turn])
      BY <1>4, <1>10, Typed DEF TurnsPart
    <3> QED BY <3>1, Typed DEF Here, Marked, RunningOp
  <2> QED BY <1>2, <2>1, <2>2 DEF StopPart
<1> QED BY <1>2, <1>11, <1>12 DEF SessionOK, SessionKept

(* Waiting edits find that the session is idle, or is going down.          *)
EditsSettle(ed, ed2) ==
  \A e \in Edits : \/ ed2[e] = ed[e]
                  \/ /\ ed[e].at \in {"waiting", "stopping"}
                     /\ ed2[e].at \in {"waiting", "settled"}

EditsHold(st, c, ed) == \A e \in Edits : EditHolds(st, c, e, ed[e])

LEMMA AllSettled ==
  ASSUME NEW ed, NEW ed2, EditsSettle(ed, ed2), NEW st, NEW c, NEW st2, NEW c2,
         st2.reservations = st.reservations,
         st2.life = "open" => Settled(st2, c2),
         ~Soft /\ st.phase = "idle" => st2.phase = "idle",
         EditsHold(st, c, ed)
  PROVE  EditsHold(st2, c2, ed2)
<1> SUFFICES ASSUME NEW e \in Edits PROVE EditHolds(st2, c2, e, ed2[e])
  BY DEF EditsHold
<1>1. EditHolds(st, c, e, ed[e])
  BY DEF EditsHold
<1>2. CASE ed2[e] = ed[e]
  BY <1>1, <1>2 DEF EditHolds
<1>3. CASE ed[e].at \in {"waiting", "stopping"}
           /\ ed2[e].at \in {"waiting", "settled"}
  BY <1>1, <1>3 DEF EditHolds, Holding
<1> QED BY <1>2, <1>3 DEF EditsSettle

LEMMA PreemptIs ==
  ASSUME NEW st \in CoordinatorState, st.life # "disposed",
         st.phase = "preparing"
  PROVE  LET p == Preempt(st, st.turn)
         IN /\ p.s.turn = st.turn /\ p.s.phase = "idle" /\ p.s.life = st.life
            /\ p.s.op.id = None /\ p.s.reservations = st.reservations
BY DEF Preempt, Alive, Result, CoordinatorState, NoOperation, NewOperation

LEMMA EditPreemptsOK ==
  ASSUME TypeInv, SessionHolds, NEW e \in Edits, EditPreempts(e)
  PROVE  SessionKept
<1> DEFINE t == s.turn
           c == turns[t]
           preempts == s.phase = "preparing" /\ Controlled(t)
           at == IF preempts \/ s.phase = "idle" THEN "settled" ELSE "waiting"
           cmds == IF preempts THEN Preempt(s, t).cmds ELSE << >>
           ed == EditIs(e, at)
<1>1. /\ edits[e].at = "stopping" /\ UNCHANGED <<sends, stop, mutations>>
      /\ edits' = Released(ed, cmds)
  BY DEF EditPreempts
<1>2. /\ ed[e].at = at /\ ed[e].turn = edits[e].turn
      /\ \A f \in Edits \ {e} : ed[f] = edits[f]
  BY EditFields
<1>3. ed \in [Edits -> EditRec(issued)]
  BY Typed, EditIsType DEF EditStates
<1>4. s.life # "disposed"
  BY DEF SessionHolds, SessionOK, TurnsPart, Here
<1>5. CASE ~preempts
  <2>1. UNCHANGED <<s, turns>>
    BY <1>5 DEF EditPreempts
  <2>2. EditHolds(s, turns[s.turn], e, ed[e])
    BY <1>1, <1>2, <1>5, EditHeld, SessionIdle DEF EditHolds, Holding
  <2> HIDE DEF ed
  <2>3. SessionOK(s, turns, sends, ed, stop, mutations)
    BY <1>1, <1>2, <2>2, EditMoves
  <2>4. edits' = ed
    <3>1. ~PublishesIdle(cmds)
      BY <1>5 DEF PublishesIdle
    <3> QED BY <1>1, <1>3, <3>1 DEF Released
  <2> QED BY <1>1, <2>1, <2>3, <2>4 DEF SessionKept
<1>6. CASE preempts
  <2> DEFINE r == [c EXCEPT !.aborted = TRUE]
  <2>1. s' = Preempt(s, t).s /\ turns' = [turns EXCEPT ![t] = r]
    BY <1>6, Typed DEF EditPreempts, Preempted
  <2>2. /\ s'.turn = t /\ s'.phase = "idle" /\ s'.life = s.life
        /\ s'.op.id = None /\ s'.reservations = s.reservations
    BY <1>4, <1>6, <2>1, Typed, PreemptIs
  <2>3. /\ r.startup = c.startup /\ r.aborted /\ r.engine = c.engine
        /\ r.outcome = c.outcome /\ r.policy = c.policy
        /\ r.captured = c.captured /\ r.editId = c.editId /\ r.cut = c.cut
    BY Typed DEF Turn
  <2> HIDE DEF r
  <2>4. TurnsPart(s, turns)
    BY DEF SessionHolds, SessionOK
  <2>5. c.engine = "off" /\ Coherent(t, c) /\ (~Soft => c.policy # "entered")
    BY <1>6, <2>4, Typed DEF TurnsPart, Here, Sole, Engaged
  <2>6. Coherent(t, r) /\ Quiet(r)
    BY <2>3, <2>5 DEF Coherent, Quiet
  <2>7. TurnsPart(s', turns')
    <3>1. Here(s', r)
      BY <1>4, <2>2, <2>3, <2>5, <2>6 DEF Here
    <3>2. ~Soft => Sole(s', r)
      BY <2>2, <2>3, <2>5 DEF Sole
    <3>3. Run(s', r)
      BY <2>2 DEF Run
    <3> QED BY <2>1, <2>2, <2>4, <2>6, <3>1, <3>2, <3>3, Typed, OneTurn
  <2>8. turns'[t] = r /\ \A u \in Turns \ {t} : turns'[u] = turns[u]
    BY <2>1, Typed
  <2>9. Settled(s', turns'[s'.turn])
    BY <2>2, <2>6, <2>8 DEF Settled
  <2>10. SendsPart(s', turns', sends)
    BY <2>9 DEF SendsPart
  <2>11. EditsSettle(edits, edits')
    <3>1. \A f \in Edits : \/ edits'[f] = ed[f]
                           \/ ed[f].at = "waiting" /\ edits'[f].at = "settled"
      BY <1>1, <1>3 DEF Released, EditRec
    <3> QED BY <1>1, <1>2, <3>1 DEF EditsSettle
  <2>12. EditsPart(s', turns', edits')
    <3>1. EditsHold(s, c, edits)
      BY DEF SessionHolds, SessionOK, EditsPart, EditsHold
    <3>2. EditsHold(s', turns'[s'.turn], edits')
      BY <2>2, <2>9, <2>11, <3>1, Typed, AllSettled
    <3>3. EditTurns(turns', edits')
      <4>1. \A f \in Edits : edits[f].at = "leaving" => edits'[f] = edits[f]
        BY <2>11 DEF EditsSettle
      <4>2. \A u \in Turns : turns'[u].editId = turns[u].editId
                             /\ turns'[u].startup = turns[u].startup
        BY <2>3, <2>8
      <4> QED BY <4>1, <4>2 DEF EditTurns, SessionHolds, SessionOK, EditsPart
    <3> QED BY <2>2, <3>2, <3>3
            DEF EditsPart, EditsHold, SessionHolds, SessionOK
  <2>13. StopPart(s', turns', stop)
    BY <2>2, <2>3, <2>5, <2>8 DEF StopPart, SessionHolds, SessionOK
  <2>14. MutationsPart(s', sends, edits', mutations)
    <3>1. ~CallsAway(sends, edits)
      BY <1>1 DEF CallsAway
    <3> QED BY <2>2, <3>1 DEF MutationsPart, SessionHolds, SessionOK
  <2> QED BY <1>1, <2>7, <2>10, <2>12, <2>13, <2>14 DEF SessionOK, SessionKept
<1> QED BY <1>5, <1>6

LEMMA BeginShutdownOK ==
  ASSUME TypeInv, SessionHolds, BeginShutdown PROVE SessionKept
<1> DEFINE c == turns[s.turn]
<1>1. /\ s.life = "open" /\ s' = Shutdown(s).s
      /\ UNCHANGED <<turns, sends, stop, mutations>>
  BY DEF BeginShutdown
<1>2. /\ s'.turn = s.turn /\ s'.phase = s.phase /\ s'.op = s.op
      /\ s'.life = "shutting-down" /\ s'.reservations = s.reservations
  BY <1>1, Typed DEF Shutdown, Alive, Result, CoordinatorState
<1>3. EditsSettle(edits, edits')
  BY Typed DEF BeginShutdown, EditRec, EditsSettle
<1>4. TurnsPart(s', turns) /\ SendsPart(s', turns, sends)
      /\ StopPart(s', turns, stop)
  BY <1>2 DEF SessionHolds, SessionOK, TurnsPart, Here, Sole, Run, SendsPart,
              Settled, StopPart
<1>5. EditsPart(s', turns, edits')
  <2>1. EditsHold(s, c, edits)
    BY DEF SessionHolds, SessionOK, EditsPart, EditsHold
  <2>2. EditsHold(s', c, edits')
    BY <1>2, <1>3, <2>1, Typed, AllSettled
  <2>3. EditTurns(turns, edits')
    BY <1>3 DEF EditsSettle, EditTurns, SessionHolds, SessionOK, EditsPart
  <2> QED BY <1>2, <2>2, <2>3 DEF EditsPart, EditsHold, SessionHolds, SessionOK
<1>6. MutationsPart(s', sends, edits', mutations)
  <2>1. CallsAway(sends, edits) => CallsAway(sends, edits')
    BY <1>3 DEF CallsAway, EditsSettle
  <2> QED BY <1>2, <2>1 DEF MutationsPart, SessionHolds, SessionOK
<1> QED BY <1>1, <1>4, <1>5, <1>6 DEF SessionOK, SessionKept

(* The stop of a send-now has waited for the stream and its policy.        *)
LEMMA StoppedPast ==
  ASSUME TypeInv, SessionHolds, NoMixedSendNow, stop.at = "stopping",
         stop.how = "send-now", Stopped(stop.op), s.phase # "preparing"
  PROVE  AllPast(turns)
<1> DEFINE c == turns[s.turn]
<1>1. ~Soft
  BY DEF NoMixedSendNow, SessionHolds, SessionOK, StopPart
<1>2. Coherent(s.turn, c) /\ Here(s, c) /\ Sole(s, c)
  BY <1>1, Typed DEF SessionHolds, SessionOK, TurnsPart
<1>3. c.engine # "live"
  <2>1. \A t \in Turns : turns[t].engine = "live" => turns[t].cut
    BY DEF SessionHolds, SessionOK, StopPart
  <2> QED BY <2>1, Typed DEF Stopped
<1>4. ~(Waits(c) /\ ~c.aborted)
  BY <1>2 DEF Sole, Waits
<1>5. c.policy # "entered"
  <2> SUFFICES ASSUME c.policy = "entered" PROVE FALSE
    OBVIOUS
  <2>1. s.op.id = s.turn /\ s.op.id # None
    BY <1>2, Typed DEF Sole
  <2>2. c.engine # "off"
    <3>1. c.engine = "off" => c.outcome \in {"none", "cancelled", "failed"}
      BY <1>2 DEF Coherent
    <3> QED BY <1>2, <3>1 DEF Coherent
  <2>3. stop.op = s.op.id
    BY <1>1, <2>1, <2>2 DEF SessionHolds, SessionOK, StopPart
  <2> QED BY <2>1, <2>3 DEF Stopped
<1>6. Past(c)
  BY <1>3, <1>4, <1>5 DEF Past
<1> QED BY <1>6 DEF AllPast, SessionHolds, SessionOK, TurnsPart

LEMMA StopEndsOK ==
  ASSUME TypeInv, SessionHolds, NoMixedSendNow, StopEnds PROVE SessionKept
<1>1. /\ stop.at = "stopping" /\ Stopped(stop.op)
      /\ stop' = [stop EXCEPT !.at = "done"]
      /\ UNCHANGED <<sends, mutations>>
  BY DEF StopEnds
<1>2. stop'.at = "done"
  BY <1>1 DEF TypeInv, StopRec
<1>3. \A st, tt : StopPart(st, tt, stop')
  BY <1>2 DEF StopPart
<1>4. CASE stop.how # "send-now"
  BY <1>1, <1>3, <1>4 DEF StopEnds, SessionHolds, SessionOK, SessionKept
<1>5. CASE stop.how = "send-now"
  <2> DEFINE r == Ignored(s)
  <2>1. ContinueWith(r, turns, edits, queue, "send-immediately", FALSE)
    BY <1>5 DEF StopEnds
  <2>2. r.s = s /\ ~PublishesIdle(r.cmds)
    BY SelfState
  <2>3. SessionOK(s, turns, sends, edits, stop', mutations)
    BY <1>3 DEF SessionHolds, SessionOK
  <2> HIDE DEF r
  <2>4. CASE Stays(r, turns, queue)
    <3>1. s' = s /\ turns' = turns
      BY <2>2, <2>4 DEF Stays
    <3>2. edits' = Released(edits, r.cmds)
      BY <2>1, ContinueCases
    <3>3. edits' = edits
      BY <2>2, <3>2, Typed DEF Released
    <3> QED BY <1>1, <2>3, <3>1, <3>3 DEF SessionKept
  <2>5. CASE Drains(r, turns, queue, "send-immediately", FALSE)
    <3>1. s.phase # "preparing"
      BY <2>2, <2>5 DEF Drains, Dispatches, Admits, Claimable, Deferred, Fresh,
                        QueueIntents
    <3>2. AllPast(turns)
      BY <1>1, <1>5, <3>1, StoppedPast
    <3>3. /\ EditsPart(r.s, turns, edits) /\ StopPart(r.s, turns, stop')
          /\ MutationsPart(r.s, sends, edits, mutations)
      BY <1>3, <2>2 DEF SessionHolds, SessionOK
    <3>4. SessionOK(s', turns', sends, edits', stop', mutations)
      BY <2>1, <2>2, <2>5, <3>2, <3>3, Typed, DrainClaims
    <3> QED BY <1>1, <3>4 DEF SessionKept
  <2> QED BY <2>1, <2>4, <2>5, ContinueCases
<1> QED BY <1>4, <1>5

LEMMA SoftSendNowOK ==
  ASSUME TypeInv, SessionHolds, SoftSendNow PROVE SessionKept
<1> DEFINE r == Ignored(s)
           tt == CutAll(turns)
<1>1. /\ Soft /\ UNCHANGED <<sends, stop, mutations>>
      /\ ContinueWith(r, tt, edits, queue, "send-immediately", StopInProgress)
  BY DEF SoftSendNow, Continue, Soft
<1>2. r.s = s /\ ~PublishesIdle(r.cmds)
  BY SelfState
<1>3. /\ tt \in [Turns -> Turn]
      /\ \A t \in Turns : /\ Marked(turns[t], tt[t])
                          /\ Waiting(t) \/ turns[t].engine = "live" => tt[t].cut
  BY Typed, CutAllMarks
<1> HIDE DEF r, tt
<1>4. SessionOK(s, tt, sends, edits, stop, mutations)
  BY <1>3, Typed, MarkedTurns DEF SessionHolds, SessionOK
<1>5. CASE Stays(r, tt, queue)
  <2>1. s' = s /\ turns' = tt
    BY <1>2, <1>5 DEF Stays
  <2>2. edits' = Released(edits, r.cmds)
    BY <1>1, ContinueCases
  <2>3. edits' = edits
    BY <1>2, <2>2, Typed DEF Released
  <2> QED BY <1>1, <1>4, <2>1, <2>3 DEF SessionKept
<1>6. CASE Drains(r, tt, queue, "send-immediately", StopInProgress)
  <2>1. AllPast(tt)
    <3> SUFFICES ASSUME NEW t \in Turns PROVE Past(tt[t])
      BY <1>4 DEF AllPast, SessionOK, TurnsPart
    <3> QED BY <1>1, <1>3 DEF Past, Marked, Waits, Waiting
  <2>2. /\ EditsPart(r.s, tt, edits) /\ StopPart(r.s, tt, stop)
        /\ MutationsPart(r.s, sends, edits, mutations)
    BY <1>2, <1>4 DEF SessionOK
  <2>3. SessionOK(s', turns', sends, edits', stop, mutations)
    BY <1>1, <1>2, <1>3, <1>6, <2>1, <2>2, Typed, DrainClaims
  <2> QED BY <1>1, <2>3 DEF SessionKept
<1> QED BY <1>1, <1>5, <1>6, ContinueCases

-----------------------------------------------------------------------------
(* Context mutations.                                                      *)

LEMMA AdmissionGoes ==
  ASSUME TypeInv, SessionHolds, NEW m \in Mutations,
         NEW st2, st2.turn = s.turn, st2.phase = s.phase, st2.life = s.life,
         st2.op = s.op,
         st2.reservations
           = s.reservations \ {[id |-> m, kind |-> "admission"]},
         NEW mu, mu = [mutations EXCEPT ![m] = "done"]
  PROVE  SessionOK(st2, turns, sends, edits, stop, mu)
<1> DEFINE res == [id |-> m, kind |-> "admission"]
           c == turns[s.turn]
<1>1. TurnsPart(st2, turns) /\ SendsPart(st2, turns, sends)
      /\ StopPart(st2, turns, stop)
  BY DEF SessionHolds, SessionOK, TurnsPart, Here, Sole, Run, SendsPart,
         Settled, StopPart
<1>2. \A e : [id |-> e, kind |-> "edit"] # res
  OBVIOUS
<1>3. EditsPart(st2, turns, edits)
  <2>1. \A e \in Edits : EditHolds(st2, c, e, edits[e])
    <3> SUFFICES ASSUME NEW e \in Edits PROVE EditHolds(st2, c, e, edits[e])
      OBVIOUS
    <3>1. [id |-> e, kind |-> "edit"] \in s.reservations
            => [id |-> e, kind |-> "edit"] \in st2.reservations
      BY <1>2
    <3> QED BY <3>1, EditHeld DEF EditHolds, Settled
  <2> QED BY <2>1 DEF SessionHolds, SessionOK, EditsPart
<1>4. MutationsPart(st2, sends, edits, mu)
  <2>1. mu[m] = "done" /\ \A k \in Mutations \ {m} : mu[k] = mutations[k]
    BY Typed
  <2>2. \A r \in st2.reservations :
           r.kind = "admission" => r.id \in Mutations /\ mu[r.id] = "mutating"
    <3> SUFFICES ASSUME NEW r \in st2.reservations, r.kind = "admission"
                 PROVE  r.id \in Mutations /\ mu[r.id] = "mutating"
      OBVIOUS
    <3>1. r.id \in Mutations /\ mutations[r.id] = "mutating"
      BY DEF SessionHolds, SessionOK, MutationsPart
    <3>2. r \in Reservation /\ r # res
      BY Typed DEF CoordinatorState
    <3>3. r.id # m
      BY <3>2 DEF Reservation
    <3> QED BY <2>1, <3>1, <3>3
  <2>3. \A k \in Mutations :
           mu[k] = "mutating" => [id |-> k, kind |-> "admission"] # res
    BY <2>1
  <2> QED BY <2>1, <2>2, <2>3 DEF SessionHolds, SessionOK, MutationsPart
<1> QED BY <1>1, <1>3, <1>4 DEF SessionOK

LEMMA MutationEndsOK ==
  ASSUME TypeInv, SessionHolds, NEW m \in Mutations, MutationEnds(m)
  PROVE  SessionKept
<1> DEFINE r == Release(s, m, "admission")
<1>1. /\ mutations' = [mutations EXCEPT ![m] = "done"]
      /\ UNCHANGED <<sends, stop>>
  BY DEF MutationEnds
<1>2. PICK go \in {"none", "idle"} :
         ContinueWith(r, turns, edits, queue, go, StopInProgress)
  BY DEF MutationEnds, Continue, IfIdle, IfWoken
<1>3. s.life # "disposed"
  BY DEF SessionHolds, SessionOK, TurnsPart, Here
<1>4. /\ r.s \in CoordinatorState /\ r.s.turn = s.turn
      /\ r.s.phase = s.phase /\ r.s.life = s.life /\ r.s.op = s.op
      /\ r.s.reservations
           = s.reservations \ {[id |-> m, kind |-> "admission"]}
      /\ ~PublishesIdle(r.cmds)
  BY <1>3, Typed, ReleaseIs
<1> HIDE DEF r
<1>5. SessionOK(r.s, turns, sends, edits, stop, mutations')
  BY <1>1, <1>4, AdmissionGoes
<1>6. r.s.turn \in Turns
  BY <1>4, Typed
<1>7. SessionOK(s', turns', sends, edits', stop, mutations')
  BY <1>2, <1>4, <1>5, <1>6, Typed, Continues, SMTT(30)
<1> QED BY <1>1, <1>7 DEF SessionKept

LEMMA MutationBeginsOK ==
  ASSUME TypeInv, SessionHolds, NEW m \in Mutations, MutationBegins(m)
  PROVE  SessionKept
<1> DEFINE res == [id |-> m, kind |-> "admission"]
           held == Reserve(s, m, "admission").s
           r == Release(held, m, "admission")
<1>1. /\ mutations[m] = "off" /\ ~Mutating /\ UNCHANGED <<sends, stop>>
  BY DEF MutationBegins
<1>2. s.life # "disposed"
  BY DEF SessionHolds, SessionOK, TurnsPart, Here
<1>3. /\ held.turn = s.turn /\ held.phase = s.phase /\ held.life = s.life
      /\ held.op = s.op /\ held.reservations = s.reservations \cup {res}
  BY <1>2, Typed DEF Reserve, Alive, Result, CoordinatorState
<1>4. held \in CoordinatorState
  <2>1. m \in Nat /\ "admission" \in ReservationKinds
    BY CallsNat DEF ReservationKinds
  <2> QED BY <2>1, Typed, HoldsOK DEF TypeInv, StOK
<1>5. CASE MutationMayBegin
  <2>1. /\ s' = held /\ mutations' = [mutations EXCEPT ![m] = "mutating"]
        /\ UNCHANGED <<turns, edits>>
    BY <1>5 DEF MutationBegins
  <2>2. s.phase = "idle" /\ CallsAway(sends, edits)
    BY <1>5, SessionAssumption
       DEF MutationMayBegin, Busy, SendInPreflight, Calls, At, CallsAway
  <2> HIDE DEF held
  <2>3. TurnsPart(s', turns) /\ SendsPart(s', turns, sends)
        /\ StopPart(s', turns, stop)
    BY <1>3, <2>1 DEF SessionHolds, SessionOK, TurnsPart, Here, Sole, Run,
                      SendsPart, Settled, StopPart
  <2>4. EditsPart(s', turns, edits)
    <3>1. \A e \in Edits : EditHolds(s', turns[s'.turn], e, edits[e])
      BY <1>3, <2>1, EditHeld DEF EditHolds, Settled
    <3>2. \A q \in s'.reservations : q.kind = "edit" => q \in s.reservations
      BY <1>3, <2>1
    <3> QED BY <3>1, <3>2 DEF SessionHolds, SessionOK, EditsPart
  <2>5. MutationsPart(s', sends, edits, mutations')
    <3>1. mutations'[m] = "mutating"
          /\ \A k \in Mutations \ {m} :
               mutations'[k] = mutations[k] /\ mutations[k] # "mutating"
      BY <1>1, <2>1, Typed DEF Mutating
    <3>2. \A q \in s'.reservations : q.kind = "admission" => q.id = m
      <4>1. \A q \in s.reservations : q.kind # "admission"
        BY <1>1 DEF Mutating, SessionHolds, SessionOK, MutationsPart
      <4> QED BY <1>3, <2>1, <4>1
    <3> QED BY <1>3, <2>1, <2>2, <3>1, <3>2 DEF MutationsPart
  <2> QED BY <1>1, <2>1, <2>3, <2>4, <2>5 DEF SessionOK, SessionKept
<1>6. CASE ~MutationMayBegin
  <2>1. mutations' = [mutations EXCEPT ![m] = "done"]
    BY <1>6 DEF MutationBegins
  <2>2. PICK go \in {"none", "idle"} :
           ContinueWith(r, turns, edits, queue, go, StopInProgress)
    BY <1>6 DEF MutationBegins, Continue, IfIdle, IfWoken
  <2> HIDE DEF held
  <2>3. /\ r.s \in CoordinatorState /\ r.s.turn = held.turn
        /\ r.s.phase = held.phase /\ r.s.life = held.life /\ r.s.op = held.op
        /\ r.s.reservations = held.reservations \ {res}
        /\ ~PublishesIdle(r.cmds)
    BY <1>2, <1>3, <1>4, ReleaseIs
  <2> HIDE DEF r
  <2>4. r.s.reservations = s.reservations \ {res}
    BY <1>3, <2>3
  <2>5. SessionOK(r.s, turns, sends, edits, stop, mutations')
    BY <1>3, <2>1, <2>3, <2>4, AdmissionGoes
  <2>6. r.s.turn \in Turns
    BY <1>3, <2>3, Typed
  <2>7. /\ issued \in Nat /\ turns \in [Turns -> Turn]
        /\ edits \in [Edits -> EditRec(issued)]
        /\ sends \in [Sends -> SendRec(issued)]
    BY Typed
  <2>8. SessionOK(s', turns', sends, edits', stop, mutations')
    BY <2>2, <2>3, <2>5, <2>6, <2>7, Continues
  <2> QED BY <1>1, <2>8 DEF SessionKept
<1> QED BY <1>5, <1>6

-----------------------------------------------------------------------------
(* Steps of a turn that leave the coordinator's state alone: r can do no   *)
(* more than r0.                                                           *)

Weakens(r0, r) ==
  /\ r.aborted = r0.aborted /\ r.engine = r0.engine /\ (r0.cut => r.cut)
  /\ r.editId \in {r0.editId, None}
  /\ r.startup \in {r0.startup, "failing", "delivered"}
       \/ (r0.startup = "reserved" /\ r.startup = "prepared")
  /\ r.startup # r0.startup =>
       r0.startup \in {"reserved", "prepared", "starting"}
  /\ Waits(r) => Waits(r0)
  /\ r0.policy # "off" => r.policy # "off"
  /\ r0.policy = "done" => r.policy = "done"
  /\ r.policy \in Acting \cup {"entered"} =>
       /\ r0.policy \in Acting \cup {"entered"}
       /\ r.policy = "entered" => r0.policy = "entered"
  /\ r.policy = "off" => r0.policy = "off"

LEMMA WeakensParts ==
  ASSUME TypeInv, SessionHolds, NEW t \in Turns, NEW r,
         Weakens(turns[t], r)
  PROVE  LET tt == [turns EXCEPT ![t] = r]
         IN /\ SendsPart(s, tt, sends) /\ EditsPart(s, tt, edits)
            /\ StopPart(s, tt, stop)
            /\ MutationsPart(s, sends, edits, mutations)
<1> DEFINE tt == [turns EXCEPT ![t] = r]
<1>1. tt[t] = r /\ \A u \in Turns \ {t} : tt[u] = turns[u]
  BY Typed
<1> HIDE DEF tt
<1>2. Quiet(turns[t]) => Quiet(r)
  BY DEF Quiet, Pending, Weakens, Waits
<1>3. Calmly(s, turns, s, tt)
  <2>1. Quiet(turns[s.turn]) => Quiet(tt[s.turn])
    BY <1>1, <1>2, Typed
  <2>2. \A u \in Turns :
          /\ tt[u].editId \in {turns[u].editId, None}
          /\ tt[u].startup = "done" =>
               tt[u].editId = None \/ turns[u].startup = "done"
    BY <1>1 DEF Weakens
  <2> QED BY <2>1, <2>2 DEF Calmly
<1>4. StopsCalmly(s, turns, s, tt)
  <2>1. \A u \in Turns : /\ tt[u].engine = turns[u].engine
                         /\ turns[u].cut => tt[u].cut
                         /\ turns[u].policy = "done" => tt[u].policy = "done"
    BY <1>1 DEF Weakens
  <2> QED BY <2>1, Typed DEF StopsCalmly
<1>5. /\ SendsPart(s, tt, sends) /\ EditsPart(s, tt, edits)
      /\ StopPart(s, tt, stop) /\ MutationsPart(s, sends, edits, mutations)
  BY <1>3, <1>4, Calm, CalmStop DEF SessionOK, SessionHolds
<1> QED BY <1>5 DEF tt

LEMMA RecordWeakens ==
  ASSUME TypeInv, SessionHolds, NEW t \in Turns, NEW r,
         Coherent(t, r), Weakens(turns[t], r),
         RecoversAlone /\ t = s.turn => Run(s, r)
  PROVE  SessionOK(s, [turns EXCEPT ![t] = r], sends, edits, stop, mutations)
<1> DEFINE r0 == turns[t]
           c0 == turns[s.turn]
           c == IF t = s.turn THEN r ELSE c0
<1>1. TurnsPart(s, turns) /\ Coherent(t, r0)
  BY DEF SessionHolds, SessionOK, TurnsPart
<1>2. /\ Quiet(r0) => Quiet(r)
      /\ t # s.turn => Past(r)
  <2>1. t # s.turn => Past(r0)
    BY <1>1 DEF TurnsPart
  <2>2. Pending(r) => Pending(r0)
    BY DEF Pending, Weakens, Waits
  <2>3. Quiet(r0) => Quiet(r)
    BY <2>2 DEF Quiet, Weakens
  <2>4. t # s.turn => Past(r)
    BY <2>1 DEF Past, Weakens
  <2> QED BY <2>3, <2>4
<1>3. Here(s, c)
  <2>1. Here(s, c0)
    BY <1>1 DEF TurnsPart
  <2>2. CASE t = s.turn
    <3>1. Here(s, r0)
      BY <2>1, <2>2
    <3>2. Here(s, r)
      BY <1>1, <1>2, <3>1 DEF Here, Weakens, Waits, Coherent
    <3> QED BY <2>2, <3>2
  <2>3. CASE t # s.turn
    BY <2>1, <2>3
  <2> QED BY <2>2, <2>3
<1>4. ~Soft => Sole(s, c)
  <2>1. ~Soft => Sole(s, c0)
    BY <1>1 DEF TurnsPart
  <2>2. CASE t = s.turn
    <3>1. ~Soft => Sole(s, r0)
      BY <2>1, <2>2
    <3>2. ~Soft => Sole(s, r)
      BY <1>1, <3>1 DEF Sole, Weakens, Waits, Engaged, Coherent
    <3> QED BY <2>2, <3>2
  <2>3. CASE t # s.turn
    BY <2>1, <2>3
  <2> QED BY <2>2, <2>3
<1>5. RecoversAlone => Run(s, c)
  BY <1>1 DEF TurnsPart
<1> HIDE DEF c
<1>6. TurnsPart(s, [turns EXCEPT ![t] = r])
  BY <1>1, <1>2, <1>3, <1>4, <1>5, Typed, OneTurn DEF c
<1> QED BY <1>6, WeakensParts DEF SessionOK

LEMMA TurnFacts ==
  ASSUME TypeInv, SessionHolds, NEW t \in Turns
  PROVE  /\ turns[t] \in Turn /\ Coherent(t, turns[t])
         /\ RecoversAlone => Run(s, turns[s.turn])
         /\ ~Soft => Sole(s, turns[s.turn])
         /\ Here(s, turns[s.turn])
         /\ t # s.turn => Past(turns[t])
BY Typed DEF SessionHolds, SessionOK, TurnsPart

(* The startup of a turn moves, or its policy.                             *)
LEMMA StartupWeakens ==
  ASSUME TypeInv, SessionHolds, NEW t \in Turns, NEW v,
         \/ turns[t].startup = "reserved" /\ v \in {"prepared", "failing"}
         \/ turns[t].startup = "prepared" /\ v = "failing"
         \/ Waits(turns[t]) /\ v = "failing",
         NEW e \in {turns[t].editId, None},
         NEW r, r = [turns[t] EXCEPT !.startup = v, !.editId = e]
  PROVE  SessionOK(s, [turns EXCEPT ![t] = r], sends, edits, stop, mutations)
<1> DEFINE r0 == turns[t]
<1>1. r0 \in Turn /\ Coherent(t, r0) /\ (RecoversAlone => Run(s, turns[s.turn]))
  BY TurnFacts
<1>2. /\ r.startup = v /\ r.editId = e /\ r.aborted = r0.aborted
      /\ r.engine = r0.engine /\ r.cut = r0.cut /\ r.outcome = r0.outcome
      /\ r.policy = r0.policy /\ r.captured = r0.captured
  BY <1>1 DEF Turn
<1>3. r0.engine = "off" /\ r0.outcome = "none" /\ r0.policy = "off"
  BY <1>1 DEF Coherent, Waits
<1>4. Coherent(t, r)
  BY <1>1, <1>2, <1>3 DEF Coherent, Acting
<1>5. Weakens(r0, r)
  <2>1. r.startup # "starting" /\ r0.startup # r.startup
    BY <1>2 DEF Waits
  <2>2. /\ r.aborted = r0.aborted /\ r.engine = r0.engine
        /\ (r0.cut => r.cut) /\ r.editId \in {r0.editId, None}
    BY <1>2
  <2>3. r.startup \in {r0.startup, "failing", "delivered"}
          \/ (r0.startup = "reserved" /\ r.startup = "prepared")
    BY <1>2
  <2>4. r0.startup \in {"reserved", "prepared", "starting"}
    BY DEF Waits
  <2>5. r.policy = "off" /\ r0.policy = "off"
    BY <1>2, <1>3
  <2> QED BY <2>1, <2>2, <2>3, <2>4, <2>5 DEF Weakens, Waits, Acting
<1>6. RecoversAlone /\ t = s.turn => Run(s, r)
  BY <1>1, <1>2 DEF Run, Engaged
<1> QED BY <1>4, <1>5, <1>6, RecordWeakens

LEMMA PolicyWeakens ==
  ASSUME TypeInv, SessionHolds, NEW t \in Turns, NEW v,
         turns[t].policy \in Acting \cup {"handed-off"},
         v \in Acting \cup {"done", "handed-off"},
         v \in Acting => turns[t].policy \in Acting,
         v = "recovering" => "recover" \in Paths,
         NEW r, r = [turns[t] EXCEPT !.policy = v],
         RecoversAlone /\ t = s.turn => v \in Acting \/ Run(s, r)
  PROVE  SessionOK(s, [turns EXCEPT ![t] = r], sends, edits, stop, mutations)
<1> DEFINE r0 == turns[t]
<1>1. r0 \in Turn /\ Coherent(t, r0) /\ (RecoversAlone => Run(s, turns[s.turn]))
  BY TurnFacts
<1>2. /\ r.startup = r0.startup /\ r.editId = r0.editId
      /\ r.aborted = r0.aborted
      /\ r.engine = r0.engine /\ r.cut = r0.cut /\ r.outcome = r0.outcome
      /\ r.policy = v /\ r.captured = r0.captured
  BY <1>1 DEF Turn
<1>3. Coherent(t, r)
  BY <1>1, <1>2 DEF Coherent, Acting
<1>4. Weakens(r0, r)
  <2>1. /\ r.aborted = r0.aborted /\ r.engine = r0.engine
        /\ (r0.cut => r.cut) /\ r.editId \in {r0.editId, None}
        /\ r.startup = r0.startup /\ r.outcome = r0.outcome
    BY <1>2
  <2>2. r.policy # "entered" /\ r.policy # "off" /\ r0.policy # "done"
    BY <1>2 DEF Acting
  <2>3. r.policy \in Acting => r0.policy \in Acting
    BY <1>2
  <2>4. Waits(r) => Waits(r0)
    BY <2>1 DEF Waits
  <2> HIDE DEF r0
  <2> QED BY <2>1, <2>2, <2>3, <2>4 DEF Weakens
<1>5. RecoversAlone /\ t = s.turn => Run(s, r)
  BY <1>1, <1>2 DEF Run, Engaged
<1> QED BY <1>3, <1>4, <1>5, RecordWeakens

LEMMA QueuedPreparesOK ==
  ASSUME TypeInv, SessionHolds, NEW t \in Turns, QueuedPrepares(t)
  PROVE  SessionKept
<1> DEFINE v == IF Admits(s, Adopt(t)) /\ ~StopInProgress /\ ~turns[t].stale
                  THEN "prepared" ELSE "failing"
           r == [turns[t] EXCEPT !.startup = v, !.editId = turns[t].editId]
<1>1. /\ turns[t].startup = "reserved" /\ turns' = Set(t, "startup", v)
      /\ UNCHANGED <<s, sends, edits, stop, mutations>>
  BY DEF QueuedPrepares
<1>2. v \in {"prepared", "failing"}
  OBVIOUS
<1> HIDE DEF v
<1>3. r = [turns[t] EXCEPT !.startup = v]
  BY TurnFacts DEF Turn
<1>4. turns' = [turns EXCEPT ![t] = r]
  BY <1>1, <1>3 DEF Set
<1>5. SessionOK(s, [turns EXCEPT ![t] = r], sends, edits, stop, mutations)
  BY <1>1, <1>2, StartupWeakens
<1> QED BY <1>1, <1>4, <1>5 DEF SessionKept

LEMMA StartupCancelledOK ==
  ASSUME TypeInv, SessionHolds, NEW t \in Turns, StartupCancelled(t)
  PROVE  SessionKept
<1> DEFINE r0 == turns[t]
           r == [r0 EXCEPT !.outcome = "cancelled"]
<1>1. /\ Waits(r0) /\ turns' = [turns EXCEPT ![t] = r]
      /\ UNCHANGED <<s, sends, edits, stop, mutations>>
  BY DEF StartupCancelled, Waiting, Waits, Set
<1>2. r0 \in Turn /\ Coherent(t, r0) /\ (RecoversAlone => Run(s, turns[s.turn]))
  BY TurnFacts
<1>3. /\ r.startup = r0.startup /\ r.editId = r0.editId
      /\ r.aborted = r0.aborted
      /\ r.engine = r0.engine /\ r.cut = r0.cut /\ r.outcome = "cancelled"
      /\ r.policy = r0.policy /\ r.captured = r0.captured
  BY <1>2 DEF Turn
<1> HIDE DEF r
<1>4. Coherent(t, r)
  BY <1>1, <1>2, <1>3 DEF Coherent, Acting, Waits
<1>5. Weakens(r0, r)
  BY <1>3 DEF Weakens, Waits
<1>6. RecoversAlone /\ t = s.turn => Run(s, r)
  BY <1>2, <1>3 DEF Run, Engaged
<1>7. SessionOK(s, [turns EXCEPT ![t] = r], sends, edits, stop, mutations)
  BY <1>4, <1>5, <1>6, RecordWeakens
<1> QED BY <1>1, <1>7 DEF SessionKept

LEMMA PreparationFailsOK ==
  ASSUME TypeInv, SessionHolds, NEW t \in Turns, PreparationFails(t)
  PROVE  SessionKept
<1>0. turns[t] \in Turn /\ UNCHANGED <<sends, stop, mutations>>
  BY TurnFacts DEF PreparationFails
<1>1. CASE /\ turns[t].startup \in {"reserved", "prepared"} \/ Waiting(t)
           /\ turns' = Set(t, "startup", "failing")
           /\ UNCHANGED <<s, issued, queue, edits>>
  <2> DEFINE r == [turns[t] EXCEPT !.startup = "failing",
                                   !.editId = turns[t].editId]
  <2>1. turns' = [turns EXCEPT ![t] = r]
    BY <1>0, <1>1 DEF Set, Turn
  <2>2. SessionOK(s, [turns EXCEPT ![t] = r], sends, edits, stop, mutations)
    BY <1>1, StartupWeakens DEF Waiting, Waits
  <2> HIDE DEF r
  <2> QED BY <1>0, <1>1, <2>1, <2>2 DEF SessionKept
<1>2. CASE /\ Waiting(t) /\ turns[t].editId # None
           /\ Continue(WithoutEdit(t),
                       [turns EXCEPT ![t].startup = "failing",
                                     ![t].editId = None],
                       edits, queue, IfWoken(WithoutEdit(t)))
  <2> DEFINE r == [turns[t] EXCEPT !.startup = "failing", !.editId = None]
             tt == [turns EXCEPT ![t] = r]
             e == turns[t].editId
             p == Release(s, e, "edit")
  <2>1. SessionOK(s, tt, sends, edits, stop, mutations)
    BY <1>2, StartupWeakens DEF Waiting, Waits
  <2>2. tt \in [Turns -> Turn]
    <3>1. r \in Turn
      BY <1>0 DEF Turn, Startups, None
    <3> QED BY <3>1, Typed
  <2>3. PICK go \in {"none", "idle"} :
           ContinueWith(p, tt, edits, queue, go, StopInProgress)
    <3>1. [turns EXCEPT ![t].startup = "failing", ![t].editId = None] = tt
      BY Typed
    <3>2. WithoutEdit(t) = p
      BY <1>2 DEF WithoutEdit
    <3> QED BY <1>2, <3>1, <3>2 DEF Continue, IfIdle, IfWoken
  <2>4. e \in Edits => edits[e].at \notin Holding
    BY <1>2 DEF SessionHolds, SessionOK, EditsPart, EditTurns, Holding
  <2> HIDE DEF r, tt, e
  <2>5. SessionOK(p.s, tt, sends, edits, stop, mutations)
    BY <2>1, <2>4, Typed, ReleasesEdit
  <2>6. /\ p.s \in CoordinatorState /\ p.s.turn = s.turn
        /\ ~PublishesIdle(p.cmds)
    BY Typed, ReleaseIs DEF SessionHolds, SessionOK, TurnsPart, Here
  <2> HIDE DEF p
  <2>7. p.s.turn \in Turns
    BY <2>6, Typed
  <2>8. SessionOK(s', turns', sends, edits', stop, mutations)
    BY <2>2, <2>3, <2>5, <2>6, <2>7, Typed, Continues
  <2> QED BY <1>0, <2>8 DEF SessionKept
<1> QED BY <1>1, <1>2 DEF PreparationFails

-----------------------------------------------------------------------------
(* Policies that move on without the coordinator.                          *)

LEMMA PolicyStep ==
  ASSUME TypeInv, SessionHolds, NEW t \in Turns, NEW v,
         turns[t].policy \in Acting \cup {"handed-off"},
         v \in Acting \cup {"done", "handed-off"},
         v \in Acting => turns[t].policy \in Acting,
         v = "recovering" => "recover" \in Paths,
         RecoversAlone /\ t = s.turn =>
           \/ v \in Acting \/ s.op.id = None
           \/ turns[t].policy = "handed-off"
           \/ ~(s.life = "open" /\ s.phase \in {"streaming", "completing"}),
         turns' = Set(t, "policy", v), s' = s,
         UNCHANGED <<sends, edits, stop, mutations>>
  PROVE  SessionKept
<1> DEFINE r == [turns[t] EXCEPT !.policy = v]
<1>1. turns' = [turns EXCEPT ![t] = r]
  BY DEF Set
<1>2. RecoversAlone /\ t = s.turn => v \in Acting \/ Run(s, r)
  <2>1. RecoversAlone => Run(s, turns[s.turn])
    BY TurnFacts
  <2> QED BY <2>1 DEF Run, Engaged, Acting
<1>3. SessionOK(s, [turns EXCEPT ![t] = r], sends, edits, stop, mutations)
  BY <1>2, PolicyWeakens
<1> HIDE DEF r
<1> QED BY <1>1, <1>3 DEF SessionKept

LEMMA PolicyMovesOK ==
  ASSUME TypeInv, SessionHolds, NEW t \in Turns,
         \/ PolicyLeaves(t) \/ GoalAccounts(t) \/ PolicyDetours(t)
         \/ RecoveryFails(t) \/ HandoffReturns(t)
  PROVE  SessionKept
<1>0. UNCHANGED <<s, sends, edits, stop, mutations>>
  BY DEF PolicyLeaves, GoalAccounts, PolicyDetours, RecoveryFails,
         HandoffReturns
<1>1. CASE PolicyLeaves(t)
  <2>1. turns[t].policy \in Acting /\ turns' = Set(t, "policy", "done")
    BY <1>1 DEF PolicyLeaves, Acting
  <2>2. t = s.turn => s.op.id = None
    <3>1. turns[t].captured = t
      BY <2>1, TurnFacts DEF Coherent
    <3>2. Here(s, turns[s.turn])
      BY TurnFacts
    <3> QED BY <1>1, <3>1, <3>2
            DEF PolicyLeaves, Current, IsCurrentTurn, IsCurrentOperation, Here
  <2>3. "done" \notin Acting
    BY DEF Acting
  <2> QED BY <1>0, <2>1, <2>2, <2>3, PolicyStep
<1>2. CASE GoalAccounts(t)
  <2>1. /\ turns[t].policy \in Acting /\ turns' = Set(t, "policy", "accounting")
        /\ "accounting" \in Acting
    BY <1>2 DEF GoalAccounts, Terminal, Acting
  <2> QED BY <1>0, <2>1, PolicyStep
<1>3. CASE PolicyDetours(t)
  <2>1. turns[t].policy \in Acting
    BY <1>3 DEF PolicyDetours, Acting
  <2>2. PICK to \in {"recovering", "continuing"} :
          /\ to = "recovering" => "recover" \in Paths
          /\ turns' = Set(t, "policy", to)
    BY <1>3 DEF PolicyDetours
  <2>3. to \in Acting
    BY DEF Acting
  <2> QED BY <1>0, <2>1, <2>2, <2>3, PolicyStep
<1>4. CASE RecoveryFails(t)
  <2>1. /\ turns[t].policy \in Acting /\ turns' = Set(t, "policy", "flushing")
        /\ "flushing" \in Acting
    BY <1>4 DEF RecoveryFails, Acting
  <2> QED BY <1>0, <2>1, PolicyStep
<1>5. CASE HandoffReturns(t)
  <2>1. /\ turns[t].policy = "handed-off" /\ turns' = Set(t, "policy", "done")
        /\ "done" \notin Acting
    BY <1>5 DEF HandoffReturns, Acting
  <2> QED BY <1>0, <2>1, PolicyStep
<1> QED BY <1>1, <1>2, <1>3, <1>4, <1>5

-----------------------------------------------------------------------------
(* Claims that are not the queue's.                                        *)

LEMMA SettledPast ==
  ASSUME TypeInv, SessionHolds, Settled(s, turns[s.turn])
  PROVE  AllPast(turns)
<1> DEFINE c == turns[s.turn]
<1>1. CASE s.phase = "idle"
  BY <1>1, Typed, IdlePast DEF SessionHolds, SessionOK
<1>2. CASE s.phase # "idle"
  <2>1. Soft /\ Quiet(c)
    BY <1>2 DEF Settled
  <2>2. Past(c)
    BY <2>1 DEF Past, Quiet, Pending
  <2> QED BY <2>2 DEF AllPast, SessionHolds, SessionOK, TurnsPart
<1> QED BY <1>1, <1>2

LEMMA ExpectsTyped ==
  ASSUME TypeInv PROVE Expects(sends, issued)
BY Typed DEF Expects, SendRec

LEMMA SendPreparesOK ==
  ASSUME TypeInv, SessionHolds, NEW x \in Sends, SendPrepares(x)
  PROVE  SessionKept
<1> DEFINE req == Fresh("direct", sends[x].expected, None)
           c == ClaimedBy("send", x, None)
           r == [sends[x] EXCEPT !.at = "leaving", !.first = First(x),
                                 !.turn = issued + 1]
<1>1. /\ sends[x].at = "direct" /\ Admits(s, req)
      /\ issued < MaxTurns /\ s' = Prepare(s, issued + 1, req).s
      /\ turns' = [turns EXCEPT ![issued + 1] = c]
      /\ sends' = [sends EXCEPT ![x] = r]
      /\ UNCHANGED <<edits, stop, mutations>>
  BY Typed DEF SendPrepares, Claim
<1>2. req.kind = "fresh" /\ EditOwner(req) = None /\ sends[x].expected = s.turn
  BY <1>1 DEF Fresh, EditOwner, None, Admits, Claimable
<1>3. Begins(c) /\ c.editId = None
  BY DEF ClaimedBy, NoTurn, Begins
<1>4. r.at = "leaving" /\ r.expected = sends[x].expected
  BY Typed DEF SendRec
<1> HIDE DEF req, c, r
<1>5. AllPast(turns)
  <2>1. Settled(s, turns[s.turn])
    BY <1>1, <1>2 DEF SessionHolds, SessionOK, SendsPart
  <2> QED BY <2>1, SettledPast
<1>6. sends'[x] = r /\ \A y \in Sends \ {x} : sends'[y] = sends[y]
  BY <1>1, Typed
<1>7. SessionOK(s, turns, sends', edits, stop, mutations)
  BY <1>1, <1>4, <1>6, SendMoves
<1>8. Expects(sends', issued)
  BY <1>4, <1>6, ExpectsTyped DEF Expects
<1>9. EditLeaves(req, c, edits, issued + 1)
  BY <1>2, <1>3, CallsNat DEF EditLeaves, None
<1>10. /\ EditsPart(s, turns, edits) /\ StopPart(s, turns, stop)
       /\ MutationsPart(s, sends', edits, mutations)
  BY <1>7 DEF SessionOK
<1>11. SessionOK(s', turns', sends', edits, stop, mutations)
  BY <1>1, <1>2, <1>3, <1>5, <1>8, <1>9, <1>10, Typed, SessionClaims
<1> QED BY <1>1, <1>11 DEF SessionKept

LEMMA EditPreparesOK ==
  ASSUME TypeInv, SessionHolds, NEW e \in Edits, EditPrepares(e)
  PROVE  SessionKept
<1> DEFINE req == Fresh("direct", edits[e].expected, e)
           c == ClaimedBy("edit", None, e)
           r == [edits[e] EXCEPT !.at = "leaving", !.first = First(e),
                                 !.turn = issued + 1]
           ok == Admits(s, req) /\ ~StopInProgress /\ ~edits[e].stale
<1>1. edits[e].at = "truncated"
  BY DEF EditPrepares
<1>2. CASE ~ok
  BY <1>1, <1>2, EditEndsOK DEF EditPrepares
<1>3. CASE ok
  <2>1. /\ Admits(s, req)
        /\ issued < MaxTurns /\ s' = Prepare(s, issued + 1, req).s
        /\ turns' = [turns EXCEPT ![issued + 1] = c]
        /\ edits' = [edits EXCEPT ![e] = r]
        /\ UNCHANGED <<sends, stop, mutations>>
    BY <1>3, Typed DEF EditPrepares, Claim
  <2>2. req.kind = "fresh" /\ EditOwner(req) = e
    BY DEF Fresh, EditOwner
  <2>3. Begins(c) /\ c.editId = e
    BY DEF ClaimedBy, NoTurn, Begins
  <2>4. r.at = "leaving" /\ r.turn = issued + 1
    BY Typed DEF EditRec
  <2>5. s.life = "open"
    BY <2>1 DEF Admits
  <2> HIDE DEF req, c, r, ok
  <2>6. AllPast(turns)
    <3>1. Settled(s, turns[s.turn])
      BY <1>1, <2>5, EditHeld DEF EditHolds
    <3> QED BY <3>1, SettledPast
  <2>7. edits'[e] = r /\ \A f \in Edits \ {e} : edits'[f] = edits[f]
    BY <2>1, Typed
  <2>8. EditHolds(s, turns[s.turn], e, edits'[e])
    BY <1>1, <2>4, <2>7, EditHeld DEF EditHolds, Holding
  <2>9. SessionOK(s, turns, sends, edits', stop, mutations)
    BY <1>1, <2>4, <2>7, <2>8, EditMoves
  <2>10. EditLeaves(req, c, edits', issued + 1)
    BY <2>2, <2>3, <2>4, <2>7 DEF EditLeaves, Holding
  <2>11. /\ EditsPart(s, turns, edits') /\ StopPart(s, turns, stop)
         /\ MutationsPart(s, sends, edits', mutations)
    BY <2>9 DEF SessionOK
  <2>12. SessionOK(s', turns', sends, edits', stop, mutations)
    BY <2>1, <2>2, <2>3, <2>6, <2>10, <2>11, ExpectsTyped, Typed, SessionClaims
  <2> QED BY <2>1, <2>12 DEF SessionKept
<1> QED BY <1>2, <1>3

(* A policy that hands over leaves its own turn behind.                    *)
LEMMA LeavesBehind ==
  ASSUME TypeInv, SessionHolds, NEW r, NEW r0, r0 = turns[s.turn],
         r0.policy \in Acting, Weakens(r0, r), Coherent(s.turn, r),
         r.outcome = r0.outcome, r.policy \notin Acting
  PROVE  AllPast([turns EXCEPT ![s.turn] = r])
<1> DEFINE t == s.turn
           tt == [turns EXCEPT ![t] = r]
<1>1. tt[t] = r /\ \A u \in Turns \ {t} : tt[u] = turns[u]
  BY Typed
<1>2. Coherent(t, r0)
  BY Typed, TurnFacts
<1>3. r0.outcome # "none" /\ r0.startup # "starting"
  BY <1>2 DEF Coherent, Acting
<1>4. Past(r)
  BY <1>3 DEF Past, Weakens, Coherent, Waits, Acting
<1>5. \A u \in Turns \ {t} : Coherent(u, turns[u]) /\ Past(turns[u])
  BY TurnFacts
<1> HIDE DEF tt
<1>6. AllPast(tt)
  BY <1>1, <1>4, <1>5 DEF AllPast
<1> QED BY <1>6 DEF tt

LEMMA HandsOffOK ==
  ASSUME TypeInv, SessionHolds, NEW t \in Turns, turns[t].policy \in Acting,
         Current(t), NEW who, NEW req, Admits(s, req), req.kind = "fresh",
         EditOwner(req) = None,
         Claim(req, ClaimedBy(who, None, None), HandedOff(t)),
         UNCHANGED <<sends, edits, stop, mutations>>
  PROVE  SessionKept
<1> DEFINE c == ClaimedBy(who, None, None)
           r0 == turns[t]
           n == issued + 1
           r == [r0 EXCEPT !.policy = "handed-off", !.next = n]
           tt == [turns EXCEPT ![t] = r]
<1>1. r0 \in Turn /\ Coherent(t, r0) /\ n \in Nat
  BY TurnFacts, Typed
<1>2. t = s.turn
  BY <1>1 DEF Coherent, Current, IsCurrentTurn
<1>3. /\ r.startup = r0.startup /\ r.editId = r0.editId
      /\ r.aborted = r0.aborted
      /\ r.engine = r0.engine /\ r.cut = r0.cut /\ r.outcome = r0.outcome
      /\ r.policy = "handed-off" /\ r.captured = r0.captured /\ r \in Turn
  BY <1>1 DEF Turn, Policies
<1>4. /\ issued < MaxTurns /\ s' = Prepare(s, n, req).s
      /\ turns' = [tt EXCEPT ![n] = c]
  BY Typed DEF Claim, HandedOff
<1>5. Begins(c) /\ c.editId = None
  BY DEF ClaimedBy, NoTurn, Begins
<1> HIDE DEF r, c, n
<1>6. Coherent(t, r)
  BY <1>1, <1>3 DEF Coherent, Acting
<1>7. Weakens(r0, r)
  <2>1. r0.policy # "done" /\ "handed-off" \notin Acting
    BY DEF Acting
  <2>2. Waits(r) => Waits(r0)
    BY <1>3 DEF Waits
  <2> HIDE DEF r0
  <2> QED BY <1>3, <2>1, <2>2 DEF Weakens
<1>8. AllPast(tt)
  <2>1. r.policy \notin Acting
    BY <1>3 DEF Acting
  <2> QED BY <1>2, <1>3, <1>6, <1>7, <2>1, LeavesBehind
<1>9. /\ EditsPart(s, tt, edits) /\ StopPart(s, tt, stop)
      /\ MutationsPart(s, sends, edits, mutations)
  BY <1>7, WeakensParts
<1>10. tt \in [Turns -> Turn]
  BY <1>3, Typed
<1>11. EditLeaves(req, c, edits, issued + 1)
  BY <1>5, CallsNat DEF EditLeaves, None
<1> HIDE DEF tt
<1>12. SessionOK(s', turns', sends, edits, stop, mutations)
  BY <1>4, <1>5, <1>8, <1>9, <1>10, <1>11, ExpectsTyped, Typed, SessionClaims
     DEF n
<1> QED BY <1>12 DEF SessionKept

LEMMA RecoveryHandsOffOK ==
  ASSUME TypeInv, SessionHolds, NEW t \in Turns, RecoveryHandsOff(t)
  PROVE  SessionKept
<1> DEFINE req == Fresh("handoff", turns[t].captured, None)
<1>1. /\ turns[t].policy = "recovering" /\ Current(t)
      /\ turns[t].policy \in Acting
      /\ UNCHANGED <<sends, edits, stop, mutations>>
  BY DEF RecoveryHandsOff, Acting
<1>2. req.kind = "fresh" /\ EditOwner(req) = None
      /\ req.expected = turns[t].captured /\ req.intent = "handoff"
  BY DEF Fresh, EditOwner, None
<1> HIDE DEF req
<1>3. CASE Admits(s, req)
  <2>1. Claim(req, ClaimedBy("handoff", None, None), HandedOff(t))
    BY <1>3 DEF RecoveryHandsOff, req
  <2> QED BY <1>1, <1>2, <1>3, <2>1, HandsOffOK
<1>4. CASE ~Admits(s, req)
  <2>1. turns' = Set(t, "policy", "done") /\ s' = s
    BY <1>4 DEF RecoveryHandsOff, req
  <2>2. "done" \notin Acting
    BY DEF Acting
  <2>3. RecoversAlone =>
          ~(s.life = "open" /\ s.phase \in {"streaming", "completing"})
    <3> SUFFICES ASSUME RecoversAlone, s.life = "open",
                        s.phase \in {"streaming", "completing"}
                 PROVE  FALSE
      OBVIOUS
    <3>1. Editors = {} /\ ~Soft
      BY <1>1, TurnFacts DEF RecoversAlone, Coherent
    <3>2. \A r \in s.reservations : r.kind # "edit"
      BY <3>1 DEF SessionHolds, SessionOK, EditsPart
    <3>3. \A r \in s.reservations : r.kind # "admission"
      BY <3>1 DEF SessionHolds, SessionOK, MutationsPart
    <3>4. s.turn = turns[t].captured
      BY <1>1 DEF Current, IsCurrentTurn
    <3>5. Claimable(s, req)
      BY <1>2, <3>4 DEF Claimable, Deferred, QueueIntents
    <3> QED BY <1>4, <3>2, <3>3, <3>5 DEF Admits, Reserved, ConflictingEdit
  <2> QED BY <1>1, <2>1, <2>2, <2>3, PolicyStep
<1> QED BY <1>3, <1>4

LEMMA FollowUpIsSentOK ==
  ASSUME TypeInv, SessionHolds, NEW t \in Turns, FollowUpIsSent(t)
  PROVE  SessionKept
<1> DEFINE req == Fresh("direct", turns[t].captured, None)
           ok == Admits(s, req) /\ ~StopInProgress
<1>1. /\ turns[t].policy = "continuing" /\ Current(t)
      /\ turns[t].policy \in Acting
      /\ UNCHANGED <<sends, edits, stop, mutations>>
  BY DEF FollowUpIsSent, Acting
<1>2. req.kind = "fresh" /\ EditOwner(req) = None
  BY DEF Fresh, EditOwner, None
<1> HIDE DEF req
<1>3. CASE ok
  <2>1. Claim(req, ClaimedBy("follow-up", None, None), HandedOff(t))
        /\ Admits(s, req)
    BY <1>3 DEF FollowUpIsSent, req
  <2> QED BY <1>1, <1>2, <2>1, HandsOffOK
<1>4. CASE ~ok
  <2>1. turns' = Set(t, "policy", "flushing") /\ s' = s
    BY <1>4 DEF FollowUpIsSent, req
  <2>2. "flushing" \in Acting
    BY DEF Acting
  <2> QED BY <1>1, <2>1, <2>2, PolicyStep
<1> QED BY <1>3, <1>4

-----------------------------------------------------------------------------
(* A turn that moves with the coordinator.                                 *)

Moves(t, r, st2) ==
  LET r0 == turns[t]
  IN /\ st2.turn = s.turn /\ st2.life = s.life
     /\ st2.reservations = s.reservations
     /\ ~Soft /\ s.phase = "idle" => st2.phase = "idle"
     /\ Quiet(r0) => Quiet(r)
     /\ r.editId \in {r0.editId, None}
     /\ r.startup = "done" => r.editId = None \/ r0.startup = "done"
     /\ t # s.turn => st2.op.id = s.op.id
     /\ stop.at = "stopping" =>
          /\ r.engine = "live" => r0.engine = "live" /\ (r0.cut => r.cut)
          /\ ~Soft /\ st2.op.id # None /\ r.engine # "off" /\ r.policy # "done"
             => /\ st2.op.id = s.op.id
                /\ r0.engine # "off" /\ r0.policy # "done"

LEMMA TurnMoves ==
  ASSUME TypeInv, SessionHolds, NEW t \in Turns, NEW r, NEW st2,
         Moves(t, r, st2), Coherent(t, r), t # s.turn => Past(r),
         NEW c, c = IF t = s.turn THEN r ELSE turns[s.turn],
         Here(st2, c), ~Soft => Sole(st2, c), RecoversAlone => Run(st2, c)
  PROVE  SessionOK(st2, [turns EXCEPT ![t] = r], sends, edits, stop, mutations)
<1> DEFINE tt == [turns EXCEPT ![t] = r]
<1>1. TurnsPart(st2, tt)
  <2>1. st2.turn = s.turn
    BY DEF Moves
  <2> QED BY <2>1, Typed, OneTurn DEF SessionHolds, SessionOK
<1>2. tt[t] = r /\ \A u \in Turns \ {t} : tt[u] = turns[u]
  BY Typed
<1> HIDE DEF tt
<1>3. Calmly(s, turns, st2, tt)
  <2>1. Quiet(turns[s.turn]) => Quiet(tt[s.turn])
    BY <1>2, Typed DEF Moves
  <2>2. \A u \in Turns :
          /\ tt[u].editId \in {turns[u].editId, None}
          /\ tt[u].startup = "done" =>
               tt[u].editId = None \/ turns[u].startup = "done"
    BY <1>2 DEF Moves
  <2> QED BY <2>1, <2>2 DEF Calmly, Moves
<1>4. stop.at = "stopping" => StopsCalmly(s, turns, st2, tt)
  <2> SUFFICES ASSUME stop.at = "stopping"
               PROVE  StopsCalmly(s, turns, st2, tt)
    OBVIOUS
  <2>1. \A u \in Turns : tt[u].engine = "live" =>
                           /\ turns[u].engine = "live"
                           /\ turns[u].cut => tt[u].cut
    BY <1>2 DEF Moves
  <2>2. CASE t = s.turn
    BY <1>2, <2>1, <2>2 DEF StopsCalmly, Moves
  <2>3. CASE t # s.turn
    BY <1>2, <2>1, <2>3, Typed DEF StopsCalmly, Moves
  <2> QED BY <2>2, <2>3
<1>5. SessionOK(st2, tt, sends, edits, stop, mutations)
  BY <1>1, <1>3, <1>4, Calm, CalmStop DEF SessionOK, SessionHolds
<1> QED BY <1>5 DEF tt

LEMMA StartupDeliversOK ==
  ASSUME TypeInv, SessionHolds, NEW t \in Turns, StartupDelivers(t)
  PROVE  SessionKept
<1> DEFINE r0 == turns[t]
           free == IsCurrentTurn(s, t) /\ s.life = "open" /\ ~r0.aborted
           p == IF free THEN WithoutEdit(t) ELSE Ignored(s)
           e == IF free THEN None ELSE r0.editId
           r == [r0 EXCEPT !.startup = "delivered", !.editId = e]
           tt == [turns EXCEPT ![t] = r]
<1>1. /\ r0.startup = "starting"
      /\ r0.engine = "live" \/ r0.outcome # "none"
      /\ UNCHANGED <<sends, stop, mutations>>
  BY DEF StartupDelivers
<1>2. PICK go \in {"none", "idle"} :
         ContinueWith(p, tt, edits, queue, go, StopInProgress)
  <2>1. [turns EXCEPT ![t].startup = "delivered",
                      ![t].editId = IF free THEN None ELSE @] = tt
    BY Typed
  <2> QED BY <2>1 DEF StartupDelivers, Continue, IfIdle, IfWoken
<1>3. r0 \in Turn /\ Coherent(t, r0) /\ (RecoversAlone => Run(s, turns[s.turn]))
  BY TurnFacts
<1>4. e \in {r0.editId, None} /\ e \in Nat
  BY <1>3 DEF Turn, None
<1>5. /\ r.startup = "delivered" /\ r.editId = e
      /\ r.aborted = r0.aborted
      /\ r.engine = r0.engine /\ r.cut = r0.cut /\ r.outcome = r0.outcome
      /\ r.policy = r0.policy /\ r.captured = r0.captured
  BY <1>3 DEF Turn
<1>6. tt \in [Turns -> Turn]
  <2>1. r \in Turn
    BY <1>3, <1>4 DEF Turn, Startups
  <2> QED BY <2>1, Typed
<1> HIDE DEF r
<1>7. Coherent(t, r)
  BY <1>1, <1>3, <1>5 DEF Coherent, Acting
<1>8. Weakens(r0, r)
  BY <1>1, <1>3, <1>4, <1>5 DEF Weakens, Waits, Coherent, Acting
<1>9. RecoversAlone /\ t = s.turn => Run(s, r)
  BY <1>3, <1>5 DEF Run, Engaged
<1>10. SessionOK(s, tt, sends, edits, stop, mutations)
  BY <1>7, <1>8, <1>9, RecordWeakens
<1>11. r0.editId \in Edits => edits[r0.editId].at \notin Holding
  <2>1. r0.editId \in Edits => r0.editId # None
    BY CallsNat DEF None
  <2> QED BY <2>1 DEF SessionHolds, SessionOK, EditsPart, EditTurns, Holding
<1> HIDE DEF e, tt
<1>12. /\ SessionOK(p.s, tt, sends, edits, stop, mutations)
       /\ p.s \in CoordinatorState /\ p.s.turn = s.turn
       /\ ~PublishesIdle(p.cmds)
  <2>1. CASE p = Ignored(s)
    BY <2>1, <1>10, SelfState, Typed
  <2>2. CASE p # Ignored(s)
    <3> DEFINE f == r0.editId
    <3>1. p = Release(s, f, "edit")
      BY <2>2 DEF WithoutEdit
    <3> HIDE DEF f, p
    <3>2. SessionOK(p.s, tt, sends, edits, stop, mutations)
      BY <3>1, <1>10, <1>11, Typed, ReleasesEdit DEF f
    <3>3. /\ p.s \in CoordinatorState /\ p.s.turn = s.turn
          /\ ~PublishesIdle(p.cmds)
      BY <3>1, Typed, ReleaseIs DEF SessionHolds, SessionOK, TurnsPart, Here
    <3> QED BY <3>2, <3>3
  <2> QED BY <2>1, <2>2
<1> HIDE DEF p
<1>13. p.s.turn \in Turns
  BY <1>12, Typed
<1>14. SessionOK(s', turns', sends, edits', stop, mutations)
  BY <1>2, <1>6, <1>12, <1>13, Typed, Continues
<1> QED BY <1>1, <1>14 DEF SessionKept

(* What the end of a turn leaves.                                          *)
Finished(st, t, f) ==
  /\ f.s \in CoordinatorState
  /\ f.s.turn = st.turn /\ f.s.life = st.life /\ f.s.op = st.op
  /\ f.s.reservations = st.reservations
  /\ PublishesIdle(f.cmds) => f.s.phase = "idle"
  /\ \/ f.s.phase = st.phase /\ ~PublishesIdle(f.cmds)
     \/ f.s.phase = "idle" /\ st.turn = t

LEMMA FinishIs ==
  ASSUME NEW st \in CoordinatorState, NEW t \in Nat
  PROVE  /\ Finished(st, t, Finish(st, t, FALSE))
         /\ st.life # "disposed" /\ st.turn = t =>
              Finish(st, t, FALSE).s.phase = "idle"
<1> DEFINE f == Finish(st, t, FALSE)
<1>1. f.s \in CoordinatorState
  BY FinishRegular DEF Regular
<1>2. \/ f.s = st /\ f.cmds = << >>
      \/ /\ f.s = [st EXCEPT !.phase = "idle"] /\ st.turn = t
  BY DEF Finish, Alive, Ignored, Result
<1>3. st.life # "disposed" /\ st.turn = t => f.s.phase = "idle"
  BY DEF Finish, Alive, Ignored, Result, CoordinatorState
<1> HIDE DEF f
<1>4. Finished(st, t, f)
  BY <1>1, <1>2, SMTT(30) DEF Finished, CoordinatorState, PublishesIdle
<1> QED BY <1>3, <1>4 DEF f

LEMMA CompletesIs ==
  ASSUME NEW st \in CoordinatorState, NEW t \in Nat
  PROVE  /\ Finished(st, t, Finish(st, t, TRUE))
         /\ st.phase = "preparing" \/ Finish(st, t, TRUE).s = st
         /\ st.life # "disposed" /\ st.turn = t =>
              Finish(st, t, TRUE).s.phase # "preparing"
<1> DEFINE f == Finish(st, t, TRUE)
<1>1. f.s \in CoordinatorState
  BY FinishRegular DEF Regular
<1>2. \/ f.s = st /\ f.cmds = << >>
      \/ /\ f.s = [st EXCEPT !.phase = "idle"] /\ st.turn = t
         /\ st.phase = "preparing"
  BY DEF Finish, Alive, Ignored, Result
<1>3. st.life # "disposed" /\ st.turn = t => f.s.phase # "preparing"
  BY DEF Finish, Alive, Ignored, Result, CoordinatorState
<1> HIDE DEF f
<1>4. Finished(st, t, f)
  BY <1>1, <1>2, SMTT(30) DEF Finished, CoordinatorState, PublishesIdle
<1> QED BY <1>2, <1>3, <1>4 DEF f

LEMMA CompletesKeeps ==
  ASSUME NEW st \in CoordinatorState, NEW t \in Nat
  PROVE  \/ Finish(st, t, TRUE).s.phase = "idle"
         \/ Finish(st, t, TRUE).cmds = << >>
BY DEF Finish, Alive, Ignored, Result, CoordinatorState

LEMMA DrainsOnly ==
  ASSUME NEW st \in CoordinatorState, NEW e
  PROVE  LET p == IF e = None THEN Ignored(st) ELSE Release(st, e, "edit")
         IN ~PublishesIdle(<< >> \o p.cmds)
<1> DEFINE x == Do("drain", st.turn)
           p == IF e = None THEN Ignored(st) ELSE Release(st, e, "edit")
<1>1. Ignored(st).cmds = << >>
  BY DEF Ignored, Result
<1>2. Release(st, e, "edit").cmds \in {<< >>, << x >>}
  BY DEF Release, Alive, Ignored, Result
<1>3. x.do = "drain"
  BY DEF Do
<1>4. p.cmds = << >> \/ p.cmds = << x >>
  BY <1>1, <1>2
<1> HIDE DEF p, x
<1>5. << >> \o << >> = << >> /\ << >> \o << x >> = << x >>
  OBVIOUS
<1>6. ~PublishesIdle(<< >>) /\ ~PublishesIdle(<< x >>)
  BY <1>3 DEF PublishesIdle
<1>7. ~PublishesIdle(<< >> \o p.cmds)
  BY <1>4, <1>5, <1>6
<1> QED BY <1>7 DEF p

(* The preparation ends: of the current turn it may end the phase.         *)
LEMMA PreparationMoves ==
  ASSUME TypeInv, SessionHolds, NEW t \in Turns,
         turns[t].startup \in {"failing", "delivered"},
         turns[t].startup = "failing" => turns[t].policy \in {"off", "done"},
         NEW r, r = [turns[t] EXCEPT !.startup = "done", !.editId = None],
         NEW f, f = Finish(s, t, TRUE)
  PROVE  SessionOK(f.s, [turns EXCEPT ![t] = r], sends, edits, stop, mutations)
<1> DEFINE r0 == turns[t]
           c == IF t = s.turn THEN r ELSE turns[s.turn]
           st == f.s
<1>1. /\ r0 \in Turn /\ Coherent(t, r0)
      /\ RecoversAlone => Run(s, turns[s.turn])
      /\ ~Soft => Sole(s, turns[s.turn])
      /\ Here(s, turns[s.turn])
      /\ t # s.turn => Past(r0)
  BY TurnFacts
<1>2. /\ r.startup = "done" /\ r.editId = None
      /\ r.aborted = r0.aborted
      /\ r.engine = r0.engine /\ r.cut = r0.cut /\ r.outcome = r0.outcome
      /\ r.policy = r0.policy /\ r.captured = r0.captured
  BY <1>1 DEF Turn
<1>3. /\ st.turn = s.turn /\ st.life = s.life /\ st.op = s.op
      /\ st.reservations = s.reservations
      /\ st.phase = s.phase
           \/ (st.phase = "idle" /\ s.turn = t /\ s.phase = "preparing")
      /\ s.turn = t => st.phase # "preparing"
  <2>1. t \in Nat
    BY TurnsNat
  <2>2. s.life # "disposed"
    BY <1>1 DEF Here
  <2>3. /\ Finished(s, t, f) /\ (s.phase = "preparing" \/ st = s)
        /\ s.turn = t => st.phase # "preparing"
    BY <2>1, <2>2, Typed, CompletesIs
  <2> QED BY <2>3 DEF Finished
<1> HIDE DEF r0, st
<1>4. Coherent(t, r)
  BY <1>1, <1>2 DEF Coherent
<1>5. t # s.turn => Past(r)
  BY <1>1, <1>2 DEF Past, Waits
<1>6. Quiet(r0) => Quiet(r)
  BY <1>2 DEF Quiet, Pending, Waits
<1>7. Moves(t, r, st)
  BY <1>2, <1>3, <1>6 DEF Moves, r0
<1>8. CASE t # s.turn
  <2>1. /\ c = turns[s.turn] /\ st.phase = s.phase
    BY <1>3, <1>8
  <2> HIDE DEF c
  <2>2. Here(st, c) /\ (~Soft => Sole(st, c)) /\ (RecoversAlone => Run(st, c))
    BY <1>1, <1>3, <2>1 DEF Here, Sole, Run
  <2>3. SessionOK(st, [turns EXCEPT ![t] = r], sends, edits, stop, mutations)
    BY <1>4, <1>5, <1>7, <2>2, TurnMoves DEF c
  <2> QED BY <2>3 DEF st
<1>9. CASE t = s.turn
  <2>1. /\ c = r /\ Here(s, r0) /\ (~Soft => Sole(s, r0))
        /\ RecoversAlone => Run(s, r0)
    BY <1>1, <1>9 DEF r0
  <2> HIDE DEF c
  <2>2. s.phase = "preparing" => r0.engine = "off"
    BY <2>1 DEF Here
  <2>3. Here(st, c)
    BY <1>2, <1>3, <1>6, <1>9, <2>1, <2>2 DEF Here, Quiet, Pending, Waits
  <2>4. ~Soft => Sole(st, c)
    BY <1>2, <1>3, <1>9, <2>1 DEF Sole, Engaged
  <2>5. RecoversAlone => Run(st, c)
    BY <1>2, <1>3, <1>9, <2>1 DEF Run, Engaged
  <2>6. SessionOK(st, [turns EXCEPT ![t] = r], sends, edits, stop, mutations)
    BY <1>4, <1>5, <1>7, <2>3, <2>4, <2>5, TurnMoves DEF c
  <2> QED BY <2>6 DEF st
<1> QED BY <1>8, <1>9

LEMMA PreparationCompletesOK ==
  ASSUME TypeInv, SessionHolds, NEW t \in Turns, PreparationCompletes(t)
  PROVE  SessionKept
<1> DEFINE e == turns[t].editId
           f == Finish(s, t, TRUE)
           p == IF e = None THEN Ignored(f.s) ELSE Release(f.s, e, "edit")
           res == Result(p.s, f.cmds \o p.cmds)
           r == [turns[t] EXCEPT !.startup = "done", !.editId = None]
           tt == [turns EXCEPT ![t] = r]
<1>1. /\ turns[t].startup \in {"failing", "delivered"}
      /\ turns[t].startup = "failing" => turns[t].policy \in {"off", "done"}
      /\ UNCHANGED <<sends, stop, mutations>>
  BY DEF PreparationCompletes
<1>2. PICK q, go : /\ go \in {"none", "idle"}
                   /\ ContinueWith(res, tt, edits, q, go, StopInProgress)
  <2>1. [turns EXCEPT ![t].startup = "done", ![t].editId = None] = tt
    BY Typed
  <2>2. \E q, go : Continue(res, tt, edits, q, go) /\ go \in {"none", "idle"}
    <3> DEFINE drains == /\ turns[t].startup = "failing"
                         /\ turns[t].by # "handoff" /\ IsCurrentTurn(s, t)
               go == IF drains THEN IfIdle(p.s) ELSE IfWoken(p)
    <3>1. \E q : Continue(res, tt, edits, q, go)
      BY <2>1, Zenon DEF PreparationCompletes
    <3>2. go \in {"none", "idle"}
      BY DEF IfIdle, IfWoken
    <3> QED BY <3>1, <3>2
  <2> QED BY <2>2 DEF Continue
<1>3. tt \in [Turns -> Turn]
  <2>1. r \in Turn
    BY TurnFacts DEF Turn, Startups, None
  <2> QED BY <2>1, Typed
<1>4. SessionOK(f.s, tt, sends, edits, stop, mutations)
  BY <1>1, PreparationMoves
<1>5. e \in Edits => edits[e].at \notin Holding
  <2>1. e \in Edits => e # None
    BY CallsNat DEF None
  <2> QED BY <2>1 DEF SessionHolds, SessionOK, EditsPart, EditTurns, Holding
<1>6. /\ f.s \in CoordinatorState /\ f.s.turn = s.turn
      /\ f.s.phase = "idle" \/ f.cmds = << >>
  <2>1. t \in Nat
    BY TurnsNat
  <2>2. Finished(s, t, f)
    BY <2>1, Typed, CompletesIs
  <2>3. f.s.phase = "idle" \/ f.cmds = << >>
    BY <2>1, Typed, CompletesKeeps
  <2> QED BY <2>2, <2>3 DEF Finished
<1>7. f.cmds = << >> => ~PublishesIdle(f.cmds \o p.cmds)
  BY <1>6, DrainsOnly
<1> HIDE DEF e, f, tt, r
<1>8. /\ SessionOK(p.s, tt, sends, edits, stop, mutations)
      /\ p.s \in CoordinatorState /\ p.s.turn = s.turn /\ p.s.phase = f.s.phase
  <2>1. CASE e = None
    BY <2>1, <1>4, <1>6 DEF Ignored, Result
  <2>2. CASE e # None
    <3>1. p = Release(f.s, e, "edit")
      BY <2>2
    <3> HIDE DEF p
    <3>2. f.s.life # "disposed"
      BY <1>4 DEF SessionOK, TurnsPart, Here
    <3>3. /\ p.s \in CoordinatorState /\ p.s.turn = s.turn
          /\ p.s.phase = f.s.phase
      BY <3>1, <3>2, <1>6, ReleaseIs
    <3>4. SessionOK(p.s, tt, sends, edits, stop, mutations)
      BY <3>1, <1>4, <1>5, <1>6, ReleasesEdit
    <3> QED BY <3>3, <3>4
  <2> QED BY <2>1, <2>2
<1>9. res.s = p.s /\ res.cmds = f.cmds \o p.cmds
  BY DEF Result
<1>10. PublishesIdle(res.cmds) => res.s.phase = "idle"
  BY <1>6, <1>7, <1>8, <1>9
<1> HIDE DEF p, res
<1>11. res.s \in CoordinatorState /\ res.s.turn \in Turns
  BY <1>8, <1>9, Typed
<1>12. SessionOK(res.s, tt, sends, edits, stop, mutations)
  BY <1>8, <1>9
<1>13. SessionOK(s', turns', sends, edits', stop, mutations)
  BY <1>2, <1>3, <1>10, <1>11, <1>12, Typed, Continues
<1> QED BY <1>1, <1>13 DEF SessionKept

-----------------------------------------------------------------------------
(* A handler ends its turn.                                                *)

LEMMA EndTurnOK ==
  ASSUME TypeInv, SessionHolds, NEW t \in Turns, turns[t].policy \in Acting,
         Current(t), NEW trigger, EndTurn(t, trigger)
  PROVE  SessionKept
<1> DEFINE r0 == turns[t]
           r == [r0 EXCEPT !.policy = "done"]
           tt == [turns EXCEPT ![t] = r]
           f == Finish(s, t, FALSE)
<1>1. /\ r0 \in Turn /\ Coherent(t, r0)
      /\ Here(s, turns[s.turn])
  BY TurnFacts
<1>2. t = s.turn /\ r0.captured = t
  BY <1>1 DEF Coherent, Current, IsCurrentTurn
<1>3. /\ r.startup = r0.startup /\ r.editId = r0.editId
      /\ r.aborted = r0.aborted
      /\ r.engine = r0.engine /\ r.cut = r0.cut /\ r.outcome = r0.outcome
      /\ r.policy = "done" /\ r.captured = r0.captured /\ r \in Turn
  BY <1>1 DEF Turn, Policies
<1>4. /\ Set(t, "policy", "done") = tt
      /\ UNCHANGED <<sends, stop, mutations>>
  BY DEF EndTurn, Set
<1>5. tt \in [Turns -> Turn]
  BY <1>3, Typed
<1> HIDE DEF r, tt
<1>6. Coherent(t, r)
  BY <1>1, <1>3 DEF Coherent, Acting
<1>7. r0.outcome # "none" /\ r0.startup # "starting" /\ r0.engine # "live"
  BY <1>1 DEF Coherent, Acting
<1>8. CASE Flushes(trigger)
  <2>1. ContinueWith(Ignored(s), tt, edits, queue, trigger, StopInProgress)
    BY <1>4, <1>8 DEF EndTurn, Continue
  <2>2. trigger # "none" /\ Dispatches(s, queue, trigger, StopInProgress)
    BY <1>8 DEF Flushes
  <2>3. Drains(Ignored(s), tt, queue, trigger, StopInProgress)
    BY <2>1, <2>2, SelfState DEF ContinueWith, Drains
  <2>4. Weakens(r0, r)
    <3>1. r.policy \notin Acting \cup {"entered", "off"} /\ r0.policy # "done"
      BY <1>3 DEF Acting
    <3> HIDE DEF r0
    <3> QED BY <1>3, <3>1 DEF Weakens, Waits
  <2>5. AllPast(tt)
    <3>1. r.policy \notin Acting
      BY <1>3 DEF Acting
    <3> QED BY <1>2, <1>3, <1>6, <2>4, <3>1, LeavesBehind DEF tt
  <2>6. /\ EditsPart(s, tt, edits) /\ StopPart(s, tt, stop)
        /\ MutationsPart(s, sends, edits, mutations)
    BY <2>4, WeakensParts DEF tt
  <2> DEFINE q == Ignored(s)
  <2>7. q.s = s /\ ~PublishesIdle(q.cmds)
    BY SelfState
  <2> HIDE DEF q
  <2>8. /\ q.s \in CoordinatorState /\ issued \in Nat
        /\ ContinueWith(q, tt, edits, queue, trigger, StopInProgress)
        /\ Drains(q, tt, queue, trigger, StopInProgress)
        /\ EditsPart(q.s, tt, edits) /\ StopPart(q.s, tt, stop)
        /\ MutationsPart(q.s, sends, edits, mutations)
    BY <2>1, <2>3, <2>6, <2>7, Typed DEF q
  <2>9. SessionOK(s', turns', sends, edits', stop, mutations)
    BY <1>5, <2>5, <2>7, <2>8, Typed, DrainClaims
  <2> QED BY <1>4, <2>9 DEF SessionKept
<1>9. CASE ~Flushes(trigger)
  <2>1. ContinueWith(f, tt, edits, queue, "none", StopInProgress)
    BY <1>2, <1>4, <1>9 DEF EndTurn, Continue
  <2>2. Finished(s, t, f) /\ f.s.phase = "idle"
    <3>1. t \in Nat /\ s.life # "disposed"
      BY <1>1, TurnsNat DEF Here
    <3> QED BY <1>2, <3>1, Typed, FinishIs
  <2> HIDE DEF f
  <2> DEFINE st == f.s
  <2>3. /\ st.turn = s.turn /\ st.life = s.life /\ st.op = s.op
        /\ st.reservations = s.reservations /\ st.phase = "idle"
        /\ st \in CoordinatorState /\ st.turn \in Turns
    BY <2>2, Typed DEF Finished
  <2> HIDE DEF st
  <2>4. Quiet(r0) => Quiet(r)
    BY <1>3 DEF Quiet, Pending, Waits
  <2>5. Quiet(r)
    BY <1>3, <1>6, <1>7 DEF Quiet, Pending, Waits, Coherent
  <2>6. Moves(t, r, st)
    <3>1. r.startup = "done" => r0.startup = "done"
      BY <1>3
    <3> QED BY <1>3, <2>3, <2>4, <3>1 DEF Moves
  <2>7. Here(s, r0)
    BY <1>1, <1>2
  <2> HIDE DEF r0
  <2>8. Here(st, r)
    BY <1>3, <1>7, <2>3, <2>5, <2>7 DEF Here
  <2>9. Sole(st, r) /\ Run(st, r)
    BY <1>3, <1>6, <1>7, <2>3 DEF Sole, Run, Engaged, Acting, Coherent
  <2>10. SessionOK(st, tt, sends, edits, stop, mutations)
    BY <1>2, <1>6, <2>6, <2>8, <2>9, TurnMoves DEF tt
  <2>11. SessionOK(s', turns', sends, edits', stop, mutations)
    BY <1>5, <2>1, <2>3, <2>10, Typed, Continues DEF st
  <2> QED BY <1>4, <2>11 DEF SessionKept
<1> QED BY <1>8, <1>9

LEMMA PolicyEndsOK ==
  ASSUME TypeInv, SessionHolds, NEW t \in Turns,
         \/ PolicySucceeds(t) \/ GoalAccounted(t) \/ PolicyFails(t)
         \/ PolicyAborts(t)
  PROVE  SessionKept
<1>1. turns[t].policy \in Acting /\ Current(t)
  BY DEF PolicySucceeds, GoalAccounted, PolicyFails, PolicyAborts, Terminal,
         Acting
<1>2. \E trigger : EndTurn(t, trigger)
  BY Zenon DEF PolicySucceeds, GoalAccounted, PolicyFails, PolicyAborts
<1> QED BY <1>1, <1>2, EndTurnOK

-----------------------------------------------------------------------------
(* Startups and streams.                                                   *)

LEMMA StartupBeginsOK ==
  ASSUME TypeInv, SessionHolds, NEW t \in Turns, StartupBegins(t)
  PROVE  SessionKept
<1> DEFINE r0 == turns[t]
           go == /\ IsCurrentTurn(s, t) /\ s.life = "open"
                 /\ ~r0.aborted /\ ~r0.stale
<1>1. /\ r0.startup = "prepared" /\ UNCHANGED <<sends, edits, stop, mutations>>
      /\ r0 \in Turn
  BY TurnFacts DEF StartupBegins
<1>2. CASE ~go
  <2> DEFINE r == [r0 EXCEPT !.startup = "failing", !.editId = r0.editId]
  <2>1. turns' = Set(t, "startup", "failing") /\ s' = s
    BY <1>2 DEF StartupBegins
  <2>2. r = [r0 EXCEPT !.startup = "failing"]
    BY <1>1 DEF Turn
  <2>3. turns' = [turns EXCEPT ![t] = r]
    BY <2>1, <2>2 DEF Set
  <2>4. SessionOK(s, [turns EXCEPT ![t] = r], sends, edits, stop, mutations)
    BY <1>1, StartupWeakens
  <2> HIDE DEF r
  <2> QED BY <1>1, <2>1, <2>3, <2>4 DEF SessionKept
<1>3. CASE go
  <2> DEFINE r == [r0 EXCEPT !.startup = "starting"]
  <2>1. /\ turns' = [turns EXCEPT ![t] = r] /\ s' = Register(s, t, t).s
        /\ s.turn = t /\ s.life = "open" /\ ~r0.aborted
    BY <1>3 DEF StartupBegins, Set, IsCurrentTurn
  <2>2. /\ Coherent(t, r0) /\ Here(s, r0) /\ (~Soft => Sole(s, r0))
    BY <2>1, TurnFacts
  <2>3. /\ r.startup = "starting" /\ r.editId = r0.editId
        /\ r.aborted = r0.aborted
        /\ r.engine = r0.engine /\ r.cut = r0.cut /\ r.outcome = r0.outcome
        /\ r.policy = r0.policy /\ r.captured = r0.captured
    BY <1>1 DEF Turn
  <2>4. /\ s'.turn = t /\ s'.phase = s.phase /\ s'.life = s.life
        /\ s'.reservations = s.reservations
        /\ s'.op = NewOperation(t)
    BY <2>1, Typed DEF Register, Result, CoordinatorState
  <2>5. /\ s'.op.id = t /\ s'.op.stage = "registered"
        /\ s'.op.delivery = "waiting" /\ t # None
    BY <2>1, <2>4, Typed DEF NewOperation
  <2>6. r0.engine = "off" /\ r0.outcome = "none" /\ r0.policy = "off"
    BY <1>1, <2>2 DEF Coherent
  <2> HIDE DEF r, r0
  <2>7. ~Quiet(r0) /\ s.phase # "idle"
    BY <1>1, <2>1, <2>2 DEF Quiet, Pending, Here
  <2>8. Coherent(t, r)
    BY <2>3, <2>6 DEF Coherent, Acting
  <2>9. Moves(t, r, s')
    BY <2>1, <2>3, <2>4, <2>6, <2>7 DEF Moves, r0
  <2>10. Here(s', r)
    BY <2>1, <2>2, <2>3, <2>4, <2>5, <2>6, <2>7 DEF Here
  <2>11. ~Soft => Sole(s', r) /\ Run(s', r)
    BY <1>1, <2>1, <2>2, <2>3, <2>4, <2>5, <2>6 DEF Sole, Run, Engaged, Acting
  <2>12. SessionOK(s', [turns EXCEPT ![t] = r], sends, edits, stop, mutations)
    BY <2>1, <2>8, <2>9, <2>10, <2>11, TurnMoves DEF RecoversAlone
  <2> QED BY <1>1, <2>1, <2>12 DEF SessionKept
<1> QED BY <1>2, <1>3

LEMMA StreamStartsOK ==
  ASSUME TypeInv, SessionHolds, NEW t \in Turns, StreamStarts(t)
  PROVE  SessionKept
<1> DEFINE r0 == turns[t]
           r == [r0 EXCEPT !.engine = "live"]
<1>1. /\ Waits(r0) /\ ~r0.aborted /\ ~r0.cut /\ stop.at # "stopping"
      /\ turns' = [turns EXCEPT ![t] = r] /\ s' = Started(s, t).s
      /\ UNCHANGED <<sends, edits, stop, mutations>>
  BY DEF StreamStarts, Waiting, Barred, StopInProgress, Waits, Set
<1>2. r0 \in Turn /\ Coherent(t, r0) /\ t = s.turn
  <2>1. t # s.turn => Past(r0)
    BY TurnFacts
  <2> QED BY <1>1, <2>1, TurnFacts DEF Past
<1>3. Here(s, r0) /\ (~Soft => Sole(s, r0))
  BY <1>2, TurnFacts
<1>4. /\ r.startup = r0.startup /\ r.editId = r0.editId
      /\ r.aborted = r0.aborted
      /\ r.engine = "live" /\ r.cut = r0.cut /\ r.outcome = r0.outcome
      /\ r.policy = r0.policy /\ r.captured = r0.captured
  BY <1>2 DEF Turn
<1>5. r0.policy = "off" /\ r0.engine = "off" /\ r0.startup = "starting"
      /\ r0.outcome = "none"
  BY <1>1, <1>2 DEF Waits, Coherent
<1>6. /\ s.op.id = t /\ t # None /\ s.op.delivery = "waiting"
      /\ s.op.stage # "started" /\ s.life # "disposed"
  <2>1. s.op \in Operation
    BY Typed DEF CoordinatorState
  <2>2. s.op.delivery \in {"waiting", "policy"}
    BY <2>1 DEF Operation
  <2> QED BY <1>1, <1>2, <1>3, <1>5, <2>2, Typed DEF Here
<1>7. /\ s'.turn = s.turn /\ s'.phase = "streaming" /\ s'.life = s.life
      /\ s'.reservations = s.reservations
      /\ s'.op = [s.op EXCEPT !.stage = "started", !.msg = t]
  BY <1>1, <1>6, Typed DEF Started, Alive, Result, CoordinatorState
<1>8. /\ s'.op.id = t /\ s'.op.stage = "started" /\ s'.op.delivery = "waiting"
  <2>1. s.op \in Operation
    BY Typed DEF CoordinatorState
  <2> QED BY <1>6, <1>7, <2>1 DEF Operation
<1> HIDE DEF r, r0
<1>9. ~Quiet(r0) /\ s.phase # "idle"
  BY <1>1, <1>3 DEF Quiet, Pending, Here
<1>10. Coherent(t, r)
  BY <1>2, <1>4, <1>5 DEF Coherent, Acting
<1>11. Moves(t, r, s')
  BY <1>1, <1>2, <1>4, <1>5, <1>7, <1>9 DEF Moves, r0
<1>12. Here(s', r)
  BY <1>1, <1>2, <1>3, <1>4, <1>5, <1>7, <1>8 DEF Here
<1>13. Sole(s', r) /\ Run(s', r)
  BY <1>2, <1>4, <1>5, <1>6, <1>7, <1>8 DEF Sole, Run, Engaged
<1>14. SessionOK(s', [turns EXCEPT ![t] = r], sends, edits, stop, mutations)
  BY <1>2, <1>10, <1>11, <1>12, <1>13, TurnMoves
<1> QED BY <1>1, <1>14 DEF SessionKept

(* What the announcement of a terminal event changes.                      *)
LEMMA TerminalIs ==
  ASSUME NEW st \in CoordinatorState, NEW how, NEW t
  PROVE  LET n == RawTerminal(st, how, t).s
         IN /\ n.turn = st.turn /\ n.life = st.life /\ n.op = st.op
            /\ n.reservations = st.reservations
            /\ \/ n.phase = st.phase
               \/ st.phase = "streaming" /\ n.phase = "completing"
BY DEF RawTerminal, BeginDecision, Alive, Ignored, Result, CoordinatorState

LEMMA StreamEndsOK ==
  ASSUME TypeInv, SessionHolds, NEW t \in Turns, StreamEnds(t)
  PROVE  SessionKept
<1>1. PICK how \in Outcomes(t) :
        /\ turns' = [turns EXCEPT ![t].engine = "ended", ![t].outcome = how]
        /\ s' = IF how = "failed" THEN s ELSE RawTerminal(s, how, t).s
  BY DEF StreamEnds
<1> DEFINE r0 == turns[t]
           r == [r0 EXCEPT !.engine = "ended", !.outcome = how]
           c == IF t = s.turn THEN r ELSE turns[s.turn]
<1>2. /\ r0.engine = "live" /\ UNCHANGED <<sends, edits, stop, mutations>>
      /\ turns' = [turns EXCEPT ![t] = r]
      /\ how \in {"completed", "failed", "aborted", "tool-end"}
  BY <1>1, Typed DEF StreamEnds, Outcomes
<1>3. /\ r0 \in Turn /\ Coherent(t, r0)
      /\ RecoversAlone => Run(s, turns[s.turn])
      /\ ~Soft => Sole(s, turns[s.turn])
      /\ Here(s, turns[s.turn])
      /\ t # s.turn => Past(r0)
  BY TurnFacts
<1>4. /\ r.startup = r0.startup /\ r.editId = r0.editId
      /\ r.aborted = r0.aborted
      /\ r.engine = "ended" /\ r.cut = r0.cut /\ r.outcome = how
      /\ r.policy = r0.policy /\ r.captured = r0.captured
  BY <1>3 DEF Turn
<1>5. /\ s'.turn = s.turn /\ s'.life = s.life /\ s'.op = s.op
      /\ s'.reservations = s.reservations
      /\ \/ s'.phase = s.phase
         \/ s.phase = "streaming" /\ s'.phase = "completing"
  BY <1>1, Typed, TerminalIs
<1>6. /\ r0.outcome = "none" /\ r0.policy = "off"
      /\ r0.startup \notin {"none", "reserved", "prepared", "failing"}
  BY <1>2, <1>3 DEF Coherent
<1> HIDE DEF r, r0
<1>7. ~Quiet(r0)
  BY <1>2 DEF Quiet
<1>8. Coherent(t, r)
  BY <1>2, <1>3, <1>4, <1>6 DEF Coherent, Acting
<1>9. t # s.turn => Past(r)
  BY <1>3, <1>4, <1>6 DEF Past, Waits
<1>10. Moves(t, r, s')
  BY <1>2, <1>4, <1>5, <1>6, <1>7 DEF Moves, r0
<1>11. CASE t # s.turn
  <2>1. c = turns[s.turn]
    BY <1>11
  <2> HIDE DEF c
  <2>2. /\ Here(s', c) /\ (~Soft => Sole(s', c))
        /\ RecoversAlone => Run(s', c)
    BY <1>3, <1>5, <2>1 DEF Here, Sole, Run
  <2>3. SessionOK(s', [turns EXCEPT ![t] = r], sends, edits, stop, mutations)
    BY <1>8, <1>9, <1>10, <2>2, TurnMoves DEF c
  <2> QED BY <1>2, <2>3 DEF SessionKept, r0, r
<1>12. CASE t = s.turn
  <2>1. /\ c = r /\ Here(s, r0) /\ (~Soft => Sole(s, r0))
        /\ RecoversAlone => Run(s, r0)
    BY <1>3, <1>12 DEF r0
  <2> HIDE DEF c
  <2>2. Here(s', c)
    BY <1>2, <1>4, <1>5, <1>6, <1>7, <1>12, <2>1 DEF Here
  <2>3. ~Soft => Sole(s', c)
    BY <1>2, <1>4, <1>5, <1>6, <2>1 DEF Sole, Engaged
  <2>4. RecoversAlone => Run(s', c)
    BY <1>2, <1>4, <1>5, <1>6, <2>1 DEF Run, Engaged
  <2>5. SessionOK(s', [turns EXCEPT ![t] = r], sends, edits, stop, mutations)
    BY <1>8, <1>9, <1>10, <2>2, <2>3, <2>4, TurnMoves DEF c
  <2> QED BY <1>2, <2>5 DEF SessionKept, r0, r
<1> QED BY <1>11, <1>12

(* What the arrival of a completion changes.                               *)
LEMMA CompletionIs ==
  ASSUME NEW st \in CoordinatorState, NEW t, NEW on
  PROVE  LET n == Completion(st, t, t, on).s
         IN /\ n.turn = st.turn /\ n.life = st.life /\ n.phase = st.phase
            /\ n.reservations = st.reservations
            /\ n.op.id = st.op.id /\ n.op.stage = st.op.stage
            /\ n.op.delivery = "policy" =>
                 st.op.delivery = "policy" \/ st.op.id = t
<1> DEFINE n == Completion(st, t, t, on).s
           op == [st.op EXCEPT !.msg = t, !.delivery = "policy",
                    !.notified = \/ st.op.notified
                                 \/ st.op.stage = "registered" /\ on]
<1>1. st.op \in Operation
  BY DEF CoordinatorState
<1>2. op.id = st.op.id /\ op.stage = st.op.stage
  BY <1>1 DEF Operation
<1>3. \/ n = st
      \/ n = [st EXCEPT !.op.msg = t, !.op.delivery = "policy",
                        !.op.notified = \/ st.op.notified
                                        \/ st.op.stage = "registered" /\ on]
         /\ st.op.id = t
  BY DEF Completion, Alive, Ignored, Result
<1>4. \/ n = st
      \/ n = [st EXCEPT !.op = op] /\ st.op.id = t
  BY <1>1, <1>3 DEF CoordinatorState, Operation
<1> HIDE DEF n, op
<1>5. CASE n = st
  BY <1>5 DEF n
<1>6. CASE n = [st EXCEPT !.op = op] /\ st.op.id = t
  <2>1. /\ n.turn = st.turn /\ n.life = st.life /\ n.phase = st.phase
        /\ n.reservations = st.reservations /\ n.op = op
    BY <1>6 DEF CoordinatorState
  <2> QED BY <1>2, <1>6, <2>1 DEF n
<1> QED BY <1>4, <1>5, <1>6

LEMMA CompletionArrivesOK ==
  ASSUME TypeInv, SessionHolds, NEW t \in Turns, CompletionArrives(t)
  PROVE  SessionKept
<1> DEFINE r0 == turns[t]
           v == IF IsCurrentOperation(s, t) /\ r0.outcome # "cancelled"
                  THEN "entered" ELSE "done"
           r == [r0 EXCEPT !.policy = v]
           c == IF t = s.turn THEN r ELSE turns[s.turn]
<1>1. /\ r0.startup \in {"delivered", "done"} /\ r0.outcome # "none"
      /\ r0.policy = "off"
      /\ turns' = [turns EXCEPT ![t] = r]
      /\ \E on : s' = Completion(s, t, t, on).s
      /\ UNCHANGED <<sends, edits, stop, mutations>>
  BY DEF CompletionArrives, Set
<1>2. /\ r0 \in Turn /\ Coherent(t, r0)
      /\ RecoversAlone => Run(s, turns[s.turn])
      /\ ~Soft => Sole(s, turns[s.turn])
      /\ Here(s, turns[s.turn])
      /\ t # s.turn => Past(r0)
  BY TurnFacts
<1>3. /\ r.startup = r0.startup /\ r.editId = r0.editId
      /\ r.aborted = r0.aborted
      /\ r.engine = r0.engine /\ r.cut = r0.cut /\ r.outcome = r0.outcome
      /\ r.policy = v /\ r.captured = r0.captured
  BY <1>2 DEF Turn
<1>4. /\ s'.turn = s.turn /\ s'.life = s.life /\ s'.phase = s.phase
      /\ s'.reservations = s.reservations
      /\ s'.op.id = s.op.id /\ s'.op.stage = s.op.stage
      /\ s'.op.delivery = "policy" =>
           s.op.delivery = "policy" \/ s.op.id = t
  BY <1>1, Typed, CompletionIs
<1>5. r0.engine = "ended" \/ (r0.engine = "off" /\ r0.outcome = "cancelled")
  BY <1>1, <1>2 DEF Coherent, Turn
<1>6. /\ v \in {"entered", "done"}
      /\ v = "entered" =>
           /\ s.op.id = t /\ r0.outcome # "cancelled" /\ t # None
           /\ t = s.turn
      /\ t = s.turn /\ s.op.id = t /\ r0.outcome # "cancelled" => v = "entered"
  <2>1. t # None
    BY TurnsNat DEF Turns, None
  <2> QED BY <1>2, <2>1 DEF IsCurrentOperation, Here
<1> HIDE DEF r, r0, v
<1>7. Quiet(r0) => Quiet(r)
  BY <1>3 DEF Quiet, Pending, Waits
<1>8. Coherent(t, r)
  BY <1>1, <1>2, <1>3, <1>5, <1>6 DEF Coherent, Acting
<1>9. t # s.turn => Past(r)
  BY <1>2, <1>3, <1>6 DEF Past, Waits
<1>10. Moves(t, r, s')
  BY <1>1, <1>3, <1>4, <1>5, <1>7 DEF Moves, r0
<1>11. CASE t # s.turn
  <2>1. c = turns[s.turn]
    BY <1>11
  <2> HIDE DEF c
  <2>2. s.op.id # t
    BY <1>2, <1>11, TurnsNat DEF Here, Turns, None
  <2>3. /\ Here(s', c) /\ (~Soft => Sole(s', c))
        /\ RecoversAlone => Run(s', c)
    BY <1>2, <1>4, <2>1, <2>2 DEF Here, Sole, Run
  <2>4. SessionOK(s', [turns EXCEPT ![t] = r], sends, edits, stop, mutations)
    BY <1>8, <1>9, <1>10, <2>3, TurnMoves DEF c
  <2> QED BY <1>1, <2>4 DEF SessionKept
<1>12. CASE t = s.turn
  <2>1. /\ c = r /\ Here(s, r0) /\ (~Soft => Sole(s, r0))
        /\ RecoversAlone => Run(s, r0)
    BY <1>2, <1>12 DEF r0
  <2> HIDE DEF c
  <2>2. Here(s', c)
    BY <1>3, <1>4, <1>6, <1>7, <1>12, <2>1, <1>1 DEF Here
  <2>3. ~Soft => Sole(s', c)
    <3>1. v = "entered" => r0.engine # "off"
      BY <1>5, <1>6
    <3> QED BY <1>1, <1>3, <1>4, <1>5, <1>6, <1>12, <2>1, <3>1
            DEF Sole, Engaged, Acting
  <2>4. RecoversAlone => Run(s', c)
    <3>1. r0.engine # "off" => r0.outcome # "cancelled"
      BY <1>2, <1>5 DEF Coherent
    <3>2. Engaged(r0) => r0.engine # "off"
      BY <1>1 DEF Engaged, Acting
    <3>3. s.op.id # None => s.op.id = t
      BY <1>12, <2>1 DEF Here
    <3>4. Run(s, r0) => Run(s', r)
      BY <1>3, <1>4, <1>6, <1>12, <3>1, <3>2, <3>3 DEF Run, Engaged
    <3> QED BY <2>1, <3>4
  <2>5. SessionOK(s', [turns EXCEPT ![t] = r], sends, edits, stop, mutations)
    BY <1>8, <1>9, <1>10, <2>2, <2>3, <2>4, TurnMoves DEF c
  <2> QED BY <1>1, <2>5 DEF SessionKept
<1> QED BY <1>11, <1>12

LEMMA PolicyIs ==
  ASSUME NEW st \in CoordinatorState, st.life # "disposed"
  PROVE  LET n == CompletePolicy(st, st.turn).s
         IN /\ n.turn = st.turn /\ n.life = st.life /\ n.op = st.op
            /\ n.reservations = st.reservations /\ n.phase = "completing"
BY DEF CompletePolicy, Alive, Result, CoordinatorState

LEMMA PolicyHandlesOK ==
  ASSUME TypeInv, SessionHolds, NEW t \in Turns, PolicyHandles(t)
  PROVE  SessionKept
<1> DEFINE r0 == turns[t]
           v == IF IsCurrentOperation(s, t) THEN "handling" ELSE "done"
           r == [r0 EXCEPT !.captured = s.turn, !.policy = v]
           c == IF t = s.turn THEN r ELSE turns[s.turn]
<1>1. /\ r0.policy = "entered" /\ s' = CompletePolicy(s, s.turn).s
      /\ turns' = [turns EXCEPT ![t] = r]
      /\ UNCHANGED <<sends, edits, stop, mutations>>
  BY Typed DEF PolicyHandles
<1>2. /\ r0 \in Turn /\ Coherent(t, r0)
      /\ RecoversAlone => Run(s, turns[s.turn])
      /\ ~Soft => Sole(s, turns[s.turn])
      /\ Here(s, turns[s.turn])
      /\ t # s.turn => Past(r0)
  BY TurnFacts
<1>3. /\ r.startup = r0.startup /\ r.editId = r0.editId
      /\ r.aborted = r0.aborted
      /\ r.engine = r0.engine /\ r.cut = r0.cut /\ r.outcome = r0.outcome
      /\ r.policy = v /\ r.captured = s.turn
  BY <1>2 DEF Turn
<1>4. /\ s'.turn = s.turn /\ s'.life = s.life /\ s'.phase = "completing"
      /\ s'.reservations = s.reservations /\ s'.op = s.op
  BY <1>1, <1>2, Typed, PolicyIs DEF Here
<1>5. /\ r0.outcome \notin {"none", "cancelled"} /\ r0.engine = "ended"
      /\ r0.startup # "starting"
  BY <1>1, <1>2 DEF Coherent, Turn
<1>6. /\ v \in {"handling", "done"}
      /\ v = "handling" => s.op.id = t /\ t = s.turn
      /\ s.op.id = t => v = "handling"
  <2>1. t # None
    BY TurnsNat DEF Turns, None
  <2> QED BY <1>2, <2>1 DEF IsCurrentOperation, Here
<1>7. ~Soft => t = s.turn /\ s.op.id = t /\ s.phase # "idle"
  <2>1. ~Soft => t = s.turn
    BY <1>1, <1>2 DEF Past
  <2>2. ~Soft => Sole(s, r0)
    BY <1>2, <2>1
  <2> QED BY <1>1, <2>1, <2>2, Typed DEF Sole, Engaged
<1> HIDE DEF r, r0, v
<1>8. Quiet(r0) => Quiet(r)
  BY <1>3 DEF Quiet, Pending, Waits
<1>9. Coherent(t, r)
  BY <1>1, <1>2, <1>3, <1>5, <1>6 DEF Coherent, Acting
<1>10. t # s.turn => Past(r)
  BY <1>2, <1>3, <1>6 DEF Past, Waits
<1>11. Moves(t, r, s')
  BY <1>1, <1>3, <1>4, <1>5, <1>7, <1>8 DEF Moves, r0
<1>12. CASE t # s.turn
  <2>1. c = turns[s.turn]
    BY <1>12
  <2> HIDE DEF c
  <2>2. /\ Here(s', c) /\ Soft
    BY <1>2, <1>4, <1>7, <1>12, <2>1 DEF Here
  <2>3. SessionOK(s', [turns EXCEPT ![t] = r], sends, edits, stop, mutations)
    BY <1>9, <1>10, <1>11, <2>2, TurnMoves DEF c, RecoversAlone
  <2> QED BY <1>1, <2>3 DEF SessionKept
<1>13. CASE t = s.turn
  <2>1. /\ c = r /\ Here(s, r0) /\ (~Soft => Sole(s, r0))
    BY <1>2, <1>13 DEF r0
  <2> HIDE DEF c
  <2>2. Here(s', c)
    BY <1>1, <1>3, <1>4, <1>5, <1>6, <1>13, <2>1 DEF Here
  <2>3. ~Soft => Sole(s', c)
    BY <1>3, <1>4, <1>5, <1>6, <2>1 DEF Sole
  <2>4. RecoversAlone => Run(s', c)
    <3>1. ~Soft => v = "handling" /\ s.op.id # None
      BY <1>6, <1>7, Typed
    <3> QED BY <1>3, <1>4, <2>1, <3>1 DEF Run, Engaged, RecoversAlone, Acting
  <2>5. SessionOK(s', [turns EXCEPT ![t] = r], sends, edits, stop, mutations)
    BY <1>9, <1>10, <1>11, <2>2, <2>3, <2>4, TurnMoves DEF c
  <2> QED BY <1>1, <2>5 DEF SessionKept
<1> QED BY <1>12, <1>13

LEMMA StartupFailsOK ==
  ASSUME TypeInv, SessionHolds, NEW t \in Turns, StartupFails(t)
  PROVE  SessionKept
<1> DEFINE r0 == turns[t]
           e == r0.editId
           w == WithoutEdit(t).s
           st == CompletePolicy(s, s.turn).s
           r == [r0 EXCEPT !.startup = "failing", !.outcome = "failed",
                           !.policy = "handling", !.captured = t,
                           !.editId = None]
           tt == [turns EXCEPT ![t] = r]
<1>1. /\ Waits(r0) /\ s.turn = t /\ s.op.id = t
      /\ s' = CompletePolicy(w, t).s
      /\ turns' = tt
      /\ UNCHANGED <<sends, edits, stop, mutations>>
  <2>1. [turns EXCEPT ![t].startup = "failing", ![t].outcome = "failed",
                      ![t].policy = "handling", ![t].captured = t,
                      ![t].editId = None] = tt
    BY Typed
  <2> QED BY <2>1 DEF StartupFails, Waiting, Waits, Owns, IsCurrentTurn,
                      IsCurrentOperation
<1>2. r0 \in Turn /\ Coherent(t, r0) /\ Here(s, r0) /\ (~Soft => Sole(s, r0))
  BY <1>1, TurnFacts
<1>3. /\ r.startup = "failing" /\ r.editId = None
      /\ r.aborted = r0.aborted
      /\ r.engine = r0.engine /\ r.cut = r0.cut /\ r.outcome = "failed"
      /\ r.policy = "handling" /\ r.captured = t
  BY <1>2 DEF Turn
<1>4. /\ st.turn = s.turn /\ st.life = s.life /\ st.phase = "completing"
      /\ st.reservations = s.reservations /\ st.op = s.op
  BY <1>2, Typed, PolicyIs DEF Here
<1>5. t # None /\ s.life # "disposed"
  BY <1>1, <1>2, Typed DEF Here
<1>6. \/ e = None /\ s' = st
      \/ /\ e # None
         /\ s'.turn = s.turn /\ s'.life = s.life /\ s'.phase = "completing"
         /\ s'.op = s.op
         /\ s'.reservations = s.reservations \ {[id |-> e, kind |-> "edit"]}
  <2>1. CASE e = None
    <3>1. w = s
      BY <2>1, SelfState DEF WithoutEdit
    <3> QED BY <1>1, <2>1, <3>1
  <2>2. CASE e # None
    <3>1. w = Release(s, e, "edit").s
      BY <2>2 DEF WithoutEdit
    <3> HIDE DEF w, e
    <3>2. /\ w \in CoordinatorState /\ w.turn = s.turn
          /\ w.life = s.life /\ w.op = s.op
          /\ w.reservations = s.reservations \ {[id |-> e, kind |-> "edit"]}
      BY <1>5, <3>1, Typed, ReleaseIs
    <3>3. s' = CompletePolicy(w, w.turn).s /\ w.life # "disposed"
      BY <1>1, <1>5, <3>2
    <3>4. /\ s'.turn = w.turn /\ s'.life = w.life /\ s'.phase = "completing"
          /\ s'.reservations = w.reservations /\ s'.op = w.op
      BY <3>2, <3>3, PolicyIs
    <3> QED BY <2>2, <3>2, <3>4 DEF e
  <2> QED BY <2>1, <2>2
<1>7. e \in Edits => edits[e].at \notin Holding
  <2>1. e \in Edits => e # None
    BY CallsNat DEF None
  <2> QED BY <2>1 DEF SessionHolds, SessionOK, EditsPart, EditTurns, Holding
<1> HIDE DEF r, e, w, st
<1>8. r0.engine = "off" /\ r0.startup = "starting" /\ r0.policy = "off"
  BY <1>1, <1>2 DEF Waits, Coherent
<1>9. ~r0.aborted /\ s.op.stage # "started"
  BY <1>1, <1>2, <1>5, <1>8 DEF Here
<1> HIDE DEF r0
<1>10. ~Quiet(r0) /\ s.phase # "idle"
  BY <1>1, <1>2, <1>9 DEF Quiet, Pending, Here
<1>11. Coherent(t, r)
  BY <1>3, <1>8 DEF Coherent, Acting
<1>12. Moves(t, r, st)
  BY <1>1, <1>3, <1>4, <1>8, <1>10 DEF Moves, r0
<1>13. Here(st, r)
  BY <1>1, <1>2, <1>3, <1>4, <1>5, <1>8, <1>9 DEF Here
<1>14. Sole(st, r) /\ Run(st, r)
  BY <1>1, <1>3, <1>4, <1>5, <1>8 DEF Sole, Run, Engaged, Acting
<1>15. SessionOK(st, tt, sends, edits, stop, mutations)
  BY <1>1, <1>11, <1>12, <1>13, <1>14, TurnMoves
<1> HIDE DEF tt
<1>16. CASE e = None
  BY <1>1, <1>6, <1>15, <1>16 DEF SessionKept
<1>17. CASE e # None
  <2>1. /\ s'.turn = st.turn /\ s'.phase = st.phase /\ s'.life = st.life
        /\ s'.op = st.op
        /\ s'.reservations = st.reservations \ {[id |-> e, kind |-> "edit"]}
    BY <1>4, <1>6, <1>17
  <2>2. SessionOK(s', tt, sends, edits, stop, mutations)
    BY <1>7, <1>15, <2>1, EditGoes
  <2> QED BY <1>1, <2>2 DEF SessionKept
<1> QED BY <1>16, <1>17

-----------------------------------------------------------------------------
(* The whole step.                                                         *)

LEMMA InitHolds == Init => SessionHolds
<1> SUFFICES ASSUME Init PROVE SessionHolds
  OBVIOUS
<1>1. /\ s.life = "open" /\ s.phase = "idle" /\ s.turn = 1 /\ s.op.id = None
      /\ s.reservations = {}
  BY DEF Init, InitialState, NoOperation, NewOperation
<1>2. \A t \in Turns :
        /\ turns[t].startup = "none" /\ turns[t].engine = "off"
        /\ turns[t].outcome = "none" /\ turns[t].policy = "off"
        /\ turns[t].editId = None /\ turns[t].aborted = FALSE
  BY DEF Init, NoTurn
<1>3. 1 \in Turns
  BY TurnsNat
<1>4. TurnsPart(s, turns)
  <2>1. \A t \in Turns : Coherent(t, turns[t]) /\ Past(turns[t])
    BY <1>2 DEF Coherent, Past, Waits, Acting
  <2>2. /\ Here(s, turns[s.turn]) /\ Sole(s, turns[s.turn])
        /\ Run(s, turns[s.turn])
    BY <1>1, <1>2, <1>3 DEF Here, Sole, Run, Quiet, Pending, Waits
  <2> QED BY <2>1, <2>2 DEF TurnsPart
<1>5. SendsPart(s, turns, sends)
  BY DEF SendsPart, Init
<1>6. EditsPart(s, turns, edits)
  BY <1>1, <1>2 DEF EditsPart, EditHolds, EditTurns, Holding, Init
<1>7. StopPart(s, turns, stop) /\ MutationsPart(s, sends, edits, mutations)
  BY <1>1 DEF StopPart, MutationsPart, Init
<1> QED BY <1>4, <1>5, <1>6, <1>7 DEF SessionHolds, SessionOK

LEMMA SendStepOK ==
  ASSUME TypeInv, SessionHolds, NEW x \in Sends,
         SendArrives(x) \/ Sending(x)
  PROVE  SessionKept
BY SendArrivesOK, SendDecidesOK, SendLeavesOK, SendPreparesOK DEF Sending

LEMMA TurnStepOK ==
  ASSUME TypeInv, SessionHolds, NEW t \in Turns,
         \/ Startup(t) \/ Failure(t) \/ StreamEnds(t)
         \/ Completing(t) \/ Detour(t)
  PROVE  SessionKept
<1>1. CASE Startup(t)
  BY <1>1, QueuedPreparesOK, StartupBeginsOK, StreamStartsOK,
     StartupDeliversOK, StartupCancelledOK, PreparationCompletesOK
     DEF Startup
<1>2. CASE Failure(t)
  BY <1>2, PreparationFailsOK, StartupFailsOK DEF Failure
<1>3. CASE StreamEnds(t)
  BY <1>3, StreamEndsOK
<1>4. CASE Completing(t)
  <2>1. CASE CompletionArrives(t) \/ PolicyHandles(t)
    BY <2>1, CompletionArrivesOK, PolicyHandlesOK
  <2>2. CASE Ending(t)
    BY <2>2, PolicyMovesOK, PolicyEndsOK, RecoveryHandsOffOK, FollowUpIsSentOK
       DEF Ending
  <2> QED BY <1>4, <2>1, <2>2 DEF Completing
<1>5. CASE Detour(t)
  BY <1>5, PolicyMovesOK DEF Detour
<1> QED BY <1>1, <1>2, <1>3, <1>4, <1>5

LEMMA EditStepOK ==
  ASSUME TypeInv, SessionHolds, NEW e \in Edits, EditArrives(e) \/ Editing(e)
  PROVE  SessionKept
<1>1. CASE EditArrives(e) \/ EditDecides(e) \/ EditReserves(e)
  BY <1>1, EditArrivesOK, EditDecidesOK, EditReservesOK
<1>2. CASE EditRefused(e)
  BY <1>2, EditEndsOK DEF EditRefused
<1>3. CASE EditInterrupts(e) \/ EditPreempts(e) \/ EditSettles(e)
  BY <1>3, EditInterruptsOK, EditPreemptsOK, EditSettlesOK
<1>4. CASE EditTruncates(e) \/ EditPrepares(e) \/ EditReturns(e)
  BY <1>4, EditTruncatesOK, EditPreparesOK, EditReturnsOK
<1> QED BY <1>1, <1>2, <1>3, <1>4 DEF Editing

LEMMA NextSession ==
  ASSUME TypeInv, SessionHolds, NoMixedSendNow, Next PROVE SessionKept
<1>1. CASE \E x \in Sends : SendArrives(x) \/ Sending(x)
  BY <1>1, SendStepOK
<1>2. CASE \E t \in Turns : \/ Startup(t) \/ Failure(t) \/ StreamEnds(t)
                            \/ Completing(t) \/ Detour(t)
  BY <1>2, TurnStepOK
<1>3. CASE \E e \in Edits : EditArrives(e) \/ Editing(e)
  BY <1>3, EditStepOK
<1>4. CASE \E how \in {"stop", "send-now"} : StopBegins(how)
  BY <1>4, StopBeginsOK
<1>5. CASE StopEnds \/ SoftSendNow \/ BeginShutdown
  BY <1>5, StopEndsOK, SoftSendNowOK, BeginShutdownOK
<1>6. CASE \E m \in Mutations : MutationBegins(m) \/ MutationEnds(m)
  BY <1>6, MutationBeginsOK, MutationEndsOK
<1> QED BY <1>1, <1>2, <1>3, <1>4, <1>5, <1>6 DEF Next

LEMMA KeptHolds == ASSUME SessionKept, cast' = cast PROVE SessionHolds'
<1>1. TurnsPart(s', turns') => TurnsPart(s, turns)'
  BY DEF TurnsPart, Coherent, Past, Here, Sole, Run, Soft, RecoversAlone,
         Editors, Paths, Turns, Quiet, Pending, Waits, Engaged, Acting
<1>2. SendsPart(s', turns', sends') => SendsPart(s, turns, sends)'
  BY DEF SendsPart, Settled, Soft, Paths, Quiet, Pending, Waits
<1>3. EditsPart(s', turns', edits') => EditsPart(s, turns, edits)'
  BY DEF EditsPart, EditHolds, EditTurns, Settled, Soft, Paths, Quiet,
         Pending, Waits, Holding, Editors, Turns
<1>4. StopPart(s', turns', stop') => StopPart(s, turns, stop)'
  BY DEF StopPart, Soft, Paths, Turns
<1>5. MutationsPart(s', sends', edits', mutations')
        => MutationsPart(s, sends, edits, mutations)'
  BY DEF MutationsPart, CallsAway, Soft, Paths
<1> QED BY <1>1, <1>2, <1>3, <1>4, <1>5 DEF SessionKept, SessionHolds, SessionOK

LEMMA StutterHolds ==
  ASSUME SessionHolds, UNCHANGED <<vars, cast>> PROVE SessionHolds'
<1>1. SessionKept
  BY DEF vars, SessionHolds, SessionKept
<1> QED BY <1>1, KeptHolds

LEMMA SessionInvariant == Spec => [](NoMixedSendNow => SessionHolds)
<1>1. Init => (NoMixedSendNow => SessionHolds)
  BY InitHolds
<1>2. /\ TypeInv /\ (NoMixedSendNow => SessionHolds)
      /\ [Next /\ UNCHANGED cast]_<<vars, cast>>
      => (NoMixedSendNow => SessionHolds)'
  <2> SUFFICES ASSUME TypeInv, NoMixedSendNow => SessionHolds,
                      [Next /\ UNCHANGED cast]_<<vars, cast>>,
                      NoMixedSendNow'
               PROVE  SessionHolds'
    OBVIOUS
  <2>1. cast' = cast
    OBVIOUS
  <2>2. NoMixedSendNow
    BY <2>1 DEF NoMixedSendNow, Soft, Paths
  <2>3. CASE Next
    BY <2>1, <2>2, <2>3, NextSession, KeptHolds
  <2>4. CASE UNCHANGED <<vars, cast>>
    BY <2>2, <2>4, StutterHolds
  <2> QED BY <2>3, <2>4
<1> QED BY <1>1, <1>2, SessionTyped, PTL DEF Spec

-----------------------------------------------------------------------------
(* The properties that follow.                                             *)

LEMMA HoldsCurrent == ASSUME TypeInv, SessionHolds PROVE StreamIsCurrent
<1> SUFFICES ASSUME NEW t \in Turns,
                    turns[t].engine = "live" \/ (Waiting(t) /\ ~Barred(t)),
                    t # s.turn
             PROVE  Soft /\ turns[t].cut
  BY DEF StreamIsCurrent, Soft
<1>1. Past(turns[t])
  BY TurnFacts
<1> QED BY <1>1 DEF Past, Waits, Waiting, Barred

LEMMA HoldsOwner ==
  ASSUME TypeInv, SessionHolds, RecoversAlone PROVE TurnHasOwner
<1> DEFINE c == turns[s.turn]
<1> SUFFICES ASSUME s.life = "open", s.phase # "idle"
             PROVE  IF s.phase = "preparing"
                    THEN c.startup \notin {"none", "done"}
                    ELSE /\ s.op.id = s.turn
                         /\ \/ c.policy \in
                                  {"entered", "handling", "recovering",
                                   "continuing", "flushing", "accounting"}
                            \/ c.policy = "off" /\
                                 (c.engine # "off" \/ c.outcome # "none")
  BY DEF TurnHasOwner
<1>1. Here(s, c) /\ Run(s, c)
  BY Typed, TurnFacts
<1>2. CASE s.phase = "preparing"
  BY <1>1, <1>2 DEF Here
<1>3. CASE s.phase # "preparing"
  <2>1. s.phase \in {"streaming", "completing"}
    BY <1>3, Typed DEF CoordinatorState, Phases
  <2> QED BY <1>1, <1>3, <2>1 DEF Here, Run, Engaged, Acting
<1> QED BY <1>2, <1>3

LEMMA OneAtMost ==
  ASSUME NEW X, \A x, y \in X : x = y PROVE Cardinality(X) <= 1
<1>1. CASE X = {}
  BY <1>1, FS_EmptySet
<1>2. CASE X # {}
  <2>1. PICK x \in X : TRUE
    BY <1>2
  <2>2. X = {x}
    BY <2>1
  <2>3. Cardinality({x}) = 1
    BY FS_Singleton
  <2> QED BY <2>2, <2>3
<1> QED BY <1>1, <1>2

LEMMA HoldsOneWriter ==
  ASSUME TypeInv, SessionHolds, OneEditor PROVE HistoryHasOneWriter
<1> DEFINE c == turns[s.turn]
           E == {e \in Edits : edits[e].at \in {"truncating", "truncated"}}
           M == {m \in Mutations : mutations[m] = "mutating"}
<1>1. ~Soft /\ \A e, f \in Editors : e = f
  BY DEF OneEditor
<1>2. \A e \in E : e \in Editors /\ s.phase = "idle"
  BY <1>1, EditHeld DEF EditHolds, Editors
<1>3. \A m \in M : /\ s.phase = "idle" /\ \A k \in M : k = m
                   /\ E = {}
  BY <1>1 DEF SessionHolds, SessionOK, MutationsPart, CallsAway
<1>4. Rewriting = E \cup M
  BY DEF Rewriting
<1> HIDE DEF E, M
<1>5. Cardinality(Rewriting) <= 1
  <2>1. \A x, y \in Rewriting : x = y
    BY <1>1, <1>2, <1>3, <1>4
  <2> QED BY <2>1, OneAtMost
<1>6. ASSUME s.phase = "idle", NEW t \in Turns
      PROVE  /\ turns[t].engine # "live"
             /\ turns[t].startup \in {"prepared", "starting"} /\ s.turn = t =>
                  turns[t].aborted
  <2>1. AllPast(turns)
    BY <1>6, Typed, IdlePast DEF SessionHolds, SessionOK
  <2>2. turns[t].engine # "live" /\ Coherent(t, turns[t])
    BY <1>1, <2>1 DEF AllPast, Past
  <2>3. Here(s, c) /\ Sole(s, c)
    BY <1>1, Typed, TurnFacts
  <2> HIDE DEF c
  <2>4. CASE s.turn = t
    <3>1. c = turns[t]
      BY <2>4 DEF c
    <3> QED BY <1>6, <2>2, <2>3, <2>4, <3>1, Typed
            DEF Here, Sole, Engaged, Coherent
  <2> QED BY <2>2, <2>4
<1>7. Rewriting # {} => s.phase = "idle"
  BY <1>2, <1>3, <1>4
<1> QED BY <1>5, <1>6, <1>7 DEF HistoryHasOneWriter

(* A stream that runs, or a startup that can still reach the provider, is  *)
(* the current turn's, through edits, stops, retries and recoveries: the   *)
(* checks streamWithHistory makes after its awaits (agentSession.ts:8882)  *)
(* leave no startup of a replaced turn alive.  Soft send-now is allowed,   *)
(* only not beside a send-now.                                             *)
THEOREM CurrentStream == Spec => [](NoMixedSendNow => StreamIsCurrent)
<1>1. TypeInv /\ (NoMixedSendNow => SessionHolds)
        => (NoMixedSendNow => StreamIsCurrent)
  BY HoldsCurrent
<1> QED BY <1>1, SessionTyped, SessionInvariant, PTL

(* A busy session always has somebody to end its turn: a preparing turn    *)
(* its startup, a streaming or completing one the stream or the handler    *)
(* of its operation (handleTurnSuccess, handleTurnAbort and                *)
(* handleStreamError of agentSession.ts), for every mix of the calls.  The *)
(* hypothesis sets aside an edit during an emergency rollover, where the   *)
(* code does lose the owner.                                               *)
THEOREM OwnedTurns == Spec => [](RecoversAlone => TurnHasOwner)
<1>1. TypeInv /\ (NoMixedSendNow => SessionHolds)
        => (RecoversAlone => TurnHasOwner)
  BY HoldsOwner DEF RecoversAlone, NoMixedSendNow
<1> QED BY <1>1, SessionTyped, SessionInvariant, PTL

(* While an edit truncates history or a context mutation discards it, the  *)
(* session is idle, no turn runs or can start, and nobody else rewrites:   *)
(* the reservation an edit takes before it interrupts, and the block a     *)
(* mutation arms before it looks (contextMutationGate.ts:104), exclude     *)
(* each other and every turn.  It is about one edit at a time: nothing     *)
(* excludes a second one that arrives during the first's check.  A soft    *)
(* send-now is left out: the stream it cuts stays on air until its next    *)
(* boundary, and an edit that finds the session idle after the             *)
(* replacement's start-up failed does not wait for it.                     *)
THEOREM OneHistoryWriter == Spec => [](OneEditor => HistoryHasOneWriter)
<1>1. TypeInv /\ (NoMixedSendNow => SessionHolds)
        => (OneEditor => HistoryHasOneWriter)
  BY HoldsOneWriter DEF OneEditor, NoMixedSendNow
<1> QED BY <1>1, SessionTyped, SessionInvariant, PTL

-----------------------------------------------------------------------------
(* A policy moves the phase only while its operation is the current one.   *)

Runs(u) == turns[u].policy # "off"
Harmless ==
  \A u \in Turns : Runs(u) /\ turns'[u].policy # turns[u].policy =>
    IsCurrentOperation(s, u) \/ s'.phase = s.phase

(* tt changes the policies of none but the turns of T.                     *)
Others(tt, T) ==
  \A u \in Turns \ T : Runs(u) => tt[u].policy = turns[u].policy
Keeps(tt, T) == tt \in [Turns -> Turn] /\ Others(tt, T)

LEMMA KeepsHarmless ==
  ASSUME NEW T, Keeps(turns', T),
         \A t \in T : IsCurrentOperation(s, t) \/ s'.phase = s.phase
  PROVE  Harmless
BY DEF Keeps, Others, Harmless

LEMMA AddsKeeps ==
  ASSUME TypeInv, NEW T, NEW tt, Keeps(tt, T), NEW c, NEW t2,
         t2 = [tt EXCEPT ![issued + 1] = c]
  PROVE  Others(t2, T)
<1> SUFFICES ASSUME NEW u \in Turns \ T, Runs(u)
             PROVE  t2[u].policy = turns[u].policy
  BY DEF Others
<1>1. u # issued + 1
  <2>1. issued \in Nat /\ u \in Nat
    BY Typed, TurnsNat
  <2>2. u > issued => turns[u] = NoTurn
    BY DEF TypeInv, TurnsOK
  <2>3. ~(u > issued)
    BY <2>2, NotNoTurn DEF Runs
  <2> QED BY <2>1, <2>3
<1> QED BY <1>1 DEF Keeps, Others

LEMMA ContinueHarmless ==
  ASSUME TypeInv, NEW T, NEW r, NEW tt, Keeps(tt, T), NEW ed, NEW q,
         NEW trigger, NEW latched, ContinueWith(r, tt, ed, q, trigger, latched),
         \A t \in T : IsCurrentOperation(s, t)
  PROVE  Harmless
<1>1. CASE Stays(r, tt, q)
  BY <1>1 DEF Stays, Keeps, Others, Harmless
<1>2. CASE Drains(r, tt, q, trigger, latched)
  <2> DEFINE c == ClaimedBy("queue", Head(q), None)
  <2>1. turns' = [tt EXCEPT ![issued + 1] = c]
    BY <1>2 DEF Drains
  <2> HIDE DEF c
  <2>2. Others(turns', T)
    BY <2>1, AddsKeeps
  <2> QED BY <2>2 DEF Harmless, Others
<1> QED BY <1>1, <1>2, ContinueCases

LEMMA ClaimHarmless ==
  ASSUME TypeInv, NEW T, NEW req, NEW who, NEW x, NEW e, NEW tt, Keeps(tt, T),
         Claim(req, ClaimedBy(who, x, e), tt),
         \A t \in T : IsCurrentOperation(s, t)
  PROVE  Harmless
<1> DEFINE c == ClaimedBy(who, x, e)
<1>1. turns' = [tt EXCEPT ![issued + 1] = c]
  BY DEF Claim
<1> HIDE DEF c
<1>2. Others(turns', T)
  BY <1>1, AddsKeeps
<1> QED BY <1>2 DEF Harmless, Others

LEMMA SelfKeeps == ASSUME TypeInv PROVE Keeps(turns, {})
BY Typed DEF Keeps, Others

(* The record r of one turn replaces another.                              *)
LEMMA RecordKeeps ==
  ASSUME TypeInv, NEW t \in Turns, NEW r \in Turn, NEW T,
         t \in T \/ r.policy = turns[t].policy \/ ~Runs(t)
  PROVE  Keeps([turns EXCEPT ![t] = r], T)
BY Typed DEF Keeps, Others

LEMMA SendHarmless ==
  ASSUME TypeInv, NEW x \in Sends, SendArrives(x) \/ Sending(x)
  PROVE  Harmless
<1>1. CASE SendArrives(x) \/ SendDecides(x)
  BY <1>1 DEF SendArrives, SendDecides, Harmless
<1>2. CASE SendRefused(x) \/ SendReturns(x)
  BY <1>2, SelfKeeps, ContinueHarmless DEF SendRefused, SendReturns, Continue
<1>3. CASE SendPrepares(x)
  BY <1>3, SelfKeeps, ClaimHarmless DEF SendPrepares
<1> QED BY <1>1, <1>2, <1>3 DEF Sending

LEMMA EditHarmless ==
  ASSUME TypeInv, NEW e \in Edits, EditArrives(e) \/ Editing(e)
  PROVE  Harmless
<1>1. CASE \/ EditArrives(e) \/ EditDecides(e) \/ EditInterrupts(e)
           \/ EditTruncates(e)
  BY <1>1 DEF EditArrives, EditDecides, EditInterrupts, EditTruncates, Harmless
<1>2. CASE EditReserves(e)
  BY <1>2 DEF EditReserves, Harmless
<1>3. CASE EditEnds(e) \/ EditReturns(e)
  BY <1>3, SelfKeeps, ContinueHarmless DEF EditEnds, EditReturns, Continue
<1>4. CASE EditPreempts(e)
  <2>1. turns' = turns \/ turns' = Preempted(s.turn)
    BY <1>4 DEF EditPreempts
  <2>2. \A u \in Turns : Preempted(s.turn)[u].policy = turns[u].policy
    BY Typed DEF Preempted, Turn
  <2> QED BY <2>1, <2>2 DEF Harmless
<1>5. CASE EditSettles(e)
  BY <1>3, <1>5 DEF EditSettles, Harmless
<1>6. CASE EditPrepares(e)
  BY <1>3, <1>6, SelfKeeps, ClaimHarmless DEF EditPrepares
<1> QED BY <1>1, <1>2, <1>3, <1>4, <1>5, <1>6 DEF Editing, EditRefused

LEMMA RestHarmless ==
  ASSUME TypeInv, ~Soft,
         \/ \E how : StopBegins(how)
         \/ StopEnds \/ SoftSendNow \/ BeginShutdown
         \/ \E m \in Mutations : MutationBegins(m) \/ MutationEnds(m)
  PROVE  Harmless
<1>1. CASE \/ \E how : StopBegins(how)
           \/ SoftSendNow \/ BeginShutdown
  BY <1>1 DEF StopBegins, SoftSendNow, BeginShutdown, Harmless, Soft
<1>2. CASE StopEnds
  <2> DEFINE no == FALSE
  <2>1. \/ turns' = turns
        \/ ContinueWith(Ignored(s), turns, edits, queue, "send-immediately", no)
    BY <1>2 DEF StopEnds
  <2> HIDE DEF no
  <2>2. CASE turns' = turns
    BY <2>2 DEF Harmless
  <2> QED BY <2>1, <2>2, SelfKeeps, ContinueHarmless
<1>3. CASE \E m \in Mutations : MutationBegins(m) \/ MutationEnds(m)
  <2>1. PICK m \in Mutations : MutationBegins(m) \/ MutationEnds(m)
    BY <1>3
  <2>2. CASE turns' = turns
    BY <2>2 DEF Harmless
  <2>3. CASE turns' # turns
    <3>1. \E r, q, ed, trigger : Continue(r, turns, ed, q, trigger)
      BY <2>1, <2>3, Zenon DEF MutationBegins, MutationEnds
    <3> QED BY <3>1, SelfKeeps, ContinueHarmless DEF Continue
  <2> QED BY <2>2, <2>3
<1> QED BY <1>1, <1>2, <1>3

LEMMA SameHarmless == ASSUME s' = s PROVE Harmless
BY DEF Harmless

(* A record changes, but its policy does not, or it had none.              *)
LEMMA FieldHarmless ==
  ASSUME TypeInv, NEW t \in Turns, NEW r \in Turn,
         r.policy = turns[t].policy \/ ~Runs(t),
         \/ turns' = [turns EXCEPT ![t] = r]
         \/ \E w, ed, q, trigger :
              Continue(w, [turns EXCEPT ![t] = r], ed, q, trigger)
  PROVE  Harmless
<1> DEFINE tt == [turns EXCEPT ![t] = r]
<1>1. Keeps(tt, {})
  BY RecordKeeps
<1> HIDE DEF tt
<1>2. CASE turns' = tt
  BY <1>1, <1>2, KeepsHarmless
<1>3. CASE \E w, ed, q, trigger : Continue(w, tt, ed, q, trigger)
  BY <1>1, <1>3, ContinueHarmless DEF Continue
<1> QED BY <1>2, <1>3 DEF tt

LEMMA StartupHarmless ==
  ASSUME TypeInv, SessionHolds, NEW t \in Turns, Startup(t) \/ Failure(t)
  PROVE  Harmless
<1>0. turns[t] \in Turn /\ Coherent(t, turns[t])
  BY TurnFacts
<1>1. CASE QueuedPrepares(t) \/ StartupCancelled(t)
  BY <1>1, SameHarmless DEF QueuedPrepares, StartupCancelled
<1>2. CASE StartupBegins(t)
  <2>1. \E v \in {"starting", "failing"} : turns' = Set(t, "startup", v)
    BY <1>2 DEF StartupBegins
  <2>2. PICK v \in {"starting", "failing"} : turns' = Set(t, "startup", v)
    BY <2>1
  <2> DEFINE r == [turns[t] EXCEPT !.startup = v]
  <2>3. turns' = [turns EXCEPT ![t] = r]
    BY <2>2 DEF Set
  <2>4. r \in Turn /\ r.policy = turns[t].policy
    BY <1>0 DEF Turn, Startups
  <2> HIDE DEF r
  <2> QED BY <2>3, <2>4, FieldHarmless
<1>3. CASE StreamStarts(t)
  <2> DEFINE r == [turns[t] EXCEPT !.engine = "live"]
  <2>1. turns' = [turns EXCEPT ![t] = r]
    BY <1>3 DEF StreamStarts, Set
  <2>2. r \in Turn /\ r.policy = turns[t].policy
    BY <1>0 DEF Turn
  <2> HIDE DEF r
  <2> QED BY <2>1, <2>2, FieldHarmless
<1>4. CASE StartupDelivers(t)
  <2> DEFINE free == /\ IsCurrentTurn(s, t) /\ s.life = "open"
                     /\ ~turns[t].aborted
             e == IF free THEN None ELSE turns[t].editId
             r == [turns[t] EXCEPT !.startup = "delivered", !.editId = e]
  <2>1. \E w, trigger :
          Continue(w, [turns EXCEPT ![t] = r], edits, queue, trigger)
    <3>1. [turns EXCEPT ![t].startup = "delivered",
                        ![t].editId = IF free THEN None ELSE @]
            = [turns EXCEPT ![t] = r]
      BY Typed
    <3> QED BY <1>4, <3>1 DEF StartupDelivers
  <2>2. e \in Nat
    BY <1>0 DEF Turn, None
  <2> HIDE DEF e
  <2>3. r \in Turn /\ r.policy = turns[t].policy
    BY <1>0, <2>2 DEF Turn, Startups
  <2> HIDE DEF r
  <2> QED BY <2>1, <2>3, FieldHarmless
<1>5. CASE PreparationCompletes(t)
  <2> DEFINE r == [turns[t] EXCEPT !.startup = "done", !.editId = None]
  <2>1. [turns EXCEPT ![t].startup = "done", ![t].editId = None]
          = [turns EXCEPT ![t] = r]
    BY Typed
  <2>2. \E w, q, trigger :
          Continue(w, [turns EXCEPT ![t] = r], edits, q, trigger)
    BY <1>5, <2>1, ZenonT(30) DEF PreparationCompletes
  <2>3. r \in Turn /\ r.policy = turns[t].policy
    BY <1>0 DEF Turn, Startups, None
  <2> HIDE DEF r
  <2> QED BY <2>2, <2>3, FieldHarmless
<1>6. CASE PreparationFails(t)
  <2> DEFINE r == [turns[t] EXCEPT !.startup = "failing", !.editId = None]
  <2>1. [turns EXCEPT ![t].startup = "failing", ![t].editId = None]
          = [turns EXCEPT ![t] = r]
    BY Typed
  <2>2. \/ s' = s
        \/ \E w, trigger :
             Continue(w, [turns EXCEPT ![t] = r], edits, queue, trigger)
    BY <1>6, <2>1 DEF PreparationFails
  <2>3. r \in Turn /\ r.policy = turns[t].policy
    BY <1>0 DEF Turn, Startups, None
  <2> HIDE DEF r
  <2> QED BY <2>2, <2>3, SameHarmless, FieldHarmless
<1>7. CASE StartupFails(t)
  <2> DEFINE r == [turns[t] EXCEPT !.startup = "failing",
                     !.outcome = "failed", !.policy = "handling",
                     !.captured = t, !.editId = None]
  <2>1. turns' = [turns EXCEPT ![t] = r] /\ Waits(turns[t])
    BY <1>7, Typed DEF StartupFails, Waiting, Waits
  <2>2. ~Runs(t)
    BY <1>0, <2>1 DEF Waits, Coherent, Runs
  <2>3. r \in Turn
    BY <1>0, TurnsNat DEF Turn, Startups, Policies, None
  <2> HIDE DEF r
  <2> QED BY <2>1, <2>2, <2>3, FieldHarmless
<1> QED BY <1>1, <1>2, <1>3, <1>4, <1>5, <1>6, <1>7 DEF Startup, Failure

(* A policy's own steps move the phase while its operation is the current. *)
LEMMA OwnHarmless ==
  ASSUME TypeInv, NEW t \in Turns, IsCurrentOperation(s, t),
         NEW tt \in [Turns -> Turn],
         \A u \in Turns \ {t} : tt[u] = turns[u],
         \/ turns' = tt
         \/ \E w, ed, q, trigger : Continue(w, tt, ed, q, trigger)
         \/ \E req, who : Claim(req, ClaimedBy(who, None, None), tt)
  PROVE  Harmless
<1>1. Keeps(tt, {t})
  BY DEF Keeps, Others
<1>2. CASE turns' = tt
  BY <1>1, <1>2, KeepsHarmless
<1>3. CASE \E w, ed, q, trigger : Continue(w, tt, ed, q, trigger)
  BY <1>1, <1>3, ContinueHarmless DEF Continue
<1>4. CASE \E req, who : Claim(req, ClaimedBy(who, None, None), tt)
  BY <1>1, <1>4, ClaimHarmless
<1> QED BY <1>2, <1>3, <1>4

LEMMA PolicyHarmless ==
  ASSUME TypeInv, SessionHolds, ~Soft, NEW t \in Turns,
         StreamEnds(t) \/ Completing(t) \/ Detour(t)
  PROVE  Harmless
<1>0. turns[t] \in Turn /\ Coherent(t, turns[t])
  BY TurnFacts
<1>1. CASE StreamEnds(t)
  <2>1. PICK how \in Outcomes(t) :
          turns' = [turns EXCEPT ![t].engine = "ended", ![t].outcome = how]
    BY <1>1 DEF StreamEnds
  <2> DEFINE r == [turns[t] EXCEPT !.engine = "ended", !.outcome = how]
  <2>2. turns' = [turns EXCEPT ![t] = r]
    BY <2>1, Typed
  <2>3. how \in {"completed", "failed", "aborted", "tool-end"}
    BY DEF Outcomes
  <2>4. r \in Turn /\ r.policy = turns[t].policy
    BY <1>0, <2>3 DEF Turn
  <2> HIDE DEF r
  <2> QED BY <2>2, <2>4, FieldHarmless
<1>2. CASE CompletionArrives(t)
  <2>1. PICK v \in {"entered", "done"} : turns' = Set(t, "policy", v)
    <3>1. \E v \in {"entered", "done"} : turns' = Set(t, "policy", v)
      BY <1>2 DEF CompletionArrives
    <3> QED BY <3>1
  <2> DEFINE r == [turns[t] EXCEPT !.policy = v]
  <2>2. turns' = [turns EXCEPT ![t] = r]
    BY <2>1 DEF Set
  <2>3. v \in Policies
    BY DEF Policies
  <2>4. r \in Turn
    BY <1>0, <2>3 DEF Turn
  <2>5. ~Runs(t)
    BY <1>2 DEF CompletionArrives, Runs
  <2> HIDE DEF r
  <2> QED BY <2>2, <2>4, <2>5, FieldHarmless
<1>3. CASE PolicyHandles(t)
  <2>1. /\ t # s.turn => Past(turns[t])
        /\ Sole(s, turns[s.turn]) /\ Here(s, turns[s.turn])
    BY TurnFacts
  <2>2. t = s.turn
    BY <1>3, <2>1 DEF PolicyHandles, Past
  <2>3. IsCurrentOperation(s, t)
    BY <1>3, <2>1, <2>2 DEF PolicyHandles, Sole, Here, IsCurrentOperation
  <2>4. \A u \in Turns \ {t} : turns'[u] = turns[u]
    BY <1>3, Typed DEF PolicyHandles
  <2> QED BY <2>3, <2>4 DEF Harmless
<1>4. CASE PolicyLeaves(t) \/ HandoffReturns(t) \/ Detour(t)
  BY <1>4, SameHarmless DEF PolicyLeaves, HandoffReturns, Detour, GoalAccounts,
                            PolicyDetours, RecoveryFails
<1>5. CASE \/ PolicySucceeds(t) \/ GoalAccounted(t) \/ PolicyFails(t)
           \/ PolicyAborts(t)
  <2> DEFINE tt == Set(t, "policy", "done")
  <2>1. IsCurrentOperation(s, t)
    BY <1>5 DEF PolicySucceeds, GoalAccounted, PolicyFails, PolicyAborts,
                Terminal, Current
  <2>2. \E trigger : EndTurn(t, trigger)
    BY <1>5, Zenon DEF PolicySucceeds, GoalAccounted, PolicyFails, PolicyAborts
  <2>3. \E w, trigger : Continue(w, tt, edits, queue, trigger)
    BY <2>2, Zenon DEF EndTurn
  <2>4. tt \in [Turns -> Turn] /\ \A u \in Turns \ {t} : tt[u] = turns[u]
    <3> DEFINE r == [turns[t] EXCEPT !.policy = "done"]
    <3>1. tt = [turns EXCEPT ![t] = r]
      BY DEF Set
    <3>2. r \in Turn
      BY <1>0 DEF Turn, Policies
    <3> HIDE DEF r, tt
    <3> QED BY <3>1, <3>2, Typed
  <2> HIDE DEF tt
  <2> QED BY <2>1, <2>3, <2>4, OwnHarmless
<1>6. CASE RecoveryHandsOff(t) \/ FollowUpIsSent(t)
  <2>1. IsCurrentOperation(s, t)
    BY <1>6 DEF RecoveryHandsOff, FollowUpIsSent, Current
  <2>2. CASE s' = s
    BY <2>2, SameHarmless
  <2>3. CASE s' # s
    <3> DEFINE tt == HandedOff(t)
    <3>1. \E req, who : Claim(req, ClaimedBy(who, None, None), tt)
      BY <1>6, <2>3 DEF RecoveryHandsOff, FollowUpIsSent
    <3>2. tt \in [Turns -> Turn] /\ \A u \in Turns \ {t} : tt[u] = turns[u]
      <4> DEFINE r == [turns[t] EXCEPT !.policy = "handed-off",
                                       !.next = issued + 1]
      <4>1. tt = [turns EXCEPT ![t] = r]
        BY Typed DEF HandedOff
      <4>2. issued + 1 \in Nat
        BY Typed
      <4>3. r \in Turn
        BY <1>0, <4>2 DEF Turn, Policies
      <4> HIDE DEF r, tt
      <4> QED BY <4>1, <4>3, Typed
    <3> HIDE DEF tt
    <3> QED BY <2>1, <3>1, <3>2, OwnHarmless
  <2> QED BY <2>2, <2>3
<1> QED BY <1>1, <1>2, <1>3, <1>4, <1>5, <1>6 DEF Completing, Ending, Detour

LEMMA NextHarmless ==
  ASSUME TypeInv, SessionHolds, ~Soft, Next PROVE Harmless
<1>1. CASE \E x \in Sends : SendArrives(x) \/ Sending(x)
  BY <1>1, SendHarmless
<1>2. CASE \E t \in Turns : \/ Startup(t) \/ Failure(t) \/ StreamEnds(t)
                            \/ Completing(t) \/ Detour(t)
  BY <1>2, StartupHarmless, PolicyHarmless
<1>3. CASE \E e \in Edits : EditArrives(e) \/ Editing(e)
  BY <1>3, EditHarmless
<1>4. CASE \/ \E how \in {"stop", "send-now"} : StopBegins(how)
           \/ StopEnds \/ SoftSendNow \/ BeginShutdown
           \/ \E m \in Mutations : MutationBegins(m) \/ MutationEnds(m)
  BY <1>4, RestHarmless
<1> QED BY <1>1, <1>2, <1>3, <1>4 DEF Next

(* A policy whose operation has been replaced changes no phase, except in  *)
(* a session whose user may send now without stopping: the check every     *)
(* handler makes after an await (isCurrentPolicyOperation) guards every    *)
(* dispatch that leads out of "completing".                                *)
THEOREM StalePoliciesAreHarmless == Spec => StalePolicyMovesNoOther
<1>1. /\ TypeInv /\ (NoMixedSendNow => SessionHolds)
      /\ [Next /\ UNCHANGED cast]_<<vars, cast>>
      => [StalePolicyMoves => "soft-send-now" \in Paths]_vars
  <2> SUFFICES ASSUME TypeInv, NoMixedSendNow => SessionHolds,
                      [Next /\ UNCHANGED cast]_<<vars, cast>>,
                      ~UNCHANGED vars, StalePolicyMoves, ~Soft
               PROVE  FALSE
    BY DEF Soft
  <2>1. Next
    BY DEF vars
  <2>2. Harmless
    BY <2>1, NextHarmless DEF NoMixedSendNow
  <2> QED BY <2>2 DEF StalePolicyMoves, Harmless, Runs
<1> QED BY <1>1, SessionTyped, SessionInvariant, PTL
        DEF Spec, StalePolicyMovesNoOther
=============================================================================
