---------------------------- MODULE TurnTransition ----------------------------
(***************************************************************************)
(* The pure reducer of src/node/services/turnCoordinator.ts: the lifecycle *)
(* state of one chat session and transition(state, event), which returns   *)
(* the next state and the commands the dispatcher must run, in order.      *)
(*                                                                         *)
(* One operator per event.  Symbols (turns, operations, reservations, ...) *)
(* are natural numbers handed out in increasing order, 0 is `undefined`.   *)
(* The two arrays of the state are sets: an entry of `reservations` is     *)
(* found by its id, and of the insertion order of `decisions` only the     *)
(* eviction depends (see Evictions).                                       *)
(***************************************************************************)
EXTENDS Integers, Sequences, FiniteSets

CONSTANT MaxRetained          \* maxRetainedDecisions (8 in the code)

ASSUME RetainedAssumption == MaxRetained \in Nat \ {0}

None == 0

Lifetimes        == {"open", "shutting-down", "disposed"}
Phases           == {"idle", "preparing", "streaming", "completing"}
ReservationKinds == {"admission", "edit", "manual"}
DecisionKinds    == {"error", "compaction"}
Verdicts         == {"terminal", "retry-started", "accepted", "declined"}
Stages           == {"none", "observing", "stopping", "stopped"}
QueueIntents     == {"idle", "terminal", "provider-tool", "send-immediately"}
Intents          == QueueIntents \cup {"direct", "resume", "handoff"}

(* A stream operation; id = None stands for `operation === undefined`.     *)
Operation == [id : Nat, startup : Nat, notified : BOOLEAN,
              compaction : BOOLEAN, delivery : {"waiting", "policy"},
              stage : {"registered", "started"}, msg : Nat]

NewOperation(id) == [id |-> id, startup |-> None, notified |-> FALSE,
                     compaction |-> FALSE, delivery |-> "waiting",
                     stage |-> "registered", msg |-> None]
NoOperation == NewOperation(None)

Reservation == [id : Nat, kind : ReservationKinds]
Decision    == [kind : DecisionKinds, msg : Nat,
                outcome : Verdicts \cup {"pending"}]

CoordinatorState ==
  [life : Lifetimes,
   phase : Phases, turn : Nat, observed : Nat, op : Operation,
   reservations : SUBSET Reservation,
   retry : Nat,
   decisions : SUBSET Decision,
   token : Nat, tokenStage : Stages, abandoned : BOOLEAN, summary : Nat]

InitialState(id) ==
  [life |-> "open",
   phase |-> "idle", turn |-> id, observed |-> None, op |-> NoOperation,
   reservations |-> {}, retry |-> None, decisions |-> {},
   token |-> None, tokenStage |-> "none", abandoned |-> FALSE,
   summary |-> None]

(* What a caller of prepare asks for.  An adoption names the turn it joins *)
(* in `expected`; only a direct request carries its edit reservation.      *)
Request == [kind : {"fresh", "adopt"}, intent : Intents, expected : Nat,
            edit : Nat]

-----------------------------------------------------------------------------
(* Commands, in the order the dispatcher runs them.                        *)

Command == [do : {"phase", "retire", "record-start", "decisions", "policy",
                  "drain", "dispose"},
            id : Nat,                      \* a turn or an operation
            phase : Phases,                \* of a "phase" command
            msg : Nat,                     \* of a "policy" command
            decisions : SUBSET Decision]   \* of a "decisions" command

Do(what, id)     == [do |-> what, id |-> id, phase |-> "idle", msg |-> None,
                     decisions |-> {}]
Publish(id, ph)  == [Do("phase", id) EXCEPT !.phase = ph]
Policy(id, msg)  == [Do("policy", id) EXCEPT !.msg = msg]
Settle(ds)       == [Do("decisions", None) EXCEPT !.decisions = ds]

Result(s, cmds) == [s |-> s, cmds |-> cmds]
Ignored(s)      == Result(s, << >>)

PublishesIdle(cmds) ==
  \E i \in DOMAIN cmds : cmds[i].do = "phase" /\ cmds[i].phase = "idle"

RetireCurrent(s) ==
  IF s.op.id = None THEN << >> ELSE << Do("retire", s.op.id) >>

(* The early return: after disposal only a compaction observation's own    *)
(* bookkeeping is still written.                                           *)
Alive(s, r) == IF s.life = "disposed" THEN Ignored(s) ELSE r

-----------------------------------------------------------------------------
(* Derived state, as the coordinator's getters compute it.                 *)

Reserved(s, kind) == \E r \in s.reservations : r.kind = kind

ConflictingEdit(s, owner) ==
  \E r \in s.reservations : r.kind = "edit" /\ r.id # owner

Busy(s) == s.phase # "idle" \/ Reserved(s, "edit")

IsCurrentTurn(s, id)      == s.life # "disposed" /\ s.turn = id
IsCurrentOperation(s, id) == s.life # "disposed" /\ s.op.id = id

(* A session observes a stream it does not run, and replays the start of   *)
(* the one it does.                                                        *)
CanReplayStreamStart(s, msg) ==
  /\ s.life = "open"
  /\ IF s.op.id = None
       THEN \/ s.phase = "idle"
            \/ s.phase = "streaming" /\ s.observed \in {None, msg}
       ELSE /\ s.phase = "streaming" /\ s.op.stage = "started"
            /\ s.op.delivery = "waiting" /\ s.op.msg = msg

-----------------------------------------------------------------------------
(* Admission of a turn.                                                    *)

EditOwner(req) ==
  IF req.kind = "fresh" /\ req.intent = "direct" THEN req.edit ELSE None

(* The phases in which a fresh request of each intent has to wait.         *)
Deferred(s, intent) ==
  \/ intent \in {"resume", "idle"} /\ s.phase # "idle"
  \/ intent \in QueueIntents \cup {"direct"} /\ s.phase = "preparing"
  \/ intent = "direct" /\ s.phase = "streaming"

Claimable(s, req) ==
  IF req.kind = "adopt"
    THEN s.turn = req.expected /\ s.phase = "preparing"
    ELSE s.turn = req.expected /\ ~Deferred(s, req.intent)

Admits(s, req) ==
  /\ s.life = "open"
  /\ ~Reserved(s, "admission")
  /\ ~ConflictingEdit(s, EditOwner(req))
  /\ Claimable(s, req)

(* A fresh claim drops the predecessor's operation with its turn; adoption *)
(* changes nothing and publishes nothing.                                  *)
Prepare(s, id, req) ==
  IF ~Admits(s, req) \/ req.kind = "adopt"
    THEN Ignored(s)
    ELSE Result([s EXCEPT !.phase = "preparing", !.turn = id,
                          !.observed = None, !.op = NoOperation],
                RetireCurrent(s) \o << Publish(id, "preparing") >>)

(* Faulty: the operation survives; or nothing is published.                *)
PreemptKeeping(s, id) == Alive(s,
  IF s.turn # id \/ s.phase # "preparing"
    THEN Ignored(s)
    ELSE Result([s EXCEPT !.phase = "idle"], << Publish(id, "idle") >>))

PreemptSilently(s, id) == Alive(s,
  IF s.turn # id \/ s.phase # "preparing"
    THEN Ignored(s)
    ELSE Result([s EXCEPT !.phase = "idle", !.op = NoOperation],
                RetireCurrent(s)))

Preempt(s, id) == Alive(s,
  IF s.turn # id \/ s.phase # "preparing"
    THEN Ignored(s)
    ELSE Result([s EXCEPT !.phase = "idle", !.observed = None,
                          !.op = NoOperation],
                RetireCurrent(s) \o << Publish(id, "idle") >>))

(* Faulty: any owner finishes the current turn.                            *)
FinishAny(s, id, preparingOnly) == Alive(s,
  IF s.phase = "idle" \/ (preparingOnly /\ s.phase # "preparing")
    THEN Ignored(s)
    ELSE Result([s EXCEPT !.phase = "idle"], << Publish(id, "idle") >>))

Finish(s, id, preparingOnly) == Alive(s,
  IF \/ s.phase = "idle" \/ s.turn # id
     \/ preparingOnly /\ s.phase # "preparing"
    THEN Ignored(s)
    ELSE Result([s EXCEPT !.phase = "idle"], << Publish(id, "idle") >>))

CompletePolicy(s, id) == Alive(s,
  IF s.turn # id
    THEN Ignored(s)
    ELSE Result([s EXCEPT !.phase = "completing"],
                << Publish(id, "completing") >>))

-----------------------------------------------------------------------------
(* Operations: registration, engine events, completion.                    *)

Register(s, id, turn) ==
  IF s.life # "open" \/ s.turn # turn
    THEN Ignored(s)
    ELSE Result([s EXCEPT !.op = NewOperation(id)], RetireCurrent(s))

Configure(s, id, compaction) == Alive(s,
  IF s.op.id # id THEN Ignored(s)
                  ELSE Result([s EXCEPT !.op.compaction = compaction], << >>))

Starting(s, id, msg) == Alive(s,
  IF s.op.id # id THEN Ignored(s)
                  ELSE Result([s EXCEPT !.op.startup = msg], << >>))

(* With no operation the event restores a session that was constructed     *)
(* around a running engine.                                                *)
Started(s, msg) == Alive(s,
  IF s.op.id # None /\ (s.op.delivery # "waiting" \/ s.op.stage = "started")
    THEN Ignored(s)
    ELSE Result([s EXCEPT !.phase = "streaming", !.abandoned = FALSE,
                          !.op = IF s.op.id = None THEN s.op
                                 ELSE [s.op EXCEPT !.stage = "started",
                                                   !.msg = msg]],
                << Do("record-start", s.turn),
                   Publish(s.turn, "streaming") >>))

StartupAbort(s, msg) == Alive(s,
  IF s.op.id # None
       /\ (msg = None \/ (s.op.startup = msg /\ ~s.op.notified))
    THEN Result([s EXCEPT !.op.notified = TRUE], << >>)
    ELSE Ignored(s))

(* abortEvent: the outcome is an abort the engine also announced.          *)
Completion(s, id, msg, abortEvent) == Alive(s,
  IF s.op.id # id \/ s.op.delivery # "waiting"
    THEN Ignored(s)
    ELSE Result([s EXCEPT
                   !.op.msg = msg, !.op.delivery = "policy",
                   !.op.notified = \/ s.op.notified
                                   \/ s.op.stage = "registered" /\ abortEvent],
                << Policy(id, msg) >>))

ObserveStream(s, msg) ==
  IF s.life = "open" /\ s.op.id = None /\ s.observed = None
       /\ s.phase \in {"idle", "streaming"}
    THEN Result([s EXCEPT !.phase = "streaming", !.observed = msg],
                << Publish(s.turn, "streaming") >>)
    ELSE Ignored(s)

(* Faulty: the stream is forgotten, the phase is kept.                     *)
FinishObservedKeeping(s, id, msg) == Alive(s,
  IF s.op.id = None /\ s.turn = id /\ s.observed = msg
    THEN Result([s EXCEPT !.observed = None], << Do("drain", id) >>)
    ELSE Ignored(s))

FinishObserved(s, id, msg) == Alive(s,
  IF s.op.id = None /\ s.turn = id /\ s.observed = msg
    THEN Result([s EXCEPT !.phase = "idle", !.observed = None],
                << Publish(id, "idle"), Do("drain", id) >>)
    ELSE Ignored(s))

-----------------------------------------------------------------------------
(* Recovery decisions.                                                     *)

DecisionsOn(s, kind, msg) ==
  {d \in s.decisions : d.kind = kind /\ d.msg = msg}

Errors(s)   == {d \in s.decisions : d.kind = "error"}
Resolved(D) == {d \in D : d.outcome # "pending"}

(* Which outcomes a new pending decision may evict: enough resolved error  *)
(* outcomes to leave room for it, never a pending one.  The code takes the *)
(* oldest; the model allows any.                                           *)
Evictions(s, kind) ==
  LET excess == Cardinality(Errors(s)) + 1 - MaxRetained
      old    == Resolved(Errors(s))
  IN IF kind # "error" \/ excess <= 0 THEN {{}}
     ELSE {V \in SUBSET old :
             \/ Cardinality(V) = excess
             \/ V = old /\ Cardinality(old) < excess}

(* A second registration of a known decision changes nothing.              *)
BeginDecision(s, kind, msg, evicted) ==
  LET new == [kind |-> kind, msg |-> msg, outcome |-> "pending"]
  IN Alive(s,
       IF DecisionsOn(s, kind, msg) # {}
         THEN Ignored(s)
         ELSE Result([s EXCEPT !.decisions = (@ \ evicted) \cup {new}],
                     << Settle({new}) >>))

(* Only a pending decision is resolved, and none is created: a late        *)
(* fallback cannot resurrect a consumed one.                               *)
ResolveDecision(s, kind, msg, outcome) ==
  LET old == [kind |-> kind, msg |-> msg, outcome |-> "pending"]
      new == [old EXCEPT !.outcome = outcome]
  IN Alive(s,
       IF old \notin s.decisions
         THEN Ignored(s)
         ELSE Result([s EXCEPT !.decisions = (@ \ {old}) \cup {new}],
                     << Settle({new}) >>))

ForgetCompaction(s, msg) == Alive(s,
  Result([s EXCEPT !.decisions = @ \ DecisionsOn(s, "compaction", msg)],
         << >>))

(* The terminal event of a stream.  A completed compaction stream owes its *)
(* observers a decision before its policy runs.                            *)
RawTerminal(s, kind, msg) == Alive(s,
  IF s.op.id = None \/ s.op.msg # msg \/ s.op.delivery # "waiting"
    THEN Ignored(s)
    ELSE LET d == IF kind = "completed" /\ s.op.compaction
                    THEN BeginDecision(s, "compaction", msg, {})
                    ELSE Ignored(s)
         IN IF s.op.stage = "started" /\ s.phase = "streaming"
              THEN Result([d.s EXCEPT !.phase = "completing"],
                          d.cmds \o << Publish(s.turn, "completing") >>)
              ELSE d)

-----------------------------------------------------------------------------
(* Reservations, retries, compaction observation, lifetime.                *)

Reserve(s, id, kind) == Alive(s,
  Result([s EXCEPT !.reservations = @ \cup {[id |-> id, kind |-> kind]}],
         << >>))

(* Releasing the last admission or edit reservation of an idle session     *)
(* wakes the queue it was holding back.                                    *)
Release(s, id, kind) ==
  LET r    == [id |-> id, kind |-> kind]
      next == [s EXCEPT !.reservations = @ \ {r}]
  IN Alive(s,
       IF r \notin s.reservations THEN Ignored(s)
       ELSE Result(next,
              IF kind # "manual" /\ s.phase = "idle" /\ ~Reserved(next, kind)
                THEN << Do("drain", s.turn) >> ELSE << >>))

RetryStart(s, id)  == Alive(s, Result([s EXCEPT !.retry = id], << >>))
RetryFinish(s, id) == Alive(s,
  IF s.retry = id THEN Result([s EXCEPT !.retry = None], << >>)
                  ELSE Ignored(s))

CompactionObserve(s, token) ==
  IF s.life = "open" /\ s.token = None
    THEN Result([s EXCEPT !.token = token, !.tokenStage = "observing"], << >>)
    ELSE Ignored(s)

CompactionStage(s, token, stage) ==
  IF s.token = token THEN Result([s EXCEPT !.tokenStage = stage], << >>)
                     ELSE Ignored(s)

CompactionFinish(s, token) ==
  IF s.token = token
    THEN Result([s EXCEPT !.token = None, !.tokenStage = "none"], << >>)
    ELSE Ignored(s)

CompactionAbandon(s) ==
  Alive(s, Result([s EXCEPT !.abandoned = TRUE], << >>))

CompactionSummary(s, id) == Result([s EXCEPT !.summary = id], << >>)

Shutdown(s) ==
  Alive(s, Result([s EXCEPT !.life = "shutting-down"], << >>))

(* Disposal answers every pending decision, retires the operation and      *)
(* publishes idle, in that order.                                          *)
Fallback(d) ==
  IF d.outcome # "pending" THEN d
  ELSE [d EXCEPT !.outcome =
          IF d.kind = "error" THEN "terminal" ELSE "declined"]

Dispose(s) ==
  LET pending == s.decisions \ Resolved(s.decisions)
  IN Alive(s,
       Result([s EXCEPT !.life = "disposed", !.phase = "idle",
                        !.observed = None, !.op = NoOperation,
                        !.reservations = {}, !.retry = None,
                        !.decisions = {Fallback(d) : d \in @}],
              << Settle({Fallback(d) : d \in pending}) >>
                \o RetireCurrent(s)
                \o << Publish(s.turn, "idle"), Do("dispose", None) >>))
=============================================================================
