---------------------------- MODULE TurnCoordinator ----------------------------
(***************************************************************************)
(* The class TurnCoordinator of src/node/services/turnCoordinator.ts: one  *)
(* chat session's lifecycle owner.  A public method dispatches an event:   *)
(* the reducer's next state is published first, retired waiters and        *)
(* resources are detached, and only then do the commands run, of which     *)
(* three call out: the phase observer, the stream-start recorder and the   *)
(* queue drain.  An observer may call the coordinator again before it      *)
(* returns, so dispatches nest: `stack` holds the dispatches in progress,  *)
(* innermost last, and a method may be called when the stack is empty or   *)
(* from a callback of its top frame.                                       *)
(*                                                                         *)
(* The environment is the session (agentSession.ts) and the stream engine: *)
(* preparation owners, operation producers, completion policies, waiters   *)
(* and decision readers, each reduced to the calls it makes.               *)
(***************************************************************************)
EXTENDS TurnTransition

CONSTANTS
  MaxTurns, MaxOps, MaxReservations, MaxTokens,  \* bounds on fresh symbols
  MaxDepth,                                      \* bound on nested dispatches
  Waiters,                                       \* callers of the wait methods
  Readers,                                       \* readers of decisions
  EngineRunning,   \* a stream was running when the session was constructed
  Calls            \* the calls, of those below, that an instance makes

OptionalCalls == {"thinking", "abandon", "summary", "startup-abort",
                  "shutdown", "preempt", "resume", "direct"} \cup QueueIntents

ASSUME BoundsAssumption ==
  /\ MaxTurns \in Nat /\ MaxOps \in Nat /\ MaxReservations \in Nat
  /\ MaxTokens \in Nat /\ MaxDepth \in Nat \ {0}
  /\ EngineRunning \in BOOLEAN /\ Calls \subseteq OptionalCalls

Turns == 1..MaxTurns
Ops   == 1..MaxOps
Resvs == 1..MaxReservations

(* Message ids: an operation's start-up id, the id its stream uses, and the *)
(* id of the stream that preceded the session.                              *)
StartupMsg(o) == 2 * o - 1
StreamMsg(o)  == 2 * o
ForeignMsg    == 2 * MaxOps + 1
Messages      == 1..(2 * MaxOps + 1)

VARIABLES
  s,            \* the reducer's CoordinatorState
  stack,        \* dispatches in progress
  idleWaiters, unbusyWaiters, compactionWaiters,   \* live batches
  waiting,      \* what each waiter is doing
  prepared,     \* turn whose preparation has an AbortController, or None
  aborted,      \* turns whose AbortController was aborted
  thinking,     \* turn whose thinking override is held, or None
  settlements,  \* operations whose settlement promise is unresolved
  leases,       \* operations holding a physical execution lease
  policies,     \* operations whose policy is running
  promises,     \* <<kind, msg>> of unresolved decision promises
  reading,      \* what each decision reader awaits
  issued,       \* the last symbol issued of each sort
  closing       \* the closing signal and the close of the execution scope

\* the session and the engine
VARIABLES
  owner,        \* each turn's preparation owner
  producer,     \* each operation's producer
  home,         \* the turn each operation was registered for
  engine,       \* each operation's stream
  outcome,      \* how each operation's stream ended
  foreign       \* the stream that preceded the session

registries == <<idleWaiters, unbusyWaiters, waiting, prepared, thinking>>
resources  == <<aborted, settlements, leases, policies>>
recovery   == <<promises, reading>>
session    == <<owner, producer, home, engine, outcome, foreign>>
vars == <<s, stack, registries, compactionWaiters, resources, recovery,
          issued, closing, session>>

-----------------------------------------------------------------------------
(* Dispatch.                                                               *)

Top     == stack[Len(stack)]
CanCall == stack # << >> => Top.observing /\ Len(stack) < MaxDepth

(* What the dispatching method still does when its commands have run.      *)
Continuations == {"none", "prepare", "preempt", "dispose"}

Frame(cmds, detached, retired, then, id) ==
  [cmds |-> cmds, detached |-> detached, retired |-> retired,
   observing |-> FALSE, then |-> then, id |-> id]

(* Publish r.s, then detach what an idle or an unbusy publication retires, *)
(* before any callback.  `prep`, `idleW` and `unbusyW` are the preparation *)
(* and the live batches as the calling method left them.                   *)
DispatchFrom(r, prep, idleW, unbusyW, then, id) ==
  LET idle   == PublishesIdle(r.cmds)
      unbusy == ~Busy(r.s)
      gone   == idle /\ prep = r.s.turn
  IN /\ s' = r.s
     /\ idleWaiters' = IF idle THEN {} ELSE idleW
     /\ unbusyWaiters' = IF unbusy THEN {} ELSE unbusyW
     /\ thinking' = IF idle THEN None ELSE thinking
     /\ prepared' = IF gone THEN None ELSE prep
     /\ stack' = Append(stack,
          Frame(r.cmds,
                (IF idle THEN idleW ELSE {})
                  \cup (IF unbusy THEN unbusyW ELSE {}),
                IF gone THEN prep ELSE None, then, id))

Dispatch(r, prep, then, id) ==
  DispatchFrom(r, prep, idleWaiters, unbusyWaiters, then, id)

(* A method that only dispatches.                                          *)
Call(r) == /\ CanCall
           /\ Dispatch(r, prepared, "none", None)
           /\ UNCHANGED <<waiting, compactionWaiters, resources, recovery,
                          issued, closing>>

Released(w, W) == [x \in Waiters |-> IF x \in W THEN "off" ELSE w[x]]

KeyOf(d)      == <<d.kind, d.msg>>
ReaderKey(rd) == <<rd.kind, rd.msg>>

(* The decisions D are settled: promises are created and resolved, and     *)
(* those whose decision state r.s no longer holds leave the registry.      *)
Settled(D, st) ==
  ((promises \cup {KeyOf(d) : d \in D \ Resolved(D)})
     \ {KeyOf(d) : d \in Resolved(D)})
   \cap {KeyOf(d) : d \in st.decisions}

(* A reader whose promise leaves the registry unresolved waits for good.   *)
Read(rd, D, kept) ==
  [x \in Readers |->
     IF rd[x].st # "waiting" \/ ReaderKey(rd[x]) \in kept THEN rd[x]
     ELSE [rd[x] EXCEPT !.st =
             IF ReaderKey(rd[x]) \in {KeyOf(d) : d \in Resolved(D)}
               THEN "answered" ELSE "orphaned"]]

(* A dispatch whose commands call nothing out is one step: D is what it    *)
(* settles, and a session that is not busy has no unbusy waiters left.     *)
Quietly(st, D) ==
  LET kept == Settled(D, st)
  IN /\ s' = st
     /\ promises' = kept
     /\ reading' = Read(reading, D, kept)
     /\ unbusyWaiters' = IF Busy(st) THEN unbusyWaiters ELSE {}
     /\ waiting' = IF Busy(st) THEN waiting
                   ELSE Released(waiting, unbusyWaiters)
     /\ UNCHANGED <<stack, idleWaiters, prepared, thinking>>

SettlesOf(r) ==
  UNION {IF r.cmds[i].do = "decisions" THEN r.cmds[i].decisions ELSE {} :
           i \in DOMAIN r.cmds}

Quiet(r) == CanCall /\ Quietly(r.s, SettlesOf(r))

(* As does every resolution of what is pending on a message.  Faulty: the  *)
(* compaction decision is forgotten.                                       *)
PendingErrorsOn(msg) ==
  {d \in s.decisions : d.kind = "error" /\ d.msg = msg /\ d.outcome = "pending"}
PendingOn(msg) ==
  IF s.life = "disposed" THEN {}
  ELSE {d \in s.decisions : d.msg = msg /\ d.outcome = "pending"}
AnswerAll(msg) ==
  LET P == PendingOn(msg)
  IN Quietly([s EXCEPT !.decisions = (@ \ P) \cup {Fallback(d) : d \in P}],
             {Fallback(d) : d \in P})

(* The head command of the top frame has run.                              *)
Consumed(f)     == [f EXCEPT !.cmds = Tail(@), !.observing = FALSE]
PopCommand      == stack' = [stack EXCEPT ![Len(stack)] = Consumed(@)]
EnterObserver   == stack' = [stack EXCEPT ![Len(stack)].observing = TRUE]

HeadIs(what) ==
  /\ stack # << >> /\ ~Top.observing /\ Top.cmds # << >>
  /\ Head(Top.cmds).do = what

(* phaseChanged is called while the publication is still current; the idle *)
(* publication of dispose is always delivered.                             *)
PublishPhase ==
  LET c == Head(Top.cmds)
      current == /\ s.turn = c.id /\ s.phase = c.phase
                 /\ s.life # "disposed" \/ Top.then = "dispose"
  IN /\ HeadIs("phase")
     /\ IF current THEN EnterObserver ELSE PopCommand
     /\ UNCHANGED <<s, registries, compactionWaiters, resources, recovery,
                    issued, closing, session>>

RunDrain ==
  LET wakes == /\ s.life = "open" /\ s.turn = Head(Top.cmds).id
               /\ ~Busy(s) /\ ~Reserved(s, "admission")
  IN /\ HeadIs("drain")
     /\ IF wakes THEN EnterObserver ELSE PopCommand
     /\ UNCHANGED <<s, registries, compactionWaiters, resources, recovery,
                    issued, closing, session>>

ObserverReturns ==
  /\ stack # << >> /\ Top.observing
  /\ PopCommand
  /\ UNCHANGED <<s, registries, compactionWaiters, resources, recovery,
                 issued, closing, session>>

(* streamStarted resets session fields and never calls back.               *)
RunRecordStart ==
  /\ HeadIs("record-start") /\ PopCommand
  /\ UNCHANGED <<s, registries, compactionWaiters, resources, recovery,
                 issued, closing, session>>

(* settleOperation and the end of an operation's lease; the first          *)
(* definition of each is a faulty variant, as are those below that say so. *)
SettleOperationLost(o) == settlements
SettleOperation(o)     == settlements \ {o}

ReleaseLeaseLost(o) == leases
ReleaseLease(o)     == leases \ {o}

RunRetire ==
  /\ HeadIs("retire") /\ PopCommand
  /\ settlements' = SettleOperation(Head(Top.cmds).id)
  /\ UNCHANGED <<s, registries, compactionWaiters, aborted, leases, policies,
                 recovery, issued, closing, session>>

RunDecisions ==
  LET D    == Head(Top.cmds).decisions
      open == (promises \cup {KeyOf(d) : d \in D \ Resolved(D)})
                \ {KeyOf(d) : d \in Resolved(D)}
  IN /\ HeadIs("decisions") /\ PopCommand
     /\ promises' = open
     /\ reading' = Read(reading, D, open)
     /\ UNCHANGED <<s, registries, compactionWaiters, resources, issued,
                    closing, session>>

(* A policy starts only while its operation is still current; its fiber    *)
(* runs to the callback's first await before the command returns.          *)
RunPolicy ==
  LET o == Head(Top.cmds).id
  IN /\ HeadIs("policy") /\ PopCommand
     /\ IF IsCurrentOperation(s, o)
          THEN /\ policies' = policies \cup {o}
               /\ producer' = [producer EXCEPT ![o] = "policy"]
          ELSE /\ producer' = [producer EXCEPT ![o] = "finishing"]
               /\ UNCHANGED policies
     /\ UNCHANGED <<s, registries, compactionWaiters, aborted, settlements,
                    leases, recovery, issued, closing, owner, home, engine,
                    outcome, foreign>>

RunDispose ==
  LET t == IF Top.retired # None THEN Top.retired ELSE prepared
  IN /\ HeadIs("dispose") /\ PopCommand
     /\ prepared' = None
     /\ aborted' = aborted \cup ({t} \ {None})
     /\ settlements' = {}
     /\ UNCHANGED <<s, idleWaiters, unbusyWaiters, waiting, thinking,
                    compactionWaiters, leases, policies, recovery, issued,
                    closing, session>>

(* The tail of dispatch: the detached batch is released, the registry of   *)
(* decision promises is pruned, and the calling method goes on.            *)
Return ==
  LET kept == Settled({}, s)
  IN /\ stack # << >> /\ ~Top.observing /\ Top.cmds = << >>
     /\ stack' = SubSeq(stack, 1, Len(stack) - 1)
     /\ waiting' = Released(waiting, Top.detached)
     /\ promises' = kept
     /\ reading' = Read(reading, {}, kept)
     /\ aborted' = IF Top.then = "preempt" THEN aborted \cup {Top.id}
                   ELSE aborted
     /\ owner' = IF /\ Top.then = "prepare" /\ IsCurrentTurn(s, Top.id)
                    /\ s.life = "open" /\ s.phase = "preparing"
                   THEN [owner EXCEPT ![Top.id] = "granted"] ELSE owner
     /\ closing' = IF Top.then = "dispose"
                     THEN [closing EXCEPT !.requested = TRUE] ELSE closing
     /\ UNCHANGED <<s, idleWaiters, unbusyWaiters, prepared, thinking,
                    compactionWaiters, settlements, leases, policies, issued,
                    producer, home, engine, outcome, foreign>>

Run == \/ PublishPhase \/ RunDrain \/ ObserverReturns \/ RunRecordStart
       \/ RunRetire \/ RunDecisions \/ RunPolicy \/ RunDispose \/ Return

-----------------------------------------------------------------------------
(* Preparation: claims, adoption, the owner's release, preemption.         *)

(* A claim installs its own controller or none.  Faulty: it keeps its      *)
(* predecessor's.                                                          *)
InstallOver(id, controlled) == IF controlled THEN id ELSE prepared
Install(id, controlled)     == IF controlled THEN id ELSE None

(* A refused request leaves the state as it is.  The claim's owner is      *)
(* recorded by `install`, before any callback.                             *)
PrepareFresh(intent, expected, edit, controlled) ==
  LET id  == issued.turn + 1
      req == [kind |-> "fresh", intent |-> intent, expected |-> expected,
              edit |-> edit]
  IN /\ CanCall /\ id <= MaxTurns /\ Admits(s, req)
     /\ Dispatch(Prepare(s, id, req), Install(id, controlled), "prepare",
                 id)
     /\ issued' = [issued EXCEPT !.turn = id]
     /\ owner' = [owner EXCEPT ![id] = "claimed"]
     /\ UNCHANGED <<waiting, compactionWaiters, resources, recovery, closing,
                    producer, home, engine, outcome, foreign>>

(* The owner of a queue-claimed turn attaches its startup and controller.  *)
PrepareAdopt(t) ==
  LET req == [kind |-> "adopt", intent |-> "direct", expected |-> t,
              edit |-> None]
  IN /\ stack = << >> /\ owner[t] = "granted" /\ Admits(s, req)
     /\ \A o \in Ops : home[o] # t
     /\ Dispatch(Prepare(s, t, req), t, "none", None)
     /\ UNCHANGED <<waiting, compactionWaiters, resources, recovery, issued,
                    closing, session>>

Launching(t) == \E o \in Ops : home[o] = t /\ producer[o] = "starting"

FinishPreparation(t) ==
  /\ stack = << >> /\ owner[t] \in {"claimed", "granted"} /\ ~Launching(t)
  /\ Dispatch(Finish(s, t, TRUE), IF prepared = t THEN None ELSE prepared,
              "none", None)
  /\ owner' = [owner EXCEPT ![t] = "done"]
  /\ UNCHANGED <<waiting, compactionWaiters, resources, recovery, issued,
                 closing, producer, home, engine, outcome, foreign>>

(* An edit invalidates the claim before it aborts the startup.             *)
PreemptPreparation ==
  /\ CanCall
  /\ s.phase = "preparing" /\ prepared = s.turn
  /\ Dispatch(Preempt(s, prepared), None, "preempt", prepared)
  /\ UNCHANGED <<waiting, compactionWaiters, resources, recovery, issued,
                 closing, session>>

AcceptThinking(t) ==
  /\ CanCall /\ IsCurrentTurn(s, t)
  /\ thinking' = t
  /\ UNCHANGED <<s, stack, idleWaiters, unbusyWaiters, waiting, prepared,
                 compactionWaiters, resources, recovery, issued, closing,
                 session>>

ReleaseThinking ==
  /\ CanCall /\ thinking # None
  /\ thinking' = None
  /\ UNCHANGED <<s, stack, idleWaiters, unbusyWaiters, waiting, prepared,
                 compactionWaiters, resources, recovery, issued, closing,
                 session>>

-----------------------------------------------------------------------------
(* Operations, from registration to the end of their policy.               *)
Becomes(fn, o, to) == [fn EXCEPT ![o] = to]

(* streamWithHistory checks that it still owns the turn in the block that  *)
(* registers; a registration that lost the turn settles at once.  A failed *)
(* start-up may register again for its turn before its failure is handled. *)
RegisterOperation(t) ==
  LET o   == issued.op + 1
      r   == Register(s, o, t)
      mine == r.s.op.id = o
  IN /\ stack = << >> /\ o <= MaxOps
     /\ owner[t] = "granted" /\ s.phase = "preparing"
     /\ \A p \in Ops : home[p] = t =>
           producer[p] \in {"failing", "done"} /\ outcome[p] = "none"
     /\ IsCurrentTurn(s, t) /\ s.life = "open" /\ t \notin aborted
     /\ Quietly(r.s, {})
     /\ settlements' = IF mine THEN SettleOperation(s.op.id) \cup {o}
                       ELSE settlements
     /\ leases' = IF mine THEN leases \cup {o} ELSE leases
     /\ issued' = [issued EXCEPT !.op = o]
     /\ producer' = Becomes(producer, o, "starting")
     /\ home' = Becomes(home, o, t)
     /\ UNCHANGED <<compactionWaiters, aborted, policies, closing, owner,
                    engine, outcome, foreign>>

(* The frame of a call that only moves the coordinator's own state.        *)
Inert == UNCHANGED <<compactionWaiters, resources, issued, closing>>

ConfigureOperation(o) ==
  /\ producer[o] = "starting" /\ engine[o] = "off" /\ stack = << >>
  /\ Quiet(Configure(s, o, TRUE))
  /\ Inert /\ UNCHANGED session

StreamStarting(o) ==
  /\ producer[o] = "starting" /\ engine[o] = "off" /\ stack = << >>
  /\ Quiet(Starting(s, o, StartupMsg(o)))
  /\ engine' = Becomes(engine, o, "handed")
  /\ Inert /\ UNCHANGED <<owner, producer, home, outcome, foreign>>

(* A startup that reported an error before its stream goes on to fail.      *)
Doomed(o) == DecisionsOn(s, "error", StartupMsg(o)) # {}

(* The engine starts a stream only while its startup runs unaborted, and   *)
(* one stream at a time.                                                   *)
StreamStarted(o) ==
  /\ engine[o] = "handed" /\ producer[o] = "starting" /\ stack = << >>
  /\ home[o] \notin aborted /\ ~Doomed(o)
  /\ foreign # "live" /\ \A p \in Ops : engine[p] # "live"
  /\ Call(Started(s, StreamMsg(o)))
  /\ engine' = Becomes(engine, o, "live")
  /\ UNCHANGED <<owner, producer, home, outcome, foreign>>

Ended(o, how) ==
  /\ engine' = Becomes(engine, o, "ended")
  /\ outcome' = Becomes(outcome, o, how)
  /\ UNCHANGED <<owner, producer, home, foreign>>

(* A stream the session only observes ends its turn itself.                *)
Observing(m) == s.op.id = None /\ s.observed = m

(* stream-end and stream-abort of a live stream.                           *)
StreamEnds(o, kind) ==
  LET m == StreamMsg(o)
  IN /\ engine[o] = "live" /\ stack = << >>
     /\ Call(IF Observing(m) THEN FinishObserved(s, s.turn, m)
                             ELSE RawTerminal(s, kind, m))
     /\ Ended(o, kind)

(* A failing stream announces no terminal, only the decision it needs.     *)
StreamFails(o) ==
  LET m == StreamMsg(o)
  IN /\ engine[o] = "live" /\ stack = << >>
     /\ IF Observing(m)
          THEN Call(FinishObserved(s, s.turn, m))
          ELSE /\ \E V \in Evictions(s, "error") :
                    Quiet(BeginDecision(s, "error", m, V))
               /\ Inert
     /\ Ended(o, "failed")

(* A stop before the stream registered is announced as a startup abort.    *)
StartupAborts(o) ==
  /\ engine[o] = "handed" /\ stack = << >> /\ ~Doomed(o)
  /\ Quiet(StartupAbort(s, StartupMsg(o)))
  /\ Ended(o, "cancelled") /\ Inert

(* A stop that found nothing to stop announces an abort with no message.   *)
SyntheticAbort ==
  /\ s.life # "disposed" /\ stack = << >>
  /\ Quiet(StartupAbort(s, None))
  /\ Inert /\ UNCHANGED session

PreStartError(o) ==
  /\ producer[o] = "starting" /\ engine[o] = "handed" /\ stack = << >>
  /\ \E V \in Evictions(s, "error") :
        Quiet(BeginDecision(s, "error", StartupMsg(o), V))
  /\ Inert /\ UNCHANGED session

Produce(o, to) ==
  /\ stack = << >>
  /\ producer' = Becomes(producer, o, to)
  /\ UNCHANGED <<s, stack, registries, compactionWaiters, resources, recovery,
                 issued, closing, owner, home, outcome, foreign>>

(* The startup returns an error and its handler runs, or it returns a      *)
(* handle whose completion is consumed.                                    *)
StartupFails(o) ==
  /\ producer[o] = "starting" /\ engine[o] \in {"off", "handed"}
  /\ engine' = Becomes(engine, o, "ended")
  /\ Produce(o, "failing")

DeliverHandle(o) ==
  /\ producer[o] = "starting"
  /\ engine[o] = "live" \/ outcome[o] # "none"
  /\ Produce(o, "consuming") /\ UNCHANGED engine

(* The id a handle reports: the start-up id when no stream registered.     *)
HandleMsg(o) == IF outcome[o] = "cancelled" THEN StartupMsg(o)
                                            ELSE StreamMsg(o)

(* consumeCompletion: an outcome that outlived its operation only answers  *)
(* and settles; otherwise it is dispatched, and the policy it launches is  *)
(* awaited.  One that launches nothing goes on to finishStartup.           *)
CompletionArrives(o) ==
  /\ stack = << >> /\ producer[o] = "consuming" /\ outcome[o] # "none"
  /\ IF IsCurrentOperation(s, o)
       THEN LET r == Completion(s, o, HandleMsg(o),
                             outcome[o] \in {"aborted", "cancelled"})
            IN /\ Dispatch(r, prepared, "none", None)
               /\ producer' = Becomes(producer, o,
                    IF r.cmds = << >> THEN "finishing" ELSE "launching")
               /\ UNCHANGED <<waiting, settlements, recovery>>
       ELSE /\ AnswerAll(HandleMsg(o))
            /\ settlements' = SettleOperation(o)
            /\ producer' = Becomes(producer, o, "finishing")
  /\ UNCHANGED <<compactionWaiters, aborted, leases, policies, issued,
                 closing, owner, home, engine, outcome, foreign>>

(* The handler of a completed stream drops the active compaction request   *)
(* once its decision is out.                                               *)
HandlerClears(o) ==
  /\ stack = << >> /\ producer[o] = "policy"
  /\ producer' = Becomes(producer, o, "handled")
  /\ UNCHANGED <<s, stack, registries, compactionWaiters, resources, recovery,
                 issued, closing, owner, home, engine, outcome, foreign>>

(* The policy's finalizer: whatever its handler left pending is answered.  *)
(* The handler of a current operation has begun the policy's phase.        *)
PolicyReturns(o) ==
  /\ stack = << >> /\ producer[o] \in {"policy", "handled"}
  /\ IsCurrentOperation(s, o) =>
       /\ s.phase # "streaming"
       /\ outcome[o] = "completed" => producer[o] = "handled"
  /\ AnswerAll(HandleMsg(o))
  /\ settlements' = SettleOperation(o)
  /\ policies' = policies \ {o}
  /\ producer' = Becomes(producer, o, "finishing")
  /\ UNCHANGED <<compactionWaiters, aborted, leases, issued, closing, owner,
                 home, engine, outcome, foreign>>

(* A failing startup has answered the pre-start errors it collected.       *)
FinishStartup(o) ==
  /\ stack = << >>
  /\ \/ producer[o] = "finishing"
     \/ producer[o] = "failing" /\ PendingOn(StartupMsg(o)) = {}
  /\ settlements' = SettleOperation(o)
  /\ leases' = ReleaseLease(o)
  /\ producer' = Becomes(producer, o, "done")
  /\ UNCHANGED <<s, stack, registries, compactionWaiters, aborted, policies,
                 recovery, issued, closing, owner, home, engine, outcome,
                 foreign>>

(* The session's handler of a completion or of a failed startup.           *)
Handling(o) == producer[o] \in {"policy", "handled", "failing"}

BeginPolicy(o) ==
  /\ stack = << >> /\ Handling(o) /\ IsCurrentOperation(s, o)
  /\ s.phase # "completing"
  /\ Call(CompletePolicy(s, s.turn))
  /\ UNCHANGED session

FinishTurn(o) ==
  /\ stack = << >> /\ Handling(o) /\ IsCurrentOperation(s, o)
  /\ s.phase = "completing"
  /\ Call(Finish(s, s.turn, FALSE))
  /\ UNCHANGED session

(* A verdict on the message of the operation being handled; that of a      *)
(* compaction comes after the request is cleared.                          *)
ResolveVerdict(o, kind, msg, verdict) ==
  /\ stack = << >> /\ Handling(o)
  /\ kind = "compaction" => producer[o] = "handled"
  /\ Quiet(ResolveDecision(s, kind, msg, verdict))
  /\ Inert /\ UNCHANGED session

-----------------------------------------------------------------------------
(* A reconnecting client makes the session observe the stream that runs:   *)
(* one that was there when the session was constructed, or one whose own   *)
(* operation was retired.                                                  *)

Live == {StreamMsg(o) : o \in {p \in Ops : engine[p] = "live"}}
          \cup (IF foreign = "live" THEN {ForeignMsg} ELSE {})

ObserveReplay(m) ==
  /\ m \in Live /\ CanReplayStreamStart(s, m)
  /\ Call(ObserveStream(s, m))
  /\ UNCHANGED session

ForeignEnds ==
  /\ foreign = "live" /\ stack = << >>
  /\ foreign' = "ended"
  /\ Call(IF Observing(ForeignMsg) THEN FinishObserved(s, s.turn, ForeignMsg)
                                   ELSE Ignored(s))
  /\ UNCHANGED <<owner, producer, home, engine, outcome>>

-----------------------------------------------------------------------------
(* Reservations, waiters, retries, readers.                                *)

MakeReservation(kind) ==
  LET id == issued.resv + 1
  IN /\ id <= MaxReservations /\ s.life # "disposed"
     /\ Quiet(Reserve(s, id, kind))
     /\ issued' = [issued EXCEPT !.resv = id]
     /\ UNCHANGED <<compactionWaiters, resources, closing, session>>

ReleaseReservation(r) ==
  /\ r \in s.reservations
  /\ Call(Release(s, r.id, r.kind))
  /\ UNCHANGED session

(* The waits that would resolve at once leave no trace.                    *)
WaitFor(w, what) ==
  /\ CanCall /\ waiting[w] = "off"
  /\ CASE what = "idle"   -> s.phase # "idle" /\ s.life = "open"
       [] what = "unbusy" -> Busy(s) /\ s.life = "open"
       [] what = "compaction" -> s.tokenStage \in {"stopping", "stopped"}
  /\ waiting' = [waiting EXCEPT ![w] = what]
  /\ idleWaiters' = IF what = "idle" THEN idleWaiters \cup {w}
                                     ELSE idleWaiters
  /\ unbusyWaiters' = IF what = "unbusy" THEN unbusyWaiters \cup {w}
                                         ELSE unbusyWaiters
  /\ compactionWaiters' = IF what = "compaction"
                            THEN compactionWaiters \cup {w}
                            ELSE compactionWaiters
  /\ UNCHANGED <<s, stack, prepared, thinking, resources, recovery, issued,
                 closing, session>>

(* An abort signal takes the caller out of the batch it joined, which may  *)
(* have been detached since.                                               *)
CancelWait(w) ==
  /\ CanCall /\ waiting[w] \in {"idle", "unbusy"}
  /\ waiting' = [waiting EXCEPT ![w] = "off"]
  /\ idleWaiters' = idleWaiters \ {w}
  /\ unbusyWaiters' = unbusyWaiters \ {w}
  /\ stack' = [i \in DOMAIN stack |->
                 [stack[i] EXCEPT !.detached = @ \ {w}]]
  /\ UNCHANGED <<s, prepared, thinking, compactionWaiters, resources,
                 recovery, issued, closing, session>>

BeginRetry ==
  LET id == issued.token + 1
  IN /\ id <= MaxTokens /\ s.life # "disposed"
     /\ Quiet(RetryStart(s, id))
     /\ issued' = [issued EXCEPT !.token = id]
     /\ UNCHANGED <<compactionWaiters, resources, closing, session>>

FinishRetry(id) ==
  /\ id <= issued.token
  /\ Quiet(RetryFinish(s, id))
  /\ Inert /\ UNCHANGED session

ReadError(x, m) ==
  /\ stack = << >> /\ reading[x].st = "off"
  /\ <<"error", m>> \in promises
  /\ reading' = [reading EXCEPT ![x] =
                   [st |-> "waiting", kind |-> "error", msg |-> m]]
  /\ UNCHANGED <<s, stack, registries, compactionWaiters, resources, promises,
                 issued, closing, session>>

(* Only a caller that finds the compaction request still active may open a *)
(* pending decision, and only on the stream of the current operation.      *)
RequestActive == \E o \in Ops : /\ s.op.id = o /\ s.op.compaction
                                /\ producer[o] \notin {"handled", "finishing",
                                                       "failing", "done"}

(* Faulty: whichever stream the caller asks about.                         *)
AnyStream(m) == TRUE
OwnStream(m) == s.op.compaction /\ m \in {s.op.msg, s.op.startup}

ReadCompaction(x, m) ==
  LET r    == IF RequestActive /\ OwnStream(m)
                THEN BeginDecision(s, "compaction", m, {}) ELSE Ignored(s)
      kept == Settled(SettlesOf(r), r.s)
  IN /\ stack = << >> /\ reading[x].st = "off"
     /\ \E o \in Ops : m = StreamMsg(o) /\ outcome[o] = "completed"
     /\ s' = r.s
     /\ promises' = kept
     /\ reading' = [reading EXCEPT ![x] =
          [st |-> IF <<"compaction", m>> \in kept THEN "waiting"
                                                  ELSE "answered",
           kind |-> "compaction", msg |-> m]]
     /\ UNCHANGED <<stack, registries, compactionWaiters, resources, issued,
                    closing, session>>

ReaderReturns(x) ==
  /\ stack = << >> /\ reading[x].st = "answered"
  /\ LET r    == IF reading[x].kind = "compaction"
                   THEN ForgetCompaction(s, reading[x].msg) ELSE Ignored(s)
         kept == Settled({}, r.s)
         off  == [reading EXCEPT ![x] = [@ EXCEPT !.st = "off"]]
     IN /\ s' = r.s
        /\ promises' = kept
        /\ reading' = Read(off, {}, kept)
  /\ UNCHANGED <<stack, registries, compactionWaiters, resources, issued,
                 closing, session>>

-----------------------------------------------------------------------------
(* The mid-stream compaction observation.                                  *)

BeginCompactionObservation ==
  LET id == issued.token + 1
  IN /\ id <= MaxTokens
     /\ Quiet(CompactionObserve(s, id))
     /\ issued' = [issued EXCEPT !.token = id]
     /\ UNCHANGED <<compactionWaiters, resources, closing, session>>

SetCompactionStage(token, stage) ==
  /\ token <= issued.token
  /\ Quiet(CompactionStage(s, token, stage))
  /\ Inert /\ UNCHANGED session

(* Only the owner of the observation ends it and releases its waiters.     *)
FinishCompactionObservation(token) ==
  LET st == CompactionFinish(s, token).s
  IN /\ CanCall /\ token # None /\ s.token = token
     /\ s' = st
     /\ IF st.tokenStage \in {"stopping", "stopped"}
          THEN UNCHANGED <<compactionWaiters, waiting>>
          ELSE /\ compactionWaiters' = {}
               /\ waiting' = Released(waiting, compactionWaiters)
     /\ UNCHANGED <<stack, idleWaiters, unbusyWaiters, prepared, thinking,
                    resources, recovery, issued, closing, session>>

RecordCompactionSummary(id) ==
  /\ Quiet(CompactionSummary(s, id)) /\ Inert /\ UNCHANGED session

AbandonCompaction ==
  /\ Quiet(CompactionAbandon(s)) /\ Inert /\ UNCHANGED session

-----------------------------------------------------------------------------
(* Shutdown, disposal, and the close of the execution scope.               *)

(* Waits on the lifetime end here, without an idle publication.  Faulty:   *)
(* so do those on the compaction window.                                   *)
EveryWaiter     == idleWaiters \cup unbusyWaiters \cup compactionWaiters
LifetimeWaiters == idleWaiters \cup unbusyWaiters

BeginShutdown ==
  /\ CanCall
  /\ s' = Shutdown(s).s
  /\ idleWaiters' = {} /\ unbusyWaiters' = {}
  /\ waiting' = Released(waiting, LifetimeWaiters)
  /\ UNCHANGED <<stack, prepared, thinking, compactionWaiters, resources,
                 recovery, issued, closing, session>>

DisposeSession ==
  /\ CanCall /\ s.life # "disposed"
  /\ DispatchFrom(Dispose(Shutdown(s).s), prepared, {}, {}, "dispose", None)
  /\ waiting' = Released(waiting, LifetimeWaiters)
  /\ UNCHANGED <<compactionWaiters, resources, recovery, issued, closing,
                 session>>

(* drain(), and the close that disposal requests, wait for every lease.    *)
Drain ==
  /\ CanCall /\ s.life # "open" /\ ~closing.requested
  /\ closing' = [closing EXCEPT !.requested = TRUE]
  /\ UNCHANGED <<s, stack, registries, compactionWaiters, resources, recovery,
                 issued, session>>

Close ==
  /\ stack = << >> /\ closing.requested /\ ~closing.closed
  /\ leases = {} /\ policies = {}
  /\ closing' = [closing EXCEPT !.closed = TRUE]
  /\ idleWaiters' = {} /\ unbusyWaiters' = {} /\ thinking' = None
  /\ waiting' = Released(waiting, LifetimeWaiters)
  /\ UNCHANGED <<s, stack, prepared, compactionWaiters, resources, recovery,
                 issued, session>>

-----------------------------------------------------------------------------
Init ==
  /\ s = InitialState(1)
  /\ stack = << >>
  /\ idleWaiters = {} /\ unbusyWaiters = {} /\ compactionWaiters = {}
  /\ waiting = [w \in Waiters |-> "off"]
  /\ prepared = None /\ aborted = {} /\ thinking = None
  /\ settlements = {} /\ leases = {} /\ policies = {} /\ promises = {}
  /\ reading = [x \in Readers |-> [st |-> "off", kind |-> "error",
                                   msg |-> None]]
  /\ issued = [turn |-> 1, op |-> 0, resv |-> 0, token |-> 0]
  /\ closing = [requested |-> FALSE, closed |-> FALSE]
  /\ owner = [t \in Turns |-> IF t = 1 THEN "done" ELSE "none"]
  /\ producer = [o \in Ops |-> "none"]
  /\ home = [o \in Ops |-> None]
  /\ engine = [o \in Ops |-> "off"]
  /\ outcome = [o \in Ops |-> "none"]
  /\ foreign = IF EngineRunning THEN "live" ELSE "none"

(* The edit reservation a direct request may carry.                        *)
Edits == {None} \cup {r.id : r \in {q \in s.reservations : q.kind = "edit"}}

Claims ==
  \/ \E i \in {"direct", "resume"} \cap Calls, e \in Edits :
        PrepareFresh(i, s.turn, e, TRUE)
  \/ \E i \in QueueIntents \cap Calls : PrepareFresh(i, s.turn, None, FALSE)
  \/ \E o \in Ops : /\ Handling(o) /\ IsCurrentOperation(s, o)
                    /\ stack = << >>
                    /\ PrepareFresh("handoff", s.turn, None, FALSE)
  \/ \E t \in Turns : \/ PrepareAdopt(t) \/ FinishPreparation(t)
                      \/ ("thinking" \in Calls /\ AcceptThinking(t))
  \/ "preempt" \in Calls /\ PreemptPreparation
  \/ ReleaseThinking

Operations(o) ==
  \/ ConfigureOperation(o) \/ StreamStarting(o) \/ StreamStarted(o)
  \/ \E kind \in {"completed", "aborted"} : StreamEnds(o, kind)
  \/ StreamFails(o) \/ StartupAborts(o) \/ PreStartError(o)
  \/ StartupFails(o) \/ DeliverHandle(o)

Completions(o) ==
  \/ CompletionArrives(o) \/ HandlerClears(o) \/ PolicyReturns(o)
  \/ FinishStartup(o) \/ BeginPolicy(o) \/ FinishTurn(o)
  \/ \E m \in {StartupMsg(o), StreamMsg(o)} :
        \/ \E v \in {"terminal", "retry-started"} :
              ResolveVerdict(o, "error", m, v)
        \/ \E v \in {"accepted", "declined"} :
              ResolveVerdict(o, "compaction", m, v)

Holds ==
  \/ \E k \in ReservationKinds : MakeReservation(k)
  \/ \E r \in s.reservations : ReleaseReservation(r)
  \/ \E w \in Waiters : \/ CancelWait(w)
                        \/ \E k \in {"idle", "unbusy", "compaction"} :
                              WaitFor(w, k)
  \/ BeginRetry \/ \E id \in 1..MaxTokens : FinishRetry(id)

Decisions ==
  \/ \E x \in Readers, m \in Messages : ReadError(x, m) \/ ReadCompaction(x, m)
  \/ \E x \in Readers : ReaderReturns(x)

Compactions ==
  \/ BeginCompactionObservation
  \/ "abandon" \in Calls /\ AbandonCompaction
  \/ "summary" \in Calls /\ \E id \in {None, 1} : RecordCompactionSummary(id)
  \/ \E k \in 1..MaxTokens :
        \/ FinishCompactionObservation(k)
        \/ \E g \in {"stopping", "stopped"} : SetCompactionStage(k, g)

Closing == "shutdown" \in Calls /\ (BeginShutdown \/ DisposeSession \/ Drain)

Next ==
  \/ Run \/ Claims \/ \E t \in Turns : RegisterOperation(t)
  \/ \E o \in Ops : Operations(o) \/ Completions(o)
  \/ "startup-abort" \in Calls /\ SyntheticAbort
  \/ ForeignEnds \/ \E m \in Messages : ObserveReplay(m)
  \/ Holds \/ Decisions \/ Compactions \/ Closing \/ Close

Spec == Init /\ [][Next]_vars

(* A dispatch runs to its end; a start-up, a stream and a policy end, and  *)
(* their continuations get their turn of the event loop however often      *)
(* other calls interleave, as does the closing scope.                      *)
Engine(o) ==
  \/ StreamStarting(o) \/ StreamStarted(o) \/ StartupAborts(o)
  \/ \E kind \in {"completed", "aborted"} : StreamEnds(o, kind)
  \/ StreamFails(o) \/ StartupFails(o) \/ DeliverHandle(o)

Continuation(o) ==
  \/ CompletionArrives(o) \/ HandlerClears(o) \/ PolicyReturns(o)
  \/ FinishStartup(o)

AnswerStartup(o) ==
  /\ PendingOn(StartupMsg(o)) # {}
  /\ ResolveVerdict(o, "error", StartupMsg(o), "terminal")

FairSpec ==
  /\ Spec /\ WF_vars(Run) /\ SF_vars(Close)
  /\ \A o \in Ops : /\ SF_vars(Engine(o)) /\ SF_vars(Continuation(o))
                    /\ SF_vars(AnswerStartup(o)) /\ SF_vars(BeginPolicy(o))

-----------------------------------------------------------------------------
(* Properties.                                                             *)

Frames ==
  [cmds : Seq(Command), detached : SUBSET Waiters, retired : Nat,
   observing : BOOLEAN, then : Continuations, id : Nat]

(* Every variable keeps its type.                                          *)
TypeOK ==
  /\ s \in CoordinatorState
  /\ stack \in Seq(Frames)
  /\ idleWaiters \subseteq Waiters /\ unbusyWaiters \subseteq Waiters
  /\ compactionWaiters \subseteq Waiters
  /\ waiting \in [Waiters -> {"off", "idle", "unbusy", "compaction"}]
  /\ prepared \in Nat /\ aborted \subseteq Nat /\ thinking \in Nat
  /\ settlements \subseteq Nat /\ leases \subseteq Nat
  /\ policies \subseteq Nat
  /\ promises \subseteq (DecisionKinds \X Nat)
  /\ reading \in [Readers -> [st : {"off", "waiting", "answered", "orphaned"},
                             kind : DecisionKinds, msg : Nat]]
  /\ issued \in [turn : Nat, op : Nat, resv : Nat, token : Nat]
  /\ closing \in [requested : BOOLEAN, closed : BOOLEAN]
  /\ owner \in [Turns -> {"none", "claimed", "granted", "done"}]
  /\ producer \in [Ops -> {"none", "starting", "failing", "consuming",
                          "launching", "policy", "handled", "finishing",
                          "done"}]
  /\ home \in [Ops -> Nat]
  /\ engine \in [Ops -> {"off", "handed", "live", "ended"}]
  /\ outcome \in [Ops -> {"none", "completed", "aborted", "failed",
                         "cancelled"}]
  /\ foreign \in {"none", "live", "ended"}

(* No caller of waitForIdle or waitForUnbusy is left behind: whatever it   *)
(* waits for has not happened yet, or a dispatch in progress releases it.  *)
(* A detached batch survives a callback that claims the next turn, waits   *)
(* again, shuts down or disposes.                                          *)
Detached == UNION {stack[i].detached : i \in DOMAIN stack}

WaitersNotStranded ==
  /\ \A w \in Waiters :
       /\ waiting[w] = "idle" => w \in idleWaiters \cup Detached
       /\ waiting[w] = "unbusy" => w \in unbusyWaiters \cup Detached
       /\ waiting[w] = "compaction" => w \in compactionWaiters
  /\ idleWaiters # {} => s.phase # "idle" /\ s.life = "open"
  /\ unbusyWaiters # {} => Busy(s) /\ s.life = "open"
  /\ compactionWaiters # {} => s.tokenStage \in {"stopping", "stopped"}

(* The abort controller the coordinator holds is that of the current,      *)
(* unfinished turn, and an edit's preemption never hits another turn.      *)
ControllerFollowsClaim ==
  prepared # None => /\ prepared = s.turn /\ s.phase # "idle"
                     /\ prepared \notin aborted

(* A preempted turn never owns an operation again.                         *)
AbortedStaysDead == s.turn \in aborted => s.op.id = None

(* A settlement outlives neither its producer nor its disposal, and is     *)
(* kept for as long as the policy of the current operation runs: a hard    *)
(* stop that joins it neither returns early nor hangs.                     *)
SettlementHasOwner ==
  /\ \A o \in settlements : /\ producer[o] \notin {"none", "done"}
                            /\ o \in leases
  /\ \A o \in policies : IsCurrentOperation(s, o) => o \in settlements

(* Every pending decision still has the producer that must answer it, so   *)
(* no reader waits for an answer that nobody is going to give.             *)
DecisionHasResolver ==
  /\ \A x \in Readers : reading[x].st # "orphaned"
  /\ \A key \in promises :
       \/ \E o \in Ops : /\ key[2] \in {StartupMsg(o), StreamMsg(o)}
                         /\ producer[o] \notin {"none", "finishing", "done"}
       \/ s.life = "disposed" /\ stack # << >>

(* A preparing turn is released only by its own owner or by the edit that  *)
(* preempts it: a late finishPreparation of a replaced owner leaves its    *)
(* successor alone.                                                        *)
PreparationOwned ==
  [][s.phase = "preparing" /\ s'.phase = "idle" /\ s'.life = "open" =>
       \/ owner[s.turn] # "done" /\ owner'[s.turn] = "done"
       \/ Top'.then = "preempt" /\ Top'.id = s.turn]_vars

(* A session shows a stream only while one runs or the completion of the   *)
(* operation that started it is still to come: a reconnect, a late         *)
(* terminal or a replacement never leaves the phase streaming on its own.  *)
StreamingIsReal ==
  s.phase = "streaming" /\ stack = << >> =>
    IF s.op.id = None THEN s.observed \in Live
    ELSE producer[s.op.id] \in {"starting", "consuming", "launching",
                               "policy", "handled"}

(* Only the end of the observation that is pending releases the callers    *)
(* waiting for it: neither a stop nor a shutdown does.                     *)
CompactionWaitersHeld ==
  [][\A w \in Waiters : waiting[w] = "compaction" /\ waiting'[w] = "off" =>
       s.tokenStage \in {"stopping", "stopped"} /\ s'.token = None]_vars

(* Every settlement resolves, so a hard stop that joins it returns.        *)
SettlementsResolve == \A o \in Ops : o \in settlements ~> o \notin settlements

(* A disposed session closes its execution scope, after every lease.       *)
DisposalCloses == s.life = "disposed" ~> closing.closed
=============================================================================
