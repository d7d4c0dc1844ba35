------------------------------ MODULE SessionTurns ------------------------------
(***************************************************************************)
(* The turns of one chat session: how agentSession.ts drives the turn      *)
(* coordinator.  Sends, the message queue, startups, the provider stream,  *)
(* completion policies, history edits, a hard stop and a context mutation  *)
(* all run on one event loop; each action below is the code between two    *)
(* awaits.  A dispatch of the coordinator is one step here (its observers  *)
(* and nesting are the subject of TurnCoordinator), an operation has the   *)
(* id of its turn, and a turn's handle, startup, stream and policy are the *)
(* fields of one record.                                                   *)
(***************************************************************************)
EXTENDS TurnTransition

CONSTANTS
  MaxTurns,   \* bound on the turns of an instance
  Sends,      \* user sends, natural numbers in the order they arrive
  Edits,      \* calls that edit a message, numbered with the sends
  Mutations,  \* calls that discard context, natural numbers of their own
  Casts       \* who calls and which optional paths are taken, one per question

OptionalPaths == {"stop", "send-now", "soft-send-now", "tool-end", "fail",
                  "recover", "follow-up", "goal", "startup-fail", "shutdown"}

ASSUME SessionAssumption ==
  /\ MaxTurns \in Nat \ {0}
  /\ Sends \subseteq Nat \ {0} /\ Edits \subseteq Nat \ {0}
  /\ Mutations \subseteq Nat \ {0} /\ Sends \cap Edits = {}
  /\ (Sends \cup Edits) \cap Mutations = {}
  /\ Casts \subseteq [callers : SUBSET (Sends \cup Edits \cup Mutations),
                      paths : SUBSET OptionalPaths]

VARIABLES
  s,          \* the coordinator's state
  issued,     \* the last turn claimed
  queue,      \* the sends in the message queue, in order
  turns,      \* what runs for each turn
  sends,      \* what each user send is doing
  edits,      \* what each edit is doing
  stop,       \* the user's hard stop
  mutations,  \* what each context mutation is doing
  cast        \* the one of Casts that is played; it never changes

vars == <<s, issued, queue, turns, sends, edits, stop, mutations>>

Turns == 1..MaxTurns
Paths == cast.paths

(* A turn: who claimed it, for which send or edit, how far its startup is, *)
(* whether its preparation was aborted or a stop made it stale, its stream,*)
(* whether a stop has cut that, how it ended, and its completion policy    *)
(* with the turn the policy captured and the turn it handed over to.       *)
Claimants == {"nobody", "queue", "send", "edit", "follow-up", "handoff"}
Startups  == {"none", "reserved", "prepared", "starting", "failing",
              "delivered", "done"}
Policies  == {"off", "entered", "handling", "recovering", "continuing",
              "flushing", "accounting", "handed-off", "done"}
Turn == [by : Claimants, send : Nat, editId : Nat, startup : Startups,
         aborted : BOOLEAN, stale : BOOLEAN,
         engine : {"off", "live", "ended"}, cut : BOOLEAN,
         outcome : {"none", "completed", "failed", "aborted", "tool-end",
                    "cancelled"},
         policy : Policies, captured : Nat, next : Nat]

NoTurn == [by |-> "nobody", send |-> None, editId |-> None,
           startup |-> "none", aborted |-> FALSE, stale |-> FALSE,
           engine |-> "off", cut |-> FALSE, outcome |-> "none",
           policy |-> "off", captured |-> None, next |-> None]

-----------------------------------------------------------------------------
(* Claims.                                                                 *)

Fresh(intent, expected, edit) ==
  [kind |-> "fresh", intent |-> intent, expected |-> expected, edit |-> edit]
Adopt(t) ==
  [kind |-> "adopt", intent |-> "direct", expected |-> t, edit |-> None]

ClaimedBy(who, send, edit) ==
  [NoTurn EXCEPT !.by = who, !.send = send, !.editId = edit,
     !.startup = IF who = "queue" THEN "reserved" ELSE "prepared"]

StopInProgress == stop.at = "stopping"

(* queueDispatchBlocked.                                                   *)
QueueBlocked(st, latched) ==
  st.life # "open" \/ ConflictingEdit(st, None) \/ latched

(* Whether sendQueuedMessages(trigger) dispatches the head of q in st.     *)
Dispatches(st, q, trigger, latched) ==
  /\ q # << >> /\ ~QueueBlocked(st, latched)
  /\ Admits(st, Fresh(trigger, st.turn, None))

(* An edit waiting for idle is released by the publication of idle.        *)
Released(ed, cmds) ==
  [e \in Edits |-> IF PublishesIdle(cmds) /\ ed[e].at = "waiting"
                     THEN [ed[e] EXCEPT !.at = "settled"] ELSE ed[e]]

(* A dispatch's result r, after which the queue is drained with `trigger`  *)
(* ("none": not at all); tt, ed and q are the turns, the edits and the     *)
(* queue as the caller leaves them.  The drain claims the next turn in the *)
(* same block.                                                             *)
ContinueWith(r, tt, ed, q, trigger, latched) ==
  IF trigger # "none" /\ Dispatches(r.s, q, trigger, latched)
    THEN LET p == Prepare(r.s, issued + 1, Fresh(trigger, r.s.turn, None))
         IN /\ issued < MaxTurns
            /\ s' = p.s /\ issued' = issued + 1 /\ queue' = Tail(q)
            /\ turns' = [tt EXCEPT ![issued + 1] =
                           ClaimedBy("queue", Head(q), None)]
            /\ edits' = Released(ed, r.cmds)
    ELSE /\ s' = r.s /\ queue' = q /\ turns' = tt /\ UNCHANGED issued
         /\ edits' = Released(ed, r.cmds)

Continue(r, tt, ed, q, trigger) ==
  ContinueWith(r, tt, ed, q, trigger, StopInProgress)

(* A claim that is not the queue's.                                        *)
Claim(req, turn, tt) ==
  /\ issued < MaxTurns
  /\ s' = Prepare(s, issued + 1, req).s /\ issued' = issued + 1
  /\ turns' = [tt EXCEPT ![issued + 1] = turn]
  /\ UNCHANGED queue

(* drainQueuedMessagesIfIdle, and the drain a released reservation wakes.  *)
IfIdle(st)   == IF Busy(st) THEN "none" ELSE "idle"
IfWoken(r)   == IF \E i \in DOMAIN r.cmds : r.cmds[i].do = "drain"
                  THEN IfIdle(r.s) ELSE "none"

Set(t, field, to) == [turns EXCEPT ![t][field] = to]
Owns(t) == IsCurrentTurn(s, t) /\ IsCurrentOperation(s, t)

-----------------------------------------------------------------------------
(* User sends.  The calls, edits included, are numbered in the order they  *)
(* enter the service and hold a ticket until their turn is claimed; each   *)
(* decides in that order whether it is queued or goes to the session.      *)

Calls == Sends \cup Edits
At(c) == IF c \in Sends THEN sends[c].at ELSE edits[c].at

Ticketed == {c \in Calls : At(c) \notin {"off", "leaving", "done"}}
First(c) == \A d \in Ticketed : c <= d
Mutating == \E m \in Mutations : mutations[m] = "mutating"

Arrives(c) == /\ c \in cast.callers
              /\ At(c) = "off" /\ \A d \in Calls : d > c => At(d) = "off"
              /\ ~Mutating /\ ~StopInProgress /\ s.life = "open"

(* Faulty: an earlier call that has not decided is not waited for.         *)
DecidesAtOnce(c) == At(c) = "preflight"
Decides(c) == /\ At(c) = "preflight"
              /\ \A d \in Calls : d < c => At(d) # "preflight"

(* The call of a ticket's holder ends: the head of the line drains what    *)
(* queued behind it.  Faulty: a call without a turn drains nothing.        *)
NoDrain(c, st) == "none"
IfFirst(c, st) == IF First(c) THEN IfIdle(st) ELSE "none"

SendIs(x, at) == [sends EXCEPT ![x].at = at]

SendArrives(x) ==
  /\ Arrives(x)
  /\ sends' = SendIs(x, "preflight")
  /\ UNCHANGED <<s, issued, queue, turns, edits, stop, mutations>>

(* A send is refused on its way, or leaves without a turn.                 *)
SendRefused(x) ==
  /\ sends[x].at \in {"preflight", "direct"}
  /\ sends' = SendIs(x, "done")
  /\ Continue(Ignored(s), turns, edits, queue, IfFirst(x, s))
  /\ UNCHANGED <<stop, mutations>>

MustQueue(x) == Busy(s) \/ queue # << >> \/ ~First(x)

SendDecides(x) ==
  /\ Decides(x) /\ (MustQueue(x) => s.life = "open" /\ ~StopInProgress)
  /\ IF MustQueue(x)
       THEN /\ sends' = [sends EXCEPT ![x].at = "leaving", ![x].first = First(x)]
            /\ queue' = Append(queue, x)
       ELSE /\ sends' = [sends EXCEPT ![x].at = "direct",
                                      ![x].expected = s.turn]
            /\ UNCHANGED queue
  /\ UNCHANGED <<s, issued, turns, edits, stop, mutations>>

(* prepareMessage claims the turn for a direct send.                       *)
SendPrepares(x) ==
  LET req == Fresh("direct", sends[x].expected, None)
  IN /\ sends[x].at = "direct" /\ Admits(s, req) /\ ~StopInProgress
     /\ Claim(req, ClaimedBy("send", x, None), turns)
     /\ sends' = [sends EXCEPT ![x].at = "leaving", ![x].first = First(x),
                               ![x].turn = issued + 1]
     /\ UNCHANGED <<edits, stop, mutations>>

SendReturns(x) ==
  LET t == sends[x].turn
  IN /\ sends[x].at = "leaving" /\ (t # None => turns[t].startup = "done")
     /\ sends' = SendIs(x, "done")
     /\ Continue(Ignored(s), turns, edits, queue,
                 IF sends[x].first THEN IfIdle(s) ELSE "none")
     /\ UNCHANGED <<stop, mutations>>

-----------------------------------------------------------------------------
(* Startups, from the claim to the delivered handle.                       *)

(* A queued send attaches its startup to the turn its dispatch claimed.    *)
QueuedPrepares(t) ==
  /\ turns[t].startup = "reserved"
  /\ turns' = Set(t, "startup", IF Admits(s, Adopt(t)) /\ ~StopInProgress
                                    /\ ~turns[t].stale
                                  THEN "prepared" ELSE "failing")
  /\ UNCHANGED <<s, issued, queue, sends, edits, stop, mutations>>

(* streamWithHistory registers in the block that checks it may still start.*)
StartupBegins(t) ==
  /\ turns[t].startup = "prepared"
  /\ IF /\ IsCurrentTurn(s, t) /\ s.life = "open"
        /\ ~turns[t].aborted /\ ~turns[t].stale
       THEN /\ s' = Register(s, t, t).s
            /\ turns' = Set(t, "startup", "starting")
       ELSE /\ turns' = Set(t, "startup", "failing") /\ UNCHANGED s
  /\ UNCHANGED <<issued, queue, sends, edits, stop, mutations>>

(* A startup in the engine does not start a stream if its preparation was  *)
(* aborted, a stop has cut it or a stop was latched since its claim.       *)
Waiting(t) == turns[t].startup = "starting" /\ turns[t].engine = "off"
                /\ turns[t].outcome = "none"
Barred(t)  == \/ turns[t].aborted \/ turns[t].cut \/ turns[t].stale
              \/ StopInProgress

WithoutEdit(t) == IF turns[t].editId = None THEN Ignored(s)
                  ELSE Release(s, turns[t].editId, "edit")

(* A startup is withdrawn, or fails without an error event: a failure in   *)
(* streamWithHistory releases the edit before the preparation completes.   *)
PreparationFails(t) ==
  /\ "startup-fail" \in Paths
  /\ \/ /\ turns[t].startup \in {"reserved", "prepared"} \/ Waiting(t)
        /\ turns' = Set(t, "startup", "failing")
        /\ UNCHANGED <<s, issued, queue, edits>>
     \/ /\ Waiting(t) /\ turns[t].editId # None
        /\ Continue(WithoutEdit(t),
                    [turns EXCEPT ![t].startup = "failing", ![t].editId = None],
                    edits, queue, IfWoken(WithoutEdit(t)))
  /\ UNCHANGED <<sends, stop, mutations>>

(* A startup fails with an error event: the edit is released, and          *)
(* handleStreamError runs before the preparation completes, if the turn    *)
(* still owns its operation.                                               *)
StartupFails(t) ==
  /\ "startup-fail" \in Paths
  /\ Waiting(t) /\ Owns(t)
  /\ s' = CompletePolicy(WithoutEdit(t).s, t).s
  /\ turns' = [turns EXCEPT ![t].startup = "failing", ![t].outcome = "failed",
                 ![t].policy = "handling", ![t].captured = t,
                 ![t].editId = None]
  /\ UNCHANGED <<issued, queue, sends, edits, stop, mutations>>

(* A stream still live is cancelled before the next one starts.            *)
StreamStarts(t) ==
  /\ Waiting(t) /\ ~Barred(t)
  /\ \A u \in Turns : turns[u].engine # "live"
  /\ s' = Started(s, t).s
  /\ turns' = Set(t, "engine", "live")
  /\ UNCHANGED <<issued, queue, sends, edits, stop, mutations>>

(* The handle is delivered; a started edit gives up its reservation.       *)
StartupDelivers(t) ==
  LET free == IsCurrentTurn(s, t) /\ s.life = "open" /\ ~turns[t].aborted
      r  == IF free THEN WithoutEdit(t) ELSE Ignored(s)
      tt == [turns EXCEPT ![t].startup = "delivered",
                          ![t].editId = IF free THEN None ELSE @]
  IN /\ turns[t].startup = "starting"
     /\ turns[t].engine = "live" \/ turns[t].outcome # "none"
     /\ Continue(r, tt, edits, queue, IfWoken(r))
     /\ UNCHANGED <<sends, stop, mutations>>

(* The end of completePreparation: the preparation ends, then the edit's   *)
(* reservation, then the queue is drained if no stream took the turn over. *)
(* A failed queued send may return the whole queue to the input.           *)
PreparationCompletes(t) ==
  LET e  == turns[t].editId
      f  == Finish(s, t, TRUE)
      r  == IF e = None THEN Ignored(f.s) ELSE Release(f.s, e, "edit")
      tt == [turns EXCEPT ![t].startup = "done", ![t].editId = None]
      drains == /\ turns[t].startup = "failing" /\ turns[t].by # "handoff"
                /\ IsCurrentTurn(s, t)
  IN /\ turns[t].startup \in {"failing", "delivered"}
     /\ turns[t].startup = "failing" => turns[t].policy \in {"off", "done"}
     /\ \E q \in {queue} \cup (IF turns[t].by = "queue"
                                    /\ turns[t].startup = "failing"
                               THEN {<< >>} ELSE {}) :
          Continue(Result(r.s, f.cmds \o r.cmds), tt, edits, q,
                   IF drains THEN IfIdle(r.s) ELSE IfWoken(r))
     /\ UNCHANGED <<sends, stop, mutations>>

-----------------------------------------------------------------------------
(* The provider stream.                                                    *)

(* A stop cuts the stream and the startup it finds; a stream that starts   *)
(* cuts the one before it.                                                 *)
Cut(t) == turns[t].cut \/ \E u \in Turns \ {t} : Waiting(u) /\ ~Barred(u)

CutAll(tt) == [t \in Turns |-> IF Waiting(t) \/ turns[t].engine = "live"
                 THEN [tt[t] EXCEPT !.cut = TRUE] ELSE tt[t]]

Outcomes(t) ==
  {"completed"} \cup (IF "fail" \in Paths THEN {"failed"} ELSE {})
    \cup (IF Cut(t) THEN {"aborted"} ELSE {})
    \cup (IF "tool-end" \in Paths /\ queue # << >>
                 /\ ~QueueBlocked(s, StopInProgress)
            THEN {"tool-end"} ELSE {})

(* The engine announces a terminal event unless the stream failed.         *)
StreamEnds(t) ==
  /\ turns[t].engine = "live"
  /\ \E how \in Outcomes(t) :
       /\ turns' = [turns EXCEPT ![t].engine = "ended", ![t].outcome = how]
       /\ s' = IF how = "failed" THEN s ELSE RawTerminal(s, how, t).s
  /\ UNCHANGED <<issued, queue, sends, edits, stop, mutations>>

(* A stop that comes before the stream cancels the startup: its handle is  *)
(* delivered aborted.                                                      *)
StartupCancelled(t) ==
  /\ Waiting(t) /\ Barred(t)
  /\ turns' = Set(t, "outcome", "cancelled")
  /\ UNCHANGED <<s, issued, queue, sends, edits, stop, mutations>>

-----------------------------------------------------------------------------
(* Completion policies.                                                    *)

(* A completion of a retired operation only settles it, and the policy of  *)
(* a cancelled startup leaves the phase to the preparation.                *)
CompletionArrives(t) ==
  LET r == Completion(s, t, t, turns[t].outcome \in {"aborted", "cancelled"})
  IN /\ turns[t].startup \in {"delivered", "done"}
     /\ turns[t].outcome # "none" /\ turns[t].policy = "off"
     /\ s' = r.s
     /\ turns' = Set(t, "policy",
          IF IsCurrentOperation(s, t) /\ turns[t].outcome # "cancelled"
            THEN "entered" ELSE "done")
     /\ UNCHANGED <<issued, queue, sends, edits, stop, mutations>>

(* The handler captures the turn it finds after the policy's first await,  *)
(* completes it, and only then checks that its operation is the current.   *)
PolicyHandles(t) ==
  /\ turns[t].policy = "entered"
  /\ s' = CompletePolicy(s, s.turn).s
  /\ turns' = [turns EXCEPT ![t].captured = s.turn,
                 ![t].policy = IF IsCurrentOperation(s, t) THEN "handling"
                                                           ELSE "done"]
  /\ UNCHANGED <<issued, queue, sends, edits, stop, mutations>>

Current(t) == IsCurrentTurn(s, turns[t].captured) /\ IsCurrentOperation(s, t)

(* The check that follows every await of a handler.                        *)
PolicyLeaves(t) ==
  /\ turns[t].policy \in {"handling", "recovering", "continuing", "flushing",
                          "accounting"}
  /\ ~Current(t)
  /\ turns' = Set(t, "policy", "done")
  /\ UNCHANGED <<s, issued, queue, sends, edits, stop, mutations>>

Terminal(t) == turns[t].policy \in {"handling", "flushing"} /\ Current(t)

(* Faulty: an entry that is held back counts as dispatched.                *)
FlushesQueued(trigger) == trigger # "none" /\ queue # << >>
Flushes(trigger) ==
  trigger # "none" /\ Dispatches(s, queue, trigger, StopInProgress)

(* The end of a handler: the queue's next entry takes the turn over, or    *)
(* the turn is finished.                                                   *)
EndTurn(t, trigger) ==
  LET r == IF Flushes(trigger) THEN Ignored(s)
                               ELSE Finish(s, turns[t].captured, FALSE)
  IN /\ Continue(r, Set(t, "policy", "done"), edits, queue,
                 IF Flushes(trigger) THEN trigger ELSE "none")
     /\ UNCHANGED <<sends, stop, mutations>>

PolicySucceeds(t) ==
  /\ turns[t].outcome = "completed" /\ Terminal(t)
  /\ EndTurn(t, "terminal")

(* A goal continuation that found nothing queued accounts for its silent   *)
(* completion before it finishes the turn.                                 *)
GoalAccounts(t) ==
  /\ "goal" \in Paths
  /\ turns[t].outcome = "completed" /\ Terminal(t)
  /\ queue = << >> /\ ~ConflictingEdit(s, None)
  /\ turns' = Set(t, "policy", "accounting")
  /\ UNCHANGED <<s, issued, queue, sends, edits, stop, mutations>>

GoalAccounted(t) ==
  /\ turns[t].policy = "accounting" /\ Current(t)
  /\ EndTurn(t, "none")

PolicyFails(t) ==
  /\ turns[t].outcome = "failed" /\ Terminal(t)
  /\ EndTurn(t, "none")

PolicyAborts(t) ==
  /\ turns[t].outcome \in {"aborted", "tool-end"} /\ Terminal(t)
  /\ EndTurn(t, IF turns[t].outcome = "tool-end" THEN "provider-tool"
                                                 ELSE "none")

(* A failure that a fresh context can recover hands over to a new turn,    *)
(* once; a compaction that ends sends its follow-up.                       *)
PolicyDetours(t) ==
  /\ turns[t].policy = "handling" /\ Current(t)
  /\ \E to \in {"recovering", "continuing"} :
       /\ IF to = "recovering"
            THEN /\ "recover" \in Paths /\ turns[t].outcome = "failed"
                 /\ turns[t].by # "handoff"
            ELSE "follow-up" \in Paths /\ turns[t].outcome = "completed"
       /\ turns' = Set(t, "policy", to)
  /\ UNCHANGED <<s, issued, queue, sends, edits, stop, mutations>>

HandedOff(t) == [turns EXCEPT ![t].policy = "handed-off",
                              ![t].next = issued + 1]

(* A refused handoff answers the decision and returns.                     *)
RecoveryHandsOff(t) ==
  LET req == Fresh("handoff", turns[t].captured, None)
  IN /\ turns[t].policy = "recovering" /\ Current(t)
     /\ IF Admits(s, req)
          THEN Claim(req, ClaimedBy("handoff", None, None), HandedOff(t))
          ELSE /\ turns' = Set(t, "policy", "done")
               /\ UNCHANGED <<s, issued, queue>>
     /\ UNCHANGED <<sends, edits, stop, mutations>>

RecoveryFails(t) ==
  /\ turns[t].policy = "recovering" /\ Current(t)
  /\ turns' = Set(t, "policy", "flushing")
  /\ UNCHANGED <<s, issued, queue, sends, edits, stop, mutations>>

FollowUpIsSent(t) ==
  LET req == Fresh("direct", turns[t].captured, None)
  IN /\ turns[t].policy = "continuing" /\ Current(t)
     /\ IF Admits(s, req) /\ ~StopInProgress
          THEN Claim(req, ClaimedBy("follow-up", None, None), HandedOff(t))
          ELSE /\ turns' = Set(t, "policy", "flushing")
               /\ UNCHANGED <<s, issued, queue>>
     /\ UNCHANGED <<sends, edits, stop, mutations>>

HandoffReturns(t) ==
  /\ turns[t].policy = "handed-off"
  /\ turns[turns[t].next].startup = "done"
  /\ turns' = Set(t, "policy", "done")
  /\ UNCHANGED <<s, issued, queue, sends, edits, stop, mutations>>

-----------------------------------------------------------------------------
(* Edits: reserve, interrupt the turn or wait for it, truncate, claim.     *)

EditIs(e, at) == [edits EXCEPT ![e].at = at]

(* The settlement a stop waits for: that of the stream that has started.   *)
(* It resolves when the policy returns or a claim retires the operation.   *)
RunningOp ==
  IF s.op.id # None /\ s.op.stage = "started"
       /\ turns[s.op.id].policy # "done"
    THEN s.op.id ELSE None

(* Faulty: the stop ends with the stream, before its policy.               *)
StoppedPhysically(op) ==
  \A t \in Turns : turns[t].cut => turns[t].engine # "live"
Stopped(op) == /\ \A t \in Turns : turns[t].cut => turns[t].engine # "live"
               /\ op # None /\ s.op.id = op => turns[op].policy = "done"

EditArrives(e) ==
  /\ Arrives(e)
  /\ edits' = EditIs(e, "preflight")
  /\ UNCHANGED <<s, issued, queue, turns, sends, stop, mutations>>

(* An edit passes the queue, but not another edit it can see.              *)
EditDecides(e) ==
  /\ Decides(e) /\ ~ConflictingEdit(s, None)
  /\ edits' = EditIs(e, "checked")
  /\ UNCHANGED <<s, issued, queue, turns, sends, stop, mutations>>

EditReserves(e) ==
  /\ edits[e].at = "checked"
  /\ s' = Reserve(s, e, "edit").s
  /\ edits' = EditIs(e, "reserved")
  /\ UNCHANGED <<issued, queue, turns, sends, stop, mutations>>

(* A completing turn is left alone; any other that runs is interrupted.    *)
EditInterrupts(e) ==
  /\ edits[e].at = "reserved"
  /\ IF s.phase \in {"idle", "completing"}
       THEN /\ edits' = EditIs(e, IF s.phase = "idle" THEN "settled"
                                                     ELSE "waiting")
            /\ UNCHANGED turns
       ELSE /\ edits' = [edits EXCEPT ![e].at = "stopping",
                                      ![e].op = RunningOp]
            /\ turns' = CutAll(turns)
  /\ UNCHANGED <<s, issued, queue, sends, stop, mutations>>

(* The preparation whose controller the coordinator holds.                 *)
Controlled(t) == /\ turns[t].by # "handoff"
                 /\ turns[t].startup \notin {"none", "reserved", "done"}

(* Faulty: the claim is preempted and its startup goes on.                 *)
Abandoned(t) == turns
Preempted(t) == [turns EXCEPT ![t].aborted = TRUE]

EditPreempts(e) ==
  LET t == s.turn
      preempts == s.phase = "preparing" /\ Controlled(t)
  IN /\ edits[e].at = "stopping" /\ Stopped(edits[e].op)
     /\ edits' = Released(EditIs(e, IF preempts \/ s.phase = "idle"
                                      THEN "settled" ELSE "waiting"),
                          IF preempts THEN Preempt(s, t).cmds ELSE << >>)
     /\ IF preempts THEN s' = Preempt(s, t).s /\ turns' = Preempted(t)
                    ELSE UNCHANGED <<s, turns>>
     /\ UNCHANGED <<issued, queue, sends, stop, mutations>>

(* The reservation goes and wakes the queue, and the call returns.         *)
EditEnds(e) ==
  LET r == Release(s, e, "edit")
  IN /\ Continue(r, turns, EditIs(e, "done"), queue,
                 IF First(e) THEN IfIdle(r.s) ELSE IfWoken(r))
     /\ UNCHANGED <<sends, stop, mutations>>

(* Another edit is seen, or the client's evidence turns out to be stale.   *)
EditRefused(e) ==
  /\ edits[e].at \in {"preflight", "checked", "reserved", "truncating"}
  /\ EditEnds(e)

MayEdit(e) == /\ s.life = "open" /\ ~Reserved(s, "admission")
              /\ ~StopInProgress /\ ~edits[e].stale

EditSettles(e) ==
  /\ edits[e].at = "settled"
  /\ IF MayEdit(e)
       THEN /\ edits' = [edits EXCEPT ![e].at = "truncating",
                                      ![e].expected = s.turn]
            /\ UNCHANGED <<s, issued, queue, turns, sends, stop, mutations>>
       ELSE EditEnds(e)

(* Truncated: the queued sends go back to the input.                       *)
EditTruncates(e) ==
  /\ edits[e].at = "truncating"
  /\ edits' = EditIs(e, "truncated")
  /\ queue' = << >>
  /\ UNCHANGED <<s, issued, turns, sends, stop, mutations>>

EditPrepares(e) ==
  LET req == Fresh("direct", edits[e].expected, e)
  IN /\ edits[e].at = "truncated"
     /\ IF Admits(s, req) /\ ~StopInProgress /\ ~edits[e].stale
          THEN /\ Claim(req, ClaimedBy("edit", None, e), turns)
               /\ edits' = [edits EXCEPT ![e].at = "leaving",
                              ![e].first = First(e), ![e].turn = issued + 1]
               /\ UNCHANGED <<sends, stop, mutations>>
          ELSE EditEnds(e)

EditReturns(e) ==
  /\ edits[e].at = "leaving" /\ turns[edits[e].turn].startup = "done"
  /\ Continue(Ignored(s), turns, EditIs(e, "done"), queue,
              IF edits[e].first THEN IfIdle(s) ELSE "none")
  /\ UNCHANGED <<sends, stop, mutations>>

-----------------------------------------------------------------------------
(* The user's stop.  It makes every preparation under way stale and holds  *)
(* the queue; when the stream and its policy have ended it returns the     *)
(* queue to the input, or sends its next entry at once.                    *)

StopBegins(how) ==
  /\ how \in Paths \cap {"stop", "send-now"} /\ stop.at = "off" /\ Busy(s)
  /\ stop' = [at |-> "stopping", how |-> how, op |-> RunningOp]
  /\ turns' = CutAll([t \in Turns |->
       IF turns[t].startup \in {"reserved", "prepared", "starting"}
         THEN [turns[t] EXCEPT !.stale = TRUE] ELSE turns[t]])
  /\ sends' = [x \in Sends |->
       IF sends[x].at = "direct" THEN [sends[x] EXCEPT !.expected = None]
                                 ELSE sends[x]]
  /\ edits' = [e \in Edits |->
       IF edits[e].at \notin {"off", "done"}
         THEN [edits[e] EXCEPT !.stale = TRUE] ELSE edits[e]]
  /\ UNCHANGED <<s, issued, queue, mutations>>

StopEnds ==
  /\ stop.at = "stopping" /\ Stopped(stop.op)
  /\ stop' = [stop EXCEPT !.at = "done"]
  /\ IF stop.how = "send-now"
       THEN ContinueWith(Ignored(s), turns, edits, queue, "send-immediately",
                         FALSE)
       ELSE /\ queue' = << >>
            /\ UNCHANGED <<s, issued, turns, edits>>
  /\ UNCHANGED <<sends, mutations>>

(* A soft stop waits for nothing before it sends the next entry.           *)
SoftSendNow ==
  /\ "soft-send-now" \in Paths
  /\ Dispatches(s, queue, "send-immediately", StopInProgress)
  /\ Continue(Ignored(s), CutAll(turns), edits, queue, "send-immediately")
  /\ UNCHANGED <<sends, stop, mutations>>

-----------------------------------------------------------------------------
(* Context mutations: arm the block, then check that nothing runs.         *)

SendInPreflight == \E c \in Calls : At(c) \notin {"off", "done"}

(* Faulty: only the phase is looked at.                                    *)
MutationMayBeginIdle == s.phase = "idle"
MutationMayBegin     == ~Busy(s) /\ ~SendInPreflight

MutationBegins(m) ==
  LET held == Reserve(s, m, "admission").s
      r    == Release(held, m, "admission")
  IN /\ m \in cast.callers /\ mutations[m] = "off" /\ ~Mutating
     /\ IF MutationMayBegin
          THEN /\ s' = held
               /\ mutations' = [mutations EXCEPT ![m] = "mutating"]
               /\ UNCHANGED <<issued, queue, turns, edits>>
          ELSE /\ mutations' = [mutations EXCEPT ![m] = "done"]
               /\ Continue(r, turns, edits, queue, IfWoken(r))
     /\ UNCHANGED <<sends, stop>>

MutationEnds(m) ==
  LET r == Release(s, m, "admission")
  IN /\ mutations[m] = "mutating"
     /\ mutations' = [mutations EXCEPT ![m] = "done"]
     /\ Continue(r, turns, edits, queue, IfWoken(r))
     /\ UNCHANGED <<sends, stop>>

(* Shutdown ends every wait for idle.                                      *)
BeginShutdown ==
  /\ "shutdown" \in Paths /\ s.life = "open"
  /\ s' = Shutdown(s).s
  /\ edits' = [e \in Edits |-> IF edits[e].at = "waiting"
                 THEN [edits[e] EXCEPT !.at = "settled"] ELSE edits[e]]
  /\ UNCHANGED <<issued, queue, turns, sends, stop, mutations>>

-----------------------------------------------------------------------------
Init ==
  /\ s = InitialState(1) /\ issued = 1 /\ queue = << >>
  /\ turns = [t \in Turns |-> NoTurn]
  /\ sends = [x \in Sends |-> [at |-> "off", expected |-> None, turn |-> None,
                               first |-> FALSE]]
  /\ edits = [e \in Edits |-> [at |-> "off", op |-> None, expected |-> None,
                               stale |-> FALSE, turn |-> None,
                               first |-> FALSE]]
  /\ stop = [at |-> "off", how |-> "stop", op |-> None]
  /\ mutations = [m \in Mutations |-> "off"]
  /\ cast \in Casts

Sending(x) == \/ SendDecides(x) \/ SendRefused(x) \/ SendPrepares(x)
              \/ SendReturns(x)

Startup(t) == \/ QueuedPrepares(t) \/ StartupBegins(t) \/ StreamStarts(t)
              \/ StartupDelivers(t) \/ StartupCancelled(t)
              \/ PreparationCompletes(t)

Failure(t) == PreparationFails(t) \/ StartupFails(t)

Ending(t) == \/ PolicyLeaves(t) \/ PolicySucceeds(t) \/ GoalAccounted(t)
             \/ PolicyFails(t) \/ PolicyAborts(t) \/ RecoveryHandsOff(t)
             \/ FollowUpIsSent(t) \/ HandoffReturns(t)

Completing(t) == CompletionArrives(t) \/ PolicyHandles(t) \/ Ending(t)

Detour(t) == GoalAccounts(t) \/ PolicyDetours(t) \/ RecoveryFails(t)

Editing(e) == \/ EditDecides(e) \/ EditRefused(e) \/ EditReserves(e)
              \/ EditInterrupts(e) \/ EditPreempts(e)
              \/ EditSettles(e) \/ EditTruncates(e) \/ EditPrepares(e)
              \/ EditReturns(e)

Next ==
  \/ \E x \in Sends : SendArrives(x) \/ Sending(x)
  \/ \E t \in Turns : \/ Startup(t) \/ Failure(t) \/ StreamEnds(t)
                      \/ Completing(t) \/ Detour(t)
  \/ \E e \in Edits : EditArrives(e) \/ Editing(e)
  \/ \E how \in {"stop", "send-now"} : StopBegins(how)
  \/ StopEnds \/ SoftSendNow
  \/ \E m \in Mutations : MutationBegins(m) \/ MutationEnds(m)
  \/ BeginShutdown

Spec == Init /\ [][Next /\ UNCHANGED cast]_<<vars, cast>>

(* Every continuation gets its turn of the event loop; streams, stops and  *)
(* mutations end.  A user need not send, edit or stop anything.            *)
FairSpec ==
  /\ Spec /\ WF_vars(StopEnds)
  /\ \A x \in Sends : WF_vars(Sending(x))
  /\ \A t \in Turns : /\ WF_vars(Startup(t)) /\ WF_vars(StreamEnds(t))
                      /\ WF_vars(Completing(t)) /\ WF_vars(RecoveryHandsOff(t))
  /\ \A e \in Edits : WF_vars(Editing(e))
  /\ \A m \in Mutations : WF_vars(MutationEnds(m))

-----------------------------------------------------------------------------
(* Properties.                                                             *)

(* Every variable keeps its type, and only turns that were claimed have a  *)
(* record or are referred to.                                              *)
TypeOK ==
  /\ s \in CoordinatorState /\ issued \in Turns
  /\ queue \in Seq(Sends) /\ turns \in [Turns -> Turn]
  /\ sends \in [Sends -> [at : {"off", "preflight", "direct", "leaving",
                                "done"},
                          expected : 0..issued, turn : 0..issued, first : BOOLEAN]]
  /\ edits \in [Edits -> [at : {"off", "preflight", "checked", "reserved",
                                "stopping", "waiting", "settled",
                                "truncating", "truncated", "leaving", "done"},
                          op : 0..issued, expected : 0..issued,
                          stale : BOOLEAN,
                          turn : Nat, first : BOOLEAN]]
  /\ stop \in [at : {"off", "stopping", "done"}, how : {"stop", "send-now"},
               op : 0..issued]
  /\ \A t \in Turns : /\ turns[t].captured <= issued
                      /\ turns[t].next <= issued
                      /\ t > issued => turns[t] = NoTurn
  /\ mutations \in [Mutations -> {"off", "mutating", "done"}]

(* A session is never busy on nobody's behalf: whatever phase it shows,    *)
(* something is still running that will leave it.  A turn that lost its    *)
(* owner would stay busy for good, its queue and its edits waiting.  A     *)
(* soft send-now's turn is moved on by the policy it overtakes, see        *)
(* StalePolicyIsHarmless.                                                  *)
TurnHasOwner ==
  s.life = "open" /\ s.phase # "idle" /\ "soft-send-now" \notin Paths =>
    LET t == s.turn IN
    IF s.phase = "preparing" THEN turns[t].startup \notin {"none", "done"}
    ELSE /\ s.op.id = t
         /\ \/ turns[t].policy \in {"entered", "handling", "recovering",
                                    "continuing", "flushing", "accounting"}
            \/ turns[t].policy = "off"
                 /\ (turns[t].engine # "off" \/ turns[t].outcome # "none")

(* History has one writer: while an edit truncates it, or a mutation       *)
(* discards it, no turn runs or can still start, and nobody else rewrites  *)
(* it.                                                                     *)
Rewriting == {e \in Edits : edits[e].at \in {"truncating", "truncated"}}
               \cup {m \in Mutations : mutations[m] = "mutating"}

HistoryHasOneWriter ==
  /\ Cardinality(Rewriting) <= 1
  /\ Rewriting # {} =>
       /\ s.phase = "idle"
       /\ \A t \in Turns :
            /\ turns[t].engine # "live"
            /\ turns[t].startup \in {"prepared", "starting"} /\ s.turn = t =>
                 turns[t].aborted

(* Only the current turn is on air: a stream that runs, or a startup that  *)
(* can still reach the provider, belongs to the turn the session shows.    *)
(* Only a soft send-now replaces a turn whose cut stream still winds down. *)
StreamIsCurrent ==
  \A t \in Turns :
    turns[t].engine = "live" \/ (Waiting(t) /\ ~Barred(t)) =>
      \/ s.turn = t
      \/ "soft-send-now" \in Paths /\ turns[t].cut

(* The turns of user sends are claimed in the order the sends arrived,     *)
(* however long each one's preflight takes.                                *)
SendsInOrder ==
  \A t, u \in Turns :
    t < u /\ turns[t].send # None /\ turns[u].send # None =>
      turns[t].send < turns[u].send

(* A policy whose operation has been replaced changes no phase: it         *)
(* neither completes nor finishes the turn that replaced it                *)
(* (turnCoordinator.ts:137).                                               *)
StalePolicyMoves ==
  \E t \in Turns : /\ turns[t].policy # turns'[t].policy /\ turns[t].policy # "off"
                   /\ ~IsCurrentOperation(s, t)
                   /\ s'.phase # s.phase

StalePolicyIsHarmless == [][~StalePolicyMoves]_vars

(* Only a soft send-now, which claims a turn under a policy that runs, can *)
(* be disturbed by that policy.                                            *)
StalePolicyMovesNoOther ==
  [][StalePolicyMoves => "soft-send-now" \in Paths]_vars

(* A queued send is not forgotten: it is dispatched, or returned to the    *)
(* input by a stop, an edit or a failure.                                  *)
QueueDrains == queue # << >> ~> queue = << >>

(* An edit that waits for its turn to end gets its turn.                   *)
EditsProceed ==
  \A e \in Edits : edits[e].at = "waiting" ~> edits[e].at # "waiting"
=============================================================================
