------------------------------ MODULE TaskStops ------------------------------
(***************************************************************************)
(* The stops of one agent task's workspace: the latch that holds back new  *)
(* work while a stop is under way (services/taskStopLatch.ts), the ledger  *)
(* of the task's attempts, of the sends admitted under them and of their   *)
(* settlement receipts (services/attemptLedger.ts), the ledger of the      *)
(* stream ends whose outcome is undecided (services/streamEndLedger.ts),   *)
(* and the parts of services/taskService.ts that drive the three: stop     *)
(* cascades, terminal failures, the stream-end handler, the resumption of  *)
(* a stopped task and the launch of a queued one.                          *)
(*                                                                         *)
(* A stop has three phases.  It latches the workspace and captures what is *)
(* under way; it writes the durable marker, clears the queue and stops the *)
(* stream; the latch drops when everything captured has settled.  A stop   *)
(* that ends an attempt without a report leaves a receipt that says so.    *)
(***************************************************************************)
EXTENDS Naturals, FiniteSets, Sequences

CONSTANTS
  Stops,        \* stop cascades
  Failures,     \* terminal failures of the task
  Sends,        \* sends into the workspace
  MaxAttempts,  \* bound on the task's attempts
  MaxTurns,     \* bound on the session's turns
  MaxLaunches   \* bound on the launches of the queued task

ASSUME BoundsAreNatural ==
  /\ MaxAttempts \in Nat \ {0}
  /\ MaxTurns \in Nat
  /\ MaxLaunches \in Nat

ASSUME CallersDiffer ==
  /\ Stops \cap Failures = {}
  /\ "owner" \notin Stops \cup Failures

Callers == Stops \cup Failures
Attempts == 1..MaxAttempts
Turns == 1..MaxTurns
Launches == 1..MaxLaunches
None == 0

\* Whoever interrupts the task's execution: a cascade, or its owner directly.
Interrupters == Callers \cup {"owner"}

VARIABLES
  row,        \* the task's config row: current attempt and status
  owned,      \* the attempt this process owns, or None
  eligible,   \* owned attempts that may still leave a receipt
  closure,    \* the attempt closed to sends, and whether it is settled
  receipts,   \* attempts with a durable "ended without a report" receipt
  reports,    \* attempts whose report the row has taken
  sends,      \* per send: state, attempt, and whether it was owned
  turn,       \* the session's turn: number, phase and attempt
  exec,       \* a delegated execution of the task is registered
  decisions,  \* per turn: the decision its ended stream owes
  handlers,   \* per turn: where its stream-end handler is
  events,     \* the workspace event lock: turns whose handler holds or awaits it
  epoch,      \* workspaceStopEpochs
  latch,      \* workspaceStopsInProgress
  record,     \* the stop record, or NoRecord
  pc,         \* per caller: where its cascade is
  failed,     \* per failure: the owned attempt it settles
  interrupts, \* per interrupter of the execution: whether it holds its latch
  resume,     \* the resumption being decided, or NoResume
  owes,       \* queueRechecksOwedByStopLatch
  job,        \* the row of a task queued under this workspace
  launches,   \* per launch of that task: where it is
  drain       \* a drain of the queue is scheduled

attemptVars == <<row, owned, eligible, receipts, reports>>
sessionVars == <<sends, turn, exec>>
streamVars == <<decisions, events>>
cascadeVars == <<pc, failed>>
launchVars == <<job, launches>>
\* What rechecking the stop record may change.
releaseVars == <<closure, handlers, latch, record, owes, drain>>

vars == <<attemptVars, sessionVars, streamVars, cascadeVars, launchVars,
          releaseVars, epoch, interrupts, resume>>

NoRecord ==
  [releases |-> 0, cleanups |-> 0, attempt |-> None, owned |-> FALSE,
   turns |-> {}, sends |-> {}, exec |-> FALSE, persisted |-> FALSE,
   receipt |-> "none"]
NoResume == [attempt |-> None, epoch |-> 0, proven |-> FALSE]
NoDecision ==
  [attempt |-> None, owned |-> FALSE, outcome |-> "none", listed |-> FALSE,
   epoch |-> 0, seen |-> "running"]

Statuses == {"running", "interrupted", "reported"}
Undecided == {"pending", "enqueued"}
MaxEpoch == 2 * Cardinality(Callers) + 1

TypeOK ==
  /\ row \in [attempt : Attempts, status : Statuses]
  /\ owned \in Attempts \cup {None}
  /\ eligible \subseteq Attempts
  /\ closure \in [attempt : Attempts \cup {None}, settled : BOOLEAN]
  /\ receipts \subseteq Attempts
  /\ reports \subseteq Attempts
  /\ sends \in [Sends -> [state : {"idle", "admitted", "discharged"} \cup Undecided,
                          attempt : Attempts \cup {None}, owned : BOOLEAN]]
  /\ turn \in [no : 0..MaxTurns, attempt : Attempts \cup {None},
               phase : {"none", "preparing", "streaming", "aborted", "ended"}]
  /\ exec \in BOOLEAN
  /\ decisions \in
       [Turns -> [attempt : Attempts \cup {None}, owned : BOOLEAN, listed : BOOLEAN,
                  outcome : {"none", "pending", "nonreport", "published", "indeterminate"},
                  epoch : 0..MaxEpoch, seen : Statuses]]
  /\ handlers \in [Turns -> {"none", "waiting", "checking", "committing", "publishing",
                             "deferred", "woken", "done"}]
  /\ events \in Seq(Turns)
  /\ epoch \in 0..MaxEpoch
  /\ latch \in 0..(2 * Cardinality(Callers) + 1)
  /\ record \in [releases : 0..Cardinality(Callers), cleanups : 0..Cardinality(Callers),
                 attempt : Attempts \cup {None}, owned : BOOLEAN, turns : SUBSET Turns,
                 sends : SUBSET Sends, exec : BOOLEAN, persisted : BOOLEAN,
                 receipt : {"none", "writing", "written", "failed"}]
  /\ pc \in [Callers -> {"idle", "closed", "holding", "latched", "unlatched",
                         "persisted", "owing", "interrupting", "stopping", "settling",
                         "done", "lost"}]
  /\ failed \in [Failures -> Attempts \cup {None}]
  /\ interrupts \in [Interrupters -> {"no", "held", "done"}]
  /\ resume \in [attempt : Attempts \cup {None}, epoch : 0..MaxEpoch, proven : BOOLEAN]
  /\ owes \in BOOLEAN
  /\ job \in {"none", "queued", "starting", "launched"}
  /\ launches \in [Launches -> {"none", "launching", "reverting", "checking", "done"}]
  /\ drain \in BOOLEAN

\* A task at work, or one with another task queued under it.  A caller, an owner or a
\* send that begins as done is one that never comes.
Init ==
  /\ row = [attempt |-> 1, status |-> "running"]
  /\ owned = 1
  /\ eligible = {1}
  /\ closure = [attempt |-> None, settled |-> FALSE]
  /\ receipts = {} /\ reports = {}
  /\ turn = [no |-> 0, attempt |-> None, phase |-> "none"]
  /\ exec = FALSE
  /\ decisions = [t \in Turns |-> NoDecision]
  /\ handlers = [t \in Turns |-> "none"]
  /\ events = <<>>
  /\ epoch = 0 /\ latch = 0
  /\ record = NoRecord
  /\ pc \in [Callers -> {"idle", "done"}]
  /\ failed = [f \in Failures |-> None]
  /\ interrupts \in [Interrupters -> {"no", "done"}]
  /\ \A c \in Callers : interrupts[c] = "no"
  /\ resume = NoResume
  /\ owes = FALSE
  /\ launches = [l \in Launches |-> "none"]
  /\ job \in {"none", "queued"}
  /\ drain = (job = "queued")
  /\ \E coming \in SUBSET Sends :
       sends = [s \in Sends |-> [state |-> IF s \in coming THEN "idle" ELSE "discharged",
                                 attempt |-> None, owned |-> FALSE]]

-----------------------------------------------------------------------------
(* What the ledgers answer. *)

TurnLive == turn.phase # "none"
Stopping == record.releases > 0

\* attemptAdmissionOpen: the attempt may take another send.
AdmissionOpen(a) ==
  row.attempt = a /\ closure.attempt # a /\ latch = 0

\* findStreamEndDecision: the attempt's pending decision, else its latest.
OutcomeOf(ds, a) ==
  LET listed == {t \in Turns : ds[t].listed /\ ds[t].attempt = a}
  IN  IF listed = {} THEN "none"
      ELSE IF \E t \in listed : ds[t].outcome = "pending" THEN "pending"
      ELSE ds[CHOOSE t \in listed : \A u \in listed : u <= t].outcome

\* isAdmittedSendStale, for a send no turn has taken yet.
Stale(s) ==
  LET a == sends[s].attempt
  IN  \/ ~AdmissionOpen(a)
      \/ sends[s].owned /\ owned # a
      \/ /\ sends[s].state = "pending"
         /\ OutcomeOf(decisions, a) \in {"pending", "published", "indeterminate"}

\* pruneStreamEndDecisions: resolved decisions nobody can still read are dropped.
Pruned(ds, ss, tn) ==
  LET read(t) == \/ ds[t].outcome = "pending"
                 \/ \E s \in Sends : ss[s].state \in Undecided /\ ss[s].attempt = ds[t].attempt
                 \/ /\ ds[t].outcome \in {"published", "indeterminate"}
                    /\ tn.no = t /\ tn.phase # "none"
  IN  [t \in Turns |-> [ds[t] EXCEPT !.listed = @ /\ read(t)]]

\* closeAttemptAdmission and settleOwnedTaskAttempt, on the closure.
Closed(cl, a) == IF cl.attempt = a THEN cl ELSE [attempt |-> a, settled |-> FALSE]
Settled(cl, a) == IF a # None /\ owned' = a THEN [attempt |-> a, settled |-> TRUE] ELSE cl

\* notifyAttemptSettlementListeners: a deferred stream end whose attempt closed,
\* was stopped or no longer runs gives up waiting for its accounting.
Notified(hs) ==
  LET cancels(t) == \/ row'.attempt # decisions'[t].attempt
                    \/ closure'.attempt = decisions'[t].attempt
                    \/ latch' > 0
                    \/ epoch' # decisions'[t].epoch
                    \/ row'.status # "running"
  IN  [t \in Turns |-> IF hs[t] = "deferred" /\ cancels(t) THEN "woken" ELSE hs[t]]

-----------------------------------------------------------------------------
(* Releasing the latch.  These read the state the step has already reached, *)
(* so they come last in every action that may release a stop.               *)

\* As mutated: a release clears the latch outright.
DropLatchOutright(n) ==
  /\ latch' = 0
  /\ owes' = FALSE
  /\ drain' = (drain \/ owes)

\* The release closures of latchWorkspaceStopsInProgress, n of them.
DropLatch(n) ==
  /\ latch' = IF latch > n THEN latch - n ELSE 0
  /\ owes' = (owes /\ latch' > 0)
  /\ drain' = (drain \/ (owes /\ latch' = 0))

\* ownsReceiptEligibleAttempt
MayLeaveReceipt(a) == a # None /\ owned' = a /\ a \in eligible'

\* As mutated: a stream end still undecided is forgotten.
CannotReportButForAStreamEnd(a) ==
  /\ \A s \in Sends : sends'[s].attempt = a => sends'[s].state = "discharged"
  /\ turn'.phase = "none"
  /\ ~exec'

\* attemptCannotStillReport, for an attempt closed or stopped by the caller.
CannotStillReport(a) ==
  /\ \A s \in Sends : sends'[s].attempt = a => sends'[s].state = "discharged"
  /\ turn'.phase = "none"
  /\ ~exec'
  /\ OutcomeOf(decisions', a) \in {"none", "nonreport"}

\* decideSettlementReceipt answers "write".
ReceiptDue(a) == MayLeaveReceipt(a) /\ CannotStillReport(a) /\ row'.attempt = a

\* As mutated: the captured turns are not waited for.
SettledBeforeTurns(rec) ==
  /\ rec.releases > 0 /\ rec.persisted
  /\ rec.cleanups = 0
  /\ rec.sends = {}
  /\ ~rec.exec

\* isWorkspaceStopRecordSettled
RecordSettled(rec) ==
  /\ rec.releases > 0
  /\ rec.cleanups = 0
  /\ rec.persisted
  /\ rec.turns = {} /\ rec.sends = {}
  /\ ~rec.exec

\* releaseWorkspaceStopRecord
ReleaseRecord(rec, cl, hs) ==
  /\ record' = NoRecord
  /\ DropLatch(rec.releases)
  /\ closure' = IF ~rec.owned THEN Closed(cl, rec.attempt)
                ELSE IF rec.receipt = "failed" THEN cl
                ELSE Settled(cl, rec.attempt)
  /\ handlers' = Notified(hs)

\* recheckWorkspaceStopRelease
Recheck(rec, cl, hs) ==
  LET due == rec.receipt = "none" /\ rec.owned /\ ReceiptDue(rec.attempt)
      undecided == /\ rec.receipt = "none" /\ rec.owned /\ MayLeaveReceipt(rec.attempt)
                   /\ OutcomeOf(decisions', rec.attempt) = "pending"
      held == ~RecordSettled(rec) \/ rec.receipt = "writing" \/ undecided
  IN  \/ /\ held
         /\ record' = rec /\ closure' = cl /\ handlers' = hs
         /\ UNCHANGED <<latch, owes, drain>>
      \/ /\ ~held /\ due
         /\ record' = [rec EXCEPT !.receipt = "writing"]
         /\ closure' = Closed(cl, rec.attempt)
         /\ UNCHANGED <<latch, owes, drain>>
         /\ handlers' = Notified(hs)
      \/ /\ ~held /\ due   \* the config could not be read
         /\ ReleaseRecord([rec EXCEPT !.receipt = "failed"], Closed(cl, rec.attempt), hs)
      \/ /\ ~held /\ ~due
         /\ ReleaseRecord(rec, cl, hs)

\* resolveStreamEndDecision, up to its recheck of the stop record.
Resolve(t, outcome) ==
  IF decisions[t].outcome = "pending"
  THEN /\ decisions' = Pruned([decisions EXCEPT ![t].outcome = outcome], sends, turn)
       /\ eligible' = IF outcome # "nonreport" /\ decisions[t].owned
                      THEN eligible \ {decisions[t].attempt} ELSE eligible
  ELSE UNCHANGED <<decisions, eligible>>

-----------------------------------------------------------------------------
(* Sends. *)

\* admitSendToCurrentAttempt
Admit(s) ==
  /\ sends[s].state = "idle"
  /\ AdmissionOpen(row.attempt)
  /\ sends' = [sends EXCEPT ![s] = [state |-> "pending", attempt |-> row.attempt,
                                    owned |-> owned = row.attempt]]
  /\ UNCHANGED <<attemptVars, turn, exec, streamVars, cascadeVars, launchVars,
                 releaseVars, epoch, interrupts, resume>>

\* The synchronous enqueue point of WorkspaceService.sendMessage.
Enqueue(s) ==
  /\ sends[s].state = "pending" /\ TurnLive /\ ~Stale(s)
  /\ sends' = [sends EXCEPT ![s].state = "enqueued"]
  /\ UNCHANGED <<attemptVars, turn, exec, streamVars, cascadeVars, launchVars,
                 releaseVars, epoch, interrupts, resume>>

\* As mutated: a send is not checked again when it gets its turn.
StartUnchecked(s) ==
  /\ sends[s].state \in Undecided
  /\ ~TurnLive /\ turn.no < MaxTurns
  /\ sends' = [sends EXCEPT ![s].state = "admitted"]
  /\ turn' = [no |-> turn.no + 1, attempt |-> sends[s].attempt, phase |-> "preparing"]
  /\ UNCHANGED <<attemptVars, exec, streamVars, cascadeVars, launchVars,
                 releaseVars, epoch, interrupts, resume>>

\* As mutated: a queued send does not wait for an undecided stream end.
StartUndecided(s) ==
  /\ ~Stale(s)
  /\ StartUnchecked(s)

\* The session claims a turn for the send and recordAdmittedSendTurn binds it.
\* A captured send is stale, so no stop record takes the turn over from it.
Start(s) ==
  /\ sends[s].state \in Undecided
  /\ ~TurnLive /\ turn.no < MaxTurns
  /\ ~Stale(s)
  /\ OutcomeOf(decisions, sends[s].attempt) \in {"none", "nonreport"}
  /\ sends' = [sends EXCEPT ![s].state = "admitted"]
  /\ turn' = [no |-> turn.no + 1, attempt |-> sends[s].attempt, phase |-> "preparing"]
  /\ UNCHANGED <<attemptVars, exec, streamVars, cascadeVars, launchVars,
                 releaseVars, epoch, interrupts, resume>>

Discharged(S) ==
  [s \in Sends |-> IF s \in S THEN [sends[s] EXCEPT !.state = "discharged"] ELSE sends[s]]

\* disposeSendBeforeAdmission: the preflight fails, a gate finds the send stale,
\* the queue refuses it or the user withdraws it.
Dispose(s) ==
  /\ sends[s].state \in Undecided
  /\ sends' = Discharged({s})
  /\ decisions' = Pruned(decisions, sends', turn)
  /\ UNCHANGED <<attemptVars, turn, exec, events, cascadeVars, launchVars,
                 epoch, interrupts, resume>>
  /\ IF s \in record.sends
     THEN Recheck([record EXCEPT !.sends = @ \ {s}], closure, handlers)
     ELSE UNCHANGED releaseVars

-----------------------------------------------------------------------------
(* The session's turn and the task's delegated execution. *)

StreamStarts ==
  /\ turn.phase = "preparing"
  /\ turn' = [turn EXCEPT !.phase = "streaming"]
  /\ UNCHANGED <<attemptVars, sends, exec, streamVars, cascadeVars, launchVars,
                 releaseVars, epoch, interrupts, resume>>

\* The preparation fails, or the stream is aborted: no decision is owed.
StreamAborts ==
  /\ turn.phase \in {"preparing", "streaming"}
  /\ turn' = [turn EXCEPT !.phase = "aborted"]
  /\ UNCHANGED <<attemptVars, sends, exec, streamVars, cascadeVars, launchVars,
                 releaseVars, epoch, interrupts, resume>>

\* The stream-end listener: it registers the decision and queues the handler.
StreamEnds ==
  LET t == turn.no
  IN  /\ turn.phase = "streaming"
      /\ turn' = [turn EXCEPT !.phase = "ended"]
      /\ decisions' = [decisions EXCEPT ![t] =
           [attempt |-> turn.attempt, owned |-> owned = turn.attempt, outcome |-> "pending",
            listed |-> TRUE, epoch |-> epoch, seen |-> "running"]]
      /\ handlers' = [handlers EXCEPT ![t] = "waiting"]
      /\ events' = Append(events, t)
      /\ UNCHANGED <<attemptVars, sends, exec, cascadeVars, launchVars, closure, latch,
                     record, owes, drain, epoch, interrupts, resume>>

\* recordWorkspaceTurnSettled
TurnSettles ==
  /\ turn.phase \in {"aborted", "ended"}
  /\ turn' = [turn EXCEPT !.phase = "none", !.attempt = None]
  /\ sends' = Discharged({s \in Sends : sends[s].state = "admitted"})
  /\ decisions' = Pruned(decisions, sends', turn')
  /\ UNCHANGED <<attemptVars, exec, events, cascadeVars, launchVars, epoch, interrupts, resume>>
  /\ IF turn.no \in record.turns
     THEN Recheck([record EXCEPT !.turns = @ \ {turn.no}], closure, handlers)
     ELSE UNCHANGED releaseVars

\* The turn manager registers a delegated execution of the task.
RegisterExecution ==
  /\ ~exec /\ AdmissionOpen(row.attempt)
  /\ exec' = TRUE
  /\ UNCHANGED <<attemptVars, sends, turn, streamVars, cascadeVars, launchVars,
                 releaseVars, epoch, interrupts, resume>>

\* It settles the execution, then releaseRetainedStopLatches.
SettleExecution ==
  /\ exec
  /\ exec' = FALSE
  /\ UNCHANGED <<attemptVars, sends, turn, streamVars, cascadeVars, launchVars,
                 epoch, interrupts, resume>>
  /\ Recheck([record EXCEPT !.exec = FALSE], closure, handlers)

TurnEndsForExecution ==
  /\ turn.phase \in {"none", "aborted", "ended"}
  /\ SettleExecution

-----------------------------------------------------------------------------
(* The stream-end handler, under the workspace event lock. *)

\* What a handler that stays within the lock leaves alone.
handlerFrame == <<sessionVars, cascadeVars, launchVars, epoch, interrupts, resume>>

AtHead(t) == events # <<>> /\ Head(events) = t

\* runStreamEndHandler's way out: the decision is resolved and the lock released.
Finish(t, outcome) ==
  /\ Resolve(t, outcome)
  /\ events' = Tail(events)
  /\ Recheck(record, closure, [handlers EXCEPT ![t] = "done"])

\* admitStreamEnd: the row is read, before finalizeChildStreamEndTurn's awaits.
ReadRow(t) ==
  /\ AtHead(t) /\ handlers[t] = "waiting"
  /\ UNCHANGED <<handlerFrame, row, owned, receipts, reports>>
  /\ \/ /\ row.attempt = decisions[t].attempt
        /\ decisions' = [decisions EXCEPT ![t].seen = row.status]
        /\ handlers' = [handlers EXCEPT ![t] = "checking"]
        /\ UNCHANGED <<eligible, events, closure, latch, record, owes, drain>>
     \/ /\ row.attempt # decisions[t].attempt
        /\ Finish(t, "nonreport")

\* A stop overtook the handler, or the stream carries no report, or the row the
\* handler read had reported already, or its goal takes another turn: the attempt
\* goes on.  Or the handler throws.
EndsWithoutReport(t) ==
  /\ AtHead(t) /\ handlers[t] = "checking"
  /\ UNCHANGED <<handlerFrame, row, owned, receipts, reports>>
  /\ \/ Finish(t, "nonreport")
     \/ decisions[t].epoch = epoch /\ Finish(t, "indeterminate")

\* The stream carries a report and no stop overtook it (cutSourceIsObsolete).
HasReport(t) ==
  /\ AtHead(t) /\ handlers[t] = "checking"
  /\ decisions[t].epoch = epoch
  /\ decisions[t].seen # "reported"
  /\ handlers' = [handlers EXCEPT ![t] = "committing"]
  /\ UNCHANGED <<handlerFrame, attemptVars, streamVars, closure, latch, record, owes, drain>>

\* arbitrateChildGoalAtStreamEnd finds the accounting unsettled; deferChildStreamEnd
\* lets the lock go and looks at once whether there is a reason to wait.
Defer(t) ==
  /\ AtHead(t) /\ handlers[t] = "checking"
  /\ decisions[t].epoch = epoch
  /\ decisions[t].seen = "running"
  /\ AdmissionOpen(decisions[t].attempt)
  /\ events' = Tail(events)
  /\ UNCHANGED <<handlerFrame, attemptVars, decisions, closure, latch, record, owes, drain>>
  /\ handlers' = Notified([handlers EXCEPT ![t] = "deferred"])

\* The deferred handler runs again: its accounting settled, or it gave up.  Nothing
\* reports an attempt whose stream end is undecided but its own handler.
Rerun(t) ==
  /\ handlers[t] \in {"deferred", "woken"}
  /\ row # [attempt |-> decisions[t].attempt, status |-> "reported"]
  /\ events' = Append(events, t)
  /\ handlers' = [handlers EXCEPT ![t] = "waiting"]
  /\ UNCHANGED <<handlerFrame, attemptVars, decisions, closure, latch, record, owes, drain>>

\* publishAgentTaskReport's write of the row, compared on the stream's attempt.
Commit(t) ==
  LET a == decisions[t].attempt
  IN  /\ AtHead(t) /\ handlers[t] = "committing"
      /\ UNCHANGED <<handlerFrame, owned, receipts>>
      /\ \/ /\ row.attempt # a \/ row.status = "reported"
            /\ UNCHANGED <<row, reports>>
            /\ Finish(t, IF row.attempt # a THEN "indeterminate" ELSE "nonreport")
         \/ /\ row.attempt = a /\ row.status # "reported"
            /\ row' = [row EXCEPT !.status = "reported"]
            /\ reports' = reports \cup {a}
            /\ handlers' = [handlers EXCEPT ![t] = "publishing"]
            /\ UNCHANGED <<eligible, streamVars, closure, latch, record, owes, drain>>

\* Its artifacts reach every ancestor: the report's attempt is released
\* (releaseReportedTaskAttempt).  Or they do not, and it stays owned.
Publish(t) ==
  LET a == decisions[t].attempt
      released == decisions[t].owned /\ owned = a
      cl == IF released /\ closure.attempt = a
            THEN [attempt |-> None, settled |-> FALSE] ELSE closure
  IN  /\ AtHead(t) /\ handlers[t] = "publishing"
      /\ events' = Tail(events)
      /\ UNCHANGED <<handlerFrame, row, receipts, reports>>
      /\ \/ /\ owned' = IF released THEN None ELSE owned
            /\ Resolve(t, "published")
            /\ Recheck(record, cl, [handlers EXCEPT ![t] = "done"])
         \/ /\ UNCHANGED owned
            /\ Resolve(t, "indeterminate")
            /\ Recheck(record, closure, [handlers EXCEPT ![t] = "done"])

-----------------------------------------------------------------------------
(* Stop cascades. *)

\* A cascade holds the service's mutex from its latch to its marker.
MutexFree == \A c \in Callers : pc[c] # "holding"

\* beginWorkspaceStop
BeginStop ==
  LET a == IF owned # None THEN owned ELSE row.attempt
  IN  /\ epoch' = epoch + 1
      /\ latch' = latch + 1
      /\ record' =
           IF Stopping
           THEN [record EXCEPT !.releases = @ + 1, !.cleanups = @ + 1]
           ELSE [releases |-> 1, cleanups |-> 1, attempt |-> a, owned |-> owned # None,
                 turns |-> IF TurnLive THEN {turn.no} ELSE {},
                 sends |-> {s \in Sends : sends[s].state \in Undecided
                                          /\ sends[s].attempt = a},
                 exec |-> exec, persisted |-> FALSE, receipt |-> "none"]

\* Phase A of stopDescendantAgentTask and terminateAllDescendantAgentTasks.
Latch(c) ==
  /\ c \in Stops /\ pc[c] = "idle" /\ MutexFree
  /\ BeginStop
  /\ pc' = [pc EXCEPT ![c] = "holding"]
  /\ UNCHANGED <<attemptVars, sessionVars, streamVars, failed, launchVars, closure,
                 handlers, owes, drain, interrupts, resume>>

\* As mutated: the stream ends that wait for their accounting are not told.
MarkSilently(c) ==
  /\ \/ c \in Stops /\ pc[c] = "holding"
     \/ c \in Failures /\ pc[c] = "latched"
  /\ row' = IF c \in Stops /\ row.status = "reported" THEN row
            ELSE [row EXCEPT !.status = "interrupted"]
  /\ record' = [record EXCEPT !.persisted = TRUE]
  /\ pc' = [pc EXCEPT ![c] = "owing"]
  /\ UNCHANGED <<owned, eligible, receipts, reports, sessionVars, streamVars, failed,
                 launchVars, closure, handlers, latch, owes, drain, epoch, interrupts, resume>>

\* The durable status (applyInterruptedTaskStatus; a terminal failure overwrites
\* any), then markWorkspaceStopPersisted.
Mark(c) ==
  /\ \/ c \in Stops /\ pc[c] = "holding"
     \/ c \in Failures /\ pc[c] = "latched"
  /\ row' = IF c \in Stops /\ row.status = "reported" THEN row
            ELSE [row EXCEPT !.status = "interrupted"]
  /\ record' = [record EXCEPT !.persisted = TRUE]
  /\ pc' = [pc EXCEPT ![c] = "owing"]
  /\ UNCHANGED <<owned, eligible, receipts, reports, sessionVars, streamVars, failed,
                 launchVars, closure, latch, owes, drain, epoch, interrupts, resume>>
  /\ handlers' = Notified(handlers)

\* The status write throws.  A stop still runs the cleanup it planned; a terminal
\* failure does not, and its latch stays until the process restarts.
MarkFails(c) ==
  /\ \/ c \in Stops /\ pc[c] = "holding" /\ pc' = [pc EXCEPT ![c] = "owing"]
     \/ c \in Failures /\ pc[c] = "latched" /\ pc' = [pc EXCEPT ![c] = "lost"]
     \/ c \in Failures /\ pc[c] = "unlatched" /\ pc' = [pc EXCEPT ![c] = "done"]
  /\ UNCHANGED <<attemptVars, sessionVars, streamVars, failed, launchVars, releaseVars,
                 epoch, interrupts, resume>>

Queued == {s \in Sends : sends[s].state = "enqueued"}

\* runWorkspaceStopCleanup, up to its first await: the queue is cleared; a stop
\* then interrupts the execution it captured, which takes a latch of its own.
\* The cleanup is still owed, so disposing the queue releases nothing.
BeginCleanup(c) ==
  /\ pc[c] = "owing"
  /\ sends' = Discharged(Queued)
  /\ decisions' = Pruned(decisions, sends', turn)
  /\ record' = [record EXCEPT !.sends = @ \ Queued]
  /\ \/ /\ c \in Stops /\ record.exec
        /\ pc' = [pc EXCEPT ![c] = "interrupting"]
        /\ interrupts' = [interrupts EXCEPT ![c] = "held"]
        /\ latch' = latch + 1
     \/ /\ c \in Failures \/ ~record.exec
        /\ pc' = [pc EXCEPT ![c] = "stopping"]
        /\ UNCHANGED <<interrupts, latch>>
  /\ UNCHANGED <<attemptVars, turn, exec, events, failed, launchVars, closure, handlers,
                 owes, drain, epoch, resume>>

\* The owner of the execution interrupts it by itself.
OwnerInterrupts ==
  /\ interrupts["owner"] = "no" /\ exec
  /\ interrupts' = [interrupts EXCEPT !["owner"] = "held"]
  /\ latch' = latch + 1
  /\ UNCHANGED <<attemptVars, sessionVars, streamVars, cascadeVars, launchVars, closure,
                 handlers, record, owes, drain, epoch, resume>>

\* interruptWorkspaceTurn: the handle is written interrupted and the epoch bumped,
\* and the execution settles.
InterruptExecution(i) ==
  /\ interrupts[i] = "held" /\ exec
  /\ exec' = FALSE
  /\ epoch' = epoch + 1
  /\ UNCHANGED <<attemptVars, sends, turn, streamVars, cascadeVars, launchVars,
                 interrupts, resume>>
  /\ Recheck([record EXCEPT !.exec = FALSE], closure, handlers)

\* It releases its latch, also when it failed.
EndInterrupt(i) ==
  /\ interrupts[i] = "held"
  /\ interrupts' = [interrupts EXCEPT ![i] = "done"]
  /\ pc' = [c \in Callers |-> IF c = i THEN "stopping" ELSE pc[c]]
  /\ DropLatch(1)
  /\ UNCHANGED <<attemptVars, sessionVars, streamVars, failed, launchVars, closure,
                 record, epoch, resume>>
  /\ handlers' = IF latch' = 0 THEN Notified(handlers) ELSE handlers

\* stopStream returns, however late, and the cleanup is paid.  A turn that was
\* still preparing may be stopped, or not.
StopStream(c) ==
  /\ pc[c] = "stopping"
  /\ pc' = [pc EXCEPT ![c] = "done"]
  /\ \/ /\ turn.phase \in {"preparing", "streaming"}
        /\ turn' = [turn EXCEPT !.phase = "aborted"]
     \/ turn.phase # "streaming" /\ UNCHANGED turn
  /\ UNCHANGED <<attemptVars, sends, exec, streamVars, failed, launchVars,
                 epoch, interrupts, resume>>
  /\ Recheck([record EXCEPT !.cleanups = @ - 1], closure, handlers)

\* writeSettlementReceipt returns to startStopSettlementReceipt.
FinishReceipt ==
  /\ record.receipt = "writing"
  /\ \E written \in BOOLEAN :
       /\ receipts' = IF written THEN receipts \cup {record.attempt} ELSE receipts
       /\ UNCHANGED <<row, owned, eligible, reports, sessionVars, streamVars, cascadeVars,
                      launchVars, epoch, interrupts, resume>>
       /\ Recheck([record EXCEPT !.receipt = IF written THEN "written" ELSE "failed"],
                  closure, handlers)

-----------------------------------------------------------------------------
(* failAgentTaskTerminally. *)

\* Admission is closed first; what is live then decides who settles the attempt.
CloseForFailure(f) ==
  LET live == \/ TurnLive \/ exec
              \/ \E s \in Sends : sends[s].state \in Undecided
                                  /\ sends[s].attempt = row.attempt
  IN  /\ pc[f] = "idle" /\ row.status = "running"
      /\ closure' = Closed(closure, row.attempt)
      /\ failed' = [failed EXCEPT ![f] = owned]
      /\ pc' = [pc EXCEPT ![f] = IF live THEN "closed" ELSE "unlatched"]
      /\ UNCHANGED <<attemptVars, sessionVars, streamVars, launchVars, latch, record,
                     owes, drain, epoch, interrupts, resume>>
      /\ handlers' = Notified(handlers)

LatchFailure(f) ==
  /\ pc[f] = "closed" /\ MutexFree
  /\ BeginStop
  /\ pc' = [pc EXCEPT ![f] = "latched"]
  /\ UNCHANGED <<attemptVars, sessionVars, streamVars, failed, launchVars, closure,
                 handlers, owes, drain, interrupts, resume>>

\* The idle branch: the status is written, the attempt the row names closed.
PersistFailure(f) ==
  /\ pc[f] = "unlatched"
  /\ row' = [row EXCEPT !.status = "interrupted"]
  /\ closure' = Closed(closure, row.attempt)
  /\ pc' = [pc EXCEPT ![f] = "persisted"]
  /\ UNCHANGED <<owned, eligible, receipts, reports, sessionVars, streamVars, failed,
                 launchVars, latch, record, owes, drain, epoch, interrupts, resume>>
  /\ handlers' = Notified(handlers)

\* The queue is cleared and persistOwnedAttemptSettlement decides.  While the
\* failed attempt is owned nothing of it is queued, so no record loses a send.
SettleFailure(f) ==
  LET a == failed[f]
  IN  /\ pc[f] = "persisted"
      /\ sends' = Discharged(Queued)
      /\ decisions' = Pruned(decisions, sends', turn)
      /\ UNCHANGED <<attemptVars, turn, exec, events, failed, launchVars, epoch,
                     interrupts, resume>>
      /\ \/ /\ a = None \/ owned # a
            /\ pc' = [pc EXCEPT ![f] = "done"]
            /\ Recheck([record EXCEPT !.sends = @ \ Queued], closure, handlers)
         \/ /\ a # None /\ owned = a
            /\ \/ /\ ReceiptDue(a)
                  /\ closure' = Closed(closure, a)
                  /\ \E next \in {"settling", "done"} : pc' = [pc EXCEPT ![f] = next]
               \/ /\ ~ReceiptDue(a)
                  /\ closure' = Settled(closure, a)
                  /\ pc' = [pc EXCEPT ![f] = "done"]
            /\ UNCHANGED <<latch, record, owes, drain>>
            /\ handlers' = Notified(handlers)

\* writeSettlementReceipt returns to persistOwnedAttemptSettlement.
FinishFailure(f) ==
  /\ pc[f] = "settling"
  /\ pc' = [pc EXCEPT ![f] = "done"]
  /\ UNCHANGED <<row, owned, eligible, reports, sessionVars, streamVars, failed, launchVars,
                 latch, record, owes, drain, epoch, interrupts, resume>>
  /\ \/ /\ receipts' = receipts \cup {failed[f]}
        /\ closure' = Settled(closure, failed[f])
        /\ handlers' = Notified(handlers)
     \/ UNCHANGED <<receipts, closure, handlers>>

-----------------------------------------------------------------------------
(* reawakenInterruptedTask: a stopped or reported task takes a new attempt. *)

Resumable ==
  \/ row.status = "interrupted"
  \/ row.status = "reported" /\ \/ closure = [attempt |-> row.attempt, settled |-> TRUE]
                                \/ closure.attempt = None /\ owned = None

\* The decision, and evaluateAttemptLineage: the attempt counts as ended when its
\* owner settled it here or a receipt says so.
BeginResume ==
  /\ resume = NoResume /\ latch = 0 /\ Resumable
  /\ resume' = [attempt |-> row.attempt, epoch |-> epoch,
                proven |-> \/ /\ owned = row.attempt /\ owned \in eligible
                              /\ closure = [attempt |-> owned, settled |-> TRUE]
                           \/ /\ row.attempt \in receipts
                              /\ owned = row.attempt => owned \in eligible]
  /\ UNCHANGED <<attemptVars, sessionVars, streamVars, cascadeVars, launchVars,
                 releaseVars, epoch, interrupts>>

\* isReawakenOvertaken, hasLiveReawakening and rowAdmitsReawaken let it through.
MayResume ==
  /\ latch = 0 /\ epoch = resume.epoch
  /\ ~TurnLive
  /\ \A s \in Sends : sends[s].state \in Undecided => Stale(s)
  /\ Resumable /\ row.attempt = resume.attempt

\* commitReawakenUnderMutex, with the new attempt owned (beginOwnedTaskAttempt).
CommitResume ==
  /\ resume # NoResume /\ MutexFree /\ MayResume
  /\ row.attempt < MaxAttempts
  /\ row' = [attempt |-> row.attempt + 1,
             status |-> IF row.status = "interrupted" THEN "running" ELSE row.status]
  /\ owned' = row'.attempt
  /\ eligible' = IF resume.proven THEN eligible \cup {owned'} ELSE eligible
  /\ closure' = [attempt |-> None, settled |-> FALSE]
  /\ decisions' = [t \in Turns |-> [decisions[t] EXCEPT !.listed = FALSE]]
  /\ resume' = NoResume
  /\ UNCHANGED <<receipts, reports, sessionVars, events, cascadeVars, launchVars, handlers,
                 latch, record, owes, drain, epoch, interrupts>>

RefuseResume ==
  /\ resume # NoResume /\ MutexFree /\ ~MayResume
  /\ resume' = NoResume
  /\ UNCHANGED <<attemptVars, sessionVars, streamVars, cascadeVars, launchVars,
                 releaseVars, epoch, interrupts>>

-----------------------------------------------------------------------------
(* The launch of a task queued under the workspace. *)

launchFrame == <<attemptVars, sessionVars, streamVars, cascadeVars, closure, handlers,
                 latch, record, epoch, interrupts, resume>>

\* maybeStartQueuedTasks, reserveQueuedTaskSlot: behind a latch the recheck is owed
\* to it (deferLaunchWhileStopInProgress), else the row is reserved for a launch.
Drain ==
  /\ drain /\ drain' = FALSE
  /\ \/ job # "queued" /\ UNCHANGED <<owes, launchVars>>
     \/ job = "queued" /\ latch > 0 /\ owes' = TRUE /\ UNCHANGED launchVars
     \/ /\ job = "queued" /\ latch = 0 /\ UNCHANGED owes
        /\ job' = "starting"
        /\ \E l \in Launches :
             /\ launches[l] = "none" /\ \A k \in 1..(l - 1) : launches[k] # "none"
             /\ launches' = [launches EXCEPT ![l] = "launching"]
  /\ UNCHANGED launchFrame

\* startReservedAgentTask
Launch(l) ==
  /\ launches[l] = "launching" /\ job = "starting"
  /\ \/ /\ latch > 0 /\ owes' = TRUE
        /\ launches' = [launches EXCEPT ![l] = "reverting"] /\ UNCHANGED job
     \/ /\ latch = 0 /\ job' = "launched"
        /\ launches' = [launches EXCEPT ![l] = "done"] /\ UNCHANGED owes
  /\ UNCHANGED <<launchFrame, drain>>

\* deferLaunchForStopLatch: the row is handed back...
Revert(l) ==
  /\ launches[l] = "reverting"
  /\ job' = "queued"
  /\ launches' = [launches EXCEPT ![l] = "checking"]
  /\ UNCHANGED <<launchFrame, owes, drain>>

\* As mutated: the launch does not look at the latch again.
HandOverBlindly(l) ==
  /\ launches[l] = "checking"
  /\ launches' = [launches EXCEPT ![l] = "done"]
  /\ UNCHANGED <<launchFrame, owes, drain, job>>

\* ...and drained at once if the latch dropped meanwhile.
HandOver(l) ==
  /\ launches[l] = "checking"
  /\ launches' = [launches EXCEPT ![l] = "done"]
  /\ owes' = (owes \/ latch > 0)
  /\ drain' = (drain \/ latch = 0)
  /\ UNCHANGED <<launchFrame, job>>

-----------------------------------------------------------------------------

Next ==
  \/ \E s \in Sends : Admit(s) \/ Enqueue(s) \/ Start(s) \/ Dispose(s)
  \/ StreamStarts \/ StreamAborts \/ StreamEnds \/ TurnSettles
  \/ RegisterExecution \/ TurnEndsForExecution
  \/ \E t \in Turns : \/ ReadRow(t) \/ EndsWithoutReport(t) \/ HasReport(t) \/ Defer(t)
                      \/ Rerun(t) \/ Commit(t) \/ Publish(t)
  \/ \E c \in Callers : \/ Latch(c) \/ Mark(c) \/ MarkFails(c) \/ BeginCleanup(c)
                        \/ StopStream(c)
  \/ OwnerInterrupts
  \/ \E i \in Interrupters : InterruptExecution(i) \/ EndInterrupt(i)
  \/ FinishReceipt
  \/ \E f \in Failures : \/ CloseForFailure(f) \/ LatchFailure(f) \/ PersistFailure(f)
                         \/ SettleFailure(f) \/ FinishFailure(f)
  \/ BeginResume \/ CommitResume \/ RefuseResume
  \/ Drain \/ \E l \in Launches : Launch(l) \/ Revert(l) \/ HandOver(l)

Spec == Init /\ [][Next]_vars

\* What runs by itself once begun.  A deferred handler is rerun only when it was
\* woken: its goal's accounting may never settle.  A stream ends, as a model's answer
\* does; nobody has to stop the task, send into it or resume it.
Advances ==
  \/ \E s \in Sends : Stale(s) /\ Dispose(s)
  \/ StreamStarts \/ StreamAborts \/ StreamEnds
  \/ TurnSettles \/ TurnEndsForExecution
  \/ \E t \in Turns : \/ ReadRow(t) \/ EndsWithoutReport(t) \/ HasReport(t)
                      \/ handlers[t] = "woken" /\ Rerun(t)
                      \/ Commit(t) \/ Publish(t)
  \/ \E c \in Callers : Mark(c) \/ MarkFails(c) \/ BeginCleanup(c) \/ StopStream(c)
  \/ \E i \in Interrupters : EndInterrupt(i)
  \/ FinishReceipt

FairSpec == Spec /\ WF_vars(Advances)

-----------------------------------------------------------------------------
(* Properties. *)

\* Overlapping stops and interrupts never clear each other's latch, and none is
\* left behind: the refcount is what the stop record and the interrupts hold
\* (workspaceStopsInProgress).
LatchIsCounted ==
  latch = record.releases + Cardinality({i \in Interrupters : interrupts[i] = "held"})

\* What a stop captured when it began stays complete: no turn, send of the stopped
\* attempt or execution that could still do work is unknown to its record
\* (beginWorkspaceStop: "nothing admitted after this point exists").
CapturesAreComplete ==
  Stopping =>
    /\ TurnLive => turn.no \in record.turns
    /\ \A s \in Sends : /\ sends[s].state \in Undecided
                        /\ sends[s].attempt = record.attempt
                        => s \in record.sends
    /\ exec => record.exec

\* Attempts with a receipt, or one about to be written.
Claimed ==
  receipts \cup {a \in Attempts : \/ record.receipt = "writing" /\ record.attempt = a
                                  \/ \E f \in Failures : pc[f] = "settling" /\ failed[f] = a}

\* A receipt that an attempt ended without a report is never wrong: the attempt has
\* not reported, no stream end of it is undecided, and nothing of it can still run
\* (attemptCannotStillReport, decideSettlementReceipt).
ReceiptsAreTrue ==
  \A a \in Claimed :
    /\ a \notin reports
    /\ \A t \in Turns : decisions[t].attempt = a => decisions[t].outcome # "pending"
    /\ turn.attempt # a
    /\ \A s \in Sends : sends[s].attempt = a /\ sends[s].state \in Undecided => Stale(s)

\* An attempt has at most one undecided stream end, so the decision its handler
\* looks up by attempt is its own (findPendingStreamEndDecision).
OneUndecidedStream ==
  \A t, u \in Turns :
    /\ decisions[t].outcome = "pending" /\ decisions[u].outcome = "pending"
    /\ decisions[t].attempt = decisions[u].attempt
    => t = u

\* A queued task is never forgotten behind a latch: a drain is scheduled, or a
\* launch still has to look again, or the latch that is held owes the recheck; and
\* a reserved row has a launch (queueRechecksOwedByStopLatch).
NoLaunchIsStranded ==
  /\ job = "queued" => \/ drain
                       \/ \E l \in Launches : launches[l] = "checking"
                       \/ owes /\ latch > 0
  /\ job = "starting" => \E l \in Launches : launches[l] \in {"launching", "reverting"}

\* The stop record goes only when the stopped attempt is quiet: no live turn, no
\* execution, no send that could start one, no cleanup still to run, and a row that
\* no longer reads running (recheckWorkspaceStopRelease).
StopsEndQuiet ==
  [][Stopping /\ record'.releases = 0 =>
       /\ turn'.phase = "none" /\ ~exec'
       /\ \A s \in Sends : sends'[s].attempt = record.attempt =>
                             sends'[s].state \notin Undecided
       /\ \A c \in Callers : pc'[c] \notin {"holding", "latched", "owing", "interrupting",
                                            "stopping", "lost"}
       /\ row'.status # "running"]_vars

\* Once its marker is durable a stop ends, though a stream end was deferred to an
\* accounting that never settles - unless a failure abandoned the cleanup it owed
\* (markWorkspaceStopPersisted wakes the deferred stream end).
StopsEnd ==
  Stopping /\ record.persisted
    ~> \/ ~Stopping
       \/ \E f \in Failures : pc[f] = "lost"
=============================================================================
