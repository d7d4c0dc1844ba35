# Verification of the Xum session core and its locks

Xum runs coding agents in workspaces. Every workspace has a chat session, and
the session's core question is always the same one: *who owns the turn?* A user
send, a queued send, an edit, a hard stop, a retry, a recovery, a compaction
follow-up, a context mutation and a shutdown may all want it, all on one event
loop, and each of them awaits between looking and acting. Around the session
stand the parts that end work (the stops of agent tasks and the ledgers they
settle), that start it again (the automatic retry), that keep its reply on disk
(the partial journal) and that keep two processes apart (the file lock and the
use leases). This directory holds TLA+ models of
that code, the TLC runs that check them on small instances, and proofs of what
holds for every instance.

Paths below are relative to the repository; `services/` is
`src/node/services/`.

## 1. Inventory

### 1.1 Turn coordinator (`services/turnCoordinator.ts`)

*State.* The `CoordinatorState` of a pure reducer: lifetime (open, closing,
disposed), current turn id and phase (idle, preparing, streaming, completing),
the current operation, an observed stream, edit, admission and terminal
reservations, recovery decisions, the retry ids, the compaction observation and
recorded summary. Around it a class holds waiter batches, the preparation's
`AbortController`, settlement promises, decision promises, execution leases and
the execution scope.

*Operations.* About thirty events and the methods that dispatch them.
`dispatch` publishes the next state, detaches the waiters and resources the
publication retires, and only then runs the commands. The phase observer, the
stream-start recorder and the queue drain call out of the class, and an observer
may call the coordinator again before it returns.

*Hard.* Re-entrancy; ids that must be compared because everything that
completes may do so late; waits that must survive a callback that claims and
waits again; disposal from inside an observer.

*Correct when* no waiter is left behind, an aborted preparation never runs,
settlements and decisions always have somebody who answers them, and a stale
event changes nothing that belongs to a successor.

### 1.2 Session turn driver (`services/agentSession.ts`)

*State.* The message queue, preparation attempts, the stop epoch, the streams
and their policies, edit leases, follow-up and retry loops.

*Operations.* `sendMessage`/`prepareMessage`, `streamWithHistory`,
`completePreparation`, `handleTurnSuccess`, `handleStreamError`,
`handleTurnAbort`, `sendQueuedMessages`, `drainQueuedMessagesIfIdle`,
`interruptStream`, edits with their truncation, recovery and compaction
follow-ups.

*Hard.* Every handler awaits; each await lets a stop, an edit or a send-now
replace the turn the handler works for. The queue is drained from half a dozen
places, and an entry must be dispatched by one of them.

*Correct when* a busy session always has somebody who will end its turn, sends
are dispatched in order and none is forgotten, history has one writer, and only
the current turn reaches the provider.

### 1.3 Send preflight, context gate, service entries

`services/sendPreflight.ts` numbers the sends that are not yet visible to the
session; `services/contextMutationGate.ts` arms an admission block and then
looks for work in progress; `services/workspaceService.ts` decides for each send
whether it is queued, and implements stop and send-now. They share the
coordinator's reservations and the session's queue.

### 1.4 Components around the core

| component | state | operations | hard behaviour | correct when |
|---|---|---|---|---|
| message queue (`messageQueue.ts`) | entries, batches, dedupe keys | add, take, clear, withdraw | entries merged or withdrawn while a dispatch is claimed | nothing lost, nothing sent twice |
| auto retry (`retryManager.ts`) | generation, pending fiber, ownership | schedule, cancel, fire | observers that cancel or reschedule inside a callback | one live retry at most, none after a cancel |
| compaction recovery (`compactionCancellation.ts`, `compactionHandler.ts`, `compactionPendingState.ts`, `continuousCompactionJournal.ts`) | durable stop record, nonces, generations, pending follow-up | publish, settle, replace, recover | crash between two files, retried publication | a stop survives a restart, a follow-up is sent once |
| partial journal (`turnEngine/PartialJournal.ts`, with `AttemptLoop.ts` and `historyService.ts`) | in-flight write, debounce, retired; `partial.json` and the reply's row | schedule, flush, retire, commit, settle an abort | a flush racing retirement, a crash between two files | no partial after the final message, no reply lost |
| turn engine (`turnEngine/`) | streams, pending starts, per-workspace mutex | start, stop, terminal events | stop during start-up, replacement | one stream per workspace |
| task stop latch (`taskStopLatch.ts`) | epochs, refcounted latches, stop records | capture, clean up, release | overlapping stops, confirmations in any order | dropped exactly when all is settled |
| ledgers (`attemptLedger.ts`, `streamEndLedger.ts`) | attempts, receipts, deferrals | admit, settle, defer | settlement of a superseded attempt | one settlement per attempt |
| use leases (`workspaceUseLeases.ts`) | lease and gate files of two processes | hold, gate | publish-then-probe on both sides | no structural change under a user |
| in-process locks (`utils/concurrency/asyncMutex.ts`, `asyncSemaphore.ts`, `mutexMap.ts`, `workflows/keyedFifoLock.ts`) | holder, queue | acquire, release, give up | hand-off against a deadline | mutual exclusion, FIFO |
| file lock (`utils/concurrency/fileLock.ts`, `processLiveness.ts`) | lock file, guards, owners | acquire, release, reclaim | crash, stale judgment overtaken | one holder |
| workflows (`services/workflows/`) | run records, leases, replay cursors | claim, publish, take over | takeover and replacement races | a step is published by its owner |

History and session files, providers, tools, runtimes, memory, the renderer, the
desktop shell, the CLI and the VS Code extension are data or I/O around this
core; `PROJECT.json` lists them with the reason each is left out.

### 1.5 How they interact

    workspaceService --ticket--> sendPreflight
          |  queue or direct          |  head of the line drains
          v                           v
    agentSession ---- claims, reservations, waits ----> turnCoordinator
          |   ^                                           |
          |   +--- phase observer, drain, policy ---------+
          v
    turnEngine --- stream-start / terminal events, handle completion ---> both

### 1.6 Around the session

    taskService --- stop cascade, terminal failure ---> taskStopLatch
        |  admits, binds, defers                            |  captured turns,
        v                                                   v  sends, execution
    attemptLedger, streamEndLedger <---- stream ends --- agentSession
                                                            |
    retryManager ---- claim of the retry, resend -----------+

    turnEngine (attempt loop, stop) ---> PartialJournal ---> historyService

    workspaceService --hold / mutation gate--> workspaceUseLeases
    settings, queues, journals ------lock----> fileLock (several processes)

A Stop of a task latches the workspace, so that sends and launches hold back,
and abandons the retry of the session; the stream end it provokes is decided
under the event lock of the workspace and settles the attempt. The leases and
the file lock are the only parts two processes share; what one of them sees of
the other is the content of a file.

## 2. Modules

| module | models |
|---|---|
| `TurnTransition` | the reducer: state, commands, one operator per event |
| `TurnCoordinator` | the class: dispatch with nested observers, every method, and the calls of its environment |
| `SessionTurns` | sends, queue, start-ups, streams, policies, edits, stop and mutations over `TurnTransition` |
| `RetryManager` | the automatic retry with observers that call back or throw, the failure handler and the resend that drive it |
| `TaskStops` | the stops of one task: latch, stop record, attempt and stream-end ledgers, resumption, queued launch |
| `CrashLock` | what a lock whose owner may die promises |
| `FileLock` | the file lock, its nested reclaim guards and process death; implements `CrashLock` |
| `DurableReply` | what streaming promises of a reply, whatever crashes |
| `PartialJournal` | the partial of a streaming reply, its commit and its final row, from the attempt loop and a stop down to the files; implements `DurableReply` |
| `WorkspaceUseLeases` | uses and structural mutations of several backends |
| `MC*` | instances for TLC: casts, symmetry, finite choices of the function constants |
| `TurnTransitionProofs` | lemmas on the reducer |
| `TurnCoordinatorProofs` | the waiters of the coordinator and the types of its variables; who owns the controller, the preparation, the stream and the settlements; who answers a decision |
| `SessionTurnsProofs` | the types, the order of sends, and the invariant that relates a session's phase to its turns and calls |
| `FileLockProofs` | the lock's invariants and its refinement of `CrashLock` |
| `WorkspaceUseLeasesProofs` | the leases' invariants and action properties |
| `RetryManagerProofs` | the retry manager's invariants and action properties |
| `TaskStopsProofs` | the stops' invariant and the action property of the record's end |
| `PartialJournalProofs` | the journal's invariant, its action property and its refinement of `DurableReply` |

### 2.1 `TurnTransition`

An event is an operator from a state to `[s, cmds]`, named for the event:
`Prepare`, `Preempt`, `Finish`, `Register`, `Completion`, `BeginDecision`, ...
Ids the code draws as fresh symbols are natural numbers, 0 being `undefined`.
Commands keep their order, because `dispatch` runs them in it. Which settled
decision the retention rule forgets first is left open (`Evictions`).

### 2.2 `TurnCoordinator`

`stack` holds the dispatches in progress. Publication, the detaching of waiters
and the detaching of the preparation are one step, as in the code; each command
is a step; while the top frame is `observing`, any method may be called and
pushes a frame (up to `MaxDepth`). A dispatch whose commands call nothing out is
a single step (`Quietly`). The environment, which is `agentSession.ts` and the
engine, is one record field per operation: its producer's progress, its stream,
and how it ended. An environment action is guarded by what the session's code
guarantees at that call site, which `map` names.

### 2.3 `SessionTurns`

Each action is the code between two awaits. A dispatch is one step here, and an
operation carries the id of its turn. `turns[t]` holds a turn's claimant, its
start-up, stream and policy; `sends[x]` and `edits[e]` hold the position of a
call in its function; `stop` and `mutations` hold the remaining actors.
`ContinueWith` is the pattern the whole session shares: apply a coordinator
result, then drain the queue with a trigger, claiming the next turn in the same
block.

A behaviour has a cast, chosen at its start from the constant `Casts`: who may
call, and which optional behaviours (`paths`: stop, send-now, failing streams and
start-ups, recovery, follow-ups, ...) may happen. A run names the casts its
question needs; the cast never changes.

### 2.4 `RetryManager`

Everything but the backoff sleep and the resend is synchronous, and calls out in
four places: the three status events, and the claim of the coordinator's retry
when it is taken or dropped. `calls` is the stack of calls in progress; a step
runs the innermost one to the next place where it calls out, and while it is
there whoever is called may make any call of the manager, or throw where it is an
observer. A fiber is named by the generation that forked it. `resends` follows
`retryActiveStream`, whose promise outlives the fiber that awaits it; `turns`
follows the failure handler, which captures the generation and the Stops its
stream started under and reads the preference before it acts. `standing` and
`stopped` are history: the scheduling nothing has retired since, and the turns a
Stop found running; no guard reads them.

### 2.5 `TaskStops`

One agent task, the sends into its workspace, one turn at a time, and another
task queued under it. A caller is a stop cascade or a terminal failure; `pc[c]`
is its position (latch; durable marker and queue; stream stop; owed cleanup).
`record` is the stop record: how many cleanups and releases it owes, what it
captured (turns, sends, execution), whether its marker is durable and where its
receipt is. `decisions` and `handlers` are the stream-end ledger and the handlers
that decide under the event lock `events`. A send carries the attempt it was
admitted under and whether this process owned it. What rechecking the record
changes (`releaseVars`) is computed in the step that causes the recheck, as the
code calls it in the same block. A caller, send or owner that begins as done is
one that never comes; the MC module's casts choose.

Coarser than the code: the row write of a terminal failure
(`taskService.ts:21577`) and the confirmation of its marker (21678) are one
step, `Mark`.

### 2.6 `FileLock` and `CrashLock`

An actor is one acquisition loop of one process; every file-system call of the
loop is a step. `file[0]` is the lock path and `file[n + 1]` the guard that
serializes taking over `file[n]`; a reclaimer that finds its guard stale reclaims
that one first, up to `MaxDepth`. A token is the owner and a nonce, and is
registered (`liveTokens`) before it is written, as in the code. A crash
empties the process's registry and leaves its files; the pid may come back. The
lease that a timestamp renews matters to one reader only, an older build that
unlinks a guard it judged stale without a guard of its own: its two steps are
modelled behind `OlderBuild`, and external. Time-outs are refusals that may come
at any point of the loop.

`CrashLock` has one variable, the owner. The refinement maps it to the actor
whose record is at the lock path; a record nobody stands behind is `"orphaned"`.

### 2.7 `WorkspaceUseLeases`

A user publishes its backend's lease and then probes the gate; a mutator
publishes its gates, in the order of the workspaces, and then scans the leases.
`line` is the per-workspace queue of `MutexMap.withLock` in each backend. `held`
is what a backend counts in memory: nested holds share the file of the first.
A crash takes a backend's records away at once, because everybody judges them
dead: the promise of the cross-process lock kit (`crossProcessLock.ts`). A
release may give up, and leaves a record only its own process judges dead. An
open of a native terminal is a use that goes on, past its probe, to a launch
(`terminalService.ts`), which the structural gate of `workspaceService.ts` looks
for in memory.

### 2.8 `PartialJournal` and `DurableReply`

A reply is the number of its parts. On disk are `partial` (`partial.json`: whose
it is, its parts, and whether it carries the turn's error or is marked as
finalized) and `rows` (the reply's row of `chat.jsonl`). In memory are the attempt
loop (`loop`), the stop (`cancel`), the callers of `flush` or `awaitPending`
(`flushes`: the loop, the stop, and `Background` flushes nobody awaits), the
tracked write (`pending`), the debounce (`armed`) and `retired`. `queue` is the
line of `MutexMap.withLock`: a file operation is enqueued by its caller and
executed at the head of the line, and the caller goes on in the same step. A
commit takes two steps, since its row is durable before the partial is gone.

`Settle` is the commit with which a send or a start-up finds a partial left
behind; `Crash` keeps the files and forgets the rest; `OperationFails` leaves the
files as they are and takes the caller's error path. `Plays` says which optional
paths (announcing a tool result, soft stop, hard stop, discard, retry, failure)
each turn may take; it is fixed at the start, like the casts of `SessionTurns`.

`DurableReply` knows only what a restart would recover of each reply, what
listeners were told, and which replies were given up. The refinement maps the
first to `Recovered(t)`: the row, or the partial when it has more parts than its
row and the row is there, which is the choice `commitPartial` makes. `announced`,
`abandoned` and `unwritten` are history. A reply counts as given up when the user
discards it, and when a write of its partial has failed: the code logs or ignores
that error and goes on, so no guarantee can survive it (see section 6, item 7).

## 3. Runs

Every run completes with two workers in about two minutes or less.

| run | question | instance |
|---|---|---|
| `coordinator_claims` | waiters, compaction window and disposal under re-entrant observers | 2 waiters, 3 turns, nesting 3, a reservation, a compaction token |
| `coordinator_operations` | controllers, settlements, decisions, preparations and observed streams | 2 operations, 3 turns, a reader, a stream that precedes the session |
| `coordinator_live` | settlements resolve, a disposed session closes, an operation stopped anywhere by any stopper | 1 operation, 2 turns |
| `session_overlaps` | a busy session keeps an owner, one writer of history, one turn on air, the order of overlapping sends, a replaced policy moves no other turn | casts of a send, an edit and a mutation with stops and failures; three sends with soft send-now; two sends with goal accounting; two sends through every way a turn ends |
| `session_live` | the queue drains, the edit proceeds | 2 sends with an edit between |
| `retry_manager` | retries retired from within and without, observers that throw, claims, late resends | 2 turns, 4 generations, 2 calls back on top of the outermost |
| `task_stops` | overlapping stops, what they capture, receipts, deferred stream ends, resumption, queued launches | 7 casts of at most three callers and sends; 2 attempts, 2 turns, 2 launches |
| `partial_journal` | flushes, the final message, stops, retries, failures: what does a restart recover, and does a late write bring a partial back? | 2 turns of 2 parts, 1 background flush, 1 retry, 1 crash or failing operation |
| `filelock_safety` | a live owner keeps its record; the lock implements `CrashLock` | 3 actors in 2 processes, 1 guard level, 1 crash, 1 failing call, a record left behind |
| `filelock_recovery` | a dead owner's record is recovered, also through stale guards and beside an older build | 2 actors in 2 processes, 3 guard levels, records left at two of them, 1 crash |
| `workspace_use_leases` | exclusion of uses and mutations, admission, launches, everybody decided | 2 backends, 2 workspaces, 2 users, one of them an open, 3 mutators, 1 crash, 1 release that gives up |
| `session_soft_send_now` | the disagreement of section 6 | 2 sends |

*Why the bounds suffice.*

Coordinator and session. A turn interacts with its predecessor and its
successor. The first turn of an instance is the idle one a session starts with,
so three turns give a turn and its replacement, four a replacement of that.
Three nested dispatches are an observer that calls back into a dispatch whose
observer calls back. Two waiters distinguish the batch being released from the
batch that joined during the callback. Three sends are needed for a queue whose
head is dispatched while a third send is in preflight. `MaxRetained = 1` makes
the eviction of decisions happen after two of them.

Retry. Two calls back are enough for a call to be retired by one that is itself
retired, and four generations for a retry, its replacement from within, the
withdrawal of that one by a throw, and a later failure.

Stops. Overlap needs two callers, of the same kind or not; a send must be able to
come before and after the capture, hence two; an attempt must be followed by
another, because a receipt is wrong only when it outlives its attempt.

File lock. The interesting races have a reclaimer that judged, one that reclaimed
meanwhile, and an owner that acquired since: three actors, of which two share a
process, because a process never judges its own tokens by pid. One crash gives
the stale record; the recovery run also starts from records left behind at the
lock and its first guard, so the reclaim nests to the depth bound.

Leases. The two halves of publish-and-probe need two backends; two workspaces
give a mutation that claims both and collides with a mutation of each.

Journal. A late write matters to the turn it is of and to the one after it: two
turns. Two parts tell a stale snapshot from a current one. Three callers of
`flush` (loop, stop, debounce) are all the code has at a time but for further
unawaited schedules. One mishap is a crash or a failing operation, at any step;
whatever the crash leaves behind is settled by the next turn. The first turn of
the main play may take every path; in the other plays both turns retry, fail or
are stopped.

Symmetry is used for waiters and readers of the coordinator and for the two
actors that share a process in `filelock_safety`; never with liveness.
*Deadlock* is checked where it is not switched off; a session, a task or a retry
at its bounds, a journal after its last turn, or anything closed, may stop.

## 4. Fairness

`TurnCoordinator!FairSpec` assumes that a dispatch runs to its end (it is
synchronous), that the continuations of promises get their turn of the event
loop however other calls interleave (strong fairness, since a nested dispatch
disables them for a moment), that an engine start-up and a stream end, that the
failing start-up's producer answers its own decision, and that the execution
scope closes when its leases are gone. Callers need not call anything. That
streams end is a fact about providers and their timeouts which this code does
not itself establish.

`SessionTurns!FairSpec` assumes weak fairness of every continuation, of stream
ends and of the mutation's end. Nothing is assumed of the user: no send, edit or
stop ever has to come. Which of its outcomes a turn takes is not assumed either;
a detour is never forced, with one exception: a recovery that has begun returns
(`RecoveryHandsOff`).

`RetryManager!Fairness`: a call in progress runs to its end, a backoff that
nothing retires elapses, a resend settles and its fiber notices. Nobody has to
call the manager.

`TaskStops`: `WF(Advances)`, which is what the event loop does by itself: streams
end, handlers that hold the event lock decide, cleanups and receipts finish,
stale sends are disposed of. A handler deferred to an accounting is rerun only
when somebody wakes it, because that accounting may never settle; nobody has to
stop, send or resume.

`FileLock!FairSpec`: file-system calls return and the poll timer fires for an
actor in its loop. `WorkspaceUseLeases!FairSpec`: the same for a user that has
asked and a mutator that has begun. No one has to end a section, a use or a
mutation, and no one has to live. `PartialJournal` states no fairness: its
properties say what a restart finds at any point.

## 5. Properties

Each is stated in words above its definition.

| component | safety | steps that may never happen | liveness |
|---|---|---|---|
| coordinator | `WaitersNotStranded`, `CompactionWaitersHeld`, `ControllerFollowsClaim`, `SettlementHasOwner`, `DecisionHasResolver`, `StreamingIsReal`, `PreparationOwned` | `AbortedStaysDead` | `SettlementsResolve`, `DisposalCloses` |
| session | `TurnHasOwner`, `HistoryHasOneWriter`, `StreamIsCurrent`, `SendsInOrder` | `StalePolicyMovesNoOther`, `StalePolicyIsHarmless` (violated: section 6) | `QueueDrains`, `EditsProceed` |
| retry | `OneRetryAtMost`, `ClaimsAreDropped`, `ShownRetryIsReal` | `RetiredStaysRetired`, `StoppedTurnIsNotRetried` | `RetriesSettle` |
| stops | `LatchIsCounted`, `CapturesAreComplete`, `ReceiptsAreTrue`, `OneUndecidedStream`, `NoLaunchIsStranded` | `StopsEndQuiet` | `StopsEnd` |
| partial journal | | `SettledStaysSettled`, `ImplementsDurableReply` | |
| file lock | `OwnerHasRecord` | `ReclaimersKeepEvidence`, `ImplementsCrashLock` | `OrphanCleared` |
| leases | `StructuralExclusion` | `NoAdmissionBehindScan`, `NoLaunchUnderMutation` | `Decided` |

Definitions marked *Faulty* or *As mutated* in the modules are bugs of the kind a
change could plausibly introduce; each breaks the property it is listed with,
which shows the property depends on that code. No `Next` reaches them.

The modules state a type invariant each, which documents their variables; the
runs spend their time on other properties, and where a type invariant is proved it
is a theorem of section 7. Nor do the runs repeat the proved
`FileLock!ClaimIsStale` (a reclaimer moves aside the record it judged) and
`WorkspaceUseLeases!CountedIsPublished`.

`ClaimIsStale` holds because the record is read again under the guard: the
code's restoration of a displaced record serves older builds only, and is
unreachable without one. `StreamIsCurrent` does not speak of a stream that a soft
send-now cut: the engine keeps it on air until its next boundary, on purpose.
`TurnHasOwner` does not speak of casts with `"soft-send-now"`, where the
disagreement of section 6 completes a turn whose start-up still runs;
`StalePolicyMovesNoOther` says that a soft send-now is the only way there. Three
more combinations of calls are left out of the casts of `session_overlaps`, and
of the theorems by a hypothesis: section 6 says which and what happens in them.

## 6. Where code and documentation disagree

`session_soft_send_now` shows the first; the others are observations made while
modelling, each with the instance that reproduces it.

1. A completion policy awaits its plan snapshots (`agentSession.ts:1594`). The
   handler then reads the current turn and calls `beginPolicy` on it *before*
   checking that its operation is current (10488-10492). A soft send-now that
   claims a replacement in between has its preparing turn marked completing by
   the ended stream's policy.
2. When a context recovery's hand-off is refused (10033), the handler returns
   without finishing the turn. If the refusal is due to an edit that waits for
   idle, that edit waits for good: the normal path ends with `finishTurn` (10153),
   and so do the other refused hand-offs, once their callers resume the terminal
   path; this one resolves the decision and leaves the phase completing. The
   comment at 10461 says of the same phase that a failure "must not strand
   COMPLETING: an edit may be waiting for idle". A cast with a send, an edit,
   `"fail"` and `"recover"` violates `TurnHasOwner`, and `EditsProceed` under
   `FairSpec`.
3. Between the check for another edit (5474) and the reservation (5494) stands
   an await (5480), and the later check (5563) looks at admission reservations
   only. Two edits may both rewrite history: two `Edits` in one cast violate
   `HistoryHasOneWriter`.
4. A goal continuation's success handler flushes the queue (10671), awaits its
   accounting (10715) and finishes the turn (10761) without another drain. A
   message queued during the accounting stays queued until the next event: a
   cast with `"goal"` violates `QueueDrains`. For the same reason the live cast
   has no failing turn: a message queued behind a turn that failed waits for the
   retry or the user.
5. A terminal failure latches its workspace and then writes the task's row
   (`taskService.ts:21570-21602`). When the write throws, the cleanup it owes
   never runs and the latch is held until a restart, although
   `taskStopLatch.ts:254` says the cleanup "Must run for EVERY id latched in
   Phase A". In `TaskStops` it is `MarkFails`, which leaves the caller `"lost"`;
   `StopsEnd` excludes it.
6. A comment at `taskService.ts:13590` expects the latch of a failed interrupt to
   drop once its owner settles and the cleanup finishes; but the record also
   needs the durable marker, which nothing else writes after that failure.

7. `PartialJournal.ts:14` says "At most one writePartial is in flight per turn".
   Two flushes that await the same write both resume when it ends and both start
   another one (111-127); so do two that find none in flight one after the other
   before either has suspended at the write. The first to end clears the promise
   of the second (138), which `closeStreamResources` then does not join. The
   workspace's lock keeps the two in order, so what they write is right. It
   matters only when the first write fails while the second waits: the lock-free
   probe of a commit may then find no partial, and the late one stays behind for
   the next turn's to overwrite. `writePartial` returns such a failure rather
   than throwing it, so the `catch` of 134 does not see it, and a tool result is
   announced all the same. In `PartialJournal` these are the turns in `unwritten`.

8. A soft send-now cuts a stream and claims the next turn while that stream runs
   to its next boundary. If the start-up of the replacement fails first, the
   session is idle, and an edit that finds it so truncates history with the old
   stream still on air: two sends, an edit and `"soft-send-now"` violate
   `HistoryHasOneWriter`. If an ordinary send-now, a failure and a recovery follow
   it (five turns), a replaced turn may be left on its way to the provider with
   nobody to cut it: `StreamIsCurrent`.

The casts of `session_overlaps` have one edit at most, never with `"recover"` or
`"soft-send-now"`, so that items 2, 3 and 8 do not arise in them, `"goal"` only
without an edit, and `"send-now"` never beside a soft one.

## 7. Proofs

The theorems hold for every value of the constants, under the named assumptions
of the modules, which give the parameters their types and tell them apart.

*Coordinator* (`RetainedAssumption`, `BoundsAssumption`).

* `NoWaiterStranded == Spec => []WaitersNotStranded`. `WaitersNotStranded`
  already joins the three kinds of waiters, the detached batches of the stack and
  the emptiness of batches nothing will release. It becomes inductive as `Inv`
  with three additions: the types of what it reads (`Types`, `Issued`), that
  only a frame whose head command called out has an observer running
  (`Observers`: otherwise consuming a command could shorten an empty list), and
  that a coordinator without an observation has no compaction stage (`Window`:
  otherwise a wait could join a batch no token will release). The steps fall
  into three kinds, with one lemma each: a dispatch, a quiet call, and the
  return of a dispatch. Of the reducer they need that an event keeps the types,
  the lifetime and the compaction window, and never reaches idle without
  publishing it (`Regular`, `Still`): the lemmas of `TurnTransitionProofs`.
* `CompactionWaitsAreHeld == Spec => CompactionWaitersHeld`. `Placed` says that a
  batch holds only callers that wait for it, and that a caller in a detached batch
  is in no other: so a release answers the wait it was meant for, and never one
  that the same caller began since. With it, each way to release callers but the
  end of the observation leaves those of a compaction alone.
* `TypeCorrect == Spec => []TypeOK`, on top of that invariant: `Inv` types the
  waiters and the reducer's state, `Rest` the resources, the decision registry
  and the environment.
* Ownership. The events of the reducer, the retirements a dispatch still has to
  run and the producers outside the coordinator speak of the same operation at
  different moments, so the five properties need one invariant, `Owned`, on top of
  the types. `ProducerInv` and `StartInv` say what an operation's stream can be
  given where its producer is, and that a start-up nobody stopped still owns the
  turn it prepares: so a stream that starts is that of the current operation.
  `CurrentInv` says what the current operation has: its turn, an outcome not
  delivered twice, a settlement as long as its policy is ahead. `FrameInv` looks
  into the dispatches in progress: a command that had to wait for an observer is
  never a policy, nor the retirement of what is current *now*, although events
  have been handled since it was queued. `ClaimInv` extends the property of the
  aborted turns to those that an edit is preempting in a dispatch that has yet to
  return (`Preempted`), without which a callback in between could give them an
  operation. `PhaseInv`, `StreamInv` and `SettleInv` bound identifiers, streams
  and settlements. From `Owned` follow `ControllerIsCurrent`,
  `AbortedTurnsStayDead`, `SettlementsHaveOwners` and `StreamsAreReal`, and by one
  step of each action `PreparationIsOwned`.
* `DecisionsAreAnswered == Spec => []DecisionHasResolver`, from `Answered`, a
  second layer on `Owned`. A promise in the registry stands for a pending
  decision, and whoever must answer that is a start-up that reported an error, or
  the consumer of a stream that completed or failed (`Resolver`): never one that
  has passed its finalizer. For errors the producer answers whatever it finds on
  its message. A compaction decision can also be opened by a reader, late, so the
  invariant says when it can no longer be: a completed stream is *spent*
  (`SpentBy`) once its operation is replaced, was no compaction, has let go of its
  request, or the session is disposed; a decision that is answered, and a reader
  that was told so, are about spent streams only. A stream is never unspent, and
  the one a reader may ask about is that of the current operation (`MessageInv`),
  so a reader never opens a decision behind the finalizer that would have answered
  it. In between an event opens or answers decisions in the state and its command
  creates or resolves the promises; the invariant lets the two differ by exactly
  what the command up next is about to settle (`Settles`, `PromptInv`), and no
  callback comes between, since `Owned` keeps such a command from being put off.

*Session* (`SessionTurns!SessionAssumption`). Three layers.

* `TypeHolds == Spec => []TypeOK`. `TypeInv` is the same types, plus that the
  cast does not change. A step is an event of the reducer, perhaps followed by
  the drain of the queue in the same block; the lemmas say once what a claim, a
  drain and a call's return leave typed.
* `ClaimsInOrder == Spec => []SendsInOrder`. The order of the claims becomes
  inductive with that of the queue, and with what is between (`OrderInv`): a send
  that is claimed, queued or on its way to a direct hand-off is older than every
  call still in preflight; claimed ones are older than queued ones; at most one
  is on its way, and if no turn has been claimed since it looked, it is younger
  than every claimed send and older than every queued one. So a send whose
  expected turn is still current may take the next one, and one whose turn has
  been replaced does not.
* The three properties that relate the phase to the turns need one invariant,
  `SessionHolds`, because each step that endangers one relies on the others.
  `Coherent` says what the parts of one turn's record (start-up, stream, outcome,
  policy) can be beside each other, and `Past` what a replaced turn can still be:
  nothing that could reach the provider, but for what a soft send-now cut. `Here` and `Sole` relate the current
  turn's record to the phase and the operation: idle means quiet, a start-up not
  aborted owns its operation, a handler at work shows as streaming or completing.
  `Run` is the converse, that such a phase has a stream or a handler. `SendsPart`,
  `EditsPart`, `StopPart` and `MutationsPart` say what the calls have established
  across their awaits: a send about to hand over to a quiet turn that it is still
  quiet, an edit past its interruption that its reservation stands and the session
  has settled, a stop that its streams are cut and the operation it named is the
  current one, a mutation that no call and no turn is under way. The block a
  mutation arms and the reservation of an edit are what keeps these true while
  others move: no claim passes either (`SessionClaims`), and each way the
  coordinator's state moves has a lemma of its own on which the actions rest.
  From it follow `CurrentStream`, `OwnedTurns` and `OneHistoryWriter`, and by one
  step of each handler `StalePoliciesAreHarmless == Spec => StalePolicyMovesNoOther`.

The hypotheses set aside the combinations of calls in which section 6 finds the
properties broken: `NoMixedSendNow` (not both forms of send-now: item 8) for
`StreamIsCurrent`; `RecoversAlone` (no soft send-now, of which the property does
not speak, and no edit beside a recovery: item 2) for `TurnHasOwner`; `OneEditor`
(at most one edit, no soft send-now: items 3 and 8) for `HistoryHasOneWriter`. They
are about the cast, which a behaviour keeps: a cast of any number of sends and
mutations, with every stop, failure and hand-off and the ordinary send-now,
satisfies all three when it has no edit, and, without a recovery, when it has
one. TLC checked the whole invariant on casts of each kind first.

*Journal* (`PartialJournal!JournalAssumption`). `JournalInv` adds to the types
what the line of file operations may hold (`LineInv`): one operation of each
caller, none behind one that closes the reply, none with fewer parts than one
before it, and each agreeing with where its caller waits (`LoopInv`, `FlushInv`,
`StopInv`). A turn that is over has retired its journal and has no write left in
line (`OverInv`), which is where the order in which the code retires, joins and
then writes is needed; the row stays a placeholder until then (`RowInv`), the
partial has what the loop left it with unless a write failed (`SavedInv`), and the
partial of an earlier turn is covered by its row or may be lost (`OldInv`). The
commit reads the partial and removes it in two operations, and `OldInv` is also
what makes its removal safe in between. `JournalIsInOrder` is that invariant,
`TypesOfJournal` its types; `LateWritesAreHarmless` is one step from it. For
`JournalImplementsDurableReply` each step is mapped: writes of the files to
`Change`, an announcement to `Announce`, a failing write or a discarding stop to
`GiveUp`, all else to a stutter.

*File lock* (`FileLock!ParametersAssumption`). `Base`, the types and `LocalInv`, says
what an actor has from where it is: its token inside a section, a record moved
aside until it is dealt with, and, once it has judged a content dead, one that is
in nobody's registry and stays so, because tokens are never written twice. It
holds with an older build as well, and one step from it gives `EvidenceIsKept`:
what a reclaimer removes it has judged dead, whoever unlinked its guard meanwhile,
and a death leaves the moved record in its graveyard. The exception in the property
is the code's: a moved record that cannot be read is taken for the judged one.
The other theorems assume `~OlderBuild`: with one the properties are false, as the
module comment of `fileLock.ts` grants. `Inv` adds: a published token is
registered, its owner's, and at its path (`OwnerInv`), a reclaimer's guard is one
level above what it reclaims (`SeatInv`), and what was verified under the guard
stays where it was (`ClaimInv`). The last is the heart: only the holder of the
guard of a level can move that level's record. From `Inv` follow
`NoLiveOwnerDisplaced`, `ReclaimersClaimStaleRecords`, and, with every step mapped
to a step of `CrashLock` or a stutter, `FileLockImplementsCrashLock`.

*Leases* (`WorkspaceUseLeases!ParametersAssumption`). `Inv` is: whoever is past
the wait for a transition lock is the first of its line (`LockInv`); a backend
counts exactly the holds that were admitted and not dropped (`HeldInv`); a
counted use, and one at its probe, is published (`PublishedInv`); a mutator's
gates are up while it scans (`GateInv`); what a scan has established about each
use (`ScanInv`); and no open is on its way to a launch under a mutation
(`OpenInv`). `ScanInv` is the argument of the module comment: whoever published
second sees the first. The theorems are `TypesAreCorrect`,
`UsesAndMutationsExclude`, `CountedUsesArePublished`,
`UsesAreNotAdmittedBehindScans` and `NothingIsLaunchedUnderMutation`.

*Retry* (`RetryManager!BoundsAreNatural`, `RetryManager!ReentrantCalls`). `Inv`
describes the stack of calls in progress, which the observers and finalizers
make: it sits on top of at most one fiber, and its calls act for ever later
generations (`StackInv`), so that at most the innermost is current, and only a
current call relies on the manager's fields (`CurrentInv`). A fiber that sleeps or
awaits its resend is the installed one, or one that a call in progress is about to
interrupt, and the installed one has not been retired (`FiberInv`); something is
pending exactly while that fiber sleeps or is about to be forked (`PendingInv`);
the coordinator's retry has one claim at most, that of the fiber that runs or
awaits its resend (`ClaimInv`); and what the renderer shows is real, or a call in
progress owes it an update (`ShownInv`). `StopInv` relates each turn to the Stops
it has seen. TLC checked the same formula on the instance first. With the stack
empty it gives `TypesOfRetries`, `OneRetry`, `ClaimsGo` and `ShownIsReal`; with
one step, `RetiredIsOver` and `StoppedIsNotRetried`.

*Stops* (`TaskStops!BoundsAreNatural`, `TaskStops!CallersDiffer`: a cascade, a
terminal failure and the owner are three kinds of caller). `StopsInv` joins nine
parts that read few variables each, and needs them all:

* the row names the current attempt and all else names it or an earlier one
  (`CurrentInv`), so what a stop says of the attempt it captured is said of the
  one the row is at;
* the latch counts the record's releases and the interrupts' latches
  (`LatchInv`), so a record keeps the latch up, and admission closed;
* the record counts the callers that owe it a cleanup (`RecordInv`) and knows all
  that could still work for its attempt (`CapturesAreComplete`);
* a handler that has still to decide has a pending decision, listed while it is of
  the current attempt, one of each attempt, none while that attempt's turn may
  still stream (`StreamInv`), so a stop that sees no pending decision will not be
  overtaken by one;
* an owned attempt that has reported and could still leave a receipt is being
  published (`ReportInv`), and an attempt with a receipt, or whose receipt is being
  decided, is closed and quiet (`ClaimInv`), which says more than the property:
  no undecided send of it remains, stale or not;
* `NoLaunchIsStranded`.

Most actions recheck the record as their last call, so the common lemma is
`EveryStepAccounts`: every step but the beginning of a stop, the ways an interrupt
or a commit moves the latch, and the launches, leaves a record that accounts for
what the old one captured, and then keeps it, releases it or claims its receipt as
`Rechecks` says. The parts about the latch, the record and the launches follow
from it without a look at the actions. The cleanups are counted with the
cardinality lemmas of `FiniteSetTheorems`: a set that a step makes larger or
smaller by one caller. TLC checked the same parts on the instance first. From
`StopsInv` follow `LatchesAreCounted`, `StopsCaptureAll`, `ReceiptsStayTrue`,
`StreamsAreDecidedOnce` and `LaunchesAreKept`; `StopsEndInQuiet` is one step from
it.

Every invariant and every action property of a passing run is now a theorem.
Model-checked only is liveness (`SettlementsResolve`, `DisposalCloses`,
`QueueDrains`, `EditsProceed`, `OrphanCleared`, `Decided`, `RetriesSettle`,
`StopsEnd`): the prover does not reason about `ENABLED` or fairness.

## 8. Not modelled

* Coordinator: observers, drains and recorders that throw; telemetry; the order
  in which settled decisions are forgotten.
* Session: mid-stream compaction, the background start-up, plan reports held by
  a decision, stops that fail, heartbeat and other supersedable sends, the stop
  hooks of a turn, the recovery that registers a preflight again, and the
  automatic retry, which `RetryManager` has instead.
* Retry: delays and attempt counts (only whether there has been an attempt), the
  compaction recovery that may hold a failure back (one of the ways its handler
  does nothing), and the re-entrancy of events that do not come from the manager.
* Stops: the rebinding of a record when a delegated turn is superseded or rolled
  over, the settlement of a failed resumption, the idle-stop of the desktop,
  launches that fail, reactivation, reports of other backends, retirement claims
  and removals, terminal failures that name an expected attempt, and the branch
  of the cleanup that stops a turn it did not capture, which no step reaches.
* File lock: the renewal of the lease by its owner, other than as the guard of
  the older build; clocks.
* Leases: the directory layout, and the queries that change nothing.
* Journal: the throttle's times; receipts and refusal metadata that make a commit
  rewrite a row without new parts; parts that are not worth committing; rows that
  an edit or a compaction removes meanwhile; usage accounting; a stop during the
  start-up of a turn; other backends, which `withHistoryWriteFileLock` keeps out.
* Workflow runs, compaction recovery across a restart, the
  semaphore and the workflow lock's deadlines, history files, goals, providers,
  tools, runtimes, renderer and shells: `PROJECT.json` has a line on each.

## 9. Plan

1. `CompactionCancellation` with crash and restart.
2. `keyedFifoLock`: an abstract FIFO lock, and the deadline against the hand-off.
3. In `SessionTurns`: background start-ups, then `RetryManager` composed with it.
4. `MessageQueue` as a refinement of the FIFO that `SessionTurns` uses.
