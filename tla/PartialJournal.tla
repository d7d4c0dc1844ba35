---------------------------- MODULE PartialJournal ----------------------------
(***************************************************************************)
(* A reply on disk while it streams (node/services/turnEngine):             *)
(* PartialJournal.ts writes partial.json, AttemptLoop.ts and TurnRegistry.ts*)
(* call it from the attempt loop and from a stop, and historyService.ts     *)
(* keeps partial.json and the rows of chat.jsonl, one operation at a time   *)
(* under the workspace's lock.  The process may die at any step: what is on *)
(* disk stays, and the next send or start-up commits a partial it finds.    *)
(* A reply is the number of its parts; turns follow one another.            *)
(***************************************************************************)
EXTENDS Naturals, Sequences

CONSTANTS
  MaxTurns,    \* bound on turns
  MaxParts,    \* bound on the parts of a reply
  MaxRetries,  \* bound on silent retries
  Background,  \* flushes nobody awaits: debounced ones, and schedules past the throttle
  MaxMishaps,  \* bound on process deaths and failed file operations together
  Plays        \* which optional paths each turn may take, one choice per behaviour

Loop == "loop"
Cancel == "cancel"
None == "none"

Turns == 1..MaxTurns
Optional == {"announce", "soft-stop", "stop", "discard", "retry", "fail"}

ASSUME JournalAssumption ==
  /\ MaxTurns \in Nat \ {0} /\ MaxParts \in Nat /\ MaxRetries \in Nat
  /\ MaxMishaps \in Nat /\ Plays \subseteq [Turns -> SUBSET Optional]
  /\ {Loop, Cancel, None} \cap Background = {}

Flushers == Background \cup {Loop, Cancel}

\* partial.json: whose it is, its parts, and whether it holds the error the turn
\* failed with or is marked as finalized.
Partials == [turn : 0..MaxTurns, parts : 0..MaxParts, end : {"open", "failed", "final"}]
NoPartial == [turn |-> 0, parts |-> 0, end |-> "open"]

\* A row of chat.jsonl: absent, a placeholder or committed partial, or final.
Rows == [parts : 0..MaxParts, end : {"absent", "open", "final"}]
NoRow == [parts |-> 0, end |-> "absent"]

\* The attempt loop's program counter; "off" between turns.
Running == {"streaming", "announcing", "interrupting", "ending", "resetting",
            "deleting", "completing", "updating", "marking", "clearing", "failing"}
LoopStates == Running \cup {"off", "committing", "placing", "closing", "joining", "ended"}
CancelStates == {"none", "flushing", "joining", "stamping", "settling", "done"}

\* An operation on the files: who awaits it, whose partial it expects or writes.
Operations == [kind : {"write", "stamp", "update", "mark", "delete", "commit", "unlink", "place"},
               by : Flushers, turn : 0..MaxTurns, parts : 0..MaxParts,
               end : {"open", "failed", "final"}]

VARIABLES
  partial,    \* partial.json
  rows,       \* the rows of the replies in chat.jsonl
  queue,      \* operations that wait for, or hold, the workspace's lock
  turn,       \* the turn that streams, or streamed last
  parts,      \* streamInfo.parts
  loop,       \* where the attempt loop is
  retries,    \* silent retries of the turn
  terminal,   \* terminalCompletion
  aborted,    \* the abort signal
  cancel,     \* where cancelStreamSafely and cleanupAbortedStream are
  abandon,    \* abandonPartial
  flushes,    \* each caller of flush, or of awaitPending
  pending,    \* partialWritePromise, by the flush it is of
  armed,      \* a debounced flush sleeps (partialWriteFiber)
  retired,    \* partialRetired
  announced,  \* per turn, the parts listeners were told to be readable
  abandoned,  \* turns whose reply the user has discarded
  unwritten,  \* turns a write of whose partial has failed
  mishaps,    \* process deaths and failed file operations
  play        \* the one of Plays; it never changes

disk == <<partial, rows>>
engine == <<turn, parts, loop, terminal, aborted>>
stopping == <<cancel, abandon>>
journal == <<flushes, pending, armed, retired>>
history == <<announced, abandoned, unwritten>>
bounds == <<retries, mishaps, play>>

May(path) == turn > 0 /\ path \in play[turn]
vars == <<disk, queue, engine, stopping, journal, history, bounds>>

NoFlush == [st |-> "idle", on |-> None, turn |-> 0]

TypeOK ==
  /\ partial \in Partials
  /\ rows \in [Turns -> Rows]
  /\ queue \in Seq(Operations)
  /\ turn \in 0..MaxTurns /\ parts \in 0..MaxParts
  /\ loop \in LoopStates /\ retries \in 0..MaxRetries /\ mishaps \in 0..MaxMishaps
  /\ play \in Plays
  /\ terminal \in {"none", "completed", "failed"} /\ aborted \in BOOLEAN
  /\ cancel \in CancelStates /\ abandon \in BOOLEAN
  /\ flushes \in [Flushers -> [st : {"idle", "waiting", "ready", "writing", "done", "failed"},
                               on : Flushers \cup {None}, turn : 0..MaxTurns]]
  /\ pending \in Flushers \cup {None}
  /\ armed \in BOOLEAN /\ retired \in BOOLEAN
  /\ announced \in [Turns -> 0..MaxParts]
  /\ abandoned \subseteq Turns /\ unwritten \subseteq Turns

Init ==
  /\ partial = NoPartial
  /\ rows = [t \in Turns |-> NoRow]
  /\ queue = <<>>
  /\ turn = 0 /\ parts = 0 /\ loop = "off"
  /\ terminal = "none" /\ aborted = FALSE
  /\ cancel = "none" /\ abandon = FALSE
  /\ flushes = [f \in Flushers |-> NoFlush]
  /\ pending = None /\ armed = FALSE /\ retired = TRUE
  /\ announced = [t \in Turns |-> 0] /\ abandoned = {} /\ unwritten = {}
  /\ retries = 0 /\ mishaps = 0 /\ play \in Plays

-----------------------------------------------------------------------------
(***************************************************************************)
(* The journal                                                             *)
(***************************************************************************)

\* The caller awaits the write in flight, if there is one.
AwaitPending(f) ==
  flushes' = [flushes EXCEPT ![f] = [st |-> IF pending = None THEN "ready" ELSE "waiting",
                                     on |-> pending, turn |-> turn]]

\* The caller goes on after its flush, or after the write it joined.
Resumes(f) == flushes' = [flushes EXCEPT ![f] = NoFlush]
Flushed(f) == flushes[f].st \in {"done", "failed"}
Joined(f) == flushes[f].st = "ready"

Enqueue(kind, by, t, n, end) ==
  queue' = Append(queue, [kind |-> kind, by |-> by, turn |-> t, parts |-> n, end |-> end])

\* Tool events and deltas ask for a write: at once when the throttle allows it,
\* else a debounced one, which replaces the one that sleeps.
Schedule ==
  /\ loop \in Running
  /\ \/ /\ armed' = TRUE
        /\ UNCHANGED flushes
     \/ /\ \E f \in Background : flushes[f].st = "idle" /\ AwaitPending(f)
        /\ UNCHANGED armed
  /\ UNCHANGED <<disk, queue, engine, stopping, pending, retired, history, bounds>>

\* The debounced flush wakes up; it forgets its fiber first.
Wakes ==
  /\ armed
  /\ armed' = FALSE
  /\ \E f \in Background : flushes[f].st = "idle" /\ AwaitPending(f)
  /\ UNCHANGED <<disk, queue, engine, stopping, pending, retired, history, bounds>>

\* A flush that has waited: unless its turn is retired it writes the parts the turn
\* has now.  The terminal flush retires the turn before it writes.
Flush(f) ==
  /\ flushes[f].st = "ready"
  /\ f = Loop => loop \notin {"resetting", "joining"}
  /\ LET current == flushes[f].turn = turn
         last == f = Loop /\ loop = "failing"
     IN  /\ armed' = (armed /\ ~current)
         /\ IF current /\ ~retired
            THEN /\ Enqueue("write", f, turn, parts, IF last THEN "failed" ELSE "open")
                 /\ pending' = f
                 /\ retired' = last
                 /\ flushes' = [flushes EXCEPT ![f].st = "writing"]
            ELSE /\ flushes' = [flushes EXCEPT ![f] =
                                  IF f \in Background THEN NoFlush ELSE [@ EXCEPT !.st = "done"]]
                 /\ UNCHANGED <<queue, pending, retired>>
  /\ UNCHANGED <<disk, engine, stopping, history, bounds>>

\* A tracked write is over: its promise is cleared, and whoever awaited it resumes.
WriteEnds(op, st) ==
  /\ pending' = IF op.turn = turn THEN None ELSE pending
  /\ flushes' = [f \in Flushers |->
       IF f = op.by THEN IF f \in Background THEN NoFlush ELSE [flushes[f] EXCEPT !.st = st]
       ELSE IF flushes[f].st = "waiting" /\ flushes[f].on = op.by
            THEN [flushes[f] EXCEPT !.st = "ready"] ELSE flushes[f]]

-----------------------------------------------------------------------------
(***************************************************************************)
(* The attempt loop                                                        *)
(***************************************************************************)

LoopGoes(from, to) == loop = from /\ loop' = to

\* A send, or the start of the process, settles the partial it finds: a lock-free
\* probe, then a commit that expects nobody's partial in particular.
Settle ==
  /\ loop = "off" /\ turn < MaxTurns
  /\ IF partial = NoPartial
     THEN /\ loop' = "placing"
          /\ Enqueue("place", Loop, turn + 1, 0, "open")
     ELSE /\ loop' = "committing"
          /\ Enqueue("commit", Loop, 0, 0, "open")
  /\ UNCHANGED <<disk, turn, parts, terminal, aborted, stopping, journal, history, bounds>>

Receive ==
  /\ loop = "streaming" /\ ~aborted /\ parts < MaxParts
  /\ parts' = parts + 1
  /\ UNCHANGED <<disk, queue, turn, loop, terminal, aborted, stopping, journal, history, bounds>>

\* Tool results are flushed before their event; a soft stop flushes at a boundary;
\* so does the end of the attempt, aborted or not, and a failure with its error.
LoopFlushes ==
  /\ \/ ~aborted /\ loop = "streaming" /\ May("announce") /\ loop' = "announcing"
     \/ ~aborted /\ loop = "streaming" /\ May("soft-stop") /\ cancel = "none"
          /\ loop' = "interrupting"
     \/ loop = "streaming" /\ loop' = "ending"
     \/ May("fail") /\ ~aborted /\ loop = "streaming" /\ loop' = "failing"
     \/ May("fail") /\ loop = "completing" /\ loop' = "failing"
  /\ AwaitPending(Loop)
  /\ UNCHANGED <<disk, queue, turn, parts, terminal, aborted, stopping, pending, armed,
                 retired, history, bounds>>

\* The tool result's event goes out: listeners may read the partial.
Announce ==
  /\ LoopGoes("announcing", "streaming") /\ Flushed(Loop)
  /\ announced' = IF flushes[Loop].st = "done"
                  THEN [announced EXCEPT ![turn] = parts] ELSE announced
  /\ Resumes(Loop)
  /\ UNCHANGED <<disk, queue, turn, parts, terminal, aborted, stopping, pending, armed,
                 retired, abandoned, unwritten, bounds>>

\* A soft stop aborts; a hard one that came meanwhile owns the bookkeeping.
Interrupt ==
  /\ LoopGoes("interrupting", "streaming") /\ Flushed(Loop)
  /\ aborted' = TRUE
  /\ IF cancel = "none"
     THEN /\ cancel' = "joining"
          /\ abandon' \in {FALSE, May("discard")}
          /\ abandoned' = IF abandon' THEN abandoned \cup {turn} ELSE abandoned
     ELSE UNCHANGED <<stopping, abandoned>>
  /\ Resumes(Loop)
  /\ UNCHANGED <<disk, queue, turn, parts, terminal, pending, armed, retired,
                 announced, unwritten, bounds>>

\* The attempt has been flushed: an aborted turn is the canceller's, output that
\* ended is completed; refused output is retried, or failed with.
EndOfAttempt ==
  /\ loop = "ending" /\ Flushed(Loop)
  /\ \/ aborted /\ loop' = "closing" /\ Resumes(Loop)
     \/ ~aborted /\ parts > 0 /\ loop' = "completing" /\ Resumes(Loop)
     \/ ~aborted /\ May("fail") /\ loop' = "failing" /\ AwaitPending(Loop)
  /\ UNCHANGED <<disk, queue, turn, parts, terminal, aborted, stopping, pending, armed,
                 retired, history, bounds>>

\* A silent retry keeps the parts there are: an interrupted attempt's, or a refused
\* one's.  It lets no write of the old attempt follow.
Retry ==
  /\ May("retry") /\ retries < MaxRetries /\ ~aborted
  /\ loop = "streaming" \/ (loop = "ending" /\ Flushed(Loop))
  /\ loop' = "resetting"
  /\ retries' = retries + 1
  /\ armed' = FALSE
  /\ AwaitPending(Loop)
  /\ UNCHANGED <<disk, queue, turn, parts, terminal, aborted, stopping, pending, retired,
                 history, mishaps, play>>

ResetForRetry ==
  /\ loop = "resetting" /\ Joined(Loop)
  /\ pending' = None
  /\ Resumes(Loop)
  /\ IF parts = 0
     THEN /\ loop' = "deleting"
          /\ Enqueue("delete", Loop, turn, 0, "open")
     ELSE /\ loop' = "streaming"
          /\ UNCHANGED queue
  /\ UNCHANGED <<disk, turn, parts, terminal, aborted, stopping, armed, retired,
                 history, bounds>>

\* As mutated: the partial goes before the final message is written.
CommitFinalDeletingFirst ==
  /\ LoopGoes("completing", "updating")
  /\ retired' = TRUE
  /\ queue' = queue \o <<[kind |-> "delete", by |-> Loop, turn |-> turn, parts |-> 0, end |-> "open"],
                         [kind |-> "update", by |-> Loop, turn |-> turn, parts |-> parts, end |-> "final"]>>
  /\ UNCHANGED <<disk, turn, parts, terminal, aborted, stopping, flushes, pending, armed,
                 history, bounds>>

\* As mutated: the partial is not retired before the final message is written.
CommitFinalUnretired ==
  /\ LoopGoes("completing", "updating")
  /\ Enqueue("update", Loop, turn, parts, "final")
  /\ UNCHANGED <<disk, turn, parts, terminal, aborted, stopping, journal, history, bounds>>

\* Retire the partial, then write the final message; the partial goes last.
CommitFinal ==
  /\ LoopGoes("completing", "updating")
  /\ retired' = TRUE
  /\ Enqueue("update", Loop, turn, parts, "final")
  /\ UNCHANGED <<disk, turn, parts, terminal, aborted, stopping, flushes, pending,
                 armed, history, bounds>>

\* The error the turn failed with is on disk, or could not be written.
Fail ==
  /\ LoopGoes("failing", "closing") /\ Flushed(Loop)
  /\ terminal' = "failed"
  /\ Resumes(Loop)
  /\ UNCHANGED <<disk, queue, turn, parts, aborted, stopping, pending, armed, retired,
                 history, bounds>>

\* closeStreamResources: no write starts any more, the one in flight is joined.
CloseResources ==
  /\ LoopGoes("closing", "joining")
  /\ retired' = TRUE
  /\ armed' = FALSE
  /\ AwaitPending(Loop)
  /\ UNCHANGED <<disk, queue, turn, parts, terminal, aborted, stopping, pending,
                 history, bounds>>

LoopEnds ==
  /\ LoopGoes("joining", "ended") /\ Joined(Loop)
  /\ Resumes(Loop)
  /\ UNCHANGED <<disk, queue, turn, parts, terminal, aborted, stopping, pending, armed,
                 retired, history, bounds>>

\* The turn's stream info is dropped.
Forgets ==
  /\ parts' = 0 /\ terminal' = "none" /\ aborted' = FALSE
  /\ cancel' = "none" /\ abandon' = FALSE

\* The turn's completion settles: by its terminal, or by the stop that owns it.
Leave ==
  /\ LoopGoes("ended", "off")
  /\ cancel = "done" \/ (cancel = "none" /\ terminal # "none")
  /\ Forgets
  /\ UNCHANGED <<disk, queue, turn, flushes, pending, armed, retired, history, bounds>>

-----------------------------------------------------------------------------
(***************************************************************************)
(* A stop                                                                  *)
(***************************************************************************)

Stop ==
  /\ May("stop") /\ cancel = "none" /\ terminal = "none" /\ loop \in Running \cup {"closing", "joining"}
  /\ cancel' = "flushing"
  /\ abandon' \in {FALSE, May("discard")}
  /\ abandoned' = IF abandon' THEN abandoned \cup {turn} ELSE abandoned
  /\ AwaitPending(Cancel)
  /\ UNCHANGED <<disk, queue, engine, pending, armed, retired, announced,
                 unwritten, bounds>>

StopAborts ==
  /\ cancel = "flushing" /\ Flushed(Cancel)
  /\ cancel' = "joining"
  /\ aborted' = TRUE
  /\ Resumes(Cancel)
  /\ UNCHANGED <<disk, queue, turn, parts, loop, terminal, abandon, pending, armed,
                 retired, history, bounds>>

\* settleAbort: a discarded reply's partial is deleted, any other committed, each
\* only while it is this turn's.
SettleAbort ==
  IF ~abandon /\ partial = NoPartial
  THEN /\ cancel' = "done"
       /\ UNCHANGED queue
  ELSE /\ cancel' = "settling"
       /\ Enqueue(IF abandon THEN "delete" ELSE "commit", Cancel, turn, 0, "open")

\* cleanupAbortedStream: the loop has exited.  If it had finished by itself, the
\* stop has lost the race; else usage is stamped on the partial when there is any.
StopCleansUp ==
  /\ cancel = "joining" /\ loop = "ended"
  /\ \/ /\ terminal # "none" /\ cancel' = "done"
        /\ UNCHANGED queue
     \/ /\ terminal = "none" /\ ~abandon /\ cancel' = "stamping"
        /\ Enqueue("stamp", Cancel, turn, parts, "open")
     \/ terminal = "none" /\ SettleAbort
  /\ UNCHANGED <<disk, engine, abandon, journal, history, bounds>>

-----------------------------------------------------------------------------
(***************************************************************************)
(* The files, one operation at a time                                      *)
(***************************************************************************)

Op == Head(queue)

\* The next operation of whoever awaited this one, if it has one.
Continues(kind, by, t, n, end) ==
  queue' = Append(Tail(queue), [kind |-> kind, by |-> by, turn |-> t, parts |-> n, end |-> end])

Done == queue' = Tail(queue)

WritePartial ==
  /\ Op.kind = "write"
  /\ partial' = [turn |-> Op.turn, parts |-> Op.parts, end |-> Op.end]
  /\ WriteEnds(Op, "done")
  /\ Done
  /\ UNCHANGED <<rows, engine, stopping, armed, retired, history, bounds>>

WriteAbortPartial ==
  /\ Op.kind = "stamp"
  /\ partial' = [turn |-> Op.turn, parts |-> Op.parts, end |-> Op.end]
  /\ cancel' = "settling"
  /\ Continues("commit", Cancel, turn, 0, "open")
  /\ UNCHANGED <<rows, engine, abandon, journal, history, bounds>>

UpdateHistory ==
  /\ Op.kind = "update"
  /\ rows' = [rows EXCEPT ![Op.turn] = [parts |-> Op.parts, end |-> "final"]]
  /\ loop' = "clearing"
  /\ Continues("delete", Loop, turn, 0, "open")
  /\ UNCHANGED <<partial, turn, parts, terminal, aborted, stopping, journal, history, bounds>>

\* Whoever was to delete the partial, or to mark it, goes on.
Completes ==
  /\ loop' = IF loop = "deleting" THEN "streaming" ELSE "closing"
  /\ terminal' = IF loop = "deleting" THEN "none" ELSE "completed"
  /\ UNCHANGED cancel

Goes ==
  \/ Op.by = Cancel /\ cancel' = "done" /\ UNCHANGED <<loop, terminal>>
  \/ Op.by = Loop /\ Completes

\* The final message could not be written: it is kept as the partial.
MarkFinalized ==
  /\ Op.kind = "mark"
  /\ partial' = IF partial.turn = Op.turn
                THEN [turn |-> Op.turn, parts |-> Op.parts, end |-> "final"] ELSE partial
  /\ Completes
  /\ Done
  /\ UNCHANGED <<rows, turn, parts, aborted, abandon, journal, history, bounds>>

DeletePartial ==
  /\ Op.kind = "delete"
  /\ partial' = IF partial.turn = Op.turn THEN NoPartial ELSE partial
  /\ Goes
  /\ Done
  /\ UNCHANGED <<rows, turn, parts, aborted, abandon, journal, history, bounds>>

\* What a commit makes of a row.  A partial without a row is an orphan; one with
\* more parts than its row replaces it; an error without any output takes the
\* placeholder away.
CommittedTo(row) ==
  IF row # NoRow /\ partial.parts > row.parts
  THEN [parts |-> partial.parts, end |-> IF partial.end = "final" THEN "final" ELSE "open"]
  ELSE IF partial.end = "failed" /\ row.parts = 0 THEN NoRow
  ELSE row

\* The commit's transaction, of the expected turn's partial if one is expected: its
\* row first.
CommitRow ==
  /\ Op.kind = "commit"
  /\ rows' = IF partial # NoPartial /\ Op.turn \in {0, partial.turn}
             THEN [rows EXCEPT ![partial.turn] = CommittedTo(@)] ELSE rows
  /\ queue' = <<[Op EXCEPT !.kind = "unlink"]>> \o Tail(queue)
  /\ UNCHANGED <<partial, engine, stopping, journal, history, bounds>>

\* Its partial last.  A send goes on to its placeholder, a start-up is done.
AfterCommit ==
  IF Op.by = Cancel
  THEN /\ cancel' = "done"
       /\ Done
       /\ UNCHANGED loop
  ELSE /\ \/ loop' = "off" /\ Done
          \/ loop' = "placing" /\ Continues("place", Loop, turn + 1, 0, "open")
       /\ UNCHANGED cancel

CommitUnlinks ==
  /\ Op.kind = "unlink"
  /\ partial' = IF Op.turn = 0 \/ partial.turn = Op.turn THEN NoPartial ELSE partial
  /\ AfterCommit
  /\ UNCHANGED <<rows, turn, parts, terminal, aborted, abandon, journal, history, bounds>>

\* The placeholder row of a new turn, and a journal that has never written.
PlacePlaceholder ==
  /\ Op.kind = "place"
  /\ rows' = [rows EXCEPT ![Op.turn] = [parts |-> 0, end |-> "open"]]
  /\ turn' = Op.turn
  /\ loop' = "streaming"
  /\ Forgets
  /\ pending' = None /\ armed' = FALSE /\ retired' = FALSE
  /\ Done
  /\ UNCHANGED <<partial, flushes, history, bounds>>

\* An operation fails and leaves the files as they were.
OperationFails ==
  /\ mishaps < MaxMishaps
  /\ mishaps' = mishaps + 1
  /\ unwritten' = IF Op.kind = "write" THEN unwritten \cup {Op.turn} ELSE unwritten
  /\ \/ /\ Op.kind = "write"
        /\ WriteEnds(Op, "failed")
        /\ Done
        /\ UNCHANGED <<loop, terminal, cancel>>
     \/ /\ Op.kind = "stamp"
        /\ cancel' = "settling"
        /\ Continues("commit", Cancel, turn, 0, "open")
        /\ UNCHANGED <<loop, terminal, flushes, pending>>
     \/ /\ Op.kind = "update"
        /\ loop' = "marking"
        /\ Continues("mark", Loop, turn, parts, "final")
        /\ UNCHANGED <<terminal, cancel, flushes, pending>>
     \/ /\ Op.kind \in {"mark", "delete"}
        /\ Goes
        /\ Done
        /\ UNCHANGED <<flushes, pending>>
     \/ /\ Op.kind \in {"commit", "unlink", "place"}
        /\ IF Op.by = Cancel THEN cancel' = "done" /\ UNCHANGED loop
                             ELSE loop' = "off" /\ UNCHANGED cancel
        /\ Done
        /\ UNCHANGED <<terminal, flushes, pending>>
  /\ UNCHANGED <<disk, turn, parts, aborted, abandon, armed, retired, announced,
                 abandoned, retries, play>>

\* The process dies: the files stay, and nothing else.
Crash ==
  /\ mishaps < MaxMishaps
  /\ mishaps' = mishaps + 1
  /\ queue' = <<>>
  /\ loop' = "off"
  /\ Forgets
  /\ flushes' = [f \in Flushers |-> NoFlush]
  /\ pending' = None /\ armed' = FALSE /\ retired' = TRUE
  /\ UNCHANGED <<disk, turn, history, retries, play>>

-----------------------------------------------------------------------------
FileStep ==
  /\ queue # <<>>
  /\ \/ WritePartial \/ WriteAbortPartial \/ UpdateHistory \/ MarkFinalized
     \/ DeletePartial \/ CommitRow \/ CommitUnlinks \/ PlacePlaceholder \/ OperationFails

LoopStep == \/ Settle \/ Receive \/ LoopFlushes \/ Announce \/ Interrupt \/ EndOfAttempt \/ Retry
            \/ ResetForRetry \/ CommitFinal \/ Fail \/ CloseResources \/ LoopEnds \/ Leave

Next == \/ FileStep \/ LoopStep \/ Schedule \/ Wakes
        \/ \E f \in Flushers : Flush(f)
        \/ Stop \/ StopAborts \/ StopCleansUp \/ Crash

Spec == Init /\ [][Next]_vars

-----------------------------------------------------------------------------
\* What a restart that commits the partial would find of a reply.
Recovered(t) ==
  IF rows[t].end # "absent" /\ partial.turn = t /\ partial.parts > rows[t].parts
  THEN [parts |-> partial.parts, end |-> IF partial.end = "final" THEN "final" ELSE "open"]
  ELSE rows[t]

Durable == INSTANCE DurableReply WITH
  reply <- [t \in Turns |-> Recovered(t)], announced <- announced,
  givenUp <- abandoned \cup unwritten

\* However flushes, the final message, stops, failures and deaths interleave, a
\* restart recovers what the reply had, and all that listeners were told of
\* (PartialJournal.ts:234-239 "Persist the final message to chat.jsonl BEFORE
\* deleting partial.json", StepApply.ts:656).
ImplementsDurableReply == Durable!Spec

\* Once the next turn has begun, the reply is final, its failure is recorded or its
\* discarded partial is gone, no late write brings a partial of it back; nor does an
\* older snapshot replace the error a turn failed with (PartialJournal.ts:17-18,
\* 104-108).
Settled(t) ==
  \/ t # turn \/ rows[t].end = "final" \/ terminal # "none"
  \/ t \in abandoned /\ (cancel = "done" \/ loop = "off")

SettledStaysSettled ==
  [][partial' # partial /\ partial' # NoPartial =>
       /\ ~Settled(partial'.turn)
       /\ partial.turn = partial'.turn => partial.end = "open"]_vars
===============================================================================
