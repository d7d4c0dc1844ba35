----------------------------- MODULE RetryManager -----------------------------
(***************************************************************************)
(* The automatic retry of a failed stream (services/retryManager.ts) and   *)
(* the parts of services/agentSession.ts that drive it.                    *)
(*                                                                         *)
(* A failure schedules a retry: a fiber that sleeps, claims the turn       *)
(* coordinator's retry, announces itself and resends.  A cancellation or a *)
(* later failure retires it.  Everything but the sleep and the resend is   *)
(* synchronous and calls out, to the observer of the retry's status and to *)
(* the claim it takes and drops; whoever is called may call the manager    *)
(* back.  The calls in progress are a stack, and a step runs the innermost *)
(* call up to the next place where it calls out.                           *)
(***************************************************************************)
EXTENDS Naturals, FiniteSets, Sequences, SequencesExt

CONSTANTS
  Turns,           \* streams of the session that may fail
  MaxGeneration,   \* bound on retryGeneration
  MaxDepth,        \* bound on the calls in progress at once
  Reentrant        \* the calls an observer or a finalizer may make

Calls == {"failure", "refusal", "cancel", "abandon", "disable"}

ASSUME BoundsAreNatural == MaxGeneration \in Nat /\ MaxDepth \in Nat \ {0}
ASSUME ReentrantCalls == Reentrant \subseteq Calls

Generations == 1..MaxGeneration
None == 0

VARIABLES
  enabled,                \* auto-retry is switched on
  retryGeneration,        \* advanced by every call that retires a retry
  attempted,              \* state.attempt > 0
  retryFiber,             \* the fiber installed, named by its generation
  retryPending,           \* the backoff sleep is pending
  pendingScheduledEvent,  \* generation of the snapshot a client would be sent
  retryOwnership,         \* generation whose claim the manager holds
  fibers,                 \* per generation: where its fiber is
  claims,                 \* generations whose claim is not disposed
  coordinatorRetry,       \* the coordinator's retry id
  resends,                \* per generation: where its original promise is
  calls,                  \* the calls in progress, innermost last
  turns,                  \* per turn: its stream, and what its failure captured
  autoRetryStops,         \* Stops of the workspace so far
  closing,                \* the session is closing
  shown,                  \* what the renderer shows of the retry
  standing,               \* history: the scheduling no call has retired since
  stopped                 \* history: turns a Stop found streaming or failing

manager == <<enabled, retryGeneration, attempted, retryFiber, retryPending,
             pendingScheduledEvent, retryOwnership, fibers, claims,
             coordinatorRetry>>
session == <<turns, autoRetryStops, closing, stopped>>
vars == <<manager, session, resends, calls, shown, standing>>

Init ==
  /\ enabled = TRUE
  /\ retryGeneration = 0
  /\ attempted = FALSE
  /\ retryFiber = None
  /\ retryPending = FALSE
  /\ pendingScheduledEvent = None
  /\ retryOwnership = None
  /\ fibers = [g \in Generations |-> "none"]
  /\ claims = {}
  /\ coordinatorRetry = None
  /\ resends = [g \in Generations |-> "none"]
  /\ calls = <<>>
  /\ turns = [t \in Turns |-> [at |-> "idle", stops |-> 0, gen |-> 0]]
  /\ autoRetryStops = 0
  /\ closing = FALSE
  /\ shown = "nothing"
  /\ standing = None
  /\ stopped = {}

-----------------------------------------------------------------------------
(***************************************************************************)
(* Calls, claims and fibers                                                *)
(***************************************************************************)

Idle == calls = <<>>
Top == Last(calls)

\* The innermost call is calling out, so whoever it called may call back.
CallsBack(call) == ~Idle /\ Top.out /\ Len(calls) < MaxDepth /\ call \in Reentrant

Returns == calls' = Front(calls)
Proceeds(at) == calls' = Append(Front(calls), [Top EXCEPT !.at = at, !.out = TRUE])

IsCurrent(g) == g = retryGeneration
MayRun(g) == enabled /\ IsCurrent(g)

\* As mutated: only the current generation may finish the coordinator's retry.
DisposeIfCurrent(g) ==
  /\ claims' = claims \ {g}
  /\ coordinatorRetry' =
       IF g \in claims /\ coordinatorRetry = g /\ IsCurrent(g) THEN None ELSE coordinatorRetry

\* Disposing a claim drops the coordinator's retry if it is still this one.
Dispose(g) ==
  /\ claims' = claims \ {g}
  /\ coordinatorRetry' = IF g \in claims /\ coordinatorRetry = g THEN None ELSE coordinatorRetry

\* As mutated: the fiber has no finalizer.
FinishesWithItsClaim(g) ==
  /\ fibers' = [fibers EXCEPT ![g] = "ended"]
  /\ UNCHANGED <<retryOwnership, claims, coordinatorRetry>>
  /\ calls' = IF Idle THEN calls ELSE Front(calls)

\* The fiber of g is over; its finalizer drops the claim, which calls out.
Finishes(g) ==
  /\ fibers' = [fibers EXCEPT ![g] = "ended"]
  /\ retryOwnership' = IF retryOwnership = g THEN None ELSE retryOwnership
  /\ Dispose(g)
  /\ LET finishing == [call |-> "fiber", gen |-> g, at |-> "finishing", fiber |-> None,
                       tell |-> FALSE, out |-> TRUE]
         outer == IF ~Idle /\ Top.call = "fiber" /\ Top.gen = g THEN Front(calls) ELSE calls
     IN calls' = IF g \in claims THEN Append(outer, finishing) ELSE outer

\* A call retires the current retry: it takes the next generation, detaches the
\* fiber and the claim, and drops the claim before it interrupts the fiber.
Detaches(call) ==
  /\ retryGeneration < MaxGeneration
  /\ retryGeneration' = retryGeneration + 1
  /\ attempted' = IF call \in {"failure", "refusal"} THEN attempted ELSE FALSE
  /\ retryFiber' = None
  /\ retryOwnership' = None
  /\ retryPending' = FALSE
  /\ pendingScheduledEvent' = None
  /\ standing' = None
  /\ Dispose(retryOwnership)
  /\ UNCHANGED fibers

\* As mutated: only a retry whose sleep is pending is reported.
ReportsPending(call) == call \in {"abandon", "disable"} /\ retryPending

\* An abandonment reports a retry whose sleep is over as well.
Reports(call) == call \in {"abandon", "disable"} /\ (retryPending \/ attempted)

Frame(call, g) ==
  [call |-> call, gen |-> g, at |-> "retiring", fiber |-> retryFiber,
   tell |-> Reports(call), out |-> retryOwnership \in claims]

Retires(call, outer) ==
  Detaches(call) /\ calls' = Append(outer, Frame(call, retryGeneration + 1))

-----------------------------------------------------------------------------
(***************************************************************************)
(* The manager's operations                                                *)
(***************************************************************************)

\* "failure" is handleStreamFailure of an error that is retried, "refusal" of
\* one that is not.
Handles(call) == enabled /\ Retires(call, calls) /\ UNCHANGED <<enabled, shown>>

\* A bare cancellation tells nobody: whoever issues it starts or ends a stream,
\* and the renderer leaves its retry state by that.
Cancels == Retires("cancel", calls) /\ shown' = "nothing" /\ UNCHANGED enabled
Abandons == Retires("abandon", calls) /\ UNCHANGED <<enabled, shown>>
Disables == Retires("disable", calls) /\ enabled' = FALSE /\ UNCHANGED shown

\* A called observer or finalizer calls the manager back.
CallBack ==
  /\ \/ \E call \in {"failure", "refusal"} : CallsBack(call) /\ Handles(call)
     \/ CallsBack("cancel") /\ Cancels
     \/ CallsBack("abandon") /\ Abandons
     \/ CallsBack("disable") /\ Disables
  /\ UNCHANGED <<session, resends>>

\* Interrupting a fiber asleep or awaiting its resend ends it there and then; one
\* that is itself executing notices where it next yields.
Interrupts(f) ==
  LET lands == f # None /\ fibers[f] \in {"sleeping", "resending"}
  IN /\ fibers' = IF lands THEN [fibers EXCEPT ![f] = "ended"] ELSE fibers
     /\ IF lands THEN Dispose(f) ELSE UNCHANGED <<claims, coordinatorRetry>>

\* The claim is dropped: the call interrupts the fiber, and goes on unless the
\* finalizer has retired it.
Schedules ==
  /\ Top.call = "failure" /\ IsCurrent(Top.gen)
  /\ attempted' = TRUE
  /\ pendingScheduledEvent' = Top.gen
  /\ retryPending' = TRUE
  /\ shown' = "scheduled"
  /\ standing' = Top.gen
  /\ Proceeds("scheduling")

Tells ==
  /\ \/ Top.call = "refusal" /\ IsCurrent(Top.gen)
     \/ Top.tell
  /\ shown' = "abandoned"
  /\ Proceeds("telling")
  /\ UNCHANGED <<attempted, pendingScheduledEvent, retryPending, standing>>

HasNothingToTell ==
  /\ Top.call \in {"failure", "refusal"} => ~IsCurrent(Top.gen)
  /\ ~Top.tell
  /\ Returns
  /\ UNCHANGED <<attempted, pendingScheduledEvent, retryPending, standing, shown>>

Retired ==
  /\ ~Idle /\ Top.at = "retiring"
  /\ Interrupts(Top.fiber)
  /\ Schedules \/ Tells \/ HasNothingToTell
  /\ UNCHANGED <<session, resends, enabled, retryGeneration, retryFiber, retryOwnership>>

\* As mutated: the fiber is forked whatever the observer did.
ScheduledUnchecked ==
  /\ ~Idle /\ Top.at = "scheduling"
  /\ retryPending' = TRUE
  /\ retryFiber' = Top.gen
  /\ fibers' = [fibers EXCEPT ![Top.gen] = "sleeping"]
  /\ Returns
  /\ UNCHANGED <<session, resends, enabled, retryGeneration, attempted,
                 pendingScheduledEvent, retryOwnership, claims, coordinatorRetry,
                 shown, standing>>

\* The observer of "auto-retry-scheduled" returns: the fiber is forked, unless
\* the observer has retired this call.
Scheduled ==
  /\ ~Idle /\ Top.at = "scheduling"
  /\ IF MayRun(Top.gen)
     THEN /\ retryPending' = TRUE
          /\ retryFiber' = Top.gen
          /\ fibers' = [fibers EXCEPT ![Top.gen] = "sleeping"]
     ELSE UNCHANGED <<retryPending, retryFiber, fibers>>
  /\ Returns
  /\ UNCHANGED <<session, resends, enabled, retryGeneration, attempted,
                 pendingScheduledEvent, retryOwnership, claims, coordinatorRetry,
                 shown, standing>>

\* It throws: the scheduling is withdrawn, again unless it was retired.  An
\* observer that throws is not counted on to show what it was told.
SchedulingThrows ==
  /\ ~Idle /\ Top.at = "scheduling"
  /\ \/ /\ IsCurrent(Top.gen)
        /\ Retires("cancel", Front(calls))
        /\ shown' = "nothing"
        /\ UNCHANGED enabled
     \/ /\ ~IsCurrent(Top.gen)
        /\ Returns
        /\ UNCHANGED <<manager, shown, standing>>
  /\ UNCHANGED <<session, resends>>

\* The observer of "auto-retry-abandoned" returns, or throws: nothing is left to do.
Told ==
  /\ ~Idle /\ Top.at = "telling" /\ Top.call # "fiber"
  /\ Returns
  /\ UNCHANGED <<manager, session, resends, shown, standing>>

-----------------------------------------------------------------------------
(***************************************************************************)
(* The retry's fiber                                                       *)
(***************************************************************************)

\* The backoff elapses: the fiber claims the coordinator's retry.
Wakes(g) ==
  /\ Idle /\ fibers[g] = "sleeping"
  /\ IF MayRun(g)
     THEN /\ retryPending' = FALSE
          /\ pendingScheduledEvent' = None
          /\ claims' = claims \cup {g}
          /\ coordinatorRetry' = g
          /\ fibers' = [fibers EXCEPT ![g] = "executing"]
          /\ calls' = <<[call |-> "fiber", gen |-> g, at |-> "claiming", fiber |-> None,
                         tell |-> FALSE, out |-> TRUE]>>
     ELSE /\ fibers' = [fibers EXCEPT ![g] = "ended"]
          /\ UNCHANGED <<retryPending, pendingScheduledEvent, claims, coordinatorRetry, calls>>
  /\ UNCHANGED <<session, resends, enabled, retryGeneration, attempted, retryFiber,
                 retryOwnership, shown, standing>>

\* The claim is taken: the manager takes the claim over and announces the retry.
Claimed ==
  /\ ~Idle /\ Top.at = "claiming"
  /\ IF MayRun(Top.gen)
     THEN /\ retryOwnership' = Top.gen
          /\ shown' = "starting"
          /\ Proceeds("starting")
          /\ UNCHANGED <<fibers, claims, coordinatorRetry>>
     ELSE Finishes(Top.gen) /\ UNCHANGED shown
  /\ UNCHANGED <<session, resends, enabled, retryGeneration, attempted, retryFiber,
                 retryPending, pendingScheduledEvent, standing>>

\* As mutated: the stream is resumed whatever the observer did.
StartedUnchecked ==
  /\ ~Idle /\ Top.at = "starting"
  /\ fibers' = [fibers EXCEPT ![Top.gen] = "resending"]
  /\ resends' = [resends EXCEPT ![Top.gen] = "resending"]
  /\ Returns
  /\ UNCHANGED <<session, enabled, retryGeneration, attempted, retryFiber, retryPending,
                 pendingScheduledEvent, retryOwnership, claims, coordinatorRetry, shown,
                 standing>>

\* The observer of "auto-retry-starting" returns: the stream is resumed, unless
\* the retry was retired meanwhile.
Started ==
  /\ ~Idle /\ Top.at = "starting"
  /\ IF MayRun(Top.gen)
     THEN /\ fibers' = [fibers EXCEPT ![Top.gen] = "resending"]
          /\ resends' = [resends EXCEPT ![Top.gen] = IF closing THEN "settled" ELSE "resending"]
          /\ Returns
          /\ UNCHANGED <<retryOwnership, claims, coordinatorRetry>>
     ELSE Finishes(Top.gen) /\ UNCHANGED resends
  /\ UNCHANGED <<session, enabled, retryGeneration, attempted, retryFiber, retryPending,
                 pendingScheduledEvent, shown, standing>>

\* The observer throws, or the resend rejects: the retry is abandoned, unless it
\* was retired; its claim is dropped first.
AbandonsItself(g) ==
  IF MayRun(g)
  THEN /\ retryOwnership' = IF retryOwnership = g THEN None ELSE retryOwnership
       /\ Dispose(g)
       /\ fibers' = [fibers EXCEPT ![g] = "executing"]
       /\ calls' = Append(IF Idle THEN calls ELSE Front(calls),
            [call |-> "fiber", gen |-> g, at |-> "dropping", fiber |-> None, tell |-> TRUE,
             out |-> g \in claims])
  ELSE Finishes(g)

StartingThrows ==
  /\ ~Idle /\ Top.at = "starting"
  /\ AbandonsItself(Top.gen)
  /\ shown' = "nothing"
  /\ UNCHANGED <<session, resends, enabled, retryGeneration, attempted, retryFiber,
                 retryPending, pendingScheduledEvent, standing>>

Rejects(g) ==
  /\ Idle /\ resends[g] = "resending" /\ fibers[g] = "resending"
  /\ resends' = [resends EXCEPT ![g] = "settled"]
  /\ AbandonsItself(g)
  /\ UNCHANGED <<session, enabled, retryGeneration, attempted, retryFiber, retryPending,
                 pendingScheduledEvent, shown, standing>>

Dropped ==
  /\ ~Idle /\ Top.at = "dropping"
  /\ shown' = "abandoned"
  /\ Proceeds("telling")
  /\ UNCHANGED <<manager, session, resends, standing>>

\* The fiber ends after what it told, or when its resend has resolved.
FiberEnds(g) ==
  /\ \/ ~Idle /\ Top.call = "fiber" /\ Top.gen = g /\ Top.at = "telling"
     \/ Idle /\ fibers[g] = "resending" /\ resends[g] = "settled"
  /\ Finishes(g)
  /\ UNCHANGED <<session, resends, enabled, retryGeneration, attempted, retryFiber,
                 retryPending, pendingScheduledEvent, shown, standing>>

Finished ==
  /\ ~Idle /\ Top.at = "finishing"
  /\ Returns
  /\ UNCHANGED <<manager, session, resends, shown, standing>>

-----------------------------------------------------------------------------
(***************************************************************************)
(* The session                                                             *)
(***************************************************************************)

\* The resend settles.  That of a retired retry, or of a closing session, does
\* nothing more.
Settles(g, next) == resends' = [resends EXCEPT ![g] = next]
Counts(g) == ~closing /\ IsCurrent(g)

\* It started a stream, or its failure was handled where it happened, or it had
\* nothing to resend; either way the renderer has left its retry state.
ResendEnds(g) ==
  /\ Idle /\ resends[g] = "resending"
  /\ Settles(g, "settled")
  /\ \/ ~Counts(g) /\ UNCHANGED shown
     \/ Counts(g) /\ shown' \in {"nothing", "abandoned"}
  /\ UNCHANGED <<manager, session, calls, standing>>

\* The goal it would continue has ended.
ResendFindsGoalInactive(g) ==
  /\ Idle /\ resends[g] = "resending" /\ Counts(g)
  /\ Settles(g, "settled")
  /\ Abandons
  /\ UNCHANGED session

\* It was deferred by a busy session, or failed before a stream could: the
\* preference is read before the next retry is scheduled.
ResendFails(g) ==
  /\ Idle /\ resends[g] = "resending" /\ Counts(g)
  /\ Settles(g, "failed")
  /\ UNCHANGED <<manager, session, calls, shown, standing>>

ResendRetries(g) ==
  /\ Idle /\ resends[g] = "failed"
  /\ Settles(g, "settled")
  /\ \/ /\ Counts(g) /\ enabled
        /\ \E call \in {"failure", "refusal"} : Handles(call)
     \/ UNCHANGED <<manager, calls, shown, standing>>
  /\ UNCHANGED session

\* A turn's stream starts, fails, and has its failure handled once the preference
\* is read.  The handler takes the Stops its stream started under and the
\* generation it found.  The session has one stream at a time.
StreamStarts(t) ==
  /\ Idle /\ turns[t].at = "idle"
  /\ \A u \in Turns : turns[u].at # "streaming"
  /\ turns' = [turns EXCEPT ![t] = [at |-> "streaming", stops |-> autoRetryStops, gen |-> 0]]
  /\ UNCHANGED <<manager, resends, calls, autoRetryStops, closing, stopped, shown, standing>>

StreamFails(t) ==
  /\ Idle /\ turns[t].at = "streaming"
  /\ turns' = [turns EXCEPT ![t].at = "failed", ![t].gen = retryGeneration]
  /\ UNCHANGED <<manager, resends, calls, autoRetryStops, closing, stopped, shown, standing>>

\* As mutated: the generation alone tells whether the failure still counts.
FailureIsOfThisGeneration(t) == Counts(turns[t].gen)

FailureIsFresh(t) == Counts(turns[t].gen) /\ turns[t].stops = autoRetryStops

FailureIsHandled(t) ==
  /\ Idle /\ turns[t].at = "failed"
  /\ turns' = [turns EXCEPT ![t].at = "handled"]
  /\ \/ /\ FailureIsFresh(t) /\ enabled
        /\ \E call \in {"failure", "refusal"} : Handles(call)
     \/ UNCHANGED <<manager, calls, shown, standing>>
  /\ UNCHANGED <<resends, autoRetryStops, closing, stopped>>

\* A Stop of the workspace ends its retry loop.
Stop ==
  /\ Idle
  /\ autoRetryStops' = autoRetryStops + 1
  /\ stopped' = stopped \cup {t \in Turns : turns[t].at \in {"streaming", "failed"}}
  /\ Abandons
  /\ UNCHANGED <<turns, closing, resends>>

\* The user interrupts the stream, changes the context, or ends the goal.
Abandon ==
  /\ Idle
  /\ Abandons
  /\ UNCHANGED <<session, resends>>

OptOut ==
  /\ Idle
  /\ Disables
  /\ UNCHANGED <<session, resends>>

\* A stream ends well; a send accepted from the user also opts back in.
Supersede ==
  /\ Idle
  /\ Cancels
  /\ UNCHANGED <<session, resends>>

OptIn ==
  /\ Idle /\ ~closing /\ ~enabled
  /\ enabled' = TRUE
  /\ UNCHANGED <<session, resends, calls, shown, standing, retryGeneration, attempted,
                 retryFiber, retryPending, pendingScheduledEvent, retryOwnership, fibers,
                 claims, coordinatorRetry>>

\* The session begins to shut down.
Close ==
  /\ Idle /\ ~closing
  /\ closing' = TRUE
  /\ Cancels
  /\ UNCHANGED <<turns, autoRetryStops, stopped, resends>>

-----------------------------------------------------------------------------

Continues ==
  \/ Retired \/ Scheduled \/ SchedulingThrows \/ Told
  \/ Claimed \/ Started \/ StartingThrows \/ Dropped \/ Finished

FiberStep(g) == Wakes(g) \/ FiberEnds(g) \/ Rejects(g)

ResendStep(g) ==
  ResendEnds(g) \/ ResendFindsGoalInactive(g) \/ ResendFails(g) \/ ResendRetries(g)

TurnStep(t) == StreamStarts(t) \/ StreamFails(t) \/ FailureIsHandled(t)

Next ==
  \/ CallBack
  \/ Continues
  \/ \E g \in Generations : FiberStep(g) \/ ResendStep(g)
  \/ \E t \in Turns : TurnStep(t)
  \/ Stop \/ Abandon \/ OptOut \/ Supersede \/ OptIn \/ Close

\* A call runs to its end, a backoff elapses, a resend settles and its fiber
\* notices; nobody has to call the manager.
Fairness ==
  /\ WF_vars(Continues)
  /\ \A g \in Generations : WF_vars(FiberStep(g)) /\ WF_vars(ResendStep(g))

Spec == Init /\ [][Next]_vars /\ Fairness

-----------------------------------------------------------------------------
(***************************************************************************)
(* Properties                                                              *)
(***************************************************************************)

Frames ==
  [call : Calls \cup {"fiber"}, gen : Generations,
   at : {"retiring", "scheduling", "telling", "claiming", "starting", "dropping", "finishing"},
   fiber : Generations \cup {None}, tell : BOOLEAN, out : BOOLEAN]

\* Every variable has its type.
TypeOK ==
  /\ enabled \in BOOLEAN /\ attempted \in BOOLEAN
  /\ retryPending \in BOOLEAN /\ closing \in BOOLEAN
  /\ {retryGeneration, retryFiber, pendingScheduledEvent, retryOwnership,
      coordinatorRetry, standing} \subseteq Generations \cup {None}
  /\ fibers \in [Generations -> {"none", "sleeping", "executing", "resending", "ended"}]
  /\ claims \subseteq Generations
  /\ resends \in [Generations -> {"none", "resending", "failed", "settled"}]
  /\ calls \in Seq(Frames) /\ Len(calls) \in 0..MaxDepth
  /\ turns \in [Turns -> [at : {"idle", "streaming", "failed", "handled"},
                          stops : Nat, gen : Generations \cup {None}]]
  /\ autoRetryStops \in Nat
  /\ shown \in {"nothing", "scheduled", "starting", "abandoned"}
  /\ stopped \subseteq Turns

\* Whenever no call is in progress, the manager tells the truth about its retry:
\* a retry is pending exactly when the installed fiber sleeps, it is the one a
\* reconnecting client is told of, and no other fiber sleeps or awaits a resend,
\* whatever the observers and finalizers called back (retryManager.ts:104-139,
\* 156-160, 239-254: the retired call must not overwrite its replacement).
OneRetryAtMost ==
  Idle =>
    /\ \A g \in Generations : fibers[g] # "executing"
    /\ \A g \in Generations : fibers[g] \in {"sleeping", "resending"} => retryFiber = g /\ IsCurrent(g)
    /\ retryPending <=> retryFiber # None /\ fibers[retryFiber] = "sleeping"
    /\ pendingScheduledEvent = IF retryPending THEN retryFiber ELSE None

\* Whenever no call is in progress, the coordinator's retry is claimed exactly by
\* a fiber that awaits its resend: no way a retry ends leaves the session
\* counting as one that is about to retry (retryManager.ts:184-224,
\* agentSession.ts:12207).
ClaimsAreDropped ==
  Idle =>
    /\ claims = {g \in Generations : fibers[g] = "resending"}
    /\ coordinatorRetry = retryOwnership
    /\ claims = {retryOwnership} \ {None}

\* Whenever no call is in progress, a countdown the renderer shows is that of a
\* pending retry, and a retry it shows as starting is one the next abandonment
\* will still report (retryManager.ts:261-279: a silent cancel of a scheduled
\* retry strands the renderer).
ShownRetryIsReal ==
  Idle =>
    /\ shown = "scheduled" => retryPending
    /\ shown = "starting" => attempted

\* A retry is claimed, announced and resent only while nothing has retired its
\* scheduling since it was announced: no cancellation, abandonment, opt-out or
\* later failure, from outside or from within a call of its own.
RetiredStaysRetired ==
  [][/\ \A g \in Generations : resends[g] = "none" /\ resends'[g] # "none" => standing = g
     /\ shown # "starting" /\ shown' = "starting" => standing = Top.gen
     /\ \A g \in Generations : fibers[g] = "none" /\ fibers'[g] # "none" => standing = g]_vars

\* The failure of a turn that a Stop found running schedules no retry, whether the
\* Stop came before the failure or while its handler read the preference
\* (agentSession.ts:2526-2531).
StoppedTurnIsNotRetried ==
  [][\A t \in Turns :
       turns[t].at = "failed" /\ turns'[t].at = "handled" /\ t \in stopped
         => retryGeneration' = retryGeneration]_vars

\* A session that counts as about to retry does not for ever: each pending or
\* claimed retry is resent and settles, or is retired.
RetriesSettle ==
  \A g \in Generations :
    /\ fibers[g] = "sleeping" ~> fibers[g] # "sleeping"
    /\ coordinatorRetry = g ~> coordinatorRetry # g
=============================================================================
