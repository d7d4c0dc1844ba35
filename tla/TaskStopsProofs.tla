--------------------------- MODULE TaskStopsProofs ----------------------------
(***************************************************************************)
(* The stops of one task, for any number of callers, sends, attempts,      *)
(* turns and launches.  StopsInv, the inductive invariant below, is a      *)
(* conjunction of parts that read few variables each; the lemmas say first *)
(* what the operators that many actions share do (rechecking a stop record *)
(* above all), then, part by part, that every step preserves it.           *)
(***************************************************************************)
EXTENDS TaskStops, TLAPS, FiniteSetTheorems, SequenceTheorems

(* The variables and their types, without the bounds.                      *)
Decisions ==
  [attempt : Nat, owned : BOOLEAN, listed : BOOLEAN,
   outcome : {"none", "pending", "nonreport", "published", "indeterminate"},
   epoch : Nat, seen : Statuses]
HandlerStates ==
  {"none", "waiting", "checking", "committing", "publishing", "deferred",
   "woken", "done"}
Records ==
  [releases : Nat, cleanups : Nat, attempt : Nat, owned : BOOLEAN,
   turns : SUBSET Turns, sends : SUBSET Sends, exec : BOOLEAN,
   persisted : BOOLEAN, receipt : {"none", "writing", "written", "failed"}]
Places ==
  {"idle", "closed", "holding", "latched", "unlatched", "persisted", "owing",
   "interrupting", "stopping", "settling", "done", "lost"}
SendRecords ==
  [state : {"idle", "pending", "enqueued", "admitted", "discharged"},
   attempt : Nat, owned : BOOLEAN]
Closures == [attempt : Nat, settled : BOOLEAN]

AttemptTypes ==
  /\ row \in [attempt : Attempts, status : Statuses]
  /\ owned \in Nat
  /\ eligible \subseteq Nat /\ receipts \subseteq Nat /\ reports \subseteq Nat

SessionTypes ==
  /\ sends \in [Sends -> SendRecords]
  /\ turn \in [no : 0 .. MaxTurns, attempt : Nat,
               phase : {"none", "preparing", "streaming", "aborted", "ended"}]
  /\ TurnLive => turn.no # 0
  /\ exec \in BOOLEAN

StreamTypes ==
  /\ decisions \in [Turns -> Decisions]
  /\ handlers \in [Turns -> HandlerStates]
  /\ events \in Seq(Turns)

CascadeTypes ==
  /\ epoch \in Nat
  /\ pc \in [Callers -> Places]
  /\ failed \in [Failures -> Nat]
  /\ interrupts \in [Interrupters -> {"no", "held", "done"}]
  /\ resume \in [attempt : Nat, epoch : Nat, proven : BOOLEAN]

StopTypes ==
  /\ closure \in Closures /\ record \in Records /\ latch \in Nat
  /\ owes \in BOOLEAN /\ drain \in BOOLEAN

LaunchTypes ==
  /\ job \in {"none", "queued", "starting", "launched"}
  /\ launches \in [Launches -> {"none", "launching", "reverting", "checking",
                               "done"}]

Types ==
  AttemptTypes /\ SessionTypes /\ StreamTypes /\ CascadeTypes /\ StopTypes /\ LaunchTypes

(* The task's row names its current attempt; whatever else names one, names *)
(* that or an earlier one.                                                  *)
CurrentInv ==
  /\ owned \in {None, row.attempt} /\ closure.attempt \in {None, row.attempt}
  /\ IF TurnLive THEN turn.attempt = row.attempt ELSE turn.attempt = None
  /\ Stopping => record.attempt = row.attempt
  /\ receipts \cup reports \cup eligible \subseteq 1 .. row.attempt
  /\ \A f \in Failures : /\ failed[f] <= row.attempt
                         /\ pc[f] = "settling" => failed[f] # None
  /\ \A t \in Turns : decisions[t].attempt <= row.attempt
  /\ \A s \in Sends : sends[s].attempt <= row.attempt

(* The latch counts the releases that the stop record owes and the latches *)
(* that interrupts hold.                                                   *)
Held == {i \in Interrupters : interrupts[i] = "held"}

LatchInv ==
  /\ IsFiniteSet(Held) /\ LatchIsCounted
  /\ \A c \in Callers : interrupts[c] = "held" <=> pc[c] = "interrupting"

(* The callers whose cleanup the stop record waits for.                    *)
OwingPlaces == {"holding", "latched", "owing", "interrupting", "stopping", "lost"}
Owing == {c \in Callers : pc[c] \in OwingPlaces}

RecordInv ==
  /\ ~Stopping => record = NoRecord
  /\ IsFiniteSet(Owing) /\ record.cleanups = Cardinality(Owing)
  /\ record.persisted => row.status # "running"

(* A handler that has still to decide has a pending decision.  Those of    *)
(* the current attempt are in the ledger, one at most, none while its      *)
(* stream may still come; and they know whether this process owns it.      *)
Deciding == {"waiting", "checking", "committing", "publishing", "deferred", "woken"}
Pending(t) == decisions[t].outcome = "pending"

StreamInv ==
  /\ OneUndecidedStream
  /\ \A t \in Turns :
       /\ handlers[t] \in Deciding => Pending(t)
       /\ Pending(t) => decisions[t].attempt # None
       /\ Pending(t) /\ decisions[t].attempt = row.attempt => decisions[t].listed
       /\ Pending(t) /\ turn.phase \in {"preparing", "streaming"} =>
            decisions[t].attempt # turn.attempt
       /\ Pending(t) /\ decisions[t].attempt = owned => decisions[t].owned

(* An owned attempt that has reported but may still leave a receipt is     *)
(* being published.                                                        *)
ReportInv ==
  owned \in reports \cap eligible =>
    \E t \in Turns : handlers[t] = "publishing" /\ decisions[t].attempt = owned

(* An attempt with a receipt is closed, and nothing of it is under way.    *)
ClaimInv ==
  \A a \in Attempts : a \in Claimed =>
    /\ a <= row.attempt
    /\ a = row.attempt => closure.attempt = a
    /\ a \notin reports
    /\ turn.attempt # a
    /\ \A t \in Turns : Pending(t) => decisions[t].attempt # a
    /\ \A s \in Sends : sends[s].state \in Undecided => sends[s].attempt # a

StopsInv ==
  /\ Types /\ CurrentInv /\ LatchInv /\ RecordInv /\ CapturesAreComplete
  /\ StreamInv /\ ReportInv /\ ClaimInv /\ NoLaunchIsStranded

-----------------------------------------------------------------------------
(* What the operators that several actions share do.                       *)

\* Deferred handlers may have been woken (notifyAttemptSettlementListeners).
Wakes(hs) ==
  /\ handlers' \in [Turns -> HandlerStates]
  /\ \A t \in Turns : \/ handlers'[t] = hs[t]
                      \/ hs[t] = "deferred" /\ handlers'[t] = "woken"

\* No stream end becomes undecided; those outside T keep their outcome.
Fades(T) ==
  /\ decisions' \in [Turns -> Decisions]
  /\ \A t \in Turns :
       /\ decisions'[t].attempt = decisions[t].attempt
       /\ decisions'[t].owned = decisions[t].owned
       /\ decisions'[t].outcome # decisions[t].outcome => t \in T
       /\ decisions'[t].outcome = "pending" =>
            /\ Pending(t)
            /\ decisions'[t].listed = decisions[t].listed

\* The recheck keeps the record, starts a receipt or releases the record.
Keeps(rec, cl) ==
  record' = rec /\ closure' = cl /\ UNCHANGED <<latch, owes, drain>>

Claims(rec, cl) ==
  /\ RecordSettled(rec) /\ ReceiptDue(rec.attempt)
  /\ record' = [rec EXCEPT !.receipt = "writing"]
  /\ closure' = Closed(cl, rec.attempt)
  /\ UNCHANGED <<latch, owes, drain>>

Releases(rec, cl) ==
  /\ RecordSettled(rec)
  /\ record' = NoRecord
  /\ closure' \in Closures /\ closure'.attempt \in {cl.attempt, rec.attempt}
  /\ DropLatch(rec.releases)

Rechecks(rec, cl) == Keeps(rec, cl) \/ Claims(rec, cl) \/ Releases(rec, cl)

\* A handler that was told of a settlement still decides, or had decided before.
LEMMA NotifyWakes ==
  ASSUME NEW hs \in [Turns -> HandlerStates], handlers' = Notified(hs)
  PROVE  Wakes(hs)
BY DEF Notified, Wakes, HandlerStates

LEMMA KeepWakes ==
  ASSUME NEW hs \in [Turns -> HandlerStates], handlers' = hs
  PROVE  Wakes(hs)
BY DEF Wakes

\* Pruning the ledger forgets resolved decisions only.
LEMMA PruneFades ==
  ASSUME NEW ds \in [Turns -> Decisions], NEW ss, NEW tn
  PROVE  /\ Pruned(ds, ss, tn) \in [Turns -> Decisions]
         /\ \A t \in Turns :
              /\ Pruned(ds, ss, tn)[t].attempt = ds[t].attempt
              /\ Pruned(ds, ss, tn)[t].owned = ds[t].owned
              /\ Pruned(ds, ss, tn)[t].outcome = ds[t].outcome
              /\ ds[t].outcome = "pending" =>
                   Pruned(ds, ss, tn)[t].listed = ds[t].listed
<1> DEFINE read(t) ==
             \/ ds[t].outcome = "pending"
             \/ \E s \in Sends : ss[s].state \in Undecided /\ ss[s].attempt = ds[t].attempt
             \/ /\ ds[t].outcome \in {"published", "indeterminate"}
                /\ tn.no = t /\ tn.phase # "none"
<1>1. Pruned(ds, ss, tn) = [t \in Turns |-> [ds[t] EXCEPT !.listed = @ /\ read(t)]]
  BY DEF Pruned
<1>2. \A t \in Turns : (ds[t].outcome = "pending" => read(t)) /\ read(t) \in BOOLEAN
  OBVIOUS
<1> HIDE DEF read
<1>3. \A t \in Turns : (ds[t].listed /\ read(t)) \in BOOLEAN
  BY <1>2 DEF Decisions
<1>4. \A t \in Turns : [ds[t] EXCEPT !.listed = @ /\ read(t)] \in Decisions
  BY <1>3 DEF Decisions
<1>5. \A t \in Turns : ds[t] \in Decisions /\ (ds[t].listed /\ TRUE) = ds[t].listed
  BY DEF Decisions
<1> QED BY <1>1, <1>2, <1>4, <1>5 DEF Decisions

\* An attempt whose outcome is not pending has no undecided stream end in the ledger.
LEMMA OutcomeIsDecided ==
  ASSUME NEW ds \in [Turns -> Decisions], NEW a, OutcomeOf(ds, a) # "pending"
  PROVE  \A t \in Turns :
           ds[t].listed /\ ds[t].attempt = a => ds[t].outcome # "pending"
BY DEF OutcomeOf

LEMMA ClosedIs ==
  ASSUME NEW cl \in Closures, NEW a \in Nat
  PROVE  Closed(cl, a) \in Closures /\ Closed(cl, a).attempt = a
BY DEF Closed, Closures

LEMMA SettledIs ==
  ASSUME NEW cl \in Closures, NEW a \in Nat
  PROVE  Settled(cl, a) \in Closures /\ Settled(cl, a).attempt \in {cl.attempt, a}
BY DEF Settled, Closures

\* What releasing a settled record does.
LEMMA ReleaseDoes ==
  ASSUME NEW rec \in Records, NEW cl \in Closures, NEW hs \in [Turns -> HandlerStates],
         RecordSettled(rec), ReleaseRecord(rec, cl, hs)
  PROVE  Releases(rec, cl) /\ Wakes(hs)
<1>1. rec.attempt \in Nat
  BY DEF Records
<1>2. closure' \in {Closed(cl, rec.attempt), cl, Settled(cl, rec.attempt)}
  BY DEF ReleaseRecord
<1>3. closure' \in Closures /\ closure'.attempt \in {cl.attempt, rec.attempt}
  <2>1. /\ Closed(cl, rec.attempt) \in Closures
        /\ Closed(cl, rec.attempt).attempt = rec.attempt
    BY <1>1, ClosedIs
  <2>2. /\ Settled(cl, rec.attempt) \in Closures
        /\ Settled(cl, rec.attempt).attempt \in {cl.attempt, rec.attempt}
    BY <1>1, SettledIs
  <2> QED BY <1>2, <2>1, <2>2
<1> QED BY <1>3, NotifyWakes DEF Releases, ReleaseRecord

\* recheckWorkspaceStopRelease, whose failed write closes the attempt first.
LEMMA RecheckDoes ==
  ASSUME NEW rec \in Records, NEW cl \in Closures, NEW hs \in [Turns -> HandlerStates],
         Recheck(rec, cl, hs)
  PROVE  Rechecks(rec, cl) /\ Wakes(hs)
<1> DEFINE due == rec.receipt = "none" /\ rec.owned /\ ReceiptDue(rec.attempt)
           failing == [rec EXCEPT !.receipt = "failed"]
           closed == Closed(cl, rec.attempt)
<1>1. rec.attempt \in Nat
  BY DEF Records
<1>2. CASE record' = rec /\ closure' = cl /\ handlers' = hs /\ UNCHANGED <<latch, owes, drain>>
  BY <1>2, KeepWakes DEF Rechecks, Keeps
<1>3. CASE /\ RecordSettled(rec) /\ due
           /\ record' = [rec EXCEPT !.receipt = "writing"]
           /\ closure' = closed
           /\ UNCHANGED <<latch, owes, drain>>
           /\ handlers' = Notified(hs)
  BY <1>3, NotifyWakes DEF Rechecks, Claims
<1>4. CASE RecordSettled(rec) /\ ReleaseRecord(failing, closed, hs)
  <2>1. failing \in Records /\ RecordSettled(failing)
    BY <1>4 DEF Records, RecordSettled
  <2>2. failing.attempt = rec.attempt /\ failing.releases = rec.releases
    BY DEF Records
  <2>3. closed \in Closures /\ closed.attempt = rec.attempt
    BY <1>1, ClosedIs
  <2> HIDE DEF failing, closed
  <2>4. Releases(failing, closed) /\ Wakes(hs)
    BY <1>4, <2>1, <2>3, ReleaseDoes
  <2>5. Releases(rec, cl)
    BY <1>4, <2>2, <2>3, <2>4 DEF Releases
  <2> QED BY <2>4, <2>5 DEF Rechecks
<1>5. CASE RecordSettled(rec) /\ ReleaseRecord(rec, cl, hs)
  BY <1>5, ReleaseDoes DEF Rechecks
<1>6. \/ record' = rec /\ closure' = cl /\ handlers' = hs /\ UNCHANGED <<latch, owes, drain>>
      \/ /\ RecordSettled(rec) /\ due
         /\ record' = [rec EXCEPT !.receipt = "writing"]
         /\ closure' = closed
         /\ UNCHANGED <<latch, owes, drain>>
         /\ handlers' = Notified(hs)
      \/ RecordSettled(rec) /\ ReleaseRecord(failing, closed, hs)
      \/ RecordSettled(rec) /\ ReleaseRecord(rec, cl, hs)
  BY DEF Recheck
<1> QED BY <1>2, <1>3, <1>4, <1>5, <1>6

\* Resolving a decision, and the eligibility it takes away.
LEMMA ResolveDoes ==
  ASSUME Types, NEW t \in Turns, NEW o \in {"nonreport", "published", "indeterminate"},
         Resolve(t, o)
  PROVE  /\ Fades({t})
         /\ eligible' = IF Pending(t) /\ o # "nonreport" /\ decisions[t].owned
                        THEN eligible \ {decisions[t].attempt} ELSE eligible
<1> DEFINE ds == [decisions EXCEPT ![t].outcome = o]
<1>1. decisions \in [Turns -> Decisions]
  BY DEF Types, StreamTypes
<1>2. CASE Pending(t)
  <2>1. ds \in [Turns -> Decisions]
    BY <1>1 DEF Decisions
  <2>2. \A u \in Turns :
          /\ ds[u].attempt = decisions[u].attempt /\ ds[u].owned = decisions[u].owned
          /\ ds[u].listed = decisions[u].listed
          /\ u # t => ds[u].outcome = decisions[u].outcome
          /\ ds[t].outcome = o
    BY <1>1 DEF Decisions
  <2>3. decisions' = Pruned(ds, sends, turn)
    BY <1>2 DEF Resolve, Pending
  <2> HIDE DEF ds
  <2>4. Fades({t})
    BY <1>1, <1>2, <2>1, <2>2, <2>3, PruneFades DEF Fades, Pending
  <2> QED BY <1>2, <2>4 DEF Resolve, Pending
<1>3. CASE ~Pending(t)
  BY <1>1, <1>3 DEF Resolve, Pending, Fades
<1> QED BY <1>2, <1>3

LEMMA PrunedDecisionsFade ==
  ASSUME Types, NEW ss, NEW tn, decisions' = Pruned(decisions, ss, tn)
  PROVE  Fades({})
BY PruneFades DEF Fades, Types, StreamTypes, Pending

LEMMA SameDecisionsFade ==
  ASSUME Types, UNCHANGED decisions
  PROVE  Fades({})
BY DEF Fades, Types, StreamTypes, Pending

\* The way out of the stream-end handler.
LEMMA FinishDoes ==
  ASSUME Types, NEW t \in Turns, NEW o \in {"nonreport", "published", "indeterminate"},
         Finish(t, o)
  PROVE  /\ Fades({t}) /\ eligible' \subseteq eligible
         /\ Rechecks(record, closure) /\ Wakes([handlers EXCEPT ![t] = "done"])
         /\ events' = Tail(events)
<1>1. [handlers EXCEPT ![t] = "done"] \in [Turns -> HandlerStates]
  BY DEF Types, StreamTypes, HandlerStates
<1>2. record \in Records /\ closure \in Closures
  BY DEF Types, StopTypes
<1> QED BY <1>1, <1>2, ResolveDoes, RecheckDoes DEF Finish

\* The types of what a recheck leaves.
LEMMA RecheckTypes ==
  ASSUME Types, NEW rec \in Records, NEW cl \in Closures, Rechecks(rec, cl)
  PROVE  /\ closure' \in Closures /\ record' \in Records /\ latch' \in Nat
         /\ owes' \in BOOLEAN /\ drain' \in BOOLEAN
<1>1. latch \in Nat /\ owes \in BOOLEAN /\ drain \in BOOLEAN
  BY DEF Types, StopTypes
<1>2. CASE Keeps(rec, cl)
  BY <1>1, <1>2 DEF Keeps
<1>3. CASE Claims(rec, cl)
  <2>1. [rec EXCEPT !.receipt = "writing"] \in Records
    BY DEF Records
  <2>2. Closed(cl, rec.attempt) \in Closures
    BY ClosedIs DEF Records
  <2> QED BY <1>1, <1>3, <2>1, <2>2 DEF Claims
<1>4. CASE Releases(rec, cl)
  <2>1. NoRecord \in Records
    BY DEF NoRecord, Records, None
  <2>2. rec.releases \in Nat
    BY DEF Records
  <2>3. latch' \in Nat
    BY <1>1, <1>4, <2>2 DEF Releases, DropLatch
  <2>4. owes' \in BOOLEAN /\ drain' \in BOOLEAN
    BY <1>1, <1>4, <2>2 DEF Releases, DropLatch
  <2> QED BY <1>4, <2>1, <2>3, <2>4 DEF Releases
<1> QED BY <1>2, <1>3, <1>4 DEF Rechecks

-----------------------------------------------------------------------------
(* Types.                                                                  *)

LEMMA DischargedIs ==
  ASSUME Types, NEW S, sends' = Discharged(S)
  PROVE  /\ sends' \in [Sends -> SendRecords]
         /\ \A s \in Sends :
              /\ sends'[s].attempt = sends[s].attempt
              /\ sends'[s].state = IF s \in S THEN "discharged" ELSE sends[s].state
BY DEF Types, SessionTypes, Discharged, SendRecords

LEMMA AttemptTypesStep ==
  ASSUME StopsInv, Next
  PROVE  AttemptTypes'
<1> USE DEF AttemptTypes, None
<1>1. AttemptTypes /\ Types
  BY DEF StopsInv, Types
<1>2. ASSUME NEW s \in Sends, Admit(s) \/ Enqueue(s) \/ Start(s) \/ Dispose(s)
      PROVE  AttemptTypes'
  BY <1>1, <1>2 DEF Admit, Enqueue, Start, Dispose, attemptVars
<1>3. CASE StreamStarts \/ StreamAborts \/ StreamEnds \/ TurnSettles
  BY <1>1, <1>3 DEF StreamStarts, StreamAborts, StreamEnds, TurnSettles, attemptVars
<1>4. CASE RegisterExecution \/ TurnEndsForExecution
  BY <1>1, <1>4 DEF RegisterExecution, TurnEndsForExecution, SettleExecution, attemptVars
<1>5. ASSUME NEW t \in Turns, HasReport(t) \/ Defer(t) \/ Rerun(t)
      PROVE  AttemptTypes'
  BY <1>1, <1>5 DEF HasReport, Defer, Rerun, attemptVars
<1>6. ASSUME NEW t \in Turns, ReadRow(t) \/ EndsWithoutReport(t)
      PROVE  AttemptTypes'
  <2>1. \A o \in {"nonreport", "indeterminate"} : Finish(t, o) => eligible' \subseteq eligible
    BY <1>1, FinishDoes
  <2> QED BY <1>1, <1>6, <2>1 DEF ReadRow, EndsWithoutReport
<1>7. ASSUME NEW t \in Turns, Commit(t)
      PROVE  AttemptTypes'
  <2>1. \A o \in {"nonreport", "indeterminate"} : Finish(t, o) => eligible' \subseteq eligible
    BY <1>1, FinishDoes
  <2>2. decisions[t].attempt \in Nat
    BY <1>1 DEF Types, StreamTypes, Decisions
  <2> QED BY <1>1, <1>7, <2>1, <2>2 DEF Commit, Statuses
<1>8. ASSUME NEW t \in Turns, Publish(t)
      PROVE  AttemptTypes'
  <2>1. owned' \in {owned, None} /\ UNCHANGED <<row, receipts, reports>>
    BY <1>8 DEF Publish
  <2>2. Resolve(t, "published") \/ Resolve(t, "indeterminate")
    BY <1>8 DEF Publish
  <2>3. eligible' \subseteq eligible
    BY <1>1, <2>2, ResolveDoes
  <2> QED BY <1>1, <2>1, <2>3
<1>9. ASSUME NEW c \in Callers, Latch(c) \/ MarkFails(c) \/ BeginCleanup(c) \/ StopStream(c)
      PROVE  AttemptTypes'
  BY <1>1, <1>9 DEF Latch, MarkFails, BeginCleanup, StopStream, attemptVars
<1>10. ASSUME NEW c \in Callers, Mark(c)
       PROVE  AttemptTypes'
  BY <1>1, <1>10 DEF Mark, Statuses
<1>11. ASSUME NEW i \in Interrupters, OwnerInterrupts \/ InterruptExecution(i) \/ EndInterrupt(i)
       PROVE  AttemptTypes'
  BY <1>1, <1>11 DEF OwnerInterrupts, InterruptExecution, EndInterrupt, attemptVars
<1>12. CASE FinishReceipt
  BY <1>1, <1>12 DEF FinishReceipt, Types, StopTypes, Records
<1>13. ASSUME NEW f \in Failures, CloseForFailure(f) \/ LatchFailure(f) \/ SettleFailure(f)
       PROVE  AttemptTypes'
  BY <1>1, <1>13 DEF CloseForFailure, LatchFailure, SettleFailure, attemptVars
<1>14. ASSUME NEW f \in Failures, PersistFailure(f) \/ FinishFailure(f)
       PROVE  AttemptTypes'
  BY <1>1, <1>14 DEF PersistFailure, FinishFailure, Types, CascadeTypes, Statuses
<1>15. CASE BeginResume \/ RefuseResume
  BY <1>1, <1>15 DEF BeginResume, RefuseResume, attemptVars
<1>16. CASE CommitResume
  <2>1. row.attempt + 1 \in Attempts
    BY <1>1, <1>16, BoundsAreNatural DEF CommitResume, Attempts
  <2>2. row' \in [attempt : Attempts, status : Statuses] /\ row'.attempt = row.attempt + 1
    BY <1>1, <1>16, <2>1 DEF CommitResume, Statuses
  <2>3. owned' \in Nat
    BY <1>16, <2>1, <2>2 DEF CommitResume, Attempts
  <2> QED BY <1>1, <1>16, <2>2, <2>3 DEF CommitResume
<1>17. CASE Drain \/ \E l \in Launches : Launch(l) \/ Revert(l) \/ HandOver(l)
  BY <1>1, <1>17 DEF Drain, Launch, Revert, HandOver, launchFrame, attemptVars
<1> QED
  BY <1>2, <1>3, <1>4, <1>5, <1>6, <1>7, <1>8, <1>9, <1>10, <1>11, <1>12, <1>13, <1>14,
     <1>15, <1>16, <1>17 DEF Next, Interrupters

LEMMA SessionTypesStep ==
  ASSUME StopsInv, Next
  PROVE  SessionTypes'
<1> USE DEF SessionTypes, TurnLive, None
<1>1. SessionTypes /\ Types /\ CurrentInv
  BY DEF StopsInv, Types
<1>2. ASSUME NEW s \in Sends, Admit(s) \/ Enqueue(s)
      PROVE  SessionTypes'
  <2>1. row.attempt \in Nat /\ (owned = row.attempt) \in BOOLEAN
    BY <1>1 DEF Types, AttemptTypes, Attempts
  <2>2. CASE Admit(s)
    BY <1>1, <2>1, <2>2 DEF Admit, SendRecords
  <2>3. CASE Enqueue(s)
    BY <1>1, <2>3 DEF Enqueue, SendRecords
  <2> QED BY <1>2, <2>2, <2>3
<1>3. ASSUME NEW s \in Sends, Start(s)
      PROVE  SessionTypes'
  BY <1>1, <1>3, BoundsAreNatural DEF Start, SendRecords
<1>4. ASSUME NEW s \in Sends, Dispose(s)
      PROVE  SessionTypes'
  BY <1>1, <1>4, DischargedIs DEF Dispose
<1>5. CASE StreamStarts \/ StreamAborts \/ StreamEnds
  BY <1>1, <1>5 DEF StreamStarts, StreamAborts, StreamEnds
<1>6. CASE TurnSettles
  <2>1. sends' \in [Sends -> SendRecords]
    BY <1>1, <1>6, DischargedIs DEF TurnSettles
  <2> QED BY <1>1, <1>6, <2>1 DEF TurnSettles
<1>7. CASE RegisterExecution \/ TurnEndsForExecution
  BY <1>1, <1>7 DEF RegisterExecution, TurnEndsForExecution, SettleExecution
<1>8. ASSUME NEW t \in Turns, \/ ReadRow(t) \/ EndsWithoutReport(t) \/ HasReport(t) \/ Defer(t)
                              \/ Rerun(t) \/ Commit(t) \/ Publish(t)
      PROVE  SessionTypes'
  BY <1>1, <1>8 DEF ReadRow, EndsWithoutReport, HasReport, Defer, Rerun, Commit, Publish,
     handlerFrame, sessionVars
<1>9. ASSUME NEW c \in Callers, Latch(c) \/ Mark(c) \/ MarkFails(c)
      PROVE  SessionTypes'
  BY <1>1, <1>9 DEF Latch, Mark, MarkFails, sessionVars
<1>10. ASSUME NEW c \in Callers, BeginCleanup(c)
       PROVE  SessionTypes'
  BY <1>1, <1>10, DischargedIs DEF BeginCleanup
<1>11. ASSUME NEW c \in Callers, StopStream(c)
       PROVE  SessionTypes'
  BY <1>1, <1>11 DEF StopStream
<1>12. ASSUME NEW i \in Interrupters, OwnerInterrupts \/ InterruptExecution(i) \/ EndInterrupt(i)
       PROVE  SessionTypes'
  BY <1>1, <1>12 DEF OwnerInterrupts, InterruptExecution, EndInterrupt, sessionVars
<1>13. CASE FinishReceipt
  BY <1>1, <1>13 DEF FinishReceipt, sessionVars
<1>14. ASSUME NEW f \in Failures, \/ CloseForFailure(f) \/ LatchFailure(f) \/ PersistFailure(f)
                                  \/ FinishFailure(f)
       PROVE  SessionTypes'
  BY <1>1, <1>14 DEF CloseForFailure, LatchFailure, PersistFailure, FinishFailure, sessionVars
<1>15. ASSUME NEW f \in Failures, SettleFailure(f)
       PROVE  SessionTypes'
  BY <1>1, <1>15, DischargedIs DEF SettleFailure
<1>16. CASE BeginResume \/ RefuseResume \/ CommitResume
  BY <1>1, <1>16 DEF BeginResume, RefuseResume, CommitResume, sessionVars
<1>17. CASE Drain \/ \E l \in Launches : Launch(l) \/ Revert(l) \/ HandOver(l)
  BY <1>1, <1>17 DEF Drain, Launch, Revert, HandOver, launchFrame, sessionVars
<1> QED
  BY <1>2, <1>3, <1>4, <1>5, <1>6, <1>7, <1>8, <1>9, <1>10, <1>11, <1>12, <1>13, <1>14,
     <1>15, <1>16, <1>17 DEF Next, Interrupters

LEMMA CascadeTypesStep ==
  ASSUME StopsInv, Next
  PROVE  CascadeTypes'
<1> USE DEF CascadeTypes, None
<1>1. CascadeTypes /\ Types
  BY DEF StopsInv, Types
<1>2. ASSUME NEW s \in Sends, Admit(s) \/ Enqueue(s) \/ Start(s) \/ Dispose(s)
      PROVE  CascadeTypes'
  BY <1>1, <1>2 DEF Admit, Enqueue, Start, Dispose, cascadeVars
<1>3. CASE StreamStarts \/ StreamAborts \/ StreamEnds \/ TurnSettles
  BY <1>1, <1>3 DEF StreamStarts, StreamAborts, StreamEnds, TurnSettles, cascadeVars
<1>4. CASE RegisterExecution \/ TurnEndsForExecution
  BY <1>1, <1>4 DEF RegisterExecution, TurnEndsForExecution, SettleExecution, cascadeVars
<1>5. ASSUME NEW t \in Turns, \/ ReadRow(t) \/ EndsWithoutReport(t) \/ HasReport(t) \/ Defer(t)
                              \/ Rerun(t) \/ Commit(t) \/ Publish(t)
      PROVE  CascadeTypes'
  BY <1>1, <1>5 DEF ReadRow, EndsWithoutReport, HasReport, Defer, Rerun, Commit, Publish,
     handlerFrame, cascadeVars
<1>6. ASSUME NEW c \in Callers, Latch(c) \/ Mark(c) \/ MarkFails(c) \/ StopStream(c)
      PROVE  CascadeTypes'
  BY <1>1, <1>6 DEF Latch, Mark, MarkFails, StopStream, BeginStop, Places
<1>7. ASSUME NEW c \in Callers, BeginCleanup(c)
      PROVE  CascadeTypes'
  BY <1>1, <1>7 DEF BeginCleanup, Places
<1>8. CASE OwnerInterrupts
  BY <1>1, <1>8 DEF OwnerInterrupts, cascadeVars
<1>9. ASSUME NEW i \in Interrupters, InterruptExecution(i) \/ EndInterrupt(i)
      PROVE  CascadeTypes'
  BY <1>1, <1>9 DEF InterruptExecution, EndInterrupt, cascadeVars, Places
<1>10. CASE FinishReceipt
  BY <1>1, <1>10 DEF FinishReceipt, cascadeVars
<1>11. ASSUME NEW f \in Failures, \/ CloseForFailure(f) \/ LatchFailure(f) \/ PersistFailure(f)
                                  \/ SettleFailure(f) \/ FinishFailure(f)
       PROVE  CascadeTypes'
  <2>1. f \in Callers /\ owned \in Nat
    BY <1>1 DEF Callers, Types, AttemptTypes
  <2> QED BY <1>1, <1>11, <2>1 DEF CloseForFailure, LatchFailure, PersistFailure, SettleFailure,
             FinishFailure, BeginStop, Places
<1>12. CASE BeginResume \/ RefuseResume \/ CommitResume
  <2>1. row.attempt \in Nat
    BY <1>1 DEF Types, AttemptTypes, Attempts
  <2>2. [attempt |-> None, epoch |-> 0, proven |-> FALSE]
          \in [attempt : Nat, epoch : Nat, proven : BOOLEAN]
    OBVIOUS
  <2>3. CASE BeginResume
    <3> DEFINE proven == \/ /\ owned = row.attempt /\ owned \in eligible
                            /\ closure = [attempt |-> owned, settled |-> TRUE]
                         \/ /\ row.attempt \in receipts
                            /\ owned = row.attempt => owned \in eligible
    <3>1. resume' = [attempt |-> row.attempt, epoch |-> epoch, proven |-> proven]
      BY <2>3 DEF BeginResume
    <3>2. proven \in BOOLEAN
      OBVIOUS
    <3> HIDE DEF proven
    <3>3. resume' \in [attempt : Nat, epoch : Nat, proven : BOOLEAN]
      BY <1>1, <2>1, <3>1, <3>2
    <3> QED BY <1>1, <2>3, <3>3 DEF BeginResume, cascadeVars
  <2>4. CASE RefuseResume \/ CommitResume
    BY <1>1, <2>2, <2>4 DEF RefuseResume, CommitResume, cascadeVars, NoResume
  <2> QED BY <1>12, <2>3, <2>4
<1>13. CASE Drain \/ \E l \in Launches : Launch(l) \/ Revert(l) \/ HandOver(l)
  BY <1>1, <1>13 DEF Drain, Launch, Revert, HandOver, launchFrame, cascadeVars
<1> QED
  BY <1>2, <1>3, <1>4, <1>5, <1>6, <1>7, <1>8, <1>9, <1>10, <1>11, <1>12, <1>13
     DEF Next, Interrupters

\* Only its own steps touch the queued task.
LEMMA LaunchSteps ==
  ASSUME Next
  PROVE  \/ UNCHANGED launchVars
         \/ Drain \/ \E l \in Launches : Launch(l) \/ Revert(l) \/ HandOver(l)
<1>1. ASSUME NEW s \in Sends, Admit(s) \/ Enqueue(s) \/ Start(s) \/ Dispose(s)
      PROVE  UNCHANGED launchVars
  BY <1>1 DEF Admit, Enqueue, Start, Dispose
<1>2. CASE StreamStarts \/ StreamAborts \/ StreamEnds \/ TurnSettles
  BY <1>2 DEF StreamStarts, StreamAborts, StreamEnds, TurnSettles
<1>3. CASE RegisterExecution \/ TurnEndsForExecution
  BY <1>3 DEF RegisterExecution, TurnEndsForExecution, SettleExecution
<1>4. ASSUME NEW t \in Turns, \/ ReadRow(t) \/ EndsWithoutReport(t) \/ HasReport(t) \/ Defer(t)
                              \/ Rerun(t) \/ Commit(t) \/ Publish(t)
      PROVE  UNCHANGED launchVars
  BY <1>4 DEF ReadRow, EndsWithoutReport, HasReport, Defer, Rerun, Commit, Publish,
     handlerFrame
<1>5. ASSUME NEW c \in Callers, \/ Latch(c) \/ Mark(c) \/ MarkFails(c) \/ BeginCleanup(c)
                                \/ StopStream(c)
      PROVE  UNCHANGED launchVars
  BY <1>5 DEF Latch, Mark, MarkFails, BeginCleanup, StopStream
<1>6. ASSUME NEW i \in Interrupters, OwnerInterrupts \/ InterruptExecution(i) \/ EndInterrupt(i)
      PROVE  UNCHANGED launchVars
  BY <1>6 DEF OwnerInterrupts, InterruptExecution, EndInterrupt
<1>7. CASE FinishReceipt
  BY <1>7 DEF FinishReceipt
<1>8. ASSUME NEW f \in Failures, \/ CloseForFailure(f) \/ LatchFailure(f) \/ PersistFailure(f)
                                 \/ SettleFailure(f) \/ FinishFailure(f)
      PROVE  UNCHANGED launchVars
  BY <1>8 DEF CloseForFailure, LatchFailure, PersistFailure, SettleFailure,
     FinishFailure
<1>9. CASE BeginResume \/ RefuseResume \/ CommitResume
  BY <1>9 DEF BeginResume, RefuseResume, CommitResume
<1> QED
  BY <1>1, <1>2, <1>3, <1>4, <1>5, <1>6, <1>7, <1>8, <1>9 DEF Next, Interrupters

LEMMA LaunchTypesStep ==
  ASSUME StopsInv, Next
  PROVE  LaunchTypes'
<1>1. LaunchTypes
  BY DEF StopsInv, Types
<1>2. CASE UNCHANGED launchVars
  BY <1>1, <1>2 DEF LaunchTypes, launchVars
<1>3. CASE Drain \/ \E l \in Launches : Launch(l) \/ Revert(l) \/ HandOver(l)
  BY <1>1, <1>3 DEF LaunchTypes, Drain, Launch, Revert, HandOver, launchVars
<1> QED BY <1>2, <1>3, LaunchSteps

\* The record as the rechecking steps leave it to the recheck.
LEMMA RecordUpdates ==
  ASSUME StopsInv
  PROVE  /\ \A S : [record EXCEPT !.sends = @ \ S] \in Records
         /\ \A S : [record EXCEPT !.turns = @ \ S] \in Records
         /\ [record EXCEPT !.exec = FALSE] \in Records
         /\ \A r \in {"written", "failed"} : [record EXCEPT !.receipt = r] \in Records
         /\ \A c \in Callers : pc[c] \in OwingPlaces =>
              /\ record.cleanups - 1 \in Nat
              /\ [record EXCEPT !.cleanups = @ - 1] \in Records
<1>1. record \in Records
  BY DEF StopsInv, Types, StopTypes
<1>2. \A c \in Callers : pc[c] \in OwingPlaces => record.cleanups - 1 \in Nat
  <2> SUFFICES ASSUME NEW c \in Callers, pc[c] \in OwingPlaces
               PROVE  record.cleanups - 1 \in Nat
    OBVIOUS
  <2>1. c \in Owing /\ IsFiniteSet(Owing) /\ record.cleanups = Cardinality(Owing)
    BY DEF StopsInv, RecordInv, Owing
  <2>2. Cardinality(Owing) # 0 /\ Cardinality(Owing) \in Nat
    BY <2>1, FS_EmptySet, FS_CardinalityType
  <2> QED BY <2>1, <2>2
<1> QED BY <1>1, <1>2 DEF Records

-----------------------------------------------------------------------------
(* Stream ends: but for a turn that starts, a stream that ends and a task  *)
(* that takes a new attempt, every step only decides what was undecided.   *)

Streams == {"preparing", "streaming"}

StreamsGoOn ==
  /\ row'.attempt = row.attempt /\ owned' \in {owned, None} /\ eligible' \subseteq eligible
  /\ turn'.phase \in Streams => turn.phase \in Streams /\ turn'.attempt = turn.attempt
  /\ handlers' \in [Turns -> HandlerStates]
  /\ \A t \in Turns : handlers[t] = "publishing" => handlers'[t] = "publishing" \/ Publish(t)
  /\ \E T \in SUBSET Turns :
       /\ Fades(T)
       /\ \A t \in Turns : handlers'[t] \in Deciding => handlers[t] \in Deciding /\ t \notin T

LEMMA QuietStreams ==
  ASSUME Fades({}), Wakes(handlers), row'.attempt = row.attempt, owned' \in {owned, None},
         eligible' \subseteq eligible,
         turn'.phase \in Streams => turn.phase \in Streams /\ turn'.attempt = turn.attempt
  PROVE  StreamsGoOn
BY DEF StreamsGoOn, Wakes, Deciding

LEMMA DecidedStreams ==
  ASSUME Types, NEW t \in Turns, Fades({t}), Wakes([handlers EXCEPT ![t] = "done"]),
         handlers[t] # "publishing" \/ Publish(t),
         row' = row, owned' \in {owned, None}, turn' = turn, eligible' \subseteq eligible
  PROVE  StreamsGoOn
<1>1. \A u \in Turns : handlers'[u] \in Deciding => handlers[u] \in Deciding /\ u \notin {t}
  BY DEF Types, StreamTypes, Wakes, Deciding
<1>2. \A u \in Turns : handlers[u] = "publishing" => handlers'[u] = "publishing" \/ Publish(u)
  BY DEF Types, StreamTypes, Wakes
<1> QED BY <1>1, <1>2 DEF StreamsGoOn, Wakes

LEMMA HandlersMove ==
  ASSUME Types, NEW t \in Turns, NEW h \in Deciding,
         handlers[t] \in Deciding, handlers[t] # "publishing",
         handlers' = [handlers EXCEPT ![t] = h], Fades({}),
         row'.attempt = row.attempt, owned' = owned, turn' = turn, eligible' = eligible
  PROVE  StreamsGoOn
<1>1. handlers' \in [Turns -> HandlerStates]
  BY DEF Types, StreamTypes, Deciding, HandlerStates
<1>2. \A u \in Turns : handlers'[u] \in Deciding => handlers[u] \in Deciding /\ u \notin {}
  BY DEF Types, StreamTypes
<1>3. \A u \in Turns : handlers[u] = "publishing" => handlers'[u] = "publishing"
  BY DEF Types, StreamTypes
<1> QED BY <1>1, <1>2, <1>3 DEF StreamsGoOn

LEMMA StreamSteps ==
  ASSUME StopsInv, Next
  PROVE  \/ StreamsGoOn
         \/ \E s \in Sends : Start(s)
         \/ StreamEnds \/ CommitResume
<1> SUFFICES ASSUME ~StreamEnds, ~CommitResume
             PROVE  StreamsGoOn \/ \E s \in Sends : Start(s)
  OBVIOUS
<1>1. /\ Types /\ handlers \in [Turns -> HandlerStates]
      /\ closure \in Closures /\ record \in Records
  BY DEF StopsInv, Types, StreamTypes, StopTypes
<1> USE DEF Streams
<1>2. ASSUME NEW s \in Sends, Admit(s) \/ Enqueue(s)
      PROVE  StreamsGoOn
  BY <1>1, <1>2, QuietStreams, SameDecisionsFade, KeepWakes
     DEF Admit, Enqueue, attemptVars, streamVars, releaseVars
<1>3. ASSUME NEW s \in Sends, Dispose(s)
      PROVE  StreamsGoOn
  <2>1. Fades({})
    BY <1>1, <1>3, PrunedDecisionsFade DEF Dispose
  <2>2. Wakes(handlers)
    BY <1>1, <1>3, RecordUpdates, RecheckDoes, KeepWakes DEF Dispose, releaseVars
  <2> QED BY <1>3, <2>1, <2>2, QuietStreams DEF Dispose, attemptVars
<1>4. CASE StreamStarts \/ StreamAborts
  BY <1>1, <1>4, QuietStreams, SameDecisionsFade, KeepWakes
     DEF StreamStarts, StreamAborts, attemptVars, streamVars, releaseVars, Types, SessionTypes
<1>5. CASE TurnSettles
  <2>1. Fades({})
    BY <1>1, <1>5, PrunedDecisionsFade DEF TurnSettles
  <2>2. Wakes(handlers)
    BY <1>1, <1>5, RecordUpdates, RecheckDoes, KeepWakes DEF TurnSettles, releaseVars
  <2>3. turn'.phase = "none"
    BY <1>1, <1>5 DEF TurnSettles, Types, SessionTypes
  <2> QED BY <1>5, <2>1, <2>2, <2>3, QuietStreams DEF TurnSettles, attemptVars
<1>6. CASE RegisterExecution
  BY <1>1, <1>6, QuietStreams, SameDecisionsFade, KeepWakes
     DEF RegisterExecution, attemptVars, streamVars, releaseVars
<1>7. ASSUME NEW i \in Interrupters, TurnEndsForExecution \/ InterruptExecution(i)
      PROVE  StreamsGoOn
  <2>1. Fades({}) /\ row' = row /\ owned' = owned /\ turn' = turn /\ eligible' = eligible
    BY <1>1, <1>7, SameDecisionsFade
       DEF TurnEndsForExecution, SettleExecution, InterruptExecution, streamVars, attemptVars
  <2>2. Wakes(handlers)
    BY <1>1, <1>7, RecordUpdates, RecheckDoes
       DEF TurnEndsForExecution, SettleExecution, InterruptExecution
  <2> QED BY <2>1, <2>2, QuietStreams
<1>8. ASSUME NEW t \in Turns, NEW o \in {"nonreport", "published", "indeterminate"},
             handlers[t] # "publishing", Finish(t, o), row' = row, owned' = owned, turn' = turn
      PROVE  StreamsGoOn
  BY <1>1, <1>8, FinishDoes, DecidedStreams
<1>9. ASSUME NEW t \in Turns, ReadRow(t)
      PROVE  StreamsGoOn
  <2>1. row' = row /\ owned' = owned /\ turn' = turn /\ handlers[t] # "publishing"
    BY <1>9 DEF ReadRow, handlerFrame, sessionVars
  <2>2. CASE Finish(t, "nonreport")
    BY <1>8, <2>1, <2>2
  <2>3. CASE /\ decisions' = [decisions EXCEPT ![t].seen = row.status]
             /\ handlers' = [handlers EXCEPT ![t] = "checking"] /\ UNCHANGED eligible
    <3>1. decisions \in [Turns -> Decisions] /\ row.status \in Statuses
      BY <1>1 DEF Types, StreamTypes, AttemptTypes
    <3>2. Fades({})
      BY <2>3, <3>1 DEF Fades, Decisions, Pending
    <3>3. handlers[t] \in Deciding /\ "checking" \in Deciding
      BY <1>9 DEF ReadRow, Deciding
    <3> QED BY <1>1, <2>1, <2>3, <3>2, <3>3, HandlersMove
  <2> QED BY <1>9, <2>2, <2>3 DEF ReadRow
<1>10. ASSUME NEW t \in Turns, EndsWithoutReport(t)
       PROVE  StreamsGoOn
  <2>1. row' = row /\ owned' = owned /\ turn' = turn /\ handlers[t] # "publishing"
    BY <1>10 DEF EndsWithoutReport, handlerFrame, sessionVars
  <2>2. Finish(t, "nonreport") \/ Finish(t, "indeterminate")
    BY <1>10 DEF EndsWithoutReport
  <2> QED BY <1>8, <2>1, <2>2
<1>11. ASSUME NEW t \in Turns, HasReport(t)
       PROVE  StreamsGoOn
  <2>1. handlers[t] = "checking" /\ handlers[t] \in Deciding /\ "committing" \in Deciding
    BY <1>11 DEF HasReport, Deciding
  <2> QED BY <1>1, <1>11, <2>1, SameDecisionsFade, HandlersMove
          DEF HasReport, handlerFrame, sessionVars, attemptVars, streamVars
<1>12. ASSUME NEW t \in Turns, Defer(t)
       PROVE  StreamsGoOn
  <2>1. [handlers EXCEPT ![t] = "deferred"] \in [Turns -> HandlerStates]
    BY <1>1 DEF HandlerStates
  <2>2. Wakes([handlers EXCEPT ![t] = "deferred"])
    BY <1>12, <2>1, NotifyWakes DEF Defer
  <2>3. \A u \in Turns : handlers'[u] \in Deciding => handlers[u] \in Deciding /\ u \notin {}
    BY <1>1, <1>12, <2>2 DEF Wakes, Deciding, Defer
  <2>4. Fades({}) /\ row' = row /\ owned' = owned /\ turn' = turn /\ eligible' = eligible
    BY <1>1, <1>12, SameDecisionsFade DEF Defer, handlerFrame, sessionVars, attemptVars
  <2>5. \A u \in Turns : handlers[u] = "publishing" => handlers'[u] = "publishing"
    BY <1>1, <1>12, <2>2 DEF Wakes, Defer
  <2> QED BY <2>2, <2>3, <2>4, <2>5 DEF StreamsGoOn, Wakes
<1>13. ASSUME NEW t \in Turns, Rerun(t)
       PROVE  StreamsGoOn
  <2>1. handlers[t] \in {"deferred", "woken"} /\ handlers[t] \in Deciding
          /\ "waiting" \in Deciding
    BY <1>13 DEF Rerun, Deciding
  <2> QED BY <1>1, <1>13, <2>1, SameDecisionsFade, HandlersMove
          DEF Rerun, handlerFrame, sessionVars, attemptVars
<1>14. ASSUME NEW t \in Turns, Commit(t)
       PROVE  StreamsGoOn
  <2>1. owned' = owned /\ turn' = turn /\ handlers[t] # "publishing"
    BY <1>14 DEF Commit, handlerFrame, sessionVars
  <2>2. CASE row' = row /\ (Finish(t, "nonreport") \/ Finish(t, "indeterminate"))
    BY <1>8, <2>1, <2>2
  <2>3. CASE /\ row' = [row EXCEPT !.status = "reported"] /\ UNCHANGED streamVars
             /\ handlers' = [handlers EXCEPT ![t] = "publishing"] /\ UNCHANGED eligible
    <3>1. handlers[t] \in Deciding /\ "publishing" \in Deciding
      BY <1>14 DEF Commit, Deciding
    <3>2. row'.attempt = row.attempt /\ Fades({})
      BY <1>1, <2>3, SameDecisionsFade DEF streamVars, Types, AttemptTypes
    <3> QED BY <1>1, <2>1, <2>3, <3>1, <3>2, HandlersMove
  <2> QED BY <1>14, <2>2, <2>3 DEF Commit
<1>15. ASSUME NEW t \in Turns, Publish(t)
       PROVE  StreamsGoOn
  <2> DEFINE hs == [handlers EXCEPT ![t] = "done"]
             none == [attempt |-> None, settled |-> FALSE]
  <2>1. row' = row /\ turn' = turn /\ owned' \in {owned, None}
    BY <1>15 DEF Publish, handlerFrame, sessionVars
  <2>2. Resolve(t, "published") \/ Resolve(t, "indeterminate")
    BY <1>15 DEF Publish
  <2>3. Fades({t}) /\ eligible' \subseteq eligible
    BY <1>1, <2>2, ResolveDoes
  <2>4. hs \in [Turns -> HandlerStates] /\ none \in Closures
    BY <1>1 DEF HandlerStates, Closures, None
  <2>5. Recheck(record, none, hs) \/ Recheck(record, closure, hs)
    BY <1>15 DEF Publish
  <2> HIDE DEF hs, none
  <2>6. Wakes(hs)
    BY <1>1, <2>4, <2>5, RecheckDoes
  <2> QED BY <1>1, <1>15, <2>1, <2>3, <2>6, DecidedStreams DEF hs
<1>16. ASSUME NEW c \in Callers, Latch(c) \/ MarkFails(c)
       PROVE  StreamsGoOn
  BY <1>1, <1>16, QuietStreams, SameDecisionsFade, KeepWakes
     DEF Latch, MarkFails, sessionVars, attemptVars, streamVars, releaseVars
<1>17. ASSUME NEW c \in Callers, Mark(c)
       PROVE  StreamsGoOn
  <2>1. row'.attempt = row.attempt
    BY <1>1, <1>17 DEF Mark, Types, AttemptTypes
  <2> QED BY <1>1, <1>17, <2>1, QuietStreams, SameDecisionsFade, NotifyWakes
          DEF Mark, sessionVars, streamVars
<1>18. ASSUME NEW c \in Callers, BeginCleanup(c)
       PROVE  StreamsGoOn
  BY <1>1, <1>18, QuietStreams, PrunedDecisionsFade, KeepWakes DEF BeginCleanup, attemptVars
<1>19. ASSUME NEW c \in Callers, StopStream(c)
       PROVE  StreamsGoOn
  <2>1. Fades({})
    BY <1>1, <1>19, SameDecisionsFade DEF StopStream, streamVars
  <2>2. pc[c] \in OwingPlaces
    BY <1>19 DEF StopStream, OwingPlaces
  <2>3. Wakes(handlers)
    BY <1>1, <1>19, <2>2, RecordUpdates, RecheckDoes DEF StopStream
  <2>4. turn'.phase \in Streams => turn' = turn
    BY <1>1, <1>19 DEF StopStream, Types, SessionTypes
  <2> QED BY <1>19, <2>1, <2>3, <2>4, QuietStreams DEF StopStream, attemptVars
<1>20. ASSUME NEW i \in Interrupters, OwnerInterrupts \/ EndInterrupt(i)
       PROVE  StreamsGoOn
  <2>1. Wakes(handlers)
    BY <1>1, <1>20, KeepWakes, NotifyWakes DEF OwnerInterrupts, EndInterrupt
  <2> QED BY <1>1, <1>20, <2>1, QuietStreams, SameDecisionsFade
          DEF OwnerInterrupts, EndInterrupt, sessionVars, attemptVars, streamVars
<1>21. CASE FinishReceipt
  <2>1. PICK r \in {"written", "failed"} :
          Recheck([record EXCEPT !.receipt = r], closure, handlers)
    BY <1>21 DEF FinishReceipt
  <2>2. Wakes(handlers)
    BY <1>1, <2>1, RecordUpdates, RecheckDoes
  <2> QED BY <1>1, <1>21, <2>2, QuietStreams, SameDecisionsFade
          DEF FinishReceipt, sessionVars, streamVars
<1>22. ASSUME NEW f \in Failures, CloseForFailure(f) \/ LatchFailure(f)
       PROVE  StreamsGoOn
  <2>1. Wakes(handlers)
    BY <1>1, <1>22, KeepWakes, NotifyWakes DEF CloseForFailure, LatchFailure
  <2> QED BY <1>1, <1>22, <2>1, QuietStreams, SameDecisionsFade
          DEF CloseForFailure, LatchFailure, sessionVars, attemptVars, streamVars
<1>23. ASSUME NEW f \in Failures, PersistFailure(f)
       PROVE  StreamsGoOn
  <2>1. row'.attempt = row.attempt
    BY <1>1, <1>23 DEF PersistFailure, Types, AttemptTypes
  <2> QED BY <1>1, <1>23, <2>1, QuietStreams, SameDecisionsFade, NotifyWakes
          DEF PersistFailure, sessionVars, streamVars
<1>24. ASSUME NEW f \in Failures, SettleFailure(f)
       PROVE  StreamsGoOn
  <2>1. Fades({})
    BY <1>1, <1>24, PrunedDecisionsFade DEF SettleFailure
  <2>2. Wakes(handlers)
    BY <1>1, <1>24, RecordUpdates, RecheckDoes, NotifyWakes DEF SettleFailure
  <2> QED BY <1>24, <2>1, <2>2, QuietStreams DEF SettleFailure, attemptVars
<1>25. ASSUME NEW f \in Failures, FinishFailure(f)
       PROVE  StreamsGoOn
  <2>1. Wakes(handlers)
    BY <1>1, <1>25, KeepWakes, NotifyWakes DEF FinishFailure
  <2> QED BY <1>1, <1>25, <2>1, QuietStreams, SameDecisionsFade
          DEF FinishFailure, sessionVars, streamVars
<1>26. CASE BeginResume \/ RefuseResume
  BY <1>1, <1>26, QuietStreams, SameDecisionsFade, KeepWakes
     DEF BeginResume, RefuseResume, sessionVars, attemptVars, streamVars, releaseVars
<1>27. CASE Drain \/ \E l \in Launches : Launch(l) \/ Revert(l) \/ HandOver(l)
  BY <1>1, <1>27, QuietStreams, SameDecisionsFade, KeepWakes
     DEF Drain, Launch, Revert, HandOver, launchFrame, sessionVars, attemptVars, streamVars
<1> QED
  BY <1>2, <1>3, <1>4, <1>5, <1>6, <1>7, <1>9, <1>10, <1>11, <1>12, <1>13, <1>14,
     <1>15, <1>16, <1>17, <1>18, <1>19, <1>20, <1>21, <1>22, <1>23, <1>24, <1>25, <1>26, <1>27
     DEF Next, Interrupters

-----------------------------------------------------------------------------
(* The stop record: every step but the beginning of a stop leaves a record  *)
(* that still accounts for whatever it captured, and then keeps it, claims  *)
(* a receipt for it or releases it.                                         *)

Captures(rec) ==
  /\ TurnLive' => turn'.no \in rec.turns
  /\ \A s \in Sends :
       sends'[s].state \in Undecided /\ sends'[s].attempt = rec.attempt => s \in rec.sends
  /\ exec' => rec.exec

Accounts(rec) ==
  /\ rec \in Records
  /\ rec.releases = record.releases
  /\ Stopping => rec.attempt = record.attempt
  /\ ~Stopping => rec = NoRecord
  /\ rec.receipt = "writing" => record.receipt = "writing"
  /\ rec.persisted => row'.status # "running"
  /\ IsFiniteSet(Owing') /\ rec.cleanups = Cardinality(Owing')
  /\ Stopping => Captures(rec)

\* The steps that neither begin a stop nor change an interrupt's latch.
LatchesStay ==
  /\ UNCHANGED interrupts
  /\ \A c \in Callers : pc'[c] = "interrupting" <=> pc[c] = "interrupting"

\* The closure a step hands to the recheck: the one it found, or one of the current
\* attempt, or none because the attempt's undecided stream end published its report.
ClosureMoves(cl) ==
  /\ cl \in Closures
  /\ \/ cl.attempt \in {closure.attempt, row.attempt}
     \/ /\ cl.attempt = None
        /\ \E t \in Turns : Pending(t) /\ decisions[t].attempt = closure.attempt

\* A latch that is down means that nothing is being stopped.
LEMMA LatchDown ==
  ASSUME StopsInv
  PROVE  /\ Stopping => latch > 0
         /\ latch \in Nat /\ Cardinality(Held) \in Nat
         /\ latch = record.releases + Cardinality(Held)
<1>1. IsFiniteSet(Held) /\ latch = record.releases + Cardinality(Held)
  BY DEF StopsInv, LatchInv, LatchIsCounted, Held
<1>2. record.releases \in Nat /\ latch \in Nat
  BY DEF StopsInv, Types, StopTypes, Records
<1> QED BY <1>1, <1>2, FS_CardinalityType DEF Stopping

\* A stop's cleanups are what it waits for.
LEMMA OwingStops ==
  ASSUME StopsInv, NEW c \in Callers, pc[c] \in OwingPlaces
  PROVE  Stopping
<1>1. c \in Owing /\ IsFiniteSet(Owing) /\ record.cleanups = Cardinality(Owing)
  BY DEF StopsInv, RecordInv, Owing
<1>2. Cardinality(Owing) # 0
  BY <1>1, FS_EmptySet
<1>3. record # NoRecord
  BY <1>1, <1>2 DEF NoRecord
<1> QED BY <1>3 DEF StopsInv, RecordInv

\* The record of a step that changes neither it nor who owes a cleanup, while it only
\* takes turns, sends and executions away.
LEMMA SameRecord ==
  ASSUME StopsInv, Owing' = Owing,
         row'.status = row.status \/ row'.status # "running" \/ ~Stopping,
         Stopping => /\ TurnLive' => TurnLive /\ turn'.no = turn.no
                     /\ \A s \in Sends :
                          sends'[s].state \in Undecided =>
                            /\ sends[s].state \in Undecided
                            /\ sends'[s].attempt = sends[s].attempt
                     /\ exec' => exec
  PROVE  Accounts(record)
<1>1. record \in Records
  BY DEF StopsInv, Types, StopTypes
<1>2. Stopping => Captures(record)
  BY DEF StopsInv, CapturesAreComplete, Captures
<1>3. ~Stopping => record = NoRecord
  BY DEF StopsInv, RecordInv
<1>4. record.persisted => row'.status # "running"
  BY <1>3 DEF StopsInv, RecordInv, NoRecord
<1>5. IsFiniteSet(Owing') /\ record.cleanups = Cardinality(Owing')
  BY DEF StopsInv, RecordInv
<1> QED BY <1>1, <1>2, <1>3, <1>4, <1>5 DEF Accounts

LEMMA EmptyRecord ==
  /\ [NoRecord EXCEPT !.exec = FALSE] = NoRecord
  /\ \A S : [NoRecord EXCEPT !.sends = @ \ S] = NoRecord
<1>1. NoRecord \in Records /\ NoRecord.exec = FALSE /\ NoRecord.sends = {}
  BY DEF NoRecord, Records, None
<1>2. \A r \in Records : r.exec = FALSE => [r EXCEPT !.exec = FALSE] = r
  BY DEF Records
<1>3. \A r \in Records : \A S : r.sends = {} => [r EXCEPT !.sends = @ \ S] = r
  <2> SUFFICES ASSUME NEW r \in Records, NEW S, r.sends = {}
               PROVE  [r EXCEPT !.sends = @ \ S] = r
    OBVIOUS
  <2>1. r.sends \ S = r.sends
    OBVIOUS
  <2> QED BY <2>1 DEF Records
<1> QED BY <1>1, <1>2, <1>3

LEMMA SameOwing ==
  ASSUME \A c \in Callers : pc'[c] \in OwingPlaces <=> pc[c] \in OwingPlaces
  PROVE  Owing' = Owing
BY DEF Owing

LEMMA EveryStepAccounts ==
  ASSUME StopsInv, Next
  PROVE  \/ \E rec, cl : /\ Accounts(rec) /\ Rechecks(rec, cl)
                         /\ ClosureMoves(cl) /\ LatchesStay
         \/ \E c \in Callers : Latch(c) \/ BeginCleanup(c)
         \/ \E f \in Failures : LatchFailure(f)
         \/ OwnerInterrupts \/ \E i \in Interrupters : EndInterrupt(i)
         \/ CommitResume \/ Drain \/ \E l \in Launches : Launch(l) \/ HandOver(l)
<1> DEFINE Goal == \E rec, cl : /\ Accounts(rec) /\ Rechecks(rec, cl)
                                /\ ClosureMoves(cl) /\ LatchesStay
<1>1. /\ Types /\ closure \in Closures /\ record \in Records
      /\ Stopping => latch > 0
      /\ handlers \in [Turns -> HandlerStates] /\ row.attempt \in Nat
  BY LatchDown DEF StopsInv, Types, StopTypes, StreamTypes, AttemptTypes, Attempts
<1>2. ClosureMoves(closure)
  BY <1>1 DEF ClosureMoves
<1>3. ASSUME Accounts(record), UNCHANGED releaseVars, UNCHANGED <<pc, interrupts>>
      PROVE  Goal
  BY <1>2, <1>3 DEF Rechecks, Keeps, releaseVars, LatchesStay
<1>4. ASSUME NEW s \in Sends, Admit(s) \/ Enqueue(s) \/ Start(s)
      PROVE  Goal
  <2>1. latch = 0
    BY <1>4 DEF Admit, Enqueue, Start, Stale, AdmissionOpen
  <2>2. ~Stopping
    BY <1>1, <2>1
  <2> QED BY <1>3, <1>4, <2>2, SameRecord, SameOwing
          DEF Admit, Enqueue, Start, attemptVars, cascadeVars
<1>5. ASSUME NEW s \in Sends, Dispose(s)
      PROVE  Goal
  <2>1. \A r \in Sends : /\ sends'[r].attempt = sends[r].attempt
                         /\ sends'[r].state = IF r \in {s} THEN "discharged" ELSE sends[r].state
    <3>1. sends' = Discharged({s})
      BY <1>5 DEF Dispose
    <3> QED BY <1>1, <3>1, DischargedIs
  <2>2. Accounts(record)
    BY <1>5, <2>1, SameRecord, SameOwing
       DEF Dispose, cascadeVars, attemptVars, Undecided, TurnLive
  <2>3. CASE s \in record.sends
    <3>1. PICK rec : rec = [record EXCEPT !.sends = @ \ {s}]
      OBVIOUS
    <3>2. Accounts(rec)
      <4>1. rec \in Records
        BY <3>1, RecordUpdates
      <4>2. Stopping
        BY <2>3 DEF StopsInv, RecordInv, NoRecord
      <4>3. s \notin {r \in Sends : sends'[r].state \in Undecided}
        BY <2>1 DEF Undecided
      <4> QED BY <1>1, <2>2, <3>1, <4>1, <4>2, <4>3 DEF Accounts, Captures, Records
    <3>3. Rechecks(rec, closure)
      BY <1>1, <1>5, <2>3, <3>1, RecordUpdates, RecheckDoes DEF Dispose
    <3> QED BY <1>2, <1>5, <3>2, <3>3 DEF LatchesStay, Dispose, cascadeVars
  <2>4. CASE s \notin record.sends
    BY <1>3, <1>5, <2>2, <2>4 DEF Dispose, cascadeVars
  <2> QED BY <2>3, <2>4
<1>6. CASE StreamStarts \/ StreamAborts
  <2>1. Accounts(record)
    BY <1>1, <1>6, SameRecord, SameOwing
       DEF StreamStarts, StreamAborts, attemptVars, cascadeVars, TurnLive, Types, SessionTypes
  <2> QED BY <1>3, <1>6, <2>1 DEF StreamStarts, StreamAborts, cascadeVars
<1>7. CASE StreamEnds
  <2>1. Accounts(record)
    BY <1>1, <1>7, SameRecord, SameOwing
       DEF StreamEnds, attemptVars, cascadeVars, TurnLive, Types, SessionTypes
  <2> QED BY <1>2, <1>7, <2>1 DEF StreamEnds, cascadeVars, Rechecks, Keeps, LatchesStay
<1>8. CASE TurnSettles
  <2>1. \A r \in Sends : /\ sends'[r].attempt = sends[r].attempt
                         /\ sends'[r].state \in Undecided => sends[r].state \in Undecided
    BY <1>1, <1>8, DischargedIs DEF TurnSettles, Undecided
  <2>2. ~TurnLive'
    BY <1>1, <1>8 DEF TurnSettles, TurnLive, Types, SessionTypes
  <2>3. Accounts(record)
    BY <1>8, <2>1, <2>2, SameRecord, SameOwing DEF TurnSettles, cascadeVars, attemptVars
  <2>4. CASE turn.no \in record.turns
    <3>1. PICK rec : rec = [record EXCEPT !.turns = @ \ {turn.no}]
      OBVIOUS
    <3>2. Accounts(rec)
      <4>1. rec \in Records
        BY <3>1, RecordUpdates
      <4>2. Stopping
        BY <2>4 DEF StopsInv, RecordInv, NoRecord
      <4> QED BY <1>1, <2>2, <2>3, <3>1, <4>1, <4>2 DEF Accounts, Captures, Records
    <3>3. Rechecks(rec, closure)
      BY <1>1, <1>8, <2>4, <3>1, RecordUpdates, RecheckDoes DEF TurnSettles
    <3> QED BY <1>2, <1>8, <3>2, <3>3 DEF LatchesStay, TurnSettles, cascadeVars
  <2>5. CASE turn.no \notin record.turns
    BY <1>3, <1>8, <2>3, <2>5 DEF TurnSettles, cascadeVars
  <2> QED BY <2>4, <2>5
<1>9. CASE RegisterExecution
  <2>1. latch = 0
    BY <1>9 DEF RegisterExecution, AdmissionOpen
  <2>2. Accounts(record)
    BY <1>1, <1>9, <2>1, SameRecord, SameOwing DEF RegisterExecution, attemptVars, cascadeVars
  <2> QED BY <1>3, <1>9, <2>2 DEF RegisterExecution, cascadeVars
<1>10. ASSUME NEW i \in Interrupters, TurnEndsForExecution \/ InterruptExecution(i)
       PROVE  Goal
  <2>1. PICK rec : rec = [record EXCEPT !.exec = FALSE]
    OBVIOUS
  <2>2. /\ UNCHANGED <<attemptVars, sends, turn, cascadeVars, interrupts>> /\ ~exec'
        /\ Recheck(rec, closure, handlers)
    BY <1>10, <2>1 DEF TurnEndsForExecution, SettleExecution, InterruptExecution
  <2>3. Accounts(record)
    BY <2>2, SameRecord, SameOwing DEF attemptVars, cascadeVars, TurnLive
  <2>4. rec \in Records
    BY <2>1, RecordUpdates
  <2>5. Accounts(rec)
    <3>1. ~Stopping => rec = NoRecord
      <4>1. ~Stopping => record = NoRecord
        BY DEF StopsInv, RecordInv
      <4> QED BY <2>1, <4>1, EmptyRecord
    <3> QED BY <1>1, <2>1, <2>2, <2>3, <2>4, <3>1 DEF Accounts, Captures, Records
  <2>6. Rechecks(rec, closure)
    BY <1>1, <2>2, <2>4, RecheckDoes
  <2> QED BY <1>2, <2>2, <2>5, <2>6 DEF LatchesStay, cascadeVars
<1>11. ASSUME NEW t \in Turns, \/ ReadRow(t) \/ EndsWithoutReport(t) \/ HasReport(t) \/ Defer(t)
                               \/ Rerun(t) \/ Commit(t) \/ Publish(t)
       PROVE  Goal
  <2>1. UNCHANGED <<sessionVars, cascadeVars, interrupts>>
    BY <1>11 DEF ReadRow, EndsWithoutReport, HasReport, Defer, Rerun, Commit, Publish, handlerFrame
  <2>2. row' = row \/ row'.status # "running"
    BY <1>1, <1>11 DEF ReadRow, EndsWithoutReport, HasReport, Defer, Rerun, Commit, Publish,
       attemptVars, Types, AttemptTypes
  <2>3. Accounts(record)
    BY <2>1, <2>2, SameRecord, SameOwing DEF sessionVars, cascadeVars, TurnLive
  <2>4. LatchesStay
    BY <2>1 DEF LatchesStay, cascadeVars
  <2>5. ASSUME UNCHANGED <<closure, latch, record, owes, drain>>
        PROVE  Goal
    BY <1>2, <2>3, <2>4, <2>5 DEF Rechecks, Keeps
  <2>6. ASSUME NEW o \in {"nonreport", "indeterminate"}, Finish(t, o)
        PROVE  Goal
    BY <1>1, <1>2, <2>3, <2>4, <2>6, FinishDoes
  <2>7. ASSUME ReadRow(t) \/ EndsWithoutReport(t)
        PROVE  Goal
    BY <2>5, <2>6, <2>7 DEF ReadRow, EndsWithoutReport
  <2>8. ASSUME HasReport(t) \/ Defer(t) \/ Rerun(t)
        PROVE  Goal
    BY <2>5, <2>8 DEF HasReport, Defer, Rerun
  <2>9. ASSUME Commit(t)
        PROVE  Goal
    BY <2>5, <2>6, <2>9 DEF Commit
  <2>10. ASSUME Publish(t)
         PROVE  Goal
    <3> DEFINE hs == [handlers EXCEPT ![t] = "done"]
               none == [attempt |-> None, settled |-> FALSE]
    <3>1. hs \in [Turns -> HandlerStates] /\ none \in Closures
      BY <1>1 DEF HandlerStates, Closures, None
    <3>2. \/ Recheck(record, closure, hs)
          \/ Recheck(record, none, hs) /\ decisions[t].attempt = closure.attempt
      BY <2>10 DEF Publish
    <3>3. Pending(t)
      BY <2>10 DEF StopsInv, StreamInv, Publish, Deciding
    <3>4. none.attempt = None
      OBVIOUS
    <3> HIDE DEF hs, none
    <3>5. decisions[t].attempt = closure.attempt => ClosureMoves(none)
      BY <3>1, <3>3, <3>4 DEF ClosureMoves
    <3>6. \/ Rechecks(record, closure)
          \/ Rechecks(record, none) /\ ClosureMoves(none)
      BY <1>1, <3>1, <3>2, <3>5, RecheckDoes
    <3> QED BY <1>2, <2>3, <2>4, <3>6
  <2> QED BY <1>11, <2>7, <2>8, <2>9, <2>10
<1>12. ASSUME NEW c \in Callers, Mark(c)
       PROVE  Goal
  <2>1. PICK rec : rec = [record EXCEPT !.persisted = TRUE]
    OBVIOUS
  <2>2. pc[c] \in OwingPlaces /\ pc[c] # "interrupting" /\ pc' = [pc EXCEPT ![c] = "owing"]
    BY <1>12 DEF Mark, OwingPlaces
  <2>3. Owing' = Owing
    BY <1>1, <2>2, SameOwing DEF OwingPlaces, Types, CascadeTypes
  <2>4. Stopping
    BY <2>2, OwingStops
  <2>5. row'.status # "running"
    BY <1>1, <1>12 DEF Mark, Types, AttemptTypes
  <2>6. Accounts(record)
    BY <1>12, <2>3, <2>5, SameRecord DEF Mark, sessionVars, TurnLive
  <2>7. Accounts(rec)
    BY <1>1, <2>1, <2>4, <2>5, <2>6 DEF Accounts, Captures, Records
  <2>8. LatchesStay
    BY <1>1, <1>12, <2>2 DEF LatchesStay, Mark, Types, CascadeTypes
  <2>9. Rechecks(rec, closure)
    BY <1>12, <2>1 DEF Mark, Rechecks, Keeps
  <2> QED BY <1>2, <2>7, <2>8, <2>9
<1>13. ASSUME NEW c \in Callers, MarkFails(c)
       PROVE  Goal
  <2>1. Owing' = Owing
    BY <1>1, <1>13, SameOwing DEF MarkFails, OwingPlaces, Types, CascadeTypes
  <2>2. Accounts(record)
    BY <1>13, <2>1, SameRecord DEF MarkFails, sessionVars, attemptVars, TurnLive
  <2>3. LatchesStay
    BY <1>1, <1>13 DEF LatchesStay, MarkFails, Types, CascadeTypes
  <2>4. Rechecks(record, closure)
    BY <1>13 DEF MarkFails, releaseVars, Rechecks, Keeps
  <2> QED BY <1>2, <2>2, <2>3, <2>4
<1>14. ASSUME NEW c \in Callers, StopStream(c)
       PROVE  Goal
  <2>1. PICK rec : rec = [record EXCEPT !.cleanups = @ - 1]
    OBVIOUS
  <2>2. c \in Owing /\ pc[c] \in OwingPlaces
    BY <1>14 DEF StopStream, OwingPlaces, Owing
  <2>3. Stopping
    BY <2>2, OwingStops
  <2>4. rec \in Records /\ record.cleanups - 1 \in Nat
    BY <2>1, <2>2, RecordUpdates
  <2>5. Owing' = Owing \ {c}
    BY <1>1, <1>14 DEF StopStream, Owing, OwingPlaces, Types, CascadeTypes
  <2>6. IsFiniteSet(Owing') /\ rec.cleanups = Cardinality(Owing')
    <3>1. IsFiniteSet(Owing) /\ record.cleanups = Cardinality(Owing)
      BY DEF StopsInv, RecordInv
    <3>2. IsFiniteSet(Owing \ {c}) /\ Cardinality(Owing \ {c}) = Cardinality(Owing) - 1
      BY <2>2, <3>1, FS_RemoveElement
    <3>3. rec.cleanups = record.cleanups - 1
      BY <1>1, <2>1 DEF Records
    <3> QED BY <2>5, <3>1, <3>2, <3>3
  <2>7. UNCHANGED <<row, sends, exec>> /\ (TurnLive' => TurnLive) /\ turn'.no = turn.no
    BY <1>1, <1>14 DEF StopStream, attemptVars, TurnLive, Types, SessionTypes
  <2>8. Captures(record)
    BY <2>3, <2>7 DEF StopsInv, CapturesAreComplete, Captures
  <2>9. Accounts(rec)
    BY <1>1, <2>1, <2>3, <2>4, <2>6, <2>7, <2>8 DEF Accounts, Captures, Records, StopsInv, RecordInv
  <2>10. Rechecks(rec, closure)
    BY <1>1, <1>14, <2>1, <2>4, RecheckDoes DEF StopStream
  <2>11. LatchesStay
    BY <1>1, <1>14 DEF LatchesStay, StopStream, Types, CascadeTypes
  <2> QED BY <1>2, <2>9, <2>10, <2>11
<1>15. CASE FinishReceipt
  <2>1. PICK r \in {"written", "failed"} :
          Recheck([record EXCEPT !.receipt = r], closure, handlers)
    BY <1>15 DEF FinishReceipt
  <2>2. PICK rec : rec = [record EXCEPT !.receipt = r]
    OBVIOUS
  <2>3. Stopping
    BY <1>15 DEF FinishReceipt, StopsInv, RecordInv, NoRecord
  <2>4. UNCHANGED <<row, sessionVars, cascadeVars, interrupts>>
    BY <1>15 DEF FinishReceipt
  <2>5. Accounts(record)
    BY <2>4, SameRecord, SameOwing DEF sessionVars, cascadeVars, TurnLive
  <2>6. rec \in Records
    BY <2>2, RecordUpdates
  <2>7. Accounts(rec)
    BY <1>1, <2>2, <2>3, <2>5, <2>6 DEF Accounts, Captures, Records
  <2>8. Rechecks(rec, closure)
    BY <1>1, <2>1, <2>2, <2>6, RecheckDoes
  <2> QED BY <1>2, <2>4, <2>7, <2>8 DEF LatchesStay, cascadeVars
<1>16. ASSUME NEW f \in Failures, CloseForFailure(f) \/ PersistFailure(f) \/ FinishFailure(f)
       PROVE  Goal
  <2>1. f \in Callers /\ failed[f] \in Nat
    BY <1>1 DEF Callers, Types, CascadeTypes
  <2>2. /\ \A c \in Callers : pc'[c] \in OwingPlaces <=> pc[c] \in OwingPlaces
        /\ \A c \in Callers : pc'[c] = "interrupting" <=> pc[c] = "interrupting"
    BY <1>1, <1>16, <2>1 DEF CloseForFailure, PersistFailure, FinishFailure, OwingPlaces,
       Types, CascadeTypes
  <2>3. row' = row \/ row'.status # "running"
    BY <1>1, <1>16 DEF CloseForFailure, PersistFailure, FinishFailure, attemptVars, Types, AttemptTypes
  <2>4. UNCHANGED <<sessionVars, interrupts, latch, record, owes, drain>>
    BY <1>16 DEF CloseForFailure, PersistFailure, FinishFailure
  <2>5. Accounts(record)
    BY <2>2, <2>3, <2>4, SameRecord, SameOwing DEF sessionVars, TurnLive
  <2>6. ClosureMoves(closure')
    <3>1. CASE closure' = Closed(closure, row.attempt)
      BY <1>1, <3>1, ClosedIs DEF ClosureMoves
    <3>2. CASE FinishFailure(f) /\ closure' = Settled(closure, failed[f])
      BY <1>1, <2>1, <3>2 DEF ClosureMoves, Settled, Closures, FinishFailure, StopsInv, CurrentInv
    <3>3. CASE closure' = closure
      BY <1>2, <3>3
    <3> QED BY <1>16, <3>1, <3>2, <3>3 DEF CloseForFailure, PersistFailure, FinishFailure
  <2>7. Rechecks(record, closure')
    BY <2>4 DEF Rechecks, Keeps
  <2> QED BY <2>2, <2>4, <2>5, <2>6, <2>7 DEF LatchesStay
<1>17. ASSUME NEW f \in Failures, SettleFailure(f)
       PROVE  Goal
  <2>1. f \in Callers /\ failed[f] \in Nat
    BY <1>1 DEF Callers, Types, CascadeTypes
  <2>2. /\ \A c \in Callers : pc'[c] \in OwingPlaces <=> pc[c] \in OwingPlaces
        /\ \A c \in Callers : pc'[c] = "interrupting" <=> pc[c] = "interrupting"
    BY <1>1, <1>17, <2>1 DEF SettleFailure, OwingPlaces, Types, CascadeTypes
  <2>3. \A r \in Sends : /\ sends'[r].attempt = sends[r].attempt
                         /\ sends'[r].state = IF r \in Queued THEN "discharged" ELSE sends[r].state
    BY <1>1, <1>17, DischargedIs DEF SettleFailure
  <2>4. UNCHANGED <<attemptVars, turn, exec, interrupts>>
    BY <1>17 DEF SettleFailure
  <2>5. Accounts(record)
    BY <2>2, <2>3, <2>4, SameRecord, SameOwing DEF attemptVars, TurnLive, Undecided
  <2>6. LatchesStay
    BY <2>2, <2>4 DEF LatchesStay
  <2>7. CASE Recheck([record EXCEPT !.sends = @ \ Queued], closure, handlers)
    <3>1. PICK rec : rec = [record EXCEPT !.sends = @ \ Queued]
      OBVIOUS
    <3>2. rec \in Records
      BY <3>1, RecordUpdates
    <3>3. ~Stopping => rec = NoRecord
      <4>1. ~Stopping => record = NoRecord
        BY DEF StopsInv, RecordInv
      <4> QED BY <3>1, <4>1, EmptyRecord
    <3>4. \A r \in Queued : sends'[r].state \notin Undecided
      BY <2>3 DEF Queued, Undecided
    <3>5. Accounts(rec)
      BY <1>1, <2>5, <3>1, <3>2, <3>3, <3>4 DEF Accounts, Captures, Records
    <3>6. Rechecks(rec, closure)
      BY <1>1, <2>7, <3>1, <3>2, RecheckDoes
    <3> QED BY <1>2, <2>6, <3>5, <3>6
  <2>8. CASE /\ UNCHANGED <<latch, record, owes, drain>> /\ owned = failed[f] /\ failed[f] # None
             /\ closure' \in {Closed(closure, failed[f]), Settled(closure, failed[f])}
    <3>1. failed[f] = row.attempt
      BY <2>8 DEF StopsInv, CurrentInv
    <3>2. ClosureMoves(closure')
      <4>1. CASE closure' = Closed(closure, failed[f])
        <5>1. closure' \in Closures /\ closure'.attempt = failed[f]
          BY <1>1, <2>1, <4>1, ClosedIs
        <5> QED BY <3>1, <5>1 DEF ClosureMoves
      <4>2. CASE closure' = Settled(closure, failed[f])
        <5>1. closure' \in Closures /\ closure'.attempt \in {closure.attempt, failed[f]}
          BY <1>1, <2>1, <4>2, SettledIs
        <5> QED BY <3>1, <5>1 DEF ClosureMoves
      <4> QED BY <2>8, <4>1, <4>2
    <3>3. Rechecks(record, closure')
      BY <2>8 DEF Rechecks, Keeps
    <3> QED BY <2>5, <2>6, <3>2, <3>3
  <2> QED BY <1>17, <2>7, <2>8 DEF SettleFailure
<1>18. CASE BeginResume \/ RefuseResume
  <2>1. Accounts(record)
    BY <1>18, SameRecord, SameOwing
       DEF BeginResume, RefuseResume, sessionVars, attemptVars, cascadeVars, TurnLive
  <2> QED BY <1>3, <1>18, <2>1 DEF BeginResume, RefuseResume, cascadeVars
<1>19. ASSUME NEW l \in Launches, Revert(l)
       PROVE  Goal
  <2>1. Accounts(record)
    BY <1>19, SameRecord, SameOwing
       DEF Revert, launchFrame, sessionVars, attemptVars, cascadeVars, TurnLive
  <2> QED BY <1>2, <1>19, <2>1 DEF Revert, launchFrame, cascadeVars, Rechecks, Keeps, LatchesStay
<1> HIDE DEF Goal
<1> QED
  BY <1>4, <1>5, <1>6, <1>7, <1>8, <1>9, <1>10, <1>11, <1>12, <1>13, <1>14, <1>15, <1>16,
     <1>17, <1>18, <1>19 DEF Next, Interrupters, Goal

-----------------------------------------------------------------------------
(* The latch, the record and what it captured.                             *)

StopParts == StopTypes /\ LatchInv /\ RecordInv /\ CapturesAreComplete

LEMMA RecheckKeepsStopParts ==
  ASSUME StopsInv, NEW rec, NEW cl, Accounts(rec), Rechecks(rec, cl), ClosureMoves(cl),
         LatchesStay
  PROVE  StopParts'
<1>1. rec \in Records /\ cl \in Closures /\ Types
  BY DEF Accounts, ClosureMoves, StopsInv
<1>2. StopTypes'
  BY <1>1, RecheckTypes DEF StopTypes
<1>3. /\ latch \in Nat /\ Cardinality(Held) \in Nat
      /\ latch = record.releases + Cardinality(Held)
  BY LatchDown
<1>4. Held' = Held /\ IsFiniteSet(Held')
  BY DEF LatchesStay, Held, StopsInv, LatchInv
<1>5. /\ rec.releases \in Nat /\ rec.cleanups \in Nat
      /\ rec.releases = record.releases
      /\ IsFiniteSet(Owing') /\ rec.cleanups = Cardinality(Owing')
  BY <1>1 DEF Accounts, Records
<1>6. \A c \in Callers : interrupts'[c] = "held" <=> pc'[c] = "interrupting"
  BY DEF LatchesStay, StopsInv, LatchInv
<1>7. CASE /\ latch' = latch
           /\ \/ record' = rec
              \/ record' = [rec EXCEPT !.receipt = "writing"] /\ RecordSettled(rec)
  <2>1. /\ record'.releases = rec.releases /\ record'.cleanups = rec.cleanups
        /\ record'.persisted = rec.persisted /\ record'.attempt = rec.attempt
        /\ record'.turns = rec.turns /\ record'.sends = rec.sends /\ record'.exec = rec.exec
        /\ record' = rec \/ RecordSettled(rec)
    BY <1>1, <1>7 DEF Records
  <2>2. LatchInv'
    BY <1>3, <1>4, <1>5, <1>6, <1>7, <2>1 DEF LatchInv, LatchIsCounted, Held
  <2>3. RecordInv'
    BY <1>5, <2>1 DEF RecordInv, Accounts, Stopping, RecordSettled
  <2>4. CapturesAreComplete'
    BY <1>5, <2>1 DEF CapturesAreComplete, Captures, Accounts, Stopping
  <2> QED BY <1>2, <2>2, <2>3, <2>4 DEF StopParts
<1>8. CASE Releases(rec, cl)
  <2>1. /\ NoRecord.releases = 0 /\ NoRecord.cleanups = 0 /\ ~NoRecord.persisted
        /\ record' = NoRecord
    BY <1>8 DEF NoRecord, Releases
  <2>2. latch' = Cardinality(Held)
    BY <1>3, <1>5, <1>8 DEF Releases, DropLatch
  <2>3. LatchInv'
    <3>1. LatchIsCounted' <=> latch' = record'.releases + Cardinality(Held')
      BY DEF LatchIsCounted, Held
    <3>2. latch' = record'.releases + Cardinality(Held')
      BY <1>3, <1>4, <2>1, <2>2
    <3> QED BY <1>4, <1>6, <3>1, <3>2 DEF LatchInv
  <2>4. RecordInv'
    BY <1>5, <1>8, <2>1 DEF RecordInv, Releases, RecordSettled
  <2>5. CapturesAreComplete'
    BY <2>1 DEF CapturesAreComplete, Stopping
  <2> QED BY <1>2, <2>3, <2>4, <2>5 DEF StopParts
<1> QED BY <1>7, <1>8 DEF Rechecks, Keeps, Claims

\* A stop that begins joins the record, or captures what is under way.
LEMMA BeginStopKeepsStopParts ==
  ASSUME StopsInv, NEW c \in Callers, NEW h \in {"holding", "latched"},
         pc[c] \in {"idle", "closed"}, pc' = [pc EXCEPT ![c] = h], BeginStop,
         UNCHANGED <<row, owned, sessionVars, closure, owes, drain, interrupts>>
  PROVE  /\ StopParts'
         /\ record'.attempt = row.attempt /\ record'.releases # 0
         /\ record'.receipt = "writing" =>
              record.receipt = "writing" /\ record.attempt = row.attempt
         /\ latch' = latch + 1
<1>1. /\ record \in Records /\ latch \in Nat /\ Types
      /\ row.attempt \in Nat \ {0} /\ owned \in {None, row.attempt} /\ CurrentInv
      /\ turn.no \in 0 .. MaxTurns
      /\ TurnLive => turn.no # 0
      /\ exec \in BOOLEAN
  BY DEF StopsInv, Types, StopTypes, AttemptTypes, SessionTypes, Attempts, CurrentInv
<1>2. /\ Cardinality(Held) \in Nat /\ IsFiniteSet(Held)
      /\ latch = record.releases + Cardinality(Held)
  BY LatchDown DEF StopsInv, LatchInv
<1>3. Owing' = Owing \cup {c} /\ c \notin Owing
  BY <1>1 DEF Owing, OwingPlaces, Types, CascadeTypes
<1>4. IsFiniteSet(Owing') /\ Cardinality(Owing') = record.cleanups + 1
  BY <1>3, FS_AddElement DEF StopsInv, RecordInv
<1>5. Held' = Held /\ \A d \in Callers : interrupts'[d] = "held" <=> pc'[d] = "interrupting"
  BY <1>1 DEF Held, StopsInv, LatchInv, Types, CascadeTypes
<1>6. record.persisted => row.status # "running"
  BY DEF StopsInv, RecordInv
<1>7. CASE Stopping
  <2>1. record' = [record EXCEPT !.releases = @ + 1, !.cleanups = @ + 1] /\ latch' = latch + 1
    BY <1>7 DEF BeginStop
  <2>2. /\ record' \in Records
        /\ record'.releases = record.releases + 1 /\ record'.cleanups = record.cleanups + 1
        /\ record'.attempt = record.attempt /\ record'.persisted = record.persisted
        /\ record'.turns = record.turns /\ record'.sends = record.sends
        /\ record'.exec = record.exec /\ record'.receipt = record.receipt
        /\ record.releases \in Nat
    <3>1. record.releases \in Nat /\ record.cleanups \in Nat
      BY <1>1 DEF Records
    <3>2. record.releases + 1 \in Nat /\ record.cleanups + 1 \in Nat
      BY <3>1
    <3> QED BY <1>1, <2>1, <3>1, <3>2 DEF Records
  <2>3. StopTypes'
    BY <1>1, <2>1, <2>2 DEF StopTypes, Types
  <2>4. LatchInv'
    BY <1>1, <1>2, <1>5, <2>1, <2>2 DEF LatchInv, LatchIsCounted, Held
  <2>5. RecordInv'
    BY <1>4, <1>6, <2>2 DEF RecordInv, Stopping
  <2>6. CapturesAreComplete'
    BY <1>7, <2>2 DEF CapturesAreComplete, StopsInv, sessionVars, TurnLive
  <2>7. record'.attempt = row.attempt /\ record'.releases # 0
    BY <1>1, <1>7, <2>2 DEF CurrentInv
  <2> QED BY <2>1, <2>2, <2>3, <2>4, <2>5, <2>6, <2>7 DEF StopParts
<1>8. CASE ~Stopping
  <2>1. PICK a : a = IF owned # None THEN owned ELSE row.attempt
    OBVIOUS
  <2>2. a = row.attempt
    BY <1>1, <2>1
  <2>3. /\ record' = [releases |-> 1, cleanups |-> 1, attempt |-> a, owned |-> owned # None,
                      turns |-> IF TurnLive THEN {turn.no} ELSE {},
                      sends |-> {s \in Sends : sends[s].state \in Undecided
                                               /\ sends[s].attempt = a},
                      exec |-> exec, persisted |-> FALSE, receipt |-> "none"]
        /\ latch' = latch + 1
    BY <1>8, <2>1 DEF BeginStop
  <2>4. /\ (IF TurnLive THEN {turn.no} ELSE {}) \in SUBSET Turns
        /\ (owned # None) \in BOOLEAN
        /\ {s \in Sends : sends[s].state \in Undecided /\ sends[s].attempt = a} \in SUBSET Sends
    BY <1>1, BoundsAreNatural DEF Turns
  <2>5. record' \in Records
    BY <1>1, <2>2, <2>3, <2>4 DEF Records
  <2>6. record.releases = 0 /\ record.cleanups = 0
    BY <1>8 DEF StopsInv, RecordInv, NoRecord
  <2>7. StopTypes'
    BY <1>1, <2>3, <2>5 DEF StopTypes, Types
  <2>8. LatchInv'
    BY <1>1, <1>2, <1>5, <2>3, <2>6 DEF LatchInv, LatchIsCounted, Held
  <2>9. RecordInv'
    BY <1>4, <2>3, <2>6 DEF RecordInv, Stopping
  <2>10. CapturesAreComplete'
    BY <1>8, <2>3 DEF CapturesAreComplete, sessionVars, TurnLive
  <2> QED BY <2>2, <2>3, <2>7, <2>8, <2>9, <2>10 DEF StopParts
<1> QED BY <1>7, <1>8

\* Steps that leave the record as the owed cleanups, the sends and the turn account
\* for it, while an interrupt's latch is taken or dropped.
LEMMA SameRecordKeepsStopParts ==
  ASSUME StopsInv, Accounts(record), UNCHANGED record, StopTypes', LatchInv'
  PROVE  StopParts'
<1>1. RecordInv'
  BY DEF RecordInv, Accounts, Stopping
<1>2. CapturesAreComplete'
  BY DEF CapturesAreComplete, Accounts, Captures, Stopping
<1> QED BY <1>1, <1>2 DEF StopParts

LEMMA StopPartsStep ==
  ASSUME StopsInv, Next
  PROVE  StopParts'
<1>1. /\ Types /\ closure \in Closures /\ record \in Records /\ latch \in Nat
      /\ owes \in BOOLEAN /\ drain \in BOOLEAN
      /\ pc \in [Callers -> Places] /\ interrupts \in [Interrupters -> {"no", "held", "done"}]
  BY DEF StopsInv, Types, StopTypes, CascadeTypes
<1>2. /\ IsFiniteSet(Held) /\ Cardinality(Held) \in Nat
      /\ latch = record.releases + Cardinality(Held)
      /\ record.releases \in Nat
      /\ \A c \in Callers : interrupts[c] = "held" <=> pc[c] = "interrupting"
  BY <1>1, LatchDown DEF StopsInv, LatchInv, Records
<1>3. ASSUME NEW c \in Callers, Latch(c)
      PROVE  StopParts'
  BY <1>3, BeginStopKeepsStopParts DEF Latch, attemptVars
<1>4. ASSUME NEW f \in Failures, LatchFailure(f)
      PROVE  StopParts'
  BY <1>4, BeginStopKeepsStopParts DEF LatchFailure, attemptVars, Callers
<1>5. ASSUME NEW c \in Callers, BeginCleanup(c)
      PROVE  StopParts'
  <2>1. Stopping
    BY <1>5, OwingStops DEF BeginCleanup, OwingPlaces
  <2>2. Owing' = Owing
    BY <1>1, <1>5, SameOwing DEF BeginCleanup, OwingPlaces
  <2>3. \A r \in Sends : /\ sends'[r].attempt = sends[r].attempt
                         /\ sends'[r].state = IF r \in Queued THEN "discharged" ELSE sends[r].state
    BY <1>1, <1>5, DischargedIs DEF BeginCleanup
  <2>4. Accounts(record)
    BY <1>5, <2>2, <2>3, SameRecord DEF BeginCleanup, attemptVars, TurnLive, Undecided
  <2>5. /\ record' = [record EXCEPT !.sends = @ \ Queued]
        /\ record' \in Records /\ record'.releases = record.releases
    BY <1>1, <1>5, RecordUpdates DEF BeginCleanup, Records
  <2>6. \A r \in Queued : sends'[r].state \notin Undecided
    BY <2>3 DEF Queued, Undecided
  <2>7. RecordInv' /\ CapturesAreComplete'
    BY <1>1, <2>1, <2>4, <2>5, <2>6
       DEF Accounts, Captures, Records, RecordInv, CapturesAreComplete, Stopping
  <2>8. StopTypes'
    BY <1>1, <1>5, <2>5 DEF BeginCleanup, StopTypes
  <2>9. LatchInv'
    <3>1. CASE pc' = [pc EXCEPT ![c] = "interrupting"]
               /\ interrupts' = [interrupts EXCEPT ![c] = "held"] /\ latch' = latch + 1
      <4>1. c \in Interrupters /\ c \notin Held
        BY <1>2, <1>5 DEF BeginCleanup, Interrupters, Held
      <4>2. Held' = Held \cup {c}
        BY <1>1, <3>1, <4>1 DEF Held
      <4>3. IsFiniteSet(Held') /\ Cardinality(Held') = Cardinality(Held) + 1
        BY <1>2, <4>1, <4>2, FS_AddElement
      <4>4. \A d \in Callers : interrupts'[d] = "held" <=> pc'[d] = "interrupting"
        BY <1>1, <1>2, <3>1, <4>1 DEF Interrupters
      <4> QED BY <1>2, <2>5, <3>1, <4>3, <4>4 DEF LatchInv, LatchIsCounted, Held
    <3>2. CASE pc' = [pc EXCEPT ![c] = "stopping"] /\ UNCHANGED <<interrupts, latch>>
      <4>1. Held' = Held
        BY <3>2 DEF Held
      <4>2. \A d \in Callers : interrupts'[d] = "held" <=> pc'[d] = "interrupting"
        BY <1>1, <1>2, <1>5, <3>2 DEF BeginCleanup
      <4> QED BY <1>2, <2>5, <3>2, <4>1, <4>2 DEF LatchInv, LatchIsCounted, Held
    <3> QED BY <1>5, <3>1, <3>2 DEF BeginCleanup
  <2> QED BY <2>7, <2>8, <2>9 DEF StopParts
<1>6. CASE OwnerInterrupts
  <2>1. Accounts(record)
    BY <1>6, SameRecord, SameOwing
       DEF OwnerInterrupts, attemptVars, sessionVars, cascadeVars, TurnLive
  <2>2. StopTypes'
    BY <1>1, <1>6 DEF OwnerInterrupts, StopTypes
  <2>3. LatchInv'
    <3>1. "owner" \in Interrupters /\ "owner" \notin Callers /\ "owner" \notin Held
      BY <1>6, CallersDiffer DEF OwnerInterrupts, Interrupters, Callers, Held
    <3>2. Held' = Held \cup {"owner"}
      BY <1>1, <1>6, <3>1 DEF OwnerInterrupts, Held
    <3>3. IsFiniteSet(Held') /\ Cardinality(Held') = Cardinality(Held) + 1
      BY <1>2, <3>1, <3>2, FS_AddElement
    <3>4. \A d \in Callers : interrupts'[d] = "held" <=> pc'[d] = "interrupting"
      BY <1>1, <1>2, <1>6, <3>1 DEF OwnerInterrupts, cascadeVars, Interrupters
    <3> QED BY <1>2, <1>6, <3>3, <3>4 DEF LatchInv, LatchIsCounted, Held, OwnerInterrupts
  <2> QED BY <1>6, <2>1, <2>2, <2>3, SameRecordKeepsStopParts DEF OwnerInterrupts
<1>7. ASSUME NEW i \in Interrupters, EndInterrupt(i)
      PROVE  StopParts'
  <2>1. \A c \in Callers : pc'[c] \in OwingPlaces <=> pc[c] \in OwingPlaces
    BY <1>1, <1>2, <1>7 DEF EndInterrupt, OwingPlaces
  <2>2. Accounts(record)
    BY <1>7, <2>1, SameRecord, SameOwing DEF EndInterrupt, attemptVars, sessionVars, TurnLive
  <2>3. StopTypes'
    BY <1>1, <1>7 DEF EndInterrupt, DropLatch, StopTypes
  <2>4. LatchInv'
    <3>1. i \in Held /\ Held' = Held \ {i}
      BY <1>1, <1>7 DEF EndInterrupt, Held
    <3>2. IsFiniteSet(Held') /\ Cardinality(Held') = Cardinality(Held) - 1
      BY <1>2, <3>1, FS_RemoveElement
    <3>3. Cardinality(Held) # 0 /\ Cardinality(Held') \in Nat
      BY <1>2, <3>1, <3>2, FS_EmptySet, FS_CardinalityType
    <3>4. latch' = latch - 1
      BY <1>2, <1>7, <3>3 DEF EndInterrupt, DropLatch
    <3>5. \A d \in Callers : interrupts'[d] = "held" <=> pc'[d] = "interrupting"
      BY <1>1, <1>2, <1>7 DEF EndInterrupt, Interrupters
    <3> QED BY <1>2, <1>7, <3>2, <3>3, <3>4, <3>5 DEF LatchInv, LatchIsCounted, Held, EndInterrupt
  <2> QED BY <1>7, <2>2, <2>3, <2>4, SameRecordKeepsStopParts DEF EndInterrupt
<1>8. CASE CommitResume
  <2>1. latch = 0 /\ UNCHANGED <<sessionVars, cascadeVars, interrupts, latch, record, owes, drain>>
    BY <1>8 DEF CommitResume, MayResume
  <2>2. ~Stopping
    BY <2>1, LatchDown
  <2>3. Accounts(record)
    BY <2>1, <2>2, SameRecord, SameOwing DEF sessionVars, cascadeVars, TurnLive
  <2>4. closure' \in Closures
    BY <1>8 DEF CommitResume, Closures, None
  <2>5. StopTypes'
    BY <1>1, <2>1, <2>4 DEF StopTypes
  <2>6. LatchInv'
    BY <2>1 DEF StopsInv, LatchInv, LatchIsCounted, Held, cascadeVars
  <2> QED BY <2>1, <2>3, <2>5, <2>6, SameRecordKeepsStopParts
<1>9. CASE Drain \/ \E l \in Launches : Launch(l) \/ HandOver(l)
  <2>1. UNCHANGED launchFrame /\ owes' \in BOOLEAN /\ drain' \in BOOLEAN
    BY <1>1, <1>9 DEF Drain, Launch, HandOver
  <2>2. Accounts(record)
    BY <2>1, SameRecord, SameOwing DEF launchFrame, attemptVars, sessionVars, cascadeVars, TurnLive
  <2>3. StopTypes'
    BY <1>1, <2>1 DEF StopTypes, launchFrame
  <2>4. LatchInv'
    BY <2>1 DEF launchFrame, StopsInv, LatchInv, LatchIsCounted, Held, cascadeVars
  <2> QED BY <2>1, <2>2, <2>3, <2>4, SameRecordKeepsStopParts DEF launchFrame
<1>10. ASSUME NEW rec, NEW cl, Accounts(rec), Rechecks(rec, cl), ClosureMoves(cl), LatchesStay
       PROVE  StopParts'
  BY <1>10, RecheckKeepsStopParts
<1> QED
  BY <1>3, <1>4, <1>5, <1>6, <1>7, <1>8, <1>9, <1>10, EveryStepAccounts

-----------------------------------------------------------------------------
(* Sends, and what the ledgers record of the attempts.                     *)

\* Sends are only decided, but for one that is admitted to the current attempt.
SendsGoOn ==
  \A s \in Sends : /\ sends'[s].attempt = sends[s].attempt
                   /\ sends'[s].state \in Undecided => sends[s].state \in Undecided

LEMMA SendSteps ==
  ASSUME StopsInv, Next
  PROVE  SendsGoOn \/ \E s \in Sends : Admit(s)
<1>1. Types
  BY DEF StopsInv
<1>2. ASSUME UNCHANGED sends
      PROVE  SendsGoOn
  BY <1>2 DEF SendsGoOn
<1>3. ASSUME NEW S, sends' = Discharged(S)
      PROVE  SendsGoOn
  BY <1>1, <1>3, DischargedIs DEF SendsGoOn, Undecided
<1>4. ASSUME NEW s \in Sends, Enqueue(s) \/ Start(s) \/ Dispose(s)
      PROVE  SendsGoOn
  <2>1. CASE Enqueue(s) \/ Start(s)
    BY <1>1, <2>1 DEF Enqueue, Start, SendsGoOn, Types, SessionTypes, SendRecords, Undecided
  <2> QED BY <1>3, <1>4, <2>1 DEF Dispose
<1>5. CASE StreamStarts \/ StreamAborts \/ StreamEnds \/ TurnSettles
  BY <1>2, <1>3, <1>5 DEF StreamStarts, StreamAborts, StreamEnds, TurnSettles
<1>6. CASE RegisterExecution \/ TurnEndsForExecution
  BY <1>2, <1>6 DEF RegisterExecution, TurnEndsForExecution, SettleExecution
<1>7. ASSUME NEW t \in Turns, \/ ReadRow(t) \/ EndsWithoutReport(t) \/ HasReport(t) \/ Defer(t)
                              \/ Rerun(t) \/ Commit(t) \/ Publish(t)
      PROVE  SendsGoOn
  BY <1>2, <1>7 DEF ReadRow, EndsWithoutReport, HasReport, Defer, Rerun, Commit, Publish,
     handlerFrame, sessionVars
<1>8. ASSUME NEW c \in Callers, Latch(c) \/ Mark(c) \/ MarkFails(c) \/ StopStream(c)
      PROVE  SendsGoOn
  BY <1>2, <1>8 DEF Latch, Mark, MarkFails, StopStream, sessionVars
<1>9. ASSUME NEW c \in Callers, BeginCleanup(c)
      PROVE  SendsGoOn
  BY <1>3, <1>9 DEF BeginCleanup
<1>10. ASSUME NEW i \in Interrupters, OwnerInterrupts \/ InterruptExecution(i) \/ EndInterrupt(i)
       PROVE  SendsGoOn
  BY <1>2, <1>10 DEF OwnerInterrupts, InterruptExecution, EndInterrupt, sessionVars
<1>11. CASE FinishReceipt
  BY <1>2, <1>11 DEF FinishReceipt, sessionVars
<1>12. ASSUME NEW f \in Failures, \/ CloseForFailure(f) \/ LatchFailure(f) \/ PersistFailure(f)
                                  \/ SettleFailure(f) \/ FinishFailure(f)
       PROVE  SendsGoOn
  BY <1>2, <1>3, <1>12 DEF CloseForFailure, LatchFailure, PersistFailure, SettleFailure,
     FinishFailure, sessionVars
<1>13. CASE BeginResume \/ RefuseResume \/ CommitResume
  BY <1>2, <1>13 DEF BeginResume, RefuseResume, CommitResume, sessionVars
<1>14. CASE Drain \/ \E l \in Launches : Launch(l) \/ Revert(l) \/ HandOver(l)
  BY <1>2, <1>14 DEF Drain, Launch, Revert, HandOver, launchFrame, sessionVars
<1> QED
  BY <1>4, <1>5, <1>6, <1>7, <1>8, <1>9, <1>10, <1>11, <1>12, <1>13, <1>14
     DEF Next, Interrupters

\* A receipt was claimed before it is written, and a claim is due when it is made; a
\* report is taken from the undecided stream end of the current attempt.
LedgersMove ==
  /\ receipts' \subseteq Claimed
  /\ \/ reports' = reports
     \/ /\ reports' = reports \cup {row.attempt}
        /\ \E t \in Turns : /\ Pending(t) /\ decisions'[t] = decisions[t]
                            /\ decisions[t].attempt = row.attempt
                            /\ handlers'[t] = "publishing"
  /\ \A f \in Failures : failed'[f] \in {failed[f], owned}
  /\ \A f \in Failures : pc'[f] = "settling" =>
       /\ failed'[f] = failed[f] /\ failed[f] # None
       /\ \/ pc[f] = "settling"
          \/ ReceiptDue(failed[f]) /\ closure'.attempt = failed[f]

LEMMA QuietLedgers ==
  ASSUME StopsInv, receipts' = receipts, reports' = reports, failed' = failed,
         \A f \in Failures : pc'[f] = "settling" => pc[f] = "settling"
  PROVE  LedgersMove
<1>1. \A f \in Failures : pc'[f] = "settling" => failed[f] # None
  BY DEF StopsInv, CurrentInv
<1>2. receipts \subseteq Claimed
  BY DEF Claimed
<1> QED BY <1>1, <1>2 DEF LedgersMove

LEMMA LedgerSteps ==
  ASSUME StopsInv, Next
  PROVE  LedgersMove
<1>1. /\ Types /\ pc \in [Callers -> Places] /\ failed \in [Failures -> Nat]
      /\ closure \in Closures /\ Failures \subseteq Callers
  BY DEF StopsInv, Types, CascadeTypes, StopTypes, Callers
<1>2. ASSUME NEW s \in Sends, Admit(s) \/ Enqueue(s) \/ Start(s) \/ Dispose(s)
      PROVE  LedgersMove
  BY <1>2, QuietLedgers DEF Admit, Enqueue, Start, Dispose, attemptVars, cascadeVars
<1>3. CASE StreamStarts \/ StreamAborts \/ StreamEnds \/ TurnSettles
  BY <1>3, QuietLedgers
     DEF StreamStarts, StreamAborts, StreamEnds, TurnSettles, attemptVars, cascadeVars
<1>4. CASE RegisterExecution \/ TurnEndsForExecution
  BY <1>4, QuietLedgers
     DEF RegisterExecution, TurnEndsForExecution, SettleExecution, attemptVars, cascadeVars
<1>5. ASSUME NEW t \in Turns, \/ ReadRow(t) \/ EndsWithoutReport(t) \/ HasReport(t) \/ Defer(t)
                              \/ Rerun(t) \/ Publish(t)
      PROVE  LedgersMove
  BY <1>5, QuietLedgers DEF ReadRow, EndsWithoutReport, HasReport, Defer, Rerun, Publish,
     handlerFrame, attemptVars, cascadeVars
<1>6. ASSUME NEW t \in Turns, Commit(t)
      PROVE  LedgersMove
  <2>1. CASE UNCHANGED reports
    BY <1>6, <2>1, QuietLedgers DEF Commit, handlerFrame, cascadeVars
  <2>2. CASE /\ row.attempt = decisions[t].attempt
                 /\ reports' = reports \cup {decisions[t].attempt}
             /\ handlers' = [handlers EXCEPT ![t] = "publishing"] /\ UNCHANGED streamVars
    <3>1. Pending(t)
      BY <1>6 DEF StopsInv, StreamInv, Commit, Deciding
    <3>2. handlers'[t] = "publishing"
      BY <1>1, <2>2 DEF Types, StreamTypes
    <3>3. UNCHANGED <<receipts, failed, pc>>
      BY <1>6 DEF Commit, handlerFrame, cascadeVars
    <3>4. \A f \in Failures : pc[f] = "settling" => failed[f] # None
      BY DEF StopsInv, CurrentInv
    <3>5. receipts \subseteq Claimed
      BY DEF Claimed
    <3> QED BY <2>2, <3>1, <3>2, <3>3, <3>4, <3>5 DEF LedgersMove, streamVars
  <2> QED BY <1>6, <2>1, <2>2 DEF Commit
<1>7. ASSUME NEW c \in Callers, \/ Latch(c) \/ Mark(c) \/ MarkFails(c) \/ BeginCleanup(c)
                                \/ StopStream(c)
      PROVE  LedgersMove
  <2>1. \A f \in Failures : pc'[f] = "settling" => pc[f] = "settling"
    BY <1>1, <1>7 DEF Latch, Mark, MarkFails, BeginCleanup, StopStream
  <2> QED BY <1>7, <2>1, QuietLedgers
          DEF Latch, Mark, MarkFails, BeginCleanup, StopStream, attemptVars
<1>8. CASE OwnerInterrupts
  BY <1>8, QuietLedgers DEF OwnerInterrupts, attemptVars, cascadeVars
<1>9. ASSUME NEW i \in Interrupters, InterruptExecution(i) \/ EndInterrupt(i)
      PROVE  LedgersMove
  BY <1>1, <1>9, QuietLedgers DEF InterruptExecution, EndInterrupt, attemptVars, cascadeVars
<1>10. CASE FinishReceipt
  <2>1. record.attempt \in Attempts
    <3>1. Stopping
      BY <1>10 DEF FinishReceipt, StopsInv, RecordInv, NoRecord
    <3> QED BY <1>1, <3>1 DEF StopsInv, CurrentInv, Types, AttemptTypes
  <2>2. receipts' \subseteq Claimed
    BY <1>10, <2>1 DEF FinishReceipt, Claimed
  <2>3. UNCHANGED <<reports, failed, pc>>
    BY <1>10 DEF FinishReceipt, cascadeVars
  <2>4. \A f \in Failures : pc[f] = "settling" => failed[f] # None
    BY DEF StopsInv, CurrentInv
  <2> QED BY <2>2, <2>3, <2>4 DEF LedgersMove
<1>11. ASSUME NEW f \in Failures, LatchFailure(f) \/ PersistFailure(f)
       PROVE  LedgersMove
  <2>1. \A g \in Failures : pc'[g] = "settling" => pc[g] = "settling"
    BY <1>1, <1>11 DEF LatchFailure, PersistFailure
  <2> QED BY <1>11, <2>1, QuietLedgers DEF LatchFailure, PersistFailure, attemptVars
<1>12. ASSUME NEW f \in Failures, CloseForFailure(f)
       PROVE  LedgersMove
  <2>1. \A g \in Failures : failed'[g] \in {failed[g], owned}
    BY <1>1, <1>12 DEF CloseForFailure
  <2>2. \A g \in Failures : pc'[g] = "settling" => pc[g] = "settling" /\ failed'[g] = failed[g]
    BY <1>1, <1>12 DEF CloseForFailure
  <2>3. \A g \in Failures : pc[g] = "settling" => failed[g] # None
    BY DEF StopsInv, CurrentInv
  <2> QED BY <1>12, <2>1, <2>2, <2>3 DEF LedgersMove, CloseForFailure, attemptVars, Claimed
<1>13. ASSUME NEW f \in Failures, SettleFailure(f)
       PROVE  LedgersMove
  <2>1. UNCHANGED <<receipts, reports, failed>>
    BY <1>13 DEF SettleFailure, attemptVars
  <2>2. \A g \in Failures : g # f /\ pc'[g] = "settling" => pc[g] = "settling"
    BY <1>1, <1>13 DEF SettleFailure
  <2>3. pc'[f] = "settling" =>
          failed[f] # None /\ ReceiptDue(failed[f]) /\ closure' = Closed(closure, failed[f])
    BY <1>1, <1>13 DEF SettleFailure
  <2>4. Closed(closure, failed[f]).attempt = failed[f]
    BY <1>1, ClosedIs
  <2>5. \A g \in Failures : pc[g] = "settling" => failed[g] # None
    BY DEF StopsInv, CurrentInv
  <2> QED BY <2>1, <2>2, <2>3, <2>4, <2>5 DEF LedgersMove, Claimed
<1>14. ASSUME NEW f \in Failures, FinishFailure(f)
       PROVE  LedgersMove
  <2>1. failed[f] \in Attempts
    BY <1>1, <1>14, BoundsAreNatural
       DEF FinishFailure, StopsInv, CurrentInv, Types, AttemptTypes, Attempts, None
  <2>2. receipts' \subseteq Claimed
    BY <1>14, <2>1 DEF FinishFailure, Claimed
  <2>3. \A g \in Failures : pc'[g] = "settling" => pc[g] = "settling"
    BY <1>1, <1>14 DEF FinishFailure
  <2>4. \A g \in Failures : pc[g] = "settling" => failed[g] # None
    BY DEF StopsInv, CurrentInv
  <2> QED BY <1>14, <2>2, <2>3, <2>4 DEF LedgersMove, FinishFailure
<1>15. CASE BeginResume \/ RefuseResume \/ CommitResume
  BY <1>15, QuietLedgers DEF BeginResume, RefuseResume, CommitResume, attemptVars, cascadeVars
<1>16. CASE Drain \/ \E l \in Launches : Launch(l) \/ Revert(l) \/ HandOver(l)
  BY <1>16, QuietLedgers
     DEF Drain, Launch, Revert, HandOver, launchFrame, attemptVars, cascadeVars
<1> QED
  BY <1>2, <1>3, <1>4, <1>5, <1>6, <1>7, <1>8, <1>9, <1>10, <1>11, <1>12, <1>13, <1>14,
     <1>15, <1>16 DEF Next, Interrupters

-----------------------------------------------------------------------------
(* Stream ends, the current attempt, and the reports.                      *)

LEMMA EventsStep ==
  ASSUME StopsInv, Next
  PROVE  events' \in Seq(Turns)
<1>1. /\ Types /\ events \in Seq(Turns)
      /\ events # <<>> => Tail(events) \in Seq(Turns)
  <2>1. Types /\ events \in Seq(Turns)
    BY DEF StopsInv, Types, StreamTypes
  <2> QED BY <2>1, HeadTailProperties
<1>2. \A t \in Turns : Append(events, t) \in Seq(Turns)
  BY <1>1, AppendProperties
<1>3. ASSUME NEW s \in Sends, Admit(s) \/ Enqueue(s) \/ Start(s) \/ Dispose(s)
      PROVE  events' \in Seq(Turns)
  BY <1>1, <1>3 DEF Admit, Enqueue, Start, Dispose, streamVars
<1>4. CASE StreamStarts \/ StreamAborts \/ TurnSettles
  BY <1>1, <1>4 DEF StreamStarts, StreamAborts, TurnSettles, streamVars
<1>5. CASE StreamEnds
  <2>1. turn.no \in Turns
    BY <1>1, <1>5, BoundsAreNatural DEF StreamEnds, Types, SessionTypes, TurnLive, Turns
  <2> QED BY <1>2, <1>5, <2>1 DEF StreamEnds
<1>6. CASE RegisterExecution \/ TurnEndsForExecution
  BY <1>1, <1>6 DEF RegisterExecution, TurnEndsForExecution, SettleExecution, streamVars
<1>7. ASSUME NEW t \in Turns, ReadRow(t) \/ EndsWithoutReport(t) \/ Commit(t)
      PROVE  events' \in Seq(Turns)
  <2>1. events # <<>>
    BY <1>7 DEF ReadRow, EndsWithoutReport, Commit, AtHead
  <2>2. events' \in {events, Tail(events)}
    BY <1>7 DEF ReadRow, EndsWithoutReport, Commit, Finish, streamVars
  <2> QED BY <1>1, <2>1, <2>2
<1>8. ASSUME NEW t \in Turns, HasReport(t) \/ Defer(t) \/ Rerun(t) \/ Publish(t)
      PROVE  events' \in Seq(Turns)
  BY <1>1, <1>2, <1>8 DEF HasReport, Defer, Rerun, Publish, AtHead, streamVars
<1>9. ASSUME NEW c \in Callers, \/ Latch(c) \/ Mark(c) \/ MarkFails(c) \/ BeginCleanup(c)
                                \/ StopStream(c)
      PROVE  events' \in Seq(Turns)
  BY <1>1, <1>9 DEF Latch, Mark, MarkFails, BeginCleanup, StopStream, streamVars
<1>10. ASSUME NEW i \in Interrupters, OwnerInterrupts \/ InterruptExecution(i) \/ EndInterrupt(i)
       PROVE  events' \in Seq(Turns)
  BY <1>1, <1>10 DEF OwnerInterrupts, InterruptExecution, EndInterrupt, streamVars
<1>11. CASE FinishReceipt
  BY <1>1, <1>11 DEF FinishReceipt, streamVars
<1>12. ASSUME NEW f \in Failures, \/ CloseForFailure(f) \/ LatchFailure(f) \/ PersistFailure(f)
                                  \/ SettleFailure(f) \/ FinishFailure(f)
       PROVE  events' \in Seq(Turns)
  BY <1>1, <1>12 DEF CloseForFailure, LatchFailure, PersistFailure, SettleFailure,
     FinishFailure, streamVars
<1>13. CASE BeginResume \/ RefuseResume \/ CommitResume
  BY <1>1, <1>13 DEF BeginResume, RefuseResume, CommitResume, streamVars
<1>14. CASE Drain \/ \E l \in Launches : Launch(l) \/ Revert(l) \/ HandOver(l)
  BY <1>1, <1>14 DEF Drain, Launch, Revert, HandOver, launchFrame, streamVars
<1> QED
  BY <1>3, <1>4, <1>5, <1>6, <1>7, <1>8, <1>9, <1>10, <1>11, <1>12, <1>13, <1>14
     DEF Next, Interrupters

\* A send that takes its turn belongs to the current attempt, which has no undecided
\* stream end: the one it would have is in the ledger.
LEMMA StartsClean ==
  ASSUME StopsInv, NEW s \in Sends, Start(s)
  PROVE  /\ turn'.attempt = row.attempt /\ turn'.phase = "preparing" /\ TurnLive'
         /\ sends[s].attempt = row.attempt /\ sends[s].state \in Undecided
         /\ \A t \in Turns : Pending(t) => decisions[t].attempt # row.attempt
         /\ UNCHANGED <<attemptVars, streamVars, handlers, closure>>
<1>1. sends[s].attempt = row.attempt
  BY DEF Start, Stale, AdmissionOpen
<1>2. \A t \in Turns : decisions[t].listed /\ decisions[t].attempt = row.attempt => ~Pending(t)
  <2>1. OutcomeOf(decisions, row.attempt) # "pending"
    BY <1>1 DEF Start
  <2>2. decisions \in [Turns -> Decisions]
    BY DEF StopsInv, Types, StreamTypes
  <2> QED BY <2>1, <2>2, OutcomeIsDecided DEF Pending
<1>3. \A t \in Turns : Pending(t) => decisions[t].attempt # row.attempt
  BY <1>2 DEF StopsInv, StreamInv
<1>4. turn'.attempt = row.attempt /\ turn'.phase = "preparing" /\ TurnLive'
  BY <1>1 DEF Start, TurnLive
<1> QED BY <1>1, <1>3, <1>4 DEF Start, releaseVars

\* What a stream end adds.
LEMMA StreamEndAdds ==
  ASSUME StopsInv, StreamEnds
  PROVE  /\ turn.no \in Turns /\ turn.attempt = row.attempt
         /\ decisions' \in [Turns -> Decisions]
         /\ handlers' = [handlers EXCEPT ![turn.no] = "waiting"]
         /\ \A t \in Turns : t # turn.no => decisions'[t] = decisions[t]
         /\ decisions'[turn.no].attempt = row.attempt
         /\ decisions'[turn.no].owned = (owned = row.attempt)
         /\ decisions'[turn.no].listed
         /\ \A t \in Turns : Pending(t) => decisions[t].attempt # row.attempt
         /\ turn' = [turn EXCEPT !.phase = "ended"]
         /\ UNCHANGED <<attemptVars, sends, closure>>
<1>1. turn.no \in Turns /\ turn.attempt \in Nat /\ epoch \in Nat
  BY BoundsAreNatural
     DEF StreamEnds, StopsInv, Types, SessionTypes, CascadeTypes, TurnLive, Turns
<1>2. turn.attempt = row.attempt
  BY DEF StreamEnds, StopsInv, CurrentInv, TurnLive
<1>3. decisions \in [Turns -> Decisions]
  BY DEF StopsInv, Types, StreamTypes
<1>4. (owned = turn.attempt) \in BOOLEAN
  OBVIOUS
<1>5. decisions' = [decisions EXCEPT ![turn.no] =
           [attempt |-> turn.attempt, owned |-> owned = turn.attempt, outcome |-> "pending",
            listed |-> TRUE, epoch |-> epoch, seen |-> "running"]]
  BY DEF StreamEnds
<1>6. [attempt |-> turn.attempt, owned |-> owned = turn.attempt, outcome |-> "pending",
       listed |-> TRUE, epoch |-> epoch, seen |-> "running"] \in Decisions
  BY <1>1, <1>4 DEF Decisions, Statuses
<1>7. decisions' \in [Turns -> Decisions]
  BY <1>3, <1>5, <1>6
<1>8. \A t \in Turns : Pending(t) => decisions[t].attempt # row.attempt
  BY <1>2 DEF StreamEnds, StopsInv, StreamInv
<1> QED BY <1>1, <1>2, <1>3, <1>5, <1>7, <1>8 DEF StreamEnds

\* What a new attempt leaves of the earlier ones.
LEMMA ResumeAdds ==
  ASSUME StopsInv, CommitResume
  PROVE  /\ row'.attempt = row.attempt + 1 /\ owned' = row'.attempt
         /\ row.attempt \in Nat \ {0}
         /\ decisions' \in [Turns -> Decisions]
         /\ \A t \in Turns : /\ decisions'[t].attempt = decisions[t].attempt
                             /\ decisions'[t].outcome = decisions[t].outcome
                             /\ decisions[t].attempt <= row.attempt
                             /\ decisions[t].attempt \in Nat
         /\ eligible' \subseteq eligible \cup {row.attempt + 1}
         /\ ~TurnLive /\ turn.attempt = None
         /\ closure'.attempt = None
         /\ UNCHANGED <<receipts, reports, sessionVars, cascadeVars, handlers, record>>
<1>1. /\ decisions \in [Turns -> Decisions] /\ row.attempt \in Nat \ {0}
  BY DEF StopsInv, Types, StreamTypes, AttemptTypes, Attempts
<1>2. decisions' = [t \in Turns |-> [decisions[t] EXCEPT !.listed = FALSE]]
  BY DEF CommitResume
<1>3. decisions' \in [Turns -> Decisions]
  BY <1>1, <1>2 DEF Decisions
<1>4. \A t \in Turns : /\ decisions'[t].attempt = decisions[t].attempt
                       /\ decisions'[t].outcome = decisions[t].outcome
                       /\ decisions[t].attempt \in Nat
  BY <1>1, <1>2 DEF Decisions
<1>5. \A t \in Turns : decisions[t].attempt <= row.attempt
  BY DEF StopsInv, CurrentInv
<1>6. row'.attempt = row.attempt + 1 /\ owned' = row'.attempt
  BY DEF CommitResume
<1>7. eligible' \subseteq eligible \cup {row.attempt + 1}
  BY <1>6 DEF CommitResume
<1>8. ~TurnLive /\ turn.attempt = None
  BY DEF CommitResume, MayResume, StopsInv, CurrentInv
<1> QED BY <1>1, <1>3, <1>4, <1>5, <1>6, <1>7, <1>8 DEF CommitResume

LEMMA StreamTypesStep ==
  ASSUME StopsInv, Next
  PROVE  StreamTypes'
<1>1. decisions' \in [Turns -> Decisions] /\ handlers' \in [Turns -> HandlerStates]
  <2>1. decisions \in [Turns -> Decisions] /\ handlers \in [Turns -> HandlerStates]
    BY DEF StopsInv, Types, StreamTypes
  <2>2. CASE StreamsGoOn
    BY <2>2 DEF StreamsGoOn, Fades
  <2>3. CASE \E s \in Sends : Start(s)
    BY <2>1, <2>3, StartsClean DEF streamVars
  <2>4. CASE StreamEnds
    BY <2>1, <2>4, StreamEndAdds DEF HandlerStates
  <2>5. CASE CommitResume
    BY <2>1, <2>5, ResumeAdds
  <2> QED BY <2>2, <2>3, <2>4, <2>5, StreamSteps
<1> QED BY <1>1, EventsStep DEF StreamTypes

LEMMA StreamInvStep ==
  ASSUME StopsInv, Next
  PROVE  StreamInv'
<1>1. /\ StreamInv /\ CurrentInv /\ Types /\ handlers \in [Turns -> HandlerStates]
      /\ row.attempt \in Nat \ {0}
  BY DEF StopsInv, Types, StreamTypes, AttemptTypes, Attempts
<1> USE DEF StreamInv, OneUndecidedStream, Pending
<1>2. CASE StreamsGoOn
  <2>1. PICK T \in SUBSET Turns :
          /\ Fades(T)
          /\ \A t \in Turns : handlers'[t] \in Deciding => handlers[t] \in Deciding /\ t \notin T
    BY <1>2 DEF StreamsGoOn
  <2>2. \A t \in Turns : Pending(t)' => Pending(t) /\ decisions'[t].listed = decisions[t].listed
    BY <2>1 DEF Fades
  <2>3. \A t \in Turns : /\ decisions'[t].attempt = decisions[t].attempt
                         /\ decisions'[t].owned = decisions[t].owned
    BY <2>1 DEF Fades
  <2>4. \A t \in Turns : handlers'[t] \in Deciding => Pending(t)'
    BY <1>1, <2>1 DEF Fades
  <2>5. /\ row'.attempt = row.attempt /\ owned' \in {owned, None}
        /\ turn'.phase \in Streams => turn.phase \in Streams /\ turn'.attempt = turn.attempt
    BY <1>2 DEF StreamsGoOn
  <2>6. \A t, u \in Turns : Pending(t)' /\ Pending(u)'
          /\ decisions'[t].attempt = decisions'[u].attempt
                              => t = u
    BY <1>1, <2>2, <2>3
  <2>7. \A t \in Turns : Pending(t)' =>
          /\ decisions'[t].attempt # None
          /\ decisions'[t].attempt = row'.attempt => decisions'[t].listed
          /\ decisions'[t].attempt = owned' => decisions'[t].owned
    BY <1>1, <2>2, <2>3, <2>5
  <2>8. \A t \in Turns : Pending(t)' /\ turn'.phase \in Streams
          => decisions'[t].attempt # turn'.attempt
    BY <1>1, <2>2, <2>3, <2>5 DEF Streams
  <2> QED BY <2>4, <2>6, <2>7, <2>8 DEF Streams
<1>3. ASSUME NEW s \in Sends, Start(s)
      PROVE  StreamInv'
  BY <1>1, <1>3, StartsClean DEF attemptVars, streamVars
<1>4. CASE StreamEnds
  <2>1. \A t \in Turns : t # turn.no => handlers'[t] = handlers[t]
    BY <1>1, <1>4, StreamEndAdds
  <2>2. decisions'[turn.no].outcome = "pending"
    BY <1>4, StreamEndAdds DEF StreamEnds, StopsInv, Types, StreamTypes
  <2>3. turn'.phase \notin Streams
    BY <1>1, <1>4, StreamEndAdds DEF Streams, Types, SessionTypes
  <2>4. \A t \in Turns : t # turn.no => decisions'[t] = decisions[t]
    BY <1>4, StreamEndAdds
  <2>5. /\ decisions'[turn.no].attempt = row.attempt /\ decisions'[turn.no].listed
        /\ decisions'[turn.no].owned = (owned = row.attempt)
        /\ \A t \in Turns : Pending(t) => decisions[t].attempt # row.attempt
        /\ row' = row /\ owned' = owned
    BY <1>4, StreamEndAdds DEF attemptVars
  <2>6. \A t, u \in Turns : Pending(t)' /\ Pending(u)'
          /\ decisions'[t].attempt = decisions'[u].attempt
                              => t = u
    BY <1>1, <2>4, <2>5
  <2>7. \A t \in Turns : handlers'[t] \in Deciding => Pending(t)'
    BY <1>1, <2>1, <2>2, <2>4
  <2>8. \A t \in Turns : Pending(t)' =>
          /\ decisions'[t].attempt # None
          /\ decisions'[t].attempt = row'.attempt => decisions'[t].listed
          /\ decisions'[t].attempt = owned' => decisions'[t].owned
    BY <1>1, <2>4, <2>5 DEF None
  <2> QED BY <2>3, <2>6, <2>7, <2>8 DEF Streams
<1>5. CASE CommitResume
  <2>1. turn'.phase \notin Streams
    BY <1>5, ResumeAdds DEF sessionVars, TurnLive, Streams
  <2> QED BY <1>1, <1>5, <2>1, ResumeAdds DEF Streams
<1> QED BY <1>2, <1>3, <1>4, <1>5, StreamSteps

\* Only a report's own write marks an owned attempt that may leave a receipt as
\* reported, and only its publication ends that.
LEMMA ReportInvStep ==
  ASSUME StopsInv, Next
  PROVE  ReportInv'
<1> SUFFICES ASSUME owned' \in reports' \cap eligible'
             PROVE  \E t \in Turns : handlers'[t] = "publishing"
                      /\ decisions'[t].attempt = owned'
  BY DEF ReportInv
<1>1. /\ Types /\ CurrentInv /\ ReportInv /\ StreamInv
      /\ handlers \in [Turns -> HandlerStates] /\ decisions \in [Turns -> Decisions]
      /\ row.attempt \in Nat \ {0}
  BY DEF StopsInv, Types, StreamTypes, AttemptTypes, Attempts
<1>2. LedgersMove
  BY LedgerSteps
<1>3. CASE CommitResume
  BY <1>1, <1>3, ResumeAdds DEF CurrentInv
<1>4. CASE ~CommitResume
  <2>1. owned' \in {owned, None} /\ row'.attempt = row.attempt
    BY <1>4, StreamSteps, StartsClean, StreamEndAdds DEF StreamsGoOn, attemptVars
  <2>2. owned' # None
    BY <1>1, <1>2 DEF CurrentInv, LedgersMove, None
  <2>3. owned' = owned /\ owned = row.attempt
    BY <1>1, <2>1, <2>2 DEF CurrentInv
  <2>4. CASE owned \notin reports
    <3>1. PICK t \in Turns : /\ decisions'[t] = decisions[t]
                                 /\ decisions[t].attempt = row.attempt
                             /\ handlers'[t] = "publishing"
      BY <1>2, <2>3, <2>4 DEF LedgersMove
    <3> QED BY <2>3, <3>1
  <2>5. CASE owned \in reports
    <3>1. owned \in eligible
      BY <1>4, <2>3, StreamSteps, StartsClean, StreamEndAdds DEF StreamsGoOn, attemptVars
    <3>2. PICK t \in Turns : handlers[t] = "publishing" /\ decisions[t].attempt = owned
      BY <1>1, <2>5, <3>1 DEF ReportInv
    <3>3. Pending(t) /\ handlers[t] \in Deciding
      BY <1>1, <3>2 DEF StreamInv, Deciding
    <3>4. CASE Publish(t)
      <4>1. decisions[t].owned
        BY <1>1, <3>2, <3>3 DEF StreamInv
      <4>2. CASE Resolve(t, "indeterminate")
        <5>1. eligible' = eligible \ {owned}
          BY <1>1, <3>2, <3>3, <4>1, <4>2, ResolveDoes
        <5> QED BY <2>3, <5>1
      <4>3. CASE owned' = None
        BY <2>2, <4>3
      <4> QED BY <3>2, <3>4, <4>1, <4>2, <4>3 DEF Publish
    <3>5. CASE ~Publish(t)
      <4>1. handlers'[t] = "publishing" /\ decisions'[t].attempt = decisions[t].attempt
        <5>1. CASE StreamsGoOn
          BY <3>2, <3>5, <5>1 DEF StreamsGoOn, Fades
        <5>2. CASE \E s \in Sends : Start(s)
          BY <3>2, <5>2, StartsClean DEF streamVars
        <5>3. CASE StreamEnds
          BY <1>1, <2>3, <3>2, <3>3, <5>3, StreamEndAdds
        <5> QED BY <1>4, <5>1, <5>2, <5>3, StreamSteps
      <4> QED BY <2>3, <3>2, <4>1
    <3> QED BY <3>4, <3>5
  <2> QED BY <2>4, <2>5
<1> QED BY <1>3, <1>4

-----------------------------------------------------------------------------
(* The current attempt.                                                    *)

LEMMA RowStays ==
  ASSUME StopsInv, Next, ~CommitResume
  PROVE  /\ row'.attempt = row.attempt /\ owned' \in {owned, None}
         /\ eligible' \subseteq eligible
BY StreamSteps, StartsClean, StreamEndAdds DEF StreamsGoOn, attemptVars

\* A stream end keeps its attempt, and becomes undecided only when its stream ends.
LEMMA DecisionSteps ==
  ASSUME StopsInv, Next, NEW t \in Turns
  PROVE  \/ /\ decisions'[t].attempt = decisions[t].attempt
            /\ Pending(t)' => Pending(t)
         \/ decisions'[t].attempt = row.attempt /\ StreamEnds
<1>1. CASE StreamsGoOn
  BY <1>1 DEF StreamsGoOn, Fades, Pending
<1>2. CASE \E s \in Sends : Start(s)
  BY <1>2, StartsClean DEF streamVars, Pending
<1>3. CASE StreamEnds
  BY <1>3, StreamEndAdds DEF Pending
<1>4. CASE CommitResume
  BY <1>4, ResumeAdds DEF Pending
<1> QED BY <1>1, <1>2, <1>3, <1>4, StreamSteps

\* A turn goes on with its attempt, ends, or starts for the current attempt.
LEMMA TurnSteps ==
  ASSUME StopsInv, Next
  PROVE  \/ (TurnLive' <=> TurnLive) /\ turn'.attempt = turn.attempt
         \/ ~TurnLive' /\ turn'.attempt = None
         \/ \E s \in Sends : Start(s)
<1> DEFINE Goal == \/ (TurnLive' <=> TurnLive) /\ turn'.attempt = turn.attempt
                   \/ ~TurnLive' /\ turn'.attempt = None
<1>1. turn \in [no : 0 .. MaxTurns, attempt : Nat,
                phase : {"none", "preparing", "streaming", "aborted", "ended"}]
  BY DEF StopsInv, Types, SessionTypes
<1>2. ASSUME UNCHANGED turn
      PROVE  Goal
  BY <1>2 DEF TurnLive
<1>3. ASSUME NEW s \in Sends, Admit(s) \/ Enqueue(s) \/ Dispose(s)
      PROVE  Goal
  BY <1>2, <1>3 DEF Admit, Enqueue, Dispose
<1>4. CASE StreamStarts \/ StreamAborts \/ StreamEnds
  BY <1>1, <1>4 DEF StreamStarts, StreamAborts, StreamEnds, TurnLive
<1>5. CASE TurnSettles
  BY <1>1, <1>5 DEF TurnSettles, TurnLive
<1>6. CASE RegisterExecution \/ TurnEndsForExecution
  BY <1>2, <1>6 DEF RegisterExecution, TurnEndsForExecution, SettleExecution
<1>7. ASSUME NEW t \in Turns, \/ ReadRow(t) \/ EndsWithoutReport(t) \/ HasReport(t) \/ Defer(t)
                              \/ Rerun(t) \/ Commit(t) \/ Publish(t)
      PROVE  Goal
  BY <1>2, <1>7 DEF ReadRow, EndsWithoutReport, HasReport, Defer, Rerun, Commit, Publish,
     handlerFrame, sessionVars
<1>8. ASSUME NEW c \in Callers, Latch(c) \/ Mark(c) \/ MarkFails(c) \/ BeginCleanup(c)
      PROVE  Goal
  BY <1>2, <1>8 DEF Latch, Mark, MarkFails, BeginCleanup, sessionVars
<1>9. ASSUME NEW c \in Callers, StopStream(c)
      PROVE  Goal
  BY <1>1, <1>9 DEF StopStream, TurnLive
<1>10. ASSUME NEW i \in Interrupters, OwnerInterrupts \/ InterruptExecution(i) \/ EndInterrupt(i)
       PROVE  Goal
  BY <1>2, <1>10 DEF OwnerInterrupts, InterruptExecution, EndInterrupt, sessionVars
<1>11. CASE FinishReceipt
  BY <1>2, <1>11 DEF FinishReceipt, sessionVars
<1>12. ASSUME NEW f \in Failures, \/ CloseForFailure(f) \/ LatchFailure(f) \/ PersistFailure(f)
                                  \/ SettleFailure(f) \/ FinishFailure(f)
       PROVE  Goal
  BY <1>2, <1>12 DEF CloseForFailure, LatchFailure, PersistFailure, SettleFailure,
     FinishFailure, sessionVars
<1>13. CASE BeginResume \/ RefuseResume \/ CommitResume
  BY <1>2, <1>13 DEF BeginResume, RefuseResume, CommitResume, sessionVars
<1>14. CASE Drain \/ \E l \in Launches : Launch(l) \/ Revert(l) \/ HandOver(l)
  BY <1>2, <1>14 DEF Drain, Launch, Revert, HandOver, launchFrame, sessionVars
<1> QED
  BY <1>3, <1>4, <1>5, <1>6, <1>7, <1>8, <1>9, <1>10, <1>11, <1>12, <1>13, <1>14
     DEF Next, Interrupters

\* The closure stays, moves to the current attempt, or opens the attempt whose
\* undecided stream end published its report.
LEMMA ClosureSteps ==
  ASSUME StopsInv, Next, ~CommitResume
  PROVE  \/ closure'.attempt \in {closure.attempt, row.attempt}
         \/ /\ closure'.attempt = None
            /\ \E t \in Turns : Pending(t) /\ decisions[t].attempt = closure.attempt
<1>1. ASSUME UNCHANGED closure
      PROVE  closure'.attempt = closure.attempt
  BY <1>1
<1>2. ASSUME NEW rec, NEW cl, Accounts(rec), Rechecks(rec, cl), ClosureMoves(cl)
      PROVE  closure'.attempt \in {cl.attempt, row.attempt}
  <2>1. RecordSettled(rec) => rec.attempt = row.attempt /\ rec.attempt \in Nat
    BY <1>2 DEF RecordSettled, Accounts, Stopping, StopsInv, CurrentInv, Records
  <2>2. CASE Keeps(rec, cl)
    BY <2>2 DEF Keeps
  <2>3. CASE Claims(rec, cl)
    BY <1>2, <2>1, <2>3, ClosedIs DEF Claims, ClosureMoves
  <2>4. CASE Releases(rec, cl)
    BY <2>1, <2>4 DEF Releases
  <2> QED BY <1>2, <2>2, <2>3, <2>4 DEF Rechecks
<1>3. ASSUME NEW rec, NEW cl, Accounts(rec), Rechecks(rec, cl), ClosureMoves(cl)
      PROVE  \/ closure'.attempt \in {closure.attempt, row.attempt}
             \/ /\ closure'.attempt = None
                /\ \E t \in Turns : Pending(t) /\ decisions[t].attempt = closure.attempt
  BY <1>2, <1>3 DEF ClosureMoves
<1>4. ASSUME NEW c \in Callers, Latch(c) \/ BeginCleanup(c)
      PROVE  UNCHANGED closure
  BY <1>4 DEF Latch, BeginCleanup
<1>5. ASSUME NEW f \in Failures, LatchFailure(f)
      PROVE  UNCHANGED closure
  BY <1>5 DEF LatchFailure
<1>6. ASSUME NEW i \in Interrupters, OwnerInterrupts \/ EndInterrupt(i)
      PROVE  UNCHANGED closure
  BY <1>6 DEF OwnerInterrupts, EndInterrupt
<1>7. ASSUME Drain \/ \E l \in Launches : Launch(l) \/ HandOver(l)
      PROVE  UNCHANGED closure
  BY <1>7 DEF Drain, Launch, HandOver, launchFrame
<1> QED BY <1>1, <1>3, <1>4, <1>5, <1>6, <1>7, EveryStepAccounts DEF Interrupters

\* A stop record is one of the current attempt; it starts a receipt only when due.
LEMMA RecordSteps ==
  ASSUME StopsInv, Next, Stopping'
  PROVE  /\ record'.attempt = row.attempt
         /\ record'.receipt = "writing" =>
              \/ record.receipt = "writing" /\ record.attempt = row.attempt
              \/ ReceiptDue(row.attempt) /\ closure'.attempt = row.attempt
<1> DEFINE Goal == /\ record'.attempt = row.attempt
                   /\ record'.receipt = "writing" =>
                        \/ record.receipt = "writing" /\ record.attempt = row.attempt
                        \/ ReceiptDue(row.attempt) /\ closure'.attempt = row.attempt
<1>1. /\ record \in Records
      /\ Stopping => record.attempt = row.attempt
  BY DEF StopsInv, Types, StopTypes, CurrentInv
<1>2. ASSUME NEW rec, NEW cl, Accounts(rec), Rechecks(rec, cl), ClosureMoves(cl)
      PROVE  Goal
  <2>1. rec.releases = record.releases /\ rec \in Records
    BY <1>2 DEF Accounts
  <2>2. CASE Keeps(rec, cl)
    BY <1>1, <1>2, <2>1, <2>2 DEF Keeps, Accounts, Stopping
  <2>3. CASE Claims(rec, cl)
    <3>1. Stopping /\ rec.attempt = row.attempt /\ rec.attempt \in Nat
      BY <1>1, <1>2, <2>1, <2>3 DEF Claims, RecordSettled, Accounts, Stopping, Records
    <3>2. record'.attempt = row.attempt
      BY <2>1, <2>3, <3>1 DEF Claims, Records
    <3>3. closure'.attempt = row.attempt
      BY <1>2, <2>3, <3>1, ClosedIs DEF Claims, ClosureMoves
    <3> QED BY <2>3, <3>1, <3>2, <3>3 DEF Claims
  <2>4. CASE Releases(rec, cl)
    BY <2>4 DEF Releases, Stopping, NoRecord
  <2> QED BY <1>2, <2>2, <2>3, <2>4 DEF Rechecks
<1>3. ASSUME UNCHANGED record
      PROVE  Goal
  BY <1>1, <1>3 DEF Stopping
<1>4. ASSUME NEW c \in Callers, Latch(c)
      PROVE  Goal
  BY <1>4, BeginStopKeepsStopParts DEF Latch, attemptVars
<1>5. ASSUME NEW f \in Failures, LatchFailure(f)
      PROVE  Goal
  BY <1>5, BeginStopKeepsStopParts DEF LatchFailure, attemptVars, Callers
<1>6. ASSUME NEW c \in Callers, BeginCleanup(c)
      PROVE  Goal
  <2>1. record' = [record EXCEPT !.sends = @ \ Queued]
    BY <1>6 DEF BeginCleanup
  <2>2. record'.attempt = record.attempt /\ record'.receipt = record.receipt
    BY <1>1, <2>1 DEF Records
  <2>3. Stopping
    BY <1>6, OwingStops DEF BeginCleanup, OwingPlaces
  <2> QED BY <1>1, <2>2, <2>3
<1>7. ASSUME NEW i \in Interrupters, OwnerInterrupts \/ EndInterrupt(i)
      PROVE  UNCHANGED record
  BY <1>7 DEF OwnerInterrupts, EndInterrupt
<1>8. ASSUME CommitResume \/ Drain \/ \E l \in Launches : Launch(l) \/ HandOver(l)
      PROVE  UNCHANGED record
  BY <1>8 DEF CommitResume, Drain, Launch, HandOver, launchFrame
<1> HIDE DEF Goal
<1>9. Goal
  BY <1>2, <1>3, <1>4, <1>5, <1>6, <1>7, <1>8, EveryStepAccounts DEF Interrupters
<1> QED BY <1>9 DEF Goal

LEMMA CurrentInvStep ==
  ASSUME StopsInv, Next
  PROVE  CurrentInv'
<1>1. /\ CurrentInv /\ ClaimInv /\ Types
      /\ row.attempt \in Nat \ {0} /\ row.attempt \in Attempts
      /\ \A f \in Failures : failed[f] \in Nat
      /\ \A s \in Sends : sends[s].attempt \in Nat
      /\ \A t \in Turns : decisions[t].attempt \in Nat
  <2>1. CurrentInv /\ ClaimInv /\ Types
    BY DEF StopsInv
  <2>2. row.attempt \in Nat \ {0} /\ row.attempt \in Attempts
    BY <2>1, BoundsAreNatural DEF Types, AttemptTypes, Attempts
  <2>3. \A f \in Failures : failed[f] \in Nat
    BY <2>1 DEF Types, CascadeTypes
  <2>4. \A s \in Sends : sends[s].attempt \in Nat
    BY <2>1 DEF Types, SessionTypes, SendRecords
  <2>5. \A t \in Turns : decisions[t].attempt \in Nat
    BY <2>1 DEF Types, StreamTypes, Decisions
  <2> QED BY <2>1, <2>2, <2>3, <2>4, <2>5
<1>2. LedgersMove
  BY LedgerSteps
<1>3. Claimed \subseteq 1 .. row.attempt
  <2> SUFFICES ASSUME NEW a \in Claimed
               PROVE  a \in 1 .. row.attempt
    OBVIOUS
  <2>1. a \in receipts \/ a \in Attempts
    BY DEF Claimed
  <2>2. CASE a \in receipts
    BY <1>1, <2>2 DEF CurrentInv
  <2>3. CASE a \in Attempts
    <3>1. a <= row.attempt
      BY <1>1, <2>3 DEF ClaimInv
    <3> QED BY <1>1, <2>3, <3>1 DEF Attempts
  <2> QED BY <2>1, <2>2, <2>3
<1>4. Stopping' => record'.attempt = row.attempt
  BY RecordSteps
<1>5. \A f \in Failures : pc'[f] = "settling" => failed'[f] # None
  BY <1>2 DEF LedgersMove
<1>6. CASE CommitResume
  <2>1. ~Stopping'
    <3>1. latch = 0 /\ UNCHANGED record
      BY <1>6 DEF CommitResume, MayResume
    <3> QED BY <3>1, LatchDown DEF Stopping
  <2>2. IF TurnLive' THEN turn'.attempt = row'.attempt ELSE turn'.attempt = None
    BY <1>6, ResumeAdds DEF sessionVars, TurnLive
  <2>3. receipts' \cup reports' \cup eligible' \subseteq 1 .. row'.attempt
    <3>1. receipts' \cup reports' \cup eligible'
            \subseteq receipts \cup reports \cup eligible \cup {row.attempt + 1}
      BY <1>6, ResumeAdds
    <3>2. receipts \cup reports \cup eligible \subseteq 1 .. row.attempt
      BY <1>1 DEF CurrentInv
    <3>3. 1 .. row.attempt \subseteq 1 .. (row.attempt + 1)
            /\ row.attempt + 1 \in 1 .. (row.attempt + 1)
      BY <1>1
    <3>4. row'.attempt = row.attempt + 1
      BY <1>6, ResumeAdds
    <3> QED BY <3>1, <3>2, <3>3, <3>4
  <2>4. \A f \in Failures : failed'[f] <= row'.attempt
    BY <1>1, <1>6, ResumeAdds DEF CurrentInv, cascadeVars
  <2>5. \A t \in Turns : decisions'[t].attempt <= row'.attempt
    BY <1>1, <1>6, ResumeAdds
  <2>6. \A s \in Sends : sends'[s].attempt <= row'.attempt
    BY <1>1, <1>6, ResumeAdds DEF CurrentInv, sessionVars
  <2> QED BY <1>5, <1>6, <2>1, <2>2, <2>3, <2>4, <2>5, <2>6, ResumeAdds DEF CurrentInv
<1>7. CASE ~CommitResume
  <2>1. row'.attempt = row.attempt /\ owned' \in {owned, None} /\ eligible' \subseteq eligible
    BY <1>7, RowStays
  <2>2. closure'.attempt \in {None, row.attempt}
    BY <1>1, <1>7, ClosureSteps DEF CurrentInv
  <2>3. IF TurnLive' THEN turn'.attempt = row.attempt ELSE turn'.attempt = None
    BY <1>1, TurnSteps, StartsClean DEF CurrentInv
  <2>4. receipts' \cup reports' \cup eligible' \subseteq 1 .. row.attempt
    <3>1. receipts' \subseteq 1 .. row.attempt
      BY <1>2, <1>3 DEF LedgersMove
    <3>2. reports \cup eligible \subseteq 1 .. row.attempt
      BY <1>1 DEF CurrentInv
    <3>3. row.attempt \in 1 .. row.attempt
      BY <1>1
    <3>4. reports' \subseteq reports \cup {row.attempt}
      BY <1>2 DEF LedgersMove
    <3> QED BY <2>1, <3>1, <3>2, <3>3, <3>4
  <2>5. \A f \in Failures : failed'[f] <= row.attempt
    BY <1>1, <1>2 DEF CurrentInv, LedgersMove, None
  <2>6. \A t \in Turns : decisions'[t].attempt <= row.attempt
    BY <1>1, DecisionSteps DEF CurrentInv
  <2>7. \A s \in Sends : sends'[s].attempt <= row.attempt
    <3>1. CASE SendsGoOn
      BY <1>1, <3>1 DEF SendsGoOn, CurrentInv
    <3>2. CASE \E s \in Sends : Admit(s)
      BY <1>1, <3>2 DEF Admit, CurrentInv, Types, SessionTypes
    <3> QED BY <3>1, <3>2, SendSteps
  <2> QED BY <1>1, <1>4, <1>5, <2>1, <2>2, <2>3, <2>4, <2>5, <2>6, <2>7 DEF CurrentInv
<1> QED BY <1>6, <1>7

-----------------------------------------------------------------------------
(* Receipts.                                                               *)

\* Whatever is claimed was claimed before, or is due now and closed.
LEMMA ClaimedSteps ==
  ASSUME StopsInv, Next, CurrentInv', RecordInv', NEW a \in Attempts, a \in Claimed'
  PROVE  a \in Claimed \/ (ReceiptDue(a) /\ closure'.attempt = a)
<1>1. LedgersMove
  BY LedgerSteps
<1>2. CASE a \in receipts'
  BY <1>1, <1>2 DEF LedgersMove
<1>3. CASE record'.receipt = "writing" /\ record'.attempt = a
  <2>1. Stopping'
    BY <1>3 DEF RecordInv, NoRecord
  <2> QED BY <1>3, <2>1, RecordSteps DEF Claimed
<1>4. ASSUME NEW f \in Failures, pc'[f] = "settling", failed'[f] = a
      PROVE  a \in Claimed \/ (ReceiptDue(a) /\ closure'.attempt = a)
  BY <1>1, <1>4 DEF LedgersMove, Claimed
<1> QED BY <1>2, <1>3, <1>4 DEF Claimed

\* An attempt whose receipt is due is quiet: it cannot have reported, for its stream
\* end would still be undecided.
LEMMA DueIsQuiet ==
  ASSUME StopsInv, CurrentInv', StreamInv', ReportInv', StreamTypes',
         NEW a \in Attempts, ReceiptDue(a)
  PROVE  /\ a = row'.attempt /\ a \notin reports' /\ turn'.attempt # a
         /\ \A t \in Turns : Pending(t)' => decisions'[t].attempt # a
         /\ \A s \in Sends : sends'[s].state \in Undecided => sends'[s].attempt # a
<1>1. a = row'.attempt /\ a = owned' /\ a \in eligible' /\ a # None
  BY DEF ReceiptDue, MayLeaveReceipt
<1>2. \A t \in Turns : decisions'[t].listed /\ decisions'[t].attempt = a
                         => decisions'[t].outcome # "pending"
  <2>1. OutcomeOf(decisions', a) # "pending"
    BY DEF ReceiptDue, CannotStillReport
  <2>2. decisions' \in [Turns -> Decisions]
    BY DEF StreamTypes
  <2> QED BY <2>1, <2>2, OutcomeIsDecided
<1>3. \A t \in Turns : Pending(t)' => decisions'[t].attempt # a
  BY <1>1, <1>2 DEF StreamInv, Pending
<1>4. a \notin reports'
  <2> SUFFICES ASSUME a \in reports'
               PROVE  FALSE
    OBVIOUS
  <2>1. PICK t \in Turns : handlers'[t] = "publishing" /\ decisions'[t].attempt = a
    BY <1>1 DEF ReportInv
  <2>2. Pending(t)'
    BY <2>1 DEF StreamInv, Deciding
  <2> QED BY <1>3, <2>1, <2>2
<1>5. turn'.attempt # a
  BY <1>1 DEF CurrentInv, TurnLive, ReceiptDue, CannotStillReport
<1>6. \A s \in Sends : sends'[s].state \in Undecided => sends'[s].attempt # a
  BY DEF ReceiptDue, CannotStillReport, Undecided
<1> QED BY <1>1, <1>3, <1>4, <1>5, <1>6

LEMMA ClaimInvStep ==
  ASSUME StopsInv, Next, CurrentInv', RecordInv', StreamInv', ReportInv', StreamTypes'
  PROVE  ClaimInv'
<1> SUFFICES ASSUME NEW a \in Attempts, a \in Claimed'
             PROVE  /\ a <= row'.attempt
                    /\ a = row'.attempt => closure'.attempt = a
                    /\ a \notin reports'
                    /\ turn'.attempt # a
                    /\ \A t \in Turns : Pending(t)' => decisions'[t].attempt # a
                    /\ \A s \in Sends : sends'[s].state \in Undecided => sends'[s].attempt # a
  BY DEF ClaimInv
<1>1. a \in Nat \ {0} /\ row.attempt \in Nat \ {0} /\ CurrentInv /\ Types
  BY BoundsAreNatural DEF Attempts, StopsInv, Types, AttemptTypes
<1>2. CASE ReceiptDue(a) /\ closure'.attempt = a
  BY <1>1, <1>2, DueIsQuiet
<1>3. CASE a \in Claimed
  <2>1. /\ a <= row.attempt
        /\ a = row.attempt => closure.attempt = a
        /\ a \notin reports
        /\ turn.attempt # a
        /\ \A t \in Turns : Pending(t) => decisions[t].attempt # a
        /\ \A s \in Sends : sends[s].state \in Undecided => sends[s].attempt # a
    BY <1>3 DEF StopsInv, ClaimInv
  <2>2. a \notin reports'
    BY <2>1, LedgerSteps DEF LedgersMove
  <2>3. turn'.attempt # a
    BY <1>1, <2>1, TurnSteps, StartsClean DEF None
  <2>4. \A t \in Turns : Pending(t)' => decisions'[t].attempt # a
    <3>1. StreamEnds => row.attempt # a
      BY <2>1, StreamEndAdds
    <3> QED BY <2>1, <3>1, DecisionSteps
  <2>5. \A s \in Sends : sends'[s].state \in Undecided => sends'[s].attempt # a
    <3>1. CASE SendsGoOn
      BY <2>1, <3>1 DEF SendsGoOn
    <3>2. ASSUME NEW r \in Sends, Admit(r)
          PROVE  \A s \in Sends : sends'[s].state \in Undecided => sends'[s].attempt # a
      <4>1. a # row.attempt
        BY <2>1, <3>2 DEF Admit, AdmissionOpen
      <4> QED BY <1>1, <2>1, <3>2, <4>1 DEF Admit, Types, SessionTypes
    <3> QED BY <3>1, <3>2, SendSteps
  <2>6. a <= row'.attempt /\ (a = row'.attempt => closure'.attempt = a)
    <3>1. CASE CommitResume
      BY <1>1, <2>1, <3>1, ResumeAdds
    <3>2. CASE ~CommitResume
      BY <2>1, <3>2, RowStays, ClosureSteps
    <3> QED BY <3>1, <3>2
  <2> QED BY <2>2, <2>3, <2>4, <2>5, <2>6
<1> QED BY <1>2, <1>3, ClaimedSteps

-----------------------------------------------------------------------------
(* Launches of the queued task.                                            *)

\* A recheck that the latch owes is owed until the latch drops, and drained then.
LEMMA RechecksStayOwed ==
  ASSUME StopsInv, Next, UNCHANGED launchVars, ~Drain,
         \A l \in Launches : ~Launch(l) /\ ~HandOver(l)
  PROVE  /\ drain => drain'
         /\ owes /\ latch > 0 => drain' \/ (owes' /\ latch' > 0)
<1> DEFINE Goal == /\ drain => drain'
                   /\ owes /\ latch > 0 => drain' \/ (owes' /\ latch' > 0)
<1>1. latch \in Nat /\ owes \in BOOLEAN /\ drain \in BOOLEAN /\ record \in Records
  BY DEF StopsInv, Types, StopTypes
<1>2. ASSUME UNCHANGED <<owes, drain>>, latch' \in {latch, latch + 1}
      PROVE  Goal
  BY <1>1, <1>2
<1>3. ASSUME NEW n \in Nat, DropLatch(n)
      PROVE  Goal
  BY <1>1, <1>3 DEF DropLatch
<1>4. ASSUME NEW rec, NEW cl, Accounts(rec), Rechecks(rec, cl)
      PROVE  Goal
  <2>1. CASE UNCHANGED <<latch, owes, drain>>
    BY <1>2, <2>1
  <2>2. CASE Releases(rec, cl)
    <3>1. rec.releases \in Nat
      BY <1>4 DEF Accounts, Records
    <3> QED BY <1>3, <2>2, <3>1 DEF Releases
  <2> QED BY <1>4, <2>1, <2>2 DEF Rechecks, Keeps, Claims
<1>5. ASSUME NEW c \in Callers, Latch(c) \/ BeginCleanup(c)
      PROVE  Goal
  BY <1>1, <1>2, <1>5 DEF Latch, BeginStop, BeginCleanup
<1>6. ASSUME NEW f \in Failures, LatchFailure(f)
      PROVE  Goal
  BY <1>1, <1>2, <1>6 DEF LatchFailure, BeginStop
<1>7. ASSUME OwnerInterrupts \/ CommitResume
      PROVE  Goal
  BY <1>1, <1>2, <1>7 DEF OwnerInterrupts, CommitResume
<1>8. ASSUME NEW i \in Interrupters, EndInterrupt(i)
      PROVE  Goal
  BY <1>3, <1>8 DEF EndInterrupt
<1> HIDE DEF Goal
<1>9. ~Drain /\ ~\E l \in Launches : Launch(l) \/ HandOver(l)
  OBVIOUS
<1>10. Goal
  BY <1>4, <1>5, <1>6, <1>7, <1>8, <1>9, EveryStepAccounts DEF Interrupters
<1> QED BY <1>10 DEF Goal

LEMMA LaunchInvStep ==
  ASSUME StopsInv, Next
  PROVE  NoLaunchIsStranded'
<1>1. /\ latch \in Nat /\ owes \in BOOLEAN /\ drain \in BOOLEAN /\ NoLaunchIsStranded
      /\ job \in {"none", "queued", "starting", "launched"}
      /\ launches \in [Launches -> {"none", "launching", "reverting", "checking", "done"}]
  BY DEF StopsInv, Types, StopTypes, LaunchTypes
<1>2. CASE Drain
  <2>1. CASE UNCHANGED launchVars /\ (job # "queued" \/ (latch > 0 /\ owes'))
    BY <1>1, <1>2, <2>1 DEF NoLaunchIsStranded, launchVars, Drain, launchFrame
  <2>2. ASSUME job' = "starting",
               NEW l \in Launches, launches' = [launches EXCEPT ![l] = "launching"]
        PROVE  NoLaunchIsStranded'
    BY <1>1, <2>2 DEF NoLaunchIsStranded
  <2> QED BY <1>1, <1>2, <2>1, <2>2 DEF Drain
<1>3. ASSUME NEW l \in Launches, Launch(l)
      PROVE  NoLaunchIsStranded'
  BY <1>1, <1>3 DEF NoLaunchIsStranded, Launch
<1>4. ASSUME NEW l \in Launches, Revert(l)
      PROVE  NoLaunchIsStranded'
  BY <1>1, <1>4 DEF NoLaunchIsStranded, Revert
<1>5. ASSUME NEW l \in Launches, HandOver(l)
      PROVE  NoLaunchIsStranded'
  <2>1. /\ launches[l] = "checking" /\ launches' = [launches EXCEPT ![l] = "done"]
        /\ UNCHANGED <<job, latch>>
        /\ owes' = (owes \/ latch > 0) /\ drain' = (drain \/ latch = 0)
    BY <1>5 DEF HandOver, launchFrame
  <2>2. drain' \/ (owes' /\ latch' > 0)
    <3>1. CASE latch = 0
      BY <2>1, <3>1, Zenon
    <3>2. CASE latch > 0
      <4>1. owes'
        BY <2>1, <3>2, Zenon
      <4>2. latch' > 0
        BY <2>1, <3>2
      <4> QED BY <4>1, <4>2
    <3> QED BY <1>1, <3>1, <3>2
  <2>3. job' = "starting" => \E k \in Launches : launches'[k] \in {"launching", "reverting"}
    BY <1>1, <2>1 DEF NoLaunchIsStranded
  <2> QED BY <2>2, <2>3 DEF NoLaunchIsStranded
<1>6. CASE /\ UNCHANGED launchVars /\ ~Drain
           /\ \A l \in Launches : ~Launch(l) /\ ~HandOver(l)
  <2>1. /\ drain => drain'
        /\ owes /\ latch > 0 => drain' \/ (owes' /\ latch' > 0)
    BY <1>6, RechecksStayOwed
  <2> QED BY <1>1, <1>6, <2>1 DEF NoLaunchIsStranded, launchVars
<1> QED BY <1>2, <1>3, <1>4, <1>5, <1>6, LaunchSteps

-----------------------------------------------------------------------------
(* The invariant.                                                          *)

LEMMA StopsInvInit ==
  ASSUME Init
  PROVE  StopsInv
<1> USE DEF Init, None
<1>1. Types
  <2>1. AttemptTypes
    BY BoundsAreNatural DEF AttemptTypes, Attempts, Statuses
  <2>2. SessionTypes
    <3>1. PICK coming \in SUBSET Sends :
            sends = [s \in Sends |-> [state |-> IF s \in coming THEN "idle" ELSE "discharged",
                                      attempt |-> None, owned |-> FALSE]]
      OBVIOUS
    <3>2. sends \in [Sends -> SendRecords]
      BY <3>1 DEF SendRecords
    <3>3. 0 \in 0 .. MaxTurns
      BY BoundsAreNatural
    <3> QED BY <3>2, <3>3 DEF SessionTypes, TurnLive
  <2>3. StreamTypes
    BY DEF StreamTypes, Decisions, HandlerStates, NoDecision, Statuses
  <2>4. CascadeTypes
    BY DEF CascadeTypes, Places, NoResume
  <2>5. StopTypes
    BY DEF StopTypes, Closures, Records, NoRecord
  <2>6. LaunchTypes
    BY DEF LaunchTypes
  <2> QED BY <2>1, <2>2, <2>3, <2>4, <2>5, <2>6 DEF Types
<1>2. \A t \in Turns : /\ decisions[t].attempt = 0 /\ decisions[t].outcome = "none"
                       /\ handlers[t] = "none"
  BY DEF NoDecision
<1>3. \A s \in Sends : sends[s].attempt = 0 /\ sends[s].state \notin Undecided
  BY DEF Undecided
<1>4. ~Stopping
  BY DEF Stopping, NoRecord
<1>5. CurrentInv
  <2>1. \A f \in Failures : pc[f] # "settling" /\ failed[f] = 0
    BY DEF Callers
  <2>2. ~TurnLive /\ turn.attempt = 0 /\ row.attempt = 1 /\ closure.attempt = 0
    BY DEF TurnLive
  <2> QED BY <1>2, <1>3, <1>4, <2>1, <2>2 DEF CurrentInv
<1>6. LatchInv
  <2>1. Held = {}
    BY DEF Held
  <2>2. \A c \in Callers : interrupts[c] # "held" /\ pc[c] # "interrupting"
    OBVIOUS
  <2>3. IsFiniteSet(Held) /\ Cardinality(Held) = 0
    BY <2>1, FS_EmptySet
  <2>4. LatchIsCounted
    BY <2>3 DEF LatchIsCounted, Held, NoRecord
  <2> QED BY <2>2, <2>3, <2>4 DEF LatchInv
<1>7. RecordInv
  <2>1. Owing = {}
    BY DEF Owing, OwingPlaces
  <2>2. IsFiniteSet(Owing) /\ Cardinality(Owing) = 0
    BY <2>1, FS_EmptySet
  <2> QED BY <2>2 DEF RecordInv, NoRecord
<1>8. CapturesAreComplete
  BY <1>4 DEF CapturesAreComplete
<1>9. StreamInv
  BY <1>2 DEF StreamInv, OneUndecidedStream, Pending, Deciding
<1>10. ReportInv
  BY DEF ReportInv
<1>11. ClaimInv
  <2>1. \A f \in Failures : pc[f] # "settling"
    BY DEF Callers
  <2>2. Claimed = {}
    BY <2>1 DEF Claimed, NoRecord
  <2> QED BY <2>2 DEF ClaimInv
<1>12. NoLaunchIsStranded
  BY DEF NoLaunchIsStranded
<1> QED BY <1>1, <1>5, <1>6, <1>7, <1>8, <1>9, <1>10, <1>11, <1>12 DEF StopsInv

LEMMA StopsInvNext ==
  ASSUME StopsInv, [Next]_vars
  PROVE  StopsInv'
<1>1. CASE Next
  <2>1. AttemptTypes' /\ SessionTypes' /\ CascadeTypes' /\ LaunchTypes' /\ StreamTypes'
    BY <1>1, AttemptTypesStep, SessionTypesStep, CascadeTypesStep, LaunchTypesStep, StreamTypesStep
  <2>2. StopParts'
    BY <1>1, StopPartsStep
  <2>3. StreamInv' /\ ReportInv' /\ CurrentInv' /\ NoLaunchIsStranded'
    BY <1>1, StreamInvStep, ReportInvStep, CurrentInvStep, LaunchInvStep
  <2>4. StopTypes' /\ LatchInv' /\ RecordInv' /\ CapturesAreComplete'
    BY <2>2 DEF StopParts
  <2>5. ClaimInv'
    BY <1>1, <2>1, <2>3, <2>4, ClaimInvStep
  <2> QED BY <2>1, <2>3, <2>4, <2>5 DEF StopsInv, Types
<1>2. CASE UNCHANGED vars
  <2> USE <1>2 DEF vars, attemptVars, sessionVars, streamVars, cascadeVars, launchVars, releaseVars
  <2>1. Types'
    BY DEF StopsInv, Types, AttemptTypes, SessionTypes, StreamTypes, CascadeTypes, StopTypes,
       LaunchTypes, TurnLive
  <2>2. CurrentInv' /\ LatchInv' /\ RecordInv'
    BY DEF StopsInv, CurrentInv, LatchInv, RecordInv, LatchIsCounted, TurnLive, Stopping, Held,
       Owing
  <2>3. CapturesAreComplete' /\ StreamInv' /\ ReportInv'
    BY DEF StopsInv, CapturesAreComplete, StreamInv, ReportInv, OneUndecidedStream, Pending,
       TurnLive, Stopping
  <2>4. ClaimInv' /\ NoLaunchIsStranded'
    BY DEF StopsInv, ClaimInv, Claimed, Pending, NoLaunchIsStranded
  <2> QED BY <2>1, <2>2, <2>3, <2>4 DEF StopsInv
<1> QED BY <1>1, <1>2

LEMMA StopsInvHolds == Spec => []StopsInv
<1>1. Init => StopsInv
  BY StopsInvInit
<1>2. StopsInv /\ [Next]_vars => StopsInv'
  BY StopsInvNext
<1> QED BY <1>1, <1>2, PTL DEF Spec

\* An attempt whose receipt is claimed is quiet, whatever the ledgers say of its sends.
LEMMA ClaimsAreTrue ==
  ASSUME StopsInv
  PROVE  ReceiptsAreTrue
<1> SUFFICES ASSUME NEW a \in Claimed
             PROVE  /\ a \notin reports
                    /\ \A t \in Turns : decisions[t].attempt = a
                        => decisions[t].outcome # "pending"
                    /\ turn.attempt # a
                    /\ \A s \in Sends : sends[s].attempt = a
                        /\ sends[s].state \in Undecided => Stale(s)
  BY DEF ReceiptsAreTrue
<1>1. a \in Attempts
  <2>1. a \in receipts \/ a \in Attempts
    BY DEF Claimed
  <2>2. receipts \subseteq 1 .. row.attempt /\ row.attempt \in Attempts
    BY DEF StopsInv, CurrentInv, Types, AttemptTypes
  <2>3. row.attempt \in Nat /\ row.attempt <= MaxAttempts
    BY <2>2, BoundsAreNatural DEF Attempts
  <2>4. 1 .. row.attempt \subseteq 1 .. MaxAttempts
    BY <2>3, BoundsAreNatural
  <2> QED BY <2>1, <2>2, <2>4 DEF Attempts
<1> QED BY <1>1 DEF StopsInv, ClaimInv, Pending

-----------------------------------------------------------------------------
(* Theorems.                                                               *)

(* Overlapping stops and interrupts never clear each other's latch, and    *)
(* none is left behind (workspaceStopsInProgress, taskStopLatch.ts).       *)
THEOREM LatchesAreCounted == Spec => []LatchIsCounted
<1>1. StopsInv => LatchIsCounted
  BY DEF StopsInv, LatchInv
<1> QED BY <1>1, StopsInvHolds, PTL

(* What a stop captured when it began stays complete: nothing that could   *)
(* still work for the stopped attempt is unknown to its record             *)
(* (beginWorkspaceStop, taskStopLatch.ts).                                 *)
THEOREM StopsCaptureAll == Spec => []CapturesAreComplete
<1>1. StopsInv => CapturesAreComplete
  BY DEF StopsInv
<1> QED BY <1>1, StopsInvHolds, PTL

(* A receipt that says an attempt ended without a report is never wrong,   *)
(* from the decision to write it on (decideSettlementReceipt and           *)
(* attemptCannotStillReport, attemptLedger.ts).                            *)
THEOREM ReceiptsStayTrue == Spec => []ReceiptsAreTrue
<1>1. StopsInv => ReceiptsAreTrue
  BY ClaimsAreTrue
<1> QED BY <1>1, StopsInvHolds, PTL

(* An attempt has at most one undecided stream end, so a handler resolves  *)
(* its own (findPendingStreamEndDecision, streamEndLedger.ts).             *)
THEOREM StreamsAreDecidedOnce == Spec => []OneUndecidedStream
<1>1. StopsInv => OneUndecidedStream
  BY DEF StopsInv, StreamInv
<1> QED BY <1>1, StopsInvHolds, PTL

(* A task queued under a latched workspace is never forgotten              *)
(* (queueRechecksOwedByStopLatch and deferLaunchForStopLatch,              *)
(* taskService.ts).                                                        *)
THEOREM LaunchesAreKept == Spec => []NoLaunchIsStranded
<1>1. StopsInv => NoLaunchIsStranded
  BY DEF StopsInv
<1> QED BY <1>1, StopsInvHolds, PTL

(* A stop record goes only when the attempt it stopped is quiet            *)
(* (isWorkspaceStopRecordSettled and releaseWorkspaceStopRecord,           *)
(* taskStopLatch.ts).                                                      *)
THEOREM StopsEndInQuiet == Spec => StopsEndQuiet
<1> DEFINE Quiet ==
             /\ turn'.phase = "none" /\ ~exec'
             /\ \A s \in Sends : sends'[s].attempt = record.attempt =>
                                   sends'[s].state \notin Undecided
             /\ \A c \in Callers : pc'[c] \notin {"holding", "latched", "owing", "interrupting",
                                                  "stopping", "lost"}
             /\ row'.status # "running"
<1>1. StopsInv /\ [Next]_vars => [Stopping /\ record'.releases = 0 => Quiet]_vars
  <2> SUFFICES ASSUME StopsInv, Next, Stopping, record'.releases = 0
               PROVE  Quiet
    OBVIOUS
  <2>1. record \in Records /\ record.releases # 0
    BY DEF StopsInv, Types, StopTypes, Stopping
  <2>2. ASSUME NEW rec, NEW cl, Accounts(rec), Rechecks(rec, cl)
        PROVE  Quiet
    <3>1. rec \in Records /\ rec.releases # 0 /\ rec.attempt = record.attempt
      BY <2>1, <2>2 DEF Accounts
    <3>2. RecordSettled(rec)
      BY <2>2, <3>1 DEF Rechecks, Keeps, Claims, Releases
    <3>3. Captures(rec) /\ row'.status # "running"
      BY <2>2, <3>2 DEF Accounts, RecordSettled
    <3>4. Owing' = {}
      BY <2>2, <3>2, FS_EmptySet DEF Accounts, RecordSettled
    <3>5. \A c \in Callers : pc'[c] \notin OwingPlaces
      BY <3>4 DEF Owing
    <3> QED BY <3>1, <3>2, <3>3, <3>5 DEF Captures, RecordSettled, TurnLive, OwingPlaces
  <2>3. ASSUME NEW c \in Callers, Latch(c)
        PROVE  FALSE
    BY <2>3, BeginStopKeepsStopParts DEF Latch, attemptVars
  <2>4. ASSUME NEW f \in Failures, LatchFailure(f)
        PROVE  FALSE
    BY <2>4, BeginStopKeepsStopParts DEF LatchFailure, attemptVars, Callers
  <2>5. ASSUME NEW c \in Callers, BeginCleanup(c)
        PROVE  FALSE
    BY <2>1, <2>5 DEF BeginCleanup, Records
  <2>6. ASSUME NEW i \in Interrupters, OwnerInterrupts \/ EndInterrupt(i)
        PROVE  FALSE
    BY <2>1, <2>6 DEF OwnerInterrupts, EndInterrupt
  <2>7. ASSUME CommitResume \/ Drain \/ \E l \in Launches : Launch(l) \/ HandOver(l)
        PROVE  FALSE
    BY <2>1, <2>7 DEF CommitResume, Drain, Launch, HandOver, launchFrame
  <2> HIDE DEF Quiet
  <2> QED BY <2>2, <2>3, <2>4, <2>5, <2>6, <2>7, EveryStepAccounts DEF Interrupters
<1>2. Spec => []StopsInv /\ [][Next]_vars
  BY StopsInvHolds DEF Spec
<1> QED BY <1>1, <1>2, PTL DEF StopsEndQuiet
=============================================================================
