------------------------- MODULE PartialJournalProofs -------------------------
(***************************************************************************)
(* What PartialJournal guarantees for every number of turns, parts, silent *)
(* retries, mishaps and background flushes, whatever paths the turns take: *)
(* its types, that a settled reply stays settled, and that it implements   *)
(* DurableReply.  All three rest on one inductive invariant, JournalInv.   *)
(***************************************************************************)
EXTENDS PartialJournal, SequenceTheorems, TLAPS

Between == {"off", "committing", "placing"}
Flushing == {"announcing", "interrupting", "ending", "failing"}
EmptyRow == [parts |-> 0, end |-> "open"]

\* The operations that carry parts of the reply, and those no write may follow.
Content(op) == op.kind \in {"write", "stamp", "mark", "update"}

Closes(op) == \/ op.kind \in {"update", "mark", "place", "commit", "unlink", "stamp"}
              \/ op.kind = "write" /\ op.end = "failed"
              \/ op.kind = "delete" /\ op.by = Cancel

\* The operations of a queue, and the order they stand in.
Of(q) == {q[i] : i \in 1..Len(q)}

InOrder(a, b) ==
  /\ a.by # b.by
  /\ Closes(a) => b.kind # "write"
  /\ Content(a) /\ Content(b) => a.parts <= b.parts
  /\ b.kind # "unlink"

Ordered(q) == \A i, j \in 1..Len(q) : i < j => InOrder(q[i], q[j])

-----------------------------------------------------------------------------
\* Where the loop is tells whether the journal is retired and what the reply has.
LoopInv ==
  /\ loop \in Between => cancel = "none" /\ terminal = "none" /\ ~abandon /\ retired
  /\ loop \in {"committing", "placing"} => turn < MaxTurns
  /\ loop \notin Between => turn > 0
  /\ loop \in {"updating", "marking", "clearing", "joining", "ended"} => retired
  /\ loop \in {"streaming", "announcing", "interrupting", "ending", "resetting",
               "deleting", "completing"} => ~retired
  /\ loop = "failing" /\ flushes[Loop].st \in {"waiting", "ready"} => ~retired
  /\ terminal # "none" => loop \in {"closing", "joining", "ended"}
  /\ loop = "deleting" => parts = 0
  /\ loop \in {"completing", "updating", "marking", "clearing"} => parts > 0

\* The loop and the stop flush only where they await it.
FlushInv ==
  /\ flushes[Loop].st # "idle" =>
       loop \in Flushing \cup {"resetting", "joining"} /\ flushes[Loop].turn = turn
  /\ flushes[Loop].st = "writing" => loop \in Flushing
  /\ flushes[Cancel].st # "idle" => cancel = "flushing"

\* A stop cleans up after a loop that has ended; it knows what was discarded.
StopInv ==
  /\ cancel \in {"stamping", "settling", "done"} => loop = "ended"
  /\ cancel \in {"stamping", "settling"} => terminal = "none"
  /\ turn \in abandoned /\ loop \notin Between => abandon
  /\ abandon => cancel # "none" /\ turn \in abandoned

\* An operation on the files, by who awaits it.
ByLoop(op) ==
  /\ op.kind = "write" =>
       op.parts = parts /\ op.end = (IF loop = "failing" THEN "failed" ELSE "open")
  /\ op.kind = "update" => loop = "updating" /\ op.parts = parts
  /\ op.kind = "mark" => loop = "marking" /\ op.parts = parts
  /\ op.kind = "delete" => loop \in {"deleting", "clearing"}
  /\ op.kind \in {"commit", "unlink"} => loop = "committing" /\ op.turn = 0
  /\ op.kind = "place" => loop = "placing" /\ op.turn = turn + 1
  /\ op.kind # "stamp"

ByCancel(op) ==
  /\ op.kind \in {"write", "stamp", "delete", "commit", "unlink"}
  /\ op.kind = "stamp" => cancel = "stamping" /\ op.parts = parts /\ op.end = "open"
  /\ op.kind \in {"delete", "commit", "unlink"} => cancel = "settling" /\ op.turn = turn
  /\ op.kind = "delete" => abandon
  /\ op.kind \in {"stamp", "commit", "unlink"} => ~abandon

OpInv(op) ==
  /\ Content(op) \/ op.kind = "delete" => op.turn = turn /\ turn > 0
  /\ op.kind = "write" => flushes[op.by].st = "writing"
  /\ op.kind = "write" /\ op.by # Loop => op.end = "open"
  /\ op.by = Loop => ByLoop(op)
  /\ op.by = Cancel => ByCancel(op)
  /\ op.by \in Background => op.kind = "write"
  /\ Closes(op) => retired
  /\ Content(op) /\ loop \notin Between => op.parts <= parts
  /\ Content(op) /\ partial.turn = turn => partial.parts <= op.parts

LineInv == Ordered(queue) /\ \A op \in Of(queue) : OpInv(op)

\* The turn can have no partial any more but the one there is.
Over ==
  \/ terminal # "none"
  \/ turn > 0 /\ rows[turn].end = "final"
  \/ partial.turn = turn /\ partial.end # "open"
  \/ turn \in abandoned /\ (cancel = "done" \/ loop \in Between)
  \/ loop = "failing" /\ Flushed(Loop)
  \/ loop \in {"marking", "clearing"}

OverInv ==
  /\ Over => retired /\ \A op \in Of(queue) : op.kind # "write"
  /\ turn > 0 /\ rows[turn].end = "final" =>
       terminal # "none" \/ loop \in Between \cup {"clearing"}
  /\ partial.turn = turn /\ partial.end # "open" =>
       terminal # "none" \/ loop \in Between \/ (loop = "failing" /\ Flushed(Loop))

\* The files hold nothing of a later turn, nor more than the reply had.
FileInv ==
  /\ partial.turn <= turn
  /\ partial.turn = 0 => partial = NoPartial
  /\ \A t \in Turns : t > turn => rows[t] = NoRow /\ announced[t] = 0
  /\ \A t \in Turns : rows[t].end = "final" => rows[t].parts > 0
  /\ \A t \in Turns : rows[t].end = "absent" => rows[t] = NoRow
  /\ abandoned \cup unwritten \subseteq 1..turn
  /\ loop \notin Between =>
       announced[turn] <= parts /\ (partial.turn = turn => partial.parts <= parts)

\* The row of the turn is its placeholder until the turn is committed.
RowInv ==
  /\ loop \notin Between /\ terminal = "none" /\ cancel \notin {"settling", "done"}
       /\ loop # "clearing" => rows[turn] = EmptyRow
  /\ \A op \in Of(queue) :
       Content(op) \/ (op.kind = "delete" /\ op.by = Cancel) => rows[turn] = EmptyRow
  /\ cancel = "settling" /\ abandon => rows[turn] = EmptyRow
  /\ loop = "clearing" => rows[turn].parts = parts /\ rows[turn].end = "final"

\* A turn the loop has left behind has a partial, unless a write of it has failed.
Saved == partial.turn = turn \/ turn \in unwritten

SavedInv ==
  /\ loop = "ending" /\ Flushed(Loop) => Saved
  /\ loop \in {"closing", "joining", "ended"} /\ terminal = "none"
       /\ cancel \notin {"settling", "done"} => Saved
  /\ loop \in Between \/ cancel = "done" =>
       \A op \in Of(queue) : op.kind = "write" => turn \in unwritten
  /\ loop = "announcing" /\ flushes[Loop].st = "done" =>
       partial.turn = turn /\ partial.parts = parts

\* The partial adds nothing to its row, or may be lost.
Kept == \/ partial.turn = 0 \/ rows[partial.turn].end = "absent"
        \/ partial.parts <= rows[partial.turn].parts

Harmless == Kept \/ /\ partial.turn \in abandoned \cup unwritten
                    /\ rows[partial.turn] = EmptyRow
                    /\ partial.end # "final"

OldInv ==
  /\ partial.turn # turn \/ loop = "placing" => Harmless
  /\ \A op \in Of(queue) : op.kind = "unlink" /\ op.turn \in {0, partial.turn} => Kept

JournalInv ==
  /\ TypeOK /\ LoopInv /\ FlushInv /\ StopInv /\ LineInv
  /\ OverInv /\ FileInv /\ RowInv /\ SavedInv /\ OldInv

-----------------------------------------------------------------------------
(***************************************************************************)
(* Queues                                                                  *)
(***************************************************************************)

\* An operation that joins a queue behind operations it may follow.
LEMMA AppendInOrder ==
  ASSUME NEW q \in Seq(Operations), NEW op \in Operations
  PROVE  /\ Append(q, op) \in Seq(Operations)
         /\ Of(Append(q, op)) = Of(q) \cup {op}
         /\ Ordered(q) /\ (\A b \in Of(q) : InOrder(b, op)) => Ordered(Append(q, op))
<1> DEFINE r == Append(q, op)
<1>1. /\ r \in Seq(Operations) /\ Len(r) = Len(q) + 1 /\ Len(q) \in Nat
      /\ \A i \in 1..Len(q) : r[i] = q[i]
      /\ r[Len(q) + 1] = op
  BY AppendProperties, LenProperties
<1>2. Of(r) = Of(q) \cup {op}
  <2>1. Of(r) \subseteq Of(q) \cup {op}
    BY <1>1 DEF Of
  <2>2. Of(q) \cup {op} \subseteq Of(r)
    BY <1>1 DEF Of
  <2> QED BY <2>1, <2>2
<1>3. Ordered(q) /\ (\A b \in Of(q) : InOrder(b, op)) => Ordered(r)
  <2> SUFFICES ASSUME Ordered(q), \A b \in Of(q) : InOrder(b, op),
                      NEW i \in 1..Len(r), NEW j \in 1..Len(r), i < j
               PROVE  InOrder(r[i], r[j])
    BY DEF Ordered
  <2>1. i \in 1..Len(q) /\ r[i] = q[i] /\ q[i] \in Of(q)
    BY <1>1 DEF Of
  <2>2. CASE j = Len(q) + 1
    BY <1>1, <2>1, <2>2
  <2>3. CASE j # Len(q) + 1
    <3>1. j \in 1..Len(q) /\ r[j] = q[j]
      BY <1>1, <2>3
    <3> QED BY <3>1, <2>1 DEF Ordered
  <2> QED BY <2>2, <2>3
<1> QED BY <1>1, <1>2, <1>3

\* The head of a queue may be followed by all that stands behind it.
LEMMA HeadInOrder ==
  ASSUME NEW q \in Seq(Operations), q # <<>>
  PROVE  /\ Head(q) \in Operations /\ Tail(q) \in Seq(Operations)
         /\ Of(q) = {Head(q)} \cup Of(Tail(q))
         /\ Ordered(q) => Ordered(Tail(q)) /\ \A b \in Of(Tail(q)) : InOrder(Head(q), b)
<1> DEFINE r == Tail(q)
<1>1. /\ r \in Seq(Operations) /\ Len(r) = Len(q) - 1 /\ Len(q) \in Nat \ {0}
      /\ Head(q) \in Operations /\ Head(q) = q[1]
      /\ \A i \in 1..Len(r) : r[i] = q[i + 1]
  BY HeadTailProperties, LenProperties, EmptySeq
<1>2. Of(q) = {Head(q)} \cup Of(r)
  <2>1. Of(q) \subseteq {Head(q)} \cup Of(r)
    <3> SUFFICES ASSUME NEW i \in 1..Len(q), i # 1 PROVE q[i] \in Of(r)
      BY <1>1 DEF Of
    <3>1. i - 1 \in 1..Len(r) /\ r[i - 1] = q[i]
      BY <1>1
    <3> QED BY <3>1 DEF Of
  <2>2. {Head(q)} \cup Of(r) \subseteq Of(q)
    <3>1. 1 \in 1..Len(q) /\ \A i \in 1..Len(r) : i + 1 \in 1..Len(q) /\ r[i] = q[i + 1]
      BY <1>1
    <3> QED BY <3>1, <1>1 DEF Of
  <2> QED BY <2>1, <2>2
<1>3. ASSUME Ordered(q) PROVE Ordered(r)
  <2> SUFFICES ASSUME NEW i \in 1..Len(r), NEW j \in 1..Len(r), i < j
               PROVE  InOrder(r[i], r[j])
    BY DEF Ordered
  <2>1. i + 1 \in 1..Len(q) /\ j + 1 \in 1..Len(q) /\ i + 1 < j + 1
    BY <1>1
  <2> QED BY <1>1, <1>3, <2>1 DEF Ordered
<1>4. ASSUME Ordered(q), NEW b \in Of(r) PROVE InOrder(Head(q), b)
  <2>1. PICK i \in 1..Len(r) : b = r[i]
    BY DEF Of
  <2>2. 1 \in 1..Len(q) /\ i + 1 \in 1..Len(q) /\ 1 < i + 1 /\ b = q[i + 1]
    BY <1>1, <2>1
  <2> QED BY <1>1, <1>4, <2>2 DEF Ordered
<1> QED BY <1>1, <1>2, <1>3, <1>4

\* An operation that takes the head's place.
LEMMA ReplaceHead ==
  ASSUME NEW q \in Seq(Operations), NEW op \in Operations
  PROVE  /\ <<op>> \o q \in Seq(Operations)
         /\ Of(<<op>> \o q) = {op} \cup Of(q)
         /\ Ordered(q) /\ (\A b \in Of(q) : InOrder(op, b)) => Ordered(<<op>> \o q)
<1> DEFINE r == <<op>> \o q
<1>1. /\ r \in Seq(Operations) /\ Len(r) = Len(q) + 1 /\ Len(q) \in Nat
      /\ r[1] = op
      /\ \A i \in 1..Len(q) : r[i + 1] = q[i]
  BY ConcatProperties, LenProperties
<1>2. Of(r) = {op} \cup Of(q)
  <2>1. Of(r) \subseteq {op} \cup Of(q)
    <3> SUFFICES ASSUME NEW i \in 1..Len(r), i # 1 PROVE r[i] \in Of(q)
      BY <1>1 DEF Of
    <3>1. i - 1 \in 1..Len(q) /\ r[i] = q[i - 1]
      BY <1>1
    <3> QED BY <3>1 DEF Of
  <2>2. {op} \cup Of(q) \subseteq Of(r)
    <3>1. 1 \in 1..Len(r) /\ \A i \in 1..Len(q) : i + 1 \in 1..Len(r) /\ q[i] = r[i + 1]
      BY <1>1
    <3>2. op \in Of(r)
      BY <3>1, <1>1 DEF Of
    <3>3. ASSUME NEW i \in 1..Len(q) PROVE q[i] \in Of(r)
      BY <3>1 DEF Of
    <3> QED BY <3>2, <3>3 DEF Of
  <2> QED BY <2>1, <2>2
<1>3. Ordered(q) /\ (\A b \in Of(q) : InOrder(op, b)) => Ordered(r)
  <2> SUFFICES ASSUME Ordered(q), \A b \in Of(q) : InOrder(op, b),
                      NEW i \in 1..Len(r), NEW j \in 1..Len(r), i < j
               PROVE  InOrder(r[i], r[j])
    BY DEF Ordered
  <2>1. j - 1 \in 1..Len(q) /\ r[j] = q[j - 1] /\ q[j - 1] \in Of(q)
    BY <1>1 DEF Of
  <2>2. CASE i = 1
    BY <1>1, <2>1, <2>2
  <2>3. CASE i # 1
    <3>1. i - 1 \in 1..Len(q) /\ r[i] = q[i - 1] /\ i - 1 < j - 1
      BY <1>1, <2>3
    <3> QED BY <3>1, <2>1 DEF Ordered
  <2> QED BY <2>2, <2>3
<1> QED BY <1>1, <1>2, <1>3

\* Nobody awaits two operations of one queue.
LEMMA OneEach ==
  ASSUME NEW q \in Seq(Operations), Ordered(q)
  PROVE  \A a, b \in Of(q) : a.by = b.by => a = b
<1> SUFFICES ASSUME NEW i \in 1..Len(q), NEW j \in 1..Len(q), q[i].by = q[j].by
             PROVE  q[i] = q[j]
  BY DEF Of
<1>1. i < j \/ j < i \/ i = j
  BY LenProperties
<1> QED BY <1>1 DEF Ordered, InOrder

LEMMA QueuedAreOperations ==
  ASSUME NEW q \in Seq(Operations)
  PROVE  Of(q) \subseteq Operations /\ Of(<<>>) = {} /\ Ordered(<<>>)
<1>1. Len(q) \in Nat /\ \A i \in 1..Len(q) : q[i] \in Operations
  BY LenProperties, ElementOfSeq
<1>2. Len(<<>>) = 0
  BY EmptySeq
<1> QED BY <1>1, <1>2 DEF Of, Ordered

-----------------------------------------------------------------------------
(***************************************************************************)
(* Types                                                                   *)
(***************************************************************************)

LEMMA WhoFlushes ==
  /\ Loop # Cancel /\ Loop # None /\ Cancel # None
  /\ Loop \in Flushers /\ Cancel \in Flushers
  /\ Loop \notin Background /\ Cancel \notin Background /\ None \notin Flushers
  /\ \A f \in Flushers : f = Loop \/ f = Cancel \/ f \in Background
BY JournalAssumption DEF Loop, Cancel, None, Flushers

\* What the operation at the head of the queue may rely on.
LEMMA AtHead ==
  ASSUME TypeOK, LineInv, queue # <<>>
  PROVE  /\ Op \in Operations /\ OpInv(Op)
         /\ Tail(queue) \in Seq(Operations) /\ Ordered(Tail(queue))
         /\ Of(queue) = {Op} \cup Of(Tail(queue))
         /\ \A b \in Of(Tail(queue)) : b \in Operations /\ OpInv(b) /\ InOrder(Op, b)
<1>1. queue \in Seq(Operations) /\ Ordered(queue)
  BY DEF TypeOK, LineInv
<1>2. Tail(queue) \in Seq(Operations)
  BY <1>1, HeadInOrder
<1> QED BY <1>1, <1>2, HeadInOrder, QueuedAreOperations DEF LineInv, Op

FlushRecords == [st : {"idle", "waiting", "ready", "writing", "done", "failed"},
                 on : Flushers \cup {None}, turn : 0..MaxTurns]

\* Whatever a flush does, it stays one.
LEMMA FlushesTyped ==
  ASSUME TypeOK, NEW f \in Flushers, AwaitPending(f) \/ Resumes(f)
  PROVE  flushes' \in [Flushers -> FlushRecords]
<1>1. flushes \in [Flushers -> FlushRecords] /\ turn \in 0..MaxTurns
      /\ pending \in Flushers \cup {None} /\ MaxTurns \in Nat
  BY JournalAssumption DEF TypeOK, FlushRecords
<1>2. CASE AwaitPending(f)
  <2>1. [st |-> IF pending = None THEN "ready" ELSE "waiting", on |-> pending, turn |-> turn]
          \in FlushRecords
    BY <1>1 DEF FlushRecords
  <2> QED BY <1>1, <1>2, <2>1 DEF AwaitPending
<1>3. CASE Resumes(f)
  <2>1. NoFlush \in FlushRecords
    BY <1>1 DEF FlushRecords, NoFlush
  <2> QED BY <1>1, <1>3, <2>1 DEF Resumes
<1> QED BY <1>2, <1>3

LEMMA WriteEndsTyped ==
  ASSUME TypeOK, NEW op \in Operations, NEW st \in {"done", "failed"}, WriteEnds(op, st)
  PROVE  flushes' \in [Flushers -> FlushRecords] /\ pending' \in Flushers \cup {None}
<1>1. flushes \in [Flushers -> FlushRecords] /\ pending \in Flushers \cup {None}
        /\ MaxTurns \in Nat
  BY JournalAssumption DEF TypeOK, FlushRecords
<1>2. NoFlush \in FlushRecords
  BY <1>1 DEF FlushRecords, NoFlush
<1>3. \A f \in Flushers : /\ [flushes[f] EXCEPT !.st = st] \in FlushRecords
                          /\ [flushes[f] EXCEPT !.st = "ready"] \in FlushRecords
  BY <1>1 DEF FlushRecords
<1> QED BY <1>1, <1>2, <1>3 DEF WriteEnds

Kinds == {"write", "stamp", "update", "mark", "delete", "commit", "unlink", "place"}
Request(kind, by, t, n, end) ==
  [kind |-> kind, by |-> by, turn |-> t, parts |-> n, end |-> end]

\* An operation that joins the queue, behind those that wait.
LEMMA Enqueued ==
  ASSUME TypeOK, NEW kind \in Kinds, NEW by \in Flushers, NEW t \in 0..MaxTurns,
         NEW n \in 0..MaxParts, NEW end \in {"open", "failed", "final"},
         Enqueue(kind, by, t, n, end)
  PROVE  /\ Request(kind, by, t, n, end) \in Operations
         /\ queue' \in Seq(Operations)
         /\ Of(queue') = Of(queue) \cup {Request(kind, by, t, n, end)}
         /\ Ordered(queue) /\ (\A b \in Of(queue) : InOrder(b, Request(kind, by, t, n, end)))
              => Ordered(queue')
<1>1. Request(kind, by, t, n, end) \in Operations
  BY DEF Operations, Request, Kinds
<1>2. queue \in Seq(Operations) /\ queue' = Append(queue, Request(kind, by, t, n, end))
  BY DEF TypeOK, Enqueue, Request
<1> QED BY <1>1, <1>2, AppendInOrder

\* The next operation of whoever awaited the head.
LEMMA Continued ==
  ASSUME TypeOK, queue # <<>>, NEW kind \in Kinds, NEW by \in Flushers, NEW t \in 0..MaxTurns,
         NEW n \in 0..MaxParts, NEW end \in {"open", "failed", "final"},
         Continues(kind, by, t, n, end)
  PROVE  /\ Request(kind, by, t, n, end) \in Operations
         /\ queue' \in Seq(Operations)
         /\ Of(queue') = Of(Tail(queue)) \cup {Request(kind, by, t, n, end)}
         /\ Ordered(Tail(queue))
             /\ (\A b \in Of(Tail(queue)) : InOrder(b, Request(kind, by, t, n, end)))
              => Ordered(queue')
<1>1. Request(kind, by, t, n, end) \in Operations
  BY DEF Operations, Request, Kinds
<1>2. queue \in Seq(Operations) /\ queue' = Append(Tail(queue), Request(kind, by, t, n, end))
  BY DEF TypeOK, Continues, Request
<1>3. Tail(queue) \in Seq(Operations)
  BY <1>2, HeadInOrder
<1> QED BY <1>1, <1>2, <1>3, AppendInOrder

-----------------------------------------------------------------------------
LEMMA InitTyped ==
  ASSUME Init PROVE TypeOK
<1>1. MaxTurns \in Nat \ {0} /\ MaxParts \in Nat /\ MaxRetries \in Nat /\ MaxMishaps \in Nat
  BY JournalAssumption
<1>2. NoPartial \in Partials /\ NoRow \in Rows
  BY <1>1 DEF NoPartial, Partials, NoRow, Rows
<1>3. NoFlush \in FlushRecords
  BY <1>1 DEF FlushRecords, NoFlush
<1>4. <<>> \in Seq(Operations)
  BY EmptySeq
<1>5. /\ 0 \in 0..MaxTurns /\ 0 \in 0..MaxParts /\ 0 \in 0..MaxRetries /\ 0 \in 0..MaxMishaps
      /\ "off" \in LoopStates /\ "none" \in CancelStates
  BY <1>1 DEF LoopStates, CancelStates
<1>6. /\ rows \in [Turns -> Rows] /\ announced \in [Turns -> 0..MaxParts]
      /\ flushes \in [Flushers -> FlushRecords]
  BY <1>2, <1>3, <1>5 DEF Init
<1> QED BY <1>2, <1>4, <1>5, <1>6 DEF Init, TypeOK, FlushRecords

LEMMA LoopStepTyped ==
  ASSUME TypeOK, LoopInv, LoopStep
  PROVE  TypeOK'
<1>1. MaxTurns \in Nat \ {0} /\ MaxParts \in Nat /\ MaxRetries \in Nat
  BY JournalAssumption
<1>2. CASE Settle
  <2>1. turn + 1 \in 0..MaxTurns /\ 0 \in 0..MaxTurns /\ 0 \in 0..MaxParts
    BY <1>1, <1>2 DEF Settle, TypeOK
  <2>2. queue' \in Seq(Operations)
    <3>1. CASE Enqueue("place", Loop, turn + 1, 0, "open")
      BY <2>1, <3>1, Enqueued, WhoFlushes DEF Kinds
    <3>2. CASE Enqueue("commit", Loop, 0, 0, "open")
      BY <2>1, <3>2, Enqueued, WhoFlushes DEF Kinds
    <3> QED BY <3>1, <3>2, <1>2 DEF Settle
  <2>3. loop' \in LoopStates
    BY <1>2 DEF Settle, LoopStates
  <2> QED BY <1>2, <2>2, <2>3 DEF Settle, TypeOK, disk, stopping, journal, history, bounds
<1>3. CASE Receive
  BY <1>1, <1>3 DEF Receive, TypeOK, disk, stopping, journal, history, bounds
<1>4. CASE LoopFlushes
  <2>1. flushes' \in [Flushers -> FlushRecords] /\ loop' \in LoopStates
    BY <1>4, FlushesTyped, WhoFlushes DEF LoopFlushes, LoopStates, Running
  <2> QED BY <1>4, <2>1 DEF LoopFlushes, TypeOK, FlushRecords, disk, stopping, history, bounds
<1>5. CASE Announce
  <2>1. flushes' \in [Flushers -> FlushRecords] /\ loop' \in LoopStates
    BY <1>5, FlushesTyped, WhoFlushes DEF Announce, LoopStates, Running, LoopGoes
  <2>2. announced' \in [Turns -> 0..MaxParts]
    BY <1>5 DEF Announce, TypeOK
  <2> QED BY <1>5, <2>1, <2>2 DEF Announce, TypeOK, FlushRecords, disk, stopping, bounds
<1>6. CASE Interrupt
  <2>1. flushes' \in [Flushers -> FlushRecords] /\ loop' \in LoopStates
    BY <1>6, FlushesTyped, WhoFlushes DEF Interrupt, LoopStates, Running, LoopGoes
  <2>2. cancel' \in CancelStates /\ abandon' \in BOOLEAN /\ abandoned' \subseteq Turns
    <3>1. turn > 0
      BY <1>6 DEF Interrupt, LoopGoes, LoopInv, Between
    <3>2. abandon' \in BOOLEAN
      BY <1>6 DEF Interrupt, TypeOK, stopping, May
    <3>3. turn \in Turns
      BY <1>1, <3>1 DEF TypeOK, Turns
    <3>4. CASE cancel = "none"
      BY <1>6, <3>2, <3>3, <3>4 DEF Interrupt, TypeOK, CancelStates
    <3>5. CASE cancel # "none"
      BY <1>6, <3>5 DEF Interrupt, TypeOK, stopping
    <3> QED BY <3>4, <3>5
  <2> QED BY <1>6, <2>1, <2>2 DEF Interrupt, TypeOK, FlushRecords, disk, bounds
<1>7. CASE EndOfAttempt
  <2>1. flushes' \in [Flushers -> FlushRecords] /\ loop' \in LoopStates
    BY <1>7, FlushesTyped, WhoFlushes DEF EndOfAttempt, LoopStates, Running
  <2> QED BY <1>7, <2>1 DEF EndOfAttempt, TypeOK, FlushRecords, disk, stopping, history, bounds
<1>8. CASE Retry
  <2>1. flushes' \in [Flushers -> FlushRecords] /\ loop' \in LoopStates
    BY <1>8, FlushesTyped, WhoFlushes DEF Retry, LoopStates, Running
  <2>2. retries' \in 0..MaxRetries
    BY <1>1, <1>8 DEF Retry, TypeOK
  <2> QED BY <1>8, <2>1, <2>2 DEF Retry, TypeOK, FlushRecords, disk, stopping, history
<1>9. CASE ResetForRetry
  <2>1. flushes' \in [Flushers -> FlushRecords] /\ loop' \in LoopStates
    BY <1>9, FlushesTyped, WhoFlushes DEF ResetForRetry, LoopStates, Running
  <2>2. queue' \in Seq(Operations)
    <3>1. turn \in 0..MaxTurns /\ 0 \in 0..MaxParts /\ queue \in Seq(Operations)
      BY <1>1 DEF TypeOK
    <3>2. CASE Enqueue("delete", Loop, turn, 0, "open")
      BY <3>1, <3>2, Enqueued, WhoFlushes DEF Kinds
    <3> QED BY <3>1, <3>2, <1>9 DEF ResetForRetry
  <2> QED BY <1>9, <2>1, <2>2
             DEF ResetForRetry, TypeOK, FlushRecords, disk, stopping, history, bounds
<1>10. CASE CommitFinal
  <2>1. turn \in 0..MaxTurns /\ parts \in 0..MaxParts
          /\ Enqueue("update", Loop, turn, parts, "final")
    BY <1>10 DEF CommitFinal, TypeOK
  <2>2. queue' \in Seq(Operations)
    BY <2>1, Enqueued, WhoFlushes DEF Kinds
  <2>3. loop' \in LoopStates
    BY <1>10 DEF CommitFinal, LoopGoes, LoopStates, Running
  <2> QED BY <1>10, <2>2, <2>3 DEF CommitFinal, TypeOK, disk, stopping, history, bounds
<1>11. CASE Fail
  <2>1. flushes' \in [Flushers -> FlushRecords] /\ loop' \in LoopStates
    BY <1>11, FlushesTyped, WhoFlushes DEF Fail, LoopStates, LoopGoes
  <2> QED BY <1>11, <2>1 DEF Fail, TypeOK, FlushRecords, disk, stopping, history, bounds
<1>12. CASE CloseResources
  <2>1. flushes' \in [Flushers -> FlushRecords] /\ loop' \in LoopStates
    BY <1>12, FlushesTyped, WhoFlushes DEF CloseResources, LoopStates, LoopGoes
  <2> QED BY <1>12, <2>1 DEF CloseResources, TypeOK, FlushRecords, disk, stopping, history, bounds
<1>13. CASE LoopEnds
  <2>1. flushes' \in [Flushers -> FlushRecords] /\ loop' \in LoopStates
    BY <1>13, FlushesTyped, WhoFlushes DEF LoopEnds, LoopStates, LoopGoes
  <2> QED BY <1>13, <2>1 DEF LoopEnds, TypeOK, FlushRecords, disk, stopping, history, bounds
<1>14. CASE Leave
  <2>1. /\ loop' \in LoopStates /\ parts' \in 0..MaxParts /\ cancel' \in CancelStates
        /\ terminal' = "none" /\ aborted' = FALSE /\ abandon' = FALSE
    BY <1>1, <1>14 DEF Leave, Forgets, LoopGoes, LoopStates, CancelStates
  <2> QED BY <1>14, <2>1 DEF Leave, TypeOK, disk, history, bounds
<1> QED BY <1>2, <1>3, <1>4, <1>5, <1>6, <1>7, <1>8, <1>9, <1>10, <1>11, <1>12, <1>13, <1>14
           DEF LoopStep

LEMMA FileStepTyped ==
  ASSUME TypeOK, LoopInv, LineInv, FileInv, FileStep
  PROVE  TypeOK'
<1> USE DEF FileStep
<1>1. /\ MaxTurns \in Nat \ {0} /\ MaxParts \in Nat /\ MaxMishaps \in Nat
      /\ turn \in 0..MaxTurns /\ parts \in 0..MaxParts /\ 0 \in 0..MaxTurns /\ 0 \in 0..MaxParts
      /\ Loop \in Flushers /\ Cancel \in Flushers
  BY JournalAssumption, WhoFlushes DEF TypeOK
<1>2. Op \in Operations /\ OpInv(Op) /\ Tail(queue) \in Seq(Operations)
  BY AtHead
<1>3. /\ Op.turn \in 0..MaxTurns /\ Op.parts \in 0..MaxParts /\ Op.by \in Flushers
      /\ Op.end \in {"open", "failed", "final"}
  BY <1>2 DEF Operations
<1>4. Done => queue' \in Seq(Operations)
  BY <1>2 DEF Done
<1>5. {"streaming", "closing", "clearing", "marking", "off", "placing"} \subseteq LoopStates
      /\ {"done", "settling"} \subseteq CancelStates
  BY DEF LoopStates, Running, CancelStates
<1>6. /\ Goes => loop' \in LoopStates /\ terminal' \in {"none", "completed", "failed"}
                 /\ cancel' \in CancelStates
      /\ Completes => loop' \in LoopStates /\ terminal' \in {"none", "completed", "failed"}
                      /\ cancel' \in CancelStates
  BY <1>5 DEF Goes, Completes, TypeOK
<1>7. /\ [turn |-> Op.turn, parts |-> Op.parts, end |-> Op.end] \in Partials
      /\ [turn |-> Op.turn, parts |-> Op.parts, end |-> "final"] \in Partials
      /\ NoPartial \in Partials /\ partial \in Partials
  BY <1>1, <1>3 DEF Partials, NoPartial, TypeOK
<1>8. /\ [parts |-> Op.parts, end |-> "final"] \in Rows /\ [parts |-> 0, end |-> "open"] \in Rows
      /\ NoRow \in Rows
  BY <1>1, <1>3 DEF Rows, NoRow
<1>9. CASE WritePartial
  <2>1. flushes' \in [Flushers -> FlushRecords] /\ pending' \in Flushers \cup {None}
    BY <1>2, <1>9, WriteEndsTyped DEF WritePartial
  <2> QED BY <1>4, <1>7, <1>9, <2>1
             DEF WritePartial, TypeOK, FlushRecords, engine, stopping, history, bounds
<1>10. CASE WriteAbortPartial
  <2>1. queue' \in Seq(Operations)
    BY <1>1, <1>10, Continued DEF WriteAbortPartial, Kinds
  <2> QED BY <1>5, <1>7, <1>10, <2>1
             DEF WriteAbortPartial, TypeOK, engine, journal, history, bounds
<1>11. CASE UpdateHistory
  <2>1. queue' \in Seq(Operations)
    BY <1>1, <1>11, Continued DEF UpdateHistory, Kinds
  <2>2. rows' \in [Turns -> Rows]
    BY <1>8, <1>11 DEF UpdateHistory, TypeOK
  <2> QED BY <1>5, <1>11, <2>1, <2>2 DEF UpdateHistory, TypeOK, stopping, journal, history, bounds
<1>12. CASE MarkFinalized
  <2>1. partial' \in Partials
    BY <1>7, <1>12 DEF MarkFinalized
  <2> QED BY <1>4, <1>6, <1>12, <2>1 DEF MarkFinalized, TypeOK, journal, history, bounds
<1>13. CASE DeletePartial
  <2>1. partial' \in Partials
    BY <1>7, <1>13 DEF DeletePartial
  <2> QED BY <1>4, <1>6, <1>13, <2>1 DEF DeletePartial, TypeOK, journal, history, bounds
<1>14. CASE CommitRow
  <2>1. [Op EXCEPT !.kind = "unlink"] \in Operations
    BY <1>2 DEF Operations
  <2>2. queue' \in Seq(Operations)
    BY <1>2, <1>14, <2>1, ReplaceHead DEF CommitRow
  <2>3. rows' \in [Turns -> Rows]
    <3>1. CASE partial # NoPartial /\ Op.turn \in {0, partial.turn}
      <4>1. \A row \in Rows : CommittedTo(row) \in Rows
        BY <1>7, <1>8 DEF CommittedTo, Rows, Partials
      <4> QED BY <1>14, <3>1, <4>1 DEF CommitRow, TypeOK
    <3>2. CASE ~(partial # NoPartial /\ Op.turn \in {0, partial.turn})
      BY <1>14, <3>2 DEF CommitRow, TypeOK
    <3> QED BY <3>1, <3>2
  <2> QED BY <1>14, <2>2, <2>3 DEF CommitRow, TypeOK, engine, stopping, journal, history, bounds
<1>15. CASE CommitUnlinks
  <2>1. partial' \in Partials
    BY <1>7, <1>15 DEF CommitUnlinks
  <2>2. loop' \in LoopStates /\ cancel' \in CancelStates
    BY <1>5, <1>15 DEF CommitUnlinks, AfterCommit, TypeOK
  <2>3. queue' \in Seq(Operations)
    <3>1. CASE Done
      BY <1>4, <3>1
    <3>2. CASE Op.by # Cancel /\ Continues("place", Loop, turn + 1, 0, "open")
      <4>1. turn + 1 \in 0..MaxTurns
        <5>1. Op.by = Loop /\ loop = "committing"
          BY <1>2, <1>3, <1>15, <3>2, WhoFlushes DEF OpInv, ByLoop, CommitUnlinks
        <5> QED BY <1>1, <5>1 DEF LoopInv
      <4> QED BY <1>1, <3>2, <4>1, Continued DEF Kinds
    <3> QED BY <3>1, <3>2, <1>15 DEF CommitUnlinks, AfterCommit
  <2> QED BY <1>15, <2>1, <2>2, <2>3 DEF CommitUnlinks, TypeOK, journal, history, bounds
<1>16. CASE PlacePlaceholder
  <2>1. rows' \in [Turns -> Rows]
    BY <1>8, <1>16 DEF PlacePlaceholder, TypeOK
  <2> QED BY <1>1, <1>3, <1>4, <1>5, <1>16, <2>1
             DEF PlacePlaceholder, Forgets, TypeOK, CancelStates, history, bounds
<1>17. CASE OperationFails
  <2>1. mishaps' \in 0..MaxMishaps
    BY <1>1, <1>17 DEF OperationFails, TypeOK
  <2>2. unwritten' \subseteq Turns
    <3>1. Op.kind = "write" => Op.turn \in Turns
      BY <1>2, <1>3, <1>1 DEF OpInv, Content, Turns
    <3> QED BY <1>17, <3>1 DEF OperationFails, TypeOK
  <2>3. loop' \in LoopStates /\ cancel' \in CancelStates
          /\ terminal' \in {"none", "completed", "failed"}
    <3>1. loop \in LoopStates /\ cancel \in CancelStates
            /\ terminal \in {"none", "completed", "failed"}
      BY DEF TypeOK
    <3> QED BY <1>5, <1>6, <1>17, <3>1 DEF OperationFails
  <2>4. queue' \in Seq(Operations)
    <3>1. CASE Done
      BY <1>4, <3>1
    <3>2. CASE Continues("commit", Cancel, turn, 0, "open")
      BY <1>1, <3>2, Continued DEF Kinds
    <3>3. CASE Continues("mark", Loop, turn, parts, "final")
      BY <1>1, <3>3, Continued DEF Kinds
    <3> QED BY <3>1, <3>2, <3>3, <1>17 DEF OperationFails
  <2>5. flushes' \in [Flushers -> FlushRecords] /\ pending' \in Flushers \cup {None}
    <3>1. CASE WriteEnds(Op, "failed")
      BY <1>2, <3>1, WriteEndsTyped
    <3>2. CASE UNCHANGED <<flushes, pending>>
      BY <3>2 DEF TypeOK, FlushRecords
    <3> QED BY <3>1, <3>2, <1>17 DEF OperationFails
  <2> QED BY <1>17, <2>1, <2>2, <2>3, <2>4, <2>5 DEF OperationFails, TypeOK, FlushRecords, disk
<1> QED BY <1>9, <1>10, <1>11, <1>12, <1>13, <1>14, <1>15, <1>16, <1>17

\* A flush that writes asks for the parts the turn has.
LEMMA OtherStepTyped ==
  ASSUME TypeOK, LoopInv, 
         Schedule \/ Wakes \/ (\E f \in Flushers : Flush(f)) \/ Stop \/ StopAborts
           \/ StopCleansUp \/ Crash \/ UNCHANGED vars
  PROVE  TypeOK'
<1>1. /\ MaxTurns \in Nat \ {0} /\ MaxParts \in Nat /\ MaxMishaps \in Nat
      /\ turn \in 0..MaxTurns /\ parts \in 0..MaxParts /\ 0 \in 0..MaxTurns /\ 0 \in 0..MaxParts
      /\ Loop \in Flushers /\ Cancel \in Flushers /\ Background \subseteq Flushers
  BY JournalAssumption, WhoFlushes DEF TypeOK, Flushers
<1>2. NoFlush \in FlushRecords /\ flushes \in [Flushers -> FlushRecords]
  BY <1>1 DEF FlushRecords, NoFlush, TypeOK
<1>3. CASE Schedule
  <2>1. flushes' \in [Flushers -> FlushRecords]
    BY <1>1, <1>2, <1>3, FlushesTyped DEF Schedule
  <2> QED BY <1>3, <2>1
             DEF Schedule, TypeOK, FlushRecords, disk, engine, stopping, history, bounds
<1>4. CASE Wakes
  <2>1. flushes' \in [Flushers -> FlushRecords]
    BY <1>1, <1>2, <1>4, FlushesTyped DEF Wakes
  <2> QED BY <1>4, <2>1 DEF Wakes, TypeOK, FlushRecords, disk, engine, stopping, history, bounds
<1>5. CASE \E f \in Flushers : Flush(f)
  <2> PICK f \in Flushers : Flush(f)
    BY <1>5
  <2> DEFINE last == IF f = Loop /\ loop = "failing" THEN "failed" ELSE "open"
  <2>1. flushes' \in [Flushers -> FlushRecords]
    <3>1. /\ [flushes[f] EXCEPT !.st = "writing"] \in FlushRecords
          /\ [flushes[f] EXCEPT !.st = "done"] \in FlushRecords
      BY <1>2 DEF FlushRecords
    <3> QED BY <1>2, <3>1 DEF Flush
  <2>2. queue' \in Seq(Operations)
    <3>1. last \in {"open", "failed", "final"}
      OBVIOUS
    <3>2. Enqueue("write", f, turn, parts, last) \/ UNCHANGED queue
      BY DEF Flush
    <3> HIDE DEF last
    <3> QED BY <1>1, <3>1, <3>2, Enqueued DEF Kinds, TypeOK
  <2>3. pending' \in Flushers \cup {None} /\ armed' \in BOOLEAN /\ retired' \in BOOLEAN
    BY DEF Flush, TypeOK
  <2> QED BY <2>1, <2>2, <2>3
             DEF Flush, TypeOK, FlushRecords, disk, engine, stopping, history, bounds
<1>6. CASE Stop
  <2>1. flushes' \in [Flushers -> FlushRecords]
    BY <1>1, <1>6, FlushesTyped DEF Stop
  <2>2. abandon' \in BOOLEAN /\ cancel' \in CancelStates
    BY <1>6 DEF Stop, TypeOK, CancelStates, May
  <2>3. turn \in Turns
    BY <1>1, <1>6 DEF Stop, May, Turns
  <2> QED BY <1>6, <2>1, <2>2, <2>3 DEF Stop, TypeOK, FlushRecords, disk, engine, bounds
<1>7. CASE StopAborts
  <2>1. flushes' \in [Flushers -> FlushRecords] /\ cancel' \in CancelStates
    BY <1>1, <1>7, FlushesTyped DEF StopAborts, CancelStates
  <2> QED BY <1>7, <2>1 DEF StopAborts, TypeOK, FlushRecords, disk, history, bounds
<1>8. CASE StopCleansUp
  <2>1. queue' \in Seq(Operations)
    <3>1. \/ UNCHANGED queue \/ Enqueue("stamp", Cancel, turn, parts, "open")
          \/ Enqueue("delete", Cancel, turn, 0, "open") \/ Enqueue("commit", Cancel, turn, 0, "open")
      BY <1>8 DEF StopCleansUp, SettleAbort
    <3> QED BY <1>1, <3>1, Enqueued DEF Kinds, TypeOK
  <2>2. cancel' \in CancelStates
    BY <1>8 DEF StopCleansUp, SettleAbort, CancelStates
  <2> QED BY <1>8, <2>1, <2>2 DEF StopCleansUp, TypeOK, disk, engine, journal, history, bounds
<1>9. CASE Crash
  <2>1. queue' \in Seq(Operations) /\ loop' \in LoopStates /\ mishaps' \in 0..MaxMishaps
        /\ parts' \in 0..MaxParts /\ cancel' \in CancelStates
    BY <1>1, <1>9, EmptySeq DEF Crash, LoopStates, TypeOK, CancelStates, Forgets
  <2>2. flushes' \in [Flushers -> FlushRecords]
    BY <1>2, <1>9 DEF Crash
  <2> QED BY <1>1, <1>9, <2>1, <2>2 DEF Crash, Forgets, TypeOK, FlushRecords, disk, history
<1>10. CASE UNCHANGED vars
  BY <1>10 DEF vars, TypeOK, disk, engine, stopping, journal, history, bounds
<1> QED BY <1>3, <1>4, <1>5, <1>6, <1>7, <1>8, <1>9, <1>10

-----------------------------------------------------------------------------
(***************************************************************************)
(* Flushes and operations, one at a time                                   *)
(***************************************************************************)

LEMMA AfterAwait ==
  ASSUME TypeOK, NEW f \in Flushers, AwaitPending(f)
  PROVE  /\ flushes'[f].st \in {"waiting", "ready"} /\ flushes'[f].turn = turn
         /\ \A g \in Flushers \ {f} : flushes'[g] = flushes[g]
BY DEF TypeOK, AwaitPending

LEMMA AfterResume ==
  ASSUME TypeOK, NEW f \in Flushers, Resumes(f)
  PROVE  flushes'[f].st = "idle" /\ \A g \in Flushers \ {f} : flushes'[g] = flushes[g]
BY DEF TypeOK, Resumes, NoFlush

LEMMA AfterWrite ==
  ASSUME TypeOK, NEW op \in Operations, NEW st, WriteEnds(op, st)
  PROVE  /\ op.by \notin Background => flushes'[op.by].st = st
           /\ flushes'[op.by].turn = flushes[op.by].turn
         /\ \A g \in Flushers \ {op.by} :
              /\ flushes'[g].turn = flushes[g].turn
              /\ flushes'[g].st = flushes[g].st
                   \/ (flushes[g].st = "waiting" /\ flushes'[g].st = "ready")
BY DEF TypeOK, WriteEnds, Operations

\* Whoever awaits an operation is where the operation says.
LEMMA WhoAwaits ==
  ASSUME NEW op \in Operations, OpInv(op)
  PROVE  /\ op.kind \in {"write", "stamp", "mark", "update", "delete"} => op.turn = turn
         /\ op.kind = "update" => op.by = Loop /\ loop = "updating" /\ op.parts = parts
         /\ op.kind = "mark" => op.by = Loop /\ loop = "marking" /\ op.parts = parts
         /\ op.kind = "place" => op.by = Loop /\ loop = "placing" /\ op.turn = turn + 1
         /\ op.kind = "stamp" => op.by = Cancel /\ cancel = "stamping" /\ op.parts = parts
                                 /\ op.end = "open"
         /\ op.kind = "delete" => \/ op.by = Loop /\ loop \in {"deleting", "clearing"}
                                  \/ op.by = Cancel /\ cancel = "settling" /\ abandon
         /\ op.kind \in {"commit", "unlink"} =>
              \/ op.by = Loop /\ loop = "committing" /\ op.turn = 0
              \/ op.by = Cancel /\ cancel = "settling" /\ op.turn = turn /\ ~abandon
<1>1. op.by = Loop \/ op.by = Cancel \/ op.by \in Background
  BY WhoFlushes DEF Operations
<1> QED BY <1>1, WhoFlushes DEF OpInv, ByLoop, ByCancel, Content

\* A flush writes, or is over.
LEMMA AfterFlush ==
  ASSUME TypeOK, NEW f \in Flushers, Flush(f)
  PROVE  /\ flushes[f].st = "ready" /\ flushes'[f].turn \in {flushes[f].turn, 0}
         /\ \A g \in Flushers \ {f} : flushes'[g] = flushes[g]
         /\ \/ /\ flushes[f].turn = turn /\ ~retired
               /\ flushes'[f].st = "writing" /\ flushes'[f].turn = turn
               /\ retired' = (f = Loop /\ loop = "failing")
               /\ Enqueue("write", f, turn, parts, IF f = Loop /\ loop = "failing" THEN "failed" ELSE "open")
            \/ /\ flushes[f].turn # turn \/ retired
               /\ f \notin Background => flushes'[f].st = "done"
                   /\ flushes'[f].turn = flushes[f].turn
               /\ UNCHANGED <<queue, retired>>
<1>1. flushes \in [Flushers -> FlushRecords]
  BY DEF TypeOK, FlushRecords
<1> QED BY <1>1 DEF Flush, FlushRecords, NoFlush

-----------------------------------------------------------------------------
(***************************************************************************)
(* Control                                                                 *)
(***************************************************************************)

LEMMA LoopStepControl ==
  ASSUME JournalInv, LoopStep
  PROVE  LoopInv' /\ FlushInv' /\ StopInv'
<1> USE DEF JournalInv, LoopGoes, Flushed, Joined, Forgets
<1>1. MaxTurns \in Nat \ {0} /\ turn \in 0..MaxTurns /\ parts \in Nat /\ TypeOK
      /\ Loop \in Flushers /\ Cancel \in Flushers /\ Loop # Cancel
  BY JournalAssumption, WhoFlushes DEF TypeOK
<1>2. CASE Settle
  BY <1>1, <1>2
     DEF Settle, LoopInv, FlushInv, StopInv, Between, Flushing, stopping, journal, history
<1>3. CASE Receive
  BY <1>1, <1>3
     DEF Receive, LoopInv, FlushInv, StopInv, Between, Flushing, stopping, journal, history
<1>4. CASE LoopFlushes
  <2>1. flushes'[Loop].st \in {"waiting", "ready"} /\ flushes'[Loop].turn = turn
        /\ flushes'[Cancel] = flushes[Cancel]
    BY <1>1, <1>4, AfterAwait DEF LoopFlushes
  <2> QED BY <1>1, <1>4, <2>1
             DEF LoopFlushes, LoopInv, FlushInv, StopInv, Between, Flushing, stopping, history
<1>5. CASE Announce
  <2>1. flushes'[Loop].st = "idle" /\ flushes'[Cancel] = flushes[Cancel]
    BY <1>1, <1>5, AfterResume DEF Announce
  <2> QED BY <1>1, <1>5, <2>1
             DEF Announce, LoopInv, FlushInv, StopInv, Between, Flushing, stopping
<1>6. CASE Interrupt
  <2>1. flushes'[Loop].st = "idle" /\ flushes'[Cancel] = flushes[Cancel]
    BY <1>1, <1>6, AfterResume DEF Interrupt
  <2> QED BY <1>1, <1>6, <2>1
             DEF Interrupt, LoopInv, FlushInv, StopInv, Between, Flushing, stopping
<1>7. CASE EndOfAttempt
  <2>1. /\ flushes'[Cancel] = flushes[Cancel]
        /\ flushes'[Loop].st = "idle"
             \/ (loop' = "failing" /\ flushes'[Loop].st \in {"waiting", "ready"}
                 /\ flushes'[Loop].turn = turn)
    BY <1>1, <1>7, AfterResume, AfterAwait DEF EndOfAttempt
  <2> QED BY <1>1, <1>7, <2>1
             DEF EndOfAttempt, LoopInv, FlushInv, StopInv, Between, Flushing, stopping, history
<1>8. CASE Retry
  <2>1. flushes'[Loop].st \in {"waiting", "ready"} /\ flushes'[Loop].turn = turn
        /\ flushes'[Cancel] = flushes[Cancel]
    BY <1>1, <1>8, AfterAwait DEF Retry
  <2> QED BY <1>1, <1>8, <2>1
             DEF Retry, LoopInv, FlushInv, StopInv, Between, Flushing, stopping, history
<1>9. CASE ResetForRetry
  <2>1. flushes'[Loop].st = "idle" /\ flushes'[Cancel] = flushes[Cancel]
    BY <1>1, <1>9, AfterResume DEF ResetForRetry
  <2> QED BY <1>1, <1>9, <2>1
             DEF ResetForRetry, LoopInv, FlushInv, StopInv, Between, Flushing, stopping, history
<1>10. CASE CommitFinal
  BY <1>1, <1>10 DEF CommitFinal, LoopInv, FlushInv, StopInv, Between, Flushing, stopping, history
<1>11. CASE Fail
  <2>1. flushes'[Loop].st = "idle" /\ flushes'[Cancel] = flushes[Cancel]
    BY <1>1, <1>11, AfterResume DEF Fail
  <2> QED BY <1>1, <1>11, <2>1
             DEF Fail, LoopInv, FlushInv, StopInv, Between, Flushing, stopping, history
<1>12. CASE CloseResources
  <2>1. flushes'[Loop].st \in {"waiting", "ready"} /\ flushes'[Loop].turn = turn
        /\ flushes'[Cancel] = flushes[Cancel]
    BY <1>1, <1>12, AfterAwait DEF CloseResources
  <2> QED BY <1>1, <1>12, <2>1
             DEF CloseResources, LoopInv, FlushInv, StopInv, Between, Flushing, stopping, history
<1>13. CASE LoopEnds
  <2>1. flushes'[Loop].st = "idle" /\ flushes'[Cancel] = flushes[Cancel]
    BY <1>1, <1>13, AfterResume DEF LoopEnds
  <2> QED BY <1>1, <1>13, <2>1
             DEF LoopEnds, LoopInv, FlushInv, StopInv, Between, Flushing, stopping, history
<1>14. CASE Leave
  BY <1>1, <1>14 DEF Leave, LoopInv, FlushInv, StopInv, Between, Flushing, stopping, history
<1> QED BY <1>2, <1>3, <1>4, <1>5, <1>6, <1>7, <1>8, <1>9, <1>10, <1>11, <1>12, <1>13, <1>14
           DEF LoopStep

LEMMA FileStepControl ==
  ASSUME JournalInv, FileStep
  PROVE  LoopInv' /\ FlushInv' /\ StopInv'
<1> USE DEF JournalInv, FileStep
<1>1. MaxTurns \in Nat \ {0} /\ turn \in 0..MaxTurns /\ parts \in Nat
      /\ Loop \in Flushers /\ Cancel \in Flushers /\ Loop # Cancel
      /\ Loop \notin Background /\ Cancel \notin Background
  BY JournalAssumption, WhoFlushes DEF TypeOK
<1>2. Op \in Operations /\ OpInv(Op) /\ Op.by \in Flushers
  BY AtHead DEF Operations
<1> DEFINE Who ==
     /\ Op.kind = "update" => Op.by = Loop /\ loop = "updating" /\ Op.parts = parts
     /\ Op.kind = "mark" => Op.by = Loop /\ loop = "marking" /\ Op.parts = parts
     /\ Op.kind = "place" => Op.by = Loop /\ loop = "placing" /\ Op.turn = turn + 1
     /\ Op.kind = "stamp" => Op.by = Cancel /\ cancel = "stamping"
     /\ Op.kind = "delete" => \/ Op.by = Loop /\ loop \in {"deleting", "clearing"}
                              \/ Op.by = Cancel /\ cancel = "settling"
     /\ Op.kind \in {"commit", "unlink"} => \/ Op.by = Loop /\ loop = "committing"
                                            \/ Op.by = Cancel /\ cancel = "settling"
<1>3. Who
  BY <1>2, WhoAwaits
<1>4. CASE WritePartial \/ (OperationFails /\ Op.kind = "write")
  <2>1. \/ WriteEnds(Op, "done")
        \/ WriteEnds(Op, "failed")
    BY <1>4 DEF WritePartial, OperationFails
  <2>2. /\ Op.by = Loop => flushes'[Loop].st \in {"done", "failed"}
        /\ Op.by = Cancel => flushes'[Cancel].st \in {"done", "failed"}
        /\ flushes[Op.by].st = "writing"
        /\ flushes'[Loop].turn = flushes[Loop].turn
        /\ Op.by # Loop =>
             flushes'[Loop].st = flushes[Loop].st
               \/ (flushes[Loop].st = "waiting" /\ flushes'[Loop].st = "ready")
        /\ Op.by # Cancel =>
             flushes'[Cancel].st = flushes[Cancel].st
               \/ (flushes[Cancel].st = "waiting" /\ flushes'[Cancel].st = "ready")
    <3>1. flushes[Op.by].st = "writing"
      BY <1>2, <1>4 DEF OpInv, WritePartial
    <3> QED BY <1>1, <1>2, <2>1, <3>1, AfterWrite
  <2>3. UNCHANGED <<turn, parts, loop, terminal, cancel, abandon, retired, abandoned>>
    BY <1>4 DEF WritePartial, OperationFails, engine, stopping, history
  <2> QED BY <1>1, <2>2, <2>3 DEF LoopInv, FlushInv, StopInv, Between, Flushing
<1>5. CASE WriteAbortPartial \/ (OperationFails /\ Op.kind = "stamp")
  <2>1. cancel = "stamping" /\ cancel' = "settling"
        /\ UNCHANGED <<turn, parts, loop, terminal, abandon, retired, abandoned, flushes>>
    BY <1>3, <1>5 DEF WriteAbortPartial, OperationFails, engine, journal, history
  <2> QED BY <1>1, <2>1 DEF LoopInv, FlushInv, StopInv, Between, Flushing
<1>6. CASE UpdateHistory \/ (OperationFails /\ Op.kind = "update")
  <2>1. loop = "updating" /\ loop' \in {"clearing", "marking"}
        /\ UNCHANGED <<turn, parts, terminal, cancel, abandon, retired, abandoned, flushes>>
    BY <1>3, <1>6 DEF UpdateHistory, OperationFails, stopping, journal, history
  <2> QED BY <1>1, <2>1 DEF LoopInv, FlushInv, StopInv, Between, Flushing
<1>7. CASE \/ MarkFinalized \/ DeletePartial
           \/ OperationFails /\ Op.kind \in {"mark", "delete"}
  <2>1. /\ \/ loop \in {"marking", "deleting", "clearing"} /\ Completes
           \/ cancel = "settling" /\ cancel' = "done" /\ UNCHANGED <<loop, terminal>>
        /\ UNCHANGED <<turn, parts, abandon, retired, abandoned, flushes>>
    BY <1>1, <1>3, <1>7 DEF MarkFinalized, DeletePartial, OperationFails, Goes, journal, history
  <2> QED BY <1>1, <2>1 DEF Completes, LoopInv, FlushInv, StopInv, Between, Flushing
<1>8. CASE CommitRow
  BY <1>1, <1>8
     DEF CommitRow, LoopInv, FlushInv, StopInv, Between, Flushing, engine, stopping, journal,
         history
<1>9. CASE CommitUnlinks \/ (OperationFails /\ Op.kind \in {"commit", "unlink", "place"})
  <2>1. /\ \/ loop \in {"committing", "placing"} /\ loop' = "off" /\ UNCHANGED cancel
           \/ loop = "committing" /\ loop' = "placing" /\ UNCHANGED cancel
           \/ cancel = "settling" /\ cancel' = "done" /\ UNCHANGED loop
        /\ UNCHANGED <<turn, parts, terminal, abandon, retired, abandoned, flushes>>
    BY <1>1, <1>3, <1>9 DEF CommitUnlinks, AfterCommit, OperationFails, journal, history
  <2> QED BY <1>1, <2>1 DEF LoopInv, FlushInv, StopInv, Between, Flushing
<1>10. CASE PlacePlaceholder
  <2>1. /\ loop = "placing" /\ loop' = "streaming" /\ turn' = turn + 1 /\ Forgets
        /\ ~retired' /\ UNCHANGED <<flushes, abandoned>> /\ turn' \notin abandoned
    BY <1>1, <1>3, <1>10 DEF PlacePlaceholder, history, FileInv
  <2> QED BY <1>1, <2>1 DEF Forgets, LoopInv, FlushInv, StopInv, Between, Flushing
<1> QED
  <2>1. OperationFails => Op.kind \in {"write", "stamp", "update", "mark", "delete",
                                       "commit", "unlink", "place"}
    BY DEF OperationFails
  <2> QED BY <2>1, <1>4, <1>5, <1>6, <1>7, <1>8, <1>9, <1>10

LEMMA OtherStepControl ==
  ASSUME JournalInv,
         Schedule \/ Wakes \/ (\E f \in Flushers : Flush(f)) \/ Stop \/ StopAborts
           \/ StopCleansUp \/ Crash \/ UNCHANGED vars
  PROVE  LoopInv' /\ FlushInv' /\ StopInv'
<1> USE DEF JournalInv, Flushed
<1>1. MaxTurns \in Nat \ {0} /\ turn \in 0..MaxTurns /\ parts \in Nat /\ TypeOK
      /\ Loop \in Flushers /\ Cancel \in Flushers /\ Loop # Cancel
      /\ Loop \notin Background /\ Cancel \notin Background /\ Background \subseteq Flushers
  BY JournalAssumption, WhoFlushes DEF TypeOK, Flushers
<1>2. CASE Schedule \/ Wakes
  <2>1. flushes'[Loop] = flushes[Loop] /\ flushes'[Cancel] = flushes[Cancel]
    BY <1>1, <1>2, AfterAwait DEF Schedule, Wakes
  <2>2. UNCHANGED <<turn, parts, loop, terminal, cancel, abandon, retired, abandoned>>
    BY <1>2 DEF Schedule, Wakes, engine, stopping, history
  <2> QED BY <1>1, <2>1, <2>2 DEF LoopInv, FlushInv, StopInv, Between, Flushing
<1>3. CASE \E f \in Flushers : Flush(f)
  <2> PICK f \in Flushers : Flush(f)
    BY <1>3
  <2>1. UNCHANGED <<turn, parts, loop, terminal, cancel, abandon, abandoned>>
    BY DEF Flush, engine, stopping, history
  <2>2. flushes[f].st = "ready" /\ (f = Loop => loop \notin {"resetting", "joining"})
    BY DEF Flush
  <2>3. CASE /\ flushes[f].turn = turn /\ ~retired
             /\ flushes'[f].st = "writing" /\ flushes'[f].turn = turn
             /\ retired' = (f = Loop /\ loop = "failing")
    <3>1. \A g \in Flushers \ {f} : flushes'[g] = flushes[g]
      BY <1>1, AfterFlush
    <3> QED BY <1>1, <2>1, <2>2, <2>3, <3>1 DEF LoopInv, FlushInv, StopInv, Between, Flushing
  <2>4. CASE /\ f \notin Background => flushes'[f].st = "done"
                 /\ flushes'[f].turn = flushes[f].turn
             /\ UNCHANGED retired
    <3>1. \A g \in Flushers \ {f} : flushes'[g] = flushes[g]
      BY <1>1, AfterFlush
    <3> QED BY <1>1, <2>1, <2>2, <2>4, <3>1 DEF LoopInv, FlushInv, StopInv, Between, Flushing
  <2> QED BY <1>1, <2>3, <2>4, AfterFlush
<1>4. CASE Stop
  <2>1. flushes'[Cancel].st \in {"waiting", "ready"} /\ flushes'[Loop] = flushes[Loop]
    BY <1>1, <1>4, AfterAwait DEF Stop
  <2> QED BY <1>1, <1>4, <2>1
             DEF Stop, May, LoopInv, FlushInv, StopInv, Between, Flushing, engine, Running
<1>5. CASE StopAborts
  <2>1. flushes'[Cancel].st = "idle" /\ flushes'[Loop] = flushes[Loop]
    BY <1>1, <1>5, AfterResume DEF StopAborts
  <2> QED BY <1>1, <1>5, <2>1
             DEF StopAborts, LoopInv, FlushInv, StopInv, Between, Flushing, history
<1>6. CASE StopCleansUp
  BY <1>1, <1>6
     DEF StopCleansUp, SettleAbort, LoopInv, FlushInv, StopInv, Between, Flushing, engine,
         journal, history
<1>7. CASE Crash
  BY <1>1, <1>7
     DEF Crash, Forgets, NoFlush, LoopInv, FlushInv, StopInv, Between, Flushing, history
<1>8. CASE UNCHANGED vars
  BY <1>8 DEF LoopInv, FlushInv, StopInv, vars, engine, stopping, journal, history
<1> QED BY <1>2, <1>3, <1>4, <1>5, <1>6, <1>7, <1>8

-----------------------------------------------------------------------------
(***************************************************************************)
(* The queue and the files                                                 *)
(***************************************************************************)

\* Every operation that waits.
LEMMA QueuedOperation ==
  ASSUME TypeOK, LineInv, NEW op \in Of(queue)
  PROVE  /\ op \in Operations /\ op.by \in Flushers /\ op.parts \in Nat /\ op.kind \in Kinds
         /\ OpInv(op)
<1>1. op \in Operations
  BY QueuedAreOperations DEF TypeOK
<1> QED BY <1>1, JournalAssumption DEF LineInv, Operations, Kinds

FilesInv == LineInv /\ OverInv /\ FileInv /\ RowInv /\ SavedInv /\ OldInv

LEMMA ReceiveKeepsFiles ==
  ASSUME JournalInv, Receive, LoopInv', FlushInv', StopInv'
  PROVE  FilesInv'
<1> USE DEF JournalInv, LoopGoes, Flushed, Joined, Forgets
<1>1. /\ turn \in 0..MaxTurns /\ parts \in Nat /\ TypeOK /\ Loop # Cancel
      /\ Loop \in Flushers /\ Cancel \in Flushers
      /\ Loop \notin Background /\ Cancel \notin Background
  BY WhoFlushes DEF TypeOK
<1>2. UNCHANGED <<partial, rows, queue, turn>>
  BY DEF Receive, disk
<1>3. flushes' = flushes
  BY <1>1 DEF Receive, journal
<1>4. /\ loop = "streaming" /\ parts' = parts + 1
      /\ UNCHANGED <<loop, terminal, cancel, abandon, retired, announced, abandoned, unwritten>>
  BY DEF Receive, stopping, journal, history
<1>5. LineInv'
  <2> SUFFICES ASSUME NEW op \in Of(queue) PROVE OpInv(op)'
    BY <1>2 DEF LineInv, Ordered, Of
  <2>1. /\ op.by \in Flushers /\ op.kind \in Kinds /\ op.parts \in Nat /\ OpInv(op)
    BY <1>1, QueuedOperation
  <2>2. op.by # Loop
    BY <1>1, <1>4, <2>1 DEF FlushInv, Flushing, OpInv, ByLoop, Kinds
  <2>3. op.kind # "stamp"
    BY <1>1, <1>4, <2>1, <2>2 DEF StopInv, OpInv, ByCancel, Flushers
  <2>4. op.by = Cancel => ByCancel(op)'
    BY <1>2, <1>4, <2>1, <2>3 DEF OpInv, ByCancel
  <2>5. Content(op) /\ loop \notin Between => op.parts <= parts'
    BY <1>1, <1>4, <2>1 DEF OpInv
  <2> QED BY <1>2, <1>3, <1>4, <2>1, <2>2, <2>4, <2>5 DEF OpInv, Content, Closes
<1>6. OverInv'
  BY <1>1, <1>2, <1>3, <1>4 DEF LoopInv, Between, OverInv, Over
<1>7. FileInv'
  <2>1. turn \in Turns /\ announced[turn] \in Nat /\ partial.parts \in Nat
    BY <1>1, <1>4 DEF LoopInv, Between, TypeOK, Turns, Partials
  <2>2. announced[turn] <= parts' /\ (partial.turn = turn => partial.parts <= parts')
    <3>1. announced[turn] <= parts /\ (partial.turn = turn => partial.parts <= parts)
      BY <1>4 DEF FileInv, Between
    <3> QED BY <1>1, <1>4, <2>1, <3>1
  <2> QED BY <1>2, <1>4, <2>2 DEF FileInv
<1>8. RowInv'
  BY <1>1, <1>2, <1>3, <1>4 DEF LoopInv, StopInv, Between, RowInv
<1>9. SavedInv'
  BY <1>1, <1>2, <1>3, <1>4 DEF LoopInv, Between, SavedInv, Saved, OverInv, Over
<1>10. OldInv'
  BY <1>1, <1>2, <1>3, <1>4 DEF LoopInv, Between, OldInv, Harmless, Kept
<1> QED BY <1>5, <1>6, <1>7, <1>8, <1>9, <1>10 DEF FilesInv

LEMMA LoopFlushesKeepsFiles ==
  ASSUME JournalInv, LoopFlushes, LoopInv', FlushInv', StopInv'
  PROVE  FilesInv'
<1> USE DEF JournalInv, LoopGoes, Flushed, Joined, Forgets
<1>1. /\ turn \in 0..MaxTurns /\ parts \in Nat /\ TypeOK /\ Loop # Cancel
      /\ Loop \in Flushers /\ Cancel \in Flushers
      /\ Loop \notin Background /\ Cancel \notin Background
  BY WhoFlushes DEF TypeOK
<1>2. UNCHANGED <<partial, rows, queue, turn>>
  BY DEF LoopFlushes, disk
<1>3. /\ flushes'[Loop].st \in {"waiting", "ready"} /\ flushes'[Loop].turn = turn
      /\ \A g \in Flushers \ {Loop} : flushes'[g] = flushes[g]
  BY <1>1, AfterAwait DEF LoopFlushes
<1>4. LineInv'
  <2> SUFFICES ASSUME NEW op \in Of(queue) PROVE OpInv(op)'
    BY <1>2 DEF LineInv, Ordered, Of
  <2>1. op \in Operations /\ op.by \in Flushers /\ OpInv(op)
    BY <1>1, QueuedOperation
  <2> QED BY <1>1, <1>2, <1>3, <2>1
             DEF LoopFlushes, stopping, history, LoopInv, FlushInv, StopInv, Between, Flushing,
                 OpInv, ByLoop, ByCancel, Content, Closes
<1>5. OverInv'
  BY <1>1, <1>2, <1>3
     DEF LoopFlushes, stopping, history, LoopInv, FlushInv, StopInv, Between, OverInv, Over
<1>6. FileInv'
  BY <1>1, <1>2, <1>3 DEF LoopFlushes, stopping, history, LoopInv, StopInv, Between, FileInv
<1>7. RowInv'
  BY <1>1, <1>2, <1>3 DEF LoopFlushes, stopping, history, LoopInv, StopInv, Between, RowInv
<1>8. SavedInv'
  BY <1>1, <1>2, <1>3
     DEF LoopFlushes, stopping, history, LoopInv, FlushInv, StopInv, Between, SavedInv, Saved,
         OverInv, Over
<1>9. OldInv'
  BY <1>1, <1>2, <1>3 DEF LoopFlushes, stopping, history, LoopInv, Between, OldInv, Harmless, Kept
<1> QED BY <1>4, <1>5, <1>6, <1>7, <1>8, <1>9 DEF FilesInv

LEMMA AnnounceKeepsFiles ==
  ASSUME JournalInv, Announce, LoopInv', FlushInv', StopInv'
  PROVE  FilesInv'
<1> USE DEF JournalInv, LoopGoes, Flushed, Joined, Forgets
<1>1. /\ turn \in 0..MaxTurns /\ parts \in Nat /\ TypeOK /\ Loop # Cancel
      /\ Loop \in Flushers /\ Cancel \in Flushers
      /\ Loop \notin Background /\ Cancel \notin Background
  BY WhoFlushes DEF TypeOK
<1>2. UNCHANGED <<partial, rows, queue, turn>>
  BY DEF Announce, disk
<1>3. /\ flushes'[Loop].st = "idle"
      /\ \A g \in Flushers \ {Loop} : flushes'[g] = flushes[g]
  BY <1>1, AfterResume DEF Announce
<1>4. LineInv'
  <2> SUFFICES ASSUME NEW op \in Of(queue) PROVE OpInv(op)'
    BY <1>2 DEF LineInv, Ordered, Of
  <2>1. op \in Operations /\ op.by \in Flushers /\ OpInv(op)
    BY <1>1, QueuedOperation
  <2> QED BY <1>1, <1>2, <1>3, <2>1
             DEF Announce, stopping, LoopInv, FlushInv, StopInv, Between, Flushing, OpInv,
                 ByLoop, ByCancel, Content, Closes
<1>5. OverInv'
  BY <1>1, <1>2, <1>3 DEF Announce, stopping, LoopInv, FlushInv, StopInv, Between, OverInv, Over
<1>6. FileInv'
  BY <1>1, <1>2, <1>3 DEF Announce, stopping, LoopInv, StopInv, Between, FileInv
<1>7. RowInv'
  BY <1>1, <1>2, <1>3 DEF Announce, stopping, LoopInv, StopInv, Between, RowInv
<1>8. SavedInv'
  BY <1>1, <1>2, <1>3
     DEF Announce, stopping, LoopInv, FlushInv, StopInv, Between, SavedInv, Saved, OverInv, Over
<1>9. OldInv'
  BY <1>1, <1>2, <1>3 DEF Announce, stopping, LoopInv, Between, OldInv, Harmless, Kept
<1> QED BY <1>4, <1>5, <1>6, <1>7, <1>8, <1>9 DEF FilesInv

LEMMA InterruptKeepsFiles ==
  ASSUME JournalInv, Interrupt, LoopInv', FlushInv', StopInv'
  PROVE  FilesInv'
<1> USE DEF JournalInv, LoopGoes, Flushed, Joined, Forgets
<1>1. /\ turn \in 0..MaxTurns /\ parts \in Nat /\ TypeOK /\ Loop # Cancel
      /\ Loop \in Flushers /\ Cancel \in Flushers
      /\ Loop \notin Background /\ Cancel \notin Background
  BY WhoFlushes DEF TypeOK
<1>2. UNCHANGED <<partial, rows, queue, turn>>
  BY DEF Interrupt, disk
<1>3. /\ flushes'[Loop].st = "idle"
      /\ \A g \in Flushers \ {Loop} : flushes'[g] = flushes[g]
  BY <1>1, AfterResume DEF Interrupt
<1>4. LineInv'
  <2> SUFFICES ASSUME NEW op \in Of(queue) PROVE OpInv(op)'
    BY <1>2 DEF LineInv, Ordered, Of
  <2>1. op \in Operations /\ op.by \in Flushers /\ OpInv(op)
    BY <1>1, QueuedOperation
  <2> QED BY <1>1, <1>2, <1>3, <2>1
             DEF Interrupt, stopping, LoopInv, FlushInv, StopInv, Between, Flushing, OpInv,
                 ByLoop, ByCancel, Content, Closes
<1>5. OverInv'
  BY <1>1, <1>2, <1>3 DEF Interrupt, stopping, LoopInv, FlushInv, StopInv, Between, OverInv, Over
<1>6. FileInv'
  <2>1. turn \in 1..turn /\ loop = "interrupting" /\ loop' = "streaming"
    BY <1>1 DEF Interrupt, LoopInv, Between
  <2>2. abandoned' \subseteq abandoned \cup {turn} /\ UNCHANGED <<announced, unwritten, parts>>
    BY DEF Interrupt
  <2> QED BY <1>2, <2>1, <2>2 DEF FileInv, Between
<1>7. RowInv'
  BY <1>1, <1>2, <1>3 DEF Interrupt, stopping, LoopInv, StopInv, Between, RowInv
<1>8. SavedInv'
  BY <1>1, <1>2, <1>3
     DEF Interrupt, stopping, LoopInv, FlushInv, StopInv, Between, SavedInv, Saved, OverInv, Over
<1>9. OldInv'
  BY <1>1, <1>2, <1>3 DEF Interrupt, stopping, LoopInv, Between, OldInv, Harmless, Kept
<1> QED BY <1>4, <1>5, <1>6, <1>7, <1>8, <1>9 DEF FilesInv

LEMMA EndOfAttemptKeepsFiles ==
  ASSUME JournalInv, EndOfAttempt, LoopInv', FlushInv', StopInv'
  PROVE  FilesInv'
<1> USE DEF JournalInv, LoopGoes, Flushed, Joined, Forgets
<1>1. /\ turn \in 0..MaxTurns /\ parts \in Nat /\ TypeOK /\ Loop # Cancel
      /\ Loop \in Flushers /\ Cancel \in Flushers
      /\ Loop \notin Background /\ Cancel \notin Background
  BY WhoFlushes DEF TypeOK
<1>2. UNCHANGED <<partial, rows, queue, turn>>
  BY DEF EndOfAttempt, disk
<1>3. /\ flushes'[Loop].st \in {"idle", "waiting", "ready"}
      /\ \A g \in Flushers \ {Loop} : flushes'[g] = flushes[g]
  BY <1>1, AfterAwait, AfterResume DEF EndOfAttempt
<1>4. LineInv'
  <2> SUFFICES ASSUME NEW op \in Of(queue) PROVE OpInv(op)'
    BY <1>2 DEF LineInv, Ordered, Of
  <2>1. op \in Operations /\ op.by \in Flushers /\ OpInv(op)
    BY <1>1, QueuedOperation
  <2> QED BY <1>1, <1>2, <1>3, <2>1
             DEF EndOfAttempt, stopping, history, LoopInv, FlushInv, StopInv, Between, Flushing,
                 OpInv, ByLoop, ByCancel, Content, Closes
<1>5. OverInv'
  BY <1>1, <1>2, <1>3
     DEF EndOfAttempt, stopping, history, LoopInv, FlushInv, StopInv, Between, OverInv, Over
<1>6. FileInv'
  BY <1>1, <1>2, <1>3 DEF EndOfAttempt, stopping, history, LoopInv, StopInv, Between, FileInv
<1>7. RowInv'
  BY <1>1, <1>2, <1>3 DEF EndOfAttempt, stopping, history, LoopInv, StopInv, Between, RowInv
<1>8. SavedInv'
  BY <1>1, <1>2, <1>3
     DEF EndOfAttempt, stopping, history, LoopInv, FlushInv, StopInv, Between, SavedInv, Saved,
         OverInv, Over
<1>9. OldInv'
  BY <1>1, <1>2, <1>3
     DEF EndOfAttempt, stopping, history, LoopInv, Between, OldInv, Harmless, Kept
<1> QED BY <1>4, <1>5, <1>6, <1>7, <1>8, <1>9 DEF FilesInv

LEMMA RetryKeepsFiles ==
  ASSUME JournalInv, Retry, LoopInv', FlushInv', StopInv'
  PROVE  FilesInv'
<1> USE DEF JournalInv, LoopGoes, Flushed, Joined, Forgets
<1>1. /\ turn \in 0..MaxTurns /\ parts \in Nat /\ TypeOK /\ Loop # Cancel
      /\ Loop \in Flushers /\ Cancel \in Flushers
      /\ Loop \notin Background /\ Cancel \notin Background
  BY WhoFlushes DEF TypeOK
<1>2. UNCHANGED <<partial, rows, queue, turn>>
  BY DEF Retry, disk
<1>3. /\ flushes'[Loop].st \in {"waiting", "ready"} /\ flushes'[Loop].turn = turn
      /\ \A g \in Flushers \ {Loop} : flushes'[g] = flushes[g]
  BY <1>1, AfterAwait DEF Retry
<1>4. LineInv'
  <2> SUFFICES ASSUME NEW op \in Of(queue) PROVE OpInv(op)'
    BY <1>2 DEF LineInv, Ordered, Of
  <2>1. op \in Operations /\ op.by \in Flushers /\ OpInv(op)
    BY <1>1, QueuedOperation
  <2> QED BY <1>1, <1>2, <1>3, <2>1
             DEF Retry, stopping, history, LoopInv, FlushInv, StopInv, Between, Flushing, OpInv,
                 ByLoop, ByCancel, Content, Closes
<1>5. OverInv'
  BY <1>1, <1>2, <1>3
     DEF Retry, stopping, history, LoopInv, FlushInv, StopInv, Between, OverInv, Over
<1>6. FileInv'
  BY <1>1, <1>2, <1>3 DEF Retry, stopping, history, LoopInv, StopInv, Between, FileInv
<1>7. RowInv'
  BY <1>1, <1>2, <1>3 DEF Retry, stopping, history, LoopInv, StopInv, Between, RowInv
<1>8. SavedInv'
  BY <1>1, <1>2, <1>3
     DEF Retry, stopping, history, LoopInv, FlushInv, StopInv, Between, SavedInv, Saved, OverInv,
         Over
<1>9. OldInv'
  BY <1>1, <1>2, <1>3 DEF Retry, stopping, history, LoopInv, Between, OldInv, Harmless, Kept
<1> QED BY <1>4, <1>5, <1>6, <1>7, <1>8, <1>9 DEF FilesInv

LEMMA FailKeepsFiles ==
  ASSUME JournalInv, Fail, LoopInv', FlushInv', StopInv'
  PROVE  FilesInv'
<1> USE DEF JournalInv, LoopGoes, Flushed, Joined, Forgets
<1>1. /\ turn \in 0..MaxTurns /\ parts \in Nat /\ TypeOK /\ Loop # Cancel
      /\ Loop \in Flushers /\ Cancel \in Flushers
      /\ Loop \notin Background /\ Cancel \notin Background
  BY WhoFlushes DEF TypeOK
<1>2. UNCHANGED <<partial, rows, queue, turn>>
  BY DEF Fail, disk
<1>3. /\ flushes'[Loop].st = "idle"
      /\ \A g \in Flushers \ {Loop} : flushes'[g] = flushes[g]
  BY <1>1, AfterResume DEF Fail
<1>4. LineInv'
  <2> SUFFICES ASSUME NEW op \in Of(queue) PROVE OpInv(op)'
    BY <1>2 DEF LineInv, Ordered, Of
  <2>1. op \in Operations /\ op.by \in Flushers /\ OpInv(op)
    BY <1>1, QueuedOperation
  <2> QED BY <1>1, <1>2, <1>3, <2>1
             DEF Fail, stopping, history, LoopInv, FlushInv, StopInv, Between, Flushing, OpInv,
                 ByLoop, ByCancel, Content, Closes
<1>5. OverInv'
  BY <1>1, <1>2, <1>3
     DEF Fail, stopping, history, LoopInv, FlushInv, StopInv, Between, OverInv, Over
<1>6. FileInv'
  BY <1>1, <1>2, <1>3 DEF Fail, stopping, history, LoopInv, StopInv, Between, FileInv
<1>7. RowInv'
  BY <1>1, <1>2, <1>3 DEF Fail, stopping, history, LoopInv, StopInv, Between, RowInv
<1>8. SavedInv'
  BY <1>1, <1>2, <1>3
     DEF Fail, stopping, history, LoopInv, FlushInv, StopInv, Between, SavedInv, Saved, OverInv,
         Over
<1>9. OldInv'
  BY <1>1, <1>2, <1>3 DEF Fail, stopping, history, LoopInv, Between, OldInv, Harmless, Kept
<1> QED BY <1>4, <1>5, <1>6, <1>7, <1>8, <1>9 DEF FilesInv

LEMMA CloseResourcesKeepsFiles ==
  ASSUME JournalInv, CloseResources, LoopInv', FlushInv', StopInv'
  PROVE  FilesInv'
<1> USE DEF JournalInv, LoopGoes, Flushed, Joined, Forgets
<1>1. /\ turn \in 0..MaxTurns /\ parts \in Nat /\ TypeOK /\ Loop # Cancel
      /\ Loop \in Flushers /\ Cancel \in Flushers
      /\ Loop \notin Background /\ Cancel \notin Background
  BY WhoFlushes DEF TypeOK
<1>2. UNCHANGED <<partial, rows, queue, turn>>
  BY DEF CloseResources, disk
<1>3. /\ flushes'[Loop].st \in {"waiting", "ready"} /\ flushes'[Loop].turn = turn
      /\ \A g \in Flushers \ {Loop} : flushes'[g] = flushes[g]
  BY <1>1, AfterAwait DEF CloseResources
<1>4. LineInv'
  <2> SUFFICES ASSUME NEW op \in Of(queue) PROVE OpInv(op)'
    BY <1>2 DEF LineInv, Ordered, Of
  <2>1. op \in Operations /\ op.by \in Flushers /\ OpInv(op)
    BY <1>1, QueuedOperation
  <2> QED BY <1>1, <1>2, <1>3, <2>1
             DEF CloseResources, stopping, history, LoopInv, FlushInv, StopInv, Between,
                 Flushing, OpInv, ByLoop, ByCancel, Content, Closes
<1>5. OverInv'
  BY <1>1, <1>2, <1>3
     DEF CloseResources, stopping, history, LoopInv, FlushInv, StopInv, Between, OverInv, Over
<1>6. FileInv'
  BY <1>1, <1>2, <1>3 DEF CloseResources, stopping, history, LoopInv, StopInv, Between, FileInv
<1>7. RowInv'
  BY <1>1, <1>2, <1>3 DEF CloseResources, stopping, history, LoopInv, StopInv, Between, RowInv
<1>8. SavedInv'
  BY <1>1, <1>2, <1>3
     DEF CloseResources, stopping, history, LoopInv, FlushInv, StopInv, Between, SavedInv, Saved,
         OverInv, Over
<1>9. OldInv'
  BY <1>1, <1>2, <1>3
     DEF CloseResources, stopping, history, LoopInv, Between, OldInv, Harmless, Kept
<1> QED BY <1>4, <1>5, <1>6, <1>7, <1>8, <1>9 DEF FilesInv

LEMMA LoopEndsKeepsFiles ==
  ASSUME JournalInv, LoopEnds, LoopInv', FlushInv', StopInv'
  PROVE  FilesInv'
<1> USE DEF JournalInv, LoopGoes, Flushed, Joined, Forgets
<1>1. /\ turn \in 0..MaxTurns /\ parts \in Nat /\ TypeOK /\ Loop # Cancel
      /\ Loop \in Flushers /\ Cancel \in Flushers
      /\ Loop \notin Background /\ Cancel \notin Background
  BY WhoFlushes DEF TypeOK
<1>2. UNCHANGED <<partial, rows, queue, turn>>
  BY DEF LoopEnds, disk
<1>3. /\ flushes'[Loop].st = "idle"
      /\ \A g \in Flushers \ {Loop} : flushes'[g] = flushes[g]
  BY <1>1, AfterResume DEF LoopEnds
<1>4. LineInv'
  <2> SUFFICES ASSUME NEW op \in Of(queue) PROVE OpInv(op)'
    BY <1>2 DEF LineInv, Ordered, Of
  <2>1. op \in Operations /\ op.by \in Flushers /\ OpInv(op)
    BY <1>1, QueuedOperation
  <2> QED BY <1>1, <1>2, <1>3, <2>1
             DEF LoopEnds, stopping, history, LoopInv, FlushInv, StopInv, Between, Flushing,
                 OpInv, ByLoop, ByCancel, Content, Closes
<1>5. OverInv'
  BY <1>1, <1>2, <1>3
     DEF LoopEnds, stopping, history, LoopInv, FlushInv, StopInv, Between, OverInv, Over
<1>6. FileInv'
  BY <1>1, <1>2, <1>3 DEF LoopEnds, stopping, history, LoopInv, StopInv, Between, FileInv
<1>7. RowInv'
  BY <1>1, <1>2, <1>3 DEF LoopEnds, stopping, history, LoopInv, StopInv, Between, RowInv
<1>8. SavedInv'
  BY <1>1, <1>2, <1>3
     DEF LoopEnds, stopping, history, LoopInv, FlushInv, StopInv, Between, SavedInv, Saved,
         OverInv, Over
<1>9. OldInv'
  BY <1>1, <1>2, <1>3 DEF LoopEnds, stopping, history, LoopInv, Between, OldInv, Harmless, Kept
<1> QED BY <1>4, <1>5, <1>6, <1>7, <1>8, <1>9 DEF FilesInv

LEMMA LeaveKeepsFiles ==
  ASSUME JournalInv, Leave, LoopInv', FlushInv', StopInv'
  PROVE  FilesInv'
<1> USE DEF JournalInv, LoopGoes, Flushed, Joined, Forgets
<1>1. /\ turn \in 0..MaxTurns /\ parts \in Nat /\ TypeOK /\ Loop # Cancel
      /\ Loop \in Flushers /\ Cancel \in Flushers
      /\ Loop \notin Background /\ Cancel \notin Background
  BY WhoFlushes DEF TypeOK
<1>2. UNCHANGED <<partial, rows, queue, turn>>
  BY DEF Leave, disk
<1>3. flushes' = flushes
  BY <1>1 DEF Leave, journal
<1>4. LineInv'
  <2> SUFFICES ASSUME NEW op \in Of(queue) PROVE OpInv(op)'
    BY <1>2 DEF LineInv, Ordered, Of
  <2>1. op \in Operations /\ op.by \in Flushers /\ OpInv(op)
    BY <1>1, QueuedOperation
  <2> QED BY <1>1, <1>2, <1>3, <2>1
             DEF Leave, stopping, history, LoopInv, FlushInv, StopInv, Between, Flushing, OpInv,
                 ByLoop, ByCancel, Content, Closes
<1>5. OverInv'
  BY <1>1, <1>2, <1>3
     DEF Leave, stopping, history, LoopInv, FlushInv, StopInv, Between, OverInv, Over
<1>6. FileInv'
  BY <1>1, <1>2, <1>3 DEF Leave, stopping, history, LoopInv, StopInv, Between, FileInv
<1>7. RowInv'
  BY <1>1, <1>2, <1>3 DEF Leave, stopping, history, LoopInv, StopInv, Between, RowInv
<1>8. SavedInv'
  BY <1>1, <1>2, <1>3
     DEF Leave, stopping, history, LoopInv, FlushInv, StopInv, Between, SavedInv, Saved, OverInv,
         Over
<1>9. OldInv'
  BY <1>1, <1>2, <1>3 DEF Leave, stopping, history, LoopInv, Between, OldInv, Harmless, Kept
<1> QED BY <1>4, <1>5, <1>6, <1>7, <1>8, <1>9 DEF FilesInv

LEMMA ScheduleKeepsFiles ==
  ASSUME JournalInv, Schedule, LoopInv', FlushInv', StopInv'
  PROVE  FilesInv'
<1> USE DEF JournalInv, LoopGoes, Flushed, Joined, Forgets
<1>1. /\ turn \in 0..MaxTurns /\ parts \in Nat /\ TypeOK /\ Loop # Cancel
      /\ Loop \in Flushers /\ Cancel \in Flushers /\ Background \subseteq Flushers
      /\ Loop \notin Background /\ Cancel \notin Background
  BY WhoFlushes DEF TypeOK, Flushers
<1>2. UNCHANGED <<partial, rows, queue, turn>>
  BY DEF Schedule, disk, engine
<1>3. \A g \in Flushers : flushes'[g] = flushes[g] \/ (g \in Background
        /\ flushes[g].st = "idle")
  BY <1>1, AfterAwait DEF Schedule
<1>4. LineInv'
  <2> SUFFICES ASSUME NEW op \in Of(queue) PROVE OpInv(op)'
    BY <1>2 DEF LineInv, Ordered, Of
  <2>1. op \in Operations /\ op.by \in Flushers /\ OpInv(op)
    BY <1>1, QueuedOperation
  <2> QED BY <1>1, <1>2, <1>3, <2>1
             DEF Schedule, engine, stopping, history, LoopInv, FlushInv, StopInv, Between,
                 Flushing, OpInv, ByLoop, ByCancel, Content, Closes
<1>5. OverInv'
  BY <1>1, <1>2, <1>3
     DEF Schedule, engine, stopping, history, LoopInv, FlushInv, StopInv, Between, OverInv, Over
<1>6. FileInv'
  BY <1>1, <1>2, <1>3 DEF Schedule, engine, stopping, history, LoopInv, StopInv, Between, FileInv
<1>7. RowInv'
  BY <1>1, <1>2, <1>3 DEF Schedule, engine, stopping, history, LoopInv, StopInv, Between, RowInv
<1>8. SavedInv'
  BY <1>1, <1>2, <1>3
     DEF Schedule, engine, stopping, history, LoopInv, FlushInv, StopInv, Between, SavedInv,
         Saved, OverInv, Over
<1>9. OldInv'
  BY <1>1, <1>2, <1>3
     DEF Schedule, engine, stopping, history, LoopInv, Between, OldInv, Harmless, Kept
<1> QED BY <1>4, <1>5, <1>6, <1>7, <1>8, <1>9 DEF FilesInv

LEMMA WakesKeepsFiles ==
  ASSUME JournalInv, Wakes, LoopInv', FlushInv', StopInv'
  PROVE  FilesInv'
<1> USE DEF JournalInv, LoopGoes, Flushed, Joined, Forgets
<1>1. /\ turn \in 0..MaxTurns /\ parts \in Nat /\ TypeOK /\ Loop # Cancel
      /\ Loop \in Flushers /\ Cancel \in Flushers /\ Background \subseteq Flushers
      /\ Loop \notin Background /\ Cancel \notin Background
  BY WhoFlushes DEF TypeOK, Flushers
<1>2. UNCHANGED <<partial, rows, queue, turn>>
  BY DEF Wakes, disk, engine
<1>3. \A g \in Flushers : flushes'[g] = flushes[g] \/ (g \in Background
        /\ flushes[g].st = "idle")
  BY <1>1, AfterAwait DEF Wakes
<1>4. LineInv'
  <2> SUFFICES ASSUME NEW op \in Of(queue) PROVE OpInv(op)'
    BY <1>2 DEF LineInv, Ordered, Of
  <2>1. op \in Operations /\ op.by \in Flushers /\ OpInv(op)
    BY <1>1, QueuedOperation
  <2> QED BY <1>1, <1>2, <1>3, <2>1
             DEF Wakes, engine, stopping, history, LoopInv, FlushInv, StopInv, Between, Flushing,
                 OpInv, ByLoop, ByCancel, Content, Closes
<1>5. OverInv'
  BY <1>1, <1>2, <1>3
     DEF Wakes, engine, stopping, history, LoopInv, FlushInv, StopInv, Between, OverInv, Over
<1>6. FileInv'
  BY <1>1, <1>2, <1>3 DEF Wakes, engine, stopping, history, LoopInv, StopInv, Between, FileInv
<1>7. RowInv'
  BY <1>1, <1>2, <1>3 DEF Wakes, engine, stopping, history, LoopInv, StopInv, Between, RowInv
<1>8. SavedInv'
  BY <1>1, <1>2, <1>3
     DEF Wakes, engine, stopping, history, LoopInv, FlushInv, StopInv, Between, SavedInv, Saved,
         OverInv, Over
<1>9. OldInv'
  BY <1>1, <1>2, <1>3
     DEF Wakes, engine, stopping, history, LoopInv, Between, OldInv, Harmless, Kept
<1> QED BY <1>4, <1>5, <1>6, <1>7, <1>8, <1>9 DEF FilesInv

LEMMA StopKeepsFiles ==
  ASSUME JournalInv, Stop, LoopInv', FlushInv', StopInv'
  PROVE  FilesInv'
<1> USE DEF JournalInv, LoopGoes, Flushed, Joined, Forgets
<1>1. /\ turn \in 0..MaxTurns /\ parts \in Nat /\ TypeOK /\ Loop # Cancel
      /\ Loop \in Flushers /\ Cancel \in Flushers /\ Background \subseteq Flushers
      /\ Loop \notin Background /\ Cancel \notin Background
  BY WhoFlushes DEF TypeOK, Flushers
<1>2. UNCHANGED <<partial, rows, queue, turn>>
  BY DEF Stop, disk, engine
<1>3. flushes[Cancel].st = "idle" /\ \A g \in Flushers \ {Cancel} : flushes'[g] = flushes[g]
  BY <1>1, AfterAwait DEF Stop, FlushInv
<1>4. LineInv'
  <2> SUFFICES ASSUME NEW op \in Of(queue) PROVE OpInv(op)'
    BY <1>2 DEF LineInv, Ordered, Of
  <2>1. op \in Operations /\ op.by \in Flushers /\ OpInv(op)
    BY <1>1, QueuedOperation
  <2> QED BY <1>1, <1>2, <1>3, <2>1
             DEF Stop, May, Running, engine, LoopInv, FlushInv, StopInv, Between, Flushing,
                 OpInv, ByLoop, ByCancel, Content, Closes
<1>5. OverInv'
  BY <1>1, <1>2, <1>3
     DEF Stop, May, Running, engine, LoopInv, FlushInv, StopInv, Between, OverInv, Over
<1>6. FileInv'
  BY <1>1, <1>2, <1>3 DEF Stop, May, Running, engine, LoopInv, StopInv, Between, FileInv
<1>7. RowInv'
  BY <1>1, <1>2, <1>3 DEF Stop, May, Running, engine, LoopInv, StopInv, Between, RowInv
<1>8. SavedInv'
  BY <1>1, <1>2, <1>3
     DEF Stop, May, Running, engine, LoopInv, FlushInv, StopInv, Between, SavedInv, Saved,
         OverInv, Over
<1>9. OldInv'
  BY <1>1, <1>2, <1>3 DEF Stop, May, Running, engine, LoopInv, Between, OldInv, Harmless, Kept
<1> QED BY <1>4, <1>5, <1>6, <1>7, <1>8, <1>9 DEF FilesInv

LEMMA StopAbortsKeepsFiles ==
  ASSUME JournalInv, StopAborts, LoopInv', FlushInv', StopInv'
  PROVE  FilesInv'
<1> USE DEF JournalInv, LoopGoes, Flushed, Joined, Forgets
<1>1. /\ turn \in 0..MaxTurns /\ parts \in Nat /\ TypeOK /\ Loop # Cancel
      /\ Loop \in Flushers /\ Cancel \in Flushers /\ Background \subseteq Flushers
      /\ Loop \notin Background /\ Cancel \notin Background
  BY WhoFlushes DEF TypeOK, Flushers
<1>2. UNCHANGED <<partial, rows, queue, turn>>
  BY DEF StopAborts, disk, engine
<1>3. flushes'[Cancel].st = "idle" /\ \A g \in Flushers \ {Cancel} : flushes'[g] = flushes[g]
  BY <1>1, AfterResume DEF StopAborts
<1>4. LineInv'
  <2> SUFFICES ASSUME NEW op \in Of(queue) PROVE OpInv(op)'
    BY <1>2 DEF LineInv, Ordered, Of
  <2>1. op \in Operations /\ op.by \in Flushers /\ OpInv(op)
    BY <1>1, QueuedOperation
  <2> QED BY <1>1, <1>2, <1>3, <2>1
             DEF StopAborts, history, LoopInv, FlushInv, StopInv, Between, Flushing, OpInv,
                 ByLoop, ByCancel, Content, Closes
<1>5. OverInv'
  BY <1>1, <1>2, <1>3 DEF StopAborts, history, LoopInv, FlushInv, StopInv, Between, OverInv, Over
<1>6. FileInv'
  BY <1>1, <1>2, <1>3 DEF StopAborts, history, LoopInv, StopInv, Between, FileInv
<1>7. RowInv'
  BY <1>1, <1>2, <1>3 DEF StopAborts, history, LoopInv, StopInv, Between, RowInv
<1>8. SavedInv'
  BY <1>1, <1>2, <1>3
     DEF StopAborts, history, LoopInv, FlushInv, StopInv, Between, SavedInv, Saved, OverInv, Over
<1>9. OldInv'
  BY <1>1, <1>2, <1>3 DEF StopAborts, history, LoopInv, Between, OldInv, Harmless, Kept
<1> QED BY <1>4, <1>5, <1>6, <1>7, <1>8, <1>9 DEF FilesInv

LEMMA CommitFinalKeepsFiles ==
  ASSUME JournalInv, CommitFinal, LoopInv', FlushInv', StopInv'
  PROVE  FilesInv'
<1> USE DEF JournalInv, LoopGoes, Flushed, Joined, Forgets
<1>1. /\ turn \in 0..MaxTurns /\ parts \in Nat /\ TypeOK /\ Loop # Cancel
      /\ Loop \in Flushers /\ Cancel \in Flushers /\ Background \subseteq Flushers
      /\ Loop \notin Background /\ Cancel \notin Background
  BY WhoFlushes DEF TypeOK, Flushers
<1>2. UNCHANGED <<partial, rows, turn, flushes>>
  BY DEF CommitFinal, disk
<1>3. PICK new \in Operations :
        /\ new = Request("update", Loop, turn, parts, "final")
        /\ Of(queue') = Of(queue) \cup {new}
        /\ (\A b \in Of(queue) : InOrder(b, new)) => Ordered(queue')
  <2>1. Enqueue("update", Loop, turn, parts, "final") /\ parts \in 0..MaxParts
    BY DEF CommitFinal, TypeOK
  <2> QED BY <1>1, <2>1, Enqueued DEF Kinds, LineInv
<1>4. new.kind = "update" /\ new.by = Loop /\ new.turn = turn /\ new.parts = parts
        /\ new.end = "final"
  BY <1>3 DEF Request
<1>5. LineInv'
  <2>1. ASSUME NEW b \in Of(queue) PROVE InOrder(b, new) /\ OpInv(b)'
    <3>1. b \in Operations /\ b.by \in Flushers /\ b.kind \in Kinds /\ OpInv(b)
      BY <1>1, <2>1, QueuedOperation
    <3> QED BY <1>1, <1>2, <1>4, <3>1
               DEF CommitFinal, stopping, LoopInv, FlushInv, StopInv, Between, Flushing, OpInv,
                   ByLoop, ByCancel, Content, Closes, InOrder, Kinds
  <2>2. OpInv(new)'
    BY <1>1, <1>2, <1>4
       DEF CommitFinal, stopping, LoopInv, Between, OpInv, ByLoop, Content, Closes, FileInv
  <2> QED BY <1>3, <2>1, <2>2 DEF LineInv
<1>6. OverInv'
  BY <1>1, <1>2, <1>3, <1>4
     DEF CommitFinal, stopping, history, LoopInv, FlushInv, StopInv, Between, OverInv, Over
<1>7. FileInv'
  BY <1>1, <1>2, <1>3, <1>4 DEF CommitFinal, stopping, history, LoopInv, StopInv, Between, FileInv
<1>8. RowInv'
  BY <1>1, <1>2, <1>3, <1>4 DEF CommitFinal, stopping, history, LoopInv, StopInv, Between, RowInv
<1>9. SavedInv'
  BY <1>1, <1>2, <1>3, <1>4
     DEF CommitFinal, stopping, history, LoopInv, FlushInv, StopInv, Between, SavedInv, Saved,
         OverInv, Over
<1>10. OldInv'
  BY <1>1, <1>2, <1>3, <1>4
     DEF CommitFinal, stopping, history, LoopInv, Between, OldInv, Harmless, Kept
<1> QED BY <1>5, <1>6, <1>7, <1>8, <1>9, <1>10 DEF FilesInv

LEMMA SettleKeepsFiles ==
  ASSUME JournalInv, Settle, LoopInv', FlushInv', StopInv'
  PROVE  FilesInv'
<1> USE DEF JournalInv, LoopGoes, Flushed, Joined, Forgets
<1>1. /\ turn \in 0..MaxTurns /\ parts \in Nat /\ TypeOK /\ Loop # Cancel
      /\ Loop \in Flushers /\ Cancel \in Flushers /\ Background \subseteq Flushers
      /\ Loop \notin Background /\ Cancel \notin Background
  BY WhoFlushes DEF TypeOK, Flushers
<1>2. UNCHANGED <<partial, rows, turn, parts, flushes>>
  BY DEF Settle, disk, journal
<1>3. PICK new \in Operations :
        /\ \/ partial = NoPartial /\ loop' = "placing"
               /\ new = Request("place", Loop, turn + 1, 0, "open")
           \/ partial # NoPartial /\ loop' = "committing"
               /\ new = Request("commit", Loop, 0, 0, "open")
        /\ Of(queue') \subseteq Of(queue) \cup {new}
        /\ (\A b \in Of(queue) : InOrder(b, new)) => Ordered(queue')
  <2>1. turn + 1 \in 0..MaxTurns /\ 0 \in 0..MaxTurns /\ 0 \in 0..MaxParts
    BY <1>1, JournalAssumption DEF Settle
  <2>2. CASE partial = NoPartial
    <3>1. Enqueue("place", Loop, turn + 1, 0, "open")
      BY <2>2 DEF Settle
    <3> QED BY <1>1, <2>1, <2>2, <3>1, Enqueued DEF Kinds, LineInv, Settle
  <2>3. CASE partial # NoPartial
    <3>1. Enqueue("commit", Loop, 0, 0, "open")
      BY <2>3 DEF Settle
    <3> QED BY <1>1, <2>1, <2>3, <3>1, Enqueued DEF Kinds, LineInv, Settle
  <2> QED BY <2>2, <2>3
<1>4. /\ new.by = Loop /\ new.end = "open" /\ new.parts = 0
      /\ \/ new.kind = "place" /\ new.turn = turn + 1 /\ loop' = "placing" /\ partial = NoPartial
         \/ new.kind = "commit" /\ new.turn = 0 /\ loop' = "committing" /\ partial # NoPartial
  BY <1>3 DEF Request
<1>5. LineInv'
  <2>1. ASSUME NEW b \in Of(queue) PROVE InOrder(b, new) /\ OpInv(b)'
    <3>1. b \in Operations /\ b.by \in Flushers /\ b.kind \in Kinds /\ b.parts \in Nat
            /\ OpInv(b)
      BY <1>1, <2>1, QueuedOperation
    <3> QED BY <1>1, <1>2, <1>4, <3>1
               DEF Settle, stopping, journal, history, LoopInv, FlushInv, StopInv, Between,
                   Flushing, OpInv, ByLoop, ByCancel, Content, Closes, InOrder, Kinds
  <2>2. new \in Of(queue') => OpInv(new)'
    BY <1>1, <1>2, <1>3, <1>4
       DEF stopping, journal, history, LoopInv, StopInv, Between, OpInv, ByLoop, ByCancel,
           Content, Closes, FileInv, TypeOK
  <2> QED BY <1>3, <2>1, <2>2 DEF LineInv
<1>6. OverInv'
  BY <1>1, <1>2, <1>3, <1>4
     DEF Settle, stopping, journal, history, LoopInv, FlushInv, StopInv, Between, OverInv, Over
<1>7. FileInv'
  BY <1>1, <1>2, <1>3, <1>4
     DEF Settle, stopping, journal, history, LoopInv, StopInv, Between, FileInv
<1>8. RowInv'
  BY <1>1, <1>2, <1>3, <1>4
     DEF stopping, journal, history, LoopInv, StopInv, FlushInv, Flushing, Between, RowInv,
         Content, OverInv, Over
<1>9. SavedInv'
  BY <1>1, <1>2, <1>3, <1>4
     DEF Settle, stopping, journal, history, LoopInv, FlushInv, StopInv, Flushing, Between,
         SavedInv, Saved, OverInv, Over
<1>10. OldInv'
  BY <1>1, <1>2, <1>3, <1>4
     DEF Settle, stopping, journal, history, LoopInv, Between, OldInv, Harmless, Kept, NoPartial
<1> QED BY <1>5, <1>6, <1>7, <1>8, <1>9, <1>10 DEF FilesInv

LEMMA ResetForRetryKeepsFiles ==
  ASSUME JournalInv, ResetForRetry, LoopInv', FlushInv', StopInv'
  PROVE  FilesInv'
<1> USE DEF JournalInv, LoopGoes, Flushed, Joined, Forgets
<1>1. /\ turn \in 0..MaxTurns /\ parts \in Nat /\ TypeOK /\ Loop # Cancel
      /\ Loop \in Flushers /\ Cancel \in Flushers /\ Background \subseteq Flushers
      /\ Loop \notin Background /\ Cancel \notin Background
  BY WhoFlushes DEF TypeOK, Flushers
<1>2. UNCHANGED <<partial, rows, turn, parts>>
  BY DEF ResetForRetry, disk
<1>3. PICK new \in Operations :
        /\ new = Request("delete", Loop, turn, 0, "open")
        /\ \/ parts = 0 /\ loop' = "deleting" /\ Of(queue') \subseteq Of(queue) \cup {new}
           \/ loop' = "streaming" /\ Of(queue') \subseteq Of(queue)
        /\ (\A b \in Of(queue) : InOrder(b, new)) => Ordered(queue')
  <2>1. 0 \in 0..MaxParts /\ Request("delete", Loop, turn, 0, "open") \in Operations
    BY <1>1, JournalAssumption DEF Request, Operations
  <2>2. CASE parts = 0
    <3>1. Enqueue("delete", Loop, turn, 0, "open")
      BY <2>2 DEF ResetForRetry
    <3> QED BY <1>1, <2>1, <2>2, <3>1, Enqueued DEF Kinds, LineInv, ResetForRetry
  <2>3. CASE parts # 0
    BY <2>1, <2>3 DEF LineInv, ResetForRetry
  <2> QED BY <2>2, <2>3
<1>4. /\ new.by = Loop /\ new.kind = "delete" /\ new.turn = turn /\ new.parts = 0
      /\ flushes'[Loop].st = "idle" /\ flushes[Loop].st = "ready"
      /\ \A g \in Flushers \ {Loop} : flushes'[g] = flushes[g]
  BY <1>1, <1>3, AfterResume DEF Request, ResetForRetry
<1>5. LineInv'
  <2>1. ASSUME NEW b \in Of(queue) PROVE InOrder(b, new) /\ OpInv(b)'
    <3>1. b \in Operations /\ b.by \in Flushers /\ b.kind \in Kinds /\ b.parts \in Nat
            /\ OpInv(b)
      BY <1>1, <2>1, QueuedOperation
    <3> QED BY <1>1, <1>2, <1>4, <3>1
               DEF ResetForRetry, stopping, history, LoopInv, FlushInv, StopInv, Between,
                   Flushing, OpInv, ByLoop, ByCancel, Content, Closes, InOrder, Kinds
  <2>2. new \in Of(queue') /\ new \notin Of(queue) => OpInv(new)'
    BY <1>1, <1>2, <1>3, <1>4
       DEF stopping, history, LoopInv, StopInv, Between, OpInv, ByLoop, ByCancel, Content,
           Closes, FileInv, TypeOK
  <2> QED BY <1>3, <2>1, <2>2 DEF LineInv
<1>6. OverInv'
  BY <1>1, <1>2, <1>3, <1>4
     DEF ResetForRetry, stopping, history, LoopInv, FlushInv, StopInv, Between, OverInv, Over
<1>7. FileInv'
  BY <1>1, <1>2, <1>3, <1>4
     DEF ResetForRetry, stopping, history, LoopInv, StopInv, Between, FileInv
<1>8. RowInv'
  BY <1>1, <1>2, <1>3, <1>4
     DEF ResetForRetry, stopping, history, LoopInv, StopInv, FlushInv, Flushing, Between, RowInv,
         Content, OverInv, Over
<1>9. SavedInv'
  BY <1>1, <1>2, <1>3, <1>4
     DEF stopping, history, LoopInv, FlushInv, StopInv, Flushing, Between, SavedInv, Saved,
         OverInv, Over
<1>10. OldInv'
  BY <1>1, <1>2, <1>3, <1>4
     DEF ResetForRetry, stopping, history, LoopInv, Between, OldInv, Harmless, Kept, NoPartial
<1> QED BY <1>5, <1>6, <1>7, <1>8, <1>9, <1>10 DEF FilesInv

LEMMA StopCleansUpKeepsFiles ==
  ASSUME JournalInv, StopCleansUp, LoopInv', FlushInv', StopInv'
  PROVE  FilesInv'
<1> USE DEF JournalInv, LoopGoes, Flushed, Joined, Forgets
<1>1. /\ turn \in 0..MaxTurns /\ parts \in Nat /\ TypeOK /\ Loop # Cancel
      /\ Loop \in Flushers /\ Cancel \in Flushers /\ Background \subseteq Flushers
      /\ Loop \notin Background /\ Cancel \notin Background
  BY WhoFlushes DEF TypeOK, Flushers
<1>2. UNCHANGED <<partial, rows, turn, parts, flushes>>
  BY DEF StopCleansUp, disk, engine, journal
<1>3. PICK new \in Operations :
        /\ \/ terminal # "none" /\ cancel' = "done" /\ Of(queue') \subseteq Of(queue)
           \/ terminal = "none" /\ ~abandon /\ cancel' = "stamping"
                /\ new = Request("stamp", Cancel, turn, parts, "open")
           \/ terminal = "none" /\ ~abandon /\ cancel' = "settling"
                /\ new = Request("commit", Cancel, turn, 0, "open")
           \/ terminal = "none" /\ abandon /\ cancel' = "settling"
                /\ new = Request("delete", Cancel, turn, 0, "open")
           \/ terminal = "none" /\ ~abandon /\ partial = NoPartial /\ cancel' = "done"
                /\ Of(queue') \subseteq Of(queue)
        /\ Of(queue') \subseteq Of(queue) \cup {new}
        /\ cancel' = "done" \/ (\A b \in Of(queue) : InOrder(b, new)) => Ordered(queue')
  <2>1. parts \in 0..MaxParts /\ 0 \in 0..MaxParts
          /\ Request("delete", Cancel, turn, 0, "open") \in Operations
    BY <1>1, JournalAssumption DEF Request, Operations, TypeOK
  <2>2. CASE terminal = "none" /\ ~abandon /\ cancel' = "stamping"
               /\ Enqueue("stamp", Cancel, turn, parts, "open")
    BY <1>1, <2>1, <2>2, Enqueued DEF Kinds, LineInv
  <2>3. CASE terminal = "none" /\ ~abandon /\ cancel' = "settling"
               /\ Enqueue("commit", Cancel, turn, 0, "open")
    BY <1>1, <2>1, <2>3, Enqueued DEF Kinds, LineInv
  <2>4. CASE terminal = "none" /\ abandon /\ cancel' = "settling"
               /\ Enqueue("delete", Cancel, turn, 0, "open")
    BY <1>1, <2>1, <2>4, Enqueued DEF Kinds, LineInv
  <2>5. CASE UNCHANGED queue /\ cancel' = "done"
               /\ (terminal # "none" \/ (terminal = "none" /\ ~abandon /\ partial = NoPartial))
    BY <2>1, <2>5 DEF LineInv
  <2> QED BY <1>1, <2>2, <2>3, <2>4, <2>5 DEF StopCleansUp, SettleAbort, TypeOK
<1>4. /\ cancel = "joining" /\ loop = "ended"
      /\ \/ terminal # "none" /\ cancel' = "done" /\ Of(queue') \subseteq Of(queue)
         \/ /\ new.by = Cancel /\ new.turn = turn /\ new.end = "open" /\ terminal = "none"
            /\ \/ new.kind = "stamp" /\ ~abandon /\ cancel' = "stamping" /\ new.parts = parts
               \/ new.kind = "commit" /\ ~abandon /\ cancel' = "settling"
               \/ new.kind = "delete" /\ abandon /\ cancel' = "settling"
         \/ terminal = "none" /\ ~abandon /\ partial = NoPartial /\ cancel' = "done"
              /\ Of(queue') \subseteq Of(queue)
  BY <1>3 DEF Request, StopCleansUp
<1>5. LineInv'
  <2>1. ASSUME NEW b \in Of(queue) PROVE (cancel' # "done" => InOrder(b, new)) /\ OpInv(b)'
    <3>1. b \in Operations /\ b.by \in Flushers /\ b.kind \in Kinds /\ b.parts \in Nat
            /\ OpInv(b)
      BY <1>1, <2>1, QueuedOperation
    <3> QED BY <1>1, <1>2, <1>4, <3>1
               DEF engine, journal, history, LoopInv, FlushInv, StopInv, Between, Flushing,
                   OpInv, ByLoop, ByCancel, Content, Closes, InOrder, Kinds
  <2>2. new \in Of(queue') /\ new \notin Of(queue) => OpInv(new)'
    BY <1>1, <1>2, <1>3, <1>4
       DEF StopCleansUp, engine, journal, history, LoopInv, StopInv, Between, OpInv, ByLoop,
           ByCancel, Content, Closes, FileInv, TypeOK
  <2> QED BY <1>3, <2>1, <2>2 DEF LineInv
<1>6. OverInv'
  BY <1>1, <1>2, <1>3, <1>4
     DEF StopCleansUp, engine, journal, history, LoopInv, FlushInv, StopInv, Between, OverInv,
         Over
<1>7. FileInv'
  BY <1>1, <1>2, <1>3, <1>4
     DEF StopCleansUp, engine, journal, history, LoopInv, StopInv, Between, FileInv
<1>8. RowInv'
  BY <1>1, <1>2, <1>3, <1>4
     DEF engine, journal, history, LoopInv, StopInv, FlushInv, Flushing, Between, RowInv,
         Content, OverInv, Over
<1>9. SavedInv'
  BY <1>1, <1>2, <1>3, <1>4
     DEF StopCleansUp, engine, journal, history, LoopInv, FlushInv, StopInv, Flushing, Between,
         SavedInv, Saved, OverInv, Over, NoPartial
<1>10. OldInv'
  BY <1>1, <1>2, <1>3, <1>4
     DEF StopCleansUp, engine, journal, history, LoopInv, Between, OldInv, Harmless, Kept,
         NoPartial
<1> QED BY <1>5, <1>6, <1>7, <1>8, <1>9, <1>10 DEF FilesInv

LEMMA FlushKeepsFiles ==
  ASSUME JournalInv, NEW f \in Flushers, Flush(f), LoopInv', FlushInv', StopInv'
  PROVE  FilesInv'
<1> USE DEF JournalInv, LoopGoes, Flushed, Joined, Forgets
<1>1. /\ turn \in 0..MaxTurns /\ parts \in Nat /\ TypeOK /\ Loop # Cancel
      /\ Loop \in Flushers /\ Cancel \in Flushers /\ Background \subseteq Flushers
      /\ Loop \notin Background /\ Cancel \notin Background
  BY WhoFlushes DEF TypeOK, Flushers
<1>2. /\ UNCHANGED <<partial, rows, turn, parts, loop, terminal, cancel, abandon, history>>
      /\ f = Loop => loop \notin {"resetting", "joining"}
  BY DEF Flush, disk, engine, stopping
<1>3. PICK new \in Operations :
        /\ new = Request("write", f, turn, parts, IF f = Loop /\ loop = "failing" THEN "failed" ELSE "open")
        /\ \/ ~retired /\ flushes[f].turn = turn /\ Of(queue') \subseteq Of(queue) \cup {new}
                /\ flushes'[f].st = "writing" /\ retired' = (f = Loop /\ loop = "failing")
           \/ /\ retired \/ flushes[f].turn # turn
              /\ Of(queue') \subseteq Of(queue) /\ UNCHANGED retired /\ Ordered(queue')
              /\ f \notin Background => flushes'[f].st = "done"
        /\ (\A b \in Of(queue) : InOrder(b, new)) => Ordered(queue')
        /\ flushes[f].st = "ready"
        /\ \A g \in Flushers \ {f} : flushes'[g] = flushes[g]
  <2> DEFINE end == IF f = Loop /\ loop = "failing" THEN "failed" ELSE "open"
  <2>1. parts \in 0..MaxParts /\ end \in {"open", "failed", "final"}
    BY DEF TypeOK
  <2>2. Request("write", f, turn, parts, end) \in Operations
    BY <1>1, <2>1 DEF Request, Operations
  <2>3. CASE Enqueue("write", f, turn, parts, end)
    <3> HIDE DEF end
    <3>1. /\ Of(queue') \subseteq Of(queue) \cup {Request("write", f, turn, parts, end)}
          /\ (\A b \in Of(queue) : InOrder(b, Request("write", f, turn, parts, end)))
              => Ordered(queue')
      BY <1>1, <2>1, <2>3, Enqueued DEF Kinds, LineInv
    <3> QED BY <1>1, <2>2, <3>1, AfterFlush DEF end, LineInv
  <2>4. CASE UNCHANGED queue
    BY <1>1, <2>2, <2>4, AfterFlush DEF LineInv
  <2> QED BY <1>1, <2>3, <2>4, AfterFlush
<1>4. /\ new.by = f /\ new.kind = "write" /\ new.turn = turn /\ new.parts = parts
      /\ f = Loop /\ loop = "failing" => new.end = "failed"
      /\ ~(f = Loop /\ loop = "failing") => new.end = "open"
      /\ flushes[f].st = "ready"
      /\ \A g \in Flushers \ {f} : flushes'[g] = flushes[g]
      /\ \/ ~retired /\ flushes'[f].st = "writing" /\ retired' = (f = Loop /\ loop = "failing")
         \/ retired' = retired /\ (new \in Of(queue') => new \in Of(queue))
  BY <1>3 DEF Request
<1>5. LineInv'
  <2>1. ASSUME NEW b \in Of(queue) PROVE (~retired => InOrder(b, new)) /\ OpInv(b)'
    <3>1. b \in Operations /\ b.by \in Flushers /\ b.kind \in Kinds /\ b.parts \in Nat
            /\ OpInv(b)
      BY <1>1, <2>1, QueuedOperation
    <3>2. b.by # f
      BY <1>1, <1>2, <1>4, <3>1, WhoFlushes DEF FlushInv, Flushing, OpInv, ByLoop, ByCancel, Kinds
    <3>3. ~retired => InOrder(b, new)
      BY <1>1, <1>2, <1>4, <3>1, <3>2 DEF LoopInv, OpInv, Content, InOrder, Kinds
    <3>4. OpInv(b)'
      BY <1>1, <1>2, <1>4, <3>1, <3>2 DEF OpInv, ByLoop, ByCancel, Content, Closes, history
    <3> QED BY <3>3, <3>4
  <2>2. new \in Of(queue') /\ new \notin Of(queue) => OpInv(new)'
    <3> SUFFICES ASSUME new \notin Of(queue), new \in Of(queue') PROVE OpInv(new)'
      OBVIOUS
    <3>1. ~retired /\ flushes'[f].st = "writing" /\ retired' = (f = Loop /\ loop = "failing")
      BY <1>4
    <3>2. loop \notin Between /\ turn > 0 /\ (partial.turn = turn => partial.parts <= parts)
      BY <3>1 DEF LoopInv, FileInv
    <3>3. f = Loop \/ f = Cancel \/ f \in Background
      BY WhoFlushes
    <3>4. (f = Loop => ByLoop(new)') /\ (f = Cancel => ByCancel(new)')
      BY <1>1, <1>2, <1>4 DEF ByLoop, ByCancel
    <3>5. Closes(new) => retired'
      BY <1>4, <3>1 DEF Closes
    <3>6. new.parts <= parts /\ (partial.turn = turn => partial.parts <= new.parts)
      BY <1>1, <1>4, <3>2
    <3> QED BY <1>1, <1>2, <1>4, <3>1, <3>2, <3>3, <3>4, <3>5, <3>6 DEF OpInv
  <2> QED BY <1>3, <2>1, <2>2 DEF LineInv
<1>6. OverInv'
  BY <1>1, <1>2, <1>3, <1>4 DEF history, LoopInv, FlushInv, StopInv, Between, OverInv, Over
<1>7. FileInv'
  BY <1>1, <1>2, <1>3, <1>4 DEF history, LoopInv, StopInv, Between, FileInv
<1>8. RowInv'
  BY <1>1, <1>2, <1>3, <1>4
     DEF LoopInv, StopInv, FlushInv, Flushing, Between, RowInv, Content, OverInv, Over
<1>9. SavedInv'
  BY <1>1, <1>2, <1>3, <1>4
     DEF history, LoopInv, FlushInv, StopInv, Flushing, Between, SavedInv, Saved, OverInv, Over
<1>10. OldInv'
  BY <1>1, <1>2, <1>3, <1>4 DEF history, LoopInv, Between, OldInv, Harmless, Kept, NoPartial
<1> QED BY <1>5, <1>6, <1>7, <1>8, <1>9, <1>10 DEF FilesInv

LEMMA CrashKeepsFiles ==
  ASSUME JournalInv, Crash
  PROVE  FilesInv'
<1> USE DEF JournalInv, Forgets
<1>1. turn \in 0..MaxTurns /\ UNCHANGED <<partial, rows, turn, announced, abandoned, unwritten>>
  BY DEF Crash, TypeOK, disk, history
<1>2. Of(queue') = {} /\ Ordered(queue') /\ loop' = "off" /\ retired' /\ terminal' = "none"
  BY EmptySeq, QueuedAreOperations DEF Crash
<1>3. LineInv' /\ OverInv'
  BY <1>1, <1>2 DEF LineInv, OverInv, Over, Between
<1>4. FileInv' /\ RowInv'
  BY <1>1, <1>2 DEF FileInv, RowInv, Between, Crash
<1>5. SavedInv' /\ OldInv'
  BY <1>1, <1>2 DEF SavedInv, OldInv, Harmless, Kept, Between, Crash
<1> QED BY <1>3, <1>4, <1>5 DEF FilesInv

LEMMA StutterKeepsFiles ==
  ASSUME JournalInv, UNCHANGED vars
  PROVE  FilesInv'
BY DEF vars, disk, engine, stopping, journal, history, bounds, JournalInv, FilesInv, LineInv,
       OpInv, ByLoop, ByCancel, OverInv, Over, FileInv, RowInv, SavedInv, Saved, OldInv,
       Harmless, Kept, Flushed

\* Once an operation closes the turn's partial, nothing waits behind it.
LEMMA NothingFollows ==
  ASSUME JournalInv, queue # <<>>, Closes(Op) \/ loop = "clearing"
  PROVE  Of(Tail(queue)) = {}
<1> USE DEF JournalInv
<1> SUFFICES ASSUME NEW b \in Of(Tail(queue)) PROVE FALSE
  OBVIOUS
<1>1. Loop # Cancel /\ Loop \notin Background /\ Cancel \notin Background
  BY WhoFlushes
<1>2. PICK op \in Operations : op = Op /\ op \in Of(queue) /\ OpInv(op) /\ InOrder(op, b)
                                 /\ b \in Of(queue)
  BY AtHead
<1>3. /\ OpInv(b) /\ b.kind \in Kinds /\ b.by \in {Loop, Cancel} \cup Background
      /\ op.kind \in Kinds /\ op.by \in {Loop, Cancel} \cup Background
  BY <1>2, QueuedOperation, WhoFlushes
<1>4. b.by # op.by /\ b.kind \notin {"write", "unlink"}
  <2>1. CASE Closes(op)
    BY <1>2, <2>1 DEF InOrder
  <2>2. CASE loop = "clearing"
    BY <1>2, <2>2 DEF InOrder, OverInv, Over
  <2> QED BY <1>2, <2>1, <2>2
<1>5. CASE b.by = Loop
  <2>1. loop \in {"updating", "marking", "deleting", "clearing", "committing", "placing"}
    BY <1>3, <1>4, <1>5 DEF OpInv, ByLoop, Kinds
  <2>2. op.by = Cancel
    <3>1. CASE op.by \in Background
      <4>1. op.kind = "write" /\ op.end = "open"
        BY <1>1, <1>2, <3>1 DEF OpInv
      <4> QED BY <1>2, <2>1, <4>1, <3>1 DEF Closes, OverInv, Over
    <3> QED BY <1>3, <1>4, <1>5, <3>1
  <2>3. op.kind = "write" => op.end = "open" /\ flushes[Cancel].st = "writing"
    BY <1>1, <1>2, <2>2 DEF OpInv
  <2>4. op.kind # "write"
    BY <1>2, <2>2, <2>3 DEF Closes, OverInv, Over
  <2> QED BY <1>2, <2>1, <2>2, <2>4 DEF OpInv, ByCancel, StopInv
<1>6. CASE b.by = Cancel
  <2>1. loop = "ended"
    BY <1>3, <1>4, <1>6 DEF OpInv, ByCancel, StopInv
  <2>2. Closes(op)
    BY <1>2, <2>1
  <2>3. op.by = Loop
    <3>1. CASE op.by \in Background
      <4>1. op.kind = "write" /\ op.end = "open"
        BY <1>1, <1>2, <3>1 DEF OpInv
      <4> QED BY <2>2, <4>1 DEF Closes
    <3> QED BY <1>3, <1>4, <1>6, <3>1
  <2> QED BY <1>1, <1>2, <1>3, <2>1, <2>2, <2>3 DEF OpInv, ByLoop, Closes, Kinds
<1>7. CASE b.by \in Background
  BY <1>1, <1>3, <1>4, <1>7 DEF OpInv
<1> QED BY <1>3, <1>5, <1>6, <1>7

LEMMA WritePartialKeepsFiles ==
  ASSUME JournalInv, queue # <<>>, WritePartial, LoopInv', FlushInv', StopInv'
  PROVE  FilesInv'
<1> USE DEF JournalInv, Flushed
<1>1. /\ turn \in 0..MaxTurns /\ parts \in Nat /\ partial.parts \in Nat /\ TypeOK
          /\ Loop # Cancel
      /\ Loop \in Flushers /\ Cancel \in Flushers
      /\ Loop \notin Background /\ Cancel \notin Background
  BY WhoFlushes, JournalAssumption DEF TypeOK, Partials
<1> DEFINE rest == Of(Tail(queue))
<1>2. PICK op \in Operations : op = Op /\ op \in Of(queue) /\ OpInv(op)
  BY AtHead
<1>3. \A b \in rest : b \in Of(queue) /\ InOrder(op, b)
  BY <1>2, AtHead
<1>4. Ordered(Tail(queue)) /\ Tail(queue) \in Seq(Operations) /\ op.by \in Flushers
        /\ op.parts \in Nat
  BY <1>2, AtHead, QueuedOperation
<1>5. op.kind = "write" /\ op.turn = turn /\ turn > 0
  BY <1>2 DEF WritePartial, OpInv, Content
<1>6. /\ partial'.turn = turn /\ partial'.parts = op.parts /\ partial'.end = op.end
      /\ UNCHANGED <<rows, turn, parts, loop, terminal, aborted, cancel, abandon, retired, history>>
  BY <1>2, <1>5 DEF WritePartial, engine, stopping
<1>7. /\ Of(queue') = rest /\ queue' = Tail(queue)
      /\ op.by \notin Background => flushes'[op.by].st = "done"
      /\ \A g \in Flushers \ {op.by} :
           flushes'[g].st = flushes[g].st \/ (flushes[g].st = "waiting"
             /\ flushes'[g].st = "ready")
  BY <1>1, <1>2, AfterWrite DEF WritePartial, Done
<1>8. LineInv'
  <2>1. ASSUME NEW b \in rest PROVE OpInv(b)'
    <3>1. b \in Operations /\ b.by \in Flushers /\ b.parts \in Nat /\ b.kind \in Kinds
            /\ OpInv(b) /\ InOrder(op, b)
      BY <1>1, <1>3, <2>1, QueuedOperation
    <3> QED BY <1>1, <1>2, <1>5, <1>6, <1>7, <3>1
               DEF LoopInv, FlushInv, StopInv, Between, Flushing, OpInv, ByLoop, ByCancel,
                   Content, Closes, InOrder
  <2> QED BY <1>4, <1>7, <2>1 DEF LineInv
<1>9. /\ ~Over /\ rows[turn] = EmptyRow /\ flushes[op.by].st = "writing"
      /\ loop \notin Between => op.parts <= parts
      /\ partial.turn = turn => partial.parts <= op.parts
      /\ op.end # "open" => op.end = "failed" /\ op.by = Loop /\ loop = "failing"
          /\ Closes(op) /\ retired
      /\ op.by = Loop => op.parts = parts /\ (loop = "failing" => op.end = "failed")
  <2>1. op.end \in {"open", "failed"}
    BY <1>1, <1>2, <1>5, WhoFlushes
       DEF OpInv, ByLoop, ByCancel, Content, Operations, Closes, OverInv, Over, FlushInv, Flushing
  <2> QED BY <1>1, <1>2, <1>5, <2>1 DEF OpInv, ByLoop, Content, Closes, OverInv, RowInv
<1>10. OverInv'
  <2>1. Over' => (op.end = "failed" /\ Closes(op) /\ retired)
    BY <1>1, <1>5, <1>6, <1>7, <1>9 DEF Over, history
  <2>2. \A b \in rest : Closes(op) => b.kind # "write"
    BY <1>3 DEF InOrder
  <2>3. op.end # "open" => loop = "failing" /\ flushes'[Loop].st = "done"
    BY <1>1, <1>7, <1>9
  <2>4. ~(turn > 0 /\ rows[turn].end = "final")
    BY <1>9 DEF Over
  <2> QED BY <1>6, <1>7, <2>1, <2>2, <2>3, <2>4 DEF OverInv
<1>11. FileInv'
  BY <1>1, <1>5, <1>6, <1>9 DEF history, FileInv
<1>12. RowInv'
  BY <1>1, <1>3, <1>6, <1>7 DEF RowInv
<1>13. SavedInv'
  <2>1. flushes'[Loop].st = "done" /\ loop = "announcing" => partial'.parts = parts
    <3>1. CASE op.by = Loop
      BY <1>6, <1>9, <3>1
    <3>2. CASE op.by # Loop
      <4>1. flushes'[Loop].st = "done" => flushes[Loop].st = "done"
        BY <1>1, <1>7, <3>2
      <4>2. loop = "announcing" /\ partial.parts = parts /\ partial.turn = turn
              => op.parts = parts
        BY <1>1, <1>4, <1>9 DEF Between
      <4> QED BY <1>6, <4>1, <4>2 DEF SavedInv
    <3> QED BY <3>1, <3>2
  <2> QED BY <1>1, <1>3, <1>6, <1>7, <2>1 DEF SavedInv, Saved, history
<1>14. OldInv'
  <2>1. \A b \in rest : b.kind # "unlink"
    BY <1>3 DEF InOrder
  <2>2. loop = "placing" => turn \in unwritten /\ op.end = "open"
    BY <1>2, <1>5, <1>9 DEF SavedInv, Between
  <2> QED BY <1>6, <1>7, <1>9, <2>1, <2>2 DEF OldInv, Harmless, history
<1> QED BY <1>8, <1>10, <1>11, <1>12, <1>13, <1>14 DEF FilesInv

LEMMA WriteFailsKeepsFiles ==
  ASSUME JournalInv, queue # <<>>, OperationFails, Op.kind = "write", LoopInv', FlushInv',
         StopInv'
  PROVE  FilesInv'
<1> USE DEF JournalInv, Flushed
<1>1. /\ turn \in 0..MaxTurns /\ parts \in Nat /\ partial.parts \in Nat /\ TypeOK
          /\ Loop # Cancel
      /\ Loop \in Flushers /\ Cancel \in Flushers
      /\ Loop \notin Background /\ Cancel \notin Background
  BY WhoFlushes, JournalAssumption DEF TypeOK, Partials
<1> DEFINE rest == Of(Tail(queue))
<1>2. PICK op \in Operations : op = Op /\ op \in Of(queue) /\ OpInv(op)
  BY AtHead
<1>3. \A b \in rest : b \in Of(queue) /\ InOrder(op, b)
  BY <1>2, AtHead
<1>4. Ordered(Tail(queue)) /\ Tail(queue) \in Seq(Operations) /\ op.by \in Flushers
        /\ op.parts \in Nat
  BY <1>2, AtHead, QueuedOperation
<1>5. op.kind = "write" /\ op.turn = turn /\ turn > 0
  BY <1>2 DEF OpInv, Content
<1>6. /\ unwritten' = unwritten \cup {turn}
      /\ UNCHANGED <<partial, rows, turn, parts, loop, terminal, aborted, cancel, abandon, retired,
                     announced, abandoned>>
  BY <1>2, <1>5 DEF OperationFails, disk
<1>7. /\ Of(queue') = rest /\ queue' = Tail(queue)
      /\ op.by \notin Background => flushes'[op.by].st = "failed"
      /\ \A g \in Flushers \ {op.by} :
           flushes'[g].st = flushes[g].st \/ (flushes[g].st = "waiting"
             /\ flushes'[g].st = "ready")
  <2>1. WriteEnds(op, "failed") /\ Done
    BY <1>2, <1>5 DEF OperationFails
  <2> QED BY <1>1, <1>2, <2>1, AfterWrite DEF Done
<1>8. ~Over /\ (op.by = Loop /\ loop = "failing" => Closes(op) /\ retired)
        /\ flushes[op.by].st = "writing"
  BY <1>2, <1>5 DEF OpInv, ByLoop, Closes, OverInv
<1>9. LineInv'
  <2>1. ASSUME NEW b \in rest PROVE OpInv(b)'
    <3>1. b \in Operations /\ b.by \in Flushers /\ b.parts \in Nat /\ b.kind \in Kinds
            /\ OpInv(b) /\ InOrder(op, b)
      BY <1>1, <1>3, <2>1, QueuedOperation
    <3> QED BY <1>1, <1>2, <1>5, <1>6, <1>7, <3>1
               DEF LoopInv, FlushInv, StopInv, Between, Flushing, OpInv, ByLoop, ByCancel,
                   Content, Closes, InOrder
  <2> QED BY <1>4, <1>7, <2>1 DEF LineInv
<1>10. OverInv'
  <2>1. Over' => Closes(op) /\ retired
    BY <1>1, <1>5, <1>6, <1>7, <1>8 DEF Over
  <2>2. \A b \in rest : Closes(op) => b.kind # "write"
    BY <1>3 DEF InOrder
  <2>3. ~(turn > 0 /\ rows[turn].end = "final") /\ ~(partial.turn = turn /\ partial.end # "open")
    BY <1>8 DEF Over
  <2> QED BY <1>6, <1>7, <2>1, <2>2, <2>3 DEF OverInv
<1>11. FileInv'
  BY <1>1, <1>5, <1>6 DEF FileInv
<1>12. RowInv'
  BY <1>1, <1>3, <1>6, <1>7 DEF RowInv
<1>13. SavedInv'
  <2>1. flushes'[Loop].st = "done" /\ loop = "announcing" => flushes[Loop].st = "done"
    BY <1>1, <1>7
  <2> QED BY <1>1, <1>3, <1>6, <1>7, <2>1 DEF SavedInv, Saved
<1>14. OldInv'
  BY <1>3, <1>6, <1>7 DEF OldInv, Harmless, Kept
<1> QED BY <1>9, <1>10, <1>11, <1>12, <1>13, <1>14 DEF FilesInv

LEMMA StampKeepsFiles ==
  ASSUME JournalInv, queue # <<>>, WriteAbortPartial \/ (OperationFails /\ Op.kind = "stamp"),
         LoopInv', FlushInv', StopInv'
  PROVE  FilesInv'
<1> USE DEF JournalInv, Flushed
<1>1. /\ turn \in 0..MaxTurns /\ parts \in Nat /\ partial.parts \in Nat /\ TypeOK
          /\ Loop # Cancel
      /\ Loop \in Flushers /\ Cancel \in Flushers
      /\ Loop \notin Background /\ Cancel \notin Background
  BY WhoFlushes, JournalAssumption DEF TypeOK, Partials
<1> DEFINE rest == Of(Tail(queue))
<1>2. PICK op \in Operations : op = Op /\ op \in Of(queue) /\ OpInv(op)
  BY AtHead
<1>3. \A b \in rest : b \in Of(queue) /\ InOrder(op, b)
  BY <1>2, AtHead
<1>4. Ordered(Tail(queue)) /\ Tail(queue) \in Seq(Operations) /\ op.by \in Flushers
        /\ op.parts \in Nat
  BY <1>2, AtHead, QueuedOperation
<1>5. /\ op.kind = "stamp" /\ op.turn = turn /\ turn > 0 /\ op.by = Cancel /\ cancel = "stamping"
      /\ op.parts = parts /\ op.end = "open" /\ retired /\ Closes(op) /\ Content(op)
      /\ loop = "ended" /\ terminal = "none" /\ flushes[Cancel].st = "idle"
          /\ flushes[Loop].st = "idle"
      /\ rows[turn] = EmptyRow
  <2>1. op.kind = "stamp"
    BY <1>2 DEF WriteAbortPartial
  <2>2. op.by = Cancel /\ cancel = "stamping" /\ op.parts = parts /\ op.end = "open"
    BY <1>2, <2>1, WhoAwaits
  <2>3. retired /\ Closes(op) /\ Content(op) /\ op.turn = turn /\ turn > 0
    BY <1>2, <2>1 DEF OpInv, Closes, Content
  <2>4. loop = "ended" /\ terminal = "none" /\ flushes[Cancel].st = "idle"
          /\ flushes[Loop].st = "idle"
    BY <2>2 DEF StopInv, FlushInv, Flushing
  <2> QED BY <1>2, <2>1, <2>2, <2>3, <2>4 DEF RowInv
<1>6. /\ cancel' = "settling"
      /\ \/ UNCHANGED partial
         \/ partial'.turn = turn /\ partial'.parts = parts /\ partial'.end = "open"
      /\ UNCHANGED <<rows, turn, parts, loop, terminal, abandon, retired, flushes,
                     announced, abandoned, unwritten>>
  <2>1. CASE WriteAbortPartial
    BY <1>2, <1>5, <2>1 DEF WriteAbortPartial, engine, journal, history
  <2>2. CASE OperationFails /\ Op.kind = "stamp"
    BY <1>2, <1>5, <2>2 DEF OperationFails, disk
  <2> QED BY <2>1, <2>2
<1>7. PICK new \in Operations :
        /\ new = Request("commit", Cancel, turn, 0, "open")
        /\ Of(queue') = rest \cup {new}
        /\ (\A b \in rest : InOrder(b, new)) => Ordered(queue')
  <2>1. Continues("commit", Cancel, turn, 0, "open") /\ 0 \in 0..MaxParts
    <3>1. CASE WriteAbortPartial
      BY <3>1, JournalAssumption DEF WriteAbortPartial
    <3>2. CASE OperationFails /\ Op.kind = "stamp"
      BY <3>2, JournalAssumption DEF OperationFails
    <3> QED BY <3>1, <3>2
  <2> QED BY <1>1, <1>4, <2>1, Continued DEF Kinds
<1>8. new.kind = "commit" /\ new.by = Cancel /\ new.turn = turn
  BY <1>7 DEF Request
<1>9. rest = {}
  BY <1>2, <1>5, NothingFollows
<1>10. ~abandon
  BY <1>1, <1>2, <1>5 DEF OpInv, ByCancel
<1>11. LineInv'
  <2>1. OpInv(new)'
    BY <1>1, <1>5, <1>6, <1>8, <1>10 DEF OpInv, ByCancel, Content, Closes
  <2> QED BY <1>7, <1>9, <2>1 DEF LineInv
<1>12. OverInv'
  BY <1>1, <1>5, <1>6, <1>7, <1>8, <1>9 DEF OverInv, Over, Between
<1>13. FileInv'
  BY <1>1, <1>5, <1>6 DEF FileInv, Between
<1>14. RowInv'
  BY <1>1, <1>5, <1>6, <1>7, <1>8, <1>9 DEF RowInv, Content
<1>15. SavedInv'
  BY <1>1, <1>5, <1>6, <1>7, <1>8, <1>9 DEF SavedInv, Saved, Between
<1>16. OldInv'
  BY <1>1, <1>5, <1>6, <1>7, <1>8, <1>9 DEF OldInv, Harmless, Kept
<1> QED BY <1>11, <1>12, <1>13, <1>14, <1>15, <1>16 DEF FilesInv

LEMMA UpdateKeepsFiles ==
  ASSUME JournalInv, queue # <<>>, UpdateHistory \/ (OperationFails /\ Op.kind = "update"),
         LoopInv', FlushInv', StopInv'
  PROVE  FilesInv'
<1> USE DEF JournalInv, Flushed
<1>1. /\ turn \in 0..MaxTurns /\ parts \in Nat /\ partial.parts \in Nat /\ TypeOK
          /\ Loop # Cancel
      /\ Loop \in Flushers /\ Cancel \in Flushers
      /\ Loop \notin Background /\ Cancel \notin Background
  BY WhoFlushes, JournalAssumption DEF TypeOK, Partials
<1> DEFINE rest == Of(Tail(queue))
<1>2. PICK op \in Operations : op = Op /\ op \in Of(queue) /\ OpInv(op)
  BY AtHead
<1>3. \A b \in rest : b \in Of(queue) /\ InOrder(op, b)
  BY <1>2, AtHead
<1>4. Ordered(Tail(queue)) /\ Tail(queue) \in Seq(Operations) /\ op.by \in Flushers
        /\ op.parts \in Nat
  BY <1>2, AtHead, QueuedOperation
<1>5. /\ op.kind = "update" /\ op.turn = turn /\ turn > 0 /\ op.by = Loop /\ loop = "updating"
      /\ op.parts = parts /\ retired /\ Closes(op) /\ parts > 0
      /\ rows[turn] = EmptyRow
      /\ partial.turn = turn => partial.parts <= parts
      /\ terminal = "none" /\ cancel \notin {"stamping", "settling", "done"}
  <2>1. op.kind = "update"
    BY <1>2 DEF UpdateHistory
  <2>2. op.by = Loop /\ loop = "updating" /\ op.parts = parts
    BY <1>2, <2>1, WhoAwaits
  <2> QED BY <1>2, <2>1, <2>2 DEF RowInv, OpInv, Content, Closes, LoopInv, StopInv
<1>6. rest = {}
  BY <1>2, <1>5, NothingFollows
<1>7. /\ \/ loop' = "clearing"
             /\ rows' = [rows EXCEPT ![turn] = [parts |-> parts, end |-> "final"]]
              /\ Continues("delete", Loop, turn, 0, "open")
         \/ loop' = "marking" /\ UNCHANGED rows /\ Continues("mark", Loop, turn, parts, "final")
      /\ UNCHANGED <<partial, turn, parts, terminal, cancel, abandon, retired, flushes,
                     announced, abandoned, unwritten>>
  <2>1. CASE UpdateHistory
    BY <1>2, <1>5, <2>1 DEF UpdateHistory, stopping, journal, history
  <2>2. CASE OperationFails /\ Op.kind = "update"
    BY <1>2, <1>5, <2>2 DEF OperationFails, disk
  <2> QED BY <2>1, <2>2
<1>8. PICK new \in Operations :
        /\ \/ new = Request("delete", Loop, turn, 0, "open") /\ loop' = "clearing"
           \/ new = Request("mark", Loop, turn, parts, "final") /\ loop' = "marking"
        /\ Of(queue') = {new} /\ Ordered(queue')
  <2>1. 0 \in 0..MaxParts /\ parts \in 0..MaxParts
    BY JournalAssumption DEF TypeOK
  <2> QED BY <1>1, <1>4, <1>7, <1>6, <2>1, Continued DEF Kinds
<1>9. /\ new.by = Loop /\ new.turn = turn
       /\ \/ new.kind = "delete" /\ loop' = "clearing"
          \/ new.kind = "mark" /\ new.parts = parts /\ loop' = "marking"
  BY <1>8 DEF Request
<1>10. turn \in Turns /\ \A t \in Turns : t # turn => rows'[t] = rows[t]
  <2>1. turn \in Turns
    BY <1>1, <1>5, JournalAssumption DEF Turns
  <2> QED BY <1>7, <2>1 DEF TypeOK
<1>11. loop' = "clearing" => rows'[turn] = [parts |-> parts, end |-> "final"]
  BY <1>7, <1>10 DEF TypeOK
<1>12. LineInv'
  <2>1. OpInv(new)'
    BY <1>1, <1>5, <1>7, <1>9 DEF OpInv, ByLoop, Content, Closes
  <2> QED BY <1>8, <2>1 DEF LineInv
<1>13. OverInv'
  BY <1>1, <1>5, <1>7, <1>8, <1>9, <1>10, <1>11 DEF OverInv, Over, Between
<1>14. FileInv'
  BY <1>1, <1>5, <1>7, <1>8, <1>9, <1>10, <1>11 DEF FileInv, Between, NoPartial
<1>15. RowInv'
  BY <1>1, <1>5, <1>7, <1>8, <1>9, <1>10, <1>11 DEF RowInv, Content, Between
<1>16. SavedInv'
  BY <1>1, <1>5, <1>7, <1>8, <1>9, <1>10, <1>11 DEF SavedInv, Saved, Between
<1>17. OldInv'
  <2>1. partial.turn \in Turns \/ partial.turn = 0
    BY JournalAssumption DEF TypeOK, Partials, Turns
  <2>2. partial.turn # turn /\ Harmless => Harmless'
    BY <1>7, <1>10, <2>1 DEF Harmless, Kept
  <2>3. loop' # "placing" /\ new.kind # "unlink"
    BY <1>9
  <2> QED BY <1>7, <1>8, <2>2, <2>3 DEF OldInv
<1> QED BY <1>12, <1>13, <1>14, <1>15, <1>16, <1>17 DEF FilesInv

LEMMA CompleteKeepsFiles ==
  ASSUME JournalInv, queue # <<>>,
         MarkFinalized \/ DeletePartial \/ (OperationFails /\ Op.kind \in {"mark", "delete"}),
         LoopInv', FlushInv', StopInv'
  PROVE  FilesInv'
<1> USE DEF JournalInv, Flushed
<1>1. /\ turn \in 0..MaxTurns /\ parts \in Nat /\ partial.parts \in Nat /\ TypeOK
          /\ Loop # Cancel
      /\ Loop \in Flushers /\ Cancel \in Flushers
      /\ Loop \notin Background /\ Cancel \notin Background
  BY WhoFlushes, JournalAssumption DEF TypeOK, Partials
<1> DEFINE rest == Of(Tail(queue))
<1>2. PICK op \in Operations : op = Op /\ op \in Of(queue) /\ OpInv(op)
  BY AtHead
<1>3. \A b \in rest : b \in Of(queue) /\ InOrder(op, b)
  BY <1>2, AtHead
<1>4. Ordered(Tail(queue)) /\ Tail(queue) \in Seq(Operations) /\ op.by \in Flushers
        /\ op.parts \in Nat
  BY <1>2, AtHead, QueuedOperation
<1>5. /\ op.kind \in {"mark", "delete"} /\ op.turn = turn /\ turn > 0
      /\ op.kind = "mark" => op.by = Loop /\ loop = "marking" /\ op.parts = parts
      /\ op.kind = "delete" => \/ op.by = Loop /\ loop \in {"deleting", "clearing"}
                               \/ op.by = Cancel /\ cancel = "settling" /\ abandon
  <2>1. op.kind \in {"mark", "delete"}
    BY <1>2 DEF MarkFinalized, DeletePartial
  <2> QED BY <1>2, <2>1, WhoAwaits DEF OpInv, Content
<1>6. /\ \/ UNCHANGED partial
         \/ op.kind = "mark" /\ partial.turn = turn
              /\ partial'.turn = turn /\ partial'.parts = parts /\ partial'.end = "final"
         \/ op.kind = "delete" /\ partial.turn = turn /\ partial' = NoPartial
      /\ \/ op.by = Cancel /\ cancel' = "done" /\ UNCHANGED <<loop, terminal>>
         \/ op.by = Loop /\ loop = "deleting" /\ loop' = "streaming" /\ terminal' = "none"
             /\ UNCHANGED cancel
         \/ op.by = Loop /\ loop \in {"marking", "clearing"} /\ loop' = "closing"
              /\ terminal' = "completed" /\ UNCHANGED cancel
      /\ queue' = Tail(queue) /\ Of(queue') = rest /\ Ordered(queue')
      /\ UNCHANGED <<rows, turn, parts, abandon, retired, flushes, announced, abandoned, unwritten>>
  <2>1. /\ Completes \/ Goes
        /\ op.by = Cancel \/ op.by = Loop
        /\ op.by = Loop => loop \in {"marking", "deleting", "clearing"}
        /\ op.by = Cancel => Goes
    BY <1>1, <1>2, <1>5 DEF MarkFinalized, DeletePartial, OperationFails
  <2>2. \/ op.by = Cancel /\ cancel' = "done" /\ UNCHANGED <<loop, terminal>>
        \/ op.by = Loop /\ loop = "deleting" /\ loop' = "streaming" /\ terminal' = "none"
            /\ UNCHANGED cancel
        \/ op.by = Loop /\ loop \in {"marking", "clearing"} /\ loop' = "closing"
             /\ terminal' = "completed" /\ UNCHANGED cancel
    BY <1>1, <1>2, <2>1 DEF Goes, Completes
  <2>3. CASE MarkFinalized
    BY <1>2, <1>4, <1>5, <2>2, <2>3 DEF MarkFinalized, Done, journal, history
  <2>4. CASE DeletePartial
    BY <1>2, <1>4, <1>5, <2>2, <2>4 DEF DeletePartial, Done, journal, history
  <2>5. CASE OperationFails /\ Op.kind \in {"mark", "delete"}
    BY <1>2, <1>4, <1>5, <2>2, <2>5 DEF OperationFails, Done, disk
  <2> QED BY <2>3, <2>4, <2>5
<1>7. ~(op.by = Loop /\ loop = "deleting") => rest = {}
  BY <1>2, <1>5, NothingFollows DEF Closes
<1>8. op.kind = "mark" => rows[turn] = EmptyRow /\ retired /\ parts > 0 /\ terminal = "none"
  BY <1>2, <1>5 DEF RowInv, Content, LoopInv
<1>9. LineInv'
  <2>1. ASSUME NEW b \in rest PROVE OpInv(b)'
    <3>1. b \in Operations /\ b.by \in Flushers /\ b.parts \in Nat /\ b.kind \in Kinds
            /\ OpInv(b) /\ InOrder(op, b)
      BY <1>1, <1>3, <2>1, QueuedOperation
    <3> QED BY <1>1, <1>2, <1>5, <1>6, <1>7, <3>1
               DEF NoPartial, LoopInv, FlushInv, StopInv, Between, Flushing, OpInv, ByLoop,
                   ByCancel, Content, Closes, InOrder
  <2> QED BY <1>6, <2>1 DEF LineInv
<1>10. OverInv'
  <2>1. CASE op.by = Loop /\ loop = "deleting"
    <3>1. ~Over' \/ Over
      BY <1>1, <1>5, <1>6, <2>1 DEF Over, NoPartial, Between
    <3>2. \A b \in rest : b \in Of(queue)
      BY <1>3
    <3>3. ~(turn > 0 /\ rows[turn].end = "final")
      BY <2>1 DEF OverInv, LoopInv, Between
    <3>4. ~(partial'.turn = turn /\ partial'.end # "open")
      BY <1>5, <1>6, <2>1 DEF OverInv, LoopInv, Between, NoPartial
    <3> QED BY <1>6, <3>1, <3>2, <3>3, <3>4 DEF OverInv
  <2>2. CASE ~(op.by = Loop /\ loop = "deleting")
    <3>1. rest = {} /\ retired
      BY <1>5, <1>7, <2>2 DEF LoopInv, StopInv
    <3>2. turn > 0 /\ rows[turn].end = "final" => terminal' # "none" \/ loop' \in Between
      BY <1>5, <1>6, <2>2 DEF OverInv, LoopInv, StopInv, Between
    <3>3. partial'.turn = turn /\ partial'.end # "open"
            => terminal' # "none" \/ loop' \in Between
      BY <1>5, <1>6, <2>2 DEF OverInv, LoopInv, StopInv, Between, NoPartial
    <3> QED BY <1>6, <3>1, <3>2, <3>3 DEF OverInv
  <2> QED BY <2>1, <2>2
<1>11. FileInv'
  BY <1>1, <1>3, <1>5, <1>6, <1>7, <1>8
     DEF Between, NoPartial, LoopInv, StopInv, FlushInv, OverInv, Over, InOrder, RowInv, FileInv
<1>12. RowInv'
  BY <1>1, <1>3, <1>5, <1>6, <1>7, <1>8
     DEF Content, Between, LoopInv, StopInv, FlushInv, OverInv, Over, InOrder, RowInv, FileInv
<1>13. SavedInv'
  BY <1>1, <1>3, <1>5, <1>6, <1>7, <1>8
     DEF SavedInv, Saved, Between, LoopInv, StopInv, FlushInv, OverInv, Over, InOrder, RowInv,
         FileInv
<1>14. OldInv'
  BY <1>1, <1>3, <1>5, <1>6, <1>7, <1>8
     DEF OldInv, Harmless, Kept, NoPartial, LoopInv, StopInv, FlushInv, OverInv, Over, InOrder,
         RowInv, FileInv
<1> QED BY <1>9, <1>10, <1>11, <1>12, <1>13, <1>14 DEF FilesInv

\* What a commit makes of a row.
LEMMA CommittedRow ==
  ASSUME NEW row \in Rows, row.end = "absent" => row = NoRow,
         row.end = "final" => row.parts > 0,
         partial.parts \in Nat
  PROVE  /\ CommittedTo(row).end = "absent" => CommittedTo(row) = NoRow
         /\ CommittedTo(row).end = "final" =>
              /\ CommittedTo(row).parts > 0
              /\ row.end = "final" \/ partial.end = "final"
         /\ CommittedTo(row).end = "absent" \/ partial.parts <= CommittedTo(row).parts
<1>1. row.parts \in Nat
  BY JournalAssumption DEF Rows
<1> QED BY <1>1 DEF CommittedTo, NoRow

LEMMA CommitRowKeepsFiles ==
  ASSUME JournalInv, queue # <<>>, CommitRow, LoopInv', FlushInv', StopInv'
  PROVE  FilesInv'
<1> USE DEF JournalInv, Flushed
<1>1. /\ turn \in 0..MaxTurns /\ parts \in Nat /\ partial.parts \in Nat /\ TypeOK
          /\ Loop # Cancel
      /\ Loop \in Flushers /\ Cancel \in Flushers
      /\ Loop \notin Background /\ Cancel \notin Background
  BY WhoFlushes, JournalAssumption DEF TypeOK, Partials
<1> DEFINE rest == Of(Tail(queue))
<1>2. PICK op \in Operations : op = Op /\ op \in Of(queue) /\ OpInv(op)
  BY AtHead
<1>3. \A b \in rest : b \in Of(queue) /\ InOrder(op, b)
  BY <1>2, AtHead
<1>4. Ordered(Tail(queue)) /\ Tail(queue) \in Seq(Operations) /\ op.by \in Flushers
        /\ op.parts \in Nat
  BY <1>2, AtHead, QueuedOperation
<1>5. /\ op.kind = "commit"
      /\ \/ op.by = Loop /\ loop = "committing" /\ op.turn = 0
         \/ op.by = Cancel /\ cancel = "settling" /\ op.turn = turn /\ ~abandon
              /\ loop = "ended" /\ terminal = "none"
      /\ retired
  BY <1>2, WhoAwaits DEF CommitRow, OpInv, Closes, StopInv
<1>6. rest = {}
  BY <1>2, <1>5, NothingFollows DEF Closes
<1>7. UNCHANGED <<partial, turn, parts, loop, terminal, cancel, abandon, retired, flushes,
                  announced, abandoned, unwritten>>
  BY DEF CommitRow, engine, stopping, journal, history
<1>8. PICK new \in Operations :
        new = [op EXCEPT !.kind = "unlink"] /\ Of(queue') = {new} /\ Ordered(queue')
  <2>1. [op EXCEPT !.kind = "unlink"] \in Operations
          /\ queue' = <<[op EXCEPT !.kind = "unlink"]>> \o Tail(queue)
    BY <1>2 DEF CommitRow, Operations
  <2> QED BY <1>4, <1>6, <2>1, ReplaceHead
<1>9. new.kind = "unlink" /\ new.by = op.by /\ new.turn = op.turn
  BY <1>8 DEF Operations
<1>10. PICK t \in Turns \cup {0} : t = partial.turn
  BY JournalAssumption DEF TypeOK, Partials, Turns
<1>11. CASE partial # NoPartial /\ op.turn \in {0, partial.turn}
  <2>1. t \in Turns /\ t <= turn
    BY <1>10, <1>11 DEF FileInv
  <2>2. rows' = [rows EXCEPT ![t] = CommittedTo(rows[t])] /\ rows[t] \in Rows
    BY <1>2, <1>10, <1>11, <2>1 DEF CommitRow, TypeOK
  <2>3. (\A u \in Turns : u # t => rows'[u] = rows[u]) /\ rows'[t] = CommittedTo(rows[t])
    BY <2>1, <2>2 DEF TypeOK
  <2>4. /\ rows'[t].end = "absent" => rows'[t] = NoRow
        /\ rows'[t].end = "final" =>
             rows'[t].parts > 0 /\ (rows[t].end = "final" \/ partial.end = "final")
        /\ rows'[t].end = "absent" \/ partial.parts <= rows'[t].parts
    BY <1>1, <2>1, <2>2, <2>3, CommittedRow DEF FileInv
  <2>5. LineInv'
    <3>1. OpInv(new)'
      BY <1>1, <1>5, <1>7, <1>9 DEF OpInv, ByLoop, ByCancel, Content, Closes
    <3> QED BY <1>8, <3>1 DEF LineInv
  <2>6. OverInv'
    <3>1. turn > 0 => turn \in Turns
      BY <1>1, JournalAssumption DEF Turns
    <3>2. Over' => Over
      BY <1>7, <1>10, <2>3, <2>4, <3>1 DEF Over
    <3>3. turn > 0 /\ rows'[turn].end = "final" => terminal # "none" \/ loop \in Between
      BY <1>5, <1>7, <1>10, <2>3, <2>4, <3>1 DEF OverInv, Between
    <3> QED BY <1>7, <1>8, <1>9, <3>2, <3>3 DEF OverInv
  <2>7. FileInv'
    <3>1. ASSUME NEW u \in Turns
          PROVE  /\ u > turn => rows'[u] = NoRow
                 /\ rows'[u].end = "final" => rows'[u].parts > 0
                 /\ rows'[u].end = "absent" => rows'[u] = NoRow
      <4>1. CASE u = t
        BY <1>1, <2>1, <2>4, <4>1 DEF Turns
      <4>2. CASE u # t
        BY <2>3, <4>2 DEF FileInv
      <4> QED BY <4>1, <4>2
    <3> QED BY <1>7, <3>1 DEF FileInv
  <2>8. RowInv'
    BY <1>5, <1>7, <1>8, <1>9 DEF RowInv, Content, Between, LoopInv
  <2>9. SavedInv'
    BY <1>7, <1>8, <1>9 DEF SavedInv, Saved
  <2>10. OldInv'
    <3>1. Kept'
      BY <1>7, <1>10, <2>4 DEF Kept
    <3> QED BY <3>1 DEF OldInv, Harmless
  <2> QED BY <2>5, <2>6, <2>7, <2>8, <2>9, <2>10 DEF FilesInv
<1>12. CASE ~(partial # NoPartial /\ op.turn \in {0, partial.turn})
  <2>1. UNCHANGED rows
    BY <1>2, <1>12 DEF CommitRow
  <2>2. LineInv'
    <3>1. OpInv(new)'
      BY <1>1, <1>5, <1>7, <1>9 DEF OpInv, ByLoop, ByCancel, Content, Closes
    <3> QED BY <1>8, <3>1 DEF LineInv
  <2>3. OverInv' /\ FileInv'
    BY <1>7, <1>8, <1>9, <2>1 DEF OverInv, Over, FileInv
  <2>4. RowInv' /\ SavedInv'
    BY <1>5, <1>7, <1>8, <1>9, <2>1 DEF RowInv, Content, SavedInv, Saved
  <2>5. OldInv'
    BY <1>7, <1>8, <1>9, <1>12, <2>1 DEF OldInv, Harmless, Kept, NoPartial
  <2> QED BY <2>2, <2>3, <2>4, <2>5 DEF FilesInv
<1> QED BY <1>11, <1>12

LEMMA CommitUnlinksKeepsFiles ==
  ASSUME JournalInv, queue # <<>>, CommitUnlinks, LoopInv', FlushInv', StopInv'
  PROVE  FilesInv'
<1> USE DEF JournalInv, Flushed
<1>1. /\ turn \in 0..MaxTurns /\ parts \in Nat /\ partial.parts \in Nat /\ TypeOK
          /\ Loop # Cancel
      /\ Loop \in Flushers /\ Cancel \in Flushers
      /\ Loop \notin Background /\ Cancel \notin Background
  BY WhoFlushes, JournalAssumption DEF TypeOK, Partials
<1> DEFINE rest == Of(Tail(queue))
<1>2. PICK op \in Operations : op = Op /\ op \in Of(queue) /\ OpInv(op)
  BY AtHead
<1>3. \A b \in rest : b \in Of(queue) /\ InOrder(op, b)
  BY <1>2, AtHead
<1>4. Ordered(Tail(queue)) /\ Tail(queue) \in Seq(Operations) /\ op.by \in Flushers
        /\ op.parts \in Nat
  BY <1>2, AtHead, QueuedOperation
<1>5. /\ op.kind = "unlink"
      /\ \/ op.by = Loop /\ loop = "committing" /\ op.turn = 0
         \/ op.by = Cancel /\ cancel = "settling" /\ op.turn = turn /\ ~abandon
              /\ loop = "ended" /\ terminal = "none"
      /\ retired
  BY <1>2, WhoAwaits DEF CommitUnlinks, OpInv, Closes, StopInv
<1>6. rest = {}
  BY <1>2, <1>5, NothingFollows DEF Closes
<1>7. /\ \/ partial' = NoPartial
         \/ UNCHANGED partial /\ op.by = Cancel /\ partial.turn # turn
      /\ UNCHANGED <<rows, turn, parts, terminal, abandon, retired, flushes,
                     announced, abandoned, unwritten>>
  BY <1>2, <1>5 DEF CommitUnlinks, journal, history
<1>8. PICK new \in Operations :
        /\ Ordered(queue') /\ (op.by = Loop => new = Request("place", Loop, turn + 1, 0, "open"))
        /\ \/ op.by = Cancel /\ cancel' = "done" /\ UNCHANGED loop /\ Of(queue') = {}
           \/ op.by = Loop /\ UNCHANGED cancel /\ loop' = "off" /\ Of(queue') = {}
           \/ op.by = Loop /\ UNCHANGED cancel /\ loop' = "placing" /\ Of(queue') = {new}
  <2>1. Request("place", Loop, 0, 0, "open") \in Operations /\ 0 \in 0..MaxParts
    BY <1>1, JournalAssumption DEF Request, Operations
  <2>2. CASE op.by = Cancel
    <3>1. cancel' = "done" /\ UNCHANGED loop /\ queue' = Tail(queue)
      BY <1>2, <2>2 DEF CommitUnlinks, AfterCommit, Done
    <3> QED BY <1>1, <1>4, <1>6, <2>1, <2>2, <3>1
  <2>3. CASE op.by = Loop
    <3>1. turn + 1 \in 0..MaxTurns
      BY <1>1, <1>5, <2>3, JournalAssumption DEF LoopInv
    <3>2. Request("place", Loop, turn + 1, 0, "open") \in Operations
      BY <1>1, <2>1, <3>1 DEF Request, Operations
    <3>3. CASE loop' = "off" /\ Done
      BY <1>1, <1>2, <1>4, <1>6, <2>3, <3>2, <3>3 DEF CommitUnlinks, AfterCommit, Done
    <3>4. CASE loop' = "placing" /\ Continues("place", Loop, turn + 1, 0, "open")
      <4>1. /\ Of(queue') = {Request("place", Loop, turn + 1, 0, "open")}
            /\ Ordered(queue')
        BY <1>1, <1>4, <1>6, <2>1, <3>1, <3>4, Continued DEF Kinds
      <4> QED BY <1>1, <1>2, <2>3, <3>2, <3>4, <4>1 DEF CommitUnlinks, AfterCommit
    <3> QED BY <1>1, <1>2, <2>3, <3>3, <3>4 DEF CommitUnlinks, AfterCommit
  <2> QED BY <1>5, <2>2, <2>3
<1>9. op.by = Loop => new.kind = "place" /\ new.by = Loop /\ new.turn = turn + 1
  BY <1>8 DEF Request
<1>10. LineInv'
  <2>1. Of(queue') = {new} => OpInv(new)'
    BY <1>1, <1>5, <1>7, <1>8, <1>9 DEF OpInv, ByLoop, Content, Closes, LoopInv, StopInv, Between
  <2> QED BY <1>8, <2>1 DEF LineInv
<1>11. OverInv'
  <2>1. retired' /\ \A b \in Of(queue') : b.kind # "write"
    BY <1>1, <1>5, <1>7, <1>8, <1>9
  <2>2. loop' \in Between \/ (loop' = "ended" /\ loop = "ended" /\ terminal = "none")
    BY <1>1, <1>5, <1>8 DEF Between
  <2>3. partial'.turn = turn => partial'.end = "open"
    BY <1>7 DEF NoPartial
  <2> QED BY <1>7, <2>1, <2>2, <2>3 DEF OverInv, Between
<1>12. FileInv'
  BY <1>1, <1>5, <1>7, <1>8, <1>9 DEF FileInv, Between, NoPartial, LoopInv, StopInv
<1>13. RowInv'
  BY <1>1, <1>5, <1>7, <1>8, <1>9 DEF RowInv, Content, Between, LoopInv, StopInv
<1>14. SavedInv'
  BY <1>1, <1>5, <1>7, <1>8, <1>9 DEF SavedInv, Saved, Between, LoopInv, StopInv
<1>15. OldInv'
  BY <1>1, <1>5, <1>7, <1>8, <1>9 DEF OldInv, Harmless, Kept, NoPartial, LoopInv, StopInv
<1> QED BY <1>10, <1>11, <1>12, <1>13, <1>14, <1>15 DEF FilesInv

LEMMA CommitFailsKeepsFiles ==
  ASSUME JournalInv, queue # <<>>, OperationFails, Op.kind \in {"commit", "unlink", "place"},
         LoopInv', FlushInv', StopInv'
  PROVE  FilesInv'
<1> USE DEF JournalInv, Flushed
<1>1. /\ turn \in 0..MaxTurns /\ parts \in Nat /\ partial.parts \in Nat /\ TypeOK
          /\ Loop # Cancel
      /\ Loop \in Flushers /\ Cancel \in Flushers
      /\ Loop \notin Background /\ Cancel \notin Background
  BY WhoFlushes, JournalAssumption DEF TypeOK, Partials
<1> DEFINE rest == Of(Tail(queue))
<1>2. PICK op \in Operations : op = Op /\ op \in Of(queue) /\ OpInv(op)
  BY AtHead
<1>3. \A b \in rest : b \in Of(queue) /\ InOrder(op, b)
  BY <1>2, AtHead
<1>4. Ordered(Tail(queue)) /\ Tail(queue) \in Seq(Operations) /\ op.by \in Flushers
        /\ op.parts \in Nat
  BY <1>2, AtHead, QueuedOperation
<1>5. /\ \/ op.by = Loop /\ loop \in {"committing", "placing"}
         \/ op.by = Cancel /\ loop = "ended"
      /\ retired
  BY <1>2, WhoAwaits DEF OpInv, Closes, StopInv
<1>6. rest = {}
  BY <1>2, <1>5, NothingFollows DEF Closes
<1>7. /\ UNCHANGED <<partial, rows, turn, parts, terminal, abandon, retired, flushes,
                     announced, abandoned, unwritten>>
      /\ Of(queue') = {} /\ Ordered(queue')
      /\ \/ loop = "ended" /\ UNCHANGED loop /\ cancel' = "done"
         \/ loop \in {"committing", "placing"} /\ loop' = "off" /\ UNCHANGED cancel
  BY <1>1, <1>2, <1>4, <1>5, <1>6 DEF OperationFails, Done, disk
<1>8. LineInv'
  BY <1>7 DEF LineInv
<1>9. OverInv'
  BY <1>1, <1>5, <1>7 DEF OverInv, Over, Between, LoopInv, StopInv
<1>10. FileInv'
  BY <1>1, <1>5, <1>7 DEF FileInv, Between, NoPartial, LoopInv, StopInv
<1>11. RowInv'
  BY <1>1, <1>5, <1>7 DEF RowInv, Content, Between, LoopInv, StopInv
<1>12. SavedInv'
  BY <1>1, <1>5, <1>7 DEF SavedInv, Saved, Between, LoopInv, StopInv
<1>13. OldInv'
  BY <1>1, <1>5, <1>7 DEF OldInv, Harmless, Kept, NoPartial, LoopInv, StopInv
<1> QED BY <1>8, <1>9, <1>10, <1>11, <1>12, <1>13 DEF FilesInv

LEMMA PlaceKeepsFiles ==
  ASSUME JournalInv, queue # <<>>, PlacePlaceholder, LoopInv', FlushInv', StopInv'
  PROVE  FilesInv'
<1> USE DEF JournalInv, Flushed
<1>1. /\ turn \in 0..MaxTurns /\ parts \in Nat /\ partial.parts \in Nat /\ TypeOK
          /\ Loop # Cancel
      /\ Loop \in Flushers /\ Cancel \in Flushers
      /\ Loop \notin Background /\ Cancel \notin Background
  BY WhoFlushes, JournalAssumption DEF TypeOK, Partials
<1> DEFINE rest == Of(Tail(queue))
<1>2. PICK op \in Operations : op = Op /\ op \in Of(queue) /\ OpInv(op)
  BY AtHead
<1>3. \A b \in rest : b \in Of(queue) /\ InOrder(op, b)
  BY <1>2, AtHead
<1>4. Ordered(Tail(queue)) /\ Tail(queue) \in Seq(Operations) /\ op.by \in Flushers
        /\ op.parts \in Nat
  BY <1>2, AtHead, QueuedOperation
<1>5. op.kind = "place" /\ op.by = Loop /\ loop = "placing" /\ op.turn = turn + 1
      /\ op.turn \in Turns /\ MaxTurns \in Nat
  <2>1. op.kind = "place" /\ op.by = Loop /\ loop = "placing" /\ op.turn = turn + 1
    BY <1>2, WhoAwaits DEF PlacePlaceholder
  <2> QED BY <1>1, <2>1, JournalAssumption DEF LoopInv, Turns
<1>6. rest = {}
  BY <1>2, <1>5, NothingFollows DEF Closes
<1>7. /\ turn' = turn + 1 /\ loop' = "streaming" /\ terminal' = "none" /\ cancel' = "none"
          /\ ~abandon'
      /\ parts' = 0 /\ Of(queue') = {} /\ Ordered(queue')
      /\ UNCHANGED <<partial, flushes, announced, abandoned, unwritten>>
      /\ rows'[turn + 1] = EmptyRow /\ \A t \in Turns : t # turn + 1 => rows'[t] = rows[t]
  <2>1. /\ rows' = [rows EXCEPT ![turn + 1] = EmptyRow] /\ turn + 1 \in Turns
            /\ rows \in [Turns -> Rows]
    BY <1>2, <1>5 DEF PlacePlaceholder, TypeOK, EmptyRow
  <2> QED BY <1>2, <1>4, <1>5, <1>6, <2>1 DEF PlacePlaceholder, Forgets, Done, history
<1>8. partial.turn <= turn /\ turn + 1 \notin abandoned /\ partial.turn \in Turns \cup {0}
  BY <1>1, JournalAssumption DEF FileInv, TypeOK, Partials, Turns
<1>9. LineInv'
  BY <1>7 DEF LineInv
<1>10. OverInv'
  BY <1>1, <1>7, <1>8 DEF OverInv, Over, Between, EmptyRow, TypeOK, Partials
<1>11. FileInv'
  <2>1. ASSUME NEW t \in Turns
        PROVE  /\ t > turn + 1 => rows'[t] = NoRow /\ announced[t] = 0
               /\ rows'[t].end = "final" => rows'[t].parts > 0
               /\ rows'[t].end = "absent" => rows'[t] = NoRow
    <3>1. CASE t = turn + 1
      BY <1>1, <1>7, <3>1 DEF EmptyRow
    <3>2. CASE t # turn + 1
      <4>1. rows'[t] = rows[t] /\ t \in Nat
        BY <1>7, <3>2 DEF Turns
      <4> QED BY <1>1, <4>1 DEF FileInv
    <3> QED BY <3>1, <3>2
  <2>2. announced[turn + 1] = 0 /\ turn + 1 > turn /\ 1..turn \subseteq 1..(turn + 1)
    BY <1>1, <1>5 DEF FileInv
  <2>3. partial.turn < turn + 1
    BY <1>1, <1>8 DEF Turns
  <2>4. (abandoned \cup unwritten)' \subseteq 1..turn'
    BY <1>7, <2>2 DEF FileInv
  <2>5. announced'[turn'] <= parts' /\ partial'.turn # turn' /\ partial'.turn <= turn'
    BY <1>1, <1>7, <1>8, <2>2, <2>3 DEF Turns
  <2>6. partial'.turn = 0 => partial' = NoPartial
    BY <1>7 DEF FileInv
  <2>7. \A t \in Turns : /\ t > turn' => rows'[t] = NoRow /\ announced'[t] = 0
                         /\ rows'[t].end = "final" => rows'[t].parts > 0
                         /\ rows'[t].end = "absent" => rows'[t] = NoRow
    BY <1>7, <2>1
  <2> QED BY <2>4, <2>5, <2>6, <2>7 DEF FileInv
<1>12. RowInv'
  BY <1>7 DEF RowInv
<1>13. SavedInv'
  BY <1>7 DEF SavedInv, Between
<1>14. OldInv'
  <2>1. Harmless
    BY <1>5 DEF OldInv
  <2>2. Harmless'
    BY <1>1, <1>7, <1>8, <2>1 DEF Harmless, Kept
  <2> QED BY <1>7, <2>2 DEF OldInv
<1> QED BY <1>9, <1>10, <1>11, <1>12, <1>13, <1>14 DEF FilesInv

-----------------------------------------------------------------------------
(***************************************************************************)
(* The inductive invariant                                                 *)
(***************************************************************************)

LEMMA InitInv ==
  ASSUME Init PROVE JournalInv
<1>1. TypeOK
  BY InitTyped
<1>2. Of(queue) = {} /\ Ordered(queue)
  BY EmptySeq, QueuedAreOperations DEF Init
<1>3. /\ Loop \in Flushers /\ Cancel \in Flushers
      /\ flushes[Loop].st = "idle" /\ flushes[Cancel].st = "idle"
      /\ \A t \in Turns : rows[t] = NoRow /\ announced[t] = 0
  BY WhoFlushes DEF Init, NoFlush
<1>4. LoopInv /\ FlushInv /\ StopInv /\ LineInv
  BY <1>2, <1>3 DEF Init, LoopInv, FlushInv, StopInv, LineInv, Between
<1>5. OverInv /\ FileInv /\ RowInv
  BY <1>2, <1>3 DEF Init, OverInv, Over, FileInv, RowInv, NoPartial, NoRow, Between, EmptyRow
<1>6. SavedInv /\ OldInv
  BY <1>2, <1>3 DEF Init, SavedInv, OldInv, Harmless, Kept, NoPartial, Between
<1> QED BY <1>1, <1>4, <1>5, <1>6 DEF JournalInv

LEMMA NextInv ==
  ASSUME JournalInv, [Next]_vars PROVE JournalInv'
<1> DEFINE Other == \/ Schedule \/ Wakes \/ (\E f \in Flushers : Flush(f)) \/ Stop \/ StopAborts
                    \/ StopCleansUp \/ Crash \/ UNCHANGED vars
<1>1. FileStep \/ LoopStep \/ Other
  BY DEF Next
<1>2. TypeOK' /\ LoopInv' /\ FlushInv' /\ StopInv'
  <2>1. CASE FileStep
    BY <2>1, FileStepTyped, FileStepControl DEF JournalInv
  <2>2. CASE LoopStep
    BY <2>2, LoopStepTyped, LoopStepControl DEF JournalInv
  <2>3. CASE Other
    BY <2>3, OtherStepTyped, OtherStepControl DEF JournalInv
  <2> QED BY <1>1, <2>1, <2>2, <2>3
<1>3. FilesInv'
  <2>1. CASE FileStep
    <3>1. OperationFails => Op.kind \in Kinds
      BY DEF OperationFails, Kinds
    <3>2. \/ WritePartial
          \/ OperationFails /\ Op.kind = "write"
          \/ WriteAbortPartial \/ (OperationFails /\ Op.kind = "stamp")
          \/ UpdateHistory \/ (OperationFails /\ Op.kind = "update")
          \/ MarkFinalized \/ DeletePartial \/ (OperationFails /\ Op.kind \in {"mark", "delete"})
          \/ CommitRow
          \/ CommitUnlinks
          \/ OperationFails /\ Op.kind \in {"commit", "unlink", "place"}
          \/ PlacePlaceholder
      BY <2>1, <3>1 DEF FileStep, Kinds
    <3>3. queue # <<>>
      BY <2>1 DEF FileStep
    <3> QED BY <1>2, <3>2, <3>3, WritePartialKeepsFiles, WriteFailsKeepsFiles, StampKeepsFiles,
               UpdateKeepsFiles, CompleteKeepsFiles, CommitRowKeepsFiles,
               CommitUnlinksKeepsFiles, CommitFailsKeepsFiles, PlaceKeepsFiles
  <2>2. CASE LoopStep
    BY <1>2, <2>2, SettleKeepsFiles, ReceiveKeepsFiles, LoopFlushesKeepsFiles,
       AnnounceKeepsFiles, InterruptKeepsFiles, EndOfAttemptKeepsFiles, RetryKeepsFiles,
       ResetForRetryKeepsFiles, CommitFinalKeepsFiles, FailKeepsFiles, CloseResourcesKeepsFiles,
       LoopEndsKeepsFiles, LeaveKeepsFiles DEF LoopStep
  <2>3. CASE Other
    BY <1>2, <2>3, ScheduleKeepsFiles, WakesKeepsFiles, FlushKeepsFiles, StopKeepsFiles,
       StopAbortsKeepsFiles, StopCleansUpKeepsFiles, CrashKeepsFiles, StutterKeepsFiles
  <2> QED BY <1>1, <2>1, <2>2, <2>3
<1> QED BY <1>2, <1>3 DEF JournalInv, FilesInv

\* In every reachable state the queue is in order, only what is not over is
\* written, and a partial that another turn left behind can be lost.
THEOREM JournalIsInOrder == Spec => []JournalInv
<1>1. Init => JournalInv
  BY InitInv
<1>2. JournalInv /\ [Next]_vars => JournalInv'
  BY NextInv
<1> QED BY <1>1, <1>2, PTL DEF Spec

\* The variables of PartialJournal keep their types: what PartialJournal.ts,
\* AttemptLoop.ts, TurnRegistry.ts and historyService.ts keep of a streaming turn
\* and of its files, whatever interleaves.
THEOREM TypesOfJournal == Spec => []TypeOK
<1>1. JournalInv => TypeOK
  BY DEF JournalInv
<1> QED BY <1>1, JournalIsInOrder, PTL

-----------------------------------------------------------------------------
(***************************************************************************)
(* Late writes                                                             *)
(***************************************************************************)

LEMMA WritesBeforeSettled ==
  ASSUME JournalInv, [Next]_vars, partial' # partial, partial' # NoPartial
  PROVE  /\ ~Settled(partial'.turn)
         /\ partial.turn = partial'.turn => partial.end = "open"
<1> USE DEF JournalInv
<1>1. queue # <<>> /\ (WritePartial \/ WriteAbortPartial \/ MarkFinalized)
  BY DEF Next, FileStep, LoopStep, UpdateHistory, DeletePartial, CommitRow, CommitUnlinks,
         PlacePlaceholder, OperationFails, Settle, Receive, LoopFlushes, Announce, Interrupt,
         EndOfAttempt, Retry, ResetForRetry, CommitFinal, Fail, CloseResources, LoopEnds, Leave,
         Schedule, Wakes, Flush, Stop, StopAborts, StopCleansUp, Crash, vars, disk
<1>2. PICK op \in Operations : op = Op /\ op \in Of(queue) /\ OpInv(op)
  BY <1>1, AtHead
<1>3. op.kind \in {"write", "stamp", "mark"} /\ op.turn = turn /\ turn > 0 /\ Content(op)
  BY <1>1, <1>2 DEF WritePartial, WriteAbortPartial, MarkFinalized, OpInv, Content
<1>4. partial'.turn = turn
  BY <1>1, <1>2, <1>3 DEF WritePartial, WriteAbortPartial, MarkFinalized
<1>5. rows[turn] = EmptyRow
  BY <1>2, <1>3 DEF RowInv
<1>6. CASE op.kind = "write"
  <2>1. ~Over
    BY <1>2, <1>6 DEF OverInv
  <2> QED BY <1>4, <1>5, <2>1 DEF Over, Settled, Between, EmptyRow
<1>7. CASE op.kind = "stamp"
  <2>1. cancel = "stamping" /\ loop = "ended" /\ terminal = "none"
    BY <1>2, <1>7, WhoAwaits DEF StopInv
  <2> QED BY <1>4, <1>5, <2>1 DEF OverInv, Settled, Between, EmptyRow
<1>8. CASE op.kind = "mark"
  <2>1. loop = "marking" /\ terminal = "none" /\ cancel # "done"
    BY <1>2, <1>8, WhoAwaits DEF LoopInv, StopInv
  <2> QED BY <1>4, <1>5, <2>1 DEF OverInv, Settled, Between, EmptyRow
<1> QED BY <1>3, <1>6, <1>7, <1>8

\* Once the next turn has begun, the reply is final, its failure is recorded or its
\* discarded partial is gone, no write of PartialJournal.ts that was under way brings
\* a partial of it back, nor replaces the error the turn failed with.
THEOREM LateWritesAreHarmless == Spec => SettledStaysSettled
<1>1. JournalInv /\ [Next]_vars =>
        [partial' # partial /\ partial' # NoPartial =>
           /\ ~Settled(partial'.turn)
           /\ partial.turn = partial'.turn => partial.end = "open"]_vars
  BY WritesBeforeSettled
<1> QED BY <1>1, JournalIsInOrder, PTL DEF Spec, SettledStaysSettled

-----------------------------------------------------------------------------
(***************************************************************************)
(* The refinement of DurableReply                                          *)
(***************************************************************************)

\* What a restart would find of a reply after a step, as DurableReply allows it.
Allowed(t) ==
  \/ Recovered(t)' = Recovered(t)
  \/ Recovered(t) = NoRow /\ Recovered(t)' = EmptyRow
  \/ /\ Recovered(t).end = "open" /\ Recovered(t)'.end \in {"open", "final"}
     /\ Recovered(t)'.parts >= Recovered(t).parts
  \/ /\ Recovered(t).end = "open" /\ Recovered(t)' \in {NoRow, EmptyRow}
     /\ t \in abandoned \cup unwritten \/ Recovered(t).parts = 0

LEMMA RecoveredTyped ==
  ASSUME TypeOK, FileInv, NEW t \in Turns
  PROVE  Recovered(t) \in Durable!Replies \cup {Durable!Absent}
<1>1. rows[t] \in Rows /\ (rows[t].end = "absent" => rows[t] = NoRow)
        /\ partial.parts \in 0..MaxParts
  BY DEF TypeOK, FileInv, Partials
<1>2. rows[t] \in Durable!Replies \cup {Durable!Absent}
  BY <1>1 DEF Rows, NoRow, Durable!Replies, Durable!Absent
<1> QED BY <1>1, <1>2 DEF Recovered, Durable!Replies

\* A step that changes nothing but replies, each as allowed, is one of DurableReply.
LEMMA AllowedIsChange ==
  ASSUME TypeOK, FileInv, TypeOK', FileInv', \A t \in Turns : Allowed(t),
         UNCHANGED <<announced, abandoned, unwritten>>
  PROVE  Durable!Change
<1> DEFINE Reply == [t \in Turns |-> Recovered(t)]
<1>1. \A t \in Turns : /\ Recovered(t) \in Durable!Replies \cup {Durable!Absent}
                       /\ Recovered(t)' \in Durable!Replies \cup {Durable!Absent}
  <2> SUFFICES ASSUME NEW t \in Turns
               PROVE  Recovered(t)' \in Durable!Replies \cup {Durable!Absent}
    BY RecoveredTyped
  <2>1. /\ rows'[t] \in Rows /\ (rows'[t].end = "absent" => rows'[t] = NoRow)
        /\ partial'.parts \in 0..MaxParts
    BY DEF TypeOK, FileInv, Partials
  <2>2. rows'[t] \in Durable!Replies \cup {Durable!Absent}
    BY <2>1 DEF Rows, NoRow, Durable!Replies, Durable!Absent
  <2> QED BY <2>1, <2>2 DEF Recovered, Durable!Replies
<1>2. \A t \in Turns : Reply[t] = Recovered(t) /\ Reply'[t] = Recovered(t)'
  OBVIOUS
<1>3. Reply' \in [Turns -> Durable!Replies \cup {Durable!Absent}]
  BY <1>1
<1>4. ASSUME NEW t \in Turns, Reply'[t] # Reply[t]
      PROVE  Durable!Begins(t) \/ Durable!Grows(t) \/ Durable!Vanishes(t)
  <2>1. NoRow = Durable!Absent /\ EmptyRow = Durable!Empty
    BY DEF NoRow, EmptyRow, Durable!Absent, Durable!Empty
  <2>2. CASE Recovered(t) = NoRow /\ Recovered(t)' = EmptyRow
    BY <1>2, <2>1, <2>2 DEF Durable!Begins
  <2>3. CASE /\ Recovered(t).end = "open" /\ Recovered(t)'.end \in {"open", "final"}
             /\ Recovered(t)'.parts >= Recovered(t).parts
    <3>1. Recovered(t)' \in Durable!Replies
      BY <1>1, <2>3 DEF Durable!Absent
    <3> QED BY <1>2, <2>3, <3>1 DEF Durable!Grows
  <2>4. CASE /\ Recovered(t).end = "open" /\ Recovered(t)' \in {NoRow, EmptyRow}
             /\ t \in abandoned \cup unwritten \/ Recovered(t).parts = 0
    BY <1>2, <2>1, <2>4 DEF Durable!Vanishes
  <2> QED BY <1>2, <1>4, <2>2, <2>3, <2>4 DEF Allowed
<1> QED BY <1>3, <1>4 DEF Durable!Change

\* A write of the turn's partial: the turn's reply grows, and what the partial of
\* another turn held may be lost.
LEMMA WriteIsAllowed ==
  ASSUME TypeOK, OldInv, UNCHANGED rows, partial'.turn = turn, partial'.parts \in Nat,
         turn \in Turns, rows[turn] = EmptyRow,
         partial.turn = turn => partial.parts <= partial'.parts /\ partial.end # "final"
  PROVE  \A t \in Turns : Allowed(t)
<1> SUFFICES ASSUME NEW t \in Turns PROVE Allowed(t)
  OBVIOUS
<1>1. partial.parts \in Nat
  BY JournalAssumption DEF TypeOK, Partials
<1>2. CASE t = turn
  BY <1>1, <1>2 DEF Recovered, Allowed, EmptyRow
<1>3. CASE t # turn /\ t = partial.turn
  <2>1. Harmless
    BY <1>3 DEF OldInv
  <2>2. CASE Kept
    <3>1. rows[t].parts \in Nat /\ t # 0
      BY JournalAssumption DEF TypeOK, Rows, Turns
    <3>2. Recovered(t) = rows[t]
      BY <1>1, <1>3, <2>2, <3>1 DEF Kept, Recovered
    <3> QED BY <1>3, <3>2 DEF Recovered, Allowed
  <2>3. CASE partial.turn \in abandoned \cup unwritten /\ rows[partial.turn] = EmptyRow
               /\ partial.end # "final"
    BY <1>1, <1>3, <2>3 DEF Recovered, Allowed, EmptyRow
  <2> QED BY <2>1, <2>2, <2>3 DEF Harmless
<1>4. CASE t # turn /\ t # partial.turn
  BY <1>4 DEF Recovered, Allowed
<1> QED BY <1>2, <1>3, <1>4

\* A partial that goes while its row has as much, or that was given up.
LEMMA UnlinkIsAllowed ==
  ASSUME TypeOK, UNCHANGED rows, partial' = NoPartial,
         \/ Kept
         \/ partial.turn \in abandoned /\ rows[partial.turn] = EmptyRow /\ partial.end # "final"
  PROVE  \A t \in Turns : Allowed(t)
<1> SUFFICES ASSUME NEW t \in Turns PROVE Allowed(t)
  OBVIOUS
<1>1. partial.parts \in Nat /\ rows[t].parts \in Nat /\ t # 0 /\ partial'.turn = 0
  BY JournalAssumption DEF TypeOK, Partials, Rows, Turns, NoPartial
<1>2. Recovered(t)' = rows[t]
  BY <1>1 DEF Recovered
<1>3. CASE t # partial.turn \/ Kept
  BY <1>1, <1>2, <1>3 DEF Kept, Recovered, Allowed
<1>4. CASE t = partial.turn /\ partial.turn \in abandoned /\ rows[partial.turn] = EmptyRow
             /\ partial.end # "final"
  BY <1>1, <1>2, <1>4 DEF Recovered, Allowed, EmptyRow
<1> QED BY <1>3, <1>4

-----------------------------------------------------------------------------
LEMMA FileStepRefines ==
  ASSUME JournalInv, JournalInv', FileStep
  PROVE  Durable!Next \/ UNCHANGED Durable!vars
<1> USE DEF JournalInv
<1>1. PICK op \in Operations : op = Op /\ op \in Of(queue) /\ OpInv(op) /\ op.parts \in Nat
  BY AtHead, QueuedOperation DEF FileStep
<1>2. turn > 0 => turn \in Turns
  BY JournalAssumption DEF TypeOK, Turns
<1>3. partial.parts \in Nat /\ parts \in Nat /\ \A t \in Turns : rows[t].parts \in Nat /\ t # 0
  <2>1. partial.parts \in Nat /\ parts \in Nat
    BY JournalAssumption DEF TypeOK, Partials
  <2>2. \A t \in Turns : rows[t].parts \in Nat /\ t # 0
    BY JournalAssumption DEF TypeOK, Rows, Turns
  <2> QED BY <2>1, <2>2
<1> DEFINE Replies == (\A t \in Turns : Allowed(t))
      /\ UNCHANGED <<announced, abandoned, unwritten>>
<1>4. Replies => Durable!Next
  BY AllowedIsChange DEF Durable!Next
<1>5. CASE WritePartial
  <2>1. op.kind = "write" /\ op.turn = turn /\ turn > 0 /\ Content(op)
    BY <1>1, <1>5 DEF WritePartial, OpInv, Content
  <2>2. /\ partial'.turn = turn /\ partial'.parts = op.parts
        /\ UNCHANGED <<rows, announced, abandoned, unwritten>>
    BY <1>1, <1>5, <2>1 DEF WritePartial, history
  <2>3. rows[turn] = EmptyRow /\ ~Over /\ (partial.turn = turn => partial.parts <= op.parts)
    BY <1>1, <2>1 DEF RowInv, OverInv, OpInv
  <2>4. partial.turn = turn => partial.end # "final"
    BY <2>3 DEF Over
  <2> QED BY <1>1, <1>2, <1>4, <2>1, <2>2, <2>3, <2>4, WriteIsAllowed
<1>6. CASE WriteAbortPartial
  <2>1. op.kind = "stamp"
    BY <1>1, <1>6 DEF WriteAbortPartial
  <2>2. op.turn = turn /\ turn > 0 /\ Content(op) /\ loop = "ended" /\ terminal = "none"
    BY <1>1, <2>1, WhoAwaits DEF OpInv, Content, StopInv
  <2>3. /\ partial'.turn = turn /\ partial'.parts = op.parts
        /\ UNCHANGED <<rows, announced, abandoned, unwritten>>
    BY <1>1, <1>6, <2>2 DEF WriteAbortPartial, history
  <2>4. rows[turn] = EmptyRow /\ (partial.turn = turn => partial.parts <= op.parts)
    BY <1>1, <2>2 DEF RowInv, OpInv
  <2>5. partial.turn = turn => partial.end # "final"
    BY <2>2 DEF OverInv, Between
  <2> QED BY <1>1, <1>2, <1>4, <2>2, <2>3, <2>4, <2>5, WriteIsAllowed
<1>7. CASE MarkFinalized
  <2>1. op.kind = "mark" /\ UNCHANGED <<rows, announced, abandoned, unwritten>>
    BY <1>1, <1>7 DEF MarkFinalized, history
  <2>2. op.turn = turn /\ turn > 0 /\ Content(op) /\ loop = "marking" /\ op.parts = parts
    BY <1>1, <2>1, WhoAwaits DEF OpInv, Content
  <2>3. CASE partial.turn = turn
    <3>1. partial'.turn = turn /\ partial'.parts = op.parts
      BY <1>1, <1>7, <2>2, <2>3 DEF MarkFinalized
    <3>2. rows[turn] = EmptyRow /\ partial.parts <= op.parts
      BY <1>1, <2>2, <2>3 DEF RowInv, OpInv
    <3>3. partial.end # "final"
      BY <2>2, <2>3 DEF OverInv, Between, LoopInv
    <3> QED BY <1>1, <1>2, <1>4, <2>1, <2>2, <3>1, <3>2, <3>3, WriteIsAllowed
  <2>4. CASE partial.turn # turn
    <3>1. UNCHANGED partial
      BY <1>1, <1>7, <2>2, <2>4 DEF MarkFinalized
    <3> QED BY <1>4, <2>1, <3>1 DEF Allowed, Recovered
  <2> QED BY <2>3, <2>4
<1>8. CASE UpdateHistory
  <2>1. op.kind = "update" /\ UNCHANGED <<partial, announced, abandoned, unwritten>>
    BY <1>1, <1>8 DEF UpdateHistory, history
  <2>2. op.turn = turn /\ turn > 0 /\ Content(op) /\ loop = "updating" /\ op.parts = parts
    BY <1>1, <2>1, WhoAwaits DEF OpInv, Content
  <2>3. /\ rows'[turn] = [parts |-> parts, end |-> "final"]
        /\ \A t \in Turns : t # turn => rows'[t] = rows[t]
    BY <1>1, <1>2, <1>8, <2>2 DEF UpdateHistory, TypeOK
  <2>4. rows[turn] = EmptyRow /\ (partial.turn = turn => partial.parts <= parts)
    BY <1>1, <2>2 DEF RowInv, OpInv
  <2>5. partial.turn = turn => partial.end # "final"
    BY <2>2 DEF OverInv, Between, LoopInv
  <2>6. \A t \in Turns : t = turn => Allowed(t)
    BY <1>3, <2>1, <2>3, <2>4, <2>5 DEF Allowed, Recovered, EmptyRow
  <2>7. \A t \in Turns : t # turn => Allowed(t)
    BY <2>1, <2>3 DEF Allowed, Recovered
  <2>8. \A t \in Turns : Allowed(t)
    BY <2>6, <2>7
  <2> QED BY <1>4, <2>1, <2>8
<1>9. CASE DeletePartial
  <2>1. op.kind = "delete" /\ UNCHANGED <<rows, announced, abandoned, unwritten>>
    BY <1>1, <1>9 DEF DeletePartial, history
  <2>2. /\ op.turn = turn /\ turn > 0
        /\ \/ op.by = Loop /\ loop \in {"deleting", "clearing"}
           \/ op.by = Cancel /\ cancel = "settling" /\ abandon
    BY <1>1, <2>1, WhoAwaits DEF OpInv
  <2>3. CASE partial.turn = turn
    <3>1. partial' = NoPartial
      BY <1>1, <1>9, <2>2, <2>3 DEF DeletePartial
    <3>2. CASE loop \in {"deleting", "clearing"}
      <4>1. partial.parts <= parts /\ (loop = "deleting" => parts = 0)
            /\ (loop = "clearing" => rows[turn].parts = parts)
        BY <2>3, <3>2 DEF FileInv, LoopInv, RowInv, Between
      <4>2. partial.parts <= rows[turn].parts
        BY <1>2, <1>3, <2>2, <3>2, <4>1
      <4>3. Kept
        BY <2>3, <4>2 DEF Kept
      <4> QED BY <1>4, <2>1, <3>1, <4>3, UnlinkIsAllowed
    <3>3. CASE cancel = "settling" /\ abandon
      <4>1. turn \in abandoned /\ rows[turn] = EmptyRow
        BY <3>3 DEF StopInv, RowInv
      <4>2. partial.end # "final"
        BY <2>3, <3>3 DEF OverInv, StopInv, Between
      <4> QED BY <1>4, <2>1, <2>3, <3>1, <4>1, <4>2, UnlinkIsAllowed
    <3> QED BY <2>2, <3>2, <3>3
  <2>4. CASE partial.turn # turn
    <3>1. UNCHANGED partial
      BY <1>1, <1>9, <2>2, <2>4 DEF DeletePartial
    <3> QED BY <1>4, <2>1, <3>1 DEF Allowed, Recovered
  <2> QED BY <2>3, <2>4
<1>10. CASE CommitRow
  <2>1. UNCHANGED <<partial, announced, abandoned, unwritten>>
    BY <1>10 DEF CommitRow, history
  <2>2. CASE partial # NoPartial /\ Op.turn \in {0, partial.turn}
    <3>1. PICK u \in Turns : u = partial.turn
      BY <2>2, JournalAssumption DEF FileInv, TypeOK, Partials, Turns
    <3>2. rows'[u] = CommittedTo(rows[u]) /\ \A t \in Turns : t # u => rows'[t] = rows[t]
      BY <1>10, <2>2, <3>1 DEF CommitRow, TypeOK
    <3>3. rows[u].end = "absent" => rows[u] = NoRow
      BY <3>1 DEF FileInv
    <3>4. rows[u].end \in {"absent", "open", "final"}
            /\ (rows[u].end = "final" => rows[u].parts > 0)
      BY <3>1 DEF FileInv, TypeOK, Rows
    <3>5. \A t \in Turns : t # u => Allowed(t)
      BY <2>1, <3>2 DEF Allowed, Recovered
    <3>6. Allowed(u)
      <4>1. CASE rows[u] # NoRow /\ partial.parts > rows[u].parts
        BY <1>3, <2>1, <3>1, <3>2, <3>3, <3>4, <4>1 DEF CommittedTo, Allowed, Recovered, NoRow
      <4>2. CASE ~(rows[u] # NoRow /\ partial.parts > rows[u].parts)
        <5>1. Recovered(u) = rows[u]
          BY <3>3, <4>2 DEF Recovered, NoRow
        <5>2. rows'[u] = rows[u] \/ (rows'[u] = NoRow /\ rows[u].parts = 0)
          BY <3>2, <4>2 DEF CommittedTo
        <5>3. rows'[u] = NoRow \/ partial.parts <= rows'[u].parts \/ rows[u] = NoRow
          BY <1>3, <3>1, <4>2, <5>2
        <5> QED BY <1>3, <2>1, <3>1, <3>3, <3>4, <5>1, <5>2, <5>3 DEF Allowed, Recovered, NoRow
      <4> QED BY <4>1, <4>2
    <3>7. \A t \in Turns : Allowed(t)
      BY <3>1, <3>5, <3>6
    <3> QED BY <1>4, <2>1, <3>7
  <2>3. CASE ~(partial # NoPartial /\ Op.turn \in {0, partial.turn})
    <3>1. UNCHANGED rows
      BY <1>10, <2>3 DEF CommitRow
    <3> QED BY <1>4, <2>1, <3>1 DEF Allowed, Recovered
  <2> QED BY <2>2, <2>3
<1>11. CASE CommitUnlinks
  <2>1. op.kind = "unlink" /\ UNCHANGED <<rows, announced, abandoned, unwritten>>
    BY <1>1, <1>11 DEF CommitUnlinks, history
  <2>2. CASE op.turn = 0 \/ partial.turn = op.turn
    <3>1. partial' = NoPartial /\ Kept
      BY <1>1, <1>11, <2>1, <2>2 DEF CommitUnlinks, OldInv
    <3> QED BY <1>4, <2>1, <3>1, UnlinkIsAllowed
  <2>3. CASE ~(op.turn = 0 \/ partial.turn = op.turn)
    <3>1. UNCHANGED partial
      BY <1>1, <1>11, <2>3 DEF CommitUnlinks
    <3> QED BY <1>4, <2>1, <3>1 DEF Allowed, Recovered
  <2> QED BY <2>2, <2>3
<1>12. CASE PlacePlaceholder
  <2>1. op.turn = turn + 1 /\ UNCHANGED <<partial, announced, abandoned, unwritten>>
    BY <1>1, <1>12, WhoAwaits DEF PlacePlaceholder, history
  <2>2. turn + 1 \in Turns /\ turn \in Nat /\ partial.turn # turn + 1
    <3>1. loop = "placing" /\ turn < MaxTurns
      BY <1>1, <1>12, WhoAwaits DEF PlacePlaceholder, LoopInv
    <3>2. turn \in 0..MaxTurns /\ partial.turn \in 0..MaxTurns /\ partial.turn <= turn
            /\ MaxTurns \in Nat
      BY JournalAssumption DEF TypeOK, Partials, FileInv
    <3> QED BY <3>1, <3>2 DEF Turns
  <2>3. rows[turn + 1] = NoRow
    BY <2>2 DEF FileInv
  <2>4. rows'[turn + 1] = EmptyRow /\ \A t \in Turns : t # turn + 1 => rows'[t] = rows[t]
    BY <1>1, <1>12, <2>1, <2>2 DEF PlacePlaceholder, TypeOK, EmptyRow
  <2>5. \A t \in Turns : t = turn + 1 => Allowed(t)
    BY <2>1, <2>2, <2>3, <2>4 DEF Allowed, Recovered
  <2>6. \A t \in Turns : t # turn + 1 => Allowed(t)
    BY <2>1, <2>4 DEF Allowed, Recovered
  <2>7. \A t \in Turns : Allowed(t)
    BY <2>5, <2>6
  <2> QED BY <1>4, <2>1, <2>7
<1>13. CASE OperationFails
  <2>1. UNCHANGED <<disk, announced, abandoned>>
    BY <1>13 DEF OperationFails
  <2>2. UNCHANGED [t \in Turns |-> Recovered(t)]
    BY <2>1 DEF disk, Recovered
  <2>3. CASE Op.kind = "write"
    <3>1. unwritten' = unwritten \cup {turn} /\ turn \in Turns
      BY <1>1, <1>2, <1>13, <2>3 DEF OperationFails, OpInv, Content
    <3>2. Durable!GiveUp(turn)
      BY <2>1, <2>2, <3>1 DEF Durable!GiveUp
    <3> QED BY <3>1, <3>2 DEF Durable!Next
  <2>4. CASE Op.kind # "write"
    <3>1. UNCHANGED unwritten
      BY <1>13, <2>4 DEF OperationFails
    <3> QED BY <2>1, <2>2, <3>1 DEF Durable!vars
  <2> QED BY <2>3, <2>4
<1> QED BY <1>5, <1>6, <1>7, <1>8, <1>9, <1>10, <1>11, <1>12, <1>13 DEF FileStep

LEMMA OtherStepRefines ==
  ASSUME JournalInv,
         LoopStep \/ Schedule \/ Wakes \/ (\E f \in Flushers : Flush(f)) \/ Stop \/ StopAborts
           \/ StopCleansUp \/ Crash \/ UNCHANGED vars
  PROVE  Durable!Next \/ UNCHANGED Durable!vars
<1> USE DEF JournalInv
<1>1. UNCHANGED disk
  BY DEF LoopStep, Settle, Receive, LoopFlushes, Announce, Interrupt, EndOfAttempt, Retry,
         ResetForRetry, CommitFinal, Fail, CloseResources, LoopEnds, Leave, Schedule, Wakes,
         Flush, Stop, StopAborts, StopCleansUp, Crash, vars, disk
<1>2. UNCHANGED [t \in Turns |-> Recovered(t)]
  BY <1>1 DEF disk, Recovered
<1>3. turn > 0 => turn \in Turns
  BY JournalAssumption DEF TypeOK, Turns
<1>4. CASE Announce
  <2>1. loop = "announcing" /\ turn \in Turns /\ UNCHANGED <<abandoned, unwritten>>
    BY <1>3, <1>4 DEF Announce, LoopGoes, LoopInv, Between
  <2>2. CASE flushes[Loop].st = "done"
    <3>1. announced' = [announced EXCEPT ![turn] = parts]
      BY <1>4, <2>2 DEF Announce
    <3>2. rows[turn] = EmptyRow
      BY <2>1 DEF RowInv, Between, LoopInv, StopInv
    <3>3. partial.turn = turn /\ partial.parts = parts /\ announced[turn] <= parts
      BY <2>1, <2>2 DEF SavedInv, FileInv, Between
    <3>4. parts \in Nat /\ announced[turn] \in Nat
      BY <2>1, JournalAssumption DEF TypeOK
    <3>5. Recovered(turn).parts = parts
      BY <3>2, <3>3, <3>4 DEF Recovered, EmptyRow
    <3>6. parts \in announced[turn]..Recovered(turn).parts
      BY <3>3, <3>4, <3>5
    <3>7. Durable!Announce(turn)
      BY <1>2, <2>1, <3>1, <3>6 DEF Durable!Announce
    <3> QED BY <2>1, <3>7 DEF Durable!Next
  <2>3. CASE flushes[Loop].st # "done"
    <3>1. UNCHANGED announced
      BY <1>4, <2>3 DEF Announce
    <3> QED BY <1>2, <2>1, <3>1 DEF Durable!vars
  <2> QED BY <2>2, <2>3
<1>5. CASE Interrupt \/ Stop
  <2>1. UNCHANGED <<announced, unwritten>> /\ turn \in Turns
        /\ abandoned' \in {abandoned, abandoned \cup {turn}}
    BY <1>3, <1>5 DEF Interrupt, Stop, May, LoopGoes, LoopInv, Between
  <2>2. CASE UNCHANGED abandoned
    BY <1>2, <2>1, <2>2 DEF Durable!vars
  <2>3. CASE abandoned' = abandoned \cup {turn}
    <3>1. Durable!GiveUp(turn)
      BY <1>2, <2>1, <2>3 DEF Durable!GiveUp
    <3> QED BY <2>1, <3>1 DEF Durable!Next
  <2> QED BY <2>1, <2>2, <2>3
<1>6. CASE ~Announce /\ ~Interrupt /\ ~Stop
  <2>1. UNCHANGED history
    BY <1>6
       DEF LoopStep, Settle, Receive, LoopFlushes, EndOfAttempt, Retry, ResetForRetry,
           CommitFinal, Fail, CloseResources, LoopEnds, Leave, Schedule, Wakes, Flush,
           StopAborts, StopCleansUp, Crash, vars
  <2> QED BY <1>2, <2>1 DEF history, Durable!vars
<1> QED BY <1>4, <1>5, <1>6

\* PartialJournal implements DurableReply: however flushes, the final message, stops,
\* failures and deaths interleave, what commitPartial of historyService.ts would
\* recover of a reply only grows, and never has less than listeners were told of.
THEOREM JournalImplementsDurableReply == Spec => ImplementsDurableReply
<1>1. Init => Durable!Init
  <2> SUFFICES ASSUME Init PROVE Durable!Init
    OBVIOUS
  <2>1. \A t \in Turns : Recovered(t) = Durable!Absent
    BY DEF Init, Recovered, NoRow, Durable!Absent
  <2> QED BY <2>1 DEF Init, Durable!Init
<1>2. JournalInv /\ JournalInv' /\ [Next]_vars => [Durable!Next]_Durable!vars
  <2> SUFFICES ASSUME JournalInv, JournalInv', [Next]_vars
               PROVE  Durable!Next \/ UNCHANGED Durable!vars
    OBVIOUS
  <2>1. \/ FileStep
        \/ LoopStep \/ Schedule \/ Wakes \/ (\E f \in Flushers : Flush(f)) \/ Stop \/ StopAborts
             \/ StopCleansUp \/ Crash \/ UNCHANGED vars
    BY DEF Next
  <2> QED BY <2>1, FileStepRefines, OtherStepRefines
<1> QED BY <1>1, <1>2, JournalIsInOrder, PTL DEF Spec, ImplementsDurableReply, Durable!Spec

===============================================================================
