-------------------------- MODULE WorkspaceUseLeases --------------------------
(***************************************************************************)
(* node/services/workspaceUseLeases.ts: several backends (processes) share  *)
(* one root.  A user of a workspace publishes its backend's lease file and   *)
(* then probes the workspace's mutation gate; a structural mutator (rename,  *)
(* remove, archive) publishes the gates and then scans the leases.  Neither  *)
(* waits for the other: the one that sees the other refuses.  Every await    *)
(* of the code is a step boundary; MutexMap.withLock is the FIFO `line'.     *)
(*                                                                          *)
(* A record of a process that died is judged dead by everyone, so a crash    *)
(* simply takes its records away (CrashLock is the promise of the lock kit). *)
(* A release that gives up leaves a record that only its own process judges  *)
(* dead.                                                                     *)
(***************************************************************************)
EXTENDS Naturals, Sequences

CONSTANTS
  Backends, Workspaces, Kinds,
  Users,         \* the holds the backends ask for
  Opens,         \* those that open a native terminal or an external editor
  Mutators,      \* the structural mutations the backends ask for
  BackendOf,     \* the backend of a user or mutator
  PlaceOf,       \* the workspace a user uses
  KindOf,        \* the kind of its use
  Claims,        \* the workspaces a mutation would disturb
  Ignored,       \* per mutator and workspace, the own kinds that do not block it
  NoOne,         \* an absent gate
  MaxCrashes,    \* bound on backend deaths
  MaxFaults      \* bound on releases that give up

Parties == Users \union Mutators

ASSUME ParametersAssumption ==
  /\ Workspaces \subseteq Nat
  /\ Opens \subseteq Users
  /\ Users \intersect Mutators = {}
  /\ BackendOf \in [Parties -> Backends]
  /\ PlaceOf \in [Users -> Workspaces]
  /\ KindOf \in [Users -> Kinds]
  /\ Claims \in [Mutators -> SUBSET Workspaces \ {{}}]
  /\ Ignored \in [Mutators -> [Workspaces -> SUBSET Kinds]]
  /\ Mutators \intersect Backends = {} /\ NoOne \notin Mutators \union Backends
  /\ MaxCrashes \in Nat /\ MaxFaults \in Nat

UserPcs == {"idle", "asking", "probing", "admitted", "refused", "opening",
            "using", "closing", "removing"}
MutatorPcs == {"idle", "gating", "queued", "listing", "inspecting", "scanned",
               "mutating", "ungating"}

VARIABLES
  lease,      \* the lease file of a backend, workspace and kind
  gate,       \* the mutation gate file of a workspace
  held,       \* the holds a backend counts
  line,       \* who holds and awaits a backend's transition lock
  pc,
  taken,      \* the gates a mutator has published
  cleared,    \* the workspaces it found unused
  seen,       \* the foreign lease files its directory listing named
  crashes, faults

files == <<lease, gate>>
inMemory == <<held, line>>
scan == <<taken, cleared, seen>>
bounds == <<crashes, faults>>
vars == <<files, inMemory, pc, scan, bounds>>

Init ==
  /\ lease = [b \in Backends |-> [w \in Workspaces |-> [k \in Kinds |-> "absent"]]]
  /\ gate = [w \in Workspaces |-> NoOne]
  /\ held = [b \in Backends |-> [w \in Workspaces |-> [k \in Kinds |-> {}]]]
  /\ line = [b \in Backends |-> [w \in Workspaces |-> <<>>]]
  /\ pc = [x \in Parties |-> "idle"]
  /\ taken = [m \in Mutators |-> {}]
  /\ cleared = [m \in Mutators |-> {}]
  /\ seen = [m \in Mutators |-> {}]
  /\ crashes = 0
  /\ faults = 0

-----------------------------------------------------------------------------
(* The transition lock and the lease of a use                                *)

Goto(x, from, to) ==
  /\ pc[x] = from
  /\ pc' = [pc EXCEPT ![x] = to]

Enqueue(x, w) == line' = [line EXCEPT ![BackendOf[x]][w] = Append(@, x)]
Dequeue(x, w) == line' = [line EXCEPT ![BackendOf[x]][w] = Tail(@)]
AtHead(x, w) == /\ line[BackendOf[x]][w] # <<>>
                /\ Head(line[BackendOf[x]][w]) = x

LeaseOf(u) == lease[BackendOf[u]][PlaceOf[u]][KindOf[u]]
SetLease(u, state) == lease' = [lease EXCEPT ![BackendOf[u]][PlaceOf[u]][KindOf[u]] = state]
HoldersWith(u) == held[BackendOf[u]][PlaceOf[u]][KindOf[u]]
SetHolders(u, S) == held' = [held EXCEPT ![BackendOf[u]][PlaceOf[u]][KindOf[u]] = S]

\* As mutated: a gate of this very process does not count.
GateOpenToOwn(b, w) == gate[w] \in {NoOne, b} \union {m \in Mutators : BackendOf[m] = b}

\* inspectCrossProcessLock on a gate: absent, or a record b itself leaked.
GateOpen(b, w) == gate[w] \in {NoOne, b}

-----------------------------------------------------------------------------
(* hold() and the lease's release()                                          *)

Ask(u) ==
  /\ Goto(u, "idle", "asking")
  /\ Enqueue(u, PlaceOf[u])
  /\ UNCHANGED <<files, held, scan, bounds>>

\* The first hold of this kind publishes the file (its own leaked one is dead to
\* it); a nested hold finds it published, and probes the gate all the same.
Publish(u) ==
  /\ AtHead(u, PlaceOf[u])
  /\ Goto(u, "asking", "probing")
  /\ SetLease(u, "held")
  /\ UNCHANGED <<gate, inMemory, scan, bounds>>

\* As mutated: a nested hold is admitted without looking at the gate.
ProbeFirstHold(u) ==
  /\ pc[u] = "probing"
  /\ pc' = [pc EXCEPT ![u] = IF HoldersWith(u) # {} \/ GateOpen(BackendOf[u], PlaceOf[u])
                             THEN "admitted" ELSE "refused"]
  /\ UNCHANGED <<files, inMemory, scan, bounds>>

Probe(u) ==
  /\ pc[u] = "probing"
  /\ pc' = [pc EXCEPT ![u] = IF GateOpen(BackendOf[u], PlaceOf[u]) THEN "admitted" ELSE "refused"]
  /\ UNCHANGED <<files, inMemory, scan, bounds>>

Admit(u) ==
  /\ Goto(u, "admitted", IF u \in Opens THEN "opening" ELSE "using")
  /\ SetHolders(u, HoldersWith(u) \union {u})
  /\ Dequeue(u, PlaceOf[u])
  /\ UNCHANGED <<files, scan, bounds>>

\* As mutated: the refusal leaves the transition lock held.
WithdrawLocked(u) ==
  /\ Goto(u, "refused", "idle")
  /\ IF HoldersWith(u) = {} THEN SetLease(u, "absent") ELSE UNCHANGED lease
  /\ UNCHANGED <<gate, inMemory, scan, bounds>>

\* WorkspaceMutationInProgressError: only a lease this call published goes.
Withdraw(u) ==
  /\ Goto(u, "refused", "idle")
  /\ IF HoldersWith(u) = {} THEN SetLease(u, "absent") ELSE UNCHANGED lease
  /\ Dequeue(u, PlaceOf[u])
  /\ UNCHANGED <<gate, held, scan, bounds>>

\* The terminal or editor is launched at the path read under the lease.
Launch(u) ==
  /\ Goto(u, "opening", "using")
  /\ UNCHANGED <<files, inMemory, scan, bounds>>

Close(u) ==
  /\ pc[u] \in {"opening", "using"}
  /\ Goto(u, pc[u], "closing")
  /\ Enqueue(u, PlaceOf[u])
  /\ UNCHANGED <<files, held, scan, bounds>>

Drop(u) ==
  /\ AtHead(u, PlaceOf[u])
  /\ SetHolders(u, HoldersWith(u) \ {u})
  /\ \/ /\ HoldersWith(u) = {u}
        /\ Goto(u, "closing", "removing")
        /\ UNCHANGED line
     \/ /\ HoldersWith(u) # {u}
        /\ Goto(u, "closing", "idle")
        /\ Dequeue(u, PlaceOf[u])
  /\ UNCHANGED <<files, scan, bounds>>

Unpublish(u) ==
  /\ Goto(u, "removing", "idle")
  /\ SetLease(u, "absent")
  /\ Dequeue(u, PlaceOf[u])
  /\ UNCHANGED <<gate, held, scan, bounds>>

\* The release of the file gives up after its attempts; nobody hears of it.
LeakLease(u) ==
  /\ faults < MaxFaults
  /\ faults' = faults + 1
  /\ pc[u] = "removing" \/ (pc[u] = "refused" /\ HoldersWith(u) = {})
  /\ Goto(u, pc[u], "idle")
  /\ SetLease(u, "leaked")
  /\ Dequeue(u, PlaceOf[u])
  /\ UNCHANGED <<gate, held, scan, crashes>>

-----------------------------------------------------------------------------
(* acquireMutationGate() and the release it returns                          *)

Least(w, S) == w \in S /\ \A v \in S : w <= v
Greatest(w, S) == w \in S /\ \A v \in S : v <= w

Begin(m) ==
  /\ Goto(m, "idle", "gating")
  /\ UNCHANGED <<files, inMemory, scan, bounds>>

\* The gates are tried in one order, without waiting.
TakeGate(m) == \E w \in Workspaces :
  /\ pc[m] = "gating"
  /\ Least(w, Claims[m] \ taken[m])
  /\ GateOpen(BackendOf[m], w)
  /\ gate' = [gate EXCEPT ![w] = m]
  /\ taken' = [taken EXCEPT ![m] = @ \union {w}]
  /\ UNCHANGED <<lease, inMemory, pc, cleared, seen, bounds>>

FindBusy(m) == \E w \in Workspaces :
  /\ Least(w, Claims[m] \ taken[m])
  /\ ~GateOpen(BackendOf[m], w)
  /\ Goto(m, "gating", IF taken[m] = {} THEN "idle" ELSE "ungating")
  /\ UNCHANGED <<files, inMemory, scan, bounds>>

\* Published, so scan: each workspace under this backend's transition lock.
QueueScan(m) == \E w \in Workspaces :
  /\ taken[m] = Claims[m]
  /\ Least(w, Claims[m] \ cleared[m])
  /\ Goto(m, "gating", "queued")
  /\ Enqueue(m, w)
  /\ UNCHANGED <<files, held, scan, bounds>>

OwnUse(m, w) == \E k \in Kinds : /\ k \notin Ignored[m][w]
                                 /\ held[BackendOf[m]][w][k] # {}

ForeignLeases(m, w) == {f \in (Backends \ {BackendOf[m]}) \X Kinds : lease[f[1]][w][f[2]] # "absent"}

ScanOwn(m) == \E w \in Workspaces :
  /\ Least(w, Claims[m] \ cleared[m])
  /\ AtHead(m, w)
  /\ ~OwnUse(m, w)
  /\ Goto(m, "queued", "listing")
  /\ UNCHANGED <<files, inMemory, scan, bounds>>

ReadDir(m) == \E w \in Workspaces :
  /\ Least(w, Claims[m] \ cleared[m])
  /\ Goto(m, "listing", "inspecting")
  /\ seen' = [seen EXCEPT ![m] = ForeignLeases(m, w)]
  /\ UNCHANGED <<files, inMemory, taken, cleared, bounds>>

\* A listed file that is gone when it is inspected.
PassLease(m) == \E w \in Workspaces : \E f \in seen[m] :
  /\ pc[m] = "inspecting"
  /\ Least(w, Claims[m] \ cleared[m])
  /\ lease[f[1]][w][f[2]] = "absent"
  /\ seen' = [seen EXCEPT ![m] = @ \ {f}]
  /\ UNCHANGED <<files, inMemory, pc, taken, cleared, bounds>>

\* No use found, and no background process.
Clear(m) == \E w \in Workspaces :
  /\ Least(w, Claims[m] \ cleared[m])
  /\ seen[m] = {}
  /\ cleared' = [cleared EXCEPT ![m] = @ \union {w}]
  /\ Goto(m, "inspecting", IF cleared'[m] = Claims[m] THEN "scanned" ELSE "gating")
  /\ Dequeue(m, w)
  /\ UNCHANGED <<files, held, taken, seen, bounds>>

\* A use of this backend, a directory that cannot be listed, a live foreign
\* lease, or a background process: WorkspaceBusyError, every gate released.
RefuseMutation(m) == \E w \in Workspaces :
  /\ Least(w, Claims[m] \ cleared[m])
  /\ \/ pc[m] = "queued" /\ AtHead(m, w) /\ OwnUse(m, w)
     \/ pc[m] = "listing"
     \/ pc[m] = "inspecting" /\ seen[m] = {}
     \/ pc[m] = "inspecting" /\ \E f \in seen[m] : lease[f[1]][w][f[2]] # "absent"
  /\ Goto(m, pc[m], "ungating")
  /\ cleared' = [cleared EXCEPT ![m] = {}]
  /\ seen' = [seen EXCEPT ![m] = {}]
  /\ Dequeue(m, w)
  /\ UNCHANGED <<files, held, taken, bounds>>

\* workspaceService.ts: opens of an ignored kind are counted before their probe
\* until they are launched, or have failed and released their lease.
OpenInFlight(m, phases) == \E u \in Opens :
  /\ BackendOf[u] = BackendOf[m]
  /\ PlaceOf[u] \in Claims[m]
  /\ KindOf[u] \in Ignored[m][PlaceOf[u]]
  /\ pc[u] \in phases

BeforeLaunch == {"asking", "probing", "admitted", "refused", "opening"}

\* As mutated: opens past their probe are not looked for.
MutateUnchecked(m) ==
  /\ Goto(m, "scanned", "mutating")
  /\ UNCHANGED <<files, inMemory, scan, bounds>>

Mutate(m) ==
  /\ ~OpenInFlight(m, BeforeLaunch)
  /\ Goto(m, "scanned", "mutating")
  /\ UNCHANGED <<files, inMemory, scan, bounds>>

FindOpen(m) ==
  /\ OpenInFlight(m, BeforeLaunch \union {"closing", "removing"})
  /\ Goto(m, "scanned", "ungating")
  /\ cleared' = [cleared EXCEPT ![m] = {}]
  /\ UNCHANGED <<files, inMemory, taken, seen, bounds>>

Settle(m) ==
  /\ Goto(m, "mutating", "ungating")
  /\ cleared' = [cleared EXCEPT ![m] = {}]
  /\ UNCHANGED <<files, inMemory, taken, seen, bounds>>

\* The gates go in the reverse order; a failing release does not keep the others.
SetGate(m, w, state) ==
  /\ Greatest(w, taken[m])
  /\ Goto(m, "ungating", IF taken[m] = {w} THEN "idle" ELSE "ungating")
  /\ gate' = [gate EXCEPT ![w] = state]
  /\ taken' = [taken EXCEPT ![m] = @ \ {w}]

ReleaseGate(m) == \E w \in Workspaces :
  /\ SetGate(m, w, NoOne)
  /\ UNCHANGED <<lease, inMemory, cleared, seen, bounds>>

LeakGate(m) == \E w \in Workspaces :
  /\ faults < MaxFaults
  /\ faults' = faults + 1
  /\ SetGate(m, w, BackendOf[m])
  /\ UNCHANGED <<lease, inMemory, cleared, seen, crashes>>

-----------------------------------------------------------------------------
\* A backend dies: whatever it published is judged dead, whatever it kept in
\* memory is gone, and its users and mutators are then those of its successor.
Crash(b) ==
  /\ crashes < MaxCrashes
  /\ crashes' = crashes + 1
  /\ LET Own(m) == BackendOf[m] = b
     IN  /\ lease' = [lease EXCEPT ![b] = [w \in Workspaces |-> [k \in Kinds |-> "absent"]]]
         /\ gate' = [w \in Workspaces |->
                       IF gate[w] = b \/ (gate[w] \in Mutators /\ Own(gate[w])) THEN NoOne ELSE gate[w]]
         /\ held' = [held EXCEPT ![b] = [w \in Workspaces |-> [k \in Kinds |-> {}]]]
         /\ line' = [line EXCEPT ![b] = [w \in Workspaces |-> <<>>]]
         /\ pc' = [x \in Parties |-> IF Own(x) THEN "idle" ELSE pc[x]]
         /\ taken' = [m \in Mutators |-> IF Own(m) THEN {} ELSE taken[m]]
         /\ cleared' = [m \in Mutators |-> IF Own(m) THEN {} ELSE cleared[m]]
         /\ seen' = [m \in Mutators |-> IF Own(m) THEN {} ELSE seen[m]]
  /\ UNCHANGED faults

UserStep(u) == \/ Publish(u) \/ Probe(u) \/ Admit(u) \/ Withdraw(u)
               \/ Drop(u) \/ Unpublish(u)

MutatorStep(m) == \/ TakeGate(m) \/ FindBusy(m) \/ QueueScan(m) \/ ScanOwn(m)
                  \/ ReadDir(m) \/ PassLease(m) \/ Clear(m) \/ RefuseMutation(m)
                  \/ Mutate(m) \/ FindOpen(m) \/ ReleaseGate(m)

Next ==
  \/ \E u \in Users : UserStep(u) \/ Ask(u) \/ Launch(u) \/ Close(u) \/ LeakLease(u)
  \/ \E m \in Mutators : MutatorStep(m) \/ Begin(m) \/ Settle(m) \/ LeakGate(m)
  \/ \E b \in Backends : Crash(b)

Spec == Init /\ [][Next]_vars

\* File-system calls return and queued calls run; nobody must begin or finish a
\* use, a launch or a mutation.
FairSpec == /\ Spec
            /\ \A u \in Users : WF_vars(UserStep(u))
            /\ \A m \in Mutators : WF_vars(MutatorStep(m))

-----------------------------------------------------------------------------
(* Properties                                                                *)

TypeOK ==
  /\ lease \in [Backends -> [Workspaces -> [Kinds -> {"absent", "held", "leaked"}]]]
  /\ gate \in [Workspaces -> Mutators \union Backends \union {NoOne}]
  /\ held \in [Backends -> [Workspaces -> [Kinds -> SUBSET Users]]]
  /\ line \in [Backends -> [Workspaces -> Seq(Parties)]]
  /\ pc \in [Parties -> UserPcs \union MutatorPcs]
  /\ taken \in [Mutators -> SUBSET Workspaces]
  /\ cleared \in [Mutators -> SUBSET Workspaces]
  /\ \A m \in Mutators : cleared[m] \subseteq taken[m] /\ taken[m] \subseteq Claims[m]
  /\ seen \in [Mutators -> SUBSET (Backends \X Kinds)]
  /\ crashes \in 0 .. MaxCrashes
  /\ faults \in 0 .. MaxFaults

Counted(u) == u \in HoldersWith(u)
Mutating(m) == pc[m] = "mutating"

\* While a mutation runs, every use of a workspace it disturbs is of a kind of
\* its own backend that it declared to tolerate, and no other mutation disturbs
\* that workspace: whichever side published first, one saw the other.
StructuralExclusion ==
  \A m \in Mutators : Mutating(m) =>
    /\ \A u \in Users : Counted(u) /\ PlaceOf[u] \in Claims[m] =>
         /\ BackendOf[u] = BackendOf[m]
         /\ KindOf[u] \in Ignored[m][PlaceOf[u]]
    /\ \A n \in Mutators \ {m} : Mutating(n) => Claims[m] \intersect Claims[n] = {}

\* What a backend counts is on disk for the others to see, also between the two
\* transitions of overlapping holds and after a nested hold was refused.
CountedIsPublished == \A u \in Users : Counted(u) => LeaseOf(u) = "held"

\* No use is admitted behind the scan of its workspace, not even one of a kind
\* the mutator ignores.
NoAdmissionBehindScan ==
  [][\A u \in Users : ~Counted(u) /\ Counted(u)' =>
       \A m \in Mutators : PlaceOf[u] \notin cleared[m]]_vars

\* No terminal or editor is launched into a checkout while a mutation moves or
\* deletes it (#4909).
NoLaunchUnderMutation ==
  [][\A u \in Opens : pc[u] = "opening" /\ pc'[u] = "using" =>
       \A m \in Mutators : Mutating(m) => PlaceOf[u] \notin Claims[m]]_vars

\* Nobody waits on another process: whoever asks is admitted or refused.
Decided ==
  /\ \A u \in Users : pc[u] = "asking" ~> pc[u] \in {"opening", "using", "idle"}
  /\ \A m \in Mutators : pc[m] = "gating" ~> pc[m] \in {"mutating", "idle"}
=============================================================================
