----------------------- MODULE WorkspaceUseLeasesProofs -----------------------
(***************************************************************************)
(* Proofs about WorkspaceUseLeases for any number of backends, workspaces,  *)
(* kinds, uses and mutations, any number of crashes and of releases that    *)
(* give up: the exclusion of uses and structural mutations, and that no use *)
(* is admitted, and nothing launched, behind a mutator's scan.              *)
(***************************************************************************)
EXTENDS WorkspaceUseLeases, TLAPS

LockedPcs == {"probing", "admitted", "refused", "removing"}
ScanningPcs == {"listing", "inspecting"}

\* Whoever is past the wait for a transition lock is the first of its line.
LockInv ==
  /\ \A u \in Users : pc[u] \in LockedPcs => AtHead(u, PlaceOf[u])
  /\ \A m \in Mutators, w \in Workspaces :
       pc[m] \in ScanningPcs /\ Least(w, Claims[m] \ cleared[m]) => AtHead(m, w)

\* A backend counts exactly the holds that were admitted and not yet dropped.
HeldInv ==
  /\ \A b \in Backends, w \in Workspaces, k \in Kinds : \A u \in held[b][w][k] :
       BackendOf[u] = b /\ PlaceOf[u] = w /\ KindOf[u] = k
  /\ \A u \in Users : Counted(u) <=> pc[u] \in {"opening", "using", "closing"}
  /\ \A u \in Users : pc[u] = "removing" => HoldersWith(u) = {}

\* A counted use, and one that has probed the gate or is about to, is published.
PublishedInv ==
  \A u \in Users : Counted(u) \/ pc[u] \in {"probing", "admitted", "refused"} => LeaseOf(u) = "held"

\* A mutator's gates are up until it takes them down, and it scans behind all of
\* them.
GateInv ==
  \A m \in Mutators :
    /\ \A w \in taken[m] : gate[w] = m
    /\ cleared[m] \subseteq taken[m]
    /\ taken[m] \subseteq Claims[m]
    /\ pc[m] \in {"queued", "listing", "inspecting", "scanned", "mutating"} => taken[m] = Claims[m]
    /\ pc[m] \in {"scanned", "mutating"} => cleared[m] = Claims[m]
    /\ pc[m] = "gating" /\ cleared[m] # {} => taken[m] = Claims[m]
    /\ pc[m] \in {"idle", "ungating"} => cleared[m] = {}

Tolerates(m, u) == /\ BackendOf[u] = BackendOf[m]
                   /\ KindOf[u] \in Ignored[m][PlaceOf[u]]

\* What the scan of a workspace has established so far.
ScanInv ==
  \A m \in Mutators, u \in Users :
    /\ PlaceOf[u] \in cleared[m] =>
         pc[u] # "admitted" /\ (Counted(u) => Tolerates(m, u))
    /\ pc[m] \in ScanningPcs /\ Least(PlaceOf[u], Claims[m] \ cleared[m])
         /\ BackendOf[u] = BackendOf[m] /\ Counted(u) => Tolerates(m, u)
    /\ pc[m] = "inspecting" /\ Least(PlaceOf[u], Claims[m] \ cleared[m])
         /\ BackendOf[u] # BackendOf[m] /\ (Counted(u) \/ pc[u] = "admitted")
         => <<BackendOf[u], KindOf[u]>> \in seen[m]

\* No open is on its way to a launch under a mutation.
OpenInv ==
  \A m \in Mutators, u \in Opens :
    Mutating(m) /\ pc[u] = "opening" => PlaceOf[u] \notin Claims[m]

Inv == TypeOK /\ LockInv /\ HeldInv /\ PublishedInv /\ GateInv /\ ScanInv /\ OpenInv

-----------------------------------------------------------------------------
\* Two parties of one backend do not both hold a transition lock.
LEMMA HeadIsUnique ==
  ASSUME NEW x, NEW y, NEW w, BackendOf[x] = BackendOf[y], AtHead(x, w), AtHead(y, w)
  PROVE  x = y
BY DEF AtHead

\* Initially nothing is published, counted or claimed.
LEMMA InitInv == Init => Inv
<1> USE ParametersAssumption DEF Init, Parties
<1>1. Init => TypeOK
  BY DEF TypeOK, UserPcs, MutatorPcs
<1>2. Init => LockInv
  BY DEF LockInv, LockedPcs, ScanningPcs
<1>3. Init => HeldInv
  BY DEF HeldInv, Counted, HoldersWith
<1>4. Init => PublishedInv
  BY DEF PublishedInv, Counted, HoldersWith
<1>5. Init => GateInv
  BY DEF GateInv
<1>6. Init => ScanInv
  BY DEF ScanInv, Counted, HoldersWith, ScanningPcs
<1>7. Init => OpenInv
  BY DEF OpenInv, Mutating
<1> QED BY <1>1, <1>2, <1>3, <1>4, <1>5, <1>6, <1>7 DEF Inv

\* A set of workspaces has one least element.
LEMMA LeastIsUnique ==
  ASSUME NEW S, NEW v \in Workspaces, NEW w \in Workspaces, Least(v, S), Least(w, S)
  PROVE  v = w
<1>1. v \in Nat /\ w \in Nat /\ v <= w /\ w <= v
  BY ParametersAssumption DEF Least
<1> QED BY <1>1

SameLease(u, v) == BackendOf[u] = BackendOf[v] /\ PlaceOf[u] = PlaceOf[v] /\ KindOf[u] = KindOf[v]

\* Where the uses are.
LEMMA PlacesTyped ==
  ASSUME NEW u \in Users
  PROVE  BackendOf[u] \in Backends /\ PlaceOf[u] \in Workspaces /\ KindOf[u] \in Kinds
BY ParametersAssumption DEF Parties

\* Uses of one kind share the lease file, the count and the lock.
LEMMA SharedLease ==
  ASSUME NEW u \in Users, NEW v \in Users, SameLease(u, v)
  PROVE  /\ HoldersWith(u) = HoldersWith(v)
         /\ LockInv /\ pc[u] \in LockedPcs /\ pc[v] \in LockedPcs => u = v
BY DEF SameLease, HoldersWith, LockInv, AtHead

\* Writing one lease file keeps the types and leaves every other one alone.
LEMMA LeaseUpdate ==
  ASSUME TypeOK, NEW u \in Users, NEW state \in {"absent", "held", "leaked"}, SetLease(u, state)
  PROVE  /\ lease' \in [Backends -> [Workspaces -> [Kinds -> {"absent", "held", "leaked"}]]]
         /\ \A b \in Backends, w \in Workspaces, k \in Kinds :
              lease'[b][w][k] = IF b = BackendOf[u] /\ w = PlaceOf[u] /\ k = KindOf[u]
                                THEN state ELSE lease[b][w][k]
         /\ \A v \in Users : LeaseOf(v)' = IF SameLease(u, v) THEN state ELSE LeaseOf(v)
<1> DEFINE B == BackendOf[u]  W == PlaceOf[u]  K == KindOf[u]
           Row == [lease[B][W] EXCEPT ![K] = state]
           Page == [lease[B] EXCEPT ![W] = Row]
<1>1. B \in Backends /\ W \in Workspaces /\ K \in Kinds
  BY ParametersAssumption DEF Parties
<1>2. /\ Row \in [Kinds -> {"absent", "held", "leaked"}]
      /\ \A k \in Kinds : Row[k] = IF k = K THEN state ELSE lease[B][W][k]
  BY <1>1 DEF TypeOK
<1>3. /\ Page \in [Workspaces -> [Kinds -> {"absent", "held", "leaked"}]]
      /\ \A w \in Workspaces : Page[w] = IF w = W THEN Row ELSE lease[B][w]
  BY <1>1, <1>2 DEF TypeOK
<1>4. lease' = [lease EXCEPT ![B] = Page]
  BY DEF SetLease
<1>5. /\ lease' \in [Backends -> [Workspaces -> [Kinds -> {"absent", "held", "leaked"}]]]
      /\ \A b \in Backends : lease'[b] = IF b = B THEN Page ELSE lease[b]
  <2> HIDE DEF Page
  <2> QED BY <1>1, <1>3, <1>4 DEF TypeOK
<1> HIDE DEF Row, Page
<1>6. \A b \in Backends, w \in Workspaces, k \in Kinds :
        lease'[b][w][k] = IF b = B /\ w = W /\ k = K THEN state ELSE lease[b][w][k]
  BY <1>2, <1>3, <1>5
<1>7. ASSUME NEW v \in Users
      PROVE  LeaseOf(v)' = IF SameLease(u, v) THEN state ELSE LeaseOf(v)
  BY <1>6, PlacesTyped DEF LeaseOf, SameLease
<1> QED BY <1>5, <1>6, <1>7

\* The same for the counts.
LEMMA HoldersUpdate ==
  ASSUME TypeOK, NEW u \in Users, NEW S \in SUBSET Users, SetHolders(u, S)
  PROVE  /\ held' \in [Backends -> [Workspaces -> [Kinds -> SUBSET Users]]]
         /\ \A b \in Backends, w \in Workspaces, k \in Kinds :
              held'[b][w][k] = IF b = BackendOf[u] /\ w = PlaceOf[u] /\ k = KindOf[u]
                               THEN S ELSE held[b][w][k]
<1> DEFINE B == BackendOf[u]  W == PlaceOf[u]  K == KindOf[u]
           Row == [held[B][W] EXCEPT ![K] = S]
           Page == [held[B] EXCEPT ![W] = Row]
<1>1. B \in Backends /\ W \in Workspaces /\ K \in Kinds
  BY ParametersAssumption DEF Parties
<1>2. /\ Row \in [Kinds -> SUBSET Users]
      /\ \A k \in Kinds : Row[k] = IF k = K THEN S ELSE held[B][W][k]
  BY <1>1 DEF TypeOK
<1>3. /\ Page \in [Workspaces -> [Kinds -> SUBSET Users]]
      /\ \A w \in Workspaces : Page[w] = IF w = W THEN Row ELSE held[B][w]
  BY <1>1, <1>2 DEF TypeOK
<1>4. held' = [held EXCEPT ![B] = Page]
  BY DEF SetHolders
<1>5. /\ held' \in [Backends -> [Workspaces -> [Kinds -> SUBSET Users]]]
      /\ \A b \in Backends : held'[b] = IF b = B THEN Page ELSE held[b]
  <2> HIDE DEF Page
  <2> QED BY <1>1, <1>3, <1>4 DEF TypeOK
<1> HIDE DEF Row, Page
<1> QED BY <1>2, <1>3, <1>5

\* The holds of a kind are holds.
LEMMA HoldersTyped ==
  ASSUME TypeOK, NEW u \in Users
  PROVE  HoldersWith(u) \in SUBSET Users
<1>1. BackendOf[u] \in Backends /\ PlaceOf[u] \in Workspaces /\ KindOf[u] \in Kinds
  BY ParametersAssumption DEF Parties
<1> QED BY <1>1 DEF TypeOK, HoldersWith

\* An admitted hold is counted.
LEMMA AdmitUpdate ==
  ASSUME TypeOK, NEW u \in Users, Admit(u)
  PROVE  /\ held' \in [Backends -> [Workspaces -> [Kinds -> SUBSET Users]]]
         /\ \A b \in Backends, w \in Workspaces, k \in Kinds :
              held'[b][w][k] = IF b = BackendOf[u] /\ w = PlaceOf[u] /\ k = KindOf[u]
                               THEN held[b][w][k] \union {u} ELSE held[b][w][k]
         /\ \A v \in Users :
              HoldersWith(v)' = IF SameLease(u, v) THEN HoldersWith(v) \union {u} ELSE HoldersWith(v)
         /\ \A b \in Backends, w \in Workspaces, k \in Kinds : \A v \in held'[b][w][k] :
              v \in held[b][w][k] \/ (v = u /\ b = BackendOf[u] /\ w = PlaceOf[u] /\ k = KindOf[u])
         /\ \A v \in Users : Counted(v)' <=> Counted(v) \/ v = u
<1> DEFINE S == HoldersWith(u) \union {u}
<1>1. S \in SUBSET Users
  BY HoldersTyped
<1>2. SetHolders(u, S)
  BY DEF Admit
<1>3. \A b \in Backends, w \in Workspaces, k \in Kinds :
        b = BackendOf[u] /\ w = PlaceOf[u] /\ k = KindOf[u] => S = held[b][w][k] \union {u}
  BY DEF HoldersWith
<1> HIDE DEF S
<1>4. /\ held' \in [Backends -> [Workspaces -> [Kinds -> SUBSET Users]]]
      /\ \A b \in Backends, w \in Workspaces, k \in Kinds :
           held'[b][w][k] = IF b = BackendOf[u] /\ w = PlaceOf[u] /\ k = KindOf[u]
                            THEN S ELSE held[b][w][k]
  BY <1>1, <1>2, HoldersUpdate
<1>5. ASSUME NEW b \in Backends, NEW w \in Workspaces, NEW k \in Kinds
      PROVE  held'[b][w][k] = IF b = BackendOf[u] /\ w = PlaceOf[u] /\ k = KindOf[u]
                              THEN held[b][w][k] \union {u} ELSE held[b][w][k]
  <2>1. CASE b = BackendOf[u] /\ w = PlaceOf[u] /\ k = KindOf[u]
    <3>1. held'[b][w][k] = S
      BY <1>4, <2>1
    <3>2. S = held[b][w][k] \union {u}
      BY <1>3, <2>1
    <3> QED BY <2>1, <3>1, <3>2
  <2>2. CASE ~(b = BackendOf[u] /\ w = PlaceOf[u] /\ k = KindOf[u])
    BY <1>4, <2>2
  <2> QED BY <2>1, <2>2
<1>6. ASSUME NEW v \in Users
      PROVE  HoldersWith(v)' = IF SameLease(u, v) THEN HoldersWith(v) \union {u} ELSE HoldersWith(v)
  <2> DEFINE old == held[BackendOf[v]][PlaceOf[v]][KindOf[v]]
             new == held'[BackendOf[v]][PlaceOf[v]][KindOf[v]]
  <2>1. CASE SameLease(u, v)
    <3>1. new = old \union {u}
      BY <1>5, <2>1, PlacesTyped DEF SameLease
    <3> QED BY <2>1, <3>1 DEF HoldersWith
  <2>2. CASE ~SameLease(u, v)
    <3>1. ~(BackendOf[v] = BackendOf[u] /\ PlaceOf[v] = PlaceOf[u] /\ KindOf[v] = KindOf[u])
      BY <2>2 DEF SameLease
    <3>2. BackendOf[v] \in Backends /\ PlaceOf[v] \in Workspaces /\ KindOf[v] \in Kinds
      BY PlacesTyped
    <3> HIDE DEF old, new
    <3>3. new = old
      BY <1>5, <3>1, <3>2 DEF old, new
    <3> QED BY <2>2, <3>3 DEF HoldersWith, old, new
  <2> QED BY <2>1, <2>2
<1>7. ASSUME NEW v \in Users PROVE Counted(v)' <=> Counted(v) \/ v = u
  <2>1. CASE SameLease(u, v)
    BY <1>6, <2>1 DEF Counted
  <2>2. CASE ~SameLease(u, v)
    BY <1>6, <2>2 DEF Counted, SameLease
  <2> QED BY <2>1, <2>2
<1>8. ASSUME NEW b \in Backends, NEW w \in Workspaces, NEW k \in Kinds, NEW v \in held'[b][w][k]
      PROVE  v \in held[b][w][k] \/ (v = u /\ b = BackendOf[u] /\ w = PlaceOf[u] /\ k = KindOf[u])
  <2>1. CASE b = BackendOf[u] /\ w = PlaceOf[u] /\ k = KindOf[u]
    <3>1. held'[b][w][k] = held[b][w][k] \union {u}
      BY <1>5, <2>1
    <3> QED BY <1>8, <2>1, <3>1
  <2>2. CASE ~(b = BackendOf[u] /\ w = PlaceOf[u] /\ k = KindOf[u])
    BY <1>5, <1>8, <2>2
  <2> QED BY <2>1, <2>2
<1> QED BY <1>4, <1>5, <1>6, <1>7, <1>8

\* A dropped hold is counted no more.
LEMMA DropUpdate ==
  ASSUME TypeOK, NEW u \in Users, Drop(u)
  PROVE  /\ held' \in [Backends -> [Workspaces -> [Kinds -> SUBSET Users]]]
         /\ \A b \in Backends, w \in Workspaces, k \in Kinds :
              held'[b][w][k] = IF b = BackendOf[u] /\ w = PlaceOf[u] /\ k = KindOf[u]
                               THEN held[b][w][k] \ {u} ELSE held[b][w][k]
         /\ \A v \in Users :
              HoldersWith(v)' = IF SameLease(u, v) THEN HoldersWith(v) \ {u} ELSE HoldersWith(v)
         /\ \A b \in Backends, w \in Workspaces, k \in Kinds : held'[b][w][k] \subseteq held[b][w][k]
         /\ \A v \in Users : Counted(v)' <=> Counted(v) /\ v # u
         /\ \A v \in Users : HoldersWith(v) = {} => HoldersWith(v)' = {}
         /\ HoldersWith(u) = {u} => HoldersWith(u)' = {}
<1> DEFINE S == HoldersWith(u) \ {u}
<1>1. S \in SUBSET Users
  BY HoldersTyped
<1>2. SetHolders(u, S)
  BY DEF Drop
<1>3. \A b \in Backends, w \in Workspaces, k \in Kinds :
        b = BackendOf[u] /\ w = PlaceOf[u] /\ k = KindOf[u] => S = held[b][w][k] \ {u}
  BY DEF HoldersWith
<1> HIDE DEF S
<1>4. /\ held' \in [Backends -> [Workspaces -> [Kinds -> SUBSET Users]]]
      /\ \A b \in Backends, w \in Workspaces, k \in Kinds :
           held'[b][w][k] = IF b = BackendOf[u] /\ w = PlaceOf[u] /\ k = KindOf[u]
                            THEN S ELSE held[b][w][k]
  BY <1>1, <1>2, HoldersUpdate
<1>5. ASSUME NEW b \in Backends, NEW w \in Workspaces, NEW k \in Kinds
      PROVE  held'[b][w][k] = IF b = BackendOf[u] /\ w = PlaceOf[u] /\ k = KindOf[u]
                              THEN held[b][w][k] \ {u} ELSE held[b][w][k]
  <2>1. CASE b = BackendOf[u] /\ w = PlaceOf[u] /\ k = KindOf[u]
    <3>1. held'[b][w][k] = S
      BY <1>4, <2>1
    <3>2. S = held[b][w][k] \ {u}
      BY <1>3, <2>1
    <3> QED BY <2>1, <3>1, <3>2
  <2>2. CASE ~(b = BackendOf[u] /\ w = PlaceOf[u] /\ k = KindOf[u])
    BY <1>4, <2>2
  <2> QED BY <2>1, <2>2
<1>6. ASSUME NEW v \in Users
      PROVE  HoldersWith(v)' = IF SameLease(u, v) THEN HoldersWith(v) \ {u} ELSE HoldersWith(v)
  <2> DEFINE old == held[BackendOf[v]][PlaceOf[v]][KindOf[v]]
             new == held'[BackendOf[v]][PlaceOf[v]][KindOf[v]]
  <2>1. CASE SameLease(u, v)
    <3>1. new = old \ {u}
      BY <1>5, <2>1, PlacesTyped DEF SameLease
    <3> QED BY <2>1, <3>1 DEF HoldersWith
  <2>2. CASE ~SameLease(u, v)
    <3>1. ~(BackendOf[v] = BackendOf[u] /\ PlaceOf[v] = PlaceOf[u] /\ KindOf[v] = KindOf[u])
      BY <2>2 DEF SameLease
    <3>2. BackendOf[v] \in Backends /\ PlaceOf[v] \in Workspaces /\ KindOf[v] \in Kinds
      BY PlacesTyped
    <3> HIDE DEF old, new
    <3>3. new = old
      BY <1>5, <3>1, <3>2 DEF old, new
    <3> QED BY <2>2, <3>3 DEF HoldersWith, old, new
  <2> QED BY <2>1, <2>2
<1>7. ASSUME NEW v \in Users PROVE Counted(v)' <=> Counted(v) /\ v # u
  <2>1. CASE SameLease(u, v)
    BY <1>6, <2>1 DEF Counted
  <2>2. CASE ~SameLease(u, v)
    BY <1>6, <2>2 DEF Counted, SameLease
  <2> QED BY <2>1, <2>2
<1>8. ASSUME NEW v \in Users, HoldersWith(v) = {} PROVE HoldersWith(v)' = {}
  BY <1>6, <1>8
<1>9. HoldersWith(u) = {u} => HoldersWith(u)' = {}
  <2>1. SameLease(u, u)
    BY DEF SameLease
  <2>2. HoldersWith(u)' = HoldersWith(u) \ {u}
    BY <1>6, <2>1
  <2> QED BY <2>2
<1>10. ASSUME NEW b \in Backends, NEW w \in Workspaces, NEW k \in Kinds
       PROVE  held'[b][w][k] \subseteq held[b][w][k]
  <2>1. CASE b = BackendOf[u] /\ w = PlaceOf[u] /\ k = KindOf[u]
    <3>1. held'[b][w][k] = held[b][w][k] \ {u}
      BY <1>5, <2>1
    <3> QED BY <3>1
  <2>2. CASE ~(b = BackendOf[u] /\ w = PlaceOf[u] /\ k = KindOf[u])
    BY <1>5, <2>2
  <2> QED BY <2>1, <2>2
<1> QED BY <1>4, <1>5, <1>6, <1>7, <1>8, <1>9, <1>10

\* A newcomer queues behind whoever holds the lock.
LEMMA EnqueueUpdate ==
  ASSUME TypeOK, NEW x \in Parties, NEW w \in Workspaces, Enqueue(x, w)
  PROVE  /\ line' \in [Backends -> [Workspaces -> Seq(Parties)]]
         /\ \A y \in Parties, v \in Workspaces : AtHead(y, v) => AtHead(y, v)'
<1> USE ParametersAssumption
<1>1. BackendOf[x] \in Backends /\ line[BackendOf[x]][w] \in Seq(Parties)
  BY DEF TypeOK
<1>2. Append(line[BackendOf[x]][w], x) \in Seq(Parties)
  BY <1>1
<1>3. line' \in [Backends -> [Workspaces -> Seq(Parties)]]
  BY <1>2 DEF TypeOK, Enqueue
<1>4. ASSUME NEW y \in Parties, NEW v \in Workspaces, AtHead(y, v) PROVE AtHead(y, v)'
  <2>1. line'[BackendOf[y]][v] = IF BackendOf[y] = BackendOf[x] /\ v = w
                                 THEN Append(line[BackendOf[x]][w], x)
                                 ELSE line[BackendOf[y]][v]
    BY DEF TypeOK, Enqueue
  <2>2. line[BackendOf[y]][v] \in Seq(Parties)
    BY DEF TypeOK
  <2> QED BY <2>1, <2>2, <1>4 DEF AtHead
<1> QED BY <1>3, <1>4

\* Whoever leaves the lock does not disturb the holders of other locks.
LEMMA DequeueUpdate ==
  ASSUME TypeOK, NEW x \in Parties, NEW w \in Workspaces, AtHead(x, w), Dequeue(x, w)
  PROVE  /\ line' \in [Backends -> [Workspaces -> Seq(Parties)]]
         /\ \A y \in Parties \ {x}, v \in Workspaces : AtHead(y, v) => AtHead(y, v)'
<1> USE ParametersAssumption
<1>1. BackendOf[x] \in Backends /\ line[BackendOf[x]][w] \in Seq(Parties)
  BY DEF TypeOK
<1>2. Tail(line[BackendOf[x]][w]) \in Seq(Parties)
  BY <1>1 DEF AtHead
<1>3. line' \in [Backends -> [Workspaces -> Seq(Parties)]]
  BY <1>2 DEF TypeOK, Dequeue
<1>4. ASSUME NEW y \in Parties \ {x}, NEW v \in Workspaces, AtHead(y, v) PROVE AtHead(y, v)'
  <2>1. ~(BackendOf[y] = BackendOf[x] /\ v = w)
    BY <1>4 DEF AtHead
  <2>2. line'[BackendOf[y]][v] = line[BackendOf[y]][v]
    BY <2>1 DEF TypeOK, Dequeue
  <2> QED BY <2>2, <1>4 DEF AtHead
<1> QED BY <1>3, <1>4

\* Lines that do not change keep their heads.
LEMMA HeadKept ==
  ASSUME line' = line
  PROVE  \A y \in Parties, v \in Workspaces : AtHead(y, v) => AtHead(y, v)'
BY DEF AtHead

\* A step of one party keeps the others at the heads of their lines.
LEMMA LockKept ==
  ASSUME LockInv, NEW x \in Parties,
         \A y \in Parties \ {x} : pc'[y] = pc[y],
         \A n \in Mutators \ {x} : cleared'[n] = cleared[n],
         \A y \in Parties \ {x}, v \in Workspaces : AtHead(y, v) => AtHead(y, v)',
         x \in Users /\ pc'[x] \in LockedPcs => AtHead(x, PlaceOf[x])',
         x \in Mutators /\ pc'[x] \in ScanningPcs =>
           \A w \in Workspaces : Least(w, Claims[x] \ cleared'[x]) => AtHead(x, w)'
  PROVE  LockInv'
<1>1. ASSUME NEW u \in Users, pc'[u] \in LockedPcs PROVE AtHead(u, PlaceOf[u])'
  BY <1>1, PlacesTyped DEF LockInv, Parties
<1>2. ASSUME NEW m \in Mutators, NEW w \in Workspaces, pc'[m] \in ScanningPcs,
             Least(w, Claims[m] \ cleared'[m])
      PROVE  AtHead(m, w)'
  BY <1>2 DEF LockInv, Parties
<1> QED BY <1>1, <1>2 DEF LockInv, LockedPcs, ScanningPcs, Least

\* Every step preserves the types.
LEMMA NextTypeOK ==
  ASSUME Inv, [Next]_vars
  PROVE  TypeOK'
<1> USE ParametersAssumption
<1> USE DEF Inv, TypeOK, UserPcs, MutatorPcs, GateInv, Least, Greatest, LockInv, LockedPcs, ScanningPcs, Parties, files, inMemory, scan, bounds
<1>s. CASE UNCHANGED vars
  BY <1>s DEF vars
<1>1. ASSUME NEW u \in Users, Ask(u) PROVE TypeOK'
  <2>2. line' \in [Backends -> [Workspaces -> Seq(Parties)]]
    BY <1>1, EnqueueUpdate DEF Ask, Goto
  <2> QED BY <1>1, <2>2 DEF Ask, Goto
<1>2. ASSUME NEW u \in Users, Publish(u) PROVE TypeOK'
  BY <1>2, LeaseUpdate DEF Publish, Goto
<1>3. ASSUME NEW u \in Users, Probe(u) PROVE TypeOK'
  BY <1>3 DEF Probe, GateOpen
<1>4. ASSUME NEW u \in Users, Admit(u) PROVE TypeOK'
  <2>2. line' \in [Backends -> [Workspaces -> Seq(Parties)]]
    BY <1>4, DequeueUpdate DEF Admit, Goto
  <2> QED BY <1>4, <2>2, AdmitUpdate DEF Admit, Goto
<1>5. ASSUME NEW u \in Users, Withdraw(u) PROVE TypeOK'
  <2>2. line' \in [Backends -> [Workspaces -> Seq(Parties)]]
    BY <1>5, DequeueUpdate DEF Withdraw, Goto
  <2>3. lease' \in [Backends -> [Workspaces -> [Kinds -> {"absent", "held", "leaked"}]]]
    BY <1>5, LeaseUpdate DEF Withdraw
  <2> QED BY <1>5, <2>2, <2>3 DEF Withdraw, Goto
<1>6. ASSUME NEW u \in Users, Launch(u) PROVE TypeOK'
  BY <1>6 DEF Launch, Goto
<1>7. ASSUME NEW u \in Users, Close(u) PROVE TypeOK'
  <2>2. line' \in [Backends -> [Workspaces -> Seq(Parties)]]
    BY <1>7, EnqueueUpdate DEF Close, Goto
  <2> QED BY <1>7, <2>2 DEF Close, Goto
<1>8. ASSUME NEW u \in Users, Drop(u) PROVE TypeOK'
  <2>2. line' \in [Backends -> [Workspaces -> Seq(Parties)]]
    BY <1>8, DequeueUpdate DEF Drop, Goto
  <2>6. PICK to \in UserPcs : pc' = [pc EXCEPT ![u] = to]
    BY <1>8 DEF Drop, Goto
  <2>3. pc' \in [Parties -> UserPcs \union MutatorPcs]
    BY <2>6
  <2>4. held' \in [Backends -> [Workspaces -> [Kinds -> SUBSET Users]]]
    BY <1>8, DropUpdate
  <2>5. UNCHANGED <<lease, gate, taken, cleared, seen, crashes, faults>>
    BY <1>8 DEF Drop
  <2> QED BY <2>2, <2>3, <2>4, <2>5
<1>9. ASSUME NEW u \in Users, Unpublish(u) PROVE TypeOK'
  <2>2. line' \in [Backends -> [Workspaces -> Seq(Parties)]]
    BY <1>9, DequeueUpdate DEF Unpublish, Goto
  <2>3. lease' \in [Backends -> [Workspaces -> [Kinds -> {"absent", "held", "leaked"}]]]
    BY <1>9, LeaseUpdate DEF Unpublish
  <2> QED BY <1>9, <2>2, <2>3 DEF Unpublish, Goto
<1>10. ASSUME NEW u \in Users, LeakLease(u) PROVE TypeOK'
  <2>2. line' \in [Backends -> [Workspaces -> Seq(Parties)]]
    BY <1>10, DequeueUpdate DEF LeakLease, Goto
  <2>3. lease' \in [Backends -> [Workspaces -> [Kinds -> {"absent", "held", "leaked"}]]]
    BY <1>10, LeaseUpdate DEF LeakLease
  <2> QED BY <1>10, <2>2, <2>3 DEF LeakLease, Goto
<1>11. ASSUME NEW m \in Mutators, Begin(m) PROVE TypeOK'
  BY <1>11 DEF Begin, Goto
<1>12. ASSUME NEW m \in Mutators, TakeGate(m) PROVE TypeOK'
  BY <1>12 DEF TakeGate, GateOpen
<1>13. ASSUME NEW m \in Mutators, FindBusy(m) PROVE TypeOK'
  BY <1>13 DEF FindBusy, Goto
<1>14. ASSUME NEW m \in Mutators, QueueScan(m) PROVE TypeOK'
  BY <1>14, EnqueueUpdate DEF QueueScan, Goto
<1>15. ASSUME NEW m \in Mutators, ScanOwn(m) PROVE TypeOK'
  BY <1>15 DEF ScanOwn, Goto
<1>16. ASSUME NEW m \in Mutators, ReadDir(m) PROVE TypeOK'
  BY <1>16 DEF ReadDir, Goto, ForeignLeases
<1>17. ASSUME NEW m \in Mutators, PassLease(m) PROVE TypeOK'
  BY <1>17 DEF PassLease
<1>18. ASSUME NEW m \in Mutators, Clear(m) PROVE TypeOK'
  <2>2. line' \in [Backends -> [Workspaces -> Seq(Parties)]]
    BY <1>18, DequeueUpdate DEF Clear, Goto
  <2>3. pc' \in [Parties -> UserPcs \union MutatorPcs]
    BY <1>18 DEF Clear, Goto
  <2>4. /\ cleared' \in [Mutators -> SUBSET Workspaces]
        /\ \A n \in Mutators : cleared'[n] \subseteq taken[n] /\ taken[n] \subseteq Claims[n]
    BY <1>18 DEF Clear, Goto
  <2>5. UNCHANGED <<lease, gate, held, taken, seen, crashes, faults>>
    BY <1>18 DEF Clear
  <2> QED BY <2>2, <2>3, <2>4, <2>5
<1>19. ASSUME NEW m \in Mutators, RefuseMutation(m) PROVE TypeOK'
  <2>2. line' \in [Backends -> [Workspaces -> Seq(Parties)]]
    BY <1>19, DequeueUpdate DEF RefuseMutation, Goto
  <2>3. /\ pc' \in [Parties -> UserPcs \union MutatorPcs]
        /\ cleared' \in [Mutators -> SUBSET Workspaces]
        /\ seen' \in [Mutators -> SUBSET (Backends \X Kinds)]
        /\ \A n \in Mutators : cleared'[n] \subseteq cleared[n]
    BY <1>19 DEF RefuseMutation, Goto
  <2>4. UNCHANGED <<lease, gate, held, taken, crashes, faults>>
    BY <1>19 DEF RefuseMutation
  <2>5. \A n \in Mutators : cleared'[n] \subseteq taken[n] /\ taken[n] \subseteq Claims[n]
    BY <2>3
  <2> QED BY <2>2, <2>3, <2>4, <2>5
<1>20. ASSUME NEW m \in Mutators, Mutate(m) PROVE TypeOK'
  BY <1>20 DEF Mutate, Goto
<1>21. ASSUME NEW m \in Mutators, FindOpen(m) PROVE TypeOK'
  BY <1>21 DEF FindOpen, Goto
<1>22. ASSUME NEW m \in Mutators, Settle(m) PROVE TypeOK'
  BY <1>22 DEF Settle, Goto
<1>23. ASSUME NEW m \in Mutators, ReleaseGate(m) PROVE TypeOK'
  BY <1>23 DEF ReleaseGate, Goto, SetGate
<1>24. ASSUME NEW m \in Mutators, LeakGate(m) PROVE TypeOK'
  BY <1>24 DEF LeakGate, Goto, SetGate
<1>c. ASSUME NEW b \in Backends, Crash(b) PROVE TypeOK'
  BY <1>c DEF Crash
<1> QED
  BY <1>s, <1>1, <1>2, <1>3, <1>4, <1>5, <1>6, <1>7, <1>8, <1>9, <1>10, <1>11, <1>12, <1>13, <1>14, <1>15, <1>16, <1>17, <1>18, <1>19, <1>20, <1>21, <1>22, <1>23, <1>24, <1>c DEF Next, UserStep, MutatorStep

\* Every step keeps the counts of a backend true.
LEMMA NextHeldInv ==
  ASSUME Inv, [Next]_vars
  PROVE  HeldInv'
<1> USE ParametersAssumption
<1> USE DEF Inv, HeldInv, TypeOK, Counted, Parties, files, inMemory, scan, bounds
<1>s. CASE UNCHANGED vars
  BY <1>s DEF vars, HoldersWith
<1>1. ASSUME NEW u \in Users, Ask(u) PROVE HeldInv'
  BY <1>1 DEF Ask, Goto, HoldersWith
<1>2. ASSUME NEW u \in Users, Publish(u) PROVE HeldInv'
  BY <1>2 DEF Publish, Goto, HoldersWith
<1>3. ASSUME NEW u \in Users, Probe(u) PROVE HeldInv'
  BY <1>3 DEF Probe, GateOpen, HoldersWith
<1>4. ASSUME NEW u \in Users, Admit(u) PROVE HeldInv'
  <2>1. \A b \in Backends, w \in Workspaces, k \in Kinds : \A v \in held'[b][w][k] :
          v \in held[b][w][k] \/ (v = u /\ b = BackendOf[u] /\ w = PlaceOf[u] /\ k = KindOf[u])
    BY <1>4, AdmitUpdate
  <2>2. \A v \in Users : v \in HoldersWith(v)' <=> v \in HoldersWith(v) \/ v = u
    BY <1>4, AdmitUpdate
  <2>3. \A v \in Users : pc[v] = "removing" => HoldersWith(v)' = HoldersWith(v)
    <3>1. ASSUME NEW v \in Users, pc[v] = "removing" PROVE ~SameLease(u, v)
      BY <1>4, <3>1, SharedLease DEF Admit, Goto, LockedPcs
    <3> QED BY <1>4, <3>1, AdmitUpdate
  <2> QED BY <1>4, <2>1, <2>2, <2>3 DEF Admit, Goto
<1>5. ASSUME NEW u \in Users, Withdraw(u) PROVE HeldInv'
  BY <1>5 DEF Withdraw, Goto, HoldersWith, HoldersWith
<1>6. ASSUME NEW u \in Users, Launch(u) PROVE HeldInv'
  BY <1>6 DEF Launch, Goto, HoldersWith
<1>7. ASSUME NEW u \in Users, Close(u) PROVE HeldInv'
  BY <1>7 DEF Close, Goto, HoldersWith
<1>8. ASSUME NEW u \in Users, Drop(u) PROVE HeldInv'
  <2>1. \A b \in Backends, w \in Workspaces, k \in Kinds : held'[b][w][k] \subseteq held[b][w][k]
    BY <1>8, DropUpdate
  <2>2. \A v \in Users : v \in HoldersWith(v)' <=> v \in HoldersWith(v) /\ v # u
    BY <1>8, DropUpdate
  <2>3. \A v \in Users : HoldersWith(v) = {} => HoldersWith(v)' = {}
    BY <1>8, DropUpdate
  <2>4. HoldersWith(u) = {u} => HoldersWith(u)' = {}
    BY <1>8, DropUpdate
  <2>5. \/ pc' = [pc EXCEPT ![u] = "removing"] /\ HoldersWith(u) = {u}
        \/ pc' = [pc EXCEPT ![u] = "idle"]
    BY <1>8 DEF Drop, Goto
  <2>6. pc[u] = "closing"
    BY <1>8 DEF Drop, Goto
  <2>7. /\ \A v \in Users \ {u} : pc'[v] = pc[v]
        /\ pc'[u] = "idle" \/ (pc'[u] = "removing" /\ HoldersWith(u) = {u})
    BY <2>5
  <2>8. \A b \in Backends, w \in Workspaces, k \in Kinds : \A v \in held'[b][w][k] :
          BackendOf[v] = b /\ PlaceOf[v] = w /\ KindOf[v] = k
    BY <2>1
  <2>9. \A v \in Users : v \in HoldersWith(v)' <=> pc'[v] \in {"opening", "using", "closing"}
    BY <2>2, <2>6, <2>7
  <2>10. \A v \in Users : pc'[v] = "removing" => HoldersWith(v)' = {}
    BY <2>3, <2>4, <2>7
  <2> QED BY <2>8, <2>9, <2>10
<1>9. ASSUME NEW u \in Users, Unpublish(u) PROVE HeldInv'
  BY <1>9 DEF Unpublish, Goto, HoldersWith
<1>10. ASSUME NEW u \in Users, LeakLease(u) PROVE HeldInv'
  BY <1>10 DEF LeakLease, Goto, HoldersWith, HoldersWith
<1>11. ASSUME NEW m \in Mutators, Begin(m) PROVE HeldInv'
  BY <1>11 DEF Begin, Goto, HoldersWith
<1>12. ASSUME NEW m \in Mutators, TakeGate(m) PROVE HeldInv'
  BY <1>12 DEF TakeGate, HoldersWith
<1>13. ASSUME NEW m \in Mutators, FindBusy(m) PROVE HeldInv'
  BY <1>13 DEF FindBusy, Goto, HoldersWith
<1>14. ASSUME NEW m \in Mutators, QueueScan(m) PROVE HeldInv'
  BY <1>14 DEF QueueScan, Goto, HoldersWith
<1>15. ASSUME NEW m \in Mutators, ScanOwn(m) PROVE HeldInv'
  BY <1>15 DEF ScanOwn, Goto, HoldersWith
<1>16. ASSUME NEW m \in Mutators, ReadDir(m) PROVE HeldInv'
  BY <1>16 DEF ReadDir, Goto, HoldersWith
<1>17. ASSUME NEW m \in Mutators, PassLease(m) PROVE HeldInv'
  BY <1>17 DEF PassLease, HoldersWith
<1>18. ASSUME NEW m \in Mutators, Clear(m) PROVE HeldInv'
  BY <1>18 DEF Clear, Goto, HoldersWith
<1>19. ASSUME NEW m \in Mutators, RefuseMutation(m) PROVE HeldInv'
  BY <1>19 DEF RefuseMutation, Goto, HoldersWith
<1>20. ASSUME NEW m \in Mutators, Mutate(m) PROVE HeldInv'
  BY <1>20 DEF Mutate, Goto, HoldersWith
<1>21. ASSUME NEW m \in Mutators, FindOpen(m) PROVE HeldInv'
  BY <1>21 DEF FindOpen, Goto, HoldersWith
<1>22. ASSUME NEW m \in Mutators, Settle(m) PROVE HeldInv'
  BY <1>22 DEF Settle, Goto, HoldersWith
<1>23. ASSUME NEW m \in Mutators, ReleaseGate(m) PROVE HeldInv'
  BY <1>23 DEF ReleaseGate, Goto, SetGate, HoldersWith
<1>24. ASSUME NEW m \in Mutators, LeakGate(m) PROVE HeldInv'
  BY <1>24 DEF LeakGate, Goto, SetGate, HoldersWith
<1>c. ASSUME NEW b \in Backends, Crash(b) PROVE HeldInv'
  BY <1>c DEF Crash, HoldersWith
<1> QED
  BY <1>s, <1>1, <1>2, <1>3, <1>4, <1>5, <1>6, <1>7, <1>8, <1>9, <1>10, <1>11, <1>12, <1>13, <1>14, <1>15, <1>16, <1>17, <1>18, <1>19, <1>20, <1>21, <1>22, <1>23, <1>24, <1>c DEF Next, UserStep, MutatorStep

\* Every step keeps a mutator's gates up.
LEMMA NextGateInv ==
  ASSUME Inv, [Next]_vars
  PROVE  GateInv'
<1> USE ParametersAssumption
<1> USE DEF Inv, GateInv, TypeOK, Least, Greatest, Parties, files, inMemory, scan, bounds
<1>s. CASE UNCHANGED vars
  BY <1>s DEF vars
<1>1. ASSUME NEW u \in Users, Ask(u) PROVE GateInv'
  BY <1>1 DEF Ask, Goto
<1>2. ASSUME NEW u \in Users, Publish(u) PROVE GateInv'
  BY <1>2 DEF Publish, Goto
<1>3. ASSUME NEW u \in Users, Probe(u) PROVE GateInv'
  BY <1>3 DEF Probe, GateOpen
<1>4. ASSUME NEW u \in Users, Admit(u) PROVE GateInv'
  BY <1>4 DEF Admit, Goto
<1>5. ASSUME NEW u \in Users, Withdraw(u) PROVE GateInv'
  BY <1>5 DEF Withdraw, Goto, HoldersWith
<1>6. ASSUME NEW u \in Users, Launch(u) PROVE GateInv'
  BY <1>6 DEF Launch, Goto
<1>7. ASSUME NEW u \in Users, Close(u) PROVE GateInv'
  BY <1>7 DEF Close, Goto
<1>8. ASSUME NEW u \in Users, Drop(u) PROVE GateInv'
  BY <1>8 DEF Drop, Goto
<1>9. ASSUME NEW u \in Users, Unpublish(u) PROVE GateInv'
  BY <1>9 DEF Unpublish, Goto
<1>10. ASSUME NEW u \in Users, LeakLease(u) PROVE GateInv'
  BY <1>10 DEF LeakLease, Goto, HoldersWith
<1>11. ASSUME NEW m \in Mutators, Begin(m) PROVE GateInv'
  BY <1>11 DEF Begin, Goto
<1>12. ASSUME NEW m \in Mutators, TakeGate(m) PROVE GateInv'
  BY <1>12 DEF TakeGate, GateOpen
<1>13. ASSUME NEW m \in Mutators, FindBusy(m) PROVE GateInv'
  BY <1>13 DEF FindBusy, Goto, GateOpen
<1>14. ASSUME NEW m \in Mutators, QueueScan(m) PROVE GateInv'
  BY <1>14 DEF QueueScan, Goto
<1>15. ASSUME NEW m \in Mutators, ScanOwn(m) PROVE GateInv'
  BY <1>15 DEF ScanOwn, Goto
<1>16. ASSUME NEW m \in Mutators, ReadDir(m) PROVE GateInv'
  BY <1>16 DEF ReadDir, Goto
<1>17. ASSUME NEW m \in Mutators, PassLease(m) PROVE GateInv'
  BY <1>17 DEF PassLease
<1>18. ASSUME NEW m \in Mutators, Clear(m) PROVE GateInv'
  BY <1>18 DEF Clear, Goto
<1>19. ASSUME NEW m \in Mutators, RefuseMutation(m) PROVE GateInv'
  BY <1>19 DEF RefuseMutation, Goto
<1>20. ASSUME NEW m \in Mutators, Mutate(m) PROVE GateInv'
  BY <1>20 DEF Mutate, Goto
<1>21. ASSUME NEW m \in Mutators, FindOpen(m) PROVE GateInv'
  BY <1>21 DEF FindOpen, Goto
<1>22. ASSUME NEW m \in Mutators, Settle(m) PROVE GateInv'
  BY <1>22 DEF Settle, Goto
<1>23. ASSUME NEW m \in Mutators, ReleaseGate(m) PROVE GateInv'
  BY <1>23 DEF ReleaseGate, Goto, SetGate
<1>24. ASSUME NEW m \in Mutators, LeakGate(m) PROVE GateInv'
  BY <1>24 DEF LeakGate, Goto, SetGate
<1>c. ASSUME NEW b \in Backends, Crash(b) PROVE GateInv'
  <2> SUFFICES ASSUME NEW m \in Mutators, BackendOf[m] # b
               PROVE  \A w \in taken[m] : gate'[w] = m
    BY <1>c DEF Crash
  <2>1. \A w \in taken[m] : w \in Workspaces /\ gate[w] = m /\ m # b
    OBVIOUS
  <2> QED BY <1>c, <2>1 DEF Crash
<1> QED
  BY <1>s, <1>1, <1>2, <1>3, <1>4, <1>5, <1>6, <1>7, <1>8, <1>9, <1>10, <1>11, <1>12, <1>13, <1>14, <1>15, <1>16, <1>17, <1>18, <1>19, <1>20, <1>21, <1>22, <1>23, <1>24, <1>c DEF Next, UserStep, MutatorStep

\* Every step keeps whoever holds a transition lock at the head of its line.
LEMMA NextLockInv ==
  ASSUME Inv, [Next]_vars
  PROVE  LockInv'
<1> USE ParametersAssumption
<1>s. CASE UNCHANGED vars
  BY <1>s DEF vars, Inv, LockInv, TypeOK, LockedPcs, ScanningPcs, Least, Parties, files, inMemory, scan, bounds, AtHead
<1>1. ASSUME NEW u \in Users, Ask(u) PROVE LockInv'
  BY <1>1, EnqueueUpdate DEF Ask, Goto, Inv, LockInv, TypeOK, LockedPcs, ScanningPcs, Least, Parties, files, inMemory, scan, bounds
<1>2. ASSUME NEW u \in Users, Publish(u) PROVE LockInv'
  BY <1>2 DEF Publish, Goto, Inv, LockInv, TypeOK, LockedPcs, ScanningPcs, Least, Parties, files, inMemory, scan, bounds, AtHead
<1>3. ASSUME NEW u \in Users, Probe(u) PROVE LockInv'
  BY <1>3 DEF Probe, GateOpen, Inv, LockInv, TypeOK, LockedPcs, ScanningPcs, Least, Parties, files, inMemory, scan, bounds, AtHead
<1>4. ASSUME NEW u \in Users, Admit(u) PROVE LockInv'
  BY <1>4, DequeueUpdate DEF Admit, Goto, Inv, LockInv, TypeOK, LockedPcs, ScanningPcs, Least, Parties, files, inMemory, scan, bounds
<1>5. ASSUME NEW u \in Users, Withdraw(u) PROVE LockInv'
  BY <1>5, DequeueUpdate DEF Withdraw, Goto, HoldersWith, Inv, LockInv, TypeOK, LockedPcs, ScanningPcs, Least, Parties, files, inMemory, scan, bounds
<1>6. ASSUME NEW u \in Users, Launch(u) PROVE LockInv'
  BY <1>6 DEF Launch, Goto, Inv, LockInv, TypeOK, LockedPcs, ScanningPcs, Least, Parties, files, inMemory, scan, bounds, AtHead
<1>7. ASSUME NEW u \in Users, Close(u) PROVE LockInv'
  BY <1>7, EnqueueUpdate DEF Close, Goto, Inv, LockInv, TypeOK, LockedPcs, ScanningPcs, Least, Parties, files, inMemory, scan, bounds
<1>8. ASSUME NEW u \in Users, Drop(u) PROVE LockInv'
  <2>1. AtHead(u, PlaceOf[u]) /\ u \in Parties /\ PlaceOf[u] \in Workspaces
    BY <1>8, PlacesTyped DEF Drop, Parties
  <2>2. cleared' = cleared /\ \A y \in Parties \ {u} : pc'[y] = pc[y]
    BY <1>8 DEF Drop, Goto, scan, Inv, TypeOK
  <2>3. CASE line' = line
    <3>1. \A y \in Parties, v \in Workspaces : AtHead(y, v) => AtHead(y, v)'
      BY <2>3, HeadKept
    <3> QED BY <2>1, <2>2, <3>1, LockKept DEF Inv
  <2>4. CASE Dequeue(u, PlaceOf[u]) /\ pc'[u] = "idle"
    <3>1. \A y \in Parties \ {u}, v \in Workspaces : AtHead(y, v) => AtHead(y, v)'
      BY <2>1, <2>4, DequeueUpdate DEF Inv
    <3>2. pc'[u] \notin LockedPcs
      BY <2>4 DEF LockedPcs
    <3> QED BY <2>1, <2>2, <3>1, <3>2, LockKept DEF Inv
  <2>5. line' = line \/ (Dequeue(u, PlaceOf[u]) /\ pc'[u] = "idle")
    BY <1>8 DEF Drop, Goto, Inv, TypeOK, Parties
  <2> QED BY <2>3, <2>4, <2>5
<1>9. ASSUME NEW u \in Users, Unpublish(u) PROVE LockInv'
  BY <1>9, DequeueUpdate DEF Unpublish, Goto, Inv, LockInv, TypeOK, LockedPcs, ScanningPcs, Least, Parties, files, inMemory, scan, bounds
<1>10. ASSUME NEW u \in Users, LeakLease(u) PROVE LockInv'
  BY <1>10, DequeueUpdate DEF LeakLease, Goto, HoldersWith, Inv, LockInv, TypeOK, LockedPcs, ScanningPcs, Least, Parties, files, inMemory, scan, bounds
<1>11. ASSUME NEW m \in Mutators, Begin(m) PROVE LockInv'
  BY <1>11 DEF Begin, Goto, Inv, LockInv, TypeOK, LockedPcs, ScanningPcs, Least, Parties, files, inMemory, scan, bounds, AtHead
<1>12. ASSUME NEW m \in Mutators, TakeGate(m) PROVE LockInv'
  BY <1>12 DEF TakeGate, Inv, LockInv, TypeOK, LockedPcs, ScanningPcs, Least, Parties, files, inMemory, scan, bounds, AtHead
<1>13. ASSUME NEW m \in Mutators, FindBusy(m) PROVE LockInv'
  BY <1>13 DEF FindBusy, Goto, Inv, LockInv, TypeOK, LockedPcs, ScanningPcs, Least, Parties, files, inMemory, scan, bounds, AtHead
<1>14. ASSUME NEW m \in Mutators, QueueScan(m) PROVE LockInv'
  BY <1>14, EnqueueUpdate DEF QueueScan, Goto, Inv, LockInv, TypeOK, LockedPcs, ScanningPcs, Least, Parties, files, inMemory, scan, bounds
<1>15. ASSUME NEW m \in Mutators, ScanOwn(m) PROVE LockInv'
  <2>1. /\ line' = line /\ cleared' = cleared
        /\ \A y \in Parties \ {m} : pc'[y] = pc[y]
    BY <1>15 DEF ScanOwn, Goto, scan, inMemory, Inv, TypeOK
  <2>2. \A y \in Parties, v \in Workspaces : AtHead(y, v) => AtHead(y, v)'
    BY <2>1, HeadKept
  <2>3. PICK w \in Workspaces : Least(w, Claims[m] \ cleared[m]) /\ AtHead(m, w)
    BY <1>15 DEF ScanOwn
  <2>4. \A v \in Workspaces : Least(v, Claims[m] \ cleared[m]) => AtHead(m, v)
    BY <2>3, LeastIsUnique
  <2>5. m \in Parties
    BY DEF Parties
  <2> QED BY <2>1, <2>2, <2>4, <2>5, LockKept DEF Inv
<1>16. ASSUME NEW m \in Mutators, ReadDir(m) PROVE LockInv'
  BY <1>16 DEF ReadDir, Goto, Inv, LockInv, TypeOK, LockedPcs, ScanningPcs, Least, Parties, files, inMemory, scan, bounds, AtHead
<1>17. ASSUME NEW m \in Mutators, PassLease(m) PROVE LockInv'
  BY <1>17 DEF PassLease, Inv, LockInv, TypeOK, LockedPcs, ScanningPcs, Least, Parties, files, inMemory, scan, bounds, AtHead
<1>18. ASSUME NEW m \in Mutators, Clear(m) PROVE LockInv'
  <2>1. PICK w \in Workspaces : Least(w, Claims[m] \ cleared[m]) /\ Dequeue(m, w)
    BY <1>18 DEF Clear
  <2>2. AtHead(m, w)
    BY <1>18, <2>1 DEF Clear, Goto, Inv, LockInv, ScanningPcs
  <2>3. \A y \in Parties \ {m}, v \in Workspaces : AtHead(y, v) => AtHead(y, v)'
    BY <2>1, <2>2, DequeueUpdate DEF Inv, Parties
  <2>4. /\ pc'[m] \notin ScanningPcs /\ \A y \in Parties \ {m} : pc'[y] = pc[y]
        /\ \A n \in Mutators \ {m} : cleared'[n] = cleared[n]
    BY <1>18 DEF Clear, Goto, ScanningPcs, Inv, TypeOK, Parties
  <2> QED BY <2>3, <2>4, LockKept DEF Inv, Parties
<1>19. ASSUME NEW m \in Mutators, RefuseMutation(m) PROVE LockInv'
  <2>1. PICK w \in Workspaces : Least(w, Claims[m] \ cleared[m]) /\ Dequeue(m, w)
                                   /\ (AtHead(m, w) \/ pc[m] \in ScanningPcs)
    BY <1>19 DEF RefuseMutation, ScanningPcs
  <2>2. AtHead(m, w)
    BY <2>1 DEF Inv, LockInv
  <2>3. \A y \in Parties \ {m}, v \in Workspaces : AtHead(y, v) => AtHead(y, v)'
    BY <2>1, <2>2, DequeueUpdate DEF Inv, Parties
  <2>4. /\ pc'[m] \notin ScanningPcs /\ \A y \in Parties \ {m} : pc'[y] = pc[y]
        /\ \A n \in Mutators \ {m} : cleared'[n] = cleared[n]
    BY <1>19 DEF RefuseMutation, Goto, ScanningPcs, Inv, TypeOK, Parties
  <2> QED BY <2>3, <2>4, LockKept DEF Inv, Parties
<1>20. ASSUME NEW m \in Mutators, Mutate(m) PROVE LockInv'
  BY <1>20 DEF Mutate, Goto, Inv, LockInv, TypeOK, LockedPcs, ScanningPcs, Least, Parties, files, inMemory, scan, bounds, AtHead
<1>21. ASSUME NEW m \in Mutators, FindOpen(m) PROVE LockInv'
  BY <1>21 DEF FindOpen, Goto, Inv, LockInv, TypeOK, LockedPcs, ScanningPcs, Least, Parties, files, inMemory, scan, bounds, AtHead
<1>22. ASSUME NEW m \in Mutators, Settle(m) PROVE LockInv'
  BY <1>22 DEF Settle, Goto, Inv, LockInv, TypeOK, LockedPcs, ScanningPcs, Least, Parties, files, inMemory, scan, bounds, AtHead
<1>23. ASSUME NEW m \in Mutators, ReleaseGate(m) PROVE LockInv'
  BY <1>23 DEF ReleaseGate, Goto, SetGate, Inv, LockInv, TypeOK, LockedPcs, ScanningPcs, Least, Parties, files, inMemory, scan, bounds, AtHead
<1>24. ASSUME NEW m \in Mutators, LeakGate(m) PROVE LockInv'
  BY <1>24 DEF LeakGate, Goto, SetGate, Inv, LockInv, TypeOK, LockedPcs, ScanningPcs, Least, Parties, files, inMemory, scan, bounds, AtHead
<1>c. ASSUME NEW b \in Backends, Crash(b) PROVE LockInv'
  BY <1>c DEF Crash, Inv, LockInv, TypeOK, LockedPcs, ScanningPcs, Least, Parties, files, inMemory, scan, bounds, AtHead
<1> QED
  BY <1>s, <1>1, <1>2, <1>3, <1>4, <1>5, <1>6, <1>7, <1>8, <1>9, <1>10, <1>11, <1>12, <1>13, <1>14, <1>15, <1>16, <1>17, <1>18, <1>19, <1>20, <1>21, <1>22, <1>23, <1>24, <1>c DEF Next, UserStep, MutatorStep

\* Every step keeps the counted uses published.
LEMMA NextPublishedInv ==
  ASSUME Inv, [Next]_vars
  PROVE  PublishedInv'
<1> USE ParametersAssumption
<1> USE DEF Inv, PublishedInv, TypeOK, Counted, Parties, files, inMemory, scan, bounds
<1>s. CASE UNCHANGED vars
  BY <1>s DEF vars, HoldersWith, LeaseOf
<1>1. ASSUME NEW u \in Users, Ask(u) PROVE PublishedInv'
  BY <1>1 DEF Ask, Goto, HoldersWith, LeaseOf
<1>2. ASSUME NEW u \in Users, Publish(u) PROVE PublishedInv'
  <2>1. \A v \in Users : LeaseOf(v)' = IF SameLease(u, v) THEN "held" ELSE LeaseOf(v)
    BY <1>2, LeaseUpdate DEF Publish
  <2>2. \A v \in Users : HoldersWith(v)' = HoldersWith(v)
    BY <1>2 DEF Publish, HoldersWith
  <2>3. LeaseOf(u)' = "held"
    BY <2>1 DEF SameLease
  <2> QED BY <1>2, <2>1, <2>2, <2>3 DEF Publish, Goto
<1>3. ASSUME NEW u \in Users, Probe(u) PROVE PublishedInv'
  BY <1>3 DEF Probe, GateOpen, HoldersWith, LeaseOf
<1>4. ASSUME NEW u \in Users, Admit(u) PROVE PublishedInv'
  <2>1. \A v \in Users : LeaseOf(v)' = LeaseOf(v)
    BY <1>4 DEF Admit, LeaseOf
  <2>2. \A v \in Users : v \in HoldersWith(v)' => v \in HoldersWith(v) \/ v = u
    BY <1>4, AdmitUpdate
  <2> QED BY <1>4, <2>1, <2>2 DEF Admit, Goto
<1>5. ASSUME NEW u \in Users, Withdraw(u) PROVE PublishedInv'
  <2>1. \A v \in Users : HoldersWith(v)' = HoldersWith(v)
    BY <1>5 DEF Withdraw, HoldersWith
  <2>2. CASE HoldersWith(u) # {}
    <3>1. \A v \in Users : LeaseOf(v)' = LeaseOf(v)
      BY <1>5, <2>2 DEF Withdraw, LeaseOf
    <3> QED BY <1>5, <2>1, <3>1 DEF Withdraw, Goto
  <2>3. CASE HoldersWith(u) = {}
    <3>1. \A v \in Users : ~SameLease(u, v) => LeaseOf(v)' = LeaseOf(v)
      BY <1>5, <2>3, LeaseUpdate DEF Withdraw
    <3>2. \A v \in Users \ {u} : SameLease(u, v) => pc[v] \notin LockedPcs /\ HoldersWith(v) = {}
      BY <1>5, <2>3, SharedLease DEF Withdraw, Goto, LockedPcs
    <3> QED BY <1>5, <2>1, <2>3, <3>1, <3>2 DEF Withdraw, Goto, LockedPcs
  <2> QED BY <2>2, <2>3
<1>6. ASSUME NEW u \in Users, Launch(u) PROVE PublishedInv'
  BY <1>6 DEF Launch, Goto, HoldersWith, LeaseOf
<1>7. ASSUME NEW u \in Users, Close(u) PROVE PublishedInv'
  BY <1>7 DEF Close, Goto, HoldersWith, LeaseOf
<1>8. ASSUME NEW u \in Users, Drop(u) PROVE PublishedInv'
  <2>1. \A v \in Users : LeaseOf(v)' = LeaseOf(v)
    BY <1>8 DEF Drop, LeaseOf
  <2>2. \A v \in Users : v \in HoldersWith(v)' => v \in HoldersWith(v)
    BY <1>8, DropUpdate
  <2> QED BY <1>8, <2>1, <2>2 DEF Drop, Goto
<1>9. ASSUME NEW u \in Users, Unpublish(u) PROVE PublishedInv'
  <2>1. \A v \in Users : HoldersWith(v)' = HoldersWith(v)
    BY <1>9 DEF Unpublish, HoldersWith
  <2>2. HoldersWith(u) = {} /\ pc[u] \in LockedPcs
    BY <1>9 DEF Unpublish, Goto, HeldInv, LockedPcs
  <2>3. \A v \in Users : ~SameLease(u, v) => LeaseOf(v)' = LeaseOf(v)
    BY <1>9, LeaseUpdate DEF Unpublish
  <2>4. \A v \in Users \ {u} : SameLease(u, v) => pc[v] \notin LockedPcs /\ HoldersWith(v) = {}
    BY <2>2, SharedLease
  <2> QED BY <1>9, <2>1, <2>2, <2>3, <2>4 DEF Unpublish, Goto, LockedPcs
<1>10. ASSUME NEW u \in Users, LeakLease(u) PROVE PublishedInv'
  <2>1. \A v \in Users : HoldersWith(v)' = HoldersWith(v)
    BY <1>10 DEF LeakLease, HoldersWith
  <2>2. HoldersWith(u) = {} /\ pc[u] \in LockedPcs
    BY <1>10 DEF LeakLease, Goto, HeldInv, LockedPcs
  <2>3. \A v \in Users : ~SameLease(u, v) => LeaseOf(v)' = LeaseOf(v)
    BY <1>10, LeaseUpdate DEF LeakLease
  <2>4. \A v \in Users \ {u} : SameLease(u, v) => pc[v] \notin LockedPcs /\ HoldersWith(v) = {}
    BY <2>2, SharedLease
  <2> QED BY <1>10, <2>1, <2>2, <2>3, <2>4 DEF LeakLease, Goto, LockedPcs
<1>11. ASSUME NEW m \in Mutators, Begin(m) PROVE PublishedInv'
  BY <1>11 DEF Begin, Goto, HoldersWith, LeaseOf
<1>12. ASSUME NEW m \in Mutators, TakeGate(m) PROVE PublishedInv'
  BY <1>12 DEF TakeGate, HoldersWith, LeaseOf
<1>13. ASSUME NEW m \in Mutators, FindBusy(m) PROVE PublishedInv'
  BY <1>13 DEF FindBusy, Goto, HoldersWith, LeaseOf
<1>14. ASSUME NEW m \in Mutators, QueueScan(m) PROVE PublishedInv'
  BY <1>14 DEF QueueScan, Goto, HoldersWith, LeaseOf
<1>15. ASSUME NEW m \in Mutators, ScanOwn(m) PROVE PublishedInv'
  BY <1>15 DEF ScanOwn, Goto, HoldersWith, LeaseOf
<1>16. ASSUME NEW m \in Mutators, ReadDir(m) PROVE PublishedInv'
  BY <1>16 DEF ReadDir, Goto, HoldersWith, LeaseOf
<1>17. ASSUME NEW m \in Mutators, PassLease(m) PROVE PublishedInv'
  BY <1>17 DEF PassLease, HoldersWith, LeaseOf
<1>18. ASSUME NEW m \in Mutators, Clear(m) PROVE PublishedInv'
  BY <1>18 DEF Clear, Goto, HoldersWith, LeaseOf
<1>19. ASSUME NEW m \in Mutators, RefuseMutation(m) PROVE PublishedInv'
  BY <1>19 DEF RefuseMutation, Goto, HoldersWith, LeaseOf
<1>20. ASSUME NEW m \in Mutators, Mutate(m) PROVE PublishedInv'
  BY <1>20 DEF Mutate, Goto, HoldersWith, LeaseOf
<1>21. ASSUME NEW m \in Mutators, FindOpen(m) PROVE PublishedInv'
  BY <1>21 DEF FindOpen, Goto, HoldersWith, LeaseOf
<1>22. ASSUME NEW m \in Mutators, Settle(m) PROVE PublishedInv'
  BY <1>22 DEF Settle, Goto, HoldersWith, LeaseOf
<1>23. ASSUME NEW m \in Mutators, ReleaseGate(m) PROVE PublishedInv'
  BY <1>23 DEF ReleaseGate, Goto, SetGate, HoldersWith, LeaseOf
<1>24. ASSUME NEW m \in Mutators, LeakGate(m) PROVE PublishedInv'
  BY <1>24 DEF LeakGate, Goto, SetGate, HoldersWith, LeaseOf
<1>c. ASSUME NEW b \in Backends, Crash(b) PROVE PublishedInv'
  BY <1>c DEF Crash, HoldersWith, LeaseOf
<1> QED
  BY <1>s, <1>1, <1>2, <1>3, <1>4, <1>5, <1>6, <1>7, <1>8, <1>9, <1>10, <1>11, <1>12, <1>13, <1>14, <1>15, <1>16, <1>17, <1>18, <1>19, <1>20, <1>21, <1>22, <1>23, <1>24, <1>c DEF Next, UserStep, MutatorStep

\* Every step keeps what the scans have established.
LEMMA NextScanInv ==
  ASSUME Inv, [Next]_vars
  PROVE  ScanInv'
<1> USE ParametersAssumption
<1>s. CASE UNCHANGED vars
  BY <1>s DEF vars, HoldersWith, Counted, Inv, ScanInv, TypeOK, ScanningPcs, Tolerates, GateInv, Least, Parties, files, inMemory, scan, bounds
<1>1. ASSUME NEW u \in Users, Ask(u) PROVE ScanInv'
  BY <1>1 DEF Ask, Goto, HoldersWith, Counted, Inv, ScanInv, TypeOK, ScanningPcs, Tolerates, GateInv, Least, Parties, files, inMemory, scan, bounds
<1>2. ASSUME NEW u \in Users, Publish(u) PROVE ScanInv'
  BY <1>2 DEF Publish, Goto, HoldersWith, Counted, Inv, ScanInv, TypeOK, ScanningPcs, Tolerates, GateInv, Least, Parties, files, inMemory, scan, bounds
<1>3. ASSUME NEW u \in Users, Probe(u) PROVE ScanInv'
  <2>1. \A v \in Users : HoldersWith(v)' = HoldersWith(v)
    BY <1>3 DEF Probe, HoldersWith, inMemory
  <2>2. \A n \in Mutators : PlaceOf[u] \in taken[n] => pc'[u] = "refused"
    <3>1. \A n \in Mutators : PlaceOf[u] \in taken[n] => gate[PlaceOf[u]] = n
      BY DEF Inv, GateInv
    <3>2. \A n \in Mutators : n # NoOne /\ n # BackendOf[u]
      BY PlacesTyped
    <3>3. \A n \in Mutators : PlaceOf[u] \in taken[n] => ~GateOpen(BackendOf[u], PlaceOf[u])
      BY <3>1, <3>2 DEF GateOpen
    <3> QED BY <1>3, <3>3 DEF Probe, Inv, TypeOK, Parties
  <2>3. \A n \in Mutators :
          PlaceOf[u] \in cleared[n] \/ (pc[n] = "inspecting" /\ PlaceOf[u] \in Claims[n]) => PlaceOf[u] \in taken[n]
    BY DEF Inv, GateInv
  <2>4. \A x \in Parties \ {u} : pc'[x] = pc[x]
    BY <1>3 DEF Probe, Inv, TypeOK
  <2>5. UNCHANGED <<cleared, seen>>
    BY <1>3 DEF Probe, scan
  <2>6. ASSUME NEW n \in Mutators PROVE pc'[n] = pc[n]
    BY <2>4 DEF Parties
  <2>7. ASSUME NEW n \in Mutators, NEW v \in Users,
               PlaceOf[v] \in cleared[n] \/ (pc[n] = "inspecting" /\ PlaceOf[v] \in Claims[n])
        PROVE  pc'[v] = "admitted" => pc[v] = "admitted"
    <3>1. CASE v = u
      BY <2>2, <2>3, <2>7, <3>1
    <3>2. CASE v # u
      BY <2>4, <3>2 DEF Parties
    <3> QED BY <3>1, <3>2
  <2> QED BY <2>1, <2>5, <2>6, <2>7 DEF Inv, ScanInv, Counted, Tolerates, Least, ScanningPcs
<1>4. ASSUME NEW u \in Users, Admit(u) PROVE ScanInv'
  <2>1. \A v \in Users : Counted(v)' <=> Counted(v) \/ v = u
    BY <1>4, AdmitUpdate DEF Inv
  <2>2. \A n \in Mutators : PlaceOf[u] \notin cleared[n]
    BY <1>4 DEF Admit, Goto, Inv, ScanInv
  <2>3. AtHead(u, PlaceOf[u])
    BY <1>4 DEF Admit, Goto, Inv, LockInv, LockedPcs
  <2>4. ASSUME NEW n \in Mutators, BackendOf[u] = BackendOf[n], pc[n] \in ScanningPcs,
               Least(PlaceOf[u], Claims[n] \ cleared[n])
        PROVE  FALSE
    <3>1. AtHead(n, PlaceOf[u])
      BY <2>4, PlacesTyped DEF Inv, LockInv
    <3>2. u = n
      BY <2>3, <2>4, <3>1, HeadIsUnique
    <3> QED BY <3>2
  <2>5. UNCHANGED <<cleared, seen>> /\ \A x \in Parties \ {u} : pc'[x] = pc[x]
    BY <1>4 DEF Admit, Goto, scan, Inv, TypeOK
  <2>6. pc[u] = "admitted" /\ pc'[u] # "admitted"
    BY <1>4 DEF Admit, Goto, Inv, TypeOK, Parties
  <2> QED BY <2>1, <2>2, <2>4, <2>5, <2>6 DEF Inv, ScanInv, Tolerates, Least, ScanningPcs, Parties
<1>5. ASSUME NEW u \in Users, Withdraw(u) PROVE ScanInv'
  BY <1>5 DEF Withdraw, Goto, HoldersWith, HoldersWith, Counted, Inv, ScanInv, TypeOK, ScanningPcs, Tolerates, GateInv, Least, Parties, files, inMemory, scan, bounds
<1>6. ASSUME NEW u \in Users, Launch(u) PROVE ScanInv'
  BY <1>6 DEF Launch, Goto, HoldersWith, Counted, Inv, ScanInv, TypeOK, ScanningPcs, Tolerates, GateInv, Least, Parties, files, inMemory, scan, bounds
<1>7. ASSUME NEW u \in Users, Close(u) PROVE ScanInv'
  BY <1>7 DEF Close, Goto, HoldersWith, Counted, Inv, ScanInv, TypeOK, ScanningPcs, Tolerates, GateInv, Least, Parties, files, inMemory, scan, bounds
<1>8. ASSUME NEW u \in Users, Drop(u) PROVE ScanInv'
  <2>1. \A v \in Users : Counted(v)' => Counted(v)
    BY <1>8, DropUpdate DEF Inv
  <2>2. UNCHANGED <<cleared, seen>> /\ \A x \in Parties \ {u} : pc'[x] = pc[x]
    BY <1>8 DEF Drop, Goto, scan, Inv, TypeOK
  <2>3. pc'[u] # "admitted"
    BY <1>8 DEF Drop, Goto, Inv, TypeOK, Parties
  <2>4. ASSUME NEW n \in Mutators PROVE pc'[n] = pc[n]
    BY <2>2 DEF Parties
  <2>5. ASSUME NEW v \in Users PROVE pc'[v] = "admitted" => pc[v] = "admitted"
    BY <2>2, <2>3 DEF Parties
  <2>6. UNCHANGED <<cleared, seen>>
    BY <2>2
  <2> SUFFICES ASSUME NEW n \in Mutators, NEW v \in Users
               PROVE  /\ PlaceOf[v] \in cleared[n] =>
                           pc'[v] # "admitted" /\ (Counted(v)' => Tolerates(n, v))
                      /\ pc[n] \in ScanningPcs /\ Least(PlaceOf[v], Claims[n] \ cleared[n])
                           /\ BackendOf[v] = BackendOf[n] /\ Counted(v)' => Tolerates(n, v)
                      /\ pc[n] = "inspecting" /\ Least(PlaceOf[v], Claims[n] \ cleared[n])
                           /\ BackendOf[v] # BackendOf[n] /\ (Counted(v)' \/ pc'[v] = "admitted")
                           => <<BackendOf[v], KindOf[v]>> \in seen[n]
    BY <2>4, <2>6 DEF ScanInv, Tolerates, Least, ScanningPcs
  <2> QED BY <2>1, <2>5 DEF Inv, ScanInv
<1>9. ASSUME NEW u \in Users, Unpublish(u) PROVE ScanInv'
  BY <1>9 DEF Unpublish, Goto, HoldersWith, Counted, Inv, ScanInv, TypeOK, ScanningPcs, Tolerates, GateInv, Least, Parties, files, inMemory, scan, bounds
<1>10. ASSUME NEW u \in Users, LeakLease(u) PROVE ScanInv'
  BY <1>10 DEF LeakLease, Goto, HoldersWith, HoldersWith, Counted, Inv, ScanInv, TypeOK, ScanningPcs, Tolerates, GateInv, Least, Parties, files, inMemory, scan, bounds
<1>11. ASSUME NEW m \in Mutators, Begin(m) PROVE ScanInv'
  BY <1>11 DEF Begin, Goto, HoldersWith, Counted, Inv, ScanInv, TypeOK, ScanningPcs, Tolerates, GateInv, Least, Parties, files, inMemory, scan, bounds
<1>12. ASSUME NEW m \in Mutators, TakeGate(m) PROVE ScanInv'
  BY <1>12 DEF TakeGate, HoldersWith, Counted, Inv, ScanInv, TypeOK, ScanningPcs, Tolerates, GateInv, Least, Parties, files, inMemory, scan, bounds
<1>13. ASSUME NEW m \in Mutators, FindBusy(m) PROVE ScanInv'
  BY <1>13 DEF FindBusy, Goto, HoldersWith, Counted, Inv, ScanInv, TypeOK, ScanningPcs, Tolerates, GateInv, Least, Parties, files, inMemory, scan, bounds
<1>14. ASSUME NEW m \in Mutators, QueueScan(m) PROVE ScanInv'
  BY <1>14 DEF QueueScan, Goto, HoldersWith, Counted, Inv, ScanInv, TypeOK, ScanningPcs, Tolerates, GateInv, Least, Parties, files, inMemory, scan, bounds
<1>15. ASSUME NEW m \in Mutators, ScanOwn(m) PROVE ScanInv'
  <2>1. \A v \in Users : HoldersWith(v)' = HoldersWith(v)
    BY <1>15 DEF ScanOwn, HoldersWith, inMemory
  <2>2. ASSUME NEW v \in Users, Least(PlaceOf[v], Claims[m] \ cleared[m]),
               BackendOf[v] = BackendOf[m], v \in HoldersWith(v)
        PROVE  KindOf[v] \in Ignored[m][PlaceOf[v]]
    <3>1. PICK w \in Workspaces : Least(w, Claims[m] \ cleared[m]) /\ ~OwnUse(m, w)
      BY <1>15 DEF ScanOwn
    <3>2. w = PlaceOf[v]
      BY <2>2, <3>1, PlacesTyped, LeastIsUnique
    <3> QED BY <2>2, <3>1, <3>2, PlacesTyped DEF OwnUse, HoldersWith
  <2>3. UNCHANGED <<cleared, seen>> /\ \A x \in Parties \ {m} : pc'[x] = pc[x]
    BY <1>15 DEF ScanOwn, Goto, scan, Inv, TypeOK
  <2>4. pc'[m] = "listing"
    BY <1>15 DEF ScanOwn, Goto, Inv, TypeOK, Parties
  <2> QED BY <2>1, <2>2, <2>3, <2>4 DEF Inv, ScanInv, Counted, Tolerates, ScanningPcs, Parties, Least
<1>16. ASSUME NEW m \in Mutators, ReadDir(m) PROVE ScanInv'
  <2>1. \A v \in Users : HoldersWith(v)' = HoldersWith(v)
    BY <1>16 DEF ReadDir, HoldersWith, inMemory
  <2>2. ASSUME NEW v \in Users, Least(PlaceOf[v], Claims[m] \ cleared[m]),
               BackendOf[v] # BackendOf[m], v \in HoldersWith(v) \/ pc[v] = "admitted"
        PROVE  <<BackendOf[v], KindOf[v]>> \in seen'[m]
    <3>1. lease[BackendOf[v]][PlaceOf[v]][KindOf[v]] = "held"
      BY <2>2 DEF Inv, PublishedInv, LeaseOf, Counted
    <3>2. PICK w \in Workspaces : Least(w, Claims[m] \ cleared[m]) /\ seen'[m] = ForeignLeases(m, w)
      BY <1>16 DEF ReadDir, Inv, TypeOK
    <3>3. w = PlaceOf[v]
      BY <2>2, <3>2, PlacesTyped, LeastIsUnique
    <3> QED BY <2>2, <3>1, <3>2, <3>3, PlacesTyped DEF ForeignLeases
  <2>3. /\ UNCHANGED cleared /\ \A x \in Parties \ {m} : pc'[x] = pc[x]
        /\ \A n \in Mutators \ {m} : seen'[n] = seen[n]
    BY <1>16 DEF ReadDir, Goto, Inv, TypeOK
  <2>4. pc[m] = "listing" /\ pc'[m] = "inspecting"
    BY <1>16 DEF ReadDir, Goto, Inv, TypeOK, Parties
  <2> QED BY <2>1, <2>2, <2>3, <2>4 DEF Inv, ScanInv, Counted, Tolerates, ScanningPcs, Parties, Least
<1>17. ASSUME NEW m \in Mutators, PassLease(m) PROVE ScanInv'
  <2>1. \A v \in Users : HoldersWith(v)' = HoldersWith(v)
    BY <1>17 DEF PassLease, HoldersWith, inMemory
  <2>2. PICK w \in Workspaces, f \in seen[m] :
          /\ Least(w, Claims[m] \ cleared[m])
          /\ lease[f[1]][w][f[2]] = "absent"
          /\ seen' = [seen EXCEPT ![m] = @ \ {f}]
    BY <1>17 DEF PassLease
  <2>3. ASSUME NEW v \in Users, Least(PlaceOf[v], Claims[m] \ cleared[m]),
               v \in HoldersWith(v) \/ pc[v] = "admitted"
        PROVE  f # <<BackendOf[v], KindOf[v]>>
    <3>1. lease[BackendOf[v]][PlaceOf[v]][KindOf[v]] = "held"
      BY <2>3 DEF Inv, PublishedInv, LeaseOf, Counted
    <3>2. PlaceOf[v] = w
      BY <2>2, <2>3, PlacesTyped, LeastIsUnique
    <3> QED BY <2>2, <3>1, <3>2
  <2>4. UNCHANGED <<cleared, pc>>
    BY <1>17 DEF PassLease
  <2> QED BY <2>1, <2>2, <2>3, <2>4 DEF Inv, TypeOK, ScanInv, Counted, Tolerates, ScanningPcs, Parties, Least
<1>18. ASSUME NEW m \in Mutators, Clear(m) PROVE ScanInv'
  <2>1. \A v \in Users : HoldersWith(v)' = HoldersWith(v)
    BY <1>18 DEF Clear, HoldersWith
  <2>2. PICK w \in Workspaces :
          /\ Least(w, Claims[m] \ cleared[m])
          /\ cleared' = [cleared EXCEPT ![m] = @ \union {w}]
    BY <1>18 DEF Clear
  <2>3. AtHead(m, w) /\ pc[m] = "inspecting" /\ seen[m] = {}
    BY <1>18, <2>2 DEF Clear, Goto, Inv, LockInv, ScanningPcs
  <2>4. ASSUME NEW v \in Users, PlaceOf[v] = w
        PROVE  pc[v] # "admitted" /\ (Counted(v) => Tolerates(m, v))
    <3>1. CASE BackendOf[v] = BackendOf[m]
      <4>1. pc[v] # "admitted"
        <5>1. pc[v] = "admitted" => AtHead(v, w)
          BY <2>4 DEF Inv, LockInv, LockedPcs
        <5> QED BY <2>3, <3>1, <5>1, HeadIsUnique
      <4> QED BY <2>2, <2>3, <2>4, <3>1, <4>1 DEF Inv, ScanInv, ScanningPcs
    <3>2. CASE BackendOf[v] # BackendOf[m]
      BY <2>2, <2>3, <2>4, <3>2 DEF Inv, ScanInv
    <3> QED BY <3>1, <3>2
  <2>5. /\ pc'[m] \notin ScanningPcs /\ \A x \in Parties \ {m} : pc'[x] = pc[x]
        /\ seen' = seen
    BY <1>18 DEF Clear, Goto, ScanningPcs, Inv, TypeOK, Parties
  <2>6. \A v \in Users : pc'[v] = pc[v]
    BY <2>5 DEF Parties
  <2>7. /\ cleared'[m] = cleared[m] \union {w}
        /\ \A n \in Mutators \ {m} : cleared'[n] = cleared[n]
    BY <2>2 DEF Inv, TypeOK
  <2>8. ASSUME NEW n \in Mutators, n # m PROVE pc'[n] = pc[n] /\ cleared'[n] = cleared[n] /\ seen'[n] = seen[n]
    BY <2>5, <2>7, <2>8 DEF Parties
  <2> QED BY <2>1, <2>4, <2>5, <2>6, <2>7, <2>8 DEF Inv, ScanInv, Counted, Tolerates, ScanningPcs, Least
<1>19. ASSUME NEW m \in Mutators, RefuseMutation(m) PROVE ScanInv'
  BY <1>19 DEF RefuseMutation, Goto, HoldersWith, Counted, Inv, ScanInv, TypeOK, ScanningPcs, Tolerates, GateInv, Least, Parties, files, inMemory, scan, bounds
<1>20. ASSUME NEW m \in Mutators, Mutate(m) PROVE ScanInv'
  BY <1>20 DEF Mutate, Goto, HoldersWith, Counted, Inv, ScanInv, TypeOK, ScanningPcs, Tolerates, GateInv, Least, Parties, files, inMemory, scan, bounds
<1>21. ASSUME NEW m \in Mutators, FindOpen(m) PROVE ScanInv'
  BY <1>21 DEF FindOpen, Goto, HoldersWith, Counted, Inv, ScanInv, TypeOK, ScanningPcs, Tolerates, GateInv, Least, Parties, files, inMemory, scan, bounds
<1>22. ASSUME NEW m \in Mutators, Settle(m) PROVE ScanInv'
  BY <1>22 DEF Settle, Goto, HoldersWith, Counted, Inv, ScanInv, TypeOK, ScanningPcs, Tolerates, GateInv, Least, Parties, files, inMemory, scan, bounds
<1>23. ASSUME NEW m \in Mutators, ReleaseGate(m) PROVE ScanInv'
  BY <1>23 DEF ReleaseGate, Goto, SetGate, HoldersWith, Counted, Inv, ScanInv, TypeOK, ScanningPcs, Tolerates, GateInv, Least, Parties, files, inMemory, scan, bounds
<1>24. ASSUME NEW m \in Mutators, LeakGate(m) PROVE ScanInv'
  BY <1>24 DEF LeakGate, Goto, SetGate, HoldersWith, Counted, Inv, ScanInv, TypeOK, ScanningPcs, Tolerates, GateInv, Least, Parties, files, inMemory, scan, bounds
<1>c. ASSUME NEW b \in Backends, Crash(b) PROVE ScanInv'
  BY <1>c DEF Crash, HoldersWith, Counted, Inv, ScanInv, TypeOK, ScanningPcs, Tolerates, GateInv, Least, Parties, files, inMemory, scan, bounds
<1> QED
  BY <1>s, <1>1, <1>2, <1>3, <1>4, <1>5, <1>6, <1>7, <1>8, <1>9, <1>10, <1>11, <1>12, <1>13, <1>14, <1>15, <1>16, <1>17, <1>18, <1>19, <1>20, <1>21, <1>22, <1>23, <1>24, <1>c DEF Next, UserStep, MutatorStep

\* No step puts an open under a mutation.
LEMMA NextOpenInv ==
  ASSUME Inv, [Next]_vars
  PROVE  OpenInv'
<1> USE ParametersAssumption
<1>s. CASE UNCHANGED vars
  BY <1>s DEF vars, Inv, OpenInv, TypeOK, Mutating, GateInv, Parties
<1>1. ASSUME NEW u \in Users, Ask(u) PROVE OpenInv'
  BY <1>1 DEF Ask, Goto, Inv, OpenInv, TypeOK, Mutating, GateInv, Parties
<1>2. ASSUME NEW u \in Users, Publish(u) PROVE OpenInv'
  BY <1>2 DEF Publish, Goto, Inv, OpenInv, TypeOK, Mutating, GateInv, Parties
<1>3. ASSUME NEW u \in Users, Probe(u) PROVE OpenInv'
  BY <1>3 DEF Probe, GateOpen, Inv, OpenInv, TypeOK, Mutating, GateInv, Parties
<1>4. ASSUME NEW u \in Users, Admit(u) PROVE OpenInv'
  <2>1. pc[u] = "admitted" /\ \A x \in Parties \ {u} : pc'[x] = pc[x]
    BY <1>4 DEF Admit, Goto, Inv, TypeOK
  <2>2. \A n \in Mutators : Mutating(n) => PlaceOf[u] \notin Claims[n]
    BY <2>1 DEF Inv, ScanInv, GateInv, Mutating
  <2> QED BY <2>1, <2>2 DEF Inv, OpenInv, Mutating, Parties
<1>5. ASSUME NEW u \in Users, Withdraw(u) PROVE OpenInv'
  BY <1>5 DEF Withdraw, Goto, HoldersWith, Inv, OpenInv, TypeOK, Mutating, GateInv, Parties
<1>6. ASSUME NEW u \in Users, Launch(u) PROVE OpenInv'
  BY <1>6 DEF Launch, Goto, Inv, OpenInv, TypeOK, Mutating, GateInv, Parties
<1>7. ASSUME NEW u \in Users, Close(u) PROVE OpenInv'
  BY <1>7 DEF Close, Goto, Inv, OpenInv, TypeOK, Mutating, GateInv, Parties
<1>8. ASSUME NEW u \in Users, Drop(u) PROVE OpenInv'
  <2>1. pc'[u] # "opening" /\ \A x \in Parties \ {u} : pc'[x] = pc[x]
    BY <1>8 DEF Drop, Goto, Inv, TypeOK, Parties
  <2> QED BY <2>1 DEF Inv, OpenInv, Mutating, Parties
<1>9. ASSUME NEW u \in Users, Unpublish(u) PROVE OpenInv'
  BY <1>9 DEF Unpublish, Goto, Inv, OpenInv, TypeOK, Mutating, GateInv, Parties
<1>10. ASSUME NEW u \in Users, LeakLease(u) PROVE OpenInv'
  BY <1>10 DEF LeakLease, Goto, HoldersWith, Inv, OpenInv, TypeOK, Mutating, GateInv, Parties
<1>11. ASSUME NEW m \in Mutators, Begin(m) PROVE OpenInv'
  BY <1>11 DEF Begin, Goto, Inv, OpenInv, TypeOK, Mutating, GateInv, Parties
<1>12. ASSUME NEW m \in Mutators, TakeGate(m) PROVE OpenInv'
  BY <1>12 DEF TakeGate, Inv, OpenInv, TypeOK, Mutating, GateInv, Parties
<1>13. ASSUME NEW m \in Mutators, FindBusy(m) PROVE OpenInv'
  BY <1>13 DEF FindBusy, Goto, Inv, OpenInv, TypeOK, Mutating, GateInv, Parties
<1>14. ASSUME NEW m \in Mutators, QueueScan(m) PROVE OpenInv'
  BY <1>14 DEF QueueScan, Goto, Inv, OpenInv, TypeOK, Mutating, GateInv, Parties
<1>15. ASSUME NEW m \in Mutators, ScanOwn(m) PROVE OpenInv'
  BY <1>15 DEF ScanOwn, Goto, Inv, OpenInv, TypeOK, Mutating, GateInv, Parties
<1>16. ASSUME NEW m \in Mutators, ReadDir(m) PROVE OpenInv'
  BY <1>16 DEF ReadDir, Goto, Inv, OpenInv, TypeOK, Mutating, GateInv, Parties
<1>17. ASSUME NEW m \in Mutators, PassLease(m) PROVE OpenInv'
  BY <1>17 DEF PassLease, Inv, OpenInv, TypeOK, Mutating, GateInv, Parties
<1>18. ASSUME NEW m \in Mutators, Clear(m) PROVE OpenInv'
  BY <1>18 DEF Clear, Goto, Inv, OpenInv, TypeOK, Mutating, GateInv, Parties
<1>19. ASSUME NEW m \in Mutators, RefuseMutation(m) PROVE OpenInv'
  BY <1>19 DEF RefuseMutation, Goto, Inv, OpenInv, TypeOK, Mutating, GateInv, Parties
<1>20. ASSUME NEW m \in Mutators, Mutate(m) PROVE OpenInv'
  <2>1. ASSUME NEW u \in Opens, pc[u] = "opening", PlaceOf[u] \in Claims[m]
        PROVE  FALSE
    <3>1. u \in Users /\ Counted(u)
      BY <2>1 DEF Inv, HeldInv
    <3>2. PlaceOf[u] \in cleared[m]
      BY <1>20, <2>1 DEF Mutate, Goto, Inv, GateInv
    <3>3. Tolerates(m, u)
      BY <3>1, <3>2 DEF Inv, ScanInv
    <3> QED BY <1>20, <2>1, <3>3 DEF Mutate, OpenInFlight, BeforeLaunch, Tolerates
  <2>2. pc'[m] = "mutating" /\ \A x \in Parties \ {m} : pc'[x] = pc[x]
    BY <1>20 DEF Mutate, Goto, Inv, TypeOK, Parties
  <2> QED BY <2>1, <2>2 DEF Inv, OpenInv, Mutating, Parties
<1>21. ASSUME NEW m \in Mutators, FindOpen(m) PROVE OpenInv'
  BY <1>21 DEF FindOpen, Goto, Inv, OpenInv, TypeOK, Mutating, GateInv, Parties
<1>22. ASSUME NEW m \in Mutators, Settle(m) PROVE OpenInv'
  BY <1>22 DEF Settle, Goto, Inv, OpenInv, TypeOK, Mutating, GateInv, Parties
<1>23. ASSUME NEW m \in Mutators, ReleaseGate(m) PROVE OpenInv'
  BY <1>23 DEF ReleaseGate, Goto, SetGate, Inv, OpenInv, TypeOK, Mutating, GateInv, Parties
<1>24. ASSUME NEW m \in Mutators, LeakGate(m) PROVE OpenInv'
  BY <1>24 DEF LeakGate, Goto, SetGate, Inv, OpenInv, TypeOK, Mutating, GateInv, Parties
<1>c. ASSUME NEW b \in Backends, Crash(b) PROVE OpenInv'
  BY <1>c DEF Crash, Inv, OpenInv, TypeOK, Mutating, GateInv, Parties
<1> QED
  BY <1>s, <1>1, <1>2, <1>3, <1>4, <1>5, <1>6, <1>7, <1>8, <1>9, <1>10, <1>11, <1>12, <1>13, <1>14, <1>15, <1>16, <1>17, <1>18, <1>19, <1>20, <1>21, <1>22, <1>23, <1>24, <1>c DEF Next, UserStep, MutatorStep

CountedPcs == {"opening", "using", "closing"}

\* Only an admission makes a hold counted.
LEMMA OnlyAdmissionsCount ==
  ASSUME Inv, [Next]_vars, NEW v \in Users, pc[v] \notin CountedPcs, pc'[v] \in CountedPcs
  PROVE  pc[v] = "admitted"
<1> USE ParametersAssumption
<1> USE DEF Inv, TypeOK, Parties, CountedPcs
<1>s. CASE UNCHANGED vars
  BY <1>s DEF vars
<1>1. ASSUME NEW u \in Users, Ask(u) PROVE pc[v] = "admitted"
  BY <1>1 DEF Ask, Goto
<1>2. ASSUME NEW u \in Users, Publish(u) PROVE pc[v] = "admitted"
  BY <1>2 DEF Publish, Goto
<1>3. ASSUME NEW u \in Users, Probe(u) PROVE pc[v] = "admitted"
  BY <1>3 DEF Probe
<1>4. ASSUME NEW u \in Users, Admit(u) PROVE pc[v] = "admitted"
  BY <1>4 DEF Admit, Goto
<1>5. ASSUME NEW u \in Users, Withdraw(u) PROVE pc[v] = "admitted"
  BY <1>5 DEF Withdraw, Goto
<1>6. ASSUME NEW u \in Users, Launch(u) PROVE pc[v] = "admitted"
  BY <1>6 DEF Launch, Goto
<1>7. ASSUME NEW u \in Users, Close(u) PROVE pc[v] = "admitted"
  BY <1>7 DEF Close, Goto
<1>8. ASSUME NEW u \in Users, Drop(u) PROVE pc[v] = "admitted"
  BY <1>8 DEF Drop, Goto
<1>9. ASSUME NEW u \in Users, Unpublish(u) PROVE pc[v] = "admitted"
  BY <1>9 DEF Unpublish, Goto
<1>10. ASSUME NEW u \in Users, LeakLease(u) PROVE pc[v] = "admitted"
  BY <1>10 DEF LeakLease, Goto
<1>11. ASSUME NEW m \in Mutators, Begin(m) PROVE pc[v] = "admitted"
  BY <1>11 DEF Begin, Goto
<1>12. ASSUME NEW m \in Mutators, TakeGate(m) PROVE pc[v] = "admitted"
  BY <1>12 DEF TakeGate
<1>13. ASSUME NEW m \in Mutators, FindBusy(m) PROVE pc[v] = "admitted"
  BY <1>13 DEF FindBusy, Goto
<1>14. ASSUME NEW m \in Mutators, QueueScan(m) PROVE pc[v] = "admitted"
  BY <1>14 DEF QueueScan, Goto
<1>15. ASSUME NEW m \in Mutators, ScanOwn(m) PROVE pc[v] = "admitted"
  BY <1>15 DEF ScanOwn, Goto
<1>16. ASSUME NEW m \in Mutators, ReadDir(m) PROVE pc[v] = "admitted"
  BY <1>16 DEF ReadDir, Goto
<1>17. ASSUME NEW m \in Mutators, PassLease(m) PROVE pc[v] = "admitted"
  BY <1>17 DEF PassLease
<1>18. ASSUME NEW m \in Mutators, Clear(m) PROVE pc[v] = "admitted"
  BY <1>18 DEF Clear, Goto
<1>19. ASSUME NEW m \in Mutators, RefuseMutation(m) PROVE pc[v] = "admitted"
  BY <1>19 DEF RefuseMutation, Goto
<1>20. ASSUME NEW m \in Mutators, Mutate(m) PROVE pc[v] = "admitted"
  BY <1>20 DEF Mutate, Goto
<1>21. ASSUME NEW m \in Mutators, FindOpen(m) PROVE pc[v] = "admitted"
  BY <1>21 DEF FindOpen, Goto
<1>22. ASSUME NEW m \in Mutators, Settle(m) PROVE pc[v] = "admitted"
  BY <1>22 DEF Settle, Goto
<1>23. ASSUME NEW m \in Mutators, ReleaseGate(m) PROVE pc[v] = "admitted"
  BY <1>23 DEF ReleaseGate, Goto, SetGate
<1>24. ASSUME NEW m \in Mutators, LeakGate(m) PROVE pc[v] = "admitted"
  BY <1>24 DEF LeakGate, Goto, SetGate
<1>c. ASSUME NEW b \in Backends, Crash(b) PROVE pc[v] = "admitted"
  BY <1>c DEF Crash
<1> QED
  BY <1>s, <1>1, <1>2, <1>3, <1>4, <1>5, <1>6, <1>7, <1>8, <1>9, <1>10, <1>11, <1>12, <1>13, <1>14, <1>15, <1>16, <1>17, <1>18, <1>19, <1>20, <1>21, <1>22, <1>23, <1>24, <1>c DEF Next, UserStep, MutatorStep

-----------------------------------------------------------------------------
\* The inductive invariant holds of every behaviour.
LEMMA Invariance == Spec => []Inv
<1>1. Init => Inv
  BY InitInv
<1>2. Inv /\ [Next]_vars => Inv'
  BY NextTypeOK, NextLockInv, NextHeldInv, NextPublishedInv, NextGateInv, NextScanInv, NextOpenInv
     DEF Inv
<1> QED BY <1>1, <1>2, PTL DEF Spec

\* Every state is well typed, and a mutator has scanned only behind its gates.
THEOREM TypesAreCorrect == Spec => []TypeOK
<1>1. Inv => TypeOK
  BY DEF Inv
<1> QED BY <1>1, Invariance, PTL

\* While a mutation runs, nobody uses what it disturbs except its own backend in
\* a tolerated kind, and no other mutation disturbs it.
THEOREM UsesAndMutationsExclude == Spec => []StructuralExclusion
<1>1. ASSUME Inv PROVE StructuralExclusion
  <2> SUFFICES ASSUME NEW m \in Mutators, Mutating(m)
               PROVE  /\ \A u \in Users : Counted(u) /\ PlaceOf[u] \in Claims[m] => Tolerates(m, u)
                      /\ \A n \in Mutators \ {m} : Mutating(n) => Claims[m] \intersect Claims[n] = {}
    BY DEF StructuralExclusion, Tolerates
  <2>1. taken[m] = Claims[m] /\ cleared[m] = Claims[m]
    BY <1>1 DEF Inv, GateInv, Mutating
  <2>2. \A u \in Users : Counted(u) /\ PlaceOf[u] \in Claims[m] => Tolerates(m, u)
    BY <1>1, <2>1 DEF Inv, ScanInv
  <2>3. ASSUME NEW n \in Mutators \ {m}, Mutating(n), NEW w \in Claims[m] \intersect Claims[n]
        PROVE  FALSE
    <3>1. w \in taken[n] /\ w \in taken[m]
      BY <1>1, <2>1, <2>3 DEF Inv, GateInv, Mutating
    <3> QED BY <1>1, <2>3, <3>1 DEF Inv, GateInv
  <2> QED BY <2>2, <2>3
<1> QED BY <1>1, Invariance, PTL

\* What a backend counts is on disk.
THEOREM CountedUsesArePublished == Spec => []CountedIsPublished
<1>1. Inv => CountedIsPublished
  BY DEF Inv, PublishedInv, CountedIsPublished
<1> QED BY <1>1, Invariance, PTL

\* No use is admitted behind a scan of its workspace, whatever kinds it tolerates.
THEOREM UsesAreNotAdmittedBehindScans == Spec => NoAdmissionBehindScan
<1>1. ASSUME Inv, Inv', [Next]_vars, NEW u \in Users, ~Counted(u), Counted(u)', NEW m \in Mutators
      PROVE  PlaceOf[u] \notin cleared[m]
  <2>1. pc[u] \notin CountedPcs /\ pc'[u] \in CountedPcs
    BY <1>1 DEF Inv, HeldInv, CountedPcs
  <2>2. pc[u] = "admitted"
    BY <1>1, <2>1, OnlyAdmissionsCount
  <2> QED BY <1>1, <2>2 DEF Inv, ScanInv
<1>2. Inv /\ Inv' /\ [Next]_vars =>
        [\A u \in Users : ~Counted(u) /\ Counted(u)' => \A m \in Mutators : PlaceOf[u] \notin cleared[m]]_vars
  BY <1>1
<1> QED BY <1>2, Invariance, PTL DEF Spec, NoAdmissionBehindScan

\* Nothing is launched into a checkout that a mutation moves or deletes.
THEOREM NothingIsLaunchedUnderMutation == Spec => NoLaunchUnderMutation
<1>1. Inv => [\A u \in Opens : pc[u] = "opening" /\ pc'[u] = "using" =>
                \A m \in Mutators : Mutating(m) => PlaceOf[u] \notin Claims[m]]_vars
  BY DEF Inv, OpenInv
<1> QED BY <1>1, Invariance, PTL DEF NoLaunchUnderMutation
===============================================================================
